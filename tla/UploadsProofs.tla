--------------------------- MODULE UploadsProofs ---------------------------
(***************************************************************************)
(* Proofs about Uploads, for any number of uploads.                        *)
(***************************************************************************)
EXTENDS Uploads, DataFacts

-----------------------------------------------------------------------------
(* Types *)

\* The message the server handles next.
LEMMA NextMessage ==
  ASSUME TypeOK, NEW kind, Handles(kind)
  PROVE  /\ Upload \in 1..uploads
         /\ Upload \in 1..MaxUploads
         /\ Upload \in Pieces
         /\ outbox' \in Seq(Messages)
         /\ outbox # << >>
         /\ outbox[1].kind = kind
         /\ Len(outbox) \in Nat \ {0}
         /\ Len(outbox') = Len(outbox) - 1
         /\ \A i \in 1..(Len(outbox) - 1) : outbox'[i] = outbox[i + 1]
         /\ uploads' = uploads
         /\ reading' = reading
         /\ overlapped' = overlapped
PROOF
<1>1. outbox # << >> /\ outbox \in Seq(Messages)
  BY DEF Handles, TypeOK
<1>2. Head(outbox) \in Messages
  BY <1>1, HeadAndTail
<1>3. Upload \in 1..uploads
  BY <1>2 DEF Messages, Upload
<1>4. uploads \in Nat /\ uploads <= MaxUploads /\ MaxUploads \in Nat
  BY MaxUploadsAssumption DEF TypeOK
<1>5. Upload \in 1..MaxUploads
  BY <1>3, <1>4
<1> QED
  BY <1>1, <1>3, <1>5, HeadAndTail DEF Handles, Pieces

\* Appending to the file of the open stream.
LEMMA AppendsType ==
  ASSUME TypeOK, isOpen, NEW piece \in Pieces, Appends(piece)
  PROVE  /\ files' \in [1..MaxUploads -> Seq(Pieces)]
         /\ uploadedFile \in 1..MaxUploads
         /\ uploadedFile \in 1..uploads
PROOF
<1>1. uploadedFile \in 1..uploads /\ uploadedFile \in 1..MaxUploads
  BY MaxUploadsAssumption DEF TypeOK, NoFile
<1>2. files[uploadedFile] \in Seq(Pieces)
  BY <1>1 DEF TypeOK
<1>3. Append(files[uploadedFile], piece) \in Seq(Pieces)
  BY <1>2, OneMore
<1> QED
  BY <1>1, <1>3 DEF Appends, TypeOK

\* Each step keeps the types.
LEMMA TypeStep ==
  ASSUME TypeOK, [Next]_vars
  PROVE  TypeOK'
PROOF
<1>1. CASE AddAlgorithm
  <2>1. /\ uploads' = uploads + 1 /\ uploads' \in 1..MaxUploads
        /\ NextID \in 1..uploads'
        /\ uploads \in Nat /\ 1..uploads \subseteq 1..uploads'
    BY <1>1, MaxUploadsAssumption DEF AddAlgorithm, TypeOK, NextID
  <2>2. Messages \subseteq Messages' /\ Answers \subseteq Answers'
    BY <2>1 DEF Messages, Answers
  <2>3. Message("start", NextID) \in Messages'
    BY <2>1 DEF Message, Messages
  <2>4. outbox \in Seq(Messages') /\ answers \in Seq(Answers')
    BY <2>2, LargerSet DEF TypeOK
  <2>5. outbox' \in Seq(Messages')
    BY <1>1, <2>3, <2>4, OneMore DEF AddAlgorithm
  <2>6. reading' \subseteq 1..uploads' /\ overlapped' \subseteq 1..uploads'
    BY <1>1, <2>1 DEF AddAlgorithm, TypeOK
  <2>7. uploadedFile' \in 0..uploads'
    BY <1>1, <2>1 DEF AddAlgorithm, TypeOK, fileVars
  <2> QED
    BY <1>1, <2>1, <2>4, <2>5, <2>6, <2>7 DEF AddAlgorithm, TypeOK, fileVars
<1>2. ASSUME NEW u \in 1..MaxUploads, OnLoad(u)
      PROVE  TypeOK'
  <2>1. u \in 1..uploads
    BY <1>2 DEF OnLoad, TypeOK
  <2>2. Contents(u) \in Seq(Messages)
    BY <2>1 DEF Contents, Message, Messages
  <2>3. outbox' \in Seq(Messages)
    BY <1>2, <2>2, ConcatProperties DEF OnLoad, TypeOK
  <2> QED
    BY <1>2, <2>3 DEF OnLoad, TypeOK, fileVars, Messages, Answers
<1>3. ASSUME NEW u \in 1..MaxUploads, ReadFails(u)
      PROVE  TypeOK'
  BY <1>3 DEF ReadFails, TypeOK, fileVars, Messages, Answers
<1>4. CASE Start
  <2>1. Handles("start")
    BY <1>4 DEF Start
  <2>2. Append(files[Upload], Header) \in Seq(Pieces)
    BY <2>1, NextMessage, OneMore DEF TypeOK, Pieces
  <2>3. files' \in [1..MaxUploads -> Seq(Pieces)]
    BY <1>4, <2>1, <2>2, NextMessage DEF Start, TypeOK
  <2>4. /\ Upload \in 1..uploads /\ outbox' \in Seq(Messages)
        /\ uploads' = uploads /\ reading' = reading /\ overlapped' = overlapped
    BY <2>1, NextMessage
  <2>5. uploadedFile' \in 0..uploads /\ uploadedFile' # NoFile
    BY <1>4, <2>4 DEF Start, NoFile
  <2>6. /\ isOpen' \in BOOLEAN /\ uploadFileSuccess' \in BOOLEAN
        /\ answers' = answers /\ failed' = failed
    BY <1>4 DEF Start, AtStart
  <2> QED
    BY <2>3, <2>4, <2>5, <2>6 DEF TypeOK, Messages, Answers
<1>5. CASE StartFails
  <2>1. Handles("start")
    BY <1>5 DEF StartFails
  <2>2. /\ Upload \in 1..uploads /\ outbox' \in Seq(Messages)
        /\ uploads' = uploads /\ reading' = reading /\ overlapped' = overlapped
    BY <2>1, NextMessage
  <2>3. /\ uploadFileSuccess' \in BOOLEAN /\ failed' \in BOOLEAN
        /\ files' = files /\ answers' = answers
    BY <1>5 DEF StartFails
  <2>4. CASE UNCHANGED <<uploadedFile, isOpen>>
    BY <2>2, <2>3, <2>4 DEF TypeOK, Messages, Answers
  <2>5. CASE uploadedFile' = Upload /\ isOpen' = TRUE
    <3>1. uploadedFile' \in 0..uploads /\ uploadedFile' # NoFile /\ isOpen' \in BOOLEAN
      BY <2>2, <2>5 DEF NoFile
    <3> QED
      BY <2>2, <2>3, <3>1 DEF TypeOK, Messages, Answers
  <2> QED
    BY <1>5, <2>4, <2>5 DEF StartFails
<1>6. CASE Write
  BY <1>6, NextMessage, AppendsType DEF Write, TypeOK, Messages, Answers
<1>7. CASE WriteFails
  BY <1>7, NextMessage DEF WriteFails, TypeOK, AfterFailure, Messages, Answers
<1>8. CASE End
  <2>1. Handles("end") /\ isOpen /\ Appends(Footer) /\ Footer \in Pieces
    BY <1>8 DEF End, Pieces
  <2>2. [upload |-> Upload, file |-> uploadedFile, success |-> uploadFileSuccess]
          \in Answers
    BY <2>1, NextMessage, AppendsType DEF Answers, TypeOK
  <2>3. answers' \in Seq(Answers)
    BY <1>8, <2>2, OneMore DEF End, TypeOK
  <2> QED
    BY <1>8, <2>1, <2>3, NextMessage, AppendsType DEF End, TypeOK, Messages, Answers
<1>9. CASE EndFails
  BY <1>9, NextMessage DEF EndFails, TypeOK, Messages, Answers
<1>10. CASE HandlerThrows
  <2>1. \E kind : Handles(kind)
    BY <1>10 DEF HandlerThrows
  <2> QED
    BY <1>10, <2>1, NextMessage DEF HandlerThrows, TypeOK, fileVars, Messages, Answers
<1>11. CASE UNCHANGED vars
  BY <1>11 DEF vars, fileVars, TypeOK, Messages, Answers
<1> QED
  BY <1>1, <1>2, <1>3, <1>4, <1>5, <1>6, <1>7, <1>8, <1>9, <1>10, <1>11
     DEF Next, OnMessage

\* Types of the initial state.
LEMMA InitType ==
  ASSUME Init
  PROVE  TypeOK
PROOF
<1>1. files \in [1..MaxUploads -> Seq(Pieces)]
  <2>1. << >> \in Seq(Pieces)
    OBVIOUS
  <2> QED
    BY <2>1 DEF Init
<1>2. outbox \in Seq(Messages) /\ answers \in Seq(Answers)
  BY DEF Init
<1>3. uploads \in 0..MaxUploads
  BY MaxUploadsAssumption DEF Init
<1>4. reading \subseteq 1..uploads /\ overlapped \subseteq 1..uploads
  BY DEF Init
<1>5. uploadedFile \in 0..uploads
  BY DEF Init, NoFile
<1>6. /\ isOpen \in BOOLEAN /\ ~isOpen
      /\ uploadFileSuccess \in BOOLEAN /\ failed \in BOOLEAN
  BY Zenon DEF Init
<1> QED
  BY <1>1, <1>2, <1>3, <1>4, <1>5, <1>6 DEF TypeOK

\* Every variable keeps its type: the type invariant holds throughout.
THEOREM TypeCorrect == Spec => []TypeOK
PROOF
<1>1. Init => TypeOK
  BY InitType
<1>2. TypeOK /\ [Next]_vars => TypeOK'
  BY TypeStep
<1> QED
  BY <1>1, <1>2, PTL DEF Spec
-----------------------------------------------------------------------------
(* The inductive invariant *)

\* A page sends the contents of a file and "end" together.
Paired ==
  /\ \A i \in 1..Len(outbox) : outbox[i].kind = "data" =>
       i < Len(outbox) /\ outbox[i + 1].kind = "end"
  /\ \A i \in 2..Len(outbox) : outbox[i].kind = "end" => outbox[i - 1].kind = "data"

\* No file is there of an upload to come, or whose "start" was not handled, and
\* there is one "start" of each.
Fresh ==
  /\ \A u \in (uploads + 1)..MaxUploads : files[u] = << >>
  /\ \A i \in 1..Len(outbox) : outbox[i].kind = "start" =>
       /\ files[outbox[i].upload] = << >>
       /\ uploadedFile # outbox[i].upload
       /\ \A j \in 1..Len(outbox) :
            outbox[j].kind = "start" /\ outbox[j].upload = outbox[i].upload => j = i

\* The message the server handles next is an "end".
AtEnd == outbox # << >> /\ outbox[1].kind = "end"

\* What is in the file that is being written, if nothing failed so far.
StreamIsGood ==
  isOpen /\ uploadFileSuccess =>
    IF AtEnd THEN \E u \in 1..uploads : files[uploadedFile] = <<Header, u>>
    ELSE files[uploadedFile] = <<Header>>

\* A file that was called a success is not the one being written.
FinishedIsClosed ==
  \A i \in 1..Len(answers) :
    answers[i].success => ~(isOpen /\ uploadedFile = answers[i].file)

IInv ==
  /\ TypeOK
  /\ Paired
  /\ Fresh
  /\ StreamIsGood
  /\ FinishedIsClosed
  /\ SuccessMeansWholeFile

\* What "start", "data" and "end" make of a file that is not there yet.
LEMMA Growth ==
  ASSUME NEW u
  PROVE  /\ Append(<< >>, Header) = <<Header>>
         /\ Append(<<Header>>, u) = <<Header, u>>
         /\ Append(<<Header, u>>, Footer) = Whole(u)
         /\ Whole(u) # << >>
PROOF
<1> DEFINE S == {Header, u, Footer}
<1>1. /\ << >> \in Seq(S) /\ Len(<< >>) = 0
      /\ <<Header>> \in Seq(S) /\ Len(<<Header>>) = 1 /\ <<Header>>[1] = Header
      /\ <<Header, u>> \in Seq(S) /\ Len(<<Header, u>>) = 2
      /\ <<Header, u>>[1] = Header /\ <<Header, u>>[2] = u
      /\ Whole(u) \in Seq(S) /\ Len(Whole(u)) = 3
      /\ Whole(u)[1] = Header /\ Whole(u)[2] = u /\ Whole(u)[3] = Footer
  BY DEF Whole
<1>2. Header \in S /\ u \in S /\ Footer \in S
  OBVIOUS
<1> HIDE DEF S
<1>3. Append(<< >>, Header) = <<Header>>
  <2>1. /\ Append(<< >>, Header) \in Seq(S) /\ Len(Append(<< >>, Header)) = 1
        /\ Append(<< >>, Header)[1] = Header
    BY <1>1, <1>2, OneMore
  <2> QED
    BY <1>1, <2>1, SeqEqual
<1>4. Append(<<Header>>, u) = <<Header, u>>
  <2>1. /\ Append(<<Header>>, u) \in Seq(S) /\ Len(Append(<<Header>>, u)) = 2
        /\ Append(<<Header>>, u)[1] = Header
        /\ Append(<<Header>>, u)[2] = u
    BY <1>1, <1>2, OneMore
  <2>2. \A i \in 1..2 : Append(<<Header>>, u)[i] = <<Header, u>>[i]
    BY <1>1, <2>1
  <2> DEFINE s == Append(<<Header>>, u)
             t == <<Header, u>>
  <2>3. /\ s \in Seq(S) /\ Len(s) = 2 /\ t \in Seq(S) /\ Len(t) = 2
        /\ \A i \in 1..2 : s[i] = t[i]
    BY <1>1, <2>1, <2>2
  <2> HIDE DEF s, t
  <2>4. s = t
    BY <2>3, SeqEqual
  <2> QED
    BY <2>4 DEF s, t
<1>5. Append(<<Header, u>>, Footer) = Whole(u)
  <2>1. /\ Append(<<Header, u>>, Footer) \in Seq(S)
        /\ Len(Append(<<Header, u>>, Footer)) = 3
        /\ Append(<<Header, u>>, Footer)[1] = Header
        /\ Append(<<Header, u>>, Footer)[2] = u
        /\ Append(<<Header, u>>, Footer)[3] = Footer
    BY <1>1, <1>2, OneMore
  <2> QED
    BY <1>1, <2>1, SeqEqual
<1>6. Whole(u) # << >>
  <2>1. Whole(u)[3] = Footer /\ Len(Whole(u)) # Len(<< >>)
    BY <1>1
  <2> QED
    BY ONLY <2>1
<1> QED
  BY <1>3, <1>4, <1>5, <1>6

\* The messages of the outbox are about uploads that were begun.
LEMMA Waiting ==
  ASSUME TypeOK, NEW i \in 1..Len(outbox)
  PROVE  /\ outbox[i] \in Messages
         /\ outbox[i].upload \in 1..uploads
         /\ outbox[i].upload \in 1..MaxUploads
PROOF
<1>1. outbox[i] \in Messages
  BY DEF TypeOK
<1> QED
  BY <1>1, MaxUploadsAssumption DEF Messages, TypeOK

\* The answers are about files of uploads that were begun.
LEMMA Answered ==
  ASSUME TypeOK, NEW i \in 1..Len(answers)
  PROVE  answers[i].file \in 1..MaxUploads
PROOF
<1>1. answers[i] \in Answers
  BY DEF TypeOK
<1> QED
  BY <1>1, MaxUploadsAssumption DEF Answers, TypeOK

\* When the server has read a message, "data" is still followed by its "end",
\* and "end" comes next only after "data".
LEMMA ReadingKeepsPairs ==
  ASSUME TypeOK, Paired, NEW kind, Handles(kind)
  PROVE  /\ Paired'
         /\ kind = "data" => AtEnd'
         /\ kind # "data" => ~AtEnd'
PROOF
<1>1. /\ Len(outbox) \in Nat \ {0}
      /\ outbox[1].kind = kind
      /\ outbox' \in Seq(Messages)
      /\ Len(outbox') = Len(outbox) - 1
      /\ \A i \in 1..(Len(outbox) - 1) : outbox'[i] = outbox[i + 1]
  BY NextMessage
<1>2. \A i \in 1..Len(outbox') : i + 1 \in 1..Len(outbox) /\ outbox'[i] = outbox[i + 1]
  BY <1>1
<1>3. ASSUME NEW i \in 1..Len(outbox'), outbox'[i].kind = "data"
      PROVE  i < Len(outbox') /\ outbox'[i + 1].kind = "end"
  <2>1. i + 1 < Len(outbox) /\ outbox[i + 2].kind = "end"
    BY <1>1, <1>2, <1>3 DEF Paired
  <2> QED
    BY <1>1, <1>2, <2>1
<1>4. ASSUME NEW i \in 2..Len(outbox'), outbox'[i].kind = "end"
      PROVE  outbox'[i - 1].kind = "data"
  <2>1. i + 1 \in 2..Len(outbox) /\ outbox[i + 1].kind = "end"
    BY <1>1, <1>2, <1>4
  <2>2. outbox[i].kind = "data"
    BY <2>1 DEF Paired
  <2> QED
    BY <1>1, <1>2, <2>2
<1>5. kind = "data" => AtEnd'
  <2> SUFFICES ASSUME kind = "data" PROVE AtEnd'
    OBVIOUS
  <2>1. 1 < Len(outbox) /\ outbox[2].kind = "end"
    BY <1>1 DEF Paired
  <2>2. outbox'[1].kind = "end" /\ outbox' # << >>
    BY <1>1, <1>2, <2>1
  <2> QED
    BY <2>2 DEF AtEnd
<1>6. kind # "data" => ~AtEnd'
  <2> SUFFICES ASSUME AtEnd' PROVE kind = "data"
    OBVIOUS
  <2>1. 2 \in 2..Len(outbox) /\ outbox[2].kind = "end"
    BY <1>1, <1>2 DEF AtEnd
  <2>2. outbox[1].kind = "data"
    BY <2>1 DEF Paired
  <2> QED
    BY <1>1, <2>2
<1> QED
  BY <1>3, <1>4, <1>5, <1>6 DEF Paired

\* Files that are not there yet are not there after a message was read, unless
\* it was their "start".
LEMMA ReadingKeepsFresh ==
  ASSUME TypeOK, Fresh, NEW kind, Handles(kind),
         \/ uploadedFile' = uploadedFile
         \/ kind = "start" /\ uploadedFile' = Upload,
         \A u \in 1..MaxUploads :
           files'[u] # files[u] =>
             \/ u = uploadedFile
             \/ kind = "start" /\ u = Upload
  PROVE  Fresh'
PROOF
<1>1. /\ Len(outbox) \in Nat \ {0}
      /\ outbox[1].kind = kind
      /\ outbox[1].upload = Upload
      /\ Upload \in 1..uploads
      /\ uploads' = uploads
      /\ uploads \in Nat
      /\ MaxUploads \in Nat
      /\ uploadedFile \in 0..uploads
      /\ Len(outbox') = Len(outbox) - 1
      /\ \A i \in 1..(Len(outbox) - 1) : outbox'[i] = outbox[i + 1]
  BY NextMessage, HeadAndTail, MaxUploadsAssumption DEF TypeOK, Upload
<1>2. \A u \in (uploads' + 1)..MaxUploads : files'[u] = << >>
  BY <1>1 DEF Fresh
<1>3. ASSUME NEW i \in 1..Len(outbox'), outbox'[i].kind = "start"
      PROVE  /\ files'[outbox'[i].upload] = << >>
             /\ uploadedFile' # outbox'[i].upload
             /\ \A j \in 1..Len(outbox') :
                  outbox'[j].kind = "start" /\ outbox'[j].upload = outbox'[i].upload
                    => j = i
  <2>1. i + 1 \in 1..Len(outbox) /\ outbox'[i] = outbox[i + 1]
    BY <1>1
  <2>2. /\ files[outbox[i + 1].upload] = << >>
        /\ uploadedFile # outbox[i + 1].upload
        /\ \A j \in 1..Len(outbox) :
             outbox[j].kind = "start" /\ outbox[j].upload = outbox[i + 1].upload
               => j = i + 1
    BY <1>3, <2>1 DEF Fresh
  <2>3. kind = "start" => Upload # outbox[i + 1].upload
    BY <1>1, <2>1, <2>2
  <2>4. outbox[i + 1].upload \in 1..MaxUploads
    BY <2>1, Waiting
  <2>5. files'[outbox[i + 1].upload] = << >> /\ uploadedFile' # outbox[i + 1].upload
    BY <2>2, <2>3, <2>4
  <2>6. ASSUME NEW j \in 1..Len(outbox'), outbox'[j].kind = "start",
               outbox'[j].upload = outbox'[i].upload
        PROVE  j = i
    <3>1. j + 1 \in 1..Len(outbox) /\ outbox'[j] = outbox[j + 1]
      BY <1>1
    <3>2. j + 1 = i + 1
      BY <2>1, <2>2, <2>6, <3>1
    <3> QED
      BY <3>2
  <2> QED
    BY <2>1, <2>5, <2>6
<1> QED
  BY <1>2, <1>3 DEF Fresh

\* Each step keeps the inductive invariant.
LEMMA InvStep ==
  ASSUME IInv, [Next]_vars
  PROVE  IInv'
PROOF
<1>0. TypeOK /\ TypeOK'
  BY TypeStep DEF IInv
<1>1. CASE AddAlgorithm
  <2>1. /\ outbox' = Append(outbox, Message("start", uploads + 1))
        /\ uploads' = uploads + 1
        /\ uploads \in Nat /\ Len(outbox) \in Nat
        /\ uploads + 1 \in 1..MaxUploads
        /\ UNCHANGED <<fileVars, answers>>
    BY <1>0, <1>1, MaxUploadsAssumption DEF AddAlgorithm, NextID, TypeOK
  <2>2. /\ Len(outbox') = Len(outbox) + 1
        /\ \A i \in 1..Len(outbox) : outbox'[i] = outbox[i]
        /\ outbox'[Len(outbox) + 1].kind = "start"
        /\ outbox'[Len(outbox) + 1].upload = uploads + 1
    BY <1>0, <2>1 DEF TypeOK, Message
  <2>3. Paired'
    <3>1. ASSUME NEW i \in 1..Len(outbox'), outbox'[i].kind = "data"
          PROVE  i < Len(outbox') /\ outbox'[i + 1].kind = "end"
      <4>1. i \in 1..Len(outbox) /\ outbox[i].kind = "data"
        BY <2>1, <2>2, <3>1
      <4>2. i < Len(outbox) /\ outbox[i + 1].kind = "end"
        BY <4>1 DEF IInv, Paired
      <4> QED
        BY <2>1, <2>2, <4>1, <4>2
    <3>2. ASSUME NEW i \in 2..Len(outbox'), outbox'[i].kind = "end"
          PROVE  outbox'[i - 1].kind = "data"
      <4>1. i \in 2..Len(outbox) /\ outbox[i].kind = "end"
        BY <2>1, <2>2, <3>2
      <4>2. outbox[i - 1].kind = "data"
        BY <4>1 DEF IInv, Paired
      <4> QED
        BY <2>1, <2>2, <4>1, <4>2
    <3> QED
      BY <3>1, <3>2 DEF Paired
  <2>4. Fresh'
    <3>1. \A i \in 1..Len(outbox) : outbox[i].upload # uploads + 1
      BY <1>0, <2>1, Waiting
    <3>2. uploadedFile # uploads + 1 /\ files[uploads + 1] = << >>
      BY <1>0, <2>1 DEF IInv, Fresh, TypeOK
    <3> QED
      BY <2>1, <2>2, <3>1, <3>2 DEF IInv, Fresh, fileVars
  <2>5. AtEnd' = AtEnd
    <3>1. CASE outbox = << >>
      BY <2>2, <3>1 DEF AtEnd
    <3>2. CASE outbox # << >>
      <4>1. 1 \in 1..Len(outbox) /\ outbox' # << >>
        BY <1>0, <2>2, <3>2, HeadAndTail DEF TypeOK
      <4> QED
        BY <2>2, <3>2, <4>1 DEF AtEnd
    <3> QED
      BY <3>1, <3>2
  <2>6. StreamIsGood'
    <3>1. 1..uploads \subseteq 1..uploads'
      BY <2>1
    <3> QED
      BY <2>1, <2>5, <3>1 DEF IInv, StreamIsGood, fileVars
  <2>7. FinishedIsClosed' /\ SuccessMeansWholeFile'
    <3>1. 1..uploads \subseteq 1..uploads'
      BY <2>1
    <3> QED
      BY <2>1, <3>1 DEF IInv, FinishedIsClosed, SuccessMeansWholeFile, fileVars
  <2> QED
    BY <1>0, <2>3, <2>4, <2>6, <2>7 DEF IInv
<1>2. ASSUME NEW u \in 1..MaxUploads, OnLoad(u)
      PROVE  IInv'
  <2>1. /\ outbox' = outbox \o Contents(u)
        /\ Len(outbox) \in Nat
        /\ UNCHANGED <<uploads, fileVars, answers>>
    BY <1>0, <1>2 DEF OnLoad, TypeOK
  <2>2. /\ Len(outbox') = Len(outbox) + 2
        /\ \A i \in 1..Len(outbox) : outbox'[i] = outbox[i]
        /\ outbox'[Len(outbox) + 1].kind = "data"
        /\ outbox'[Len(outbox) + 2].kind = "end"
    <3>1. u \in 1..uploads
      BY <1>0, <1>2 DEF OnLoad, TypeOK
    <3>2. /\ Contents(u) \in Seq(Messages) /\ Len(Contents(u)) = 2
          /\ Contents(u)[1].kind = "data" /\ Contents(u)[2].kind = "end"
      BY <3>1 DEF Contents, Message, Messages
    <3>3. /\ Len(outbox \o Contents(u)) = Len(outbox) + Len(Contents(u))
          /\ \A i \in 1..(Len(outbox) + Len(Contents(u))) :
               (outbox \o Contents(u))[i] =
                 IF i <= Len(outbox) THEN outbox[i] ELSE Contents(u)[i - Len(outbox)]
      BY <1>0, <3>2, ConcatProperties DEF TypeOK
    <3> HIDE DEF Contents
    <3> QED
      BY <2>1, <3>2, <3>3
  <2>3. Paired'
    <3>1. ASSUME NEW i \in 1..Len(outbox'), outbox'[i].kind = "data"
          PROVE  i < Len(outbox') /\ outbox'[i + 1].kind = "end"
      <4>1. CASE i \in 1..Len(outbox)
        <5>1. i < Len(outbox) /\ outbox[i + 1].kind = "end"
          BY <2>2, <3>1, <4>1 DEF IInv, Paired
        <5> QED
          BY <2>1, <2>2, <4>1, <5>1
      <4> QED
        BY <2>1, <2>2, <3>1, <4>1
    <3>2. ASSUME NEW i \in 2..Len(outbox'), outbox'[i].kind = "end"
          PROVE  outbox'[i - 1].kind = "data"
      <4>1. CASE i \in 2..Len(outbox)
        <5>1. outbox[i - 1].kind = "data"
          BY <2>2, <3>2, <4>1 DEF IInv, Paired
        <5> QED
          BY <2>1, <2>2, <4>1, <5>1
      <4> QED
        BY <2>1, <2>2, <3>2, <4>1
    <3> QED
      BY <3>1, <3>2 DEF Paired
  <2>4. Fresh'
    <3>1. /\ files' = files /\ uploadedFile' = uploadedFile /\ uploads' = uploads
      BY <2>1 DEF fileVars
    <3>2. \A i \in 1..Len(outbox') : outbox'[i].kind = "start" =>
            i \in 1..Len(outbox) /\ outbox'[i] = outbox[i]
      BY <2>1, <2>2
    <3>3. ASSUME NEW i \in 1..Len(outbox'), outbox'[i].kind = "start"
          PROVE  /\ files'[outbox'[i].upload] = << >>
                 /\ uploadedFile' # outbox'[i].upload
                 /\ \A j \in 1..Len(outbox') :
                      outbox'[j].kind = "start" /\ outbox'[j].upload = outbox'[i].upload
                        => j = i
      BY <3>1, <3>2, <3>3 DEF IInv, Fresh
    <3> QED
      BY <3>1, <3>3 DEF IInv, Fresh
  <2>5. AtEnd' = AtEnd
    <3>1. CASE outbox = << >>
      <4>1. Len(outbox) = 0 /\ outbox'[1].kind = "data"
        BY <2>2, <3>1
      <4> QED
        BY <3>1, <4>1 DEF AtEnd
    <3>2. CASE outbox # << >>
      <4>1. 1 \in 1..Len(outbox) /\ outbox' # << >>
        BY <1>0, <2>2, <3>2, HeadAndTail DEF TypeOK
      <4> QED
        BY <2>2, <3>2, <4>1 DEF AtEnd
    <3> QED
      BY <3>1, <3>2
  <2> QED
    BY <1>0, <2>1, <2>3, <2>4, <2>5
       DEF IInv, StreamIsGood, FinishedIsClosed, SuccessMeansWholeFile, fileVars
<1>3. ASSUME NEW u \in 1..MaxUploads, ReadFails(u)
      PROVE  IInv'
  BY <1>0, <1>3
     DEF ReadFails, IInv, Paired, Fresh, StreamIsGood, AtEnd, FinishedIsClosed,
         SuccessMeansWholeFile, fileVars
<1>4. ASSUME NEW kind, Handles(kind), kind = "start", uploadedFile' = Upload,
             answers' = answers,
             \/ files' = files /\ ~uploadFileSuccess'
             \/ files' = [files EXCEPT ![Upload] = Append(@, Header)]
      PROVE  IInv'
  <2>1. /\ Upload \in 1..MaxUploads
        /\ files[Upload] = << >>
        /\ uploads' = uploads
        /\ files \in [1..MaxUploads -> Seq(Pieces)]
    <3>1. 1 \in 1..Len(outbox) /\ outbox[1].kind = "start" /\ outbox[1].upload = Upload
      BY <1>0, <1>4, NextMessage, HeadAndTail DEF TypeOK, Upload
    <3> QED
      BY <1>0, <1>4, <3>1, NextMessage DEF IInv, Fresh, TypeOK
  <2>2. Paired' /\ ~AtEnd'
    BY <1>0, <1>4, ReadingKeepsPairs DEF IInv
  <2>3. Fresh'
    BY <1>0, <1>4, <2>1, ReadingKeepsFresh DEF IInv
  <2>4. StreamIsGood'
    <3>1. uploadFileSuccess' => files'[Upload] = <<Header>>
      BY <1>4, <2>1, Growth
    <3> QED
      BY <1>4, <2>2, <3>1 DEF StreamIsGood
  <2>5. ASSUME NEW i \in 1..Len(answers'), answers'[i].success
        PROVE  /\ ~(isOpen' /\ uploadedFile' = answers'[i].file)
               /\ \E u \in 1..uploads' : files'[answers'[i].file] = Whole(u)
    <3>1. PICK u \in 1..uploads : files[answers[i].file] = Whole(u)
      BY <1>4, <2>5 DEF IInv, SuccessMeansWholeFile
    <3>2. answers[i].file # Upload
      BY <2>1, <3>1, Growth
    <3>3. files'[answers[i].file] = Whole(u)
      <4>1. answers[i].file \in 1..MaxUploads
        BY <1>0, <1>4, <2>5, Answered
      <4> QED
        BY <1>4, <2>1, <3>1, <3>2, <4>1
    <3> QED
      BY <1>4, <2>1, <3>2, <3>3
  <2> QED
    BY <1>0, <2>2, <2>3, <2>4, <2>5 DEF IInv, FinishedIsClosed, SuccessMeansWholeFile
<1>5. CASE Start
  BY <1>4, <1>5 DEF Start
<1>6. ASSUME NEW kind, Handles(kind), ~uploadFileSuccess' \/ uploadedFile = NoFile,
             UNCHANGED <<uploadedFile, isOpen, files, answers>>
      PROVE  IInv'
  <2>1. Paired'
    BY <1>0, <1>6, ReadingKeepsPairs DEF IInv
  <2>2. Fresh'
    BY <1>0, <1>6, ReadingKeepsFresh DEF IInv
  <2>3. StreamIsGood'
    BY <1>0, <1>6 DEF StreamIsGood, TypeOK
  <2>4. uploads' = uploads
    BY <1>0, <1>6, NextMessage
  <2> QED
    BY <1>0, <1>6, <2>1, <2>2, <2>3, <2>4
       DEF IInv, FinishedIsClosed, SuccessMeansWholeFile
<1>7. CASE StartFails
  <2>1. CASE UNCHANGED <<uploadedFile, isOpen>>
    BY <1>6, <1>7, <2>1 DEF StartFails
  <2>2. CASE uploadedFile' = Upload /\ isOpen' = TRUE
    BY <1>4, <1>7, <2>2 DEF StartFails
  <2> QED
    BY <1>7, <2>1, <2>2 DEF StartFails
<1>8. CASE WriteFails
  BY <1>6, <1>8 DEF WriteFails, AfterFailure
<1>9. CASE EndFails
  BY <1>6, <1>9 DEF EndFails
<1>10. CASE HandlerThrows
  BY <1>6, <1>10 DEF HandlerThrows, fileVars
<1>11. CASE Write
  <2>1. /\ Handles("data") /\ isOpen /\ Appends(Upload)
        /\ UNCHANGED <<uploadedFile, isOpen, uploadFileSuccess, answers>>
    BY <1>11 DEF Write
  <2>2. /\ Upload \in 1..uploads /\ Upload \in Pieces
        /\ uploads' = uploads
        /\ outbox # << >> /\ outbox[1].kind = "data"
    BY <1>0, <2>1, NextMessage
  <2>3. uploadedFile \in 1..MaxUploads
    BY <1>0, <2>1, <2>2, AppendsType
  <2>4. /\ files'[uploadedFile] = Append(files[uploadedFile], Upload)
        /\ \A u \in 1..MaxUploads : u # uploadedFile => files'[u] = files[u]
    BY <1>0, <2>1, <2>3 DEF Appends, TypeOK
  <2>5. Paired' /\ AtEnd'
    BY <1>0, <2>1, ReadingKeepsPairs DEF IInv
  <2>6. Fresh'
    BY <1>0, <2>1, <2>4, ReadingKeepsFresh DEF IInv
  <2>7. StreamIsGood'
    <3>1. ~AtEnd
      BY <2>2 DEF AtEnd
    <3>2. uploadFileSuccess => files[uploadedFile] = <<Header>>
      BY <2>1, <3>1 DEF IInv, StreamIsGood
    <3>3. uploadFileSuccess => files'[uploadedFile] = <<Header, Upload>>
      BY <2>4, <3>2, Growth
    <3> QED
      BY <2>1, <2>2, <2>5, <3>3 DEF StreamIsGood
  <2>8. FinishedIsClosed' /\ SuccessMeansWholeFile'
    <3>1. \A i \in 1..Len(answers) : answers[i].file \in 1..MaxUploads
      BY <1>0, Answered
    <3> QED
      BY <2>1, <2>2, <2>4, <3>1 DEF IInv, FinishedIsClosed, SuccessMeansWholeFile
  <2> QED
    BY <1>0, <2>5, <2>6, <2>7, <2>8 DEF IInv
<1>12. CASE End
  <2> DEFINE answer == [upload |-> Upload, file |-> uploadedFile,
                        success |-> uploadFileSuccess]
  <2>1. /\ Handles("end") /\ isOpen /\ Appends(Footer) /\ ~isOpen'
        /\ uploadedFile' = uploadedFile
        /\ answers' = Append(answers, answer)
    BY <1>12 DEF End
  <2>2. /\ uploads' = uploads
        /\ outbox # << >> /\ outbox[1].kind = "end"
    BY <1>0, <2>1, NextMessage
  <2>3. uploadedFile \in 1..MaxUploads
    BY <1>0, <2>1, AppendsType DEF Pieces
  <2>4. /\ files'[uploadedFile] = Append(files[uploadedFile], Footer)
        /\ \A u \in 1..MaxUploads : u # uploadedFile => files'[u] = files[u]
    BY <1>0, <2>1, <2>3 DEF Appends, TypeOK
  <2>5. Paired'
    BY <1>0, <2>1, ReadingKeepsPairs DEF IInv
  <2>6. Fresh'
    BY <1>0, <2>1, <2>4, ReadingKeepsFresh DEF IInv
  <2>7. StreamIsGood' /\ FinishedIsClosed'
    BY <2>1 DEF StreamIsGood, FinishedIsClosed
  <2>8. uploadFileSuccess => \E u \in 1..uploads : files'[uploadedFile] = Whole(u)
    <3>1. SUFFICES ASSUME uploadFileSuccess
                   PROVE  \E u \in 1..uploads : files'[uploadedFile] = Whole(u)
      OBVIOUS
    <3>2. PICK u \in 1..uploads : files[uploadedFile] = <<Header, u>>
      BY <2>1, <2>2, <3>1 DEF IInv, StreamIsGood, AtEnd
    <3>3. files'[uploadedFile] = Whole(u)
      BY <2>4, <3>2, Growth
    <3> QED
      BY <3>3
  <2>9. SuccessMeansWholeFile'
    <3>1. /\ Len(answers) \in Nat
          /\ Len(answers') = Len(answers) + 1
          /\ \A i \in 1..Len(answers) : answers'[i] = answers[i]
          /\ answers'[Len(answers) + 1] = answer
      BY <1>0, <2>1 DEF TypeOK
    <3>2. ASSUME NEW i \in 1..Len(answers), answers[i].success
          PROVE  \E u \in 1..uploads : files'[answers[i].file] = Whole(u)
      <4>1. PICK u \in 1..uploads : files[answers[i].file] = Whole(u)
        BY <3>2 DEF IInv, SuccessMeansWholeFile
      <4>2. answers[i].file # uploadedFile
        BY <2>1, <3>2 DEF IInv, FinishedIsClosed
      <4>3. answers[i].file \in 1..MaxUploads
        BY <1>0, <3>2, Answered
      <4> QED
        BY <2>4, <4>1, <4>2, <4>3
    <3>3. answer.file = uploadedFile /\ answer.success = uploadFileSuccess
      OBVIOUS
    <3> HIDE DEF answer
    <3>4. ASSUME NEW i \in 1..Len(answers'), answers'[i].success
          PROVE  \E u \in 1..uploads' : files'[answers'[i].file] = Whole(u)
      <4>1. CASE i \in 1..Len(answers)
        BY <2>2, <3>1, <3>2, <3>4, <4>1
      <4>2. CASE i = Len(answers) + 1
        BY <2>2, <2>8, <3>1, <3>3, <3>4, <4>2
      <4> QED
        BY <3>1, <4>1, <4>2
    <3> QED
      BY <3>4 DEF SuccessMeansWholeFile
  <2> QED
    BY <1>0, <2>5, <2>6, <2>7, <2>9 DEF IInv
<1>13. CASE UNCHANGED vars
  BY <1>0, <1>13
     DEF vars, fileVars, IInv, Paired, Fresh, StreamIsGood, AtEnd, FinishedIsClosed,
         SuccessMeansWholeFile
<1> QED
  BY <1>1, <1>2, <1>3, <1>5, <1>7, <1>8, <1>9, <1>10, <1>11, <1>12, <1>13
     DEF Next, OnMessage

\* It holds of the initial state.
LEMMA InitInv ==
  ASSUME Init
  PROVE  IInv
PROOF
<1>1. TypeOK
  BY InitType
<1>2. outbox = << >> /\ answers = << >> /\ ~isOpen /\ uploads = 0
  BY Zenon DEF Init
<1>3. Len(outbox) = 0 /\ Len(answers) = 0
  BY <1>2
<1>4. \A u \in 1..MaxUploads : files[u] = << >>
  BY DEF Init
<1>5. Paired
  BY <1>3 DEF Paired
<1>6. Fresh
  BY <1>2, <1>3, <1>4 DEF Fresh
<1>7. StreamIsGood
  BY <1>2 DEF StreamIsGood
<1> QED
  BY <1>1, <1>3, <1>5, <1>6, <1>7 DEF IInv, FinishedIsClosed, SuccessMeansWholeFile

\* A file the page is told is uploaded is the contents of one upload between
\* header and footer, and stays so, for any number of uploads.
THEOREM SuccessIsWhole == Spec => []SuccessMeansWholeFile
PROOF
<1>1. Init => IInv
  BY InitInv
<1>2. IInv /\ [Next]_vars => IInv'
  BY InvStep
<1>3. IInv => SuccessMeansWholeFile
  BY DEF IInv
<1> QED
  BY <1>1, <1>2, <1>3, PTL DEF Spec

-----------------------------------------------------------------------------
(* The uploads that did not overlap with another *)

\* The server has handled the "start" of u, and nothing after it: the file of u
\* is open and has its header, or the flag tells that it is not so.
AfterStart(u) ==
  IF uploadFileSuccess
  THEN isOpen /\ uploadedFile = u /\ files[u] = <<Header>>
  ELSE files[u] = << >>

\* It has handled the contents of u too: a piece is missing if the flag is down.
AfterContents(u) ==
  IF uploadFileSuccess
  THEN isOpen /\ uploadedFile = u /\ files[u] = <<Header, u>>
  ELSE Len(files[u]) <= 1

\* The messages of an upload are sent in their order, and those of an upload
\* that is alone with nothing between them.
InTurn ==
  /\ \A i \in 2..Len(outbox) :
       outbox[i].kind = "data" /\ outbox[i].upload \notin overlapped =>
         outbox[i - 1] = Message("start", outbox[i].upload)
  /\ \A i \in 2..Len(outbox) :
       outbox[i].kind = "end" => outbox[i].upload = outbox[i - 1].upload
  /\ \A i, j \in 1..Len(outbox) :
       outbox[i].kind = "start" /\ outbox[j].kind # "start"
         /\ outbox[i].upload = outbox[j].upload => i < j

\* No other file is read with the one of an upload that is alone, and its
\* "start" is the last thing the page said.
ReadAlone ==
  \A u \in reading \ overlapped :
    /\ reading = {u}
    /\ outbox # << >> => outbox[Len(outbox)] = Message("start", u)
    /\ outbox = << >> => AfterStart(u)

\* What the contents and the "end" of an upload that is alone find.
FindsItsFile ==
  \A u \in (1..MaxUploads) \ overlapped :
    outbox # << >> /\ outbox[1].upload = u =>
      /\ outbox[1].kind = "data" => AfterStart(u)
      /\ outbox[1].kind = "end" => AfterContents(u)

\* Nothing is written any more to the file of an upload that was answered.
AnsweredIsOver ==
  \A i \in 1..Len(answers) : answers[i].upload \notin overlapped =>
    /\ ~(isOpen /\ uploadedFile = answers[i].upload)
    /\ \A j \in 1..Len(outbox) :
         outbox[j].kind = "start" => outbox[j].upload # answers[i].upload

AloneInv ==
  /\ IInv
  /\ InTurn
  /\ ReadAlone
  /\ FindsItsFile
  /\ AnsweredIsOver
  /\ AnswerIsTrueWhenAlone

\* What AloneInv adds to IInv and the types.
LEMMA AloneInvHas ==
  ASSUME AloneInv
  PROVE  /\ TypeOK
         /\ Paired
         /\ Fresh
         /\ uploads \in Nat
         /\ Len(outbox) \in Nat
         /\ outbox # << >> => Len(outbox) > 0
         /\ \A i \in 1..Len(outbox) : outbox[i] \in Messages
         /\ \A i \in 1..Len(answers) :
              answers[i].upload \in 1..uploads /\ answers[i].upload \in 1..MaxUploads
PROOF
<1>1. TypeOK /\ Paired /\ Fresh
  BY DEF AloneInv, IInv
<1>2. uploads \in Nat /\ uploads <= MaxUploads /\ MaxUploads \in Nat
  BY <1>1, MaxUploadsAssumption DEF TypeOK
<1>3. \A i \in 1..Len(answers) : answers[i] \in Answers
  BY <1>1 DEF TypeOK
<1>4. outbox \in Seq(Messages)
  BY <1>1 DEF TypeOK
<1>5. outbox # << >> => Len(outbox) > 0
  BY <1>4, HeadAndTail
<1> QED
  BY <1>1, <1>2, <1>3, <1>4, <1>5 DEF Answers

\* The first message of the outbox.
LEMMA FirstMessage ==
  ASSUME TypeOK, NEW kind, Handles(kind)
  PROVE  /\ outbox[1] = Message(kind, Upload)
         /\ outbox[1].kind = kind
         /\ outbox[1].upload = Upload
PROOF
<1>1. outbox # << >> /\ outbox \in Seq(Messages)
  BY DEF Handles, TypeOK
<1>2. Head(outbox) = outbox[1] /\ outbox[1] \in Messages
  BY <1>1, HeadAndTail
<1> QED
  BY <1>2 DEF Handles, Upload, Messages, Message

\* A message that was read leaves the others in turn.  The contents of an upload
\* that is alone come right after its "start", and an "end" after its contents.
LEMMA ReadingKeepsTurn ==
  ASSUME TypeOK, Paired, InTurn, NEW kind, Handles(kind)
  PROVE  /\ InTurn'
         /\ outbox' # << >> /\ outbox'[1].upload \notin overlapped
              /\ outbox'[1].kind = "data"
              => kind = "start" /\ outbox'[1].upload = Upload
         /\ outbox' # << >> /\ outbox'[1].kind = "end"
              => kind = "data" /\ outbox'[1].upload = Upload
PROOF
<1>1. /\ Len(outbox) \in Nat \ {0}
      /\ outbox' \in Seq(Messages)
      /\ Len(outbox') = Len(outbox) - 1
      /\ \A i \in 1..(Len(outbox) - 1) : outbox'[i] = outbox[i + 1]
      /\ overlapped' = overlapped
  BY NextMessage
<1>2. \A i \in 1..Len(outbox') : i + 1 \in 1..Len(outbox) /\ outbox'[i] = outbox[i + 1]
  BY <1>1
<1>3. ASSUME NEW i \in 2..Len(outbox'), outbox'[i].kind = "data",
             outbox'[i].upload \notin overlapped'
      PROVE  outbox'[i - 1] = Message("start", outbox'[i].upload)
  <2>1. /\ i + 1 \in 2..Len(outbox) /\ outbox'[i] = outbox[i + 1]
        /\ outbox'[i - 1] = outbox[i]
    BY <1>1, <1>2
  <2>2. outbox[(i + 1) - 1] = Message("start", outbox[i + 1].upload)
    BY <1>1, <1>3, <2>1 DEF InTurn
  <2> QED
    BY <2>1, <2>2
<1>4. ASSUME NEW i \in 2..Len(outbox'), outbox'[i].kind = "end"
      PROVE  outbox'[i].upload = outbox'[i - 1].upload
  <2>1. /\ i + 1 \in 2..Len(outbox) /\ outbox'[i] = outbox[i + 1]
        /\ outbox'[i - 1] = outbox[i]
    BY <1>1, <1>2
  <2>2. outbox[i + 1].upload = outbox[(i + 1) - 1].upload
    BY <1>4, <2>1 DEF InTurn
  <2> QED
    BY <2>1, <2>2
<1>5. ASSUME NEW i \in 1..Len(outbox'), NEW j \in 1..Len(outbox'),
             outbox'[i].kind = "start", outbox'[j].kind # "start",
             outbox'[i].upload = outbox'[j].upload
      PROVE  i < j
  <2>1. i + 1 < j + 1
    BY <1>2, <1>5 DEF InTurn
  <2> QED
    BY <1>1, <2>1
<1>6. ASSUME outbox' # << >>
      PROVE  2 \in 2..Len(outbox) /\ outbox'[1] = outbox[2]
  <2>1. Len(outbox') > 0
    BY <1>1, <1>6, HeadAndTail
  <2> QED
    BY <1>1, <2>1
<1>7. ASSUME outbox' # << >>, outbox'[1].upload \notin overlapped,
             outbox'[1].kind = "data"
      PROVE  kind = "start" /\ outbox'[1].upload = Upload
  <2>1. outbox[2 - 1] = Message("start", outbox[2].upload)
    BY <1>6, <1>7 DEF InTurn
  <2>2. outbox[1] = Message("start", outbox[2].upload)
    BY <2>1
  <2>3. outbox[1].kind = "start" /\ outbox[1].upload = outbox[2].upload
    BY <2>2 DEF Message
  <2> QED
    BY <1>6, <1>7, <2>3, FirstMessage
<1>8. ASSUME outbox' # << >>, outbox'[1].kind = "end"
      PROVE  kind = "data" /\ outbox'[1].upload = Upload
  <2>1. outbox[2].upload = outbox[2 - 1].upload /\ outbox[2 - 1].kind = "data"
    BY <1>6, <1>8 DEF InTurn, Paired
  <2> QED
    BY <1>6, <1>8, <2>1, FirstMessage
<1> QED
  BY <1>3, <1>4, <1>5, <1>7, <1>8 DEF InTurn

\* What the handler of a message leaves to the next one, if an upload is alone.
LEMMA HandlersMeetFiles ==
  ASSUME AloneInv, NEW kind, Handles(kind), NEW u, u = Upload,
         kind = "start" => AfterStart(u)',
         kind = "data" /\ u \notin overlapped => AfterContents(u)'
  PROVE  /\ InTurn'
         /\ ReadAlone'
         /\ FindsItsFile'
PROOF
<1>1. /\ TypeOK /\ Paired /\ InTurn /\ ReadAlone
      /\ Len(outbox) \in Nat \ {0}
      /\ outbox' \in Seq(Messages)
      /\ Len(outbox') = Len(outbox) - 1
      /\ \A i \in 1..(Len(outbox) - 1) : outbox'[i] = outbox[i + 1]
      /\ overlapped' = overlapped
      /\ reading' = reading
      /\ outbox # << >>
  BY AloneInvHas, NextMessage DEF AloneInv
<1>2. InTurn'
  BY <1>1, ReadingKeepsTurn
<1>3. ASSUME NEW w \in reading' \ overlapped'
      PROVE  /\ reading' = {w}
             /\ outbox' # << >> => outbox'[Len(outbox')] = Message("start", w)
             /\ outbox' = << >> => AfterStart(w)'
  <2>1. reading = {w} /\ outbox[Len(outbox)] = Message("start", w)
    BY <1>1, <1>3 DEF ReadAlone
  <2>2. CASE outbox' # << >>
    <3>1. Len(outbox') > 0
      BY <1>1, <2>2, HeadAndTail
    <3>2. outbox'[Len(outbox')] = outbox[Len(outbox)]
      BY <1>1, <3>1
    <3> QED
      BY <1>1, <2>1, <2>2, <3>2
  <2>3. CASE outbox' = << >>
    <3>1. Len(outbox') = 0
      BY <2>3
    <3>2. Len(outbox) = 1
      BY <1>1, <3>1
    <3>3. kind = "start" /\ u = w
      BY <1>1, <2>1, <3>2, FirstMessage DEF Message
    <3> QED
      BY <1>1, <2>1, <2>3, <3>3
  <2> QED
    BY <2>2, <2>3
<1>4. ASSUME NEW w \in (1..MaxUploads) \ overlapped', outbox' # << >>,
             outbox'[1].upload = w
      PROVE  /\ outbox'[1].kind = "data" => AfterStart(w)'
             /\ outbox'[1].kind = "end" => AfterContents(w)'
  BY <1>1, <1>4, ReadingKeepsTurn
<1>5. ReadAlone'
  BY <1>3 DEF ReadAlone
<1>6. FindsItsFile'
  BY <1>4 DEF FindsItsFile
<1> QED
  BY <1>2, <1>5, <1>6

\* The answers about uploads that were alone stay true.
LEMMA AnswersStayTrue ==
  ASSUME AloneInv, NEW kind, Handles(kind),
         \A w \in 1..MaxUploads :
           files'[w] # files[w] =>
             \/ isOpen /\ w = uploadedFile
             \/ kind = "start" /\ w = Upload,
         isOpen' => \/ isOpen /\ uploadedFile' = uploadedFile
                    \/ kind = "start" /\ uploadedFile' = Upload,
         NEW i \in 1..Len(answers), answers[i].upload \notin overlapped
  PROVE  /\ answers[i].success <=> files'[answers[i].upload] = Whole(answers[i].upload)
         /\ ~(isOpen' /\ uploadedFile' = answers[i].upload)
         /\ \A j \in 1..Len(outbox') :
              outbox'[j].kind = "start" => outbox'[j].upload # answers[i].upload
PROOF
<1>1. /\ TypeOK /\ AnsweredIsOver /\ AnswerIsTrueWhenAlone
      /\ Len(outbox) \in Nat \ {0}
      /\ Len(outbox') = Len(outbox) - 1
      /\ \A j \in 1..(Len(outbox) - 1) : outbox'[j] = outbox[j + 1]
      /\ answers[i].upload \in 1..MaxUploads
      /\ outbox[1].kind = kind /\ outbox[1].upload = Upload
  BY AloneInvHas, NextMessage, FirstMessage DEF AloneInv
<1>2. /\ answers[i].success <=> files[answers[i].upload] = Whole(answers[i].upload)
      /\ ~(isOpen /\ uploadedFile = answers[i].upload)
      /\ \A j \in 1..Len(outbox) :
           outbox[j].kind = "start" => outbox[j].upload # answers[i].upload
  BY <1>1 DEF AnsweredIsOver, AnswerIsTrueWhenAlone
<1>3. kind = "start" => Upload # answers[i].upload
  BY <1>1, <1>2
<1>4. files'[answers[i].upload] = files[answers[i].upload]
  BY <1>1, <1>2, <1>3
<1>5. ~(isOpen' /\ uploadedFile' = answers[i].upload)
  BY <1>2, <1>3
<1>6. ASSUME NEW j \in 1..Len(outbox'), outbox'[j].kind = "start"
      PROVE  outbox'[j].upload # answers[i].upload
  BY <1>1, <1>2, <1>6
<1> QED
  BY <1>2, <1>4, <1>5, <1>6

\* A handler that tells the page nothing keeps the invariant.
LEMMA SilentHandlers ==
  ASSUME AloneInv, IInv', NEW kind, Handles(kind), answers' = answers,
         \A w \in 1..MaxUploads :
           files'[w] # files[w] =>
             \/ isOpen /\ w = uploadedFile
             \/ kind = "start" /\ w = Upload,
         isOpen' => \/ isOpen /\ uploadedFile' = uploadedFile
                    \/ kind = "start" /\ uploadedFile' = Upload,
         NEW u, u = Upload,
         kind = "start" => AfterStart(u)',
         kind = "data" /\ u \notin overlapped => AfterContents(u)'
  PROVE  AloneInv'
PROOF
<1>1. InTurn' /\ ReadAlone' /\ FindsItsFile'
  BY HandlersMeetFiles
<1>2. overlapped' = overlapped
  BY AloneInvHas, NextMessage
<1>3. \A i \in 1..Len(answers) : answers[i].upload \notin overlapped =>
        /\ answers[i].success <=> files'[answers[i].upload] = Whole(answers[i].upload)
        /\ ~(isOpen' /\ uploadedFile' = answers[i].upload)
        /\ \A j \in 1..Len(outbox') :
             outbox'[j].kind = "start" => outbox'[j].upload # answers[i].upload
  BY AnswersStayTrue
<1>4. AnsweredIsOver' /\ AnswerIsTrueWhenAlone'
  BY <1>2, <1>3 DEF AnsweredIsOver, AnswerIsTrueWhenAlone
<1> QED
  BY <1>1, <1>4 DEF AloneInv

\* Three pieces make a whole file.
LEMMA WholeHasThree ==
  ASSUME NEW u
  PROVE  Len(Whole(u)) = 3
PROOF
BY DEF Whole

\* The step of addAlgorithm.
LEMMA AloneAdd ==
  ASSUME AloneInv, IInv', AddAlgorithm
  PROVE  AloneInv'
PROOF
<1>1. /\ outbox' = Append(outbox, Message("start", uploads + 1))
      /\ reading' = reading \cup {uploads + 1}
      /\ overlapped' = IF reading = {} THEN overlapped
                       ELSE overlapped \cup reading \cup {uploads + 1}
      /\ UNCHANGED <<uploadedFile, isOpen, uploadFileSuccess, files, answers>>
  BY DEF AddAlgorithm, NextID, fileVars
<1>2. /\ TypeOK /\ InTurn /\ ReadAlone /\ FindsItsFile /\ AnsweredIsOver
      /\ AnswerIsTrueWhenAlone
      /\ uploads \in Nat /\ Len(outbox) \in Nat
      /\ outbox # << >> => Len(outbox) > 0
      /\ \A i \in 1..Len(answers) : answers[i].upload \in 1..uploads
      /\ \A i \in 1..Len(outbox) : outbox[i] \in Messages
      /\ overlapped \subseteq overlapped'
  BY <1>1, AloneInvHas DEF AloneInv
<1>3. /\ Len(outbox') = Len(outbox) + 1
      /\ \A i \in 1..Len(outbox) : outbox'[i] = outbox[i]
      /\ outbox'[Len(outbox) + 1] = Message("start", uploads + 1)
      /\ outbox' # << >>
  <2>1. Message("start", uploads + 1) \in Messages \cup {Message("start", uploads + 1)}
    OBVIOUS
  <2>2. outbox \in Seq(Messages)
    BY <1>2 DEF TypeOK
  <2>3. Len(outbox') = Len(outbox) + 1
    BY <1>1, <2>2
  <2>4. outbox' # << >>
    <3>1. Len(outbox') # 0
      BY <1>2, <2>3
    <3>2. Len(<< >>) = 0
      OBVIOUS
    <3> QED
      BY <3>1, <3>2
  <2> QED
    BY <1>1, <1>2, <2>2, <2>3, <2>4
<1>4. /\ outbox'[Len(outbox) + 1].kind = "start"
      /\ outbox'[Len(outbox) + 1].upload = uploads + 1
  BY <1>3 DEF Message
<1>5. \A i \in 1..Len(outbox) : outbox[i].upload \in 1..uploads
  BY <1>2 DEF Messages
<1>6. InTurn'
  <2>1. ASSUME NEW i \in 2..Len(outbox'), outbox'[i].kind = "data",
               outbox'[i].upload \notin overlapped'
        PROVE  outbox'[i - 1] = Message("start", outbox'[i].upload)
    <3>1. i \in 2..Len(outbox)
      BY <1>2, <1>3, <1>4, <2>1
    <3>2. outbox'[i] = outbox[i] /\ outbox'[i - 1] = outbox[i - 1]
      BY <1>2, <1>3, <3>1
    <3> QED
      BY <1>2, <2>1, <3>1, <3>2 DEF InTurn
  <2>2. ASSUME NEW i \in 2..Len(outbox'), outbox'[i].kind = "end"
        PROVE  outbox'[i].upload = outbox'[i - 1].upload
    <3>1. i \in 2..Len(outbox)
      BY <1>2, <1>3, <1>4, <2>2
    <3>2. outbox'[i] = outbox[i] /\ outbox'[i - 1] = outbox[i - 1]
      BY <1>2, <1>3, <3>1
    <3> QED
      BY <1>2, <2>2, <3>1, <3>2 DEF InTurn
  <2>3. ASSUME NEW i \in 1..Len(outbox'), NEW j \in 1..Len(outbox'),
               outbox'[i].kind = "start", outbox'[j].kind # "start",
               outbox'[i].upload = outbox'[j].upload
        PROVE  i < j
    <3>1. j \in 1..Len(outbox) /\ outbox'[j] = outbox[j]
      BY <1>2, <1>3, <1>4, <2>3
    <3>2. i # Len(outbox) + 1
      BY <1>2, <1>4, <1>5, <2>3, <3>1
    <3>3. i \in 1..Len(outbox) /\ outbox'[i] = outbox[i]
      BY <1>2, <1>3, <3>2
    <3> QED
      BY <1>2, <2>3, <3>1, <3>3 DEF InTurn
  <2> QED
    BY <2>1, <2>2, <2>3 DEF InTurn
<1>7. ReadAlone'
  <2>1. ASSUME NEW u \in reading' \ overlapped'
        PROVE  reading' = {u} /\ outbox'[Len(outbox')] = Message("start", u)
    <3>1. reading = {} /\ u = uploads + 1
      BY <1>1, <2>1
    <3> QED
      BY <1>1, <1>3, <3>1
  <2> QED
    BY <1>3, <2>1 DEF ReadAlone
<1>8. FindsItsFile'
  <2> SUFFICES ASSUME NEW w \in (1..MaxUploads) \ overlapped', outbox'[1].upload = w
               PROVE  /\ outbox'[1].kind = "data" => AfterStart(w)'
                      /\ outbox'[1].kind = "end" => AfterContents(w)'
    BY DEF FindsItsFile
  <2>1. CASE outbox = << >>
    <3>1. Len(outbox) = 0
      BY <2>1
    <3> QED
      BY <1>4, <3>1
  <2>2. CASE outbox # << >>
    <3>1. outbox'[1] = outbox[1] /\ w \notin overlapped
      BY <1>2, <1>3, <2>2
    <3>2. /\ outbox[1].kind = "data" => AfterStart(w)
          /\ outbox[1].kind = "end" => AfterContents(w)
      BY <1>2, <2>2, <3>1 DEF FindsItsFile
    <3> QED
      BY <1>1, <3>1, <3>2 DEF AfterStart, AfterContents
  <2> QED
    BY <2>1, <2>2
<1>9. AnsweredIsOver'
  <2>1. ASSUME NEW i \in 1..Len(answers), answers[i].upload \notin overlapped',
               NEW j \in 1..Len(outbox'), outbox'[j].kind = "start"
        PROVE  outbox'[j].upload # answers[i].upload
    <3>1. CASE j \in 1..Len(outbox)
      BY <1>2, <1>3, <2>1, <3>1 DEF AnsweredIsOver
    <3>2. CASE j = Len(outbox) + 1
      BY <1>2, <1>4, <3>2
    <3> QED
      BY <1>2, <1>3, <3>1, <3>2
  <2> QED
    BY <1>1, <1>2, <2>1 DEF AnsweredIsOver
<1>10. AnswerIsTrueWhenAlone'
  BY <1>1, <1>2 DEF AnswerIsTrueWhenAlone
<1> QED
  BY <1>6, <1>7, <1>8, <1>9, <1>10 DEF AloneInv

\* The step of onload.
LEMMA AloneLoad ==
  ASSUME AloneInv, IInv', NEW u \in 1..MaxUploads, OnLoad(u)
  PROVE  AloneInv'
PROOF
<1>1. /\ u \in reading /\ reading' = reading \ {u}
      /\ outbox' = outbox \o Contents(u)
      /\ UNCHANGED <<uploads, uploadedFile, isOpen, uploadFileSuccess, files, answers>>
      /\ overlapped' = overlapped
  BY DEF OnLoad, fileVars
<1>2. /\ TypeOK /\ InTurn /\ ReadAlone /\ FindsItsFile /\ AnsweredIsOver
      /\ AnswerIsTrueWhenAlone
      /\ uploads \in Nat /\ Len(outbox) \in Nat
      /\ outbox # << >> => Len(outbox) > 0
      /\ \A i \in 1..Len(outbox) : outbox[i] \in Messages
  BY AloneInvHas DEF AloneInv
<1> DEFINE n == Len(outbox)
<1>3. /\ Len(outbox') = n + 2
      /\ \A i \in 1..n : outbox'[i] = outbox[i]
      /\ outbox'[n + 1] = Message("data", u)
      /\ outbox'[n + 2] = Message("end", u)
  <2>1. u \in 1..uploads
    BY <1>1, <1>2 DEF TypeOK
  <2>2. /\ Contents(u) \in Seq(Messages) /\ Len(Contents(u)) = 2
        /\ Contents(u)[1] = Message("data", u) /\ Contents(u)[2] = Message("end", u)
    BY <2>1 DEF Contents, Message, Messages
  <2>3. /\ Len(outbox \o Contents(u)) = Len(outbox) + Len(Contents(u))
        /\ \A i \in 1..(Len(outbox) + Len(Contents(u))) :
             (outbox \o Contents(u))[i] =
               IF i <= Len(outbox) THEN outbox[i] ELSE Contents(u)[i - Len(outbox)]
    BY <1>2, <2>2, ConcatProperties DEF TypeOK
  <2> HIDE DEF Contents
  <2> QED
    BY <1>1, <1>2, <2>2, <2>3
<1>4. /\ outbox'[n + 1].kind = "data" /\ outbox'[n + 1].upload = u
      /\ outbox'[n + 2].kind = "end" /\ outbox'[n + 2].upload = u
  BY <1>3 DEF Message
<1>5. n \in Nat
  BY <1>2
<1>6. u \notin overlapped =>
        /\ reading = {u}
        /\ outbox # << >> => outbox[n] = Message("start", u)
        /\ outbox = << >> => AfterStart(u)
  BY <1>1, <1>2 DEF ReadAlone
<1> HIDE DEF n
<1>7. 1..Len(outbox') = 1..n \cup {n + 1, n + 2}
  BY <1>3, <1>5
<1>8. InTurn'
  <2>1. ASSUME NEW i \in 2..Len(outbox'), outbox'[i].kind = "data",
               outbox'[i].upload \notin overlapped'
        PROVE  outbox'[i - 1] = Message("start", outbox'[i].upload)
    <3>1. CASE i \in 2..n
      <4>1. outbox'[i] = outbox[i] /\ outbox'[i - 1] = outbox[i - 1]
        BY <1>3, <1>5, <3>1
      <4> QED
        BY <1>1, <1>2, <2>1, <3>1, <4>1 DEF InTurn, n
    <3>2. CASE i = n + 1
      <4>1. n > 0 /\ n \in 1..n /\ (n + 1) - 1 = n
        BY <1>5, <3>2
      <4>2. outbox # << >>
        <5>1. Len(<< >>) = 0
          OBVIOUS
        <5> QED
          BY <4>1, <5>1 DEF n
      <4>3. outbox[n] = Message("start", u)
        BY <1>1, <1>4, <1>6, <2>1, <3>2, <4>2
      <4> QED
        BY <1>3, <1>4, <3>2, <4>1, <4>3
    <3>3. i # n + 2
      BY <1>4, <2>1
    <3> QED
      BY <1>3, <1>5, <3>1, <3>2, <3>3
  <2>2. ASSUME NEW i \in 2..Len(outbox'), outbox'[i].kind = "end"
        PROVE  outbox'[i].upload = outbox'[i - 1].upload
    <3>1. CASE i \in 2..n
      <4>1. outbox'[i] = outbox[i] /\ outbox'[i - 1] = outbox[i - 1]
        BY <1>3, <1>5, <3>1
      <4> QED
        BY <1>2, <2>2, <3>1, <4>1 DEF InTurn, n
    <3>2. CASE i = n + 2
      <4>1. (n + 2) - 1 = n + 1
        BY <1>5
      <4> QED
        BY <1>4, <3>2, <4>1
    <3>3. i # n + 1
      BY <1>4, <2>2
    <3> QED
      BY <1>3, <1>5, <3>1, <3>2, <3>3
  <2>3. ASSUME NEW i \in 1..Len(outbox'), NEW j \in 1..Len(outbox'),
               outbox'[i].kind = "start", outbox'[j].kind # "start",
               outbox'[i].upload = outbox'[j].upload
        PROVE  i < j
    <3>1. i \in 1..n
      BY <1>4, <1>7, <2>3
    <3>2. CASE j \in 1..n
      BY <1>2, <1>3, <2>3, <3>1, <3>2 DEF InTurn, n
    <3>3. CASE j \in {n + 1, n + 2}
      BY <1>5, <3>1, <3>3
    <3> QED
      BY <1>7, <3>2, <3>3
  <2> QED
    BY <2>1, <2>2, <2>3 DEF InTurn
<1>9. ReadAlone'
  <2>1. ASSUME NEW w \in reading' \ overlapped'
        PROVE  FALSE
    <3>1. w \in reading \ overlapped /\ w # u
      BY <1>1, <2>1
    <3>2. reading = {w}
      BY <1>2, <3>1 DEF ReadAlone
    <3> QED
      BY <1>1, <3>1, <3>2
  <2> QED
    BY <2>1 DEF ReadAlone
<1>10. FindsItsFile'
  <2> SUFFICES ASSUME NEW w \in (1..MaxUploads) \ overlapped', outbox'[1].upload = w
               PROVE  /\ outbox'[1].kind = "data" => AfterStart(w)'
                      /\ outbox'[1].kind = "end" => AfterContents(w)'
    BY DEF FindsItsFile
  <2>1. CASE outbox = << >>
    <3>1. n = 0
      BY <2>1 DEF n
    <3>2. outbox'[1].kind = "data" /\ outbox'[1].upload = u
      BY <1>4, <3>1
    <3>3. AfterStart(w) /\ w = u
      BY <1>1, <1>6, <2>1, <3>2
    <3> QED
      BY <1>1, <3>2, <3>3 DEF AfterStart
  <2>2. CASE outbox # << >>
    <3>1. outbox'[1] = outbox[1] /\ w \notin overlapped
      BY <1>1, <1>2, <1>3, <1>5, <2>2 DEF n
    <3>2. /\ outbox[1].kind = "data" => AfterStart(w)
          /\ outbox[1].kind = "end" => AfterContents(w)
      BY <1>2, <2>2, <3>1 DEF FindsItsFile
    <3> QED
      BY <1>1, <3>1, <3>2 DEF AfterStart, AfterContents
  <2> QED
    BY <2>1, <2>2
<1>11. AnsweredIsOver'
  <2>1. \A j \in 1..Len(outbox') : outbox'[j].kind = "start" =>
          j \in 1..Len(outbox) /\ outbox'[j] = outbox[j]
    BY <1>3, <1>4, <1>7 DEF n
  <2> QED
    BY <1>1, <1>2, <2>1 DEF AnsweredIsOver
<1>12. AnswerIsTrueWhenAlone'
  BY <1>1, <1>2 DEF AnswerIsTrueWhenAlone
<1> QED
  BY <1>8, <1>9, <1>10, <1>11, <1>12 DEF AloneInv

\* The steps of the server that tell the page nothing.
LEMMA AloneServer ==
  ASSUME AloneInv, IInv',
         Start \/ StartFails \/ Write \/ WriteFails \/ EndFails \/ HandlerThrows
  PROVE  AloneInv'
PROOF
<1> DEFINE u == Upload
<1>0. TypeOK /\ Fresh /\ FindsItsFile
  BY AloneInvHas DEF AloneInv
<1>1. ASSUME NEW kind, Handles(kind)
      PROVE  /\ u \in 1..MaxUploads
             /\ kind = "start" => files[u] = << >>
             /\ kind = "data" /\ u \notin overlapped => AfterStart(u)
             /\ kind = "end" /\ u \notin overlapped => AfterContents(u)
  <2>1. /\ 1 \in 1..Len(outbox) /\ outbox # << >>
        /\ u \in 1..MaxUploads
        /\ outbox[1].kind = kind /\ outbox[1].upload = u
    BY <1>0, <1>1, NextMessage, FirstMessage
  <2>2. kind = "start" => files[u] = << >>
    BY <1>0, <2>1 DEF Fresh
  <2>3. u \notin overlapped =>
          /\ kind = "data" => AfterStart(u)
          /\ kind = "end" => AfterContents(u)
    BY <1>0, <2>1 DEF FindsItsFile
  <2> QED
    BY <2>1, <2>2, <2>3
<1>2. CASE Start
  <2>1. /\ Handles("start") /\ uploadedFile' = u /\ isOpen'
        /\ files' = [files EXCEPT ![u] = Append(@, Header)]
        /\ answers' = answers
    BY <1>2 DEF Start
  <2>2. u \in 1..MaxUploads /\ files[u] = << >>
    BY <1>1, <2>1
  <2>3. files'[u] = <<Header>> /\ \A w \in 1..MaxUploads : w # u => files'[w] = files[w]
    BY <1>0, <2>1, <2>2, Growth DEF TypeOK
  <2>4. uploadFileSuccess'
    BY <1>2 DEF Start, AtStart
  <2>5. PICK v : v = u
    OBVIOUS
  <2>6. AfterStart(v)'
    BY <2>1, <2>3, <2>4, <2>5 DEF AfterStart
  <2> QED
    BY <2>1, <2>3, <2>5, <2>6, SilentHandlers
<1>3. CASE StartFails
  <2>1. /\ Handles("start") /\ files' = files /\ answers' = answers
        /\ ~uploadFileSuccess'
        /\ UNCHANGED <<uploadedFile, isOpen>> \/ uploadedFile' = u
    BY <1>3 DEF StartFails
  <2>2. files'[u] = << >>
    BY <1>1, <2>1
  <2>3. PICK v : v = u
    OBVIOUS
  <2>4. AfterStart(v)'
    BY <2>1, <2>2, <2>3 DEF AfterStart
  <2> QED
    BY <2>1, <2>3, <2>4, SilentHandlers
<1>4. CASE Write
  <2>1. /\ Handles("data") /\ isOpen /\ Appends(u)
        /\ UNCHANGED <<uploadedFile, isOpen, uploadFileSuccess, answers>>
    BY <1>4 DEF Write
  <2>2. u \in 1..MaxUploads /\ (u \notin overlapped => AfterStart(u))
    BY <1>1, <2>1
  <2>3. uploadedFile \in 1..MaxUploads
    BY <1>0, <2>1, <2>2, AppendsType DEF Pieces
  <2>4. /\ files'[uploadedFile] = Append(files[uploadedFile], u)
        /\ \A w \in 1..MaxUploads : w # uploadedFile => files'[w] = files[w]
    BY <1>0, <2>1, <2>3 DEF Appends, TypeOK
  <2>5. PICK v : v = u
    OBVIOUS
  <2>6. ASSUME v \notin overlapped
        PROVE  AfterContents(v)'
    <3>1. CASE uploadFileSuccess
      <4>1. uploadedFile = u /\ files[u] = <<Header>>
        BY <2>2, <2>5, <2>6, <3>1 DEF AfterStart
      <4>2. files'[u] = <<Header, u>>
        BY <2>4, <4>1, Growth
      <4> QED
        BY <2>1, <2>5, <3>1, <4>1, <4>2 DEF AfterContents
    <3>2. CASE ~uploadFileSuccess
      <4>1. files[u] = << >>
        BY <2>2, <2>5, <2>6, <3>2 DEF AfterStart
      <4>2. Len(files[u]) = 0
        BY <4>1
      <4>3. Len(files'[u]) <= 1
        <5>1. CASE uploadedFile = u
          <6>1. files[u] \in Seq(Pieces)
            BY <1>0, <2>2 DEF TypeOK
          <6>2. u \in Pieces
            BY <2>2 DEF Pieces
          <6>3. Len(Append(files[u], u)) = Len(files[u]) + 1
            BY <6>1, <6>2, OneMore
          <6> QED
            BY <2>4, <4>2, <5>1, <6>3
        <5>2. CASE uploadedFile # u
          BY <2>2, <2>4, <4>2, <5>2
        <5> QED
          BY <5>1, <5>2
      <4> QED
        BY <2>1, <2>5, <3>2, <4>3 DEF AfterContents
    <3> QED
      BY <3>1, <3>2
  <2> QED
    BY <2>1, <2>4, <2>5, <2>6, SilentHandlers
<1>5. ASSUME NEW kind, Handles(kind), kind # "start",
             UNCHANGED <<uploadedFile, isOpen, files, answers>>,
             \/ ~uploadFileSuccess'
             \/ uploadedFile = NoFile /\ uploadFileSuccess' = uploadFileSuccess
      PROVE  AloneInv'
  <2>1. /\ u \in 1..MaxUploads
        /\ kind = "data" /\ u \notin overlapped => AfterStart(u)
    BY <1>1, <1>5
  <2>2. PICK v : v = u
    OBVIOUS
  <2>3. ASSUME kind = "data", v \notin overlapped
        PROVE  AfterContents(v)'
    <3>1. ~uploadFileSuccess'
      BY <1>5, <2>1, <2>2, <2>3 DEF AfterStart, NoFile
    <3>2. Len(files[u]) <= 1
      <4>1. files[u] = << >> \/ files[u] = <<Header>>
        BY <2>1, <2>2, <2>3 DEF AfterStart
      <4>2. Len(<< >>) = 0 /\ Len(<<Header>>) = 1
        OBVIOUS
      <4>3. Len(files[u]) = 0 \/ Len(files[u]) = 1
        BY <4>1, <4>2, Zenon
      <4> DEFINE n == Len(files[u])
      <4>4. n = 0 \/ n = 1
        BY <4>3
      <4> HIDE DEF n
      <4>5. n <= 1
        BY <4>4
      <4> QED
        BY <4>5, Zenon DEF n
    <3> QED
      BY <1>5, <2>2, <3>1, <3>2 DEF AfterContents
  <2> QED
    BY <1>5, <2>2, <2>3, SilentHandlers
<1>6. CASE WriteFails
  BY <1>5, <1>6 DEF WriteFails, AfterFailure
<1>7. CASE EndFails
  BY <1>5, <1>7 DEF EndFails
<1>8. CASE HandlerThrows
  BY <1>5, <1>8 DEF HandlerThrows, fileVars
<1> QED
  BY <1>2, <1>3, <1>4, <1>6, <1>7, <1>8

\* The step that tells the page what became of an upload.
LEMMA AloneEnd ==
  ASSUME AloneInv, IInv', End
  PROVE  AloneInv'
PROOF
<1>1. PICK u : u = Upload
  OBVIOUS
<1>2. /\ Handles("end") /\ isOpen /\ Appends(Footer) /\ ~isOpen'
      /\ UNCHANGED <<uploadedFile, uploadFileSuccess>>
      /\ answers' = Append(answers, [upload |-> u, file |-> uploadedFile,
                                     success |-> uploadFileSuccess])
  BY <1>1 DEF End
<1>3. /\ TypeOK /\ Fresh /\ InTurn /\ FindsItsFile
      /\ Len(outbox) \in Nat \ {0} /\ outbox # << >>
      /\ u \in 1..MaxUploads
      /\ outbox[1].kind = "end" /\ outbox[1].upload = u
      /\ overlapped' = overlapped
      /\ Len(outbox') = Len(outbox) - 1
      /\ \A i \in 1..(Len(outbox) - 1) : outbox'[i] = outbox[i + 1]
  BY <1>1, <1>2, AloneInvHas, NextMessage, FirstMessage DEF AloneInv
<1>4. uploadedFile \in 1..MaxUploads
  BY <1>2, <1>3, AppendsType DEF Pieces
<1>5. /\ files'[uploadedFile] = Append(files[uploadedFile], Footer)
      /\ \A w \in 1..MaxUploads : w # uploadedFile => files'[w] = files[w]
  BY <1>2, <1>3, <1>4 DEF Appends, TypeOK
<1>6. InTurn' /\ ReadAlone' /\ FindsItsFile'
  BY <1>1, <1>2, HandlersMeetFiles
<1>7. ASSUME u \notin overlapped
      PROVE  uploadFileSuccess <=> files'[u] = Whole(u)
  <2>1. AfterContents(u)
    BY <1>3, <1>7 DEF FindsItsFile
  <2>2. CASE uploadFileSuccess
    <3>1. uploadedFile = u /\ files[u] = <<Header, u>>
      BY <2>1, <2>2 DEF AfterContents
    <3>2. files'[u] = Whole(u)
      BY <1>5, <3>1, Growth
    <3> QED
      BY <2>2, <3>2
  <2>3. CASE ~uploadFileSuccess
    <3>1. Len(files[u]) <= 1
      BY <2>1, <2>3 DEF AfterContents
    <3>2. files[u] \in Seq(Pieces) /\ Len(files[u]) \in Nat
      BY <1>3 DEF TypeOK
    <3>3. Len(files'[u]) <= 2
      <4>1. CASE uploadedFile = u
        <5>1. Len(Append(files[u], Footer)) = Len(files[u]) + 1
          BY <3>2
        <5> QED
          BY <1>5, <3>1, <3>2, <4>1, <5>1
      <4>2. CASE uploadedFile # u
        BY <1>3, <1>5, <3>1, <4>2, <3>2
      <4> QED
        BY <4>1, <4>2
    <3>4. files'[u] # Whole(u)
      BY <3>3, WholeHasThree
    <3> QED
      BY <2>3, <3>4
  <2> QED
    BY <2>2, <2>3
<1>8. ASSUME NEW i \in 1..Len(answers), answers[i].upload \notin overlapped
      PROVE  /\ answers[i].success <=> files'[answers[i].upload] = Whole(answers[i].upload)
             /\ \A j \in 1..Len(outbox') :
                  outbox'[j].kind = "start" => outbox'[j].upload # answers[i].upload
  BY <1>2, <1>5, <1>8, AnswersStayTrue
<1>9. ASSUME NEW j \in 1..Len(outbox'), outbox'[j].kind = "start"
      PROVE  outbox'[j].upload # u
  <2>1. j + 1 \in 1..Len(outbox) /\ outbox[j + 1] = outbox'[j] /\ 1 \in 1..Len(outbox)
    BY <1>3
  <2>2. outbox[j + 1].upload # outbox[1].upload \/ j + 1 < 1
    BY <1>3, <1>9, <2>1 DEF InTurn
  <2> QED
    BY <1>3, <2>1, <2>2
<1>10. /\ Len(answers) \in Nat
       /\ Len(answers') = Len(answers) + 1
       /\ \A i \in 1..Len(answers) : answers'[i] = answers[i]
       /\ answers'[Len(answers) + 1].upload = u
       /\ answers'[Len(answers) + 1].success = uploadFileSuccess
  BY <1>2, <1>3 DEF TypeOK
<1>11. ASSUME NEW i \in 1..Len(answers'), answers'[i].upload \notin overlapped
       PROVE  /\ answers'[i].success <=>
                   files'[answers'[i].upload] = Whole(answers'[i].upload)
              /\ \A j \in 1..Len(outbox') :
                   outbox'[j].kind = "start" => outbox'[j].upload # answers'[i].upload
  <2>1. CASE i \in 1..Len(answers)
    BY <1>8, <1>10, <1>11, <2>1
  <2>2. CASE i = Len(answers) + 1
    BY <1>7, <1>9, <1>10, <1>11, <2>2
  <2> QED
    BY <1>10, <2>1, <2>2
<1>12. AnsweredIsOver' /\ AnswerIsTrueWhenAlone'
  BY <1>2, <1>3, <1>11 DEF AnsweredIsOver, AnswerIsTrueWhenAlone
<1> QED
  BY <1>6, <1>12 DEF AloneInv

\* Each step keeps the invariant.
LEMMA AloneStep ==
  ASSUME AloneInv, [Next]_vars
  PROVE  AloneInv'
PROOF
<1>1. IInv'
  BY InvStep DEF AloneInv
<1>2. ASSUME NEW u \in 1..MaxUploads, ReadFails(u)
      PROVE  AloneInv'
  <2>1. /\ reading' \subseteq reading /\ u \in reading /\ u \notin reading'
        /\ UNCHANGED <<outbox, overlapped, uploadedFile, isOpen, uploadFileSuccess,
                       files, answers>>
    BY <1>2 DEF ReadFails, fileVars
  <2>2. ReadAlone'
    <3>1. ASSUME NEW w \in reading' \ overlapped'
          PROVE  FALSE
      BY <2>1, <3>1 DEF AloneInv, ReadAlone
    <3> QED
      BY <3>1 DEF ReadAlone
  <2>3. InTurn' /\ AnsweredIsOver' /\ AnswerIsTrueWhenAlone'
    BY <2>1 DEF AloneInv, InTurn, AnsweredIsOver, AnswerIsTrueWhenAlone
  <2>4. FindsItsFile'
    BY <2>1 DEF AloneInv, FindsItsFile, AfterStart, AfterContents
  <2> QED
    BY <1>1, <2>2, <2>3, <2>4 DEF AloneInv
<1>3. CASE UNCHANGED vars
  <2>1. UNCHANGED <<outbox, reading, overlapped, uploadedFile, isOpen, uploadFileSuccess,
                    files, answers>>
    BY <1>3 DEF vars, fileVars
  <2>2. InTurn' /\ AnsweredIsOver' /\ AnswerIsTrueWhenAlone'
    BY <2>1 DEF AloneInv, InTurn, AnsweredIsOver, AnswerIsTrueWhenAlone
  <2>3. FindsItsFile' /\ ReadAlone'
    BY <2>1 DEF AloneInv, FindsItsFile, ReadAlone, AfterStart, AfterContents
  <2> QED
    BY <1>1, <2>2, <2>3 DEF AloneInv
<1> QED
  BY <1>1, <1>2, <1>3, AloneAdd, AloneLoad, AloneServer, AloneEnd DEF Next, OnMessage

\* An upload that did not overlap with another is called a success exactly when
\* its file has its contents, whatever failed before it, for any number of uploads.
THEOREM AloneIsTold == Spec => []AnswerIsTrueWhenAlone
PROOF
<1>1. Init => AloneInv
  <2> SUFFICES ASSUME Init PROVE AloneInv
    OBVIOUS
  <2>1. IInv
    BY InitInv
  <2>2. outbox = << >> /\ answers = << >> /\ reading = {}
    BY Zenon DEF Init
  <2>3. Len(outbox) = 0 /\ Len(answers) = 0
    BY <2>2
  <2>4. InTurn
    BY <2>3 DEF InTurn
  <2>5. ReadAlone /\ FindsItsFile
    BY <2>2 DEF ReadAlone, FindsItsFile
  <2>6. AnsweredIsOver /\ AnswerIsTrueWhenAlone
    BY <2>3 DEF AnsweredIsOver, AnswerIsTrueWhenAlone
  <2> QED
    BY <2>1, <2>4, <2>5, <2>6 DEF AloneInv
<1>2. AloneInv /\ [Next]_vars => AloneInv'
  BY AloneStep
<1>3. AloneInv => AnswerIsTrueWhenAlone
  BY DEF AloneInv
<1> QED
  BY <1>1, <1>2, <1>3, PTL DEF Spec
=============================================================================
