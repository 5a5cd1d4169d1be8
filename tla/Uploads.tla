------------------------------ MODULE Uploads ------------------------------
(***************************************************************************)
(* How a page uploads algos over one connection (algorithms.js) and what   *)
(* the server makes of it (handleUploadFile and processUpload in           *)
(* Server.java).                                                           *)
(*                                                                         *)
(* The page sends "start" at once, and the contents with "end" when the    *)
(* browser has read the file, which may be after it sent the next "start". *)
(* Only "start" names a file: the server writes to the one stream of the   *)
(* connection.  It reads the messages in the order they were sent.         *)
(*                                                                         *)
(* Any access to a file may fail.  A file is the sequence of what was      *)
(* appended to it; what a failed access appended is left out.              *)
(***************************************************************************)
EXTENDS Integers, Sequences

CONSTANT MaxUploads   \* bound on the uploads over the connection

ASSUME MaxUploadsAssumption == MaxUploads \in Nat

VARIABLES
  uploads,            \* number of uploads so far, next_algorithm_id - 1
  reading,            \* the uploads whose FileReader is at work
  outbox,             \* messages of the page the server has not read
  uploadedFile,       \* the file filestream was opened for, NoFile for null
  isOpen,             \* filestream was not closed
  uploadFileSuccess,
  files,              \* files[u]: the file of upload u
  answers,            \* the messages algo-upload, and what they were sent for
  overlapped,         \* uploads that began while another was being read, and
                      \* the others
  failed              \* an access to a file has failed

fileVars == <<uploadedFile, isOpen, uploadFileSuccess, files>>
vars == <<uploads, reading, outbox, fileVars, answers, overlapped, failed>>

NoFile == 0

\* algo-header.py and algo-footer.py; the contents of upload u are u
Header == -1
Footer == -2
Pieces == {Header, Footer} \cup (1..MaxUploads)

Whole(u) == <<Header, u, Footer>>

Init ==
  /\ uploads = 0
  /\ reading = {}
  /\ outbox = << >>
  /\ uploadedFile = NoFile
  /\ isOpen = FALSE
  /\ uploadFileSuccess = TRUE
  /\ files = [u \in 1..MaxUploads |-> << >>]
  /\ answers = << >>
  /\ overlapped = {}
  /\ failed = FALSE

-----------------------------------------------------------------------------
(* The page *)

Message(kind, u) == [kind |-> kind, upload |-> u]

\* the counter is raised before it is read
BadNextID == uploads + 2

NextID == uploads + 1

\* addAlgorithm, for a file with a valid extension.
AddAlgorithm ==
  /\ uploads < MaxUploads
  /\ uploads' = uploads + 1
  /\ outbox' = Append(outbox, Message("start", NextID))
  /\ reading' = reading \cup {NextID}
  /\ overlapped' = IF reading = {} THEN overlapped
                   ELSE overlapped \cup reading \cup {NextID}
  /\ UNCHANGED <<fileVars, answers, failed>>

\* no "end" is sent
BadContents(u) == <<Message("data", u)>>

\* What onload sends; nothing comes between.
Contents(u) == <<Message("data", u), Message("end", u)>>

\* reader.onload
OnLoad(u) ==
  /\ u \in reading
  /\ reading' = reading \ {u}
  /\ outbox' = outbox \o Contents(u)
  /\ UNCHANGED <<uploads, fileVars, answers, overlapped, failed>>

\* The file cannot be read: there is no handler for that.
ReadFails(u) ==
  /\ u \in reading
  /\ reading' = reading \ {u}
  /\ failed' = TRUE
  /\ UNCHANGED <<uploads, outbox, fileVars, answers, overlapped>>

-----------------------------------------------------------------------------
(* The server *)

\* The server handles the next message, which is one of a kind.
Handles(kind) ==
  /\ outbox # << >>
  /\ Head(outbox).kind = kind
  /\ outbox' = Tail(outbox)
  /\ UNCHANGED <<uploads, reading, overlapped>>

Upload == Head(outbox).upload

\* piece is appended to the file of the stream
Appends(piece) == files' = [files EXCEPT ![uploadedFile] = Append(@, piece)]

\* the flag of an earlier upload is kept
BadAtStart == uploadFileSuccess

\* uploadFileSuccess when a file and its header are there
AtStart == TRUE

\* "start": the stream of an earlier upload is given up, open or not.
Start ==
  /\ Handles("start")
  /\ uploadedFile' = Upload
  /\ isOpen' = TRUE
  /\ files' = [files EXCEPT ![Upload] = Append(@, Header)]
  /\ uploadFileSuccess' = AtStart
  /\ UNCHANGED <<answers, failed>>

\* "start", when the file cannot be opened and the stream stays what it was,
\* or when the header cannot be copied.
StartFails ==
  /\ Handles("start")
  /\ \/ UNCHANGED <<uploadedFile, isOpen>>
     \/ uploadedFile' = Upload /\ isOpen' = TRUE
  /\ uploadFileSuccess' = FALSE
  /\ failed' = TRUE
  /\ UNCHANGED <<files, answers>>

\* processUpload
Write ==
  /\ Handles("data")
  /\ isOpen
  /\ Appends(Upload)
  /\ UNCHANGED <<uploadedFile, isOpen, uploadFileSuccess, answers, failed>>

\* the exception is caught and forgotten
BadAfterFailure == uploadFileSuccess

\* uploadFileSuccess after an IOException
AfterFailure == FALSE

\* processUpload, when the stream fails or is closed.
WriteFails ==
  /\ Handles("data")
  /\ uploadedFile # NoFile
  /\ uploadFileSuccess' = AfterFailure
  /\ failed' = (failed \/ isOpen)
  /\ UNCHANGED <<uploadedFile, isOpen, files, answers>>

\* "end": the footer is copied, the stream closed, the page told.
End ==
  /\ Handles("end")
  /\ isOpen
  /\ Appends(Footer)
  /\ isOpen' = FALSE
  /\ answers' = Append(answers, [upload |-> Upload, file |-> uploadedFile,
                                 success |-> uploadFileSuccess])
  /\ UNCHANGED <<uploadedFile, uploadFileSuccess, failed>>

\* "end", when the footer cannot be copied or the stream is closed: the page
\* is not told.
EndFails ==
  /\ Handles("end")
  /\ uploadedFile # NoFile
  /\ uploadFileSuccess' = FALSE
  /\ failed' = (failed \/ isOpen)
  /\ UNCHANGED <<uploadedFile, isOpen, files, answers>>

\* No file was opened yet: the handler of "data" or "end" throws.
HandlerThrows ==
  /\ Handles("data") \/ Handles("end")
  /\ uploadedFile = NoFile
  /\ UNCHANGED <<fileVars, answers, failed>>

OnMessage ==
  \/ Start \/ StartFails
  \/ Write \/ WriteFails
  \/ End \/ EndFails
  \/ HandlerThrows

Next ==
  \/ AddAlgorithm
  \/ \E u \in 1..MaxUploads : OnLoad(u) \/ ReadFails(u)
  \/ OnMessage

\* The browser reads each file to its end, and the server each message.
Fairness ==
  /\ \A u \in 1..MaxUploads : WF_vars(OnLoad(u) \/ ReadFails(u))
  /\ WF_vars(OnMessage)

Spec == Init /\ [][Next]_vars /\ Fairness

-----------------------------------------------------------------------------
(* Properties *)

Messages == [kind : {"start", "data", "end"}, upload : 1..uploads]

Answers == [upload : 1..uploads, file : 1..uploads, success : BOOLEAN]

\* Every variable holds what its field can hold.
TypeOK ==
  /\ uploads \in 0..MaxUploads
  /\ reading \subseteq 1..uploads
  /\ outbox \in Seq(Messages)
  /\ uploadedFile \in 0..uploads
  /\ isOpen \in BOOLEAN
  /\ isOpen => uploadedFile # NoFile
  /\ uploadFileSuccess \in BOOLEAN
  /\ files \in [1..MaxUploads -> Seq(Pieces)]
  /\ answers \in Seq(Answers)
  /\ overlapped \subseteq 1..uploads
  /\ failed \in BOOLEAN

\* When the page is told "success", the file that was finished is the contents
\* of one upload between header and footer, and stays so: also when uploads
\* overlap and files fail, no file is two uploads in one, or a part of one, and
\* called a success.
SuccessMeansWholeFile ==
  \A i \in 1..Len(answers) : answers[i].success =>
    \E u \in 1..uploads : files[answers[i].file] = Whole(u)

\* An upload that did not overlap with another is called a success if, and
\* only if, its file has its contents, whatever failed before.  (The answer
\* names no upload: it is about the last "start", not about the "end".)
AnswerIsTrueWhenAlone ==
  \A i \in 1..Len(answers) : answers[i].upload \notin overlapped =>
    (answers[i].success <=> files[answers[i].upload] = Whole(answers[i].upload))

\* The page is told of every upload, unless it overlapped with another or an
\* access to a file failed.
UploadsAreAnswered ==
  \A u \in 1..MaxUploads :
    u <= uploads ~> \/ \E i \in 1..Len(answers) : answers[i].upload = u
                    \/ u \in overlapped
                    \/ failed
=============================================================================
