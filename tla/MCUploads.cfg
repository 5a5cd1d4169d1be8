\* Three uploads over one connection.
SPECIFICATION Spec
CONSTANT MaxUploads = 3
INVARIANTS
  TypeOK
  SuccessMeansWholeFile
  AnswerIsTrueWhenAlone
PROPERTY UploadsAreAnswered
CHECK_DEADLOCK FALSE
