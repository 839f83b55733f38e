\* Every message read by its own parser and, for answers, by every other.
SPECIFICATION Spec
CONSTANTS
  Messages <- MCMessages
  IntegrityWords <- MCIntegrity
  ProgrammingWords <- MCProgramming
INVARIANTS
  TypeOK
  AnswersArriveWhole
  ErrorsReadTheSame
  RequestsArriveWhole
\* A message has an end.
CHECK_DEADLOCK FALSE
