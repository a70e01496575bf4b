SPECIFICATION FairSpec
CONSTANTS
  p1 = p1
  p2 = p2
  none = none
  erased = erased
  redacted = redacted
  None = none
  Erased = erased
  Redacted = redacted
  Processor = {p1, p2}
  Submission <- Submissions
  Quotes <- Quoted
  Content = {"a", "b"}
  Answer <- Answers
  MaxRows = 2
  MaxAttempts = 2
  MaxProposals = 2
INVARIANTS
  TypeOK
  OneAnswerPerRow
  CompletedRowsWritten
  WritesInOrder
  UnsafeAnswersUnwritten
PROPERTIES
  EventuallyFinished
