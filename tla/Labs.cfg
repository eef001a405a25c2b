\* The small programs of cw01 to cw05, one at a time.
SPECIFICATION LabsSpec
CONSTANTS
  NumPipeWorkers = 4
  PipeCapacity = 1
  FifoWorker = {w1, w2, w3}
  OldFifoWorker = {o1}
  ModeSender = {s1, s2}
  CatcherMode = {0, 1, 5}
  MaxRequests = 2
  DirCount = 2
  WalkFile = {f1, f2}
  MaxSize = 3
  MaxRecords = 5
  ReverseBlock = 3
  MaxReverseLen = 10
  ReplaceBlock = 2
  MaxReplaceLen = 5
INVARIANTS LabsTypeOK IntervalsOnce AddedOnce AnswersMatch LinesWritten RecordsOwned
           ListFaithful EndReversed CopiedInTheEnd
PROPERTIES PipesRunDry SumEnds SendersAnswered ModeActedUpon
CHECK_DEADLOCK FALSE
