SPECIFICATION Spec
CONSTANTS
  NoTask = NoTask
  NoKernel = NoKernel
  Tasks <- MCTasks
  Kernels <- MCKernels
  NumTrials = 2
  Retries = 1
  MaxTasks = 2
  Times = {1, 2}
INVARIANTS
  TypeOK
  CorrectIsRight
  NoVerdictFromFault
  SessionsAreClosed
  DecoyHasNoTime
  TritonIsNoDecoy
  MedianIsMeasured
