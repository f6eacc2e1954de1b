SPECIFICATION Spec
CONSTANTS
  NoTask = NoTask
  NoKernel = NoKernel
  Tasks <- DefaultCuda
  Kernels <- MCKernels
  NumTrials = 1
  Retries = 1
  MaxTasks = 2
  Times = {1, 2}
INVARIANTS
  CorrectIsTimed
