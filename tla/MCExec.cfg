SPECIFICATION FairSpec
CONSTANTS
  Levels = 3
  NIdx = 4
  Frames <- MCFrames
  PageSize = 7
  KernelMap <- MCKernelMap
  StackTop = 32
  StackPages = 2
  Images <- MCImages
  Argvs <- MCArgvs
INVARIANTS
  OneUse
  KernelShared
  ImageSeen
  ArgsSeen
  PermissionsKept
PROPERTIES
  CallerUntouched
  ExecEnds
CHECK_DEADLOCK FALSE
