SPECIFICATION Spec
CONSTANTS
  Source <- Sources
  Target <- Targets
  Argv <- Arguments
  Comparable <- Compared_
  MaxInt = 32767
  CallDepthLimit = 3
INVARIANTS
  StackAligned
  NativeAsMeant
  ObjectReadsBack
  LlvmFollowsMir
PROPERTY
  MirSteps
