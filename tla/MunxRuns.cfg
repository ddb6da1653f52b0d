CONSTANTS
  MaxInt = 5000
  MaxLoopUnroll = 32
  CallDepthLimit = 3
  StrongEvents = 32
  MatureEvents = 256
  GenerationMarks = {32, 128, 512}
  Program <- Programs
  Text <- ProgramText
  Image <- ProgramImage
  Mode <- AllModes
SPECIFICATION ProgramsSpec
INVARIANTS TypeOK RunsAsMeant NoStrayFault RecursionBounded OperandsSuffice TrapsFollowText
PROPERTY RunEnds
