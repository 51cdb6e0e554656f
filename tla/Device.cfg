SPECIFICATION MCSpec
\* An exchange ends; the device stops, or has sent its frames.
CHECK_DEADLOCK FALSE
CONSTANTS
  Commands <- MCCommands
  Answers <- MCAnswers
  Points <- MCPoints
  Objects <- MCObjects
  States <- MCStates
  StrangeBytes <- MCStrangeBytes
  UncertainAbove = 30
  Capacity = 1
  MaxFrames = 2
  MaxJoins = 2
  MaxDownlinks = 1
INVARIANTS
  ReadAlike
  AckNamesTheCommand
  UplinksArrive
  FramesSound
PROPERTIES
  LoopsServe
