SPECIFICATION Spec
CONSTANTS
  Frames <- MCFrames
  MaxBuffer <- MCMaxBuffer
INVARIANT ExactDelivery
INVARIANT Resynchronised
