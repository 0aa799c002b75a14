CONSTANTS
  Channels = 2
  Bytes = 2
  Lines = 2
  Pokes = TRUE
SPECIFICATION Spec
INVARIANTS DmaTypeOK  NothingForgotten HdmaOnTime 
PROPERTY CpuGoesOn
