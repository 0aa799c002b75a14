\* The chip's idle loop as it is.
CONSTANTS
  Blocks = 1
  IDs = 1
  Command = {"eraseBlock", "writeByte"}
  EraseTime = 2
  MaxErased = 2
  MaxLead = 3
  MaxCount = 0
  Noise = {0}
  IdleYields = FALSE
SPECIFICATION FairSpec
PROPERTY CpuProceeds
