\* A game erases, writes, locks and loads pages at any time, sessions end at any time.
CONSTANTS
  Blocks = 2
  IDs = 2
  Command = {"eraseBlock", "eraseAll", "writeByte", "lockBlock", "uploadLocks", "loadPages"}
  EraseTime = 2
  MaxErased = 2
  MaxLead = 3
  MaxCount = 1
  Noise = {0}
  IdleYields = TRUE
SPECIFICATION FairSpec
INVARIANTS FlashTypeOK ReadyMeansIdle QueueHasRoom
PROPERTIES ProtectedKept ErasesCounted    ErasesEnd
