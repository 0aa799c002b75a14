CONSTANTS
  Timer = {0, 2}
  Frequency <- MCFrequency
  Waits <- MCWaits
  Stage2 = 2
  Stage3 = 2
  Instruction = 2
  Behind = 2
  MaxSaves = 1
SPECIFICATION Spec
INVARIANTS SmpTypeOK NoTickLost PortsInOrder
