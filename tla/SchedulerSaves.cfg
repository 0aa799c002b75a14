\* Saving at any frame under a hub CPU, on cartridges with a SuperFX that waits for a flag, and without.
CONSTANTS
  cpu = cpu  ppu = ppu  smp = smp  pad1 = pad1  pad2 = pad2  rtc = rtc  superfx = superfx
  Host = Host  Null = Null
  Thread = {cpu, ppu, superfx}
  Handle = {h1, h2, h3}
  Cpu = cpu
  Pluggable = {}
  Chip = {superfx}
  Boots <- FxBoots
  Program <- HubProgram
  W = 64
  MaxClock = 56
  MaxID = 5
  MaxEntries = 3
  MaxLead = 8
  HostOps = {"save", "off", "eject"}
  Settled = TRUE
SPECIFICATION FairSpec
INVARIANTS ClockAboveID SnapshotConsistent AuxiliaryRunsAlone
PROPERTIES LeadsKept KeepsPromise NoStarvation
