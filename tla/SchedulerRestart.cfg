\* The CPU restarts the PPU and renews the third thread while emulating and saving.
CONSTANTS
  cpu = cpu  ppu = ppu  smp = smp  pad1 = pad1  pad2 = pad2  rtc = rtc  superfx = superfx
  Host = Host  Null = Null
  Thread = {cpu, ppu, smp}
  Handle = {h1, h2, h3, h4}
  Cpu = cpu
  Pluggable = {}
  Chip = {}
  Boots <- ThreeBoots
  Program <- RestartProgram
  W = 64
  MaxClock = 56
  MaxID = 5
  MaxEntries = 6
  MaxLead = 8
  HostOps = {"save"}
  Settled = TRUE
SYMMETRY AnyHandle
SPECIFICATION Spec
INVARIANT EntryFound
