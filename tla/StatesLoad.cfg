\* States saved and loaded, cartridges with and without a chip, and a device, exchanged, the system unloaded and loaded again.
CONSTANTS
  cpu = cpu  ppu = ppu  smp = smp  pad1 = pad1  pad2 = pad2  rtc = rtc  superfx = superfx
  Host = Host  Null = Null
  Thread = {cpu, ppu, rtc, pad1}
  Handle = {h1, h2, h3, h4}
  Cpu = cpu
  Pluggable = {pad1}
  Chip = {rtc}
  Boots <- ChipBoots
  Program <- ChipProgram
  W = 64
  MaxClock = 56
  MaxID = 5
  MaxEntries = 4
  MaxLead = 4
  HostOps = {"save", "reload", "swap", "off", "eject"}
  SameIDs = TRUE
  Settled = TRUE
SYMMETRY AnyHandle
SPECIFICATION LoadSpec
INVARIANTS TypeOK RoundTrip ScheduledAlive
