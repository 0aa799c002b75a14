\* Controllers exchanged, and the system reset, between frames under a CPU that synchronizes the devices it lists.
CONSTANTS
  cpu = cpu  ppu = ppu  smp = smp  pad1 = pad1  pad2 = pad2  rtc = rtc  superfx = superfx
  Host = Host  Null = Null
  Thread = {cpu, ppu, pad1, pad2}
  Handle = {h1, h2, h3, h4}
  Cpu = cpu
  Pluggable = {pad1, pad2}
  Chip = {}
  Boots <- TwoBoots
  Program <- NamedProgram
  W = 64
  MaxClock = 56
  MaxID = 5
  MaxEntries = 8
  MaxLead = 8
  HostOps = {"plug", "off", "reset"}
  Settled = TRUE
SYMMETRY AnyHandle
SPECIFICATION Spec
INVARIANTS UniqueIDs  SwitchesToLive
