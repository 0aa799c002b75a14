\* Peripherals created, connected, renamed and deleted over several sessions.
CONSTANTS
  p1 = p1  p2 = p2  exp = exp
  pad = pad  mouse = mouse  modem = modem
  None = None
  Port = {p1, p2, exp}
  Dir = {d1, d2, d3}
  Kind = {pad, mouse, modem}
  Supports <- MCSupports
  HotSwappable = {p1, p2}
  Elsewhere = FALSE
SYMMETRY AnyDir
SPECIFICATION Spec
INVARIANTS PortsTypeOK OnePort  Restorable DeviceFollowsNode
