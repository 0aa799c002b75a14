------------------------------- MODULE Ports -------------------------------
(***************************************************************************)
(* Ports of an emulated system and the peripherals the user connects to    *)
(* them: Node::Port (src/higan/higan/node/port.hpp), the controller and    *)
(* expansion ports of the systems (src/higan/<system>/controller/port.cpp),*)
(* the port connector of the user interface and what the emulator keeps    *)
(* from one session to the next (src/higan-ui).                            *)
(*                                                                         *)
(* A peripheral is a directory.  Connecting it puts a node into the        *)
(* system's tree, and a device into the emulated port; disconnecting it    *)
(* writes settings.bml, with the device's name, into the directory.        *)
(* Handlers of the user interface run one at a time.                       *)
(***************************************************************************)
EXTENDS Naturals, FiniteSets

CONSTANTS
  Port, Dir, Kind,
  None,
  Supports,      \* Supports[p]: the names that p's allocate() knows
  HotSwappable,  \* the ports whose peripheral may be changed with the power on
  Elsewhere      \* the user deletes peripherals connected to other ports, too

ASSUME PortsAssumption ==
  /\ Supports \in [Port -> SUBSET Kind]
  /\ HotSwappable \subseteq Port
  /\ None \notin Dir \cup Kind

VARIABLES
  dirs,      \* the peripherals that exist
  saved,     \* saved[d]: the name of the node in d's settings.bml
  node,      \* node[p]: the peripheral in the tree below port p
  device,    \* device[p]: the device the emulated system finds in port p
  config,    \* the system's own settings.bml, from the last session
  loaded,    \* a system is loaded
  killed,    \* whether the program ever ended without saving
  powered

vars == <<dirs, saved, node, device, config, loaded, powered, killed>>

Peripheral == [dir : Dir, kind : Kind]
NoPeripheral == [dir |-> None, kind |-> None]
Empty == [p \in Port |-> NoPeripheral]
NoDevice == [p \in Port |-> None]

\* Port::connected
Connected(p) == node[p] # NoPeripheral

\* Mutant: the peripheral is looked for in the port shown only.
HereOnly(p, d) == {q \in {p} : node[q].dir = d}
\* Emulator::connected(location): the port that has it, p being the one shown
PortsWith(p, d) == {q \in Port : node[q].dir = d}

\* Mutant: nothing is written when a peripheral is disconnected.
NotWritten(p) == saved
\* Port::disconnect -> Object::remove -> Emulator::detach writes the node into the
\* directory, if that is still there.
Written(p) ==
  IF Connected(p) /\ node[p].dir \in dirs
  THEN [saved EXCEPT ![node[p].dir] = node[p].kind]
  ELSE saved

\* Mutant: allocate makes a device of any name.
AllocatesAny(p, k) == TRUE
\* allocate() knows the name; with another one it returns the node of the device that
\* is there, which disconnect() has taken out of the tree.
Allocates(p, k) == k \in Supports[p]

\* Mutant: the device that is there stays.
DeviceKept(p, k) == IF device[p] = None THEN k ELSE device[p]
\* The device in p after allocate(k)
DeviceAfter(p, k) == IF k \in Supports[p] THEN k ELSE device[p]

\* Port::allocate(k) for the peripheral d, and connect
Allocate(p, d, k) ==
  /\ node' = [node EXCEPT ![p] = IF Allocates(p, k) THEN [dir |-> d, kind |-> k]
                                ELSE NoPeripheral]
  /\ device' = [device EXCEPT ![p] = DeviceAfter(p, k)]

\* eventActivate asks before a port is changed that should not be: "Force", or
\* "Power Off"
AskAboutPower(p) ==
  IF powered /\ p \notin HotSwappable THEN powered' \in BOOLEAN ELSE UNCHANGED powered

-----------------------------------------------------------------------------
\* eventActivate, "Nothing"
Disconnect(p) ==
  /\ loaded
  /\ AskAboutPower(p)
  /\ saved' = Written(p)
  /\ node' = [node EXCEPT ![p] = NoPeripheral]
  /\ UNCHANGED <<dirs, device, config, loaded, killed>>

\* eventActivate, a template: its directory is copied
CreateNew(p, k, d) ==
  /\ loaded
  /\ k \in Supports[p] /\ d \notin dirs
  /\ AskAboutPower(p)
  /\ dirs' = dirs \cup {d}
  /\ saved' = Written(p)
  /\ Allocate(p, d, k)
  /\ UNCHANGED <<config, loaded, killed>>

\* eventActivate, an existing peripheral that is not connected; saved[d] is None
\* where there is no settings.bml.
Connect(p, d) ==
  /\ loaded
  /\ d \in dirs
  /\ PortsWith(p, d) = {}
  /\ AskAboutPower(p)
  /\ saved' = Written(p)
  /\ Allocate(p, d, saved[d])
  /\ UNCHANGED <<dirs, config, loaded, killed>>

\* Mutant: a connected peripheral keeps its old location.
NotMoved(d, e) == node
\* The location and name of the renamed peripheral's node
Moved(d, e) == [q \in Port |-> IF node[q].dir = d THEN [node[q] EXCEPT !.dir = e] ELSE node[q]]

\* eventRename
Rename(d, e) ==
  /\ loaded
  /\ d \in dirs /\ e \notin dirs
  /\ dirs' = (dirs \ {d}) \cup {e}
  /\ saved' = [saved EXCEPT ![e] = saved[d], ![d] = None]
  /\ node' = Moved(d, e)
  /\ UNCHANGED <<device, config, loaded, powered, killed>>

\* eventRemove: asks whether the port shown is hot-swappable, and disconnects the port
\* shown if the peripheral is connected to any.
Remove(p, d) ==
  LET connected == PortsWith(p, d)
  IN  /\ loaded
      /\ d \in dirs
      /\ powered /\ p \notin HotSwappable => connected = {}
      /\ Elsewhere \/ connected \subseteq {p}
      /\ dirs' = dirs \ {d}
      /\ IF connected = {}
         THEN saved' = [saved EXCEPT ![d] = None] /\ UNCHANGED node
         ELSE /\ saved' = [Written(p) EXCEPT ![d] = None]
              /\ node' = [node EXCEPT ![p] = NoPeripheral]
      /\ UNCHANGED <<device, config, loaded, powered, killed>>

\* Emulator::power
SetPower ==
  /\ loaded
  /\ powered' = ~powered
  /\ UNCHANGED <<dirs, saved, node, device, config, loaded, killed>>

-----------------------------------------------------------------------------
\* Emulator::unload: the whole tree goes into the system's settings.bml, then
\* interface->unload() empties the ports.
Unload ==
  /\ loaded
  /\ config' = node
  /\ loaded' = FALSE /\ powered' = FALSE
  /\ node' = Empty /\ device' = NoDevice
  /\ UNCHANGED <<dirs, saved, killed>>

\* Mutant: peripherals that are missing are connected all the same.
AllOf(conf) == conf
\* Emulator::validateConfiguration
Valid(conf) == [p \in Port |-> IF conf[p].dir \in dirs THEN conf[p] ELSE NoPeripheral]

\* Emulator::create: Port::copy allocates what was connected.
Load ==
  /\ ~loaded
  /\ loaded' = TRUE
  /\ node' = Valid(config)
  /\ device' = [p \in Port |-> DeviceAfter(p, Valid(config)[p].kind)]
  /\ UNCHANGED <<dirs, saved, config, powered, killed>>

\* The process ends without Emulator::quit.
Kill ==
  /\ loaded
  /\ loaded' = FALSE /\ powered' = FALSE
  /\ node' = Empty /\ device' = NoDevice
  /\ killed' = TRUE
  /\ UNCHANGED <<dirs, saved, config>>

\* Peripherals are deleted while no system is loaded.
Vanish(d) ==
  /\ ~loaded /\ d \in dirs
  /\ dirs' = dirs \ {d}
  /\ saved' = [saved EXCEPT ![d] = None]
  /\ UNCHANGED <<node, device, config, loaded, powered, killed>>

Init ==
  /\ dirs = {}
  /\ saved = [d \in Dir |-> None]
  /\ node = Empty /\ config = Empty
  /\ device = NoDevice
  /\ loaded = FALSE /\ powered = FALSE /\ killed = FALSE

Next ==
  \/ \E p \in Port : Disconnect(p)
  \/ \E p \in Port, d \in Dir : Connect(p, d) \/ Remove(p, d)
  \/ \E p \in Port, d \in Dir, k \in Kind : CreateNew(p, k, d)
  \/ \E d, e \in Dir : Rename(d, e)
  \/ SetPower \/ Unload \/ Load \/ Kill
  \/ \E d \in Dir : Vanish(d)

Spec == Init /\ [][Next]_vars

-----------------------------------------------------------------------------
\* Every variable has the type of what it stands for.
PortsTypeOK ==
  /\ dirs \in SUBSET Dir
  /\ saved \in [Dir -> Kind \cup {None}]
  /\ node \in [Port -> Peripheral \cup {NoPeripheral}]
  /\ device \in [Port -> Kind \cup {None}]
  /\ config \in [Port -> Peripheral \cup {NoPeripheral}]
  /\ loaded \in BOOLEAN /\ powered \in BOOLEAN /\ killed \in BOOLEAN

\* "used to prevent connecting the same (emulated) physical device to multiple ports
\* simultaneously" (emulator.cpp:134), whatever is renamed, deleted or loaded.
OnePort ==
  \A p, q \in Port : Connected(p) /\ node[p].dir = node[q].dir => p = q

\* "must disconnect device before removing it, as disconnect will attempt to save data
\* to disk" (port-connector.cpp:292): what is connected exists.
ConnectedExists == \A p \in Port : Connected(p) => node[p].dir \in dirs

\* No peripheral loses its identity: it is connected, or will be when the system is
\* loaded, or its settings.bml says which device to allocate for it.  A killed program
\* may have made a peripheral and told nobody.
Restorable ==
  \A d \in dirs :
    \/ killed
    \/ saved[d] # None
    \/ \E p \in Port : (IF loaded THEN node ELSE config)[p].dir = d

\* A peripheral of the tree is the device that the emulated system finds in its port.
DeviceFollowsNode ==
  \A p \in Port : Connected(p) => device[p] = node[p].kind
=============================================================================
