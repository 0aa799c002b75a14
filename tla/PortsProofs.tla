---------------------------- MODULE PortsProofs ----------------------------
(***************************************************************************)
(* What holds of ports and peripherals for any number of them: that a      *)
(* peripheral is connected to one port at most, exists, and is the device   *)
(* that the emulated system finds.                                         *)
(*                                                                         *)
(* The configuration survives the session that wrote it, so the inductive  *)
(* invariant says of `config' what it says of `node', except that its      *)
(* peripherals still exist: this Valid restores when it is loaded.  Types  *)
(* and Restorable need none of it: they hold whatever the user deletes.    *)
(***************************************************************************)
EXTENDS Ports, TLAPS

Tree == [Port -> Peripheral \cup {NoPeripheral}]

\* No peripheral is in two ports of a tree, and each port knows its peripheral's name.
Proper(tree) ==
  /\ \A p, q \in Port : tree[p] # NoPeripheral /\ tree[p].dir = tree[q].dir => p = q
  /\ \A p \in Port : tree[p] # NoPeripheral => tree[p].kind \in Supports[p]

\* Between sessions no port has a peripheral.
EmptyWhenUnloaded == ~loaded => node = Empty

PortsInv ==
  /\ PortsTypeOK
  /\ Proper(node) /\ Proper(config)
  /\ EmptyWhenUnloaded
  /\ ConnectedExists /\ DeviceFollowsNode

\* A place of a tree holds a peripheral or none, and which one its directory tells.
LEMMA Places ==
  ASSUME NEW x \in Peripheral \cup {NoPeripheral}
  PROVE  /\ x # NoPeripheral => x \in Peripheral /\ x.dir \in Dir /\ x.kind \in Kind
                               /\ x.dir # None /\ x.kind # None
         /\ x = NoPeripheral => x.dir = None /\ x.kind = None
BY PortsAssumption DEF Peripheral, NoPeripheral

\* A proper tree stays one when a port's peripheral is taken out.
LEMMA TakenOut ==
  ASSUME NEW tree \in Tree, Proper(tree), NEW p \in Port
  PROVE  /\ [tree EXCEPT ![p] = NoPeripheral] \in Tree
         /\ Proper([tree EXCEPT ![p] = NoPeripheral])
<1> DEFINE T == [tree EXCEPT ![p] = NoPeripheral]
<1>1. T \in Tree
  BY DEF Tree
<1>2. ASSUME NEW q \in Port, NEW r \in Port, T[q] # NoPeripheral, T[q].dir = T[r].dir
      PROVE  q = r
  <2>1. T[q] = tree[q] /\ q # p
    BY <1>2 DEF Tree
  <2>2. T[q].dir # None
    BY <1>1, <1>2, Places DEF Tree
  <2>3. r # p
    BY <1>2, <2>2, Places DEF Tree, NoPeripheral
  <2> QED
    BY <1>2, <2>1, <2>3 DEF Tree, Proper
<1>3. ASSUME NEW q \in Port, T[q] # NoPeripheral
      PROVE  T[q].kind \in Supports[q]
  BY <1>3 DEF Tree, Proper
<1> QED
  BY <1>1, <1>2, <1>3 DEF Proper

\* ... and when a peripheral that no port has is put in, if the port knows its name.
LEMMA PutIn ==
  ASSUME NEW tree \in Tree, Proper(tree), NEW p \in Port,
         NEW d \in Dir, NEW k \in Supports[p],
         \A q \in Port : tree[q].dir # d
  PROVE  /\ [tree EXCEPT ![p] = [dir |-> d, kind |-> k]] \in Tree
         /\ Proper([tree EXCEPT ![p] = [dir |-> d, kind |-> k]])
<1> DEFINE T == [tree EXCEPT ![p] = [dir |-> d, kind |-> k]]
<1>1. k \in Kind
  BY PortsAssumption
<1>2. T \in Tree
  BY <1>1 DEF Tree, Peripheral
<1>3. ASSUME NEW q \in Port, NEW r \in Port, T[q] # NoPeripheral, T[q].dir = T[r].dir
      PROVE  q = r
  BY <1>3 DEF Tree, Proper
<1>4. ASSUME NEW q \in Port, T[q] # NoPeripheral
      PROVE  T[q].kind \in Supports[q]
  BY <1>4 DEF Tree, Proper
<1> QED
  BY <1>2, <1>3, <1>4 DEF Proper

\* Renaming a peripheral to a name that no port has moves it within the tree.
LEMMA MovedProper ==
  ASSUME node \in Tree, Proper(node), NEW d \in Dir, NEW e \in Dir,
         \A q \in Port : node[q].dir # e
  PROVE  /\ Moved(d, e) \in Tree /\ Proper(Moved(d, e))
         /\ \A q \in Port :
              /\ Moved(d, e)[q].dir = IF node[q].dir = d THEN e ELSE node[q].dir
              /\ Moved(d, e)[q].kind = node[q].kind
              /\ Moved(d, e)[q] # NoPeripheral => node[q] # NoPeripheral
<1> DEFINE T == Moved(d, e)
<1>1. \A q \in Port : node[q].dir = d => node[q] \in Peripheral
  BY PortsAssumption DEF Tree, NoPeripheral
<1>2. ASSUME NEW q \in Port
      PROVE  /\ node[q].dir = d => /\ T[q] = [dir |-> e, kind |-> node[q].kind]
                                  /\ node[q] # NoPeripheral
             /\ node[q].dir # d => T[q] = node[q]
  <2>1. CASE node[q].dir = d
    BY <1>1, <2>1, PortsAssumption DEF Moved, Peripheral, NoPeripheral
  <2>2. CASE node[q].dir # d
    BY <2>2 DEF Moved
  <2> QED
    BY <2>1, <2>2
<1>3. ASSUME NEW q \in Port
       PROVE  /\ T[q].dir = IF node[q].dir = d THEN e ELSE node[q].dir
              /\ T[q].kind = node[q].kind
              /\ T[q] # NoPeripheral => node[q] # NoPeripheral
  <2>1. CASE node[q].dir = d
    <3>1. T[q] = [dir |-> e, kind |-> node[q].kind] /\ node[q] # NoPeripheral
      BY <1>2, <2>1
    <3> QED
      BY <2>1, <3>1
  <2>2. CASE node[q].dir # d
    BY <1>2, <2>2
  <2> QED
    BY <2>1, <2>2
<1>4. T \in Tree
  BY <1>1, <1>2 DEF Moved, Tree, Peripheral
<1>5. ASSUME NEW q \in Port, NEW r \in Port, T[q] # NoPeripheral, T[q].dir = T[r].dir
      PROVE  q = r
  <2>1. node[q] # NoPeripheral
    BY <1>3, <1>5
  <2>2. node[q].dir = node[r].dir
    BY <1>3, <1>5
  <2> QED
    BY <2>1, <2>2 DEF Proper
<1>6. ASSUME NEW q \in Port, T[q] # NoPeripheral
      PROVE  T[q].kind \in Supports[q]
  BY <1>3, <1>6 DEF Proper
<1> QED
  BY <1>3, <1>4, <1>5, <1>6 DEF Proper

\* Loading keeps of a proper tree the peripherals that still exist.
LEMMA ValidProper ==
  ASSUME NEW tree \in Tree, Proper(tree), dirs \in SUBSET Dir
  PROVE  /\ Valid(tree) \in Tree /\ Proper(Valid(tree))
         /\ \A p \in Port : Valid(tree)[p] # NoPeripheral => Valid(tree)[p].dir \in dirs
<1>1. \A p \in Port : Valid(tree)[p] = IF tree[p].dir \in dirs THEN tree[p] ELSE NoPeripheral
  BY DEF Valid
<1>2. \A p \in Port : tree[p].dir \in dirs => tree[p] # NoPeripheral
  BY PortsAssumption DEF NoPeripheral
<1>3. Valid(tree) \in Tree
  BY DEF Valid, Tree
<1>4. ASSUME NEW q \in Port, NEW r \in Port,
             Valid(tree)[q] # NoPeripheral, Valid(tree)[q].dir = Valid(tree)[r].dir
      PROVE  q = r
  <2>1. tree[q].dir \in dirs /\ Valid(tree)[q] = tree[q]
    BY <1>1, <1>4
  <2>2. Valid(tree)[r] = tree[r]
    BY <1>1, <1>4, <2>1, PortsAssumption DEF NoPeripheral
  <2> QED
    BY <1>2, <1>4, <2>1, <2>2 DEF Proper
<1>5. ASSUME NEW q \in Port, Valid(tree)[q] # NoPeripheral
      PROVE  Valid(tree)[q].kind \in Supports[q]
  BY <1>1, <1>2, <1>5 DEF Proper
<1> QED
  BY <1>1, <1>3, <1>4, <1>5 DEF Proper

LEMMA PortsInvInit == Init => PortsInv
<1> SUFFICES ASSUME Init PROVE PortsInv
  OBVIOUS
<1> USE DEF Init, Empty, NoDevice
<1>1. PortsTypeOK
  BY DEF PortsTypeOK
<1>2. Proper(node) /\ Proper(config)
  BY DEF Proper
<1> QED
  BY <1>1, <1>2
     DEF PortsInv, EmptyWhenUnloaded, ConnectedExists, DeviceFollowsNode, Connected

\* Writing settings.bml of a peripheral keeps the type of `saved'.
LEMMA WrittenType ==
  ASSUME PortsTypeOK, NEW p \in Port
  PROVE  Written(p) \in [Dir -> Kind \cup {None}]
<1>1. CASE Connected(p) /\ node[p].dir \in dirs
  <2>1. node[p].kind \in Kind
    BY <1>1, Places DEF PortsTypeOK, Connected
  <2> QED
    BY <1>1, <2>1 DEF Written, PortsTypeOK
<1>2. CASE ~(Connected(p) /\ node[p].dir \in dirs)
  BY <1>2 DEF Written, PortsTypeOK
<1> QED
  BY <1>1, <1>2

\* Allocating a peripheral that no port has, in a port whose own may be replaced.
LEMMA AllocateKeeps ==
  ASSUME PortsInv, NEW p \in Port, NEW d \in Dir, NEW k \in Kind \cup {None},
         \A q \in Port : node[q].dir # d,
         Allocate(p, d, k), d \in dirs', dirs \subseteq dirs'
  PROVE  /\ node' \in Tree /\ Proper(node)'
         /\ device' \in [Port -> Kind \cup {None}]
         /\ ConnectedExists' /\ DeviceFollowsNode'
<1> USE DEF PortsInv
<1>0. node \in Tree
  BY DEF PortsTypeOK, Tree
<1>1. CASE k \in Supports[p]
  <2>1. /\ node' = [node EXCEPT ![p] = [dir |-> d, kind |-> k]]
        /\ device' = [device EXCEPT ![p] = k]
    BY <1>1 DEF Allocate, Allocates, DeviceAfter
  <2>2. node' \in Tree /\ Proper(node')
    BY <1>0, <1>1, <2>1, PutIn
  <2>3. device' \in [Port -> Kind \cup {None}]
    BY <2>1 DEF PortsTypeOK
  <2>4. ConnectedExists' /\ DeviceFollowsNode'
    BY <1>0, <2>1 DEF ConnectedExists, DeviceFollowsNode, Connected, PortsTypeOK, Tree
  <2> QED
    BY <2>2, <2>3, <2>4 DEF Proper
<1>2. CASE k \notin Supports[p]
  <2>1. node' = [node EXCEPT ![p] = NoPeripheral] /\ device' = device
    BY <1>2 DEF Allocate, Allocates, DeviceAfter, PortsTypeOK
  <2>2. node' \in Tree /\ Proper(node')
    BY <1>0, <2>1, TakenOut
  <2>3. ConnectedExists' /\ DeviceFollowsNode'
    BY <1>0, <2>1 DEF ConnectedExists, DeviceFollowsNode, Connected, Tree
  <2> QED
    BY <2>1, <2>2, <2>3 DEF Proper, PortsTypeOK
<1> QED
  BY <1>1, <1>2

LEMMA PortsInvStep ==
  ASSUME ~Elsewhere, PortsInv, [Next]_vars
  PROVE  PortsInv'
<1> USE DEF PortsInv
<1>0. node \in Tree /\ config \in Tree
  BY DEF PortsTypeOK, Tree
<1>a. \A q \in Port : node[q].dir # None => Connected(q)
  BY DEF Connected, NoPeripheral
<1>1. ASSUME NEW p \in Port, Disconnect(p) PROVE PortsInv'
  <2>1. Written(p) \in [Dir -> Kind \cup {None}]
    BY WrittenType
  <2>2. node' \in Tree /\ Proper(node')
    BY <1>0, <1>1, TakenOut DEF Disconnect
  <2>3. PortsTypeOK'
    BY <1>1, <2>1, <2>2 DEF Disconnect, AskAboutPower, PortsTypeOK, Tree
  <2>4. ConnectedExists' /\ DeviceFollowsNode'
    BY <1>0, <1>1 DEF Disconnect, ConnectedExists, DeviceFollowsNode, Connected, Tree
  <2> QED
    BY <1>1, <2>2, <2>3, <2>4 DEF Disconnect, EmptyWhenUnloaded, Proper
<1>2. ASSUME NEW p \in Port, NEW k \in Kind, NEW d \in Dir, CreateNew(p, k, d)
      PROVE  PortsInv'
  <2>1. \A q \in Port : node[q].dir # d
    BY <1>2, <1>a, PortsAssumption DEF CreateNew, ConnectedExists
  <2>2. /\ node' \in Tree /\ Proper(node)'
        /\ device' \in [Port -> Kind \cup {None}]
        /\ ConnectedExists' /\ DeviceFollowsNode'
    BY <1>2, <2>1, AllocateKeeps DEF CreateNew
  <2>3. PortsTypeOK'
    BY <1>2, <2>2, WrittenType DEF CreateNew, AskAboutPower, PortsTypeOK, Tree
  <2> QED
    BY <1>2, <2>2, <2>3 DEF CreateNew, EmptyWhenUnloaded, Proper
<1>3. ASSUME NEW p \in Port, NEW d \in Dir, Connect(p, d) PROVE PortsInv'
  <2>1. \A q \in Port : node[q].dir # d
    BY <1>3 DEF Connect, PortsWith
  <2>2. saved[d] \in Kind \cup {None}
    BY DEF PortsTypeOK
  <2>3. /\ node' \in Tree /\ Proper(node)'
        /\ device' \in [Port -> Kind \cup {None}]
        /\ ConnectedExists' /\ DeviceFollowsNode'
    BY <1>3, <2>1, <2>2, AllocateKeeps DEF Connect
  <2>4. PortsTypeOK'
    BY <1>3, <2>3, WrittenType DEF Connect, AskAboutPower, PortsTypeOK, Tree
  <2> QED
    BY <1>3, <2>3, <2>4 DEF Connect, EmptyWhenUnloaded, Proper
<1>4. ASSUME NEW d \in Dir, NEW e \in Dir, Rename(d, e) PROVE PortsInv'
  <2>1. \A q \in Port : node[q].dir # e
    BY <1>4, <1>a, PortsAssumption DEF Rename, ConnectedExists
  <2>2. node' \in Tree /\ Proper(node')
    BY <1>0, <1>4, <2>1, MovedProper DEF Rename
  <2>3. PortsTypeOK'
    BY <1>4, <2>2 DEF Rename, PortsTypeOK, Tree
  <2>4. \A q \in Port :
          /\ node'[q].dir = IF node[q].dir = d THEN e ELSE node[q].dir
          /\ node'[q].kind = node[q].kind
          /\ node'[q] # NoPeripheral => node[q] # NoPeripheral
    BY <1>0, <1>4, <2>1, MovedProper DEF Rename
  <2>5. ConnectedExists'
    BY <1>4, <2>4 DEF Rename, ConnectedExists, Connected
  <2>6. DeviceFollowsNode'
    <3> SUFFICES ASSUME NEW q \in Port, Connected(q)'
                 PROVE  device'[q] = node'[q].kind
      BY DEF DeviceFollowsNode
    <3>1. Connected(q) /\ node'[q].kind = node[q].kind
      BY <2>4 DEF Connected
    <3> QED
      BY <1>4, <3>1 DEF Rename, DeviceFollowsNode
  <2> QED
    BY <1>4, <2>2, <2>3, <2>5, <2>6 DEF Rename, EmptyWhenUnloaded, Proper
<1>5. ASSUME NEW p \in Port, NEW d \in Dir, Remove(p, d) PROVE PortsInv'
  <2>1. PortsWith(p, d) \subseteq {p}
    BY <1>5 DEF Remove
  <2>2. node' = [node EXCEPT ![p] = NoPeripheral] \/ node' = node
    BY <1>5 DEF Remove
  <2>3. node' \in Tree /\ Proper(node')
    BY <1>0, <2>2, TakenOut
  <2>4. saved' \in [Dir -> Kind \cup {None}]
    BY <1>5, WrittenType DEF Remove, PortsTypeOK
  <2>5. PortsTypeOK'
    BY <1>5, <2>3, <2>4 DEF Remove, PortsTypeOK, Tree
  <2>6. \A q \in Port : Connected(q)' => Connected(q) /\ node'[q] = node[q] /\ node[q].dir # d
    BY <1>0, <1>5, <2>1 DEF Remove, PortsWith, Connected, Tree
  <2>7. ConnectedExists' /\ DeviceFollowsNode'
    BY <1>5, <2>6 DEF Remove, ConnectedExists, DeviceFollowsNode
  <2> QED
    BY <1>5, <2>3, <2>5, <2>7 DEF Remove, EmptyWhenUnloaded, Proper
<1>6. CASE SetPower
  BY <1>6 DEF SetPower, PortsTypeOK, Proper, EmptyWhenUnloaded, ConnectedExists,
              DeviceFollowsNode, Connected
<1>7. CASE Unload \/ Kill
  <2>1. PortsTypeOK'
    BY <1>7 DEF Unload, Kill, PortsTypeOK, Empty, NoDevice
  <2>2. Proper(node)' /\ Proper(config)'
    BY <1>7 DEF Unload, Kill, Proper, Empty
  <2> QED
    BY <1>7, <2>1, <2>2 DEF Unload, Kill, EmptyWhenUnloaded, ConnectedExists,
                            DeviceFollowsNode, Connected, Empty
<1>8. CASE Load
  <2>1. dirs \in SUBSET Dir
    BY DEF PortsTypeOK
  <2>2. /\ node' \in Tree /\ Proper(node')
        /\ \A p \in Port : node'[p] # NoPeripheral => node'[p].dir \in dirs
    BY <1>0, <1>8, <2>1, ValidProper DEF Load
  <2>3. \A p \in Port : DeviceAfter(p, node'[p].kind) \in Kind \cup {None}
    BY PortsAssumption DEF DeviceAfter, PortsTypeOK
  <2>4. PortsTypeOK'
    BY <1>8, <2>2, <2>3 DEF Load, PortsTypeOK, Tree
  <2>5. ConnectedExists'
    BY <1>8, <2>2 DEF Load, ConnectedExists, Connected
  <2>6. DeviceFollowsNode'
    BY <1>8, <2>2 DEF Load, DeviceFollowsNode, Connected, DeviceAfter, Proper
  <2> QED
    BY <1>8, <2>2, <2>4, <2>5, <2>6 DEF Load, EmptyWhenUnloaded, Proper
<1>9. ASSUME NEW d \in Dir, Vanish(d) PROVE PortsInv'
  <2>1. PortsTypeOK'
    BY <1>9 DEF Vanish, PortsTypeOK
  <2> QED
    BY <1>9, <2>1 DEF Vanish, Proper, EmptyWhenUnloaded, ConnectedExists,
                      DeviceFollowsNode, Connected, Empty
<1>10. CASE UNCHANGED vars
  BY <1>10 DEF vars, PortsTypeOK, Proper, EmptyWhenUnloaded, ConnectedExists,
               DeviceFollowsNode, Connected
<1> QED
  BY <1>1, <1>2, <1>3, <1>4, <1>5, <1>6, <1>7, <1>8, <1>9, <1>10 DEF Next

-----------------------------------------------------------------------------
(***************************************************************************)
(* Types, wherever peripherals are deleted                                 *)
(***************************************************************************)
\* Renaming keeps the type of the tree, whoever has the new name already.
LEMMA MovedType ==
  ASSUME node \in Tree, NEW d \in Dir, NEW e \in Dir
  PROVE  /\ Moved(d, e) \in Tree
         /\ \A q \in Port : node[q].dir # d => Moved(d, e)[q] = node[q]
         /\ \A q \in Port : node[q].dir = d => Moved(d, e)[q].dir = e
<1>1. ASSUME NEW q \in Port, node[q].dir = d
      PROVE  Moved(d, e)[q] \in Peripheral /\ Moved(d, e)[q].dir = e
  <2>1. node[q] \in Peripheral
    BY <1>1, PortsAssumption DEF Tree, NoPeripheral
  <2>2. Moved(d, e)[q] = [node[q] EXCEPT !.dir = e]
    BY <1>1 DEF Moved
  <2>3. [node[q] EXCEPT !.dir = e] \in Peripheral /\ [node[q] EXCEPT !.dir = e].dir = e
    BY <2>1 DEF Peripheral
  <2> QED
    BY <2>2, <2>3
<1>2. ASSUME NEW q \in Port, node[q].dir # d
      PROVE  Moved(d, e)[q] = node[q]
  BY <1>2 DEF Moved
<1>3. ASSUME NEW q \in Port PROVE Moved(d, e)[q] \in Peripheral \cup {NoPeripheral}
  BY <1>1, <1>2 DEF Tree
<1>4. Moved(d, e) \in Tree
  BY <1>3 DEF Tree, Moved
<1> QED
  BY <1>1, <1>2, <1>4

\* Allocating a peripheral keeps the types of trees and devices.
LEMMA AllocateType ==
  ASSUME PortsTypeOK, NEW p \in Port, NEW d \in Dir, NEW k, Allocate(p, d, k)
  PROVE  node' \in Tree /\ device' \in [Port -> Kind \cup {None}]
<1>1. k \in Supports[p] => k \in Kind
  BY PortsAssumption
<1>2. CASE k \in Supports[p]
  BY <1>1, <1>2 DEF Allocate, Allocates, DeviceAfter, PortsTypeOK, Tree, Peripheral
<1>3. CASE k \notin Supports[p]
  BY <1>3 DEF Allocate, Allocates, DeviceAfter, PortsTypeOK, Tree
<1> QED
  BY <1>2, <1>3

LEMMA TypesStep ==
  ASSUME PortsTypeOK, [Next]_vars
  PROVE  PortsTypeOK'
<1>0. /\ node \in Tree /\ config \in Tree /\ dirs \in SUBSET Dir
      /\ saved \in [Dir -> Kind \cup {None}]
      /\ \A p \in Port : Written(p) \in [Dir -> Kind \cup {None}]
  BY WrittenType DEF PortsTypeOK, Tree
<1>1. ASSUME NEW p \in Port, Disconnect(p) PROVE PortsTypeOK'
  BY <1>0, <1>1 DEF Disconnect, AskAboutPower, PortsTypeOK
<1>2. ASSUME NEW p \in Port, NEW k \in Kind, NEW d \in Dir, CreateNew(p, k, d)
      PROVE  PortsTypeOK'
  BY <1>0, <1>2, AllocateType DEF CreateNew, AskAboutPower, PortsTypeOK, Tree
<1>3. ASSUME NEW p \in Port, NEW d \in Dir, Connect(p, d) PROVE PortsTypeOK'
  BY <1>0, <1>3, AllocateType DEF Connect, AskAboutPower, PortsTypeOK, Tree
<1>4. ASSUME NEW d \in Dir, NEW e \in Dir, Rename(d, e) PROVE PortsTypeOK'
  <2>1. node' \in Tree
    BY <1>0, <1>4, MovedType DEF Rename
  <2> QED
    BY <1>0, <1>4, <2>1 DEF Rename, PortsTypeOK, Tree
<1>5. ASSUME NEW p \in Port, NEW d \in Dir, Remove(p, d) PROVE PortsTypeOK'
  <2>1. node' \in Tree /\ saved' \in [Dir -> Kind \cup {None}]
    BY <1>0, <1>5 DEF Remove, Tree
  <2> QED
    BY <1>0, <1>5, <2>1 DEF Remove, PortsTypeOK, Tree
<1>6. CASE SetPower \/ Unload \/ Kill
  BY <1>6 DEF SetPower, Unload, Kill, PortsTypeOK, Empty, NoDevice
<1>7. CASE Load
  <2>1. node' \in Tree
    BY <1>0, <1>7 DEF Load, Valid, Tree
  <2>2. device' \in [Port -> Kind \cup {None}]
    BY <1>7, PortsAssumption DEF Load, DeviceAfter, PortsTypeOK
  <2> QED
    BY <1>7, <2>1, <2>2 DEF Load, PortsTypeOK, Tree
<1>8. ASSUME NEW d \in Dir, Vanish(d) PROVE PortsTypeOK'
  BY <1>8 DEF Vanish, PortsTypeOK
<1>9. CASE UNCHANGED vars
  BY <1>9 DEF vars, PortsTypeOK
<1> QED
  BY <1>1, <1>2, <1>3, <1>4, <1>5, <1>6, <1>7, <1>8, <1>9 DEF Next

-----------------------------------------------------------------------------
(***************************************************************************)
(* No peripheral loses its identity                                        *)
(***************************************************************************)
\* Who has d: the tree, or the configuration the next tree is made from.
InTree(d) == \E p \in Port : (IF loaded THEN node ELSE config)[p].dir = d

Known(d) == killed \/ saved[d] # None \/ InTree(d)

\* What is taken out of a port is written down, so that only the port's own peripheral
\* can get out of the tree, and then has a name.
LEMMA WrittenKnown ==
  ASSUME PortsTypeOK, loaded, loaded', killed' = killed, NEW p \in Port,
         NEW d \in dirs, Known(d), saved' = Written(p),
         \A q \in Port \ {p} : node'[q] = node[q]
  PROVE  Known(d)'
<1>1. d \in Dir /\ d # None /\ node \in Tree
  BY PortsAssumption DEF PortsTypeOK, Tree
<1>2. saved[d] # None => saved'[d] # None
  <2>1. Connected(p) => node[p].kind # None /\ node[p].dir \in Dir
    BY <1>1, Places DEF Connected, Tree
  <2> QED
    BY <1>1, <2>1 DEF Written, PortsTypeOK
<1>3. node[p].dir = d => saved'[d] # None
  <2>1. ASSUME node[p].dir = d PROVE Connected(p) /\ node[p].kind # None
    BY <1>1, <2>1, Places DEF Connected, Tree
  <2> QED
    BY <1>1, <2>1 DEF Written, PortsTypeOK
<1>4. ASSUME NEW q \in Port \ {p}, node[q].dir = d
      PROVE  InTree(d)'
  BY <1>4 DEF InTree
<1> QED
  BY <1>2, <1>3, <1>4 DEF Known, InTree

LEMMA KnownStep ==
  ASSUME PortsTypeOK, Restorable, [Next]_vars, NEW d \in dirs'
  PROVE  Known(d)'
<1>0. /\ node \in Tree /\ dirs \in SUBSET Dir /\ None \notin Dir \cup Kind
      /\ \A c \in dirs : Known(c)
  BY PortsAssumption DEF PortsTypeOK, Tree, Restorable, Known, InTree
<1>1. ASSUME NEW p \in Port, Disconnect(p) PROVE Known(d)'
  <2>1. \A q \in Port \ {p} : node'[q] = node[q]
    BY <1>0, <1>1 DEF Disconnect, Tree
  <2> QED
    BY <1>0, <1>1, <2>1, WrittenKnown DEF Disconnect
<1>2. ASSUME NEW p \in Port, NEW k \in Kind, NEW c \in Dir, CreateNew(p, k, c)
      PROVE  Known(d)'
  <2>1. node' = [node EXCEPT ![p] = [dir |-> c, kind |-> k]]
    BY <1>2 DEF CreateNew, Allocate, Allocates
  <2>2. CASE d = c
    <3>1. node'[p].dir = d
      BY <1>0, <2>1, <2>2 DEF Tree
    <3> QED
      BY <1>2, <3>1 DEF CreateNew, Known, InTree
  <2>3. CASE d \in dirs
    <3>1. \A q \in Port \ {p} : node'[q] = node[q]
      BY <1>0, <2>1 DEF Tree
    <3> QED
      BY <1>0, <1>2, <2>3, <3>1, WrittenKnown DEF CreateNew
  <2> QED
    BY <1>2, <2>2, <2>3 DEF CreateNew
<1>3. ASSUME NEW p \in Port, NEW c \in Dir, Connect(p, c) PROVE Known(d)'
  <2>1. \A q \in Port \ {p} : node'[q] = node[q]
    BY <1>0, <1>3 DEF Connect, Allocate, Tree
  <2> QED
    BY <1>0, <1>3, <2>1, WrittenKnown DEF Connect
<1>4. ASSUME NEW b \in Dir, NEW c \in Dir, Rename(b, c) PROVE Known(d)'
  <2>1. /\ b \in dirs /\ c \notin dirs /\ loaded /\ loaded' /\ killed' = killed
        /\ saved' = [saved EXCEPT ![c] = saved[b], ![b] = None]
        /\ d = c \/ (d \in dirs /\ d # b)
    BY <1>4 DEF Rename
  <2>2. /\ \A q \in Port : node[q].dir # b => node'[q] = node[q]
        /\ \A q \in Port : node[q].dir = b => node'[q].dir = c
    BY <1>0, <1>4, MovedType DEF Rename
  <2>3. CASE d = c
    <3>1. Known(b) /\ saved'[d] = saved[b]
      BY <1>0, <2>1, <2>3 DEF PortsTypeOK
    <3> QED
      BY <2>1, <2>2, <2>3, <3>1 DEF Known, InTree
  <2>4. CASE d \in dirs /\ d # b
    <3>1. Known(d) /\ saved'[d] = saved[d]
      BY <1>0, <2>1, <2>4 DEF PortsTypeOK
    <3> QED
      BY <2>1, <2>2, <2>4, <3>1 DEF Known, InTree
  <2> QED
    BY <2>1, <2>3, <2>4
<1>5. ASSUME NEW p \in Port, NEW c \in Dir, Remove(p, c) PROVE Known(d)'
  <2>1. /\ d \in dirs /\ d # c /\ loaded /\ loaded' /\ killed' = killed /\ Known(d)
    BY <1>0, <1>5 DEF Remove
  <2>2. CASE PortsWith(p, c) = {}
    <3>1. saved'[d] = saved[d] /\ node' = node
      BY <1>0, <1>5, <2>1, <2>2 DEF Remove, PortsTypeOK
    <3> QED
      BY <2>1, <3>1 DEF Known, InTree
  <2>3. CASE PortsWith(p, c) # {}
    <3>1. /\ saved' = [Written(p) EXCEPT ![c] = None]
          /\ node' = [node EXCEPT ![p] = NoPeripheral]
      BY <1>5, <2>3 DEF Remove
    <3>2. Written(p) \in [Dir -> Kind \cup {None}]
      BY WrittenType
    <3>3. saved'[d] = Written(p)[d] /\ \A q \in Port \ {p} : node'[q] = node[q]
      BY <1>0, <2>1, <3>1, <3>2 DEF Tree
    <3>4. CASE node[p].dir = d
      <4>1. Connected(p) /\ node[p].kind # None
        BY <1>0, <2>1, <3>4, Places DEF Connected, Tree
      <4> QED
        BY <1>0, <2>1, <3>3, <3>4, <4>1 DEF Written, Known, PortsTypeOK
    <3>5. CASE node[p].dir # d
      <4>1. saved'[d] = saved[d]
        BY <1>0, <2>1, <3>3, <3>5 DEF Written, PortsTypeOK
      <4> QED
        BY <2>1, <3>3, <3>5, <4>1 DEF Known, InTree
    <3> QED
      BY <3>4, <3>5
  <2> QED
    BY <2>2, <2>3
<1>6. CASE SetPower
  BY <1>0, <1>6 DEF SetPower, Known, InTree
<1>7. CASE Unload
  BY <1>0, <1>7 DEF Unload, Known, InTree
<1>8. CASE Load
  <2>1. d \in dirs /\ killed' = killed /\ saved' = saved /\ ~loaded /\ loaded' /\ node' = Valid(config)
    BY <1>8 DEF Load
  <2>2. ASSUME NEW p \in Port, config[p].dir = d PROVE node'[p].dir = d
    BY <2>1, <2>2 DEF Valid
  <2> QED
    BY <1>0, <2>1, <2>2 DEF Known, InTree
<1>9. CASE Kill
  BY <1>9 DEF Kill, Known
<1>10. ASSUME NEW c \in Dir, Vanish(c) PROVE Known(d)'
  BY <1>0, <1>10 DEF Vanish, Known, InTree, PortsTypeOK
<1>11. CASE UNCHANGED vars
  BY <1>0, <1>11 DEF vars, Known, InTree
<1> QED
  BY <1>1, <1>2, <1>3, <1>4, <1>5, <1>6, <1>7, <1>8, <1>9, <1>10, <1>11 DEF Next

LEMMA TypesAlways == Spec => []PortsTypeOK
<1>1. Init => PortsTypeOK
  BY PortsInvInit DEF PortsInv
<1> QED
  BY <1>1, TypesStep, PTL DEF Spec

-----------------------------------------------------------------------------
\* The invariant holds while the user deletes peripherals only where they are connected.
LEMMA PortsInvAlways == ASSUME ~Elsewhere PROVE Spec => []PortsInv
BY PortsInvInit, PortsInvStep, PTL DEF Spec

\* Every variable keeps its type; what is in a port of the tree is a peripheral with a
\* directory and a name, never half of one, wherever peripherals are deleted.
THEOREM PortsTypes == Spec => []PortsTypeOK
BY TypesAlways

\* Unless the program is killed, the user can always have a peripheral back as the device
\* it was: whatever takes it out of the tree has written its name before, and loading a
\* system puts back what unloading it took away.
THEOREM PeripheralsRestorable == Spec => []Restorable
<1>1. Init => Restorable
  BY DEF Init, Restorable
<1>2. PortsTypeOK /\ Restorable /\ [Next]_vars => Restorable'
  <2> SUFFICES ASSUME PortsTypeOK, Restorable, [Next]_vars, NEW d \in dirs'
               PROVE  Known(d)'
    BY DEF Restorable, Known, InTree
  <2> QED
    BY KnownStep
<1> QED
  BY <1>1, <1>2, TypesAlways, PTL DEF Spec

\* The same peripheral is never connected to two ports (Emulator::connected), however it
\* is renamed, deleted, created, and whatever an outdated configuration names.
THEOREM NeverInTwoPorts == ASSUME ~Elsewhere PROVE Spec => []OnePort
<1>1. PortsInv => OnePort
  BY DEF PortsInv, Proper, OnePort, Connected
<1> QED
  BY <1>1, PortsInvAlways, PTL

\* A connected peripheral has its directory, so that disconnecting it can save.
THEOREM ConnectedPeripheralsExist == ASSUME ~Elsewhere PROVE Spec => []ConnectedExists
<1>1. PortsInv => ConnectedExists
  BY DEF PortsInv
<1> QED
  BY <1>1, PortsInvAlways, PTL

\* The tree and the emulated ports agree on every device, also after allocate() was
\* given a name it does not know.
THEOREM DevicesFollowNodes == ASSUME ~Elsewhere PROVE Spec => []DeviceFollowsNode
<1>1. PortsInv => DeviceFollowsNode
  BY DEF PortsInv
<1> QED
  BY <1>1, PortsInvAlways, PTL
=============================================================================
