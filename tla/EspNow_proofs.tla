---------------------------- MODULE EspNow_proofs ----------------------------
(***************************************************************************)
(* Proofs about managed ESP-NOW, for any set of goroutines and addresses   *)
(* and any number of instances and peers.                                  *)
(***************************************************************************)
EXTENDS EspNow, SequenceTheorems, TLAPS

\* Calls that claim or give up the slot, and calls that hold mu.
Claiming(c) == pc[c] \in {"init", "release"}
Closing(c) == pc[c] \in {"close peers", "deinit", "free"}
Holding(c) == Claiming(c) \/ Closing(c)
Adding(c) == pc[c] \in {"exists", "sdk add", "new peer", "undo"}
Added(c) == pc[c] \in {"new peer", "undo"}
Removing(c) == pc[c] \in {"unmap", "sdk delete"}
Open(p) == p \in Born /\ p \notin shut

\* One call at a time works on the slot, and none while an instance is open.
SlotInv ==
    /\ closed \subseteq ready /\ \A i \in ready : i <= made
    /\ \A c \in Callers : Holding(c) => active = inst[c] /\ active # Nil
    /\ \A c \in Callers : Claiming(c) => inst[c] \notin ready
    /\ \A c \in Callers : Closing(c) => inst[c] \in closed
    /\ \A c, d \in Callers : Holding(c) /\ Holding(d) => c = d
    /\ \A i \in ready \ closed : active = i /\ sdkOn /\ sdkRecv
    /\ active # Nil => active <= made

\* An adding call holds the lock of an open instance whose map wants the peer.
LockInv ==
    \A c \in Callers : Adding(c) =>
        /\ inst[c] \in ready /\ inst[c] \notin closed /\ mu[inst[c]] = c
        /\ peers[inst[c]][at[c]] = Nil

\* What the maps hold, and who made the peers.
EntryInv ==
    /\ \A p \in Born : owner[p] \in ready
    /\ \A i \in Instances, a \in Addresses :
           peers[i][a] # Nil => /\ peers[i][a] \in Born
                                /\ owner[peers[i][a]] = i /\ addr[peers[i][a]] = a

\* Where an open peer can be found.
OpenInv ==
    /\ \A p \in Born : Open(p) /\ owner[p] \notin closed => peers[owner[p]][addr[p]] = p
    /\ \A p \in Born : Open(p) /\ owner[p] \in closed =>
           \E c \in Callers : /\ pc[c] = "close peers" /\ inst[c] = owner[p]
                              /\ p \in todo[c]
    /\ \A p, q \in Born : Open(p) /\ Open(q) /\ owner[p] = owner[q]
                         /\ addr[p] = addr[q] => p = q

\* Each Peer.Close has a peer of its own.
RemovingInv ==
    /\ \A c \in Callers : Removing(c) => peer[c] \in Born /\ peer[c] \in shut
    /\ \A c, d \in Callers :
           Removing(c) /\ Removing(d) /\ peer[c] = peer[d] => c = d
    /\ \A c \in Callers : pc[c] = "unmap" /\ owner[peer[c]] \notin closed
           => peers[owner[peer[c]]][addr[peer[c]]] = peer[c]

\* What an instance's lock and map say of the calls and peers.
MapInv == LockInv /\ EntryInv /\ OpenInv /\ RemovingInv

\* The SDK has the addresses of the open peers, and of those being made.
OpenListed ==
    \A p \in Born : Open(p) /\ addr[p] # Broadcast => addr[p] \in sdkTable
AddedListed ==
    \A c \in Callers : Added(c) /\ at[c] # Broadcast => at[c] \in sdkTable

\* A Peer.Close that has not reached the SDK keeps its address in the table and
\* so keeps a new peer of the same instance out.
Reserved(c) ==
    LET a == addr[peer[c]]
        i == owner[peer[c]]
    IN  /\ i \notin closed => a \in sdkTable
        /\ \A q \in Born : Open(q) /\ owner[q] = i => addr[q] # a
        /\ \A d \in Callers : Added(d) /\ inst[d] = i => at[d] # a
        /\ \A d \in Callers : /\ d # c /\ Removing(d)
                              /\ owner[peer[d]] = i /\ i \notin closed
                              => addr[peer[d]] # a
RemovingReserved ==
    \A c \in Callers : Removing(c) /\ addr[peer[c]] # Broadcast => Reserved(c)

LookingUp == \A c \in Callers : pc[c] = "exists" => at[c] = Broadcast

TableInv ==
    ~crossed => OpenListed /\ AddedListed /\ RemovingReserved /\ LookingUp

-----------------------------------------------------------------------------
(* What the two ends of a step do to the callers.                          *)

Others(c) ==
    \A d \in Callers : d # c =>
        /\ pc'[d] = pc[d] /\ inst'[d] = inst[d] /\ at'[d] = at[d]
        /\ peer'[d] = peer[d] /\ todo'[d] = todo[d]

LEMMA Moves ==
    ASSUME CallType, NEW c \in Callers, NEW step \in Steps, Goto(c, step), SameArgs
    PROVE  /\ CallType' /\ Others(c) /\ pc'[c] = step
           /\ inst'[c] = inst[c] /\ at'[c] = at[c]
           /\ peer'[c] = peer[c] /\ todo'[c] = todo[c]
  BY DEF CallType, Goto, SameArgs, Others

LEMMA Returns ==
    ASSUME CallType, NEW c \in Callers, Return(c)
    PROVE  CallType' /\ Others(c) /\ pc'[c] = "idle"
  BY DEF CallType, Goto, Return, Others, Steps, Addresses, Nil

LEMMA Claims ==
    ASSUME TypeOK, NEW c \in Callers, NewClaim(c)
    PROVE  /\ CallType' /\ Others(c) /\ pc'[c] = "init" /\ inst'[c] = made'
           /\ made' = made + 1 /\ made' \in Instances
  <1>1. made + 1 \in Instances
    BY BoundAssumption DEF NewClaim, TypeOK, SlotType, Instances
  <1>. QED
    BY <1>1 DEF NewClaim, TypeOK, CallType, Goto, Others, Steps

LEMMA ClosesInstance ==
    ASSUME TypeOK, NEW c \in Callers, NEW i \in Instances, CloseBegin(c, i)
    PROVE  /\ CallType' /\ Others(c) /\ pc'[c] = "close peers" /\ inst'[c] = i
           /\ todo'[c] = Managed(i)
  <1>1. Managed(i) \subseteq PeerIds
    BY DEF TypeOK, TableType, Managed
  <1>. QED
    BY <1>1 DEF CloseBegin, TypeOK, CallType, Goto, Others, Steps

LEMMA Adds ==
    ASSUME TypeOK, NEW c \in Callers, NEW i \in Instances, NEW a \in Addresses,
           AddBegin(c, i, a)
    PROVE  /\ CallType' /\ Others(c) /\ inst'[c] = i /\ at'[c] = a
           /\ pc'[c] = IF a = Broadcast THEN "exists" ELSE "sdk add"
  BY DEF AddBegin, TypeOK, CallType, Goto, Others, Steps

LEMMA ClosesPeer ==
    ASSUME TypeOK, NEW c \in Callers, NEW p \in PeerIds, PeerCloseLocal(c, p)
    PROVE  CallType' /\ Others(c) /\ pc'[c] = "unmap" /\ peer'[c] = p
  BY DEF PeerCloseLocal, TypeOK, CallType, Goto, Others, Steps

LEMMA ClosesNextPeer ==
    ASSUME TypeOK, NEW c \in Callers, CloseNextPeer(c)
    PROVE  /\ CallType' /\ Others(c) /\ inst'[c] = inst[c]
           /\ pc[c] = "close peers" /\ pc'[c] \in {"close peers", "deinit"}
           /\ IF pc'[c] = "deinit"
              THEN todo[c] = {} /\ shut' = shut
              ELSE \E p \in todo[c] : shut' = shut \cup {p} /\ todo'[c] = todo[c] \ {p}
  BY DEF CloseNextPeer, TypeOK, CallType, Goto, Others, Steps

-----------------------------------------------------------------------------
(* Type correctness                                                        *)

LEMMA SlotKept == ASSUME SlotType, UNCHANGED slotVars PROVE SlotType'
  BY DEF SlotType, slotVars

LEMMA TableKept == ASSUME TableType, UNCHANGED table PROVE TableType'
  BY DEF TableType, table

LEMMA SdkKept == ASSUME SdkType, UNCHANGED sdk PROVE SdkType'
  BY DEF SdkType, sdk

LEMMA PeerKept == ASSUME PeerType, UNCHANGED peerVars PROVE PeerType'
  BY DEF PeerType, peerVars

LEMMA CallKept == ASSUME CallType, UNCHANGED call PROVE CallType'
  BY DEF CallType, call

LEMMA RoutingKept == ASSUME RoutingType, UNCHANGED routing PROVE RoutingType'
  BY DEF RoutingType, routing

\* The bound leaves room for one more peer or packet.
LEMMA RoomForOne ==
  ASSUME TypeOK, born + heard < MaxPeers
  PROVE  /\ born < MaxPeers /\ born \in 0 .. MaxPeers
         /\ heard + 1 \in 0 .. MaxPeers /\ heard + 1 \in Nat
  <1>1. born \in 0 .. MaxPeers /\ heard \in 0 .. MaxPeers
    BY DEF TypeOK, PeerType, RoutingType
  <1>. QED
    BY <1>1, BoundAssumption

\* A packet goes from one peer of its list to the next.
LEMMA RouteToType ==
    ASSUME TypeOK, recv.step # "idle", NEW to \in Seq(PeerIds), heard' = heard,
           recv' = RouteTo(to)
    PROVE  RoutingType'
  <1>1. CASE to = <<>>
    <2>1. NoPacket \in Packet
      BY DEF NoPacket, Packet, Addresses
    <2>2. <<>> \in Seq(PeerIds)
      OBVIOUS
    <2>. QED
      BY <1>1, <2>1, <2>2 DEF TypeOK, RoutingType, RouteTo, NotRouting, Nil
  <1>2. CASE to # <<>>
    BY <1>2 DEF TypeOK, RoutingType, RouteTo
  <1>. QED
    BY <1>1, <1>2

LEMMA TargetsType ==
    ASSUME TypeOK, NEW i \in Instances, NEW packet \in Packet
    PROVE  Targets(i, packet) \in Seq(PeerIds)
  <1>1. \A p \in PeerIds \cup {Nil} : Present(p) \in Seq(PeerIds)
    <2>. SUFFICES ASSUME NEW p \in PeerIds \cup {Nil} PROVE Present(p) \in Seq(PeerIds)
      OBVIOUS
    <2>1. <<>> \in Seq(PeerIds) /\ (p \in PeerIds => <<p>> \in Seq(PeerIds))
      OBVIOUS
    <2>. QED
      BY <2>1 DEF Present
  <1>2. \A a \in Addresses : Present(peers[i][a]) \in Seq(PeerIds)
    BY <1>1 DEF TypeOK, TableType
  <1>3. packet.src \in Addresses /\ Broadcast \in Addresses /\ <<>> \in Seq(PeerIds)
    BY DEF Packet, Addresses
  <1>. QED
    BY <1>2, <1>3 DEF Targets

LEMMA ProceedType ==
    \A c \in Callers : TypeOK /\ SlotInv /\ MapInv /\ Proceed(c) => TypeOK'
  <1>. SUFFICES ASSUME TypeOK, SlotInv, MapInv, NEW c \in Callers, Proceed(c)
                PROVE  TypeOK'
    OBVIOUS
  <1>. USE SlotKept, TableKept, SdkKept, PeerKept, CallKept, RoutingKept
  <1>1. CASE InitOk(c)
    <2>1. CallType'
      BY <1>1, Returns DEF InitOk, TypeOK
    <2>4. inst[c] \in Instances
      BY <1>1 DEF InitOk, TypeOK, CallType, SlotInv, Holding, Claiming
    <2>2. SlotType'
      BY <1>1, <2>4 DEF InitOk, TypeOK, SlotType
    <2>3. SdkType'
      BY <1>1 DEF InitOk, TypeOK, SdkType
    <2>. QED
      BY <1>1, <2>1, <2>2, <2>3 DEF InitOk, TypeOK
  <1>2. CASE InitFails(c)
    <2>1. CallType'
      BY <1>2, Moves DEF InitFails, TypeOK, Steps
    <2>2. SdkType'
      BY <1>2 DEF InitFails, TypeOK, SdkType, sdk
    <2>. QED
      BY <1>2, <2>1, <2>2 DEF InitFails, TypeOK
  <1>3. CASE InitRelease(c)
    <2>1. CallType'
      BY <1>3, Returns DEF InitRelease, TypeOK
    <2>2. SlotType'
      BY <1>3 DEF InitRelease, TypeOK, SlotType
    <2>. QED
      BY <1>3, <2>1, <2>2 DEF InitRelease, TypeOK
  <1>4. CASE CloseNextPeer(c)
    <2>1. CallType'
      BY <1>4, ClosesNextPeer DEF CloseNextPeer
    <2>2. PeerType'
      BY <1>4 DEF CloseNextPeer, TypeOK, PeerType, CallType
    <2>. QED
      BY <1>4, <2>1, <2>2 DEF CloseNextPeer, TypeOK
  <1>5. CASE CloseDeinit(c)
    <2>1. CallType'
      BY <1>5, Moves DEF CloseDeinit, TypeOK, Steps
    <2>2. SdkType'
      BY <1>5 DEF CloseDeinit, TypeOK, SdkType, sdk
    <2>. QED
      BY <1>5, <2>1, <2>2 DEF CloseDeinit, TypeOK
  <1>6. CASE CloseFree(c)
    <2>1. CallType'
      BY <1>6, Returns DEF CloseFree, TypeOK
    <2>2. SlotType'
      BY <1>6 DEF CloseFree, TypeOK, SlotType
    <2>. QED
      BY <1>6, <2>1, <2>2 DEF CloseFree, TypeOK
  <1>7. CASE AddExists(c)
    <2>1. CallType'
      BY <1>7, Moves DEF AddExists, TypeOK, Steps
    <2>. QED
      BY <1>7, <2>1 DEF AddExists, TypeOK
  <1>8. CASE SdkAddOk(c)
    <2>1. CallType'
      BY <1>8, Moves DEF SdkAddOk, TypeOK, Steps
    <2>2. SdkType'
      BY <1>8 DEF SdkAddOk, TypeOK, SdkType, CallType
    <2>. QED
      BY <1>8, <2>1, <2>2 DEF SdkAddOk, TypeOK
  <1>9. CASE SdkAddFails(c)
    <2>1. CallType'
      BY <1>9, Returns DEF SdkAddFails, TypeOK
    <2>2. TableType'
      BY <1>9 DEF SdkAddFails, TypeOK, TableType, Unlock
    <2>. QED
      BY <1>9, <2>1, <2>2 DEF SdkAddFails, TypeOK
  <1>10. CASE NewPeer(c)
    <2>1. CallType'
      BY <1>10, Returns DEF NewPeer, TypeOK
    <2>4. inst[c] \in Instances /\ at[c] \in Addresses
      BY <1>10 DEF NewPeer, TypeOK, CallType, SlotType, MapInv, LockInv, Adding
    <2>5. born' \in 0 .. MaxPeers /\ born' \in PeerIds
      <3>1. born' = born + 1 /\ born < MaxPeers /\ born \in 0 .. MaxPeers
        BY <1>10, RoomForOne DEF NewPeer
      <3>. QED
        BY <3>1, BoundAssumption DEF PeerIds
    <2>2. PeerType'
      BY <1>10, <2>4, <2>5 DEF NewPeer, TypeOK, PeerType
    <2>3. TableType'
      BY <1>10, <2>4, <2>5 DEF NewPeer, TypeOK, TableType, Unlock
    <2>. QED
      BY <1>10, <2>1, <2>2, <2>3 DEF NewPeer, TypeOK
  <1>11. CASE NewPeerFails(c)
    <2>1. CallType'
      BY <1>11, Returns, Moves DEF NewPeerFails, TypeOK, Steps
    <2>2. TableType'
      BY <1>11 DEF NewPeerFails, TypeOK, TableType, Unlock
    <2>. QED
      BY <1>11, <2>1, <2>2 DEF NewPeerFails, TypeOK
  <1>12. CASE AddUndo(c)
    <2>1. CallType'
      BY <1>12, Returns DEF AddUndo, TypeOK
    <2>2. SdkType'
      BY <1>12 DEF AddUndo, TypeOK, SdkType
    <2>3. TableType'
      BY <1>12 DEF AddUndo, TypeOK, TableType, Unlock
    <2>. QED
      BY <1>12, <2>1, <2>2, <2>3 DEF AddUndo, TypeOK
  <1>13. CASE PeerUnmap(c)
    <2>1. CallType'
      BY <1>13, Moves DEF PeerUnmap, TypeOK, Steps
    <2>2. TableType'
      BY <1>13 DEF PeerUnmap, TypeOK, TableType
    <2>. QED
      BY <1>13, <2>1, <2>2 DEF PeerUnmap, TypeOK
  <1>14. CASE SdkDelete(c)
    <2>1. CallType'
      BY <1>14, Returns DEF SdkDelete, TypeOK
    <2>2. SdkType'
      BY <1>14 DEF SdkDelete, TypeOK, SdkType
    <2>. QED
      BY <1>14, <2>1, <2>2 DEF SdkDelete, TypeOK
  <1>. QED
    BY <1>1, <1>2, <1>3, <1>4, <1>5, <1>6, <1>7, <1>8, <1>9, <1>10, <1>11, <1>12, <1>13, <1>14 DEF Proceed
LEMMA StepType == TypeOK /\ SlotInv /\ MapInv /\ [Next]_vars => TypeOK'
  <1>. SUFFICES ASSUME TypeOK, SlotInv, MapInv, [Next]_vars PROVE TypeOK'
    OBVIOUS
  <1>. USE SlotKept, TableKept, SdkKept, PeerKept, CallKept, RoutingKept
  <1>1. CASE UNCHANGED vars
    BY <1>1 DEF vars, TypeOK
  <1>2. ASSUME NEW c \in Callers, NewClaim(c) PROVE TypeOK'
    <2>1. CallType'
      BY <1>2, Claims
    <2>2. SlotType'
      <3>1. made' \in Instances /\ active' = made' /\ ready' = ready
        BY <1>2, Claims DEF NewClaim
      <3>. QED
        BY <3>1, BoundAssumption DEF TypeOK, SlotType, Instances
    <2>. QED
      BY <1>2, <2>1, <2>2, TableKept DEF NewClaim, TypeOK
  <1>3. ASSUME NEW c \in Callers, NEW i \in Instances, CloseBegin(c, i)
        PROVE  TypeOK'
    <2>1. CallType'
      BY <1>3, ClosesInstance
    <2>2. TableType'
      BY <1>3 DEF CloseBegin, TypeOK, TableType, NoPeers
    <2>. QED
      BY <1>3, <2>1, <2>2 DEF CloseBegin, TypeOK
  <1>4. ASSUME NEW c \in Callers, NEW i \in Instances, NEW a \in Addresses,
               AddBegin(c, i, a)
        PROVE  TypeOK'
    <2>1. CallType'
      BY <1>4, Adds
    <2>2. TableType'
      BY <1>4 DEF AddBegin, TypeOK, TableType
    <2>. QED
      BY <1>4, <2>1, <2>2 DEF AddBegin, TypeOK
  <1>5. ASSUME NEW c \in Callers, NEW p \in PeerIds, PeerCloseLocal(c, p)
        PROVE  TypeOK'
    <2>1. CallType'
      BY <1>5, ClosesPeer
    <2>2. PeerType'
      BY <1>5 DEF PeerCloseLocal, TypeOK, PeerType
    <2>. QED
      BY <1>5, <2>1, <2>2 DEF PeerCloseLocal, TypeOK
  <1>6. ASSUME NEW src \in Named, NEW all \in BOOLEAN, Receive(src, all)
        PROVE  TypeOK'
    <2>1. src \in Addresses /\ active \in Instances
      BY <1>6 DEF Receive, TypeOK, SlotType, Addresses
    <2>2. heard' \in 0 .. MaxPeers /\ heard' \in Nat
      BY <1>6, RoomForOne DEF Receive
    <2>3. [n |-> heard', src |-> src, all |-> all] \in Packet
      BY <2>1, <2>2 DEF Packet
    <2>4. <<>> \in Seq(PeerIds) /\ shut \cap Managed(active) \in SUBSET PeerIds
      BY DEF TypeOK, PeerType
    <2>5. RoutingType'
      BY <1>6, <2>1, <2>2, <2>3, <2>4 DEF Receive, RoutingType, Nil, Instances
    <2>. QED
      BY <1>6, <2>5 DEF Receive, TypeOK
  <1>7. CASE Route
    <2>1. RoutingType'
      <3>1. recv.inst \in Instances /\ recv.packet \in Packet
        BY <1>7 DEF Route, TypeOK, RoutingType
      <3>2. CASE recv.inst \in closed
        BY <1>7, <3>2, RouteToType, EmptySeq DEF Route, RouteTo
      <3>3. CASE recv.inst \notin closed
        BY <1>7, <3>1, <3>3, TargetsType, RouteToType DEF Route
      <3>. QED
        BY <3>2, <3>3
    <2>. QED
      BY <1>7, <2>1 DEF Route, TypeOK
  <1>8. CASE EnqueueCheck
    <2>1. RoutingType'
      <3>1. recv.to \in Seq(PeerIds) /\ recv.to # <<>>
        BY <1>8 DEF EnqueueCheck, TypeOK, RoutingType
      <3>2. Tail(recv.to) \in Seq(PeerIds)
        BY <3>1
      <3>3. CASE Head(recv.to) \in shut
        BY <1>8, <3>2, <3>3, RouteToType DEF EnqueueCheck
      <3>4. CASE Head(recv.to) \notin shut
        BY <1>8, <3>1, <3>4 DEF EnqueueCheck, TypeOK, RoutingType
      <3>. QED
        BY <3>3, <3>4
    <2>. QED
      BY <1>8, <2>1 DEF EnqueueCheck, TypeOK
  <1>9. CASE EnqueuePut
    <2>1. recv.to \in Seq(PeerIds) /\ recv.to # <<>> /\ recv.packet \in Packet
      BY <1>9 DEF EnqueuePut, TypeOK, RoutingType
    <2>2. Tail(recv.to) \in Seq(PeerIds) /\ Head(recv.to) \in PeerIds
      BY <2>1
    <2>3. RoutingType'
      BY <1>9, <2>2, RouteToType DEF EnqueuePut
    <2>4. rx' \in [PeerIds -> Seq(Packet)]
      BY <1>9, <2>1, <2>2 DEF EnqueuePut, TypeOK
    <2>. QED
      BY <1>9, <2>3, <2>4 DEF EnqueuePut, TypeOK
  <1>10. ASSUME NEW p \in PeerIds, ReadFrom(p) PROVE TypeOK'
    <2>1. rx[p] \in Seq(Packet) /\ rx[p] # <<>>
      BY <1>10 DEF ReadFrom, TypeOK
    <2>2. Tail(rx[p]) \in Seq(Packet)
      BY <2>1
    <2>3. rx' \in [PeerIds -> Seq(Packet)]
      BY <1>10, <2>2 DEF ReadFrom, TypeOK
    <2>. QED
      BY <1>10, <2>3 DEF ReadFrom, TypeOK
  <1>. QED
    BY <1>1, <1>2, <1>3, <1>4, <1>5, <1>6, <1>7, <1>8, <1>9, <1>10, ProceedType
    DEF Next, Routing
-----------------------------------------------------------------------------
(* The slot                                                                *)

\* A step that leaves the slot and the SDK's state alone and starts no call
\* that holds the slot.
LEMMA SlotSame ==
    ASSUME SlotInv, UNCHANGED <<slotVars, closed, sdkOn, sdkRecv>>,
           \A d \in Callers :
               /\ Claiming(d)' => Claiming(d)
               /\ Closing(d)' => Closing(d)
               /\ Holding(d)' => inst'[d] = inst[d]
    PROVE  SlotInv'
  <1>1. \A d \in Callers : Holding(d)' => Holding(d)
    BY DEF Holding
  <1>2. /\ active' = active /\ made' = made /\ ready' = ready /\ closed' = closed
        /\ sdkOn' = sdkOn /\ sdkRecv' = sdkRecv
    BY DEF slotVars
  <1>3. /\ \A d \in Callers : Holding(d)' => active' = inst'[d] /\ active' # Nil
        /\ \A d \in Callers : Claiming(d)' => inst'[d] \notin ready'
        /\ \A d \in Callers : Closing(d)' => inst'[d] \in closed'
        /\ \A d, e \in Callers : Holding(d)' /\ Holding(e)' => d = e
    <2>1. \A d \in Callers : Claiming(d) \/ Closing(d) <=> Holding(d)
      BY DEF Holding
    <2>2. \A d \in Callers : Claiming(d)' \/ Closing(d)' <=> Holding(d)'
      BY DEF Holding
    <2>. QED
      BY <1>1, <1>2, <2>1, <2>2 DEF SlotInv
  <1>. QED
    BY <1>2, <1>3 DEF SlotInv

\* While the slot is held no instance is open.
LEMMA NoneOpen ==
    ASSUME SlotInv, NEW c \in Callers, Holding(c)
    PROVE  ready \ closed = {}
  BY DEF SlotInv, Holding

\* No step of another call while the slot is held.
LEMMA SlotInit ==
    ASSUME TypeOK, SlotInv, NEW c \in Callers,
           InitOk(c) \/ InitFails(c) \/ InitRelease(c)
    PROVE  SlotInv'
  <1>1. Claiming(c) /\ Holding(c)
    BY DEF InitOk, InitFails, InitRelease, Claiming, Holding
  <1>2. inst[c] = active /\ active # Nil /\ inst[c] \notin ready /\ inst[c] \notin closed
    BY <1>1 DEF SlotInv
  <1>3. \A d \in Callers : d # c => ~Holding(d)
    BY <1>1 DEF SlotInv
  <1>4. CallType
    BY DEF TypeOK
  <1>5. CASE InitOk(c)
    <2>1. Others(c) /\ pc'[c] = "idle"
      BY <1>4, <1>5, Returns DEF InitOk
    <2>2. \A d \in Callers : ~Holding(d)'
      BY <1>3, <2>1 DEF Others, Holding, Claiming, Closing
    <2>3. /\ ready' = ready \cup {inst[c]} /\ active' = active /\ made' = made
          /\ closed' = closed /\ sdkOn' /\ sdkRecv'
      BY <1>5 DEF InitOk, table
    <2>4. ready \ closed = {}
      BY <1>1, NoneOpen
    <2>. QED
      BY <1>2, <2>2, <2>3, <2>4 DEF SlotInv, Holding
  <1>6. CASE InitFails(c)
    <2>1. Others(c) /\ pc'[c] = "release" /\ inst'[c] = inst[c]
      BY <1>4, <1>6, Moves DEF InitFails, Steps
    <2>2. \A d \in Callers : d # c => ~Holding(d)'
      BY <1>3, <2>1 DEF Others, Holding, Claiming, Closing
    <2>3. ready' = ready /\ active' = active /\ made' = made /\ closed' = closed
      BY <1>6 DEF InitFails, table, slotVars
    <2>4. ready \ closed = {}
      BY <1>1, NoneOpen
    <2>. QED
      BY <1>2, <2>1, <2>2, <2>3, <2>4 DEF SlotInv, Holding, Closing
  <1>7. CASE InitRelease(c)
    <2>1. Others(c) /\ pc'[c] = "idle"
      BY <1>4, <1>7, Returns DEF InitRelease
    <2>2. \A d \in Callers : ~Holding(d)'
      BY <1>3, <2>1 DEF Others, Holding, Claiming, Closing
    <2>3. ready' = ready /\ active' = Nil /\ made' = made /\ closed' = closed
      BY <1>7 DEF InitRelease, table
    <2>4. ready \ closed = {}
      BY <1>1, NoneOpen
    <2>. QED
      BY <2>2, <2>3, <2>4 DEF SlotInv, Holding
  <1>. QED
    BY <1>5, <1>6, <1>7

LEMMA SlotClose ==
    ASSUME TypeOK, SlotInv, NEW c \in Callers, CloseDeinit(c) \/ CloseFree(c)
    PROVE  SlotInv'
  <1>1. Closing(c) /\ Holding(c)
    BY DEF CloseDeinit, CloseFree, Closing, Holding
  <1>2. inst[c] = active /\ active # Nil /\ inst[c] \in closed
    BY <1>1 DEF SlotInv
  <1>3. \A d \in Callers : d # c => ~Holding(d)
    BY <1>1 DEF SlotInv
  <1>4. ready \ closed = {}
    BY <1>1, NoneOpen
  <1>5. CASE CloseDeinit(c)
    <2>1. Others(c) /\ pc'[c] = "free" /\ inst'[c] = inst[c]
      BY <1>5, Moves DEF CloseDeinit, Steps, TypeOK
    <2>2. \A d \in Callers : d # c => ~Holding(d)'
      BY <1>3, <2>1 DEF Others, Holding, Claiming, Closing
    <2>3. ready' = ready /\ active' = active /\ made' = made /\ closed' = closed
      BY <1>5 DEF CloseDeinit, table, slotVars
    <2>. QED
      BY <1>2, <1>4, <2>1, <2>2, <2>3 DEF SlotInv, Holding, Claiming
  <1>6. CASE CloseFree(c)
    <2>1. Others(c) /\ pc'[c] = "idle"
      BY <1>6, Returns DEF CloseFree, TypeOK
    <2>2. \A d \in Callers : ~Holding(d)'
      BY <1>3, <2>1 DEF Others, Holding, Claiming, Closing
    <2>3. ready' = ready /\ active' = Nil /\ made' = made /\ closed' = closed
      BY <1>2, <1>6 DEF CloseFree, table
    <2>. QED
      BY <1>4, <2>2, <2>3 DEF SlotInv, Holding
  <1>. QED
    BY <1>5, <1>6

LEMMA SlotClaim ==
    ASSUME TypeOK, SlotInv, NEW c \in Callers, NewClaim(c)
    PROVE  SlotInv'
  <1>1. active = Nil /\ active' = made' /\ ready' = ready /\ closed' = closed
    BY DEF NewClaim, table
  <1>2. /\ Others(c) /\ pc'[c] = "init" /\ inst'[c] = made'
        /\ made' = made + 1 /\ made' # Nil
    BY Claims DEF Instances, Nil
  <1>3. \A d \in Callers : d # c => ~Holding(d)'
    BY <1>1, <1>2 DEF SlotInv, Others, Holding, Claiming, Closing
  <1>4. made \in Nat /\ \A i \in ready : i \in Nat
    BY DEF TypeOK, SlotType, Instances
  <1>5. made' \notin ready /\ \A i \in ready : i <= made'
    BY <1>2, <1>4 DEF SlotInv
  <1>6. ready \ closed = {}
    <2>. SUFFICES ASSUME NEW i \in ready \ closed PROVE FALSE
      OBVIOUS
    <2>1. i # Nil
      BY DEF TypeOK, SlotType, Instances, Nil
    <2>. QED
      BY <1>1, <2>1 DEF SlotInv
  <1>7. closed' \subseteq ready' /\ \A i \in ready' : i <= made'
    BY <1>1, <1>5 DEF SlotInv
  <1>8. active' # Nil => active' <= made'
    BY <1>1, <1>2, <1>4
  <1>9. /\ \A d \in Callers : Holding(d)' => active' = inst'[d] /\ active' # Nil
        /\ \A d \in Callers : Claiming(d)' => inst'[d] \notin ready'
        /\ \A d \in Callers : ~Closing(d)'
        /\ \A d, e \in Callers : Holding(d)' /\ Holding(e)' => d = e
    BY <1>1, <1>2, <1>3, <1>5 DEF Holding, Closing
  <1>. QED
    BY <1>1, <1>6, <1>7, <1>8, <1>9 DEF SlotInv

LEMMA SlotCloseBegin ==
    ASSUME TypeOK, SlotInv, NEW c \in Callers, NEW i \in Instances, CloseBegin(c, i)
    PROVE  SlotInv'
  <1>1. /\ i \in ready /\ i \notin closed /\ closed' = closed \cup {i}
        /\ ready' = ready /\ active' = active /\ made' = made
    BY DEF CloseBegin, slotVars
  <1>2. active = i /\ i # Nil
    BY <1>1 DEF SlotInv, Instances, Nil
  <1>3. \A d \in Callers : ~Holding(d)
    BY <1>1, NoneOpen
  <1>4. Others(c) /\ pc'[c] = "close peers" /\ inst'[c] = i
    BY ClosesInstance
  <1>5. \A d \in Callers : d # c => ~Holding(d)'
    BY <1>3, <1>4 DEF Others, Holding, Claiming, Closing
  <1>. QED
    BY <1>1, <1>2, <1>4, <1>5 DEF SlotInv, Holding, Claiming, Closing
\* A step of a call that has nothing to do with the slot.
LEMMA SlotAway ==
    ASSUME SlotInv, NEW c \in Callers, Others(c), ~Holding(c)',
           UNCHANGED <<slotVars, closed, sdkOn, sdkRecv>>
    PROVE  SlotInv'
  <1>1. \A d \in Callers : d # c =>
            /\ Claiming(d)' => Claiming(d)
            /\ Closing(d)' => Closing(d)
            /\ inst'[d] = inst[d]
    BY DEF Others, Claiming, Closing
  <1>2. ~Claiming(c)' /\ ~Closing(c)'
    BY DEF Holding
  <1>. QED
    BY <1>1, <1>2, SlotSame

LEMMA SlotStill ==
    ASSUME SlotInv, UNCHANGED <<slotVars, table, sdk, call>>
    PROVE  SlotInv'
  <1>1. UNCHANGED <<slotVars, closed, sdkOn, sdkRecv, pc, inst>>
    BY DEF table, sdk, call
  <1>2. \A d \in Callers : /\ Claiming(d)' => Claiming(d)
                           /\ Closing(d)' => Closing(d)
                           /\ inst'[d] = inst[d]
    BY <1>1 DEF Claiming, Closing
  <1>. QED
    BY <1>1, <1>2, SlotSame

LEMMA SlotStep ==
    ASSUME TypeOK, SlotInv, [Next]_vars
    PROVE  SlotInv'
  <1>1. ASSUME NEW c \in Callers, Proceed(c) PROVE SlotInv'
    <2>1. CASE InitOk(c) \/ InitFails(c) \/ InitRelease(c)
      BY <2>1, SlotInit
    <2>2. CASE CloseDeinit(c) \/ CloseFree(c)
      BY <2>2, SlotClose
    <2>3. CASE CloseNextPeer(c)
      <3>1. /\ Others(c) /\ inst'[c] = inst[c] /\ pc[c] = "close peers"
            /\ pc'[c] \in {"close peers", "deinit"}
        BY <2>3, ClosesNextPeer
      <3>2. UNCHANGED <<slotVars, closed, sdkOn, sdkRecv>>
        BY <2>3 DEF CloseNextPeer, table, sdk
      <3>3. \A d \in Callers : /\ Claiming(d)' => Claiming(d)
                               /\ Closing(d)' => Closing(d)
                               /\ inst'[d] = inst[d]
        BY <3>1 DEF Others, Claiming, Closing
      <3>. QED
        BY <3>2, <3>3, SlotSame
    <2>4. CASE AddExists(c)
      <3>1. Others(c) /\ pc'[c] \in {"new peer", "sdk add"}
        BY <2>4, Moves DEF AddExists, TypeOK, Steps
      <3>. QED
        BY <2>4, <3>1, SlotAway DEF AddExists, table, sdk, Holding, Claiming, Closing
    <2>5. CASE SdkAddOk(c)
      <3>1. Others(c) /\ pc'[c] = "new peer"
        BY <2>5, Moves DEF SdkAddOk, TypeOK, Steps
      <3>. QED
        BY <2>5, <3>1, SlotAway DEF SdkAddOk, table, Holding, Claiming, Closing
    <2>6. CASE SdkAddFails(c)
      <3>1. Others(c) /\ pc'[c] = "idle"
        BY <2>6, Returns DEF SdkAddFails, TypeOK
      <3>. QED
        BY <2>6, <3>1, SlotAway DEF SdkAddFails, sdk, Holding, Claiming, Closing
    <2>7. CASE NewPeer(c)
      <3>1. Others(c) /\ pc'[c] = "idle"
        BY <2>7, Returns DEF NewPeer, TypeOK
      <3>. QED
        BY <2>7, <3>1, SlotAway DEF NewPeer, sdk, Holding, Claiming, Closing
    <2>8. CASE NewPeerFails(c)
      <3>1. Others(c) /\ pc'[c] \in {"idle", "undo"}
        BY <2>8, Returns, Moves DEF NewPeerFails, TypeOK, Steps
      <3>. QED
        BY <2>8, <3>1, SlotAway DEF NewPeerFails, sdk, Holding, Claiming, Closing
    <2>9. CASE AddUndo(c)
      <3>1. Others(c) /\ pc'[c] = "idle"
        BY <2>9, Returns DEF AddUndo, TypeOK
      <3>. QED
        BY <2>9, <3>1, SlotAway DEF AddUndo, Holding, Claiming, Closing
    <2>10. CASE PeerUnmap(c)
      <3>1. Others(c) /\ pc'[c] = "sdk delete"
        BY <2>10, Moves DEF PeerUnmap, TypeOK, Steps
      <3>. QED
        BY <2>10, <3>1, SlotAway DEF PeerUnmap, sdk, Holding, Claiming, Closing
    <2>11. CASE SdkDelete(c)
      <3>1. Others(c) /\ pc'[c] = "idle"
        BY <2>11, Returns DEF SdkDelete, TypeOK
      <3>. QED
        BY <2>11, <3>1, SlotAway DEF SdkDelete, table, Holding, Claiming, Closing
    <2>. QED
      BY <1>1, <2>1, <2>2, <2>3, <2>4, <2>5, <2>6, <2>7, <2>8, <2>9, <2>10, <2>11
      DEF Proceed
  <1>2. ASSUME NEW c \in Callers, NEW i \in Instances, NEW a \in Addresses,
               AddBegin(c, i, a)
        PROVE  SlotInv'
    <2>1. Others(c) /\ pc'[c] \in {"exists", "sdk add"}
      BY <1>2, Adds
    <2>. QED
      BY <1>2, <2>1, SlotAway DEF AddBegin, sdk, Holding, Claiming, Closing
  <1>3. ASSUME NEW c \in Callers, NEW p \in PeerIds, PeerCloseLocal(c, p)
        PROVE  SlotInv'
    <2>1. Others(c) /\ pc'[c] = "unmap"
      BY <1>3, ClosesPeer
    <2>. QED
      BY <1>3, <2>1, SlotAway DEF PeerCloseLocal, table, sdk, Holding, Claiming, Closing
  <1>4. CASE Routing \/ (\E p \in PeerIds : ReadFrom(p)) \/ UNCHANGED vars
             \/ \E src \in Named, all \in BOOLEAN : Receive(src, all)
    <2>1. UNCHANGED <<slotVars, table, sdk, call>>
      BY <1>4 DEF Routing, Route, EnqueueCheck, EnqueuePut, ReadFrom, Receive, vars
    <2>. QED
      BY <2>1, SlotStill
  <1>. QED
    BY <1>1, <1>2, <1>3, <1>4, SlotClaim, SlotCloseBegin DEF Next
-----------------------------------------------------------------------------
(* The maps                                                                *)

\* How a call may go on without a peer being made, closed or mapped.
KeepsLock(d) == Adding(d)' => /\ Adding(d) /\ inst'[d] = inst[d] /\ at'[d] = at[d]
                              /\ mu'[inst[d]] = mu[inst[d]]
KeepsPeer(d) == /\ Removing(d)' => Removing(d) /\ peer'[d] = peer[d]
                /\ pc'[d] = "unmap" => pc[d] = "unmap"
KeepsClosing(d) == pc[d] = "close peers" =>
    /\ pc'[d] = "close peers" /\ inst'[d] = inst[d] /\ todo'[d] = todo[d]

\* An instance has one open peer of an address.
LEMMA OneOpen ==
    ASSUME MapInv
    PROVE  \A p, q \in Born : Open(p) /\ Open(q) /\ owner[p] = owner[q]
                              /\ addr[p] = addr[q] => p = q
  BY DEF MapInv, OpenInv

\* A step that makes, closes and maps no peer and locks no instance.
LEMMA MapSame ==
    ASSUME MapInv, UNCHANGED <<closed, peers, peerVars>>, ready \subseteq ready',
           \A d \in Callers : KeepsLock(d) /\ KeepsPeer(d) /\ KeepsClosing(d)
    PROVE  MapInv'
  <1>1. /\ closed' = closed /\ peers' = peers /\ born' = born
        /\ owner' = owner /\ addr' = addr /\ shut' = shut
    BY DEF peerVars
  <1>2. Born' = Born /\ \A p \in Born : Open(p)' <=> Open(p)
    BY <1>1 DEF Born, Open
  <1>3. LockInv'
    BY <1>1 DEF MapInv, LockInv, Nil, KeepsLock
  <1>4. EntryInv'
    BY <1>1, <1>2 DEF MapInv, EntryInv, Nil, Instances, Addresses
  <1>5. OpenInv'
    <2>1. ASSUME NEW p \in Born, Open(p), owner[p] \in closed
          PROVE  \E d \in Callers : /\ pc'[d] = "close peers" /\ inst'[d] = owner[p]
                                    /\ p \in todo'[d]
      <3>1. PICK d \in Callers : /\ pc[d] = "close peers" /\ inst[d] = owner[p]
                                 /\ p \in todo[d]
        BY <2>1 DEF MapInv, OpenInv
      <3>. QED
        BY <3>1 DEF KeepsClosing
    <2>2. \A p \in Born : Open(p) /\ owner[p] \notin closed => peers[owner[p]][addr[p]] = p
      BY DEF MapInv, OpenInv
    <2>3. \A p, q \in Born : Open(p) /\ Open(q) /\ owner[p] = owner[q]
                             /\ addr[p] = addr[q] => p = q
      BY OneOpen
    <2>4. \A p \in Born' : Open(p)' => Open(p)
      BY <1>2
    <2>5. \A p \in Born' : Open(p)' /\ owner'[p] \notin closed' =>
              peers'[owner'[p]][addr'[p]] = p
      BY <1>1, <1>2, <2>2, <2>4
    <2>6. \A p \in Born' : Open(p)' /\ owner'[p] \in closed' =>
              \E d \in Callers : /\ pc'[d] = "close peers" /\ inst'[d] = owner'[p]
                                 /\ p \in todo'[d]
      BY <1>1, <1>2, <2>1, <2>4
    <2>7. \A p, q \in Born' : Open(p)' /\ Open(q)' /\ owner'[p] = owner'[q]
                              /\ addr'[p] = addr'[q] => p = q
      BY <1>1, <1>2, <2>3, <2>4
    <2>. QED
      BY <2>5, <2>6, <2>7 DEF OpenInv
  <1>6. RemovingInv'
    <2>1. \A d \in Callers : Removing(d)' =>
              Removing(d) /\ peer'[d] = peer[d] /\ peer[d] \in Born /\ peer[d] \in shut
      BY DEF MapInv, RemovingInv, KeepsPeer
    <2>2. \A d, e \in Callers :
              Removing(d)' /\ Removing(e)' /\ peer'[d] = peer'[e] => d = e
      BY <2>1 DEF MapInv, RemovingInv
    <2>3. \A d \in Callers : pc'[d] = "unmap" /\ owner[peer'[d]] \notin closed
              => peers[owner[peer'[d]]][addr[peer'[d]]] = peer'[d]
      <3>1. \A d \in Callers : pc'[d] = "unmap" => pc[d] = "unmap" /\ peer'[d] = peer[d]
        BY DEF KeepsPeer, Removing
      <3>. QED
        BY <3>1 DEF MapInv, RemovingInv
    <2>. QED
      BY <1>1, <1>2, <2>1, <2>2, <2>3 DEF RemovingInv
  <1>. QED
    BY <1>3, <1>4, <1>5, <1>6 DEF MapInv

\* Such a step of one call.
LEMMA MapAway ==
    ASSUME MapInv, NEW c \in Callers, Others(c), pc[c] # "close peers",
           UNCHANGED <<closed, peers, peerVars>>, ready \subseteq ready',
           \A d \in Callers : d # c /\ Adding(d) => mu'[inst[d]] = mu[inst[d]],
           KeepsLock(c), ~Removing(c)' \/ KeepsPeer(c)
    PROVE  MapInv'
  <1>1. \A d \in Callers : d # c =>
            /\ pc'[d] = pc[d] /\ inst'[d] = inst[d] /\ at'[d] = at[d]
            /\ peer'[d] = peer[d] /\ todo'[d] = todo[d]
    BY DEF Others
  <1>2. \A d \in Callers : d # c => KeepsLock(d)
    BY <1>1 DEF KeepsLock, Adding
  <1>3. \A d \in Callers : d # c => KeepsPeer(d)
    BY <1>1 DEF KeepsPeer, Removing
  <1>4. \A d \in Callers : KeepsClosing(d)
    BY <1>1 DEF KeepsClosing
  <1>5. KeepsPeer(c)
    BY DEF KeepsPeer, Removing
  <1>. QED
    BY <1>2, <1>3, <1>4, <1>5, MapSame

LEMMA MapStill ==
    ASSUME MapInv, UNCHANGED <<slotVars, table, peerVars, call>>
    PROVE  MapInv'
  <1>1. UNCHANGED <<ready, closed, mu, peers, peerVars, pc, inst, at, peer, todo>>
    BY DEF slotVars, table, call
  <1>2. \A d \in Callers : KeepsLock(d) /\ KeepsPeer(d) /\ KeepsClosing(d)
    BY <1>1 DEF KeepsLock, KeepsPeer, KeepsClosing, Adding, Removing
  <1>. QED
    BY <1>1, <1>2, MapSame

\* Two calls are never adding to the same instance, nor one to an unlocked one.
LEMMA LockAlone ==
    ASSUME LockInv
    PROVE  /\ \A d \in Callers, i \in Instances : Adding(d) /\ Unlocked(i) => inst[d] # i
           /\ \A c, d \in Callers : Adding(c) /\ Adding(d) /\ inst[c] = inst[d] => c = d
  BY NilAssumption DEF LockInv, Unlocked, Nil

\* The end of a failed AddPeer.
LEMMA MapUnlock ==
    ASSUME TypeOK, MapInv, NEW c \in Callers, Adding(c), Return(c), Unlock(c),
           UNCHANGED <<slotVars, closed, peers, peerVars>>
    PROVE  MapInv'
  <1>1. Others(c) /\ pc'[c] = "idle"
    BY Returns DEF TypeOK
  <1>2. \A d \in Callers : d # c /\ Adding(d) => mu'[inst[d]] = mu[inst[d]]
    <2>1. \A d \in Callers : d # c /\ Adding(d) => inst[d] # inst[c]
      BY LockAlone DEF MapInv
    <2>. QED
      BY <2>1 DEF Unlock, MapInv, LockInv, TypeOK, TableType, SlotType
  <1>3. ~Adding(c)' /\ ~Removing(c)' /\ pc[c] # "close peers" /\ ready' = ready
    BY <1>1 DEF Adding, Removing, slotVars
  <1>4. KeepsLock(c)
    BY <1>3 DEF KeepsLock
  <1>. QED
    BY <1>1, <1>2, <1>3, <1>4, MapAway

LEMMA MapCloseBegin ==
    ASSUME TypeOK, MapInv, NEW c \in Callers, NEW i \in Instances, CloseBegin(c, i)
    PROVE  MapInv'
  <1>1. /\ Others(c) /\ pc'[c] = "close peers" /\ inst'[c] = i
        /\ todo'[c] = Managed(i) /\ pc[c] = "idle"
    BY ClosesInstance DEF CloseBegin
  <1>2. /\ closed' = closed \cup {i} /\ mu' = mu /\ ready' = ready /\ Unlocked(i)
        /\ i \notin closed /\ born' = born /\ owner' = owner /\ addr' = addr
        /\ shut' = shut
    BY DEF CloseBegin, slotVars, peerVars
  <1>3. \A j \in Instances, a \in Addresses :
            peers'[j][a] = IF j = i THEN Nil ELSE peers[j][a]
    BY DEF CloseBegin, NoPeers, TypeOK, TableType
  <1>4. Born' = Born /\ Born \subseteq PeerIds /\ \A p \in Born : Open(p)' <=> Open(p)
    <2>1. Born' = Born
      BY <1>2 DEF Born
    <2>2. Born \subseteq PeerIds
      BY BoundAssumption DEF TypeOK, PeerType, Born, PeerIds
    <2>. QED
      BY <1>2, <2>1, <2>2 DEF Open
  <1>5. \A d \in Callers :
            /\ Adding(d)' => d # c /\ Adding(d)
            /\ Removing(d)' => d # c /\ Removing(d)
            /\ pc'[d] = "unmap" => d # c /\ pc[d] = "unmap"
            /\ pc[d] = "close peers" => d # c /\ pc'[d] = "close peers"
    BY <1>1 DEF Others, Adding, Removing
  <1>6. \A p \in Born : addr[p] \in Addresses /\ (owner[p] \in Instances)
    BY <1>4 DEF TypeOK, PeerType, SlotType, MapInv, EntryInv
  <1>7. LockInv'
    <2>. SUFFICES ASSUME NEW d \in Callers, Adding(d)'
                  PROVE  /\ inst'[d] \in ready' /\ inst'[d] \notin closed'
                         /\ mu'[inst'[d]] = d /\ peers'[inst'[d]][at'[d]] = Nil
      BY DEF LockInv
    <2>1. Adding(d) /\ inst'[d] = inst[d] /\ at'[d] = at[d] /\ inst[d] # i
      BY <1>1, <1>2, <1>5, LockAlone DEF Others, MapInv
    <2>2. inst[d] \in Instances /\ at[d] \in Addresses
      BY <2>1 DEF MapInv, LockInv, TypeOK, SlotType, CallType
    <2>. QED
      BY <1>2, <1>3, <2>1, <2>2 DEF MapInv, LockInv
  <1>8. EntryInv'
    BY <1>2, <1>3, <1>4 DEF MapInv, EntryInv
  <1>9. OpenInv'
    <2>1. ASSUME NEW p \in Born, Open(p), owner[p] \notin closed'
          PROVE  peers'[owner[p]][addr[p]] = p
      BY <1>2, <1>3, <1>6, <2>1 DEF MapInv, OpenInv
    <2>2. ASSUME NEW p \in Born, Open(p), owner[p] \in closed'
          PROVE  \E d \in Callers : /\ pc'[d] = "close peers" /\ inst'[d] = owner[p]
                                    /\ p \in todo'[d]
      <3>1. CASE owner[p] = i
        <4>1. peers[i][addr[p]] = p /\ p # Nil
          <5>1. p # Nil
            BY BoundAssumption DEF TypeOK, PeerType, Born, Nil
          <5>. QED
            BY <1>2, <2>2, <3>1, <5>1 DEF MapInv, OpenInv
        <4>2. p \in Managed(i)
          BY <1>6, <4>1 DEF Managed
        <4>. QED
          BY <1>1, <3>1, <4>2
      <3>2. CASE owner[p] # i
        <4>1. PICK d \in Callers : /\ pc[d] = "close peers" /\ inst[d] = owner[p]
                                   /\ p \in todo[d]
          BY <1>2, <2>2, <3>2 DEF MapInv, OpenInv
        <4>. QED
          BY <1>5, <1>1, <4>1 DEF Others
      <3>. QED
        BY <3>1, <3>2
    <2>. QED
      BY <1>2, <1>4, <2>1, <2>2 DEF MapInv, OpenInv
  <1>10. RemovingInv'
    <2>1. \A d \in Callers : d # c => peer'[d] = peer[d]
      BY <1>1 DEF Others
    <2>2. \A d \in Callers : pc[d] = "unmap" => Removing(d)
      BY DEF Removing
    <2>3. \A d \in Callers : Removing(d)' =>
              Removing(d) /\ peer'[d] = peer[d] /\ peer[d] \in Born /\ peer[d] \in shut
      BY <1>5, <2>1 DEF MapInv, RemovingInv
    <2>4. \A d, e \in Callers :
              Removing(d)' /\ Removing(e)' /\ peer'[d] = peer'[e] => d = e
      BY <2>3 DEF MapInv, RemovingInv
    <2>5. ASSUME NEW d \in Callers, pc'[d] = "unmap", owner[peer'[d]] \notin closed'
          PROVE  peers'[owner[peer'[d]]][addr[peer'[d]]] = peer'[d]
      <3>1. pc[d] = "unmap" /\ Removing(d) /\ peer'[d] = peer[d] /\ peer[d] \in Born
        BY <1>5, <2>1, <2>2, <2>5 DEF MapInv, RemovingInv
      <3>2. owner[peer[d]] \notin closed /\ owner[peer[d]] # i
        BY <1>2, <2>5, <3>1
      <3>3. peers[owner[peer[d]]][addr[peer[d]]] = peer[d]
        BY <3>1, <3>2 DEF MapInv, RemovingInv
      <3>. QED
        BY <1>3, <1>6, <3>1, <3>2, <3>3
    <2>. QED
      BY <1>2, <1>4, <2>3, <2>4, <2>5 DEF RemovingInv
  <1>. QED
    BY <1>7, <1>8, <1>9, <1>10 DEF MapInv
\* Peers that exist have a number, an owner and an address.
LEMMA BornType ==
    ASSUME TypeOK, EntryInv
    PROVE  \A p \in Born : /\ p \in PeerIds /\ p # Nil /\ owner[p] \in Instances
                           /\ addr[p] \in Addresses
  <1>1. \A p \in Born : p \in PeerIds /\ p # Nil
    BY BoundAssumption DEF TypeOK, PeerType, Born, PeerIds, Nil
  <1>. QED
    BY <1>1 DEF TypeOK, PeerType, SlotType, EntryInv

LEMMA MapCloseNextPeer ==
    ASSUME TypeOK, MapInv, NEW c \in Callers, CloseNextPeer(c)
    PROVE  MapInv'
  <1>1. /\ Others(c) /\ inst'[c] = inst[c] /\ pc[c] = "close peers"
        /\ pc'[c] \in {"close peers", "deinit"}
    BY ClosesNextPeer
  <1>2. /\ closed' = closed /\ mu' = mu /\ ready' = ready /\ peers' = peers
        /\ born' = born /\ owner' = owner /\ addr' = addr
    BY DEF CloseNextPeer, slotVars, table
  <1>3. shut \subseteq shut' /\ Born' = Born
    BY <1>2, ClosesNextPeer DEF Born
  <1>4. \A p \in Born : Open(p)' => Open(p)
    BY <1>3 DEF Open
  <1>5. \A d \in Callers :
            /\ Adding(d)' => Adding(d) /\ inst'[d] = inst[d] /\ at'[d] = at[d]
            /\ Removing(d)' => Removing(d) /\ peer'[d] = peer[d]
            /\ pc'[d] = "unmap" => pc[d] = "unmap" /\ peer'[d] = peer[d]
    BY <1>1 DEF Others, Adding, Removing
  <1>6. LockInv'
    BY <1>2, <1>5 DEF MapInv, LockInv, Nil
  <1>7. EntryInv'
    BY <1>2, <1>3 DEF MapInv, EntryInv, Nil, Instances, Addresses
  <1>8. OpenInv'
    <2>1. ASSUME NEW p \in Born, Open(p)', owner[p] \in closed
          PROVE  \E d \in Callers : /\ pc'[d] = "close peers" /\ inst'[d] = owner[p]
                                    /\ p \in todo'[d]
      <3>1. PICK d \in Callers : /\ pc[d] = "close peers" /\ inst[d] = owner[p]
                                 /\ p \in todo[d]
        BY <1>4, <2>1 DEF MapInv, OpenInv
      <3>2. CASE d # c
        BY <1>1, <3>1, <3>2 DEF Others
      <3>3. CASE d = c
        <4>1. p \notin shut'
          BY <2>1 DEF Open
        <4>2. pc'[c] # "deinit"
          BY <3>1, <3>3, ClosesNextPeer
        <4>3. p \in todo'[c]
          BY <3>1, <3>3, <4>1, <4>2, ClosesNextPeer
        <4>. QED
          BY <1>1, <3>1, <3>3, <4>2, <4>3
      <3>. QED
        BY <3>2, <3>3
    <2>2. \A p \in Born : Open(p) /\ owner[p] \notin closed => peers[owner[p]][addr[p]] = p
      BY DEF MapInv, OpenInv
    <2>. QED
      BY <1>2, <1>3, <1>4, <2>1, <2>2, OneOpen DEF OpenInv
  <1>9. RemovingInv'
    BY <1>2, <1>3, <1>5 DEF MapInv, RemovingInv
  <1>. QED
    BY <1>6, <1>7, <1>8, <1>9 DEF MapInv

LEMMA MapAddBegin ==
    ASSUME TypeOK, MapInv, NEW c \in Callers, NEW i \in Instances,
           NEW a \in Addresses, AddBegin(c, i, a)
    PROVE  MapInv'
  <1>1. /\ Others(c) /\ inst'[c] = i /\ at'[c] = a /\ pc[c] = "idle"
        /\ pc'[c] \in {"exists", "sdk add"}
    BY Adds DEF AddBegin
  <1>2. /\ closed' = closed /\ ready' = ready /\ peers' = peers /\ Unlocked(i)
        /\ born' = born /\ owner' = owner /\ addr' = addr /\ shut' = shut
        /\ i \in ready /\ i \notin closed /\ peers[i][a] = Nil
    BY DEF AddBegin, slotVars, peerVars
  <1>3. \A j \in Instances : mu'[j] = IF j = i THEN c ELSE mu[j]
    BY DEF AddBegin, TypeOK, TableType
  <1>4. Born' = Born /\ \A p \in Born : Open(p)' <=> Open(p)
    BY <1>2 DEF Born, Open
  <1>5. LockInv'
    <2>. SUFFICES ASSUME NEW d \in Callers, Adding(d)', d # c
                  PROVE  /\ inst'[d] \in ready' /\ inst'[d] \notin closed'
                         /\ mu'[inst'[d]] = d /\ peers'[inst'[d]][at'[d]] = Nil
      BY <1>1, <1>2, <1>3 DEF LockInv, Nil
    <2>1. Adding(d) /\ inst'[d] = inst[d] /\ at'[d] = at[d]
      BY <1>1 DEF Others, Adding
    <2>2. inst[d] # i /\ inst[d] \in Instances
      BY <1>2, <2>1, LockAlone DEF MapInv, LockInv, TypeOK, SlotType
    <2>. QED
      BY <1>2, <1>3, <2>1, <2>2 DEF MapInv, LockInv
  <1>6. EntryInv'
    BY <1>2, <1>4 DEF MapInv, EntryInv, Nil, Instances, Addresses
  <1>7. OpenInv'
    <2>1. ASSUME NEW p \in Born, Open(p), owner[p] \in closed
          PROVE  \E d \in Callers : /\ pc'[d] = "close peers" /\ inst'[d] = owner[p]
                                    /\ p \in todo'[d]
      <3>1. PICK d \in Callers : /\ pc[d] = "close peers" /\ inst[d] = owner[p]
                                 /\ p \in todo[d]
        BY <2>1 DEF MapInv, OpenInv
      <3>. QED
        BY <1>1, <3>1 DEF Others
    <2>2. \A p \in Born : Open(p) /\ owner[p] \notin closed => peers[owner[p]][addr[p]] = p
      BY DEF MapInv, OpenInv
    <2>. QED
      BY <1>2, <1>4, <2>1, <2>2, OneOpen DEF OpenInv
  <1>8. RemovingInv'
    <2>1. \A d \in Callers :
              /\ Removing(d)' => Removing(d) /\ peer'[d] = peer[d]
              /\ pc'[d] = "unmap" => pc[d] = "unmap" /\ peer'[d] = peer[d]
      BY <1>1 DEF Others, Removing
    <2>. QED
      BY <1>2, <1>4, <2>1 DEF MapInv, RemovingInv
  <1>. QED
    BY <1>5, <1>6, <1>7, <1>8 DEF MapInv

LEMMA MapPeerClose ==
    ASSUME TypeOK, MapInv, NEW c \in Callers, NEW p \in PeerIds, PeerCloseLocal(c, p)
    PROVE  MapInv'
  <1>1. Others(c) /\ pc'[c] = "unmap" /\ peer'[c] = p /\ pc[c] = "idle"
    BY ClosesPeer DEF PeerCloseLocal
  <1>2. /\ closed' = closed /\ mu' = mu /\ ready' = ready /\ peers' = peers
        /\ born' = born /\ owner' = owner /\ addr' = addr
        /\ p \in Born /\ p \notin shut /\ shut' = shut \cup {p}
    BY DEF PeerCloseLocal, slotVars, table
  <1>3. Born' = Born /\ Open(p)
    BY <1>2 DEF Born, Open
  <1>4. \A q \in Born : Open(q)' => Open(q)
    BY <1>2, <1>3 DEF Open
  <1>5. \A d \in Callers :
            /\ Adding(d)' => Adding(d) /\ inst'[d] = inst[d] /\ at'[d] = at[d]
            /\ Removing(d)' => d = c \/ (Removing(d) /\ peer'[d] = peer[d])
            /\ pc'[d] = "unmap" => d = c \/ (pc[d] = "unmap" /\ peer'[d] = peer[d])
            /\ pc[d] = "close peers" => d # c
    <2>1. ASSUME NEW d \in Callers, d # c
          PROVE  /\ Adding(d)' => Adding(d) /\ inst'[d] = inst[d] /\ at'[d] = at[d]
                 /\ Removing(d)' => Removing(d) /\ peer'[d] = peer[d]
                 /\ pc'[d] = "unmap" => pc[d] = "unmap" /\ peer'[d] = peer[d]
      BY <1>1, <2>1 DEF Others, Adding, Removing
    <2>. QED
      <3>. SUFFICES ASSUME NEW d \in Callers
                    PROVE  /\ Adding(d)' => /\ Adding(d) /\ inst'[d] = inst[d]
                                            /\ at'[d] = at[d]
                           /\ Removing(d)' => d = c \/ (Removing(d) /\ peer'[d] = peer[d])
                           /\ pc'[d] = "unmap" =>
                                  d = c \/ (pc[d] = "unmap" /\ peer'[d] = peer[d])
                           /\ pc[d] = "close peers" => d # c
        OBVIOUS
      <3>1. CASE d = c
        BY <1>1, <3>1 DEF Adding
      <3>2. CASE d # c
        BY <2>1, <3>2
      <3>. QED
        BY <3>1, <3>2
  <1>6. LockInv'
    BY <1>2, <1>5 DEF MapInv, LockInv, Nil
  <1>7. EntryInv'
    BY <1>2, <1>3 DEF MapInv, EntryInv, Nil, Instances, Addresses
  <1>8. OpenInv'
    <2>1. ASSUME NEW q \in Born, Open(q), owner[q] \in closed
          PROVE  \E d \in Callers : /\ pc'[d] = "close peers" /\ inst'[d] = owner[q]
                                    /\ q \in todo'[d]
      <3>1. PICK d \in Callers : /\ pc[d] = "close peers" /\ inst[d] = owner[q]
                                 /\ q \in todo[d]
        BY <2>1 DEF MapInv, OpenInv
      <3>. QED
        BY <1>1, <3>1 DEF Others
    <2>2. \A q \in Born : Open(q) /\ owner[q] \notin closed => peers[owner[q]][addr[q]] = q
      BY DEF MapInv, OpenInv
    <2>. QED
      BY <1>2, <1>3, <1>4, <2>1, <2>2, OneOpen DEF OpenInv
  <1>9. RemovingInv'
    <2>1. \A d \in Callers : Removing(d) => peer[d] \in Born /\ peer[d] \in shut /\ peer[d] # p
      BY <1>2 DEF MapInv, RemovingInv
    <2>2. peers[owner[p]][addr[p]] = p \/ owner[p] \in closed
      BY <1>2, <1>3 DEF MapInv, OpenInv
    <2>3. \A d, e \in Callers :
              Removing(d)' /\ Removing(e)' /\ peer'[d] = peer'[e] => d = e
      BY <1>1, <1>5, <2>1 DEF MapInv, RemovingInv
    <2>4. \A d \in Callers : pc'[d] = "unmap" /\ owner[peer'[d]] \notin closed
              => peers[owner[peer'[d]]][addr[peer'[d]]] = peer'[d]
      BY <1>1, <1>5, <2>2 DEF MapInv, RemovingInv
    <2>. QED
      BY <1>1, <1>2, <1>3, <1>5, <2>1, <2>3, <2>4 DEF RemovingInv
  <1>. QED
    BY <1>6, <1>7, <1>8, <1>9 DEF MapInv
LEMMA MapPeerUnmap ==
    ASSUME TypeOK, MapInv, NEW c \in Callers, PeerUnmap(c)
    PROVE  MapInv'
  <1>. DEFINE p == peer[c]
  <1>1. Others(c) /\ pc'[c] = "sdk delete" /\ peer'[c] = p /\ pc[c] = "unmap"
    BY Moves DEF PeerUnmap, TypeOK, Steps
  <1>2. /\ closed' = closed /\ mu' = mu /\ ready' = ready /\ Unlocked(owner[p])
        /\ born' = born /\ owner' = owner /\ addr' = addr /\ shut' = shut
    BY DEF PeerUnmap, slotVars, peerVars
  <1>3. Removing(c) /\ p \in Born /\ p \in shut
    BY <1>1 DEF Removing, MapInv, RemovingInv
  <1>4. owner[p] \in Instances /\ addr[p] \in Addresses
    BY <1>3, BornType DEF MapInv
  <1>5. \A i \in Instances, a \in Addresses :
            peers'[i][a] = IF i = owner[p] /\ a = addr[p] THEN Nil ELSE peers[i][a]
    BY <1>4 DEF PeerUnmap, TypeOK, TableType
  <1>6. Born' = Born /\ \A q \in Born : Open(q)' <=> Open(q)
    BY <1>2 DEF Born, Open
  <1>7. \A d \in Callers :
            /\ Adding(d)' => Adding(d) /\ inst'[d] = inst[d] /\ at'[d] = at[d]
            /\ Removing(d)' => Removing(d) /\ peer'[d] = peer[d]
            /\ pc'[d] = "unmap" => d # c /\ pc[d] = "unmap" /\ peer'[d] = peer[d]
    <2>1. ~Adding(c)'
      BY <1>1 DEF Adding
    <2>2. ASSUME NEW d \in Callers, d # c
          PROVE  /\ Adding(d)' => Adding(d) /\ inst'[d] = inst[d] /\ at'[d] = at[d]
                 /\ Removing(d)' => Removing(d) /\ peer'[d] = peer[d]
                 /\ pc'[d] = "unmap" => pc[d] = "unmap" /\ peer'[d] = peer[d]
      BY <1>1, <2>2 DEF Others, Adding, Removing
    <2>. QED
      BY <1>1, <1>3, <2>1, <2>2
  <1>. HIDE DEF p
  <1>8. LockInv'
    <2>. SUFFICES ASSUME NEW d \in Callers, Adding(d)'
                  PROVE  /\ inst'[d] \in ready' /\ inst'[d] \notin closed'
                         /\ mu'[inst'[d]] = d /\ peers'[inst'[d]][at'[d]] = Nil
      BY DEF LockInv, Nil
    <2>1. Adding(d) /\ inst'[d] = inst[d] /\ at'[d] = at[d]
      BY <1>7
    <2>2. inst[d] \in Instances /\ at[d] \in Addresses
      BY <2>1 DEF MapInv, LockInv, TypeOK, SlotType, CallType
    <2>3. /\ inst[d] \in ready /\ inst[d] \notin closed /\ mu[inst[d]] = d
          /\ peers[inst[d]][at[d]] = Nil
      BY <2>1 DEF MapInv, LockInv
    <2>4. peers'[inst[d]][at[d]] = Nil
      BY <1>5, <2>2, <2>3
    <2>. QED
      BY <1>2, <2>1, <2>3, <2>4
  <1>9. EntryInv'
    BY <1>2, <1>5, <1>6 DEF MapInv, EntryInv, Nil, Instances, Addresses
  <1>10. OpenInv'
    <2>1. ASSUME NEW q \in Born, Open(q), owner[q] \in closed
          PROVE  \E d \in Callers : /\ pc'[d] = "close peers" /\ inst'[d] = owner[q]
                                    /\ q \in todo'[d]
      <3>1. PICK d \in Callers : /\ pc[d] = "close peers" /\ inst[d] = owner[q]
                                 /\ q \in todo[d]
        BY <2>1 DEF MapInv, OpenInv
      <3>. QED
        BY <1>1, <3>1 DEF Others
    <2>2. ASSUME NEW q \in Born, Open(q), owner[q] \notin closed
          PROVE  peers'[owner[q]][addr[q]] = q
      <3>1. peers[owner[q]][addr[q]] = q
        BY <2>2 DEF MapInv, OpenInv
      <3>2. owner[q] = owner[p] /\ addr[q] = addr[p] => q = p
        BY <1>1, <2>2, <3>1 DEF MapInv, RemovingInv, p
      <3>3. q # p
        BY <1>3, <2>2 DEF Open
      <3>4. owner[q] \in Instances /\ addr[q] \in Addresses
        BY BornType DEF MapInv
      <3>. QED
        BY <1>5, <3>1, <3>2, <3>3, <3>4
    <2>. QED
      BY <1>2, <1>6, <2>1, <2>2, OneOpen DEF OpenInv
  <1>11. RemovingInv'
    <2>1. \A d \in Callers : Removing(d) => peer[d] \in Born /\ peer[d] \in shut
      BY DEF MapInv, RemovingInv
    <2>2. \A d, e \in Callers :
              Removing(d) /\ Removing(e) /\ peer[d] = peer[e] => d = e
      BY DEF MapInv, RemovingInv
    <2>3. ASSUME NEW d \in Callers, pc'[d] = "unmap", owner[peer'[d]] \notin closed
          PROVE  peers'[owner[peer'[d]]][addr[peer'[d]]] = peer'[d]
      <3>1. d # c /\ pc[d] = "unmap" /\ peer'[d] = peer[d] /\ Removing(d)
        BY <1>7, <2>3 DEF Removing
      <3>2. peers[owner[peer[d]]][addr[peer[d]]] = peer[d]
        BY <2>3, <3>1 DEF MapInv, RemovingInv
      <3>3. owner[peer[d]] = owner[p] /\ addr[peer[d]] = addr[p] => peer[d] = p
        BY <1>1, <2>3, <3>1, <3>2 DEF MapInv, RemovingInv, p
      <3>4. peer[d] # p
        BY <1>3, <2>2, <3>1 DEF p
      <3>5. owner[peer[d]] \in Instances /\ addr[peer[d]] \in Addresses
        BY <2>1, <3>1, BornType DEF MapInv
      <3>. QED
        BY <1>5, <3>1, <3>2, <3>3, <3>4, <3>5
    <2>. QED
      BY <1>2, <1>6, <1>7, <2>1, <2>2, <2>3 DEF RemovingInv
  <1>. QED
    BY <1>8, <1>9, <1>10, <1>11 DEF MapInv

LEMMA MapNewPeer ==
    ASSUME TypeOK, MapInv, NEW c \in Callers, NewPeer(c)
    PROVE  MapInv'
  <1>. DEFINE n == born'
              i == inst[c]
              a == at[c]
  <1>1. Others(c) /\ pc'[c] = "idle" /\ pc[c] = "new peer"
    BY Returns DEF NewPeer, TypeOK
  <1>2. /\ closed' = closed /\ ready' = ready /\ shut' = shut /\ n = born + 1
    BY DEF NewPeer, slotVars
  <1>3. /\ Adding(c) /\ i \in ready /\ i \notin closed /\ mu[i] = c
        /\ peers[i][a] = Nil /\ i \in Instances /\ a \in Addresses
    BY <1>1 DEF Adding, MapInv, LockInv, TypeOK, SlotType, CallType
  <1>4. n \in PeerIds /\ n # Nil /\ n \notin Born /\ Born' = Born \cup {n}
    <2>1. born \in Nat /\ born < MaxPeers
      <3>1. born < MaxPeers /\ born \in 0 .. MaxPeers
        BY RoomForOne DEF NewPeer
      <3>. QED
        BY <3>1, BoundAssumption
    <2>. QED
      BY <1>2, <2>1, BoundAssumption DEF PeerIds, Born, Nil
  <1>5. \A j \in Instances, b \in Addresses :
            peers'[j][b] = IF j = i /\ b = a THEN n ELSE peers[j][b]
    BY <1>3 DEF NewPeer, TypeOK, TableType
  <1>6. \A j \in Instances : j # i => mu'[j] = mu[j]
    BY DEF NewPeer, Unlock, TypeOK, TableType
  <1>7. /\ owner'[n] = i /\ addr'[n] = a
        /\ \A p \in Born : owner'[p] = owner[p] /\ addr'[p] = addr[p]
    <2>1. \A p \in Born : p \in PeerIds /\ p # n
      BY <1>4, BornType DEF MapInv
    <2>. QED
      BY <1>4, <2>1 DEF NewPeer, TypeOK, PeerType
  <1>. HIDE DEF n, i, a
  <1>8. \A p \in Born : Open(p)' <=> Open(p)
    BY <1>2, <1>4 DEF Open
  <1>9. \A d \in Callers :
            /\ Adding(d)' => d # c /\ Adding(d) /\ inst'[d] = inst[d] /\ at'[d] = at[d]
            /\ Removing(d)' => Removing(d) /\ peer'[d] = peer[d]
            /\ pc'[d] = "unmap" => pc[d] = "unmap" /\ peer'[d] = peer[d]
    <2>1. ~Adding(c)' /\ ~Removing(c)' /\ pc'[c] # "unmap"
      BY <1>1 DEF Adding, Removing
    <2>2. ASSUME NEW d \in Callers, d # c
          PROVE  /\ Adding(d)' => Adding(d) /\ inst'[d] = inst[d] /\ at'[d] = at[d]
                 /\ Removing(d)' => Removing(d) /\ peer'[d] = peer[d]
                 /\ pc'[d] = "unmap" => pc[d] = "unmap" /\ peer'[d] = peer[d]
      BY <1>1, <2>2 DEF Others, Adding, Removing
    <2>. QED
      BY <2>1, <2>2
  <1>10. LockInv'
    <2>. SUFFICES ASSUME NEW d \in Callers, Adding(d)'
                  PROVE  /\ inst'[d] \in ready' /\ inst'[d] \notin closed'
                         /\ mu'[inst'[d]] = d /\ peers'[inst'[d]][at'[d]] = Nil
      BY DEF LockInv, Nil
    <2>1. d # c /\ Adding(d) /\ inst'[d] = inst[d] /\ at'[d] = at[d]
      BY <1>9
    <2>2. inst[d] \in Instances /\ at[d] \in Addresses
      BY <2>1 DEF MapInv, LockInv, TypeOK, SlotType, CallType
    <2>3. /\ inst[d] \in ready /\ inst[d] \notin closed /\ mu[inst[d]] = d
          /\ peers[inst[d]][at[d]] = Nil
      BY <2>1 DEF MapInv, LockInv
    <2>4. inst[d] # i
      BY <1>3, <2>1, <2>3
    <2>. QED
      BY <1>2, <1>5, <1>6, <2>1, <2>2, <2>3, <2>4
  <1>11. EntryInv'
    <2>1. \A p \in Born' : owner'[p] \in ready'
      BY <1>2, <1>3, <1>4, <1>7 DEF MapInv, EntryInv
    <2>2. ASSUME NEW j \in Instances, NEW b \in Addresses, peers'[j][b] # Nil
          PROVE  /\ peers'[j][b] \in Born' /\ owner'[peers'[j][b]] = j
                 /\ addr'[peers'[j][b]] = b
      <3>1. CASE j = i /\ b = a
        BY <1>4, <1>5, <1>7, <3>1
      <3>2. CASE ~(j = i /\ b = a)
        BY <1>4, <1>5, <1>7, <2>2, <3>2 DEF MapInv, EntryInv
      <3>. QED
        BY <3>1, <3>2
    <2>. QED
      BY <2>1, <2>2 DEF EntryInv, Nil, Instances, Addresses
  <1>12. OpenInv'
    <2>1. ASSUME NEW p \in Born', Open(p)', owner'[p] \in closed'
          PROVE  \E d \in Callers : /\ pc'[d] = "close peers" /\ inst'[d] = owner'[p]
                                    /\ p \in todo'[d]
      <3>1. p \in Born /\ Open(p) /\ owner'[p] = owner[p]
        BY <1>2, <1>3, <1>4, <1>7, <1>8, <2>1
      <3>2. PICK d \in Callers : /\ pc[d] = "close peers" /\ inst[d] = owner[p]
                                 /\ p \in todo[d]
        BY <1>2, <2>1, <3>1 DEF MapInv, OpenInv
      <3>. QED
        BY <1>1, <3>1, <3>2 DEF Others
    <2>2. ASSUME NEW p \in Born, Open(p), owner[p] \notin closed
          PROVE  /\ peers'[owner[p]][addr[p]] = p
                 /\ ~(owner[p] = i /\ addr[p] = a)
      <3>1. peers[owner[p]][addr[p]] = p
        BY <2>2 DEF MapInv, OpenInv
      <3>2. p # Nil /\ owner[p] \in Instances /\ addr[p] \in Addresses
        BY BornType DEF MapInv
      <3>. QED
        BY <1>3, <1>5, <3>1, <3>2
    <2>3. ASSUME NEW p \in Born', Open(p)', owner'[p] \notin closed'
          PROVE  peers'[owner'[p]][addr'[p]] = p
      BY <1>2, <1>3, <1>4, <1>5, <1>7, <1>8, <2>2, <2>3
    <2>4. \A p \in Born : Open(p) /\ owner[p] = i => addr[p] # a
      BY <1>3, <2>2
    <2>5. ASSUME NEW p \in Born', NEW q \in Born', Open(p)', Open(q)',
                 owner'[p] = owner'[q], addr'[p] = addr'[q]
          PROVE  p = q
      <3>1. CASE p \in Born /\ q \in Born
        BY <1>7, <1>8, <2>5, <3>1, OneOpen
      <3>2. CASE p = n \/ q = n
        BY <1>4, <1>7, <1>8, <2>4, <2>5, <3>2
      <3>. QED
        BY <1>4, <3>1, <3>2
    <2>. QED
      BY <2>1, <2>3, <2>5 DEF OpenInv
  <1>13. RemovingInv'
    <2>1. \A d \in Callers : Removing(d) => peer[d] \in Born /\ peer[d] \in shut
      BY DEF MapInv, RemovingInv
    <2>2. \A d, e \in Callers :
              Removing(d) /\ Removing(e) /\ peer[d] = peer[e] => d = e
      BY DEF MapInv, RemovingInv
    <2>3. ASSUME NEW d \in Callers, pc'[d] = "unmap", owner'[peer'[d]] \notin closed'
          PROVE  peers'[owner'[peer'[d]]][addr'[peer'[d]]] = peer'[d]
      <3>1. pc[d] = "unmap" /\ peer'[d] = peer[d] /\ Removing(d) /\ peer[d] \in Born
        BY <1>9, <2>1, <2>3 DEF Removing
      <3>2. owner'[peer[d]] = owner[peer[d]] /\ addr'[peer[d]] = addr[peer[d]]
        BY <1>7, <3>1
      <3>3. peers[owner[peer[d]]][addr[peer[d]]] = peer[d]
        BY <1>2, <2>3, <3>1, <3>2 DEF MapInv, RemovingInv
      <3>4. /\ peer[d] # Nil /\ owner[peer[d]] \in Instances
            /\ addr[peer[d]] \in Addresses
        BY <3>1, BornType DEF MapInv
      <3>. QED
        BY <1>3, <1>5, <3>1, <3>2, <3>3, <3>4
    <2>. QED
      BY <1>2, <1>4, <1>9, <2>1, <2>2, <2>3 DEF RemovingInv
  <1>. QED
    BY <1>10, <1>11, <1>12, <1>13 DEF MapInv
LEMMA MapStep ==
    ASSUME TypeOK, MapInv, [Next]_vars
    PROVE  MapInv'
  <1>1. ASSUME NEW c \in Callers, NewClaim(c) PROVE MapInv'
    <2>1. Others(c) /\ pc'[c] = "init" /\ pc[c] = "idle"
      BY <1>1, Claims DEF NewClaim
    <2>2. UNCHANGED <<closed, peers, peerVars, mu, ready>>
      BY <1>1 DEF NewClaim, table
    <2>3. ~Adding(c)' /\ ~Removing(c)'
      BY <2>1 DEF Adding, Removing
    <2>. QED
      BY <2>1, <2>2, <2>3, MapAway DEF KeepsLock
  <1>2. ASSUME NEW c \in Callers, InitOk(c) \/ InitRelease(c) \/ CloseFree(c)
        PROVE  MapInv'
    <2>1. Others(c) /\ pc'[c] = "idle" /\ pc[c] # "close peers"
      BY <1>2, Returns DEF TypeOK, InitOk, InitRelease, CloseFree
    <2>2. UNCHANGED <<closed, peers, peerVars, mu>> /\ ready \subseteq ready'
      BY <1>2 DEF InitOk, InitRelease, CloseFree, table
    <2>3. ~Adding(c)' /\ ~Removing(c)'
      BY <2>1 DEF Adding, Removing
    <2>. QED
      BY <2>1, <2>2, <2>3, MapAway DEF KeepsLock
  <1>3. ASSUME NEW c \in Callers, InitFails(c) \/ CloseDeinit(c)
        PROVE  MapInv'
    <2>1. /\ Others(c) /\ pc'[c] \in {"release", "free"}
          /\ pc[c] # "close peers"
      BY <1>3, Moves DEF TypeOK, InitFails, CloseDeinit, Steps
    <2>2. UNCHANGED <<closed, peers, peerVars, mu, ready>>
      BY <1>3 DEF InitFails, CloseDeinit, table, slotVars
    <2>3. ~Adding(c)' /\ ~Removing(c)'
      BY <2>1 DEF Adding, Removing
    <2>. QED
      BY <2>1, <2>2, <2>3, MapAway DEF KeepsLock
  <1>4. ASSUME NEW c \in Callers, AddExists(c) \/ SdkAddOk(c)
        PROVE  MapInv'
    <2>1. /\ Others(c) /\ pc'[c] \in {"new peer", "sdk add"}
          /\ pc[c] \in {"exists", "sdk add"} /\ inst'[c] = inst[c] /\ at'[c] = at[c]
      BY <1>4, Moves DEF TypeOK, AddExists, SdkAddOk, Steps
    <2>2. UNCHANGED <<closed, peers, peerVars, mu, ready>>
      BY <1>4 DEF AddExists, SdkAddOk, table, slotVars
    <2>3. Adding(c) /\ ~Removing(c)' /\ pc[c] # "close peers"
      BY <2>1 DEF Adding, Removing
    <2>. QED
      BY <2>1, <2>2, <2>3, MapAway DEF KeepsLock
  <1>5. ASSUME NEW c \in Callers, SdkAddFails(c) \/ AddUndo(c) PROVE MapInv'
    <2>1. Adding(c) /\ Return(c) /\ Unlock(c)
      BY <1>5 DEF SdkAddFails, AddUndo, Adding
    <2>2. UNCHANGED <<slotVars, closed, peers, peerVars>>
      BY <1>5 DEF SdkAddFails, AddUndo
    <2>. QED
      BY <2>1, <2>2, MapUnlock
  <1>6. ASSUME NEW c \in Callers, NewPeerFails(c) PROVE MapInv'
    <2>1. Adding(c) /\ pc[c] # "close peers"
      BY <1>6 DEF NewPeerFails, Adding
    <2>2. UNCHANGED <<slotVars, closed, peers, peerVars>>
      BY <1>6 DEF NewPeerFails
    <2>3. CASE Return(c) /\ Unlock(c)
      BY <2>1, <2>2, <2>3, MapUnlock
    <2>4. CASE Goto(c, "undo") /\ SameArgs /\ mu' = mu
      <3>1. /\ Others(c) /\ pc'[c] = "undo" /\ inst'[c] = inst[c]
            /\ at'[c] = at[c]
        BY <2>4, Moves DEF TypeOK, Steps
      <3>2. ~Removing(c)' /\ ready' = ready
        BY <2>2, <3>1 DEF Removing, slotVars
      <3>. QED
        BY <2>1, <2>2, <2>4, <3>1, <3>2, MapAway DEF KeepsLock
    <2>. QED
      BY <1>6, <2>3, <2>4 DEF NewPeerFails
  <1>7. ASSUME NEW c \in Callers, SdkDelete(c) PROVE MapInv'
    <2>1. Others(c) /\ pc'[c] = "idle" /\ pc[c] # "close peers"
      BY <1>7, Returns DEF TypeOK, SdkDelete
    <2>2. UNCHANGED <<closed, peers, peerVars, mu, ready>>
      BY <1>7 DEF SdkDelete, table, slotVars
    <2>3. ~Adding(c)' /\ ~Removing(c)'
      BY <2>1 DEF Adding, Removing
    <2>. QED
      BY <2>1, <2>2, <2>3, MapAway DEF KeepsLock
  <1>8. CASE Routing \/ (\E p \in PeerIds : ReadFrom(p)) \/ UNCHANGED vars
             \/ \E src \in Named, all \in BOOLEAN : Receive(src, all)
    <2>1. UNCHANGED <<slotVars, table, peerVars, call>>
      BY <1>8 DEF Routing, Route, EnqueueCheck, EnqueuePut, ReadFrom, Receive, vars
    <2>. QED
      BY <2>1, MapStill
  <1>. QED
    BY <1>1, <1>2, <1>3, <1>4, <1>5, <1>6, <1>7, <1>8, MapCloseBegin,
       MapCloseNextPeer, MapAddBegin, MapPeerClose, MapPeerUnmap, MapNewPeer
    DEF Next, Proceed

-----------------------------------------------------------------------------
(* The SDK's table                                                         *)

\* Whoever owns an open peer, adds one, or has one to take from the table while
\* still open itself, has the slot.
LEMMA HasSlot ==
    ASSUME TypeOK, SlotInv, MapInv
    PROVE  /\ \A p \in Born : Open(p) => owner[p] = active /\ active # Nil
           /\ \A c \in Callers : Adding(c) => inst[c] = active /\ active # Nil
           /\ \A c \in Callers : Removing(c) /\ owner[peer[c]] \notin closed
                  => owner[peer[c]] = active /\ active # Nil
  <1>1. \A i \in ready \ closed : i = active
    BY DEF SlotInv
  <1>3. \A i \in ready : i # Nil
    BY DEF TypeOK, SlotType, Instances, Nil
  <1>2. \A p \in Born : Open(p) => owner[p] = active
    <2>. SUFFICES ASSUME NEW p \in Born, Open(p) PROVE owner[p] = active
      OBVIOUS
    <2>1. CASE owner[p] \in closed
      <3>1. PICK c \in Callers : pc[c] = "close peers" /\ inst[c] = owner[p]
        BY <2>1 DEF MapInv, OpenInv
      <3>2. Holding(c)
        BY <3>1 DEF Holding, Closing
      <3>. QED
        BY <3>1, <3>2 DEF SlotInv
    <2>2. CASE owner[p] \notin closed
      BY <1>1, <2>2 DEF MapInv, EntryInv
    <2>. QED
      BY <2>1, <2>2
  <1>. QED
    BY <1>1, <1>2, <1>3 DEF MapInv, LockInv, RemovingInv, EntryInv
\* How a call may go on without a peer being added or closed.
KeepsAdded(d) == Added(d)' => Added(d) /\ inst'[d] = inst[d] /\ at'[d] = at[d]
KeepsRemoved(d) == Removing(d)' => Removing(d) /\ peer'[d] = peer[d]
KeepsLookup(d) == pc'[d] = "exists" => at'[d] = Broadcast

\* A step that takes nothing from the table and opens and closes no peer.
LEMMA TableSame ==
    ASSUME MapInv, TableInv, crossed' = crossed, sdkTable \subseteq sdkTable',
           closed \subseteq closed', UNCHANGED <<born, owner, addr>>,
           shut \subseteq shut',
           \A d \in Callers : KeepsAdded(d) /\ KeepsRemoved(d) /\ KeepsLookup(d)
    PROVE  TableInv'
  <1>. SUFFICES ASSUME ~crossed'
                PROVE  (OpenListed /\ AddedListed /\ RemovingReserved /\ LookingUp)'
    BY DEF TableInv
  <1>1. OpenListed /\ AddedListed /\ RemovingReserved
    BY DEF TableInv
  <1>2. Born' = Born /\ \A p \in Born : Open(p)' => Open(p)
    BY DEF Born, Open
  <1>3. OpenListed'
    BY <1>1, <1>2 DEF OpenListed
  <1>4. AddedListed'
    BY <1>1 DEF AddedListed, KeepsAdded
  <1>5. RemovingReserved'
    <2>. SUFFICES ASSUME NEW c \in Callers, Removing(c)', addr'[peer'[c]] # Broadcast
                  PROVE  Reserved(c)'
      BY DEF RemovingReserved
    <2>1. Removing(c) /\ peer'[c] = peer[c]
      BY DEF KeepsRemoved
    <2>2. Reserved(c)
      BY <1>1, <2>1 DEF RemovingReserved
    <2>. QED
      BY <1>2, <2>1, <2>2 DEF Reserved, KeepsAdded, KeepsRemoved
  <1>6. LookingUp'
    BY DEF LookingUp, KeepsLookup
  <1>. QED
    BY <1>3, <1>4, <1>5, <1>6

\* Such a step of one call.
LEMMA TableAway ==
    ASSUME MapInv, TableInv, crossed' = crossed, sdkTable \subseteq sdkTable',
           closed \subseteq closed', UNCHANGED <<born, owner, addr>>,
           shut \subseteq shut', NEW c \in Callers, Others(c),
           KeepsAdded(c), ~Removing(c)' \/ KeepsRemoved(c), KeepsLookup(c)
    PROVE  TableInv'
  <1>. SUFFICES ASSUME ~crossed' PROVE TableInv'
    BY DEF TableInv
  <1>1. \A d \in Callers : d # c =>
            /\ pc'[d] = pc[d] /\ inst'[d] = inst[d] /\ at'[d] = at[d]
            /\ peer'[d] = peer[d]
    BY DEF Others
  <1>2. \A d \in Callers : d # c => KeepsAdded(d)
    BY <1>1 DEF KeepsAdded, Added
  <1>3. \A d \in Callers : d # c => KeepsRemoved(d)
    BY <1>1 DEF KeepsRemoved, Removing
  <1>4. \A d \in Callers : d # c => KeepsLookup(d)
    BY <1>1 DEF KeepsLookup, TableInv, LookingUp
  <1>5. KeepsRemoved(c)
    BY DEF KeepsRemoved
  <1>. QED
    BY <1>2, <1>3, <1>4, <1>5, TableSame

LEMMA TableStill ==
    ASSUME MapInv, TableInv, UNCHANGED <<table, sdk, peerVars, call, crossed>>
    PROVE  TableInv'
  <1>. SUFFICES ASSUME ~crossed' PROVE TableInv'
    BY DEF TableInv
  <1>1. UNCHANGED <<closed, sdkTable, born, owner, addr, shut, pc, inst, at, peer,
                    crossed>>
    BY DEF table, sdk, peerVars, call
  <1>2. \A d \in Callers : KeepsAdded(d) /\ KeepsRemoved(d) /\ KeepsLookup(d)
    <2>1. \A d \in Callers : pc[d] = "exists" => at[d] = Broadcast
      BY <1>1 DEF TableInv, LookingUp
    <2>. QED
      BY <1>1, <2>1 DEF KeepsAdded, KeepsRemoved, KeepsLookup, Added, Removing
  <1>. QED
    BY <1>1, <1>2, TableSame
\* An address comes to be in the table, or was there as the broadcast address.
LEMMA TableAdded ==
    ASSUME TypeOK, MapInv, TableInv, NEW c \in Callers, Others(c),
           pc[c] \in {"exists", "sdk add"}, pc'[c] = "new peer",
           inst'[c] = inst[c], at'[c] = at[c], UNCHANGED <<closed, peerVars, crossed>>,
           sdkTable \subseteq sdkTable', at[c] \in sdkTable',
           at[c] = Broadcast \/ at[c] \notin sdkTable
    PROVE  TableInv'
  <1>. SUFFICES ASSUME ~crossed'
                PROVE  (OpenListed /\ AddedListed /\ RemovingReserved /\ LookingUp)'
    BY DEF TableInv
  <1>1. OpenListed /\ AddedListed /\ RemovingReserved /\ LookingUp
    BY DEF TableInv
  <1>2. closed' = closed /\ owner' = owner /\ addr' = addr /\ born' = born /\ shut' = shut
    BY DEF peerVars
  <1>3. Born' = Born /\ \A p \in Born : Open(p)' <=> Open(p)
    BY <1>2 DEF Born, Open
  <1>4. \A d \in Callers : d # c =>
            /\ Added(d)' => Added(d) /\ inst'[d] = inst[d] /\ at'[d] = at[d]
            /\ Removing(d)' => Removing(d) /\ peer'[d] = peer[d]
            /\ pc'[d] = pc[d] /\ at'[d] = at[d]
    BY DEF Others, Added, Removing
  <1>5. ~Removing(c)' /\ inst[c] \notin closed
    BY DEF Removing, Adding, MapInv, LockInv
  <1>6. OpenListed'
    BY <1>1, <1>2, <1>3 DEF OpenListed
  <1>7. AddedListed'
    BY <1>1, <1>4 DEF AddedListed
  <1>8. RemovingReserved'
    <2>. SUFFICES ASSUME NEW d \in Callers, Removing(d)', addr'[peer'[d]] # Broadcast
                  PROVE  Reserved(d)'
      BY DEF RemovingReserved
    <2>1. d # c
      BY <1>5
    <2>2. Removing(d) /\ peer'[d] = peer[d]
      BY <1>4, <2>1
    <2>3. Reserved(d)
      BY <1>1, <1>2, <2>2 DEF RemovingReserved
    <2>4. inst[c] = owner[peer[d]] => at[c] # addr[peer[d]]
      BY <1>2, <1>5, <2>2, <2>3 DEF Reserved
    <2>5. \A e \in Callers : Added(e)' /\ inst'[e] = owner[peer[d]] => at'[e] # addr[peer[d]]
      BY <1>4, <2>3, <2>4 DEF Reserved
    <2>6. \A e \in Callers : Removing(e)' => Removing(e) /\ peer'[e] = peer[e]
      BY <1>4, <1>5
    <2>. QED
      BY <1>2, <1>3, <2>2, <2>3, <2>5, <2>6 DEF Reserved
  <1>9. LookingUp'
    BY <1>1, <1>4 DEF LookingUp
  <1>. QED
    BY <1>6, <1>7, <1>8, <1>9

\* The table may be lost when no instance is open.
LEMMA TableLost ==
    ASSUME TypeOK, SlotInv, MapInv, TableInv, NEW c \in Callers, Others(c), Holding(c),
           ~Removing(c)', ~Added(c)', pc'[c] # "exists",
           UNCHANGED <<closed, peerVars, crossed>>,
           pc[c] # "close peers"
    PROVE  TableInv'
  <1>. SUFFICES ASSUME ~crossed'
                PROVE  (OpenListed /\ AddedListed /\ RemovingReserved /\ LookingUp)'
    BY DEF TableInv
  <1>1. RemovingReserved /\ LookingUp
    BY DEF TableInv
  <1>2. closed' = closed /\ owner' = owner /\ addr' = addr /\ born' = born /\ shut' = shut
    BY DEF peerVars
  <1>3. Born' = Born /\ \A p \in Born : Open(p)' <=> Open(p)
    BY <1>2 DEF Born, Open
  <1>4. ready \ closed = {} /\ \A d \in Callers : Holding(d) => d = c
    BY NoneOpen DEF SlotInv
  <1>5. \A p \in Born : ~Open(p)
    <2>. SUFFICES ASSUME NEW p \in Born, Open(p) PROVE FALSE
      OBVIOUS
    <2>1. owner[p] \in closed
      BY <1>4 DEF MapInv, EntryInv
    <2>2. PICK d \in Callers : pc[d] = "close peers"
      BY <2>1 DEF MapInv, OpenInv
    <2>. QED
      BY <1>4, <2>2 DEF Holding, Closing
  <1>6. \A d \in Callers : ~Added(d)'
    <2>1. \A d \in Callers : ~Adding(d)
      BY <1>4 DEF MapInv, LockInv
    <2>. QED
      BY <2>1 DEF Others, Added, Adding
  <1>7. \A d \in Callers : Removing(d)' => Removing(d) /\ peer'[d] = peer[d] /\ d # c
    BY DEF Others, Removing
  <1>8. RemovingReserved'
    <2>. SUFFICES ASSUME NEW d \in Callers, Removing(d)', addr'[peer'[d]] # Broadcast
                  PROVE  Reserved(d)'
      BY DEF RemovingReserved
    <2>1. Removing(d) /\ peer'[d] = peer[d]
      BY <1>7
    <2>2. Reserved(d)
      BY <1>1, <1>2, <2>1 DEF RemovingReserved
    <2>3. owner[peer[d]] \in closed
      BY <1>4, <2>1 DEF MapInv, RemovingInv, EntryInv
    <2>. QED
      BY <1>2, <1>3, <1>5, <1>6, <1>7, <2>1, <2>2, <2>3 DEF Reserved
  <1>9. LookingUp'
    BY <1>1 DEF LookingUp, Others
  <1>. QED
    BY <1>3, <1>5, <1>6, <1>8, <1>9 DEF OpenListed, AddedListed
\* A failed AddPeer takes back what is nobody else's.
LEMMA TableUndo ==
    ASSUME TypeOK, SlotInv, MapInv, TableInv, NEW c \in Callers, AddUndo(c)
    PROVE  TableInv'
  <1>. SUFFICES ASSUME ~crossed'
                PROVE  (OpenListed /\ AddedListed /\ RemovingReserved /\ LookingUp)'
    BY DEF TableInv
  <1>1. Others(c) /\ pc'[c] = "idle" /\ pc[c] = "undo"
    BY Returns DEF AddUndo, TypeOK
  <1>2. /\ closed' = closed /\ owner' = owner /\ addr' = addr /\ born' = born
        /\ shut' = shut /\ crossed' = crossed /\ sdkTable' = sdkTable \ {at[c]}
    BY DEF AddUndo, peerVars
  <1>3. Born' = Born /\ \A p \in Born : Open(p)' <=> Open(p)
    BY <1>2 DEF Born, Open
  <1>4. OpenListed /\ AddedListed /\ RemovingReserved /\ LookingUp
    BY <1>2 DEF TableInv
  <1>5. Adding(c) /\ Added(c) /\ inst[c] = active /\ inst[c] \notin closed
        /\ peers[inst[c]][at[c]] = Nil
    BY <1>1, HasSlot DEF Adding, Added, MapInv, LockInv
  <1>6. \A d \in Callers :
            /\ Added(d)' => d # c /\ Added(d) /\ inst'[d] = inst[d] /\ at'[d] = at[d]
            /\ Removing(d)' => Removing(d) /\ peer'[d] = peer[d]
            /\ pc'[d] = "exists" => pc[d] = "exists" /\ at'[d] = at[d]
    <2>1. pc'[c] = "idle"
      BY <1>1
    <2>2. ASSUME NEW d \in Callers, d # c
          PROVE  /\ pc'[d] = pc[d] /\ inst'[d] = inst[d] /\ at'[d] = at[d]
                 /\ peer'[d] = peer[d]
      BY <1>1, <2>2 DEF Others
    <2>. QED
      BY <2>1, <2>2 DEF Added, Removing
  <1>7. \A p \in Born : Open(p) => addr[p] # at[c]
    <2>. SUFFICES ASSUME NEW p \in Born, Open(p), addr[p] = at[c] PROVE FALSE
      OBVIOUS
    <2>1. owner[p] = inst[c] /\ p # Nil
      BY <1>5, HasSlot, BornType DEF MapInv
    <2>2. peers[owner[p]][addr[p]] = p
      BY <1>5, <2>1 DEF MapInv, OpenInv
    <2>. QED
      BY <1>5, <2>1, <2>2
  <1>8. OpenListed'
    BY <1>2, <1>3, <1>4, <1>7 DEF OpenListed
  <1>9. AddedListed'
    <2>1. \A d \in Callers : ~Added(d)'
      <3>. SUFFICES ASSUME NEW d \in Callers, Added(d)' PROVE FALSE
        OBVIOUS
      <3>1. d # c /\ Adding(d)
        BY <1>6 DEF Added, Adding
      <3>2. inst[d] = inst[c]
        BY <1>5, <3>1, HasSlot
      <3>. QED
        BY <1>5, <3>1, <3>2, LockAlone DEF MapInv
    <2>. QED
      BY <2>1 DEF AddedListed
  <1>10. RemovingReserved'
    <2>. SUFFICES ASSUME NEW d \in Callers, Removing(d)', addr'[peer'[d]] # Broadcast
                  PROVE  Reserved(d)'
      BY DEF RemovingReserved
    <2>1. Removing(d) /\ peer'[d] = peer[d]
      BY <1>6
    <2>2. Reserved(d)
      BY <1>2, <1>4, <2>1 DEF RemovingReserved
    <2>3. owner[peer[d]] \notin closed => addr[peer[d]] \in sdkTable'
      <3>1. owner[peer[d]] \notin closed => owner[peer[d]] = inst[c]
        BY <1>5, <2>1, HasSlot
      <3>. QED
        BY <1>2, <1>5, <2>2, <3>1 DEF Reserved
    <2>. QED
      BY <1>2, <1>3, <1>6, <2>1, <2>2, <2>3 DEF Reserved
  <1>11. LookingUp'
    BY <1>4, <1>6 DEF LookingUp
  <1>. QED
    BY <1>8, <1>9, <1>10, <1>11

\* The new peer's address is in the table, and no pending Peer.Close has it.
LEMMA TableNewPeer ==
    ASSUME TypeOK, MapInv, TableInv, NEW c \in Callers, NewPeer(c)
    PROVE  TableInv'
  <1>. DEFINE n == born'
  <1>. SUFFICES ASSUME ~crossed'
                PROVE  (OpenListed /\ AddedListed /\ RemovingReserved /\ LookingUp)'
    BY DEF TableInv
  <1>1. Others(c) /\ pc'[c] = "idle" /\ pc[c] = "new peer"
    BY Returns DEF NewPeer, TypeOK
  <1>2. /\ closed' = closed /\ shut' = shut /\ crossed' = crossed
        /\ sdkTable' = sdkTable /\ n = born + 1
    BY DEF NewPeer, sdk
  <1>3. OpenListed /\ AddedListed /\ RemovingReserved /\ LookingUp
    BY <1>2 DEF TableInv
  <1>4. n \in PeerIds /\ n \notin Born /\ Born' = Born \cup {n}
    <2>1. born < MaxPeers /\ born \in 0 .. MaxPeers
      BY RoomForOne DEF NewPeer
    <2>. QED
      BY <1>2, <2>1, BoundAssumption DEF PeerIds, Born
  <1>5. /\ owner'[n] = inst[c] /\ addr'[n] = at[c]
        /\ \A p \in Born : owner'[p] = owner[p] /\ addr'[p] = addr[p]
    <2>1. \A p \in Born : p \in PeerIds /\ p # n
      BY <1>4, BornType DEF MapInv
    <2>. QED
      BY <1>4, <2>1 DEF NewPeer, TypeOK, PeerType
  <1>. HIDE DEF n
  <1>6. \A p \in Born : Open(p)' <=> Open(p)
    BY <1>2, <1>4 DEF Open
  <1>7. \A d \in Callers :
            /\ Added(d)' => Added(d) /\ inst'[d] = inst[d] /\ at'[d] = at[d]
            /\ Removing(d)' => Removing(d) /\ peer'[d] = peer[d]
            /\ pc'[d] = "exists" => pc[d] = "exists" /\ at'[d] = at[d]
    <2>1. ASSUME NEW d \in Callers, d # c
          PROVE  /\ pc'[d] = pc[d] /\ inst'[d] = inst[d] /\ at'[d] = at[d]
                 /\ peer'[d] = peer[d]
      BY <1>1, <2>1 DEF Others
    <2>. QED
      BY <1>1, <2>1 DEF Added, Removing
  <1>8. Added(c)
    BY <1>1 DEF Added
  <1>9. OpenListed'
    BY <1>2, <1>3, <1>4, <1>5, <1>6, <1>8 DEF OpenListed, AddedListed
  <1>10. AddedListed'
    BY <1>2, <1>3, <1>7 DEF AddedListed
  <1>11. RemovingReserved'
    <2>. SUFFICES ASSUME NEW d \in Callers, Removing(d)', addr'[peer'[d]] # Broadcast
                  PROVE  Reserved(d)'
      BY DEF RemovingReserved
    <2>1. Removing(d) /\ peer'[d] = peer[d] /\ peer[d] \in Born
      BY <1>7 DEF MapInv, RemovingInv
    <2>2. owner'[peer[d]] = owner[peer[d]] /\ addr'[peer[d]] = addr[peer[d]]
      BY <1>5, <2>1
    <2>3. Reserved(d)
      BY <1>3, <2>1, <2>2 DEF RemovingReserved
    <2>4. \A q \in Born' : Open(q)' /\ owner'[q] = owner[peer[d]] => addr'[q] # addr[peer[d]]
      BY <1>4, <1>5, <1>6, <1>8, <2>3 DEF Reserved
    <2>5. \A e \in Callers :
              Removing(e)' => /\ Removing(e) /\ peer'[e] = peer[e]
                              /\ owner'[peer[e]] = owner[peer[e]]
                              /\ addr'[peer[e]] = addr[peer[e]]
      BY <1>5, <1>7 DEF MapInv, RemovingInv
    <2>. QED
      BY <1>2, <1>7, <2>1, <2>2, <2>3, <2>4, <2>5 DEF Reserved
  <1>12. LookingUp'
    BY <1>3, <1>7 DEF LookingUp
  <1>. QED
    BY <1>9, <1>10, <1>11, <1>12
\* A peer that closes leaves its address in the table, and no one else's.
LEMMA TablePeerClose ==
    ASSUME TypeOK, SlotInv, MapInv, TableInv, NEW c \in Callers, NEW p \in PeerIds,
           PeerCloseLocal(c, p)
    PROVE  TableInv'
  <1>. SUFFICES ASSUME ~crossed'
                PROVE  (OpenListed /\ AddedListed /\ RemovingReserved /\ LookingUp)'
    BY DEF TableInv
  <1>1. Others(c) /\ pc'[c] = "unmap" /\ peer'[c] = p /\ pc[c] = "idle"
    BY ClosesPeer DEF PeerCloseLocal
  <1>2. /\ closed' = closed /\ owner' = owner /\ addr' = addr /\ born' = born
        /\ p \in Born /\ p \notin shut /\ shut' = shut \cup {p}
        /\ crossed' = crossed /\ sdkTable' = sdkTable
    BY DEF PeerCloseLocal, table, sdk
  <1>3. Born' = Born /\ Open(p) /\ ~Open(p)'
    BY <1>2 DEF Born, Open
  <1>4. \A q \in Born : Open(q)' => Open(q) /\ q # p
    BY <1>2, <1>3 DEF Open
  <1>5. OpenListed /\ AddedListed /\ RemovingReserved /\ LookingUp
    BY <1>2 DEF TableInv
  <1>6. \A d \in Callers :
            /\ Added(d)' => Added(d) /\ inst'[d] = inst[d] /\ at'[d] = at[d]
            /\ pc'[d] = "exists" => pc[d] = "exists" /\ at'[d] = at[d]
            /\ d # c /\ Removing(d)' => Removing(d) /\ peer'[d] = peer[d]
    <2>1. ASSUME NEW d \in Callers, d # c
          PROVE  /\ pc'[d] = pc[d] /\ inst'[d] = inst[d] /\ at'[d] = at[d]
                 /\ peer'[d] = peer[d]
      BY <1>1, <2>1 DEF Others
    <2>. QED
      BY <1>1, <2>1 DEF Added, Removing
  <1>7. OpenListed'
    BY <1>2, <1>3, <1>4, <1>5 DEF OpenListed
  <1>8. AddedListed'
    BY <1>2, <1>5, <1>6 DEF AddedListed
  <1>9. RemovingReserved'
    <2>. SUFFICES ASSUME NEW d \in Callers, Removing(d)', addr'[peer'[d]] # Broadcast
                  PROVE  Reserved(d)'
      BY DEF RemovingReserved
    <2>1. \A e \in Callers : Removing(e) /\ addr[peer[e]] # Broadcast /\ owner[p] = owner[peer[e]]
              => addr[p] # addr[peer[e]]
      BY <1>2, <1>3, <1>5 DEF RemovingReserved, Reserved
    <2>2. CASE d = c
      <3>1. addr[p] # Broadcast
        BY <1>1, <1>2, <2>2
      <3>2. addr[p] \in sdkTable
        BY <1>2, <1>3, <1>5, <3>1 DEF OpenListed
      <3>3. \A q \in Born : Open(q)' /\ owner[q] = owner[p] => addr[q] # addr[p]
        BY <1>2, <1>3, <1>4, OneOpen
      <3>4. ASSUME NEW e \in Callers, Added(e)', inst'[e] = owner[p]
            PROVE  at'[e] # addr[p]
        <4>1. Adding(e) /\ inst[e] = owner[p] /\ at'[e] = at[e]
          BY <1>6, <3>4 DEF Added, Adding
        <4>2. peers[inst[e]][at[e]] = Nil /\ inst[e] \notin closed
          BY <4>1 DEF MapInv, LockInv
        <4>3. peers[owner[p]][addr[p]] = p /\ p # Nil
          BY <1>2, <1>3, <4>1, <4>2, BornType DEF MapInv, OpenInv
        <4>. QED
          BY <4>1, <4>2, <4>3
      <3>5. \A e \in Callers : /\ e # c /\ Removing(e)' /\ owner[peer'[e]] = owner[p]
                               => addr[peer'[e]] # addr[p]
        BY <1>6, <2>1, <3>1
      <3>. QED
        BY <1>1, <1>2, <1>3, <2>2, <3>2, <3>3, <3>4, <3>5 DEF Reserved
    <2>3. CASE d # c
      <3>1. Removing(d) /\ peer'[d] = peer[d] /\ addr[peer[d]] # Broadcast
        BY <1>2, <1>6, <2>3
      <3>2. Reserved(d)
        BY <1>5, <3>1 DEF RemovingReserved
      <3>3. \A e \in Callers : /\ e # d /\ Removing(e)'
                               /\ owner[peer'[e]] = owner[peer[d]]
                               /\ owner[peer[d]] \notin closed
                               => addr[peer'[e]] # addr[peer[d]]
        <4>1. owner[p] = owner[peer[d]] => addr[p] # addr[peer[d]]
          BY <2>1, <3>1
        <4>2. \A e \in Callers : e = c => peer'[e] = p
          BY <1>1
        <4>3. \A e \in Callers : e # c /\ Removing(e)' => Removing(e) /\ peer'[e] = peer[e]
          BY <1>6
        <4>. QED
          BY <3>2, <4>1, <4>2, <4>3 DEF Reserved
      <3>. QED
        BY <1>2, <1>3, <1>4, <1>6, <3>1, <3>2, <3>3 DEF Reserved
    <2>. QED
      BY <2>2, <2>3
  <1>10. LookingUp'
    BY <1>5, <1>6 DEF LookingUp
  <1>. QED
    BY <1>7, <1>8, <1>9, <1>10

\* The SDK loses an address that nobody of the active instance needs.
LEMMA TableDelete ==
    ASSUME TypeOK, SlotInv, MapInv, TableInv, NEW c \in Callers, SdkDelete(c)
    PROVE  TableInv'
  <1>. DEFINE p == peer[c]
  <1>. SUFFICES ASSUME ~crossed'
                PROVE  (OpenListed /\ AddedListed /\ RemovingReserved /\ LookingUp)'
    BY DEF TableInv
  <1>1. Others(c) /\ pc'[c] = "idle" /\ pc[c] = "sdk delete"
    BY Returns DEF SdkDelete, TypeOK
  <1>2. /\ closed' = closed /\ owner' = owner /\ addr' = addr /\ born' = born
        /\ shut' = shut /\ sdkTable' = sdkTable \ {addr[p]}
        /\ ~crossed /\ active \in {Nil, owner[p]}
    BY DEF SdkDelete, table, peerVars
  <1>3. Born' = Born /\ \A q \in Born : Open(q)' <=> Open(q)
    BY <1>2 DEF Born, Open
  <1>4. OpenListed /\ AddedListed /\ RemovingReserved /\ LookingUp
    BY <1>2 DEF TableInv
  <1>5. Removing(c) /\ (addr[p] # Broadcast => Reserved(c))
    BY <1>1, <1>4 DEF Removing, RemovingReserved
  <1>6. \A d \in Callers :
            /\ Added(d)' => Added(d) /\ inst'[d] = inst[d] /\ at'[d] = at[d]
            /\ Removing(d)' => d # c /\ Removing(d) /\ peer'[d] = peer[d]
            /\ pc'[d] = "exists" => pc[d] = "exists" /\ at'[d] = at[d]
    <2>1. ASSUME NEW d \in Callers, d # c
          PROVE  /\ pc'[d] = pc[d] /\ inst'[d] = inst[d] /\ at'[d] = at[d]
                 /\ peer'[d] = peer[d]
      BY <1>1, <2>1 DEF Others
    <2>. QED
      BY <1>1, <2>1 DEF Added, Removing
  <1>. HIDE DEF p
  <1>7. OpenListed'
    <2>1. ASSUME NEW q \in Born, Open(q), addr[q] # Broadcast PROVE addr[q] # addr[p]
      <3>1. owner[q] = owner[p]
        BY <1>2, <2>1, HasSlot
      <3>. QED
        BY <1>5, <2>1, <3>1 DEF Reserved, p
    <2>. QED
      BY <1>2, <1>3, <1>4, <2>1 DEF OpenListed
  <1>8. AddedListed'
    <2>1. ASSUME NEW d \in Callers, Added(d), at[d] # Broadcast PROVE at[d] # addr[p]
      <3>1. inst[d] = owner[p]
        BY <1>2, <2>1, HasSlot DEF Added, Adding
      <3>. QED
        BY <1>5, <2>1, <3>1 DEF Reserved, p
    <2>. QED
      BY <1>2, <1>4, <1>6, <2>1 DEF AddedListed
  <1>9. RemovingReserved'
    <2>. SUFFICES ASSUME NEW d \in Callers, Removing(d)', addr'[peer'[d]] # Broadcast
                  PROVE  Reserved(d)'
      BY DEF RemovingReserved
    <2>1. d # c /\ Removing(d) /\ peer'[d] = peer[d] /\ addr[peer[d]] # Broadcast
      BY <1>2, <1>6
    <2>2. Reserved(d)
      BY <1>4, <2>1 DEF RemovingReserved
    <2>3. owner[peer[d]] \notin closed => addr[peer[d]] \in sdkTable'
      <3>. SUFFICES ASSUME owner[peer[d]] \notin closed PROVE addr[peer[d]] \in sdkTable'
        OBVIOUS
      <3>1. owner[peer[d]] = owner[p]
        BY <1>2, <2>1, HasSlot
      <3>2. addr[peer[d]] # addr[p]
        BY <1>5, <2>1, <3>1 DEF Reserved, p
      <3>. QED
        BY <1>2, <2>2, <3>2 DEF Reserved
    <2>. QED
      BY <1>2, <1>3, <1>6, <2>1, <2>2, <2>3 DEF Reserved
  <1>10. LookingUp'
    BY <1>4, <1>6 DEF LookingUp
  <1>. QED
    BY <1>7, <1>8, <1>9, <1>10
LEMMA TableStep ==
    ASSUME TypeOK, SlotInv, MapInv, TableInv, [Next]_vars
    PROVE  TableInv'
  <1>. SUFFICES ASSUME ~crossed' PROVE TableInv'
    BY DEF TableInv
  <1>1. ASSUME NEW c \in Callers, NewClaim(c) PROVE TableInv'
    <2>1. Others(c) /\ pc'[c] = "init"
      BY <1>1, Claims
    <2>2. UNCHANGED <<crossed, sdkTable, closed, born, owner, addr, shut>>
      BY <1>1 DEF NewClaim, table, sdk, peerVars
    <2>3. KeepsAdded(c) /\ ~Removing(c)' /\ KeepsLookup(c)
      BY <2>1 DEF KeepsAdded, KeepsLookup, Added, Removing
    <2>. QED
      BY <2>1, <2>2, <2>3, TableAway
  <1>2. ASSUME NEW c \in Callers, InitOk(c) \/ InitRelease(c) \/ CloseFree(c)
        PROVE  TableInv'
    <2>1. Others(c) /\ pc'[c] = "idle"
      BY <1>2, Returns DEF TypeOK, InitOk, InitRelease, CloseFree
    <2>2. UNCHANGED <<crossed, sdkTable, closed, born, owner, addr, shut>>
      BY <1>2 DEF InitOk, InitRelease, CloseFree, table, sdk, peerVars
    <2>3. KeepsAdded(c) /\ ~Removing(c)' /\ KeepsLookup(c)
      BY <2>1 DEF KeepsAdded, KeepsLookup, Added, Removing
    <2>. QED
      BY <2>1, <2>2, <2>3, TableAway
  <1>3. ASSUME NEW c \in Callers, InitFails(c) \/ CloseDeinit(c)
        PROVE  TableInv'
    <2>1. /\ Others(c) /\ pc'[c] \in {"release", "free"}
          /\ pc[c] \in {"init", "deinit"}
      BY <1>3, Moves DEF TypeOK, InitFails, CloseDeinit, Steps
    <2>2. UNCHANGED <<closed, peerVars, crossed>>
      BY <1>3 DEF InitFails, CloseDeinit, table
    <2>3. Holding(c) /\ ~Removing(c)' /\ ~Added(c)'
      BY <2>1 DEF Holding, Claiming, Closing, Removing, Added
    <2>. QED
      BY <2>1, <2>2, <2>3, TableLost
  <1>4. ASSUME NEW c \in Callers, NEW i \in Instances, CloseBegin(c, i)
        PROVE  TableInv'
    <2>1. Others(c) /\ pc'[c] = "close peers"
      BY <1>4, ClosesInstance
    <2>2. /\ UNCHANGED <<crossed, sdkTable, born, owner, addr, shut>>
          /\ closed \subseteq closed'
      BY <1>4 DEF CloseBegin, sdk, peerVars
    <2>3. KeepsAdded(c) /\ ~Removing(c)' /\ KeepsLookup(c)
      BY <2>1 DEF KeepsAdded, KeepsLookup, Added, Removing
    <2>. QED
      BY <2>1, <2>2, <2>3, TableAway
  <1>5. ASSUME NEW c \in Callers, CloseNextPeer(c) PROVE TableInv'
    <2>1. Others(c) /\ pc'[c] \in {"close peers", "deinit"} /\ shut \subseteq shut'
      BY <1>5, ClosesNextPeer
    <2>2. UNCHANGED <<crossed, sdkTable, closed, born, owner, addr>>
      BY <1>5 DEF CloseNextPeer, table, sdk
    <2>3. KeepsAdded(c) /\ ~Removing(c)' /\ KeepsLookup(c)
      BY <2>1 DEF KeepsAdded, KeepsLookup, Added, Removing
    <2>. QED
      BY <2>1, <2>2, <2>3, TableAway
  <1>6. ASSUME NEW c \in Callers, NEW i \in Instances, NEW a \in Addresses,
               AddBegin(c, i, a)
        PROVE  TableInv'
    <2>1. /\ Others(c) /\ at'[c] = a
          /\ pc'[c] = IF a = Broadcast THEN "exists" ELSE "sdk add"
      BY <1>6, Adds
    <2>2. UNCHANGED <<crossed, sdkTable, closed, born, owner, addr, shut>>
      BY <1>6 DEF AddBegin, sdk, peerVars
    <2>3. KeepsAdded(c) /\ ~Removing(c)' /\ KeepsLookup(c)
      BY <2>1 DEF KeepsAdded, KeepsLookup, Added, Removing
    <2>. QED
      BY <2>1, <2>2, <2>3, TableAway
  <1>7. ASSUME NEW c \in Callers, AddExists(c) PROVE TableInv'
    <2>1. /\ Others(c) /\ inst'[c] = inst[c] /\ at'[c] = at[c] /\ pc[c] = "exists"
          /\ pc'[c] = IF at[c] \in sdkTable THEN "new peer" ELSE "sdk add"
      BY <1>7, Moves DEF TypeOK, AddExists, Steps
    <2>2. UNCHANGED <<crossed, sdkTable, closed, born, owner, addr, shut, peerVars>>
      BY <1>7 DEF AddExists, table, sdk, peerVars
    <2>3. CASE at[c] \in sdkTable
      <3>1. at[c] = Broadcast
        BY <2>1, <2>2 DEF TableInv, LookingUp
      <3>. QED
        BY <2>1, <2>2, <2>3, <3>1, TableAdded
    <2>4. CASE at[c] \notin sdkTable
      <3>1. KeepsAdded(c) /\ ~Removing(c)' /\ KeepsLookup(c)
        BY <2>1, <2>4 DEF KeepsAdded, KeepsLookup, Added, Removing
      <3>. QED
        BY <2>1, <2>2, <3>1, TableAway
    <2>. QED
      BY <2>3, <2>4
  <1>8. ASSUME NEW c \in Callers, SdkAddOk(c) PROVE TableInv'
    <2>1. /\ Others(c) /\ inst'[c] = inst[c] /\ at'[c] = at[c] /\ pc[c] = "sdk add"
          /\ pc'[c] = "new peer"
      BY <1>8, Moves DEF TypeOK, SdkAddOk, Steps
    <2>2. UNCHANGED <<closed, peerVars, crossed>>
      BY <1>8 DEF SdkAddOk, table
    <2>3. at[c] \notin sdkTable /\ sdkTable' = sdkTable \cup {at[c]}
      BY <1>8 DEF SdkAddOk
    <2>. QED
      BY <2>1, <2>2, <2>3, TableAdded
  <1>9. ASSUME NEW c \in Callers, SdkAddFails(c) PROVE TableInv'
    <2>1. Others(c) /\ pc'[c] = "idle"
      BY <1>9, Returns DEF TypeOK, SdkAddFails
    <2>2. UNCHANGED <<crossed, sdkTable, closed, born, owner, addr, shut>>
      BY <1>9 DEF SdkAddFails, sdk, peerVars
    <2>3. KeepsAdded(c) /\ ~Removing(c)' /\ KeepsLookup(c)
      BY <2>1 DEF KeepsAdded, KeepsLookup, Added, Removing
    <2>. QED
      BY <2>1, <2>2, <2>3, TableAway
  <1>10. ASSUME NEW c \in Callers, NewPeerFails(c) PROVE TableInv'
    <2>1. /\ Others(c) /\ pc[c] = "new peer"
          /\ \/ pc'[c] = "idle"
             \/ pc'[c] = "undo" /\ inst'[c] = inst[c] /\ at'[c] = at[c]
      BY <1>10, Returns, Moves DEF TypeOK, NewPeerFails, Steps
    <2>2. UNCHANGED <<crossed, sdkTable, closed, born, owner, addr, shut>>
      BY <1>10 DEF NewPeerFails, sdk, peerVars
    <2>3. KeepsAdded(c) /\ ~Removing(c)' /\ KeepsLookup(c)
      BY <2>1 DEF KeepsAdded, KeepsLookup, Added, Removing
    <2>. QED
      BY <2>1, <2>2, <2>3, TableAway
  <1>11. ASSUME NEW c \in Callers, PeerUnmap(c) PROVE TableInv'
    <2>1. /\ Others(c) /\ pc[c] = "unmap" /\ pc'[c] = "sdk delete"
          /\ peer'[c] = peer[c]
      BY <1>11, Moves DEF TypeOK, PeerUnmap, Steps
    <2>2. UNCHANGED <<crossed, sdkTable, closed, born, owner, addr, shut>>
      BY <1>11 DEF PeerUnmap, sdk, peerVars
    <2>3. KeepsAdded(c) /\ KeepsRemoved(c) /\ KeepsLookup(c)
      BY <2>1 DEF KeepsAdded, KeepsRemoved, KeepsLookup, Added, Removing
    <2>. QED
      BY <2>1, <2>2, <2>3, TableAway
  <1>12. CASE Routing \/ (\E p \in PeerIds : ReadFrom(p)) \/ UNCHANGED vars
             \/ \E src \in Named, all \in BOOLEAN : Receive(src, all)
    <2>1. UNCHANGED <<table, sdk, peerVars, call, crossed>>
      BY <1>12 DEF Routing, Route, EnqueueCheck, EnqueuePut, ReadFrom, Receive, vars
    <2>. QED
      BY <2>1, TableStill
  <1>. QED
    BY <1>1, <1>2, <1>3, <1>4, <1>5, <1>6, <1>7, <1>8, <1>9, <1>10, <1>11, <1>12,
       TableUndo, TableNewPeer, TablePeerClose, TableDelete
    DEF Next, Proceed

-----------------------------------------------------------------------------
(* A packet on its way                                                     *)

\* The peers that were closed when the packet came are closed still, and the one
\* it goes to next is none of them.
RecvInv ==
    /\ recv.shutThen \subseteq shut
    /\ recv.step = "put" => Head(recv.to) \notin recv.shutThen

LEMMA ShutGrows == ASSUME TypeOK, [Next]_vars PROVE shut \subseteq shut'
  <1>1. ASSUME NEW c \in Callers, Proceed(c) PROVE shut \subseteq shut'
    <2>1. CASE CloseNextPeer(c)
      BY <2>1 DEF CloseNextPeer
    <2>. QED
      BY <1>1, <2>1 DEF Proceed, InitOk, InitFails, InitRelease, CloseDeinit, CloseFree,
         AddExists, SdkAddOk, SdkAddFails, NewPeer, NewPeerFails, AddUndo, PeerUnmap,
         SdkDelete, peerVars
  <1>. QED
    BY <1>1 DEF Next, Routing, NewClaim, CloseBegin, AddBegin, PeerCloseLocal, Receive,
       Route, EnqueueCheck, EnqueuePut, ReadFrom, vars, peerVars

LEMMA RecvKept ==
    ASSUME RecvInv, recv' = recv, shut \subseteq shut'
    PROVE  RecvInv'
  BY DEF RecvInv

LEMMA RouteToRecv ==
    ASSUME TypeOK, RecvInv, shut \subseteq shut', NEW to, recv' = RouteTo(to)
    PROVE  RecvInv'
  BY DEF TypeOK, RoutingType, RecvInv, RouteTo, NotRouting

LEMMA RecvStep ==
    ASSUME TypeOK, RecvInv, [Next]_vars
    PROVE  RecvInv'
  <1>1. shut \subseteq shut'
    BY ShutGrows
  <1>2. ASSUME NEW src \in Named, NEW all \in BOOLEAN, Receive(src, all)
        PROVE  RecvInv'
    BY <1>1, <1>2 DEF Receive, RecvInv
  <1>3. CASE Route
    BY <1>1, <1>3, RouteToRecv DEF Route, RouteTo
  <1>4. CASE EnqueueCheck
    <2>1. CASE Head(recv.to) \in shut
      BY <1>1, <1>4, <2>1, RouteToRecv DEF EnqueueCheck
    <2>2. CASE Head(recv.to) \notin shut
      BY <1>1, <1>4, <2>2 DEF EnqueueCheck, RecvInv, TypeOK, RoutingType
    <2>. QED
      BY <2>1, <2>2
  <1>5. CASE EnqueuePut
    BY <1>1, <1>5, RouteToRecv DEF EnqueuePut
  <1>6. CASE recv' = recv
    BY <1>1, <1>6, RecvKept
  <1>7. ASSUME NEW c \in Callers, Proceed(c) PROVE recv' = recv
    BY <1>7 DEF Proceed, InitOk, InitFails, InitRelease, CloseNextPeer, CloseDeinit,
       CloseFree, AddExists, SdkAddOk, SdkAddFails, NewPeer, NewPeerFails, AddUndo,
       PeerUnmap, SdkDelete, routing
  <1>. QED
    BY <1>2, <1>3, <1>4, <1>5, <1>6, <1>7
    DEF Next, Routing, NewClaim, CloseBegin, AddBegin, PeerCloseLocal, ReadFrom, vars,
        routing

-----------------------------------------------------------------------------
(* A packet goes where it should, once and in order                        *)

Fits(p, packet) ==
    IF addr[p] = Broadcast THEN packet.all ELSE packet.src = addr[p]
\* Everything in p's queue came before packet n.
Below(p, n) == \A k \in 1 .. Len(rx[p]) : rx[p][k].n < n
Increasing(s) == \A k \in 2 .. Len(s) : s[k - 1].n < s[k].n
QueueRight(p) ==
    /\ \A k \in 1 .. Len(rx[p]) : Fits(p, rx[p][k])
    /\ Below(p, heard + 1) /\ Increasing(rx[p])

\* The peers a packet still goes to are peers it fits, each once, and none has
\* had it.
Goal(to, packet) ==
    /\ \A k \in 1 .. Len(to) :
           to[k] \in Born /\ Fits(to[k], packet) /\ Below(to[k], packet.n)
    /\ \A j, k \in 1 .. Len(to) : to[j] = to[k] => j = k

UnbornEmpty == \A p \in PeerIds : p \notin Born => rx[p] = <<>>
QueuesRight == \A p \in Born : QueueRight(p)
PacketRight ==
    recv.step # "idle" =>
        /\ recv.packet.n = heard /\ recv.packet.src \in Named
        /\ recv.step = "route" => \A p \in Born : Below(p, heard)
        /\ recv.step # "route" => Goal(recv.to, recv.packet)
RouteInv == UnbornEmpty /\ QueuesRight /\ PacketRight

LEMMA BornInIds == ASSUME TypeOK PROVE Born \subseteq PeerIds
  BY BoundAssumption DEF TypeOK, PeerType, Born, PeerIds

\* Calls that leave the queues and the packet alone, and make no peer.
LEMMA RouteSame ==
    ASSUME RouteInv, UNCHANGED <<rx, routing, born, addr>>
    PROVE  RouteInv'
  BY DEF RouteInv, UnbornEmpty, QueuesRight, PacketRight, QueueRight, Goal, Fits,
         Below, Increasing, Born, routing

\* A new peer has an empty queue, and the others keep their addresses.
LEMMA RouteNewPeer ==
    ASSUME TypeOK, RouteInv, NEW c \in Callers, NewPeer(c)
    PROVE  RouteInv'
  <1>1. /\ born' = born + 1 /\ born \in Nat /\ born + 1 <= MaxPeers
        /\ UNCHANGED <<rx, heard, recv>>
    <2>1. born \in 0 .. MaxPeers /\ heard \in 0 .. MaxPeers /\ born + heard < MaxPeers
      BY DEF NewPeer, TypeOK, PeerType, RoutingType
    <2>2. born \in Nat /\ born + 1 <= MaxPeers
      BY ONLY <2>1, BoundAssumption
    <2>. QED
      BY <2>2 DEF NewPeer, routing
  <1>2. \A p \in Born : p \in Born' /\ p \in PeerIds /\ addr'[p] = addr[p]
    <2>. TAKE p \in Born
    <2>1. p \in Nat /\ 1 <= p /\ p <= born
      BY <1>1 DEF Born
    <2>2. p \in Born' /\ p \in PeerIds /\ p # born'
      BY <1>1, <2>1, BoundAssumption DEF Born, PeerIds
    <2>3. addr' = [addr EXCEPT ![born'] = at[c]] /\ addr \in [PeerIds -> Addresses]
      BY DEF NewPeer, TypeOK, PeerType
    <2>. QED
      BY <2>2, <2>3
  <1>3. \A p \in Born' : p \in Born \/ (p = born' /\ p \in PeerIds /\ p \notin Born)
    BY <1>1, BoundAssumption DEF Born, PeerIds
  <1>4. UnbornEmpty'
    BY <1>1, <1>2 DEF RouteInv, UnbornEmpty, PeerIds
  <1>5. \A p \in Born' : p \notin Born => rx'[p] = <<>>
    BY <1>1, <1>3 DEF RouteInv, UnbornEmpty
  <1>6. \A packet : \A p \in Born : Fits(p, packet)' = Fits(p, packet)
    BY <1>2 DEF Fits
  <1>7. \A p, n : Below(p, n)' = Below(p, n)
    BY <1>1 DEF Below
  <1>8. QueuesRight'
    <2>1. ASSUME NEW p \in Born PROVE QueueRight(p)'
      BY <1>1, <1>6, <1>7, <2>1 DEF RouteInv, QueuesRight, QueueRight
    <2>2. ASSUME NEW p \in Born', p \notin Born PROVE QueueRight(p)'
      <3>1. rx'[p] = <<>> /\ Len(rx'[p]) = 0
        BY <1>5, <2>2
      <3>. QED
        BY <3>1 DEF QueueRight, Below, Increasing
    <2>. QED
      BY <1>3, <2>1, <2>2 DEF QueuesRight
  <1>9. PacketRight'
    <2>1. recv.step = "route" => \A p \in Born' : Below(p, heard)'
      <3>1. ASSUME NEW p \in Born', p \notin Born PROVE Below(p, heard)'
        <4>1. rx'[p] = <<>> /\ Len(rx'[p]) = 0
          BY <1>5, <3>1
        <4>. QED
          BY <4>1 DEF Below
      <3>. QED
        BY <1>1, <1>3, <1>7, <3>1 DEF RouteInv, PacketRight
    <2>2. Goal(recv.to, recv.packet) => Goal(recv.to, recv.packet)'
      BY <1>1, <1>2, <1>6, <1>7 DEF Goal
    <2>. QED
      BY <1>1, <2>1, <2>2 DEF RouteInv, PacketRight
  <1>. QED
    BY <1>4, <1>8, <1>9 DEF RouteInv

\* The packet goes on to peers that are a goal for it.
LEMMA RouteOn ==
    ASSUME TypeOK, RouteInv, recv.step # "idle", NEW to, recv' = RouteTo(to),
           Goal(to, recv.packet), UNCHANGED <<rx, heard, born, addr>>
    PROVE  RouteInv'
  <1>1. UnbornEmpty' /\ QueuesRight'
    BY DEF RouteInv, UnbornEmpty, QueuesRight, QueueRight, Fits, Below, Increasing, Born
  <1>2. CASE to = <<>>
    BY <1>1, <1>2 DEF RouteInv, PacketRight, RouteTo, NotRouting
  <1>3. CASE to # <<>>
    <2>1. /\ recv'.step = "check" /\ recv'.to = to /\ recv'.packet = recv.packet
      BY <1>3 DEF RouteTo, TypeOK, RoutingType
    <2>. PICK packet : packet = recv.packet
      OBVIOUS
    <2>2. Goal(to, packet) /\ rx' = rx /\ Born' = Born /\ addr' = addr
      BY DEF Born
    <2>3. Goal(to, packet)'
      BY <2>2 DEF Goal, Fits, Below
    <2>4. Goal(recv.to, recv.packet)'
      BY <2>1, <2>3 DEF Goal
    <2>5. recv.packet.n = heard /\ recv.packet.src \in Named
      BY DEF RouteInv, PacketRight
    <2>6. PacketRight'
      BY <2>1, <2>4, <2>5 DEF PacketRight
    <2>. QED
      BY <1>1, <2>6 DEF RouteInv
  <1>. QED
    BY <1>2, <1>3

\* The peers the map gives: the one of the source and the broadcast peer differ.
LEMMA TargetsGoal ==
    ASSUME TypeOK, MapInv, RouteInv, recv.step = "route"
    PROVE  Goal(Targets(recv.inst, recv.packet), recv.packet)
  <1>. DEFINE one == peers[recv.inst][recv.packet.src]
              all == IF recv.packet.all THEN peers[recv.inst][Broadcast] ELSE Nil
  <1>1. /\ recv.inst \in Instances /\ recv.packet.src \in Named
        /\ recv.packet.n = heard /\ \A p \in Born : Below(p, heard)
    BY DEF TypeOK, RoutingType, RouteInv, PacketRight
  <1>2. recv.packet.src # Broadcast /\ recv.packet.src \in Addresses
        /\ Broadcast \in Addresses
    BY <1>1, AddressAssumption DEF Addresses
  <1>3. one # Nil => one \in Born /\ addr[one] = recv.packet.src
    BY <1>1, <1>2 DEF MapInv, EntryInv
  <1>4. all # Nil => all \in Born /\ addr[all] = Broadcast /\ recv.packet.all
    BY <1>1, <1>2 DEF MapInv, EntryInv
  <1>5. Targets(recv.inst, recv.packet) = Present(one) \o Present(all)
    BY DEF Targets, Present
  <1>6. /\ one # Nil => Fits(one, recv.packet) /\ Below(one, recv.packet.n)
        /\ all # Nil => Fits(all, recv.packet) /\ Below(all, recv.packet.n)
        /\ one # Nil /\ all # Nil => one # all
    BY <1>1, <1>2, <1>3, <1>4 DEF Fits
  <1>. HIDE DEF one, all
  <1>7. CASE one = Nil /\ all = Nil
    <2>1. Present(one) \o Present(all) = <<>>
      BY <1>7 DEF Present
    <2>. QED
      BY <1>5, <2>1 DEF Goal
  <1>8. CASE one # Nil /\ all = Nil
    <2>1. Present(one) \o Present(all) = <<one>>
      BY <1>8 DEF Present
    <2>. QED
      BY <1>3, <1>5, <1>6, <1>8, <2>1 DEF Goal
  <1>9. CASE one = Nil /\ all # Nil
    <2>1. Present(one) \o Present(all) = <<all>>
      BY <1>9 DEF Present
    <2>. QED
      BY <1>4, <1>5, <1>6, <1>9, <2>1 DEF Goal
  <1>10. CASE one # Nil /\ all # Nil
    <2>1. Present(one) = <<one>> /\ Present(all) = <<all>>
      BY <1>10 DEF Present
    <2>2. /\ Len(<<one>> \o <<all>>) = 2 /\ (<<one>> \o <<all>>)[1] = one
          /\ (<<one>> \o <<all>>)[2] = all
      BY <1>3, <1>4, <1>10, ConcatProperties
    <2>3. \A k \in 1 .. 2 : k = 1 \/ k = 2
      OBVIOUS
    <2>. QED
      BY <1>3, <1>4, <1>5, <1>6, <1>10, <2>1, <2>2, <2>3 DEF Goal
  <1>. QED
    BY <1>7, <1>8, <1>9, <1>10

LEMMA GoalTail ==
    ASSUME NEW to \in Seq(PeerIds), to # <<>>, NEW packet, Goal(to, packet)
    PROVE  Goal(Tail(to), packet)
  <1>. DEFINE rest == Tail(to)
  <1>1. /\ Len(rest) = Len(to) - 1 /\ Len(to) \in Nat
        /\ \A k \in 1 .. Len(rest) : rest[k] = to[k + 1]
    BY HeadTailProperties
  <1>2. \A k \in 1 .. Len(rest) : k + 1 \in 1 .. Len(to)
    BY <1>1
  <1>. HIDE DEF rest
  <1>3. Goal(rest, packet)
    BY <1>1, <1>2 DEF Goal
  <1>. QED
    BY <1>3 DEF rest

\* The packet enters the queue of the next peer, or is lost at a full one.
LEMMA RoutePut ==
    ASSUME TypeOK, RouteInv, EnqueuePut
    PROVE  RouteInv'
  <1>. PICK p, rest, packet :
              p = Head(recv.to) /\ rest = Tail(recv.to) /\ packet = recv.packet
    OBVIOUS
  <1>1. /\ recv.step = "put" /\ recv' = RouteTo(rest)
        /\ UNCHANGED <<heard, born, addr>> /\ Born' = Born
    BY DEF EnqueuePut, peerVars, Born
  <1>2. recv.to \in Seq(PeerIds) /\ recv.to # <<>> /\ packet \in Packet
    BY <1>1 DEF TypeOK, RoutingType
  <1>3. Goal(recv.to, packet) /\ packet.n = heard
        /\ packet.src \in Named /\ heard \in Nat
    BY <1>1 DEF RouteInv, PacketRight, TypeOK, RoutingType
  <1>4. /\ Len(recv.to) \in Nat \ {0} /\ p = recv.to[1] /\ p \in PeerIds
        /\ Len(rest) = Len(recv.to) - 1
        /\ \A k \in 1 .. Len(rest) : rest[k] = recv.to[k + 1]
    BY <1>2, HeadTailProperties, EmptySeq, LenProperties
  <1>5. p \in Born /\ Fits(p, packet) /\ Below(p, heard)
    BY <1>3, <1>4 DEF Goal
  <1>6. \A q \in PeerIds : q # p => rx'[q] = rx[q]
    BY DEF EnqueuePut, TypeOK
  <1>7. rx'[p] = rx[p] \/ rx'[p] = Append(rx[p], packet)
    BY <1>4 DEF EnqueuePut, TypeOK
  <1>8. rx[p] \in Seq(Packet) /\ Born \subseteq PeerIds
    BY <1>4, BornInIds DEF TypeOK
  <1>9. Goal(rest, packet)
    BY <1>2, <1>3, GoalTail
  <1>10. \A k \in 1 .. Len(rest) : rest[k] # p
    BY <1>3, <1>4 DEF Goal
  <1>11. UnbornEmpty'
    BY <1>1, <1>5, <1>6 DEF RouteInv, UnbornEmpty
  <1>12. \A q, m : Fits(q, m)' <=> Fits(q, m)
    BY <1>1 DEF Fits
  <1>13. ASSUME NEW q \in Born, rx'[q] = rx[q] PROVE QueueRight(q)'
    <2>1. QueueRight(q)
      BY DEF RouteInv, QueuesRight
    <2>2. \A k \in 1 .. Len(rx[q]) : Fits(q, rx[q][k])'
      BY <1>1, <1>13, <2>1 DEF QueueRight, Fits
    <2>3. \A k \in 1 .. Len(rx'[q]) : Fits(q, rx[q][k])'
      BY <1>1, <1>13, <2>1 DEF QueueRight, Fits
    <2>. QED
      BY <1>1, <1>13, <2>1, <2>3 DEF QueueRight, Below
  <1>14. ASSUME rx'[p] = Append(rx[p], packet) PROVE QueueRight(p)'
    <2>1. /\ Len(rx'[p]) = Len(rx[p]) + 1 /\ Len(rx[p]) \in Nat
          /\ \A k \in 1 .. Len(rx[p]) : rx'[p][k] = rx[p][k]
          /\ rx'[p][Len(rx[p]) + 1] = packet
      BY <1>2, <1>8, <1>14, AppendProperties, LenProperties
    <2>2. \A k \in 1 .. Len(rx'[p]) : k \in 1 .. Len(rx[p]) \/ k = Len(rx[p]) + 1
      BY <2>1
    <2>3. QueueRight(p)
      BY <1>5 DEF RouteInv, QueuesRight
    <2>4. \A k \in 1 .. Len(rx'[p]) : Fits(p, rx[p][k])'
      BY <1>1, <1>5, <2>1, <2>2, <2>3 DEF QueueRight, Fits
    <2>5. Below(p, heard + 1)'
      <3>. SUFFICES ASSUME NEW k \in 1 .. Len(rx'[p])
                    PROVE  rx'[p][k].n < heard + 1
        BY <1>1 DEF Below
      <3>1. CASE k \in 1 .. Len(rx[p])
        BY <2>1, <2>3, <3>1 DEF QueueRight, Below
      <3>2. CASE k = Len(rx[p]) + 1
        BY <1>3, <2>1, <3>2
      <3>. QED
        BY <2>2, <3>1, <3>2
    <2>6. Increasing(rx[p])'
      <3>. SUFFICES ASSUME NEW k \in 2 .. Len(rx'[p])
                    PROVE  rx'[p][k - 1].n < rx'[p][k].n
        BY DEF Increasing
      <3>1. CASE k \in 1 .. Len(rx[p])
        <4>1. k \in 2 .. Len(rx[p]) /\ k - 1 \in 1 .. Len(rx[p])
          BY <2>1, <3>1
        <4>2. rx'[p][k - 1] = rx[p][k - 1] /\ rx'[p][k] = rx[p][k]
          BY <2>1, <3>1, <4>1
        <4>3. rx[p][k - 1].n < rx[p][k].n
          BY <2>3, <4>1 DEF QueueRight, Increasing
        <4>. QED
          BY <4>2, <4>3
      <3>2. CASE k = Len(rx[p]) + 1
        <4>1. k - 1 \in 1 .. Len(rx[p])
          BY <2>1, <3>2
        <4>. QED
          BY <1>3, <1>5, <2>1, <3>2, <4>1 DEF Below
      <3>. QED
        BY <2>1, <2>2, <3>1, <3>2
    <2>. QED
      BY <2>4, <2>5, <2>6 DEF QueueRight
  <1>15. QueuesRight'
    BY <1>1, <1>6, <1>7, <1>8, <1>13, <1>14 DEF QueuesRight
  <1>16. Goal(rest, packet)'
    <2>1. \A k \in 1 .. Len(rest) :
              /\ rest[k] \in Born /\ Fits(rest[k], packet)
              /\ Below(rest[k], packet.n) /\ rx'[rest[k]] = rx[rest[k]]
      BY <1>6, <1>8, <1>9, <1>10 DEF Goal
    <2>2. \A k \in 1 .. Len(rest) :
              /\ rest[k] \in Born' /\ Fits(rest[k], packet)'
              /\ Below(rest[k], packet.n)'
      BY <1>1, <1>12, <2>1 DEF Below
    <2>. QED
      BY <1>9, <2>2 DEF Goal
  <1>17. PacketRight'
    <2>1. CASE rest = <<>>
      BY <1>1, <2>1 DEF PacketRight, RouteTo, NotRouting
    <2>2. CASE rest # <<>>
      <3>1. recv'.step = "check" /\ recv'.to = rest /\ recv'.packet = packet
        BY <1>1, <2>2 DEF RouteTo, TypeOK, RoutingType
      <3>2. Goal(recv.to, recv.packet)'
        BY <1>16, <3>1 DEF Goal
      <3>. QED
        BY <1>1, <1>3, <3>1, <3>2 DEF PacketRight
    <2>. QED
      BY <2>1, <2>2
  <1>. QED
    BY <1>11, <1>15, <1>17 DEF RouteInv

LEMMA RouteReceive ==
    ASSUME TypeOK, RouteInv, NEW src \in Named, NEW all \in BOOLEAN,
           Receive(src, all)
    PROVE  RouteInv'
  <1>1. /\ heard' = heard + 1 /\ recv'.step = "route"
        /\ recv'.packet.n = heard' /\ recv'.packet.src = src
        /\ UNCHANGED <<rx, born, addr>> /\ heard \in Nat
    BY DEF Receive, TypeOK, RoutingType, peerVars
  <1>2. Born' = Born /\ \A p : Below(p, heard)' <=> Below(p, heard + 1)
    BY <1>1 DEF Born, Below
  <1>3. UnbornEmpty'
    BY <1>1, <1>2 DEF RouteInv, UnbornEmpty
  <1>4. QueuesRight'
    <2>. SUFFICES ASSUME NEW p \in Born PROVE QueueRight(p)'
      BY <1>2 DEF QueuesRight
    <2>1. QueueRight(p) /\ rx[p] \in Seq(Packet)
      BY BornInIds DEF RouteInv, QueuesRight, TypeOK
    <2>2. \A k \in 1 .. Len(rx[p]) : rx[p][k].n \in Nat
      <3>. TAKE k \in 1 .. Len(rx[p])
      <3>1. rx[p][k] \in Packet
        BY <2>1, ElementOfSeq
      <3>. QED
        BY <3>1 DEF Packet
    <2>3. Below(p, heard + 1)'
      BY <1>1, <2>1, <2>2 DEF QueueRight, Below
    <2>. QED
      BY <1>1, <2>1, <2>3 DEF QueueRight, Fits, Increasing
  <1>5. PacketRight'
    <2>1. \A p \in Born : Below(p, heard + 1)
      BY DEF RouteInv, QueuesRight, QueueRight
    <2>. QED
      BY <1>1, <1>2, <2>1 DEF PacketRight
  <1>. QED
    BY <1>3, <1>4, <1>5 DEF RouteInv

LEMMA RouteRead ==
    ASSUME TypeOK, RouteInv, NEW q \in PeerIds, ReadFrom(q)
    PROVE  RouteInv'
  <1>1. /\ q \in Born /\ rx[q] # <<>> /\ rx[q] \in Seq(Packet)
        /\ UNCHANGED <<recv, heard, born, addr>>
    BY DEF ReadFrom, TypeOK, peerVars, routing
  <1>2. rx'[q] = Tail(rx[q]) /\ \A p \in PeerIds : p # q => rx'[p] = rx[p]
    BY DEF ReadFrom, TypeOK
  <1>3. /\ Len(rx'[q]) = Len(rx[q]) - 1 /\ Len(rx[q]) \in Nat
        /\ \A k \in 1 .. Len(rx'[q]) : rx'[q][k] = rx[q][k + 1]
    BY <1>1, <1>2, HeadTailProperties
  <1>4. \A k \in 1 .. Len(rx'[q]) : k + 1 \in 1 .. Len(rx[q])
    BY <1>3
  <1>5. \A n : \A p \in Born : Below(p, n) => Below(p, n)'
    <2>. SUFFICES ASSUME NEW n, NEW p \in Born, Below(p, n)
                  PROVE  \A k \in 1 .. Len(rx'[p]) : rx'[p][k].n < n
      BY DEF Below
    <2>1. p \in PeerIds
      BY BornInIds DEF TypeOK
    <2>. QED
      BY <1>2, <1>3, <1>4, <2>1 DEF Below
  <1>6. Born' = Born /\ \A p, packet : Fits(p, packet)' = Fits(p, packet)
    BY <1>1 DEF Born, Fits
  <1>7. UnbornEmpty'
    BY <1>1, <1>2, <1>6 DEF RouteInv, UnbornEmpty
  <1>8. QueuesRight'
    <2>1. ASSUME NEW p \in Born, p # q PROVE QueueRight(p)'
      <3>1. rx'[p] = rx[p] /\ QueueRight(p)
        BY <1>2, <2>1, BornInIds DEF RouteInv, QueuesRight, TypeOK
      <3>. QED
        BY <1>1, <1>6, <3>1 DEF QueueRight, Below
    <2>2. QueueRight(q)'
      <3>1. QueueRight(q)
        BY <1>1 DEF RouteInv, QueuesRight
      <3>2. Below(q, heard + 1)'
        BY <1>1, <3>1, <1>3, <1>4 DEF QueueRight, Below
      <3>3. \A k \in 1 .. Len(rx'[q]) : Fits(q, rx[q][k])'
        BY <1>1, <1>3, <1>4, <3>1 DEF QueueRight, Fits
      <3>4. Increasing(rx[q])'
        <4>. SUFFICES ASSUME NEW k \in 2 .. Len(rx'[q])
                      PROVE  rx'[q][k - 1].n < rx'[q][k].n
          BY DEF Increasing
        <4>1. /\ k \in 1 .. Len(rx'[q]) /\ k - 1 \in 1 .. Len(rx'[q])
              /\ k + 1 \in 2 .. Len(rx[q]) /\ (k - 1) + 1 = k /\ (k + 1) - 1 = k
          BY <1>3
        <4>2. rx[q][k].n < rx[q][k + 1].n
          BY <3>1, <4>1 DEF QueueRight, Increasing
        <4>. QED
          BY <1>3, <4>1, <4>2
      <3>. QED
        BY <3>2, <3>3, <3>4 DEF QueueRight
    <2>. QED
      BY <1>6, <2>1, <2>2 DEF QueuesRight
  <1>9. PacketRight'
    <2>1. Goal(recv.to, recv.packet) => Goal(recv.to, recv.packet)'
      BY <1>1, <1>5, <1>6 DEF Goal
    <2>2. (\A p \in Born : Below(p, heard)) => (\A p \in Born : Below(p, heard))'
      <3>1. heard' = heard
        BY <1>1
      <3>. QED
        BY <1>5, <1>6, <3>1 DEF Below
    <2>. QED
      BY <1>1, <2>1, <2>2 DEF RouteInv, PacketRight
  <1>. QED
    BY <1>7, <1>8, <1>9 DEF RouteInv

LEMMA RouteStep ==
    ASSUME TypeOK, MapInv, RouteInv, [Next]_vars
    PROVE  RouteInv'
  <1>1. CASE Route
    <2>1. recv.step = "route" /\ UNCHANGED <<rx, heard, born, addr>>
      BY <1>1 DEF Route, peerVars
    <2>2. Goal(Targets(recv.inst, recv.packet), recv.packet)
      BY <2>1, TargetsGoal
    <2>3. NotRouting = RouteTo(<<>>) /\ Goal(<<>>, recv.packet)
      BY DEF RouteTo, Goal
    <2>. QED
      BY <1>1, <2>1, <2>2, <2>3, RouteOn DEF Route
  <1>2. CASE EnqueueCheck
    <2>1. recv.step = "check" /\ UNCHANGED <<rx, heard, born, addr>>
      BY <1>2 DEF EnqueueCheck, peerVars
    <2>2. recv.to \in Seq(PeerIds) /\ recv.to # <<>> /\ Goal(recv.to, recv.packet)
      BY <2>1 DEF TypeOK, RoutingType, RouteInv, PacketRight
    <2>3. CASE recv' = RouteTo(Tail(recv.to))
      BY <2>1, <2>2, <2>3, GoalTail, RouteOn
    <2>4. CASE recv' = [recv EXCEPT !.step = "put"]
      <3>1. /\ recv'.step = "put" /\ recv'.to = recv.to /\ recv'.packet = recv.packet
        BY <2>4 DEF TypeOK, RoutingType
      <3>2. UnbornEmpty' /\ QueuesRight'
        BY <2>1 DEF RouteInv, UnbornEmpty, QueuesRight, QueueRight, Fits, Below,
           Increasing, Born
      <3>3. PacketRight'
        BY <2>1, <2>2, <3>1 DEF RouteInv, PacketRight, Goal, Fits, Below, Born
      <3>. QED
        BY <3>2, <3>3 DEF RouteInv
    <2>. QED
      BY <1>2, <2>3, <2>4 DEF EnqueueCheck
  <1>3. ASSUME NEW c \in Callers, Proceed(c), ~NewPeer(c) PROVE RouteInv'
    <2>1. UNCHANGED <<rx, routing, born, addr>>
      BY <1>3 DEF Proceed, InitOk, InitFails, InitRelease, CloseNextPeer, CloseDeinit,
         CloseFree, AddExists, SdkAddOk, SdkAddFails, NewPeerFails, AddUndo,
         PeerUnmap, SdkDelete, peerVars
    <2>. QED
      BY <2>1, RouteSame
  <1>4. CASE UNCHANGED <<rx, routing, born, addr>>
    BY <1>4, RouteSame
  <1>5. CASE EnqueuePut
    BY <1>5, RoutePut
  <1>6. ASSUME NEW c \in Callers, NewPeer(c) PROVE RouteInv'
    BY <1>6, RouteNewPeer
  <1>. QED
    BY <1>1, <1>2, <1>3, <1>4, <1>5, <1>6, RouteReceive, RouteRead
    DEF Next, Routing, NewClaim, CloseBegin, AddBegin, PeerCloseLocal, vars, peerVars

-----------------------------------------------------------------------------
IInv == TypeOK /\ SlotInv /\ MapInv /\ TableInv /\ RecvInv

LEMMA IInvInit == Init => IInv
  <1>. SUFFICES ASSUME Init PROVE IInv
    OBVIOUS
  <1>1. NoPacket \in Packet /\ <<>> \in Seq(PeerIds) /\ <<>> \in Seq(Packet)
    BY DEF NoPacket, Packet, Addresses
  <1>2. SlotType /\ SdkType /\ PeerType /\ CallType
    <2>1. SlotType
      BY BoundAssumption DEF Init, SlotType
    <2>2. SdkType
      BY DEF Init, SdkType
    <2>3. PeerType
      BY BoundAssumption DEF Init, PeerType, Addresses
    <2>4. CallType
      BY DEF Init, CallType, Steps, Addresses
    <2>. QED
      BY <2>1, <2>2, <2>3, <2>4
  <1>10. TableType
    BY DEF Init, TableType, NoPeers
  <1>3. RoutingType
    BY <1>1, BoundAssumption DEF Init, RoutingType, NotRouting, Nil
  <1>4. TypeOK
    BY <1>1, <1>2, <1>3, <1>10 DEF Init, TypeOK
  <1>5. Born = {}
    BY DEF Init, Born
  <1>6. SlotInv
    BY DEF Init, SlotInv, Holding, Claiming, Closing
  <1>7. MapInv
    BY <1>5 DEF Init, MapInv, LockInv, EntryInv, OpenInv, RemovingInv, Adding, Removing,
       NoPeers
  <1>8. TableInv
    BY <1>5 DEF Init, TableInv, OpenListed, AddedListed, RemovingReserved, LookingUp,
       Added, Removing
  <1>9. RecvInv
    BY DEF Init, RecvInv, NotRouting
  <1>. QED
    BY <1>4, <1>6, <1>7, <1>8, <1>9 DEF IInv

LEMMA IInvStep == IInv /\ [Next]_vars => IInv'
  BY StepType, SlotStep, MapStep, TableStep, RecvStep DEF IInv

LEMMA IInvAlways == SafeSpec => []IInv
  BY IInvInit, IInvStep, PTL DEF SafeSpec

\* Every reachable state of managed ESP-NOW is well typed.
THEOREM EspTypeCorrect == SafeSpec => []TypeOK
  <1>1. IInv => TypeOK
    BY DEF IInv
  <1>. QED
    BY <1>1, IInvAlways, PTL

\* espnow_packetconn.go:180: no Close and no failed NewESPNow takes the SDK away
\* from an instance that is open.
THEOREM EspOpenInstanceHasSDK == SafeSpec => []OpenInstanceHasSDK
  <1>1. IInv => OpenInstanceHasSDK
    BY DEF IInv, SlotInv, OpenInstanceHasSDK
  <1>. QED
    BY <1>1, IInvAlways, PTL

\* When Close has returned every peer of the instance is closed.
THEOREM EspCloseClosesPeers == SafeSpec => []CloseClosesPeers
  <1>1. IInv => CloseClosesPeers
    <2>. SUFFICES ASSUME IInv, NEW i \in closed,
                         \A c \in Callers : inst[c] = i => pc[c] # "close peers",
                         NEW p \in Born, owner[p] = i, p \notin shut
                  PROVE  FALSE
      BY DEF CloseClosesPeers
    <2>1. Open(p)
      BY DEF Open
    <2>. QED
      BY <2>1 DEF IInv, MapInv, OpenInv
  <1>. QED
    BY <1>1, IInvAlways, PTL

\* The SDK knows every open peer added by address, unless a Peer.Close came to
\* the SDK under a later instance.
THEOREM EspNamedPeerInTable == SafeSpec => []NamedPeerInTable
  <1>1. IInv => NamedPeerInTable
    BY DEF IInv, TableInv, OpenListed, NamedPeerInTable, Open
  <1>. QED
    BY <1>1, IInvAlways, PTL

\* A packet that comes after closeLocal never enters the peer's queue.
THEOREM EspNothingAfterClose == SafeSpec => NothingAfterClose
  <1>1. ASSUME IInv, Next, NEW p \in PeerIds, Len(rx'[p]) > Len(rx[p])
        PROVE  p \notin recv.shutThen
    <2>1. CASE EnqueuePut
      <3>1. p # Head(recv.to) => rx'[p] = rx[p]
        BY <2>1 DEF EnqueuePut, IInv, TypeOK
      <3>2. Len(rx[p]) \in Nat
        BY LenProperties DEF IInv, TypeOK
      <3>3. p = Head(recv.to)
        BY <1>1, <3>1, <3>2
      <3>. QED
        BY <1>1, <2>1, <3>3 DEF EnqueuePut, IInv, RecvInv
    <2>2. ASSUME NEW q \in PeerIds, ReadFrom(q) PROVE FALSE
      <3>1. rx[q] \in Seq(Packet) /\ rx[q] # <<>> /\ rx[p] \in Seq(Packet)
        BY <1>1, <2>2 DEF ReadFrom, IInv, TypeOK
      <3>2. rx'[p] = IF p = q THEN Tail(rx[q]) ELSE rx[p]
        BY <1>1, <2>2 DEF ReadFrom, IInv, TypeOK
      <3>3. Len(rx'[p]) = Len(rx[p]) \/ Len(rx'[p]) = Len(rx[p]) - 1
        BY <3>1, <3>2, HeadTailProperties
      <3>4. Len(rx[p]) \in Nat
        BY <3>1, LenProperties
      <3>. QED
        BY <1>1, <3>3, <3>4
    <2>3. CASE rx' = rx
      <3>1. Len(rx[p]) \in Nat
        BY <1>1, LenProperties DEF IInv, TypeOK
      <3>. QED
        BY <1>1, <2>3, <3>1
    <2>4. ASSUME NEW c \in Callers, Proceed(c) PROVE rx' = rx
      BY <2>4 DEF Proceed, InitOk, InitFails, InitRelease, CloseNextPeer, CloseDeinit,
         CloseFree, AddExists, SdkAddOk, SdkAddFails, NewPeer, NewPeerFails, AddUndo,
         PeerUnmap, SdkDelete
    <2>. QED
      BY <1>1, <2>1, <2>2, <2>3, <2>4
      DEF Next, Routing, NewClaim, CloseBegin, AddBegin, PeerCloseLocal, Receive, Route,
          EnqueueCheck
  <1>2. IInv /\ [Next]_vars =>
            [\A p \in PeerIds : Len(rx'[p]) > Len(rx[p]) => p \notin recv.shutThen]_vars
    BY <1>1
  <1>. QED
    BY <1>2, IInvAlways, PTL DEF SafeSpec, NothingAfterClose

\* A peer's queue holds packets of its address, or sent to all if it is the
\* broadcast peer, each once and in the order they came, for any number of peers
\* and packets and any depth of the queues.
THEOREM EspRoutedRight == SafeSpec => []RoutedRight
  <1>1. Init => RouteInv
    <2>1. Init => Born = {} /\ \A p \in PeerIds : rx[p] = <<>>
      BY DEF Init, Born
    <2>. QED
      BY <2>1 DEF Init, RouteInv, UnbornEmpty, QueuesRight, PacketRight, NotRouting
  <1>2. IInv /\ RouteInv /\ [Next]_vars => RouteInv'
    BY RouteStep DEF IInv
  <1>3. IInv /\ RouteInv => RoutedRight
    <2>. SUFFICES ASSUME IInv, RouteInv, NEW p \in Born
                  PROVE  /\ \A k \in DOMAIN rx[p] :
                                IF addr[p] = Broadcast THEN rx[p][k].all
                                ELSE rx[p][k].src = addr[p]
                         /\ \A k \in 2 .. Len(rx[p]) : rx[p][k - 1].n < rx[p][k].n
      BY DEF RoutedRight
    <2>1. DOMAIN rx[p] = 1 .. Len(rx[p])
      BY BornInIds, LenProperties DEF IInv, TypeOK
    <2>2. QueueRight(p)
      BY DEF RouteInv, QueuesRight
    <2>. QED
      BY <2>1, <2>2 DEF QueueRight, Fits, Increasing
  <1>. QED
    BY <1>1, <1>2, <1>3, IInvAlways, PTL DEF SafeSpec
=============================================================================
