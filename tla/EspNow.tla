-------------------------------- MODULE EspNow --------------------------------
(***************************************************************************)
(* Managed ESP-NOW (espnow_packetconn.go over espnow.go): the slot for the *)
(* one active instance, each instance's map of peers, the peer table the   *)
(* SDK keeps beside it, and the routing of received packets.               *)
(*                                                                         *)
(* Calls may come from goroutines on both cores, so a step is the code     *)
(* under one lock or one call of the SDK; onCore0 lets others run around   *)
(* each such call.  Handlers set with ESPNowSetReceiveHandler, direct use  *)
(* of the ESPNow* functions beside an instance, and the waiting and the    *)
(* deadlines of ReadFrom are left out.                                     *)
(***************************************************************************)
EXTENDS Integers, Sequences

CONSTANTS
    Callers,       \* goroutines of the application
    Named,         \* peer addresses other than the broadcast address
    Broadcast,     \* FF:FF:FF:FF:FF:FF
    RxDepth,       \* espNowPeerQueueDepth, 8 in the code
    MaxInstances,  \* bound: calls of NewESPNow that get the slot
    MaxPeers       \* bound: Peer objects created and packets received, together

ASSUME AddressAssumption == Broadcast \notin Named
ASSUME NilAssumption == 0 \notin Callers
ASSUME BoundAssumption ==
    /\ RxDepth \in Nat \ {0} /\ MaxInstances \in Nat /\ MaxPeers \in Nat

Nil == 0
Instances == 1 .. MaxInstances
PeerIds == 1 .. MaxPeers
Addresses == Named \cup {Broadcast}

VARIABLES
    active,    \* activeManagedESPNow
    made,      \* instances created
    ready,     \* instances NewESPNow has returned
    closed,    \* instances whose closed field is set
    mu,        \* who holds an instance's mu for writing across an SDK call
    peers,     \* each instance's map; the entry for Broadcast is broadcastPeer
    sdkOn, sdkRecv, sdkTable,   \* the SDK: initialised, callback, peer table
    born,      \* Peer objects created
    owner, addr, shut,          \* a Peer's now, addr and closed
    rx,        \* its queue of received packets
    pc, inst, at, peer,         \* each call: place, instance, address, peer
    todo,      \* the peers a Close still has to shut
    heard,     \* packets received
    recv,      \* the packet being routed and the peers it still goes to, and
               \* as history those closed but in the map when it came
    crossed    \* history: a Peer.Close reached the SDK under another instance

slotVars == <<active, made, ready>>
table == <<closed, mu, peers>>
sdk == <<sdkOn, sdkRecv, sdkTable>>
peerVars == <<born, owner, addr, shut>>
call == <<pc, inst, at, peer, todo>>
routing == <<heard, recv>>
vars == <<slotVars, table, sdk, peerVars, rx, call, routing, crossed>>

Born == 1 .. born
NoPacket == [n |-> 0, src |-> Broadcast, all |-> FALSE]
NotRouting == [step |-> "idle", inst |-> Nil, packet |-> NoPacket, to |-> <<>>,
               shutThen |-> {}]
Unlocked(i) == mu[i] = Nil
NoPeers == [a \in Addresses |-> Nil]
\* The peers in an instance's map.
Managed(i) == {peers[i][a] : a \in Addresses} \ {Nil}
Goto(c, step) == pc' = [pc EXCEPT ![c] = step]
SameArgs == UNCHANGED <<inst, at, peer, todo>>
\* The call is over, and with it its local variables.
Return(c) ==
    /\ Goto(c, "idle")
    /\ inst' = [inst EXCEPT ![c] = Nil] /\ at' = [at EXCEPT ![c] = Broadcast]
    /\ peer' = [peer EXCEPT ![c] = Nil] /\ todo' = [todo EXCEPT ![c] = {}]

Init ==
    /\ active = Nil /\ made = 0 /\ ready = {} /\ closed = {}
    /\ mu = [i \in Instances |-> Nil]
    /\ peers = [i \in Instances |-> NoPeers]
    /\ sdkOn = FALSE /\ sdkRecv = FALSE /\ sdkTable = {}
    /\ born = 0 /\ owner = [p \in PeerIds |-> Nil]
    /\ addr = [p \in PeerIds |-> Broadcast] /\ shut = {}
    /\ rx = [p \in PeerIds |-> <<>>]
    /\ pc = [c \in Callers |-> "idle"] /\ inst = [c \in Callers |-> Nil]
    /\ at = [c \in Callers |-> Broadcast] /\ peer = [c \in Callers |-> Nil]
    /\ todo = [c \in Callers |-> {}]
    /\ heard = 0 /\ recv = NotRouting
    /\ crossed = FALSE

-----------------------------------------------------------------------------
(* NewESPNow                                                               *)

\* Refused while another instance has the slot.
NewClaim(c) ==
    /\ pc[c] = "idle" /\ active = Nil /\ made < MaxInstances
    /\ made' = made + 1 /\ active' = made'
    /\ inst' = [inst EXCEPT ![c] = made']
    /\ Goto(c, "init")
    /\ UNCHANGED <<ready, table, sdk, peerVars, rx, at, peer, todo, routing, crossed>>

\* espNowInit, then the primary master key.
InitOk(c) ==
    /\ pc[c] = "init" /\ Return(c)
    /\ sdkOn' = TRUE /\ sdkRecv' = TRUE
    /\ ready' = ready \cup {inst[c]}
    /\ UNCHANGED <<active, made, table, sdkTable, peerVars, rx, routing, crossed>>

\* esp_now_init refuses, or a later step does and what was done is undone; the
\* errors of undoing it are ignored.
InitFails(c) ==
    /\ pc[c] = "init" /\ Goto(c, "release")
    /\ \/ UNCHANGED sdk
       \/ sdkOn' = FALSE /\ sdkRecv' = FALSE /\ sdkTable' = {}
       \/ sdkOn' = TRUE /\ sdkRecv' \in BOOLEAN /\ UNCHANGED sdkTable
    /\ SameArgs
    /\ UNCHANGED <<slotVars, table, peerVars, rx, routing, crossed>>

InitRelease(c) ==
    /\ pc[c] = "release" /\ Return(c)
    /\ active' = Nil
    /\ UNCHANGED <<made, ready, table, sdk, peerVars, rx, routing, crossed>>

-----------------------------------------------------------------------------
(* ESPNow.Close                                                            *)

\* Variant: the slot is given up before the SDK is deinitialised.
CloseFreesFirst(c, i) ==
    /\ pc[c] = "idle" /\ i \in ready /\ i \notin closed /\ Unlocked(i)
    /\ closed' = closed \cup {i} /\ active' = Nil
    /\ todo' = [todo EXCEPT ![c] = Managed(i)]
    /\ peers' = [peers EXCEPT ![i] = NoPeers]
    /\ inst' = [inst EXCEPT ![c] = i] /\ Goto(c, "close peers")
    /\ UNCHANGED <<made, ready, mu, sdk, peerVars, rx, at, peer, routing,
                   crossed>>

\* A second Close returns nil at once.
CloseBegin(c, i) ==
    /\ pc[c] = "idle" /\ i \in ready /\ i \notin closed /\ Unlocked(i)
    /\ closed' = closed \cup {i}
    /\ todo' = [todo EXCEPT ![c] = Managed(i)]
    /\ peers' = [peers EXCEPT ![i] = NoPeers]
    /\ inst' = [inst EXCEPT ![c] = i] /\ Goto(c, "close peers")
    /\ UNCHANGED <<slotVars, mu, sdk, peerVars, rx, at, peer, routing,
                   crossed>>

\* closeLocal of each.
CloseNextPeer(c) ==
    /\ pc[c] = "close peers"
    /\ \/ \E p \in todo[c] :
              /\ shut' = shut \cup {p}
              /\ todo' = [todo EXCEPT ![c] = @ \ {p}] /\ UNCHANGED pc
       \/ todo[c] = {} /\ Goto(c, "deinit") /\ UNCHANGED <<shut, todo>>
    /\ UNCHANGED <<slotVars, table, sdk, born, owner, addr, rx, inst, at,
                   peer, routing, crossed>>

\* espNowDeinit: three calls, the first that fails ends it.
CloseDeinit(c) ==
    /\ pc[c] = "deinit" /\ Goto(c, "free")
    /\ \/ UNCHANGED sdk
       \/ sdkRecv' = FALSE /\ UNCHANGED <<sdkOn, sdkTable>>
       \/ sdkOn' = FALSE /\ sdkRecv' = FALSE /\ sdkTable' = {}
    /\ SameArgs
    /\ UNCHANGED <<slotVars, table, peerVars, rx, routing, crossed>>

\* The slot is freed whether or not that succeeded.
CloseFree(c) ==
    /\ pc[c] = "free" /\ Return(c)
    /\ active' = IF active = inst[c] THEN Nil ELSE active
    /\ UNCHANGED <<made, ready, table, sdk, peerVars, rx, routing, crossed>>

-----------------------------------------------------------------------------
(* AddPeer and Broadcast: mu is held until the call returns.               *)

\* Variant: the lock is taken only around the map, not the SDK call.
AddUnlocked(c, i, a) ==
    /\ pc[c] = "idle" /\ i \in ready /\ i \notin closed /\ Unlocked(i)
    /\ peers[i][a] = Nil /\ born + heard < MaxPeers
    /\ inst' = [inst EXCEPT ![c] = i] /\ at' = [at EXCEPT ![c] = a]
    /\ Goto(c, IF a = Broadcast THEN "exists" ELSE "sdk add")
    /\ UNCHANGED <<slotVars, table, sdk, peerVars, rx, peer, todo, routing,
                   crossed>>

\* Variant: an address the SDK knows is not added again, whatever it is.
AddIfMissing(c, i, a) ==
    /\ pc[c] = "idle" /\ i \in ready /\ i \notin closed /\ Unlocked(i)
    /\ peers[i][a] = Nil /\ born + heard < MaxPeers
    /\ mu' = [mu EXCEPT ![i] = c]
    /\ inst' = [inst EXCEPT ![c] = i] /\ at' = [at EXCEPT ![c] = a]
    /\ Goto(c, "exists")
    /\ UNCHANGED <<slotVars, closed, peers, sdk, peerVars, rx, peer, todo,
                   routing, crossed>>

\* A closed instance refuses; a peer in the map is returned as it is.
AddBegin(c, i, a) ==
    /\ pc[c] = "idle" /\ i \in ready /\ i \notin closed /\ Unlocked(i)
    /\ peers[i][a] = Nil /\ born + heard < MaxPeers
    /\ mu' = [mu EXCEPT ![i] = c]
    /\ inst' = [inst EXCEPT ![c] = i] /\ at' = [at EXCEPT ![c] = a]
    /\ Goto(c, IF a = Broadcast THEN "exists" ELSE "sdk add")
    /\ UNCHANGED <<slotVars, closed, peers, sdk, peerVars, rx, peer, todo,
                   routing, crossed>>

Unlock(c) == mu' = [mu EXCEPT ![inst[c]] = Nil]

\* ESPNowPeerExists
AddExists(c) ==
    /\ pc[c] = "exists"
    /\ Goto(c, IF at[c] \in sdkTable THEN "new peer" ELSE "sdk add")
    /\ SameArgs
    /\ UNCHANGED <<slotVars, table, sdk, peerVars, rx, routing, crossed>>

SdkAddOk(c) ==
    /\ pc[c] = "sdk add" /\ sdkOn /\ at[c] \notin sdkTable
    /\ sdkTable' = sdkTable \cup {at[c]}
    /\ Goto(c, "new peer")
    /\ SameArgs
    /\ UNCHANGED <<slotVars, table, sdkOn, sdkRecv, peerVars, rx, routing,
                   crossed>>

\* Variant: the error return forgets the lock.
SdkAddFailsLocked(c) ==
    /\ pc[c] = "sdk add" /\ Return(c)
    /\ UNCHANGED <<slotVars, table, sdk, peerVars, rx, routing, crossed>>

\* The SDK refuses: not initialised, the address is known, the table is full.
SdkAddFails(c) ==
    /\ pc[c] = "sdk add" /\ Return(c)
    /\ Unlock(c)
    /\ UNCHANGED <<slotVars, closed, peers, sdk, peerVars, rx, routing,
                   crossed>>

\* newPeer, and the map entry
NewPeer(c) ==
    /\ pc[c] = "new peer" /\ born + heard < MaxPeers /\ Return(c)
    /\ born' = born + 1
    /\ owner' = [owner EXCEPT ![born'] = inst[c]]
    /\ addr' = [addr EXCEPT ![born'] = at[c]]
    /\ peers' = [peers EXCEPT ![inst[c]][at[c]] = born']
    /\ Unlock(c)
    /\ UNCHANGED <<slotVars, closed, sdk, shut, rx, routing, crossed>>

\* The MAC address cannot be read.  Only AddPeer takes the SDK's entry back.
NewPeerFails(c) ==
    /\ pc[c] = "new peer"
    /\ \/ at[c] = Broadcast /\ Return(c) /\ Unlock(c)
       \/ at[c] # Broadcast /\ Goto(c, "undo") /\ SameArgs /\ UNCHANGED mu
    /\ UNCHANGED <<slotVars, closed, peers, sdk, peerVars, rx, routing,
                   crossed>>

AddUndo(c) ==
    /\ pc[c] = "undo" /\ Return(c)
    /\ sdkTable' = sdkTable \ {at[c]}
    /\ Unlock(c)
    /\ UNCHANGED <<slotVars, closed, peers, sdkOn, sdkRecv, peerVars, rx,
                   routing, crossed>>

-----------------------------------------------------------------------------
(* Peer.Close: closeLocal, the map, the SDK                                *)

\* Closing a closed peer returns nil at once.
PeerCloseLocal(c, p) ==
    /\ pc[c] = "idle" /\ p \in Born \ shut
    /\ shut' = shut \cup {p}
    /\ peer' = [peer EXCEPT ![c] = p] /\ Goto(c, "unmap")
    /\ UNCHANGED <<slotVars, table, sdk, born, owner, addr, rx, inst, at,
                   todo, routing, crossed>>

PeerUnmap(c) ==
    LET p == peer[c]
    IN  /\ pc[c] = "unmap" /\ Unlocked(owner[p]) /\ Goto(c, "sdk delete")
        /\ peers' = [peers EXCEPT ![owner[p]][addr[p]] = Nil]
        /\ SameArgs
        /\ UNCHANGED <<slotVars, closed, mu, sdk, peerVars, rx, routing,
                       crossed>>

\* By address, whatever instance the SDK belongs to by now.
SdkDelete(c) ==
    LET p == peer[c]
    IN  /\ pc[c] = "sdk delete" /\ Return(c)
        /\ sdkTable' = sdkTable \ {addr[p]}
        /\ crossed' = (crossed \/ active \notin {Nil, owner[p]})
        /\ UNCHANGED <<slotVars, table, sdkOn, sdkRecv, peerVars, rx, routing>>

-----------------------------------------------------------------------------
(* Receiving: espradio_on_esp_now_recv and handleReceive, in the blob task *)

\* The callback looks up the active instance.
Receive(src, all) ==
    /\ recv = NotRouting /\ sdkOn /\ sdkRecv /\ active # Nil
    /\ born + heard < MaxPeers /\ heard' = heard + 1
    /\ recv' = [step |-> "route", inst |-> active, to |-> <<>>,
                shutThen |-> shut \cap Managed(active),
                packet |-> [n |-> heard', src |-> src, all |-> all]]
    /\ UNCHANGED <<slotVars, table, sdk, peerVars, rx, call, crossed>>

Present(p) == IF p = Nil THEN <<>> ELSE <<p>>

\* Variant: the broadcast peer gets every packet.
TargetsAll(i, packet) ==
    Present(peers[i][packet.src]) \o Present(peers[i][Broadcast])

\* The peer of the source, then the broadcast peer if it was sent to all.
Targets(i, packet) ==
    Present(peers[i][packet.src])
        \o (IF packet.all THEN Present(peers[i][Broadcast]) ELSE <<>>)

\* The packet goes on to the peers left, if any.
RouteTo(to) == IF to = <<>> THEN NotRouting
               ELSE [recv EXCEPT !.step = "check", !.to = to]

\* Under mu for reading: a closed instance drops the packet.
Route ==
    /\ recv.step = "route" /\ Unlocked(recv.inst)
    /\ recv' = IF recv.inst \in closed THEN NotRouting
               ELSE RouteTo(Targets(recv.inst, recv.packet))
    /\ UNCHANGED <<slotVars, table, sdk, peerVars, rx, call, heard, crossed>>

\* Variant: the closed flag is not read.
EnqueueUnchecked ==
    /\ recv.step = "check"
    /\ recv' = [recv EXCEPT !.step = "put"]
    /\ UNCHANGED <<slotVars, table, sdk, peerVars, rx, call, heard, crossed>>

\* enqueue reads the closed flag under the peer's lock...
EnqueueCheck ==
    /\ recv.step = "check"
    /\ recv' = IF Head(recv.to) \in shut THEN RouteTo(Tail(recv.to))
               ELSE [recv EXCEPT !.step = "put"]
    /\ UNCHANGED <<slotVars, table, sdk, peerVars, rx, call, heard, crossed>>

\* ... and sends after releasing it; a full queue loses the packet.
EnqueuePut ==
    LET p == Head(recv.to)
    IN  /\ recv.step = "put"
        /\ rx' = IF Len(rx[p]) < RxDepth
                 THEN [rx EXCEPT ![p] = Append(@, recv.packet)] ELSE rx
        /\ recv' = RouteTo(Tail(recv.to))
        /\ UNCHANGED <<slotVars, table, sdk, peerVars, call, heard, crossed>>

\* ReadFrom, on an open peer that has a packet.
ReadFrom(p) ==
    /\ p \in Born \ shut /\ rx[p] # <<>>
    /\ rx' = [rx EXCEPT ![p] = Tail(@)]
    /\ UNCHANGED <<slotVars, table, sdk, peerVars, call, routing, crossed>>

Routing == Route \/ EnqueueCheck \/ EnqueuePut

-----------------------------------------------------------------------------
\* The rest of a call that has begun.
Proceed(c) ==
    \/ InitOk(c) \/ InitFails(c) \/ InitRelease(c)
    \/ CloseNextPeer(c) \/ CloseDeinit(c) \/ CloseFree(c)
    \/ AddExists(c) \/ SdkAddOk(c) \/ SdkAddFails(c)
    \/ NewPeer(c) \/ NewPeerFails(c) \/ AddUndo(c)
    \/ PeerUnmap(c) \/ SdkDelete(c)

Next ==
    \/ \E c \in Callers :
           \/ NewClaim(c) \/ Proceed(c)
           \/ \E i \in Instances : CloseBegin(c, i)
           \/ \E i \in Instances, a \in Addresses : AddBegin(c, i, a)
           \/ \E p \in PeerIds : PeerCloseLocal(c, p)
    \/ \E src \in Named, all \in BOOLEAN : Receive(src, all)
    \/ Routing
    \/ \E p \in PeerIds : ReadFrom(p)

\* A call that can go on does.  A lock is passed on when it comes free, so no
\* goroutine waits for one for ever while others take it in turn.
Fairness ==
    /\ \A c \in Callers : SF_vars(Proceed(c))
    /\ WF_vars(Routing)

SafeSpec == Init /\ [][Next]_vars
Spec == SafeSpec /\ Fairness

-----------------------------------------------------------------------------
Steps == {"idle", "init", "release", "close peers", "deinit", "free", "exists",
          "sdk add", "new peer", "undo", "unmap", "sdk delete"}
Packet == [n : Nat, src : Addresses, all : BOOLEAN]

SlotType == active \in Instances \cup {Nil} /\ made \in 0 .. MaxInstances
            /\ ready \subseteq Instances
TableType ==
    /\ closed \subseteq Instances /\ mu \in [Instances -> Callers \cup {Nil}]
    /\ peers \in [Instances -> [Addresses -> PeerIds \cup {Nil}]]
SdkType == sdkOn \in BOOLEAN /\ sdkRecv \in BOOLEAN /\ sdkTable \subseteq Addresses
PeerType ==
    /\ born \in 0 .. MaxPeers /\ shut \subseteq PeerIds
    /\ owner \in [PeerIds -> Instances \cup {Nil}] /\ addr \in [PeerIds -> Addresses]
CallType ==
    /\ pc \in [Callers -> Steps] /\ inst \in [Callers -> Instances \cup {Nil}]
    /\ at \in [Callers -> Addresses] /\ peer \in [Callers -> PeerIds \cup {Nil}]
    /\ todo \in [Callers -> SUBSET PeerIds]
RoutingType ==
    /\ heard \in 0 .. MaxPeers
    /\ recv \in [step : {"idle", "route", "check", "put"},
                 inst : Instances \cup {Nil}, packet : Packet, to : Seq(PeerIds),
                 shutThen : SUBSET PeerIds]
    /\ recv.step # "idle" => recv.inst # Nil
    /\ recv.step \in {"check", "put"} => recv.to # <<>>

TypeOK ==
    /\ SlotType /\ TableType /\ SdkType /\ PeerType /\ CallType /\ RoutingType
    /\ rx \in [PeerIds -> Seq(Packet)] /\ crossed \in BOOLEAN

\* espnow_packetconn.go:179: an instance that is open has the slot, and the SDK
\* stays initialised and calls back for it: no Close of an earlier instance and
\* no failed NewESPNow takes it down.
OpenInstanceHasSDK ==
    \A i \in ready \ closed : active = i /\ sdkOn /\ sdkRecv

\* When Close has returned, every peer made through the instance is closed, one
\* that another goroutine was adding at the time included.
CloseClosesPeers ==
    \A i \in closed :
        (\A c \in Callers : inst[c] = i => pc[c] \notin {"close peers"})
            => {p \in Born : owner[p] = i} \subseteq shut

\* The SDK has an entry for every open peer added by address, although its table
\* and the map change at different times, unless a Peer.Close was overtaken by
\* Close and NewESPNow and deleted the entry of the next instance.
NamedPeerInTable ==
    ~crossed => \A p \in Born \ shut : addr[p] # Broadcast => addr[p] \in sdkTable

\* A peer's queue holds packets of its address, or sent to all if it is the
\* broadcast peer, each once and never out of order, although a packet may go
\* to two peers and the map changes while it is on its way.
RoutedRight ==
    \A p \in Born :
        /\ \A k \in DOMAIN rx[p] :
               IF addr[p] = Broadcast THEN rx[p][k].all
               ELSE rx[p][k].src = addr[p]
        /\ \A k \in 2 .. Len(rx[p]) : rx[p][k - 1].n < rx[p][k].n

\* A packet received after closeLocal never enters the peer's queue, whatever
\* the map still says.
NothingAfterClose ==
    [][\A p \in PeerIds : Len(rx'[p]) > Len(rx[p]) => p \notin recv.shutThen]_vars

\* Every call returns: no error path keeps an instance locked.
CallsReturn == \A c \in Callers : pc[c] # "idle" ~> pc[c] = "idle"

\* espnow_packetconn.go:75: ESPNow "maintains the SDK peer table for peers added
\* through AddPeer".  Between calls the table has every open peer.
PeersInTable ==
    (\A c \in Callers : pc[c] = "idle")
        => \A p \in Born \ shut : addr[p] \in sdkTable
=============================================================================
