------------------------------- MODULE Broker -------------------------------
(***************************************************************************)
(* The serial port broker of pydobotlab/broker.py: one handler thread per  *)
(* TCP client, the thread that owns the DobotBroker object, the port map   *)
(* they share, and the SerialTransport objects (transport.py) the map      *)
(* holds, each with its own lock, its device and its entry in the          *)
(* process's registry of open ports.                                       *)
(*                                                                         *)
(* One action is one step another thread can see: a block under            *)
(* _transports_lock, the device part of close(), its registry part, one    *)
(* exchange with the arm.  Attaching a port holds _transports_lock while   *)
(* it opens the device, and so does stop() while it closes every port.     *)
(***************************************************************************)
EXTENDS Naturals, FiniteSets

CONSTANTS
    Clients,     \* connection slots: the sockets the server accepts
    Ports,       \* serial port names
    Transports,  \* identities of SerialTransport objects
    Owner,       \* the thread that calls start, stop, attach and detach
    None         \* Python's None

Actors == Clients \cup {Owner}

ASSUME BrokerAssumption ==
    /\ Owner \notin Clients
    /\ None \notin Transports \cup Ports \cup Actors
    /\ IsFiniteSet(Clients)

VARIABLES
    transports,    \* _transports: the transport in charge of each port
    clientCounts,  \* _client_counts, 0 where the dict has no entry
    lazyAttached,  \* _lazy_attached
    connections,   \* _connections
    lockHolder,    \* who keeps _transports_lock over several steps
    server,        \* "new", then "up" and "down": is _server accepting
    closing,       \* the ports stop() has still to close
    pc, port, trans,  \* where each thread is, its port_name and transport
    alive,         \* the client's end of each connection is still there
    device,        \* the transports whose serial device is open, per port
    claimed,       \* _OPEN_PORTS, the registry of transport.py
    ownerOpened    \* history: the transports the owner's attach() opened

mapVars == <<transports, clientCounts, lazyAttached>>
stopVars == <<server, closing>>
brokerVars == <<mapVars, connections, lockHolder, stopVars>>
localVars == <<port, trans, alive>>
threadVars == <<pc, localVars>>
serialVars == <<device, claimed, ownerOpened>>
vars == <<brokerVars, threadVars, serialVars>>

\* Between the increment of its count and the decrement: the client is served.
Serving == {"relay", "wantLink", "exchange", "drop", "dropClose", "dropDiscard", "release"}

ClientPC == {"free", "spawned", "handshake", "lookup", "attach", "opening", "reply",
             "replyOpened", "count", "abort", "detach", "detachClose", "detachDiscard",
             "leave"} \cup Serving

OwnerPC == {"idle", "attach", "opening", "detach", "detachClose", "detachDiscard",
            "stopHangUp", "stopLock", "stopClose", "stopDiscard"}

TypeOK ==
    /\ transports \in [Ports -> Transports \cup {None}]
    /\ clientCounts \in [Ports -> Nat]
    /\ lazyAttached \in SUBSET Ports
    /\ connections \in SUBSET Clients
    /\ lockHolder \in Actors \cup {None}
    /\ server \in {"new", "up", "down"}
    /\ closing \in SUBSET Ports
    /\ pc \in [Actors -> ClientPC \cup OwnerPC]
    /\ \A c \in Clients : pc[c] \in ClientPC
    /\ pc[Owner] \in OwnerPC
    /\ port \in [Actors -> Ports \cup {None}]
    /\ trans \in [Actors -> Transports \cup {None}]
    /\ alive \in [Clients -> BOOLEAN]
    /\ device \in [Ports -> SUBSET Transports]
    /\ claimed \in SUBSET Ports
    /\ ownerOpened \in SUBSET Transports

Init ==
    /\ transports = [p \in Ports |-> None]
    /\ clientCounts = [p \in Ports |-> 0]
    /\ lazyAttached = {}
    /\ connections = {}
    /\ lockHolder = None
    /\ server = "new"
    /\ closing = {}
    /\ pc = [a \in Actors |-> IF a = Owner THEN "idle" ELSE "free"]
    /\ port = [a \in Actors |-> None]
    /\ trans = [a \in Actors |-> None]
    /\ alive = [c \in Clients |-> FALSE]
    /\ device = [p \in Ports |-> {}]
    /\ claimed = {}
    /\ ownerOpened = {}

-----------------------------------------------------------------------------
\* Steps of a thread, and the locks it meets on the way.

Go(a, label) == pc' = [pc EXCEPT ![a] = label]

LockFree == lockHolder = None

\* t's own lock: send_frame holds it for the whole exchange with the arm.
LinkFree(t) == \A c \in Clients : ~(pc[c] = "exchange" /\ trans[c] = t)

\* The object a constructor returns: no one refers to it yet.
Unreferenced(t) ==
    /\ \A p \in Ports : transports[p] # t /\ t \notin device[p]
    /\ \A a \in Actors : trans[a] # t

\* Where a thread goes on when its attach or its detach is done.
Attached(a) == IF a = Owner THEN "idle" ELSE "replyOpened"
Refused(a)  == IF a = Owner THEN "idle" ELSE "leave"
Detached(a) == IF a = Owner THEN "idle" ELSE "leave"

-----------------------------------------------------------------------------
\* The client's side of a connection.

\* The server thread accepts a connection and starts its handler thread.
ClientConnects(c) ==
    /\ server = "up"
    /\ pc[c] = "free"
    /\ Go(c, "spawned")
    /\ alive' = [alive EXCEPT ![c] = TRUE]
    /\ UNCHANGED <<brokerVars, serialVars, port, trans>>

\* The client closes its socket, exits or crashes, at any time.
ClientLeaves(c) ==
    /\ alive[c]
    /\ alive' = [alive EXCEPT ![c] = FALSE]
    /\ UNCHANGED <<brokerVars, serialVars, pc, port, trans>>

-----------------------------------------------------------------------------
\* The handshake.

HandlerStarts(c) ==
    /\ pc[c] = "spawned"
    /\ connections' = connections \cup {c}
    /\ Go(c, "handshake")
    /\ UNCHANGED <<mapVars, lockHolder, stopVars, serialVars, localVars>>

AttachRequested(c, p) ==
    /\ pc[c] = "handshake"
    /\ port' = [port EXCEPT ![c] = p]
    /\ Go(c, "lookup")
    /\ UNCHANGED <<brokerVars, serialVars, trans, alive>>

\* A timeout, a client that left, an unknown command, or LIST_PORTS, which
\* only reads the port map.
HandshakeEnds(c) ==
    /\ pc[c] = "handshake"
    /\ Go(c, "leave")
    /\ UNCHANGED <<brokerVars, serialVars, localVars>>

Lookup(c) ==
    /\ pc[c] = "lookup"
    /\ LockFree
    /\ trans' = [trans EXCEPT ![c] = transports[port[c]]]
    /\ Go(c, IF transports[port[c]] = None THEN "attach" ELSE "reply")
    /\ UNCHANGED <<brokerVars, serialVars, port, alive>>

\* sendall of REPLY_OK.  It can fail only when the client is gone, and even
\* then it may succeed.  Only the thread that attached the port gives it back.
ReplySent(c) ==
    /\ pc[c] \in {"reply", "replyOpened"}
    /\ Go(c, "count")
    /\ UNCHANGED <<brokerVars, serialVars, localVars>>

ReplyFails(c) ==
    /\ pc[c] \in {"reply", "replyOpened"}
    /\ ~alive[c]
    /\ Go(c, IF pc[c] = "replyOpened" THEN "abort" ELSE "leave")
    /\ UNCHANGED <<brokerVars, serialVars, localVars>>

CountClient(c) ==
    /\ pc[c] = "count"
    /\ LockFree
    /\ clientCounts' = [clientCounts EXCEPT ![port[c]] = @ + 1]
    /\ Go(c, "relay")
    /\ UNCHANGED <<transports, lazyAttached, connections, lockHolder, stopVars,
                   serialVars, localVars>>

-----------------------------------------------------------------------------
\* attach(): a handler's, which marks the port lazy, or the owner's.

\* Under _transports_lock: an attached port is returned as it is, a port the
\* registry knows is refused as busy, any other is claimed and opened.
AttachExisting(a) ==
    /\ pc[a] = "attach"
    /\ LockFree
    /\ transports[port[a]] # None
    /\ trans' = [trans EXCEPT ![a] = IF a = Owner THEN None ELSE transports[port[a]]]
    /\ Go(a, Attached(a))
    /\ UNCHANGED <<brokerVars, serialVars, port, alive>>

AttachBusy(a) ==
    /\ pc[a] = "attach"
    /\ LockFree
    /\ transports[port[a]] = None
    /\ port[a] \in claimed
    /\ Go(a, Refused(a))
    /\ UNCHANGED <<brokerVars, serialVars, localVars>>

Claim(a) ==
    /\ pc[a] = "attach"
    /\ LockFree
    /\ transports[port[a]] = None
    /\ port[a] \notin claimed
    /\ claimed' = claimed \cup {port[a]}
    /\ lockHolder' = a
    /\ Go(a, "opening")
    /\ UNCHANGED <<mapVars, connections, stopVars, device, ownerOpened, localVars>>

\* The device opens.  Whether the system refuses a second open of a device
\* this process already holds depends on the platform, so it may succeed.
DeviceOpens(a, t) ==
    /\ pc[a] = "opening"
    /\ Unreferenced(t)
    /\ device' = [device EXCEPT ![port[a]] = @ \cup {t}]
    /\ transports' = [transports EXCEPT ![port[a]] = t]
    /\ lazyAttached' = IF a = Owner THEN lazyAttached ELSE lazyAttached \cup {port[a]}
    /\ ownerOpened' = IF a = Owner THEN ownerOpened \cup {t} ELSE ownerOpened \ {t}
    /\ trans' = [trans EXCEPT ![a] = IF a = Owner THEN None ELSE t]
    /\ lockHolder' = None
    /\ Go(a, Attached(a))
    /\ UNCHANGED <<clientCounts, connections, stopVars, claimed, port, alive>>

\* Wrong: a refused device leaves its port in the registry.
DeviceRefusedStillClaimed(a) ==
    /\ pc[a] = "opening"
    /\ lockHolder' = None
    /\ Go(a, Refused(a))
    /\ UNCHANGED <<mapVars, connections, stopVars, serialVars, localVars>>

\* Missing, busy in another program, or no permission: the claim is undone.
DeviceRefused(a) ==
    /\ pc[a] = "opening"
    /\ claimed' = claimed \ {port[a]}
    /\ lockHolder' = None
    /\ Go(a, Refused(a))
    /\ UNCHANGED <<mapVars, connections, stopVars, device, ownerOpened, localVars>>

-----------------------------------------------------------------------------
\* The relay loop.

\* send_frame looks at the transport before it takes the transport's lock.
Request(c) ==
    /\ pc[c] = "relay"
    /\ alive[c]
    /\ Go(c, IF trans[c] \in device[port[c]] THEN "wantLink" ELSE "drop")
    /\ UNCHANGED <<brokerVars, serialVars, localVars>>

\* A transport closed in the meantime fails on its missing serial object.
TakeLink(c) ==
    /\ pc[c] = "wantLink"
    /\ LinkFree(trans[c])
    /\ Go(c, IF trans[c] \in device[port[c]] THEN "exchange" ELSE "drop")
    /\ UNCHANGED <<brokerVars, serialVars, localVars>>

\* A reply, a timeout or a garbled reply: the client is told, the port stays.
ExchangeEnds(c) ==
    /\ pc[c] = "exchange"
    /\ Go(c, "relay")
    /\ UNCHANGED <<brokerVars, serialVars, localVars>>

LinkFails(c) ==
    /\ pc[c] = "exchange"
    /\ Go(c, "drop")
    /\ UNCHANGED <<brokerVars, serialVars, localVars>>

\* Wrong: the drop deletes whatever transport has the port now.
AnyTransport(c) == TRUE

InCharge(c) == transports[port[c]] = trans[c]

\* _drop_failed_transport up to the end of its locked block.
DropFailedTransport(c) ==
    /\ pc[c] = "drop"
    /\ LockFree
    /\ transports' = IF InCharge(c)
                     THEN [transports EXCEPT ![port[c]] = None]
                     ELSE transports
    /\ Go(c, "dropClose")
    /\ UNCHANGED <<clientCounts, lazyAttached, connections, lockHolder, stopVars,
                   serialVars, localVars>>

\* Wrong: the relay loop returns without its finally block.
ClientGoneUnreleased(c) ==
    /\ pc[c] = "relay"
    /\ ~alive[c]
    /\ Go(c, "leave")
    /\ UNCHANGED <<brokerVars, serialVars, localVars>>

\* The client is gone: it left, or stop() hung up on it.
ClientGone(c) ==
    /\ pc[c] = "relay"
    /\ ~alive[c]
    /\ Go(c, "release")
    /\ UNCHANGED <<brokerVars, serialVars, localVars>>

\* A frame that is out of step or stalls: the broker hangs up.
HangUp(c) ==
    /\ pc[c] = "relay"
    /\ alive[c]
    /\ alive' = [alive EXCEPT ![c] = FALSE]
    /\ Go(c, "release")
    /\ UNCHANGED <<brokerVars, serialVars, port, trans>>

-----------------------------------------------------------------------------
\* Giving the port back.

\* Wrong: a count of zero still keeps the port; or counts are only decremented.
CountIsZero(c) == clientCounts[port[c]] < 1
NeverLast(c) == FALSE

LastClient(c) == clientCounts[port[c]] <= 1

ReleaseClient(c) ==
    /\ pc[c] \in {"release", "abort"}
    /\ LockFree
    /\ IF LastClient(c)
       THEN /\ clientCounts' = [clientCounts EXCEPT ![port[c]] = 0]
            /\ Go(c, IF port[c] \in lazyAttached THEN "detach" ELSE "leave")
            /\ lazyAttached' = lazyAttached \ {port[c]}
       ELSE /\ clientCounts' = [clientCounts EXCEPT ![port[c]] = @ - 1]
            /\ Go(c, "leave")
            /\ UNCHANGED lazyAttached
    /\ UNCHANGED <<transports, connections, lockHolder, stopVars, serialVars, localVars>>

\* detach(): takes whatever transport has the port now.
Detach(a) ==
    /\ pc[a] = "detach"
    /\ LockFree
    /\ trans' = [trans EXCEPT ![a] = transports[port[a]]]
    /\ transports' = [transports EXCEPT ![port[a]] = None]
    /\ Go(a, IF transports[port[a]] = None THEN Detached(a) ELSE "detachClose")
    /\ UNCHANGED <<clientCounts, lazyAttached, connections, lockHolder, stopVars,
                   serialVars, port, alive>>

\* SerialTransport.close(): the device under the transport's lock, then the
\* registry, whoever holds the port by now.
CloseDevice(a) ==
    /\ pc[a] \in {"dropClose", "detachClose"}
    /\ LinkFree(trans[a])
    /\ device' = [device EXCEPT ![port[a]] = @ \ {trans[a]}]
    /\ Go(a, IF pc[a] = "dropClose" THEN "dropDiscard" ELSE "detachDiscard")
    /\ UNCHANGED <<brokerVars, claimed, ownerOpened, localVars>>

DiscardClaim(a) ==
    /\ pc[a] \in {"dropDiscard", "detachDiscard"}
    /\ claimed' = claimed \ {port[a]}
    /\ IF pc[a] = "dropDiscard"
       THEN Go(a, "relay") /\ UNCHANGED trans
       ELSE Go(a, Detached(a)) /\ trans' = [trans EXCEPT ![a] = None]
    /\ UNCHANGED <<brokerVars, device, ownerOpened, port, alive>>

\* The end of the handler thread; the server closes its socket.
HandlerEnds(c) ==
    /\ pc[c] = "leave"
    /\ connections' = connections \ {c}
    /\ Go(c, "free")
    /\ port' = [port EXCEPT ![c] = None]
    /\ trans' = [trans EXCEPT ![c] = None]
    /\ alive' = [alive EXCEPT ![c] = FALSE]
    /\ UNCHANGED <<mapVars, lockHolder, stopVars, serialVars>>

-----------------------------------------------------------------------------
\* The owner.

Start ==
    /\ pc[Owner] = "idle"
    /\ server # "up"
    /\ server' = "up"
    /\ UNCHANGED <<mapVars, connections, lockHolder, closing, threadVars, serialVars>>

OwnerAttaches(p) ==
    /\ pc[Owner] = "idle"
    /\ port' = [port EXCEPT ![Owner] = p]
    /\ Go(Owner, "attach")
    /\ UNCHANGED <<brokerVars, serialVars, trans, alive>>

OwnerDetaches(p) ==
    /\ pc[Owner] = "idle"
    /\ port' = [port EXCEPT ![Owner] = p]
    /\ Go(Owner, "detach")
    /\ UNCHANGED <<brokerVars, serialVars, trans, alive>>

Stop ==
    /\ pc[Owner] = "idle"
    /\ server' = IF server = "up" THEN "down" ELSE server
    /\ Go(Owner, "stopHangUp")
    /\ UNCHANGED <<mapVars, connections, lockHolder, closing, serialVars, localVars>>

\* Wrong: the server waits for its client threads before it hangs up on them.
StopWaitsForClients ==
    /\ pc[Owner] = "stopHangUp"
    /\ connections = {}
    /\ alive' = [c \in Clients |-> alive[c] /\ c \notin connections]
    /\ Go(Owner, "stopLock")
    /\ UNCHANGED <<brokerVars, serialVars, port, trans>>

\* Handlers already in _connections lose their socket, no other does.
StopHangsUp ==
    /\ pc[Owner] = "stopHangUp"
    /\ alive' = [c \in Clients |-> alive[c] /\ c \notin connections]
    /\ Go(Owner, "stopLock")
    /\ UNCHANGED <<brokerVars, serialVars, port, trans>>

StopTakesLock ==
    /\ pc[Owner] = "stopLock"
    /\ LockFree
    /\ lockHolder' = Owner
    /\ closing' = {p \in Ports : transports[p] # None}
    /\ Go(Owner, "stopClose")
    /\ UNCHANGED <<mapVars, connections, server, serialVars, localVars>>

StopCloses(p) ==
    /\ pc[Owner] = "stopClose"
    /\ p \in closing
    /\ LinkFree(transports[p])
    /\ device' = [device EXCEPT ![p] = @ \ {transports[p]}]
    /\ port' = [port EXCEPT ![Owner] = p]
    /\ Go(Owner, "stopDiscard")
    /\ UNCHANGED <<brokerVars, claimed, ownerOpened, trans, alive>>

StopDiscards ==
    /\ pc[Owner] = "stopDiscard"
    /\ claimed' = claimed \ {port[Owner]}
    /\ closing' = closing \ {port[Owner]}
    /\ Go(Owner, "stopClose")
    /\ UNCHANGED <<mapVars, connections, lockHolder, server, device, ownerOpened,
                   localVars>>

StopClears ==
    /\ pc[Owner] = "stopClose"
    /\ closing = {}
    /\ transports' = [p \in Ports |-> None]
    /\ lockHolder' = None
    /\ Go(Owner, "idle")
    /\ UNCHANGED <<clientCounts, lazyAttached, connections, stopVars, serialVars,
                   localVars>>

-----------------------------------------------------------------------------
\* attach, detach and close, whoever calls them.
PortStep(a) ==
    \/ AttachExisting(a)
    \/ AttachBusy(a)
    \/ Claim(a)
    \/ \E t \in Transports : DeviceOpens(a, t)
    \/ DeviceRefused(a)
    \/ Detach(a)
    \/ CloseDevice(a)
    \/ DiscardClaim(a)

\* What a handler thread does by itself: every wait in it has a timeout.
HandlerStep(c) ==
    \/ HandlerStarts(c)
    \/ \E p \in Ports : AttachRequested(c, p)
    \/ HandshakeEnds(c)
    \/ Lookup(c)
    \/ ReplySent(c)
    \/ ReplyFails(c)
    \/ CountClient(c)
    \/ TakeLink(c)
    \/ ExchangeEnds(c)
    \/ LinkFails(c)
    \/ DropFailedTransport(c)
    \/ ClientGone(c)
    \/ ReleaseClient(c)
    \/ HandlerEnds(c)
    \/ PortStep(c)

\* What the client does, and the broker in answer to it.
ClientStep(c) ==
    \/ ClientConnects(c)
    \/ ClientLeaves(c)
    \/ Request(c)
    \/ HangUp(c)

StopStep ==
    \/ StopHangsUp
    \/ StopTakesLock
    \/ \E p \in Ports : StopCloses(p)
    \/ StopDiscards
    \/ StopClears

\* Calls of the public methods.
OwnerCall ==
    \/ Start
    \/ Stop
    \/ \E p \in Ports : OwnerAttaches(p) \/ OwnerDetaches(p)

OwnerStep == StopStep \/ PortStep(Owner)

Next ==
    \/ \E c \in Clients : HandlerStep(c) \/ ClientStep(c)
    \/ OwnerCall
    \/ OwnerStep

Spec == Init /\ [][Next]_vars

\* Threads that can run do run.  Nothing is assumed of the clients or of the
\* calls of the owner.  A handler waits for its client's socket between two
\* exchanges, with the transport's lock free: stop() gets it in the end.
Fairness ==
    /\ \A c \in Clients : WF_vars(HandlerStep(c))
    /\ WF_vars(OwnerStep)
    /\ SF_vars(\E p \in Ports : StopCloses(p))

FairSpec == Spec /\ Fairness

-----------------------------------------------------------------------------
\* Properties.

\* The clients that hold port p and are counted.
Counted(p) == {c \in Clients : port[c] = p /\ pc[c] \in Serving}

\* Threads sure to give port p back when they are done with it.
Holders(p) ==
    {c \in Clients : port[c] = p /\ pc[c] \in Serving \cup {"replyOpened", "count", "abort"}}

\* Threads on their way to take port p out of the map.
Detaching(p) == {a \in Actors : port[a] = p /\ pc[a] = "detach"}

\* A port the broker opened on demand never stays open with nobody left to
\* close it: either a client that will give it back still holds it and the
\* port is marked for the detach, or the detach is on its way.  This is what
\* the counts, the lazy set and the release in broker.py are for.
NoOrphanPort ==
    \A p \in Ports :
        (transports[p] # None /\ transports[p] \notin ownerOpened) =>
            \/ p \in lazyAttached /\ Holders(p) # {}
            \/ Detaching(p) # {}

\* The count of a port never includes a client that is gone, whatever the
\* order of releases, drops and stops: a count that is too high would keep
\* the port open forever.
NoGhostClients == \A p \in Ports : clientCounts[p] <= Cardinality(Counted(p))

\* An open device is always in somebody's hands: the port map has its
\* transport, or a thread is about to close it.  A drop that removed another
\* client's new transport would leave that one open and unreachable.
Tracked(p, t) ==
    \/ transports[p] = t
    \/ \E a \in Actors : port[a] = p /\ trans[a] = t /\ pc[a] \in {"dropClose", "detachClose"}

NoLeakedDevice == \A p \in Ports : \A t \in device[p] : Tracked(p, t)

\* A registry entry never outlives its port: a claimed port is open, or is
\* being opened, or its entry is about to be removed.  A leaked entry would
\* make every later open of the port fail as busy.
NoLeakedClaim ==
    \A p \in claimed :
        \/ device[p] # {}
        \/ \E a \in Actors :
              port[a] = p /\ pc[a] \in {"opening", "dropDiscard", "detachDiscard", "stopDiscard"}

\* Once no client is left for good, every port opened on demand is given back
\* for good: the device is closed and the registry entry gone.
Released(p) == transports[p] \in ownerOpened \/ (transports[p] = None /\ device[p] = {} /\ p \notin claimed)

PortsReleased ==
    (<>[](\A c \in Clients : ~alive[c])) => \A p \in Ports : []<>Released(p)

\* stop() always comes to its end, although it waits for each exchange with an
\* arm while it holds the lock every handler needs.
StopReturns == (pc[Owner] = "stopHangUp") ~> (pc[Owner] = "idle")
=============================================================================
