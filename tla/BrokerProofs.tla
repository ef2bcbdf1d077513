---------------------------- MODULE BrokerProofs ----------------------------
(***************************************************************************)
(* Theorems about Broker for any number of clients, ports and transports.  *)
(***************************************************************************)
EXTENDS Broker, FiniteSetTheorems, TLAPS

\* A thread past its request for a port knows the port's name.
NeedsPort == {"lookup", "attach", "opening", "reply", "replyOpened", "count", "abort", "detach",
              "detachClose", "detachDiscard", "stopDiscard"} \cup Serving

PortKnown == \A a \in Actors : pc[a] \in NeedsPort => port[a] \in Ports

Typed == TypeOK /\ PortKnown

USE BrokerAssumption DEF Actors, Go

-----------------------------------------------------------------------------
\* Types.

\* A step of attach, detach or close keeps the types.
LEMMA PortStepTyped ==
    ASSUME Typed, NEW a \in Actors, PortStep(a)
    PROVE  Typed'
<1> USE DEF Typed, TypeOK, PortKnown, NeedsPort, Serving, ClientPC, OwnerPC, Attached, Refused,
            Detached, brokerVars, mapVars, stopVars, threadVars, localVars, serialVars
<1>1. CASE AttachExisting(a)  BY <1>1 DEF AttachExisting
<1>2. CASE AttachBusy(a)      BY <1>2 DEF AttachBusy
<1>3. CASE Claim(a)           BY <1>3 DEF Claim
<1>4. ASSUME NEW t \in Transports, DeviceOpens(a, t)
      PROVE  Typed'
  BY <1>4 DEF DeviceOpens
<1>5. CASE DeviceRefused(a)   BY <1>5 DEF DeviceRefused
<1>6. CASE Detach(a)          BY <1>6 DEF Detach
<1>7. CASE CloseDevice(a)     BY <1>7 DEF CloseDevice
<1>8. CASE DiscardClaim(a)    BY <1>8 DEF DiscardClaim
<1> QED  BY <1>1, <1>2, <1>3, <1>4, <1>5, <1>6, <1>7, <1>8 DEF PortStep

\* So does a step of a handler thread.
LEMMA HandlerStepTyped ==
    ASSUME Typed, NEW c \in Clients, HandlerStep(c)
    PROVE  Typed'
<1> USE DEF Typed, TypeOK, PortKnown, NeedsPort, Serving, ClientPC, OwnerPC,
            brokerVars, mapVars, stopVars, threadVars, localVars, serialVars
<1>1. CASE HandlerStarts(c)   BY <1>1 DEF HandlerStarts
<1>2. ASSUME NEW p \in Ports, AttachRequested(c, p)
      PROVE  Typed'
  BY <1>2 DEF AttachRequested
<1>3. CASE HandshakeEnds(c)   BY <1>3 DEF HandshakeEnds
<1>4. CASE Lookup(c)          BY <1>4 DEF Lookup
<1>5. CASE ReplySent(c)       BY <1>5 DEF ReplySent
<1>6. CASE ReplyFails(c)      BY <1>6 DEF ReplyFails
<1>7. CASE CountClient(c)     BY <1>7 DEF CountClient
<1>8. CASE TakeLink(c)        BY <1>8 DEF TakeLink
<1>9. CASE ExchangeEnds(c)    BY <1>9 DEF ExchangeEnds
<1>10. CASE LinkFails(c)      BY <1>10 DEF LinkFails
<1>11. CASE DropFailedTransport(c)  BY <1>11 DEF DropFailedTransport, InCharge
<1>12. CASE ClientGone(c)     BY <1>12 DEF ClientGone
<1>13. CASE ReleaseClient(c)  BY <1>13 DEF ReleaseClient, LastClient
<1>14. CASE HandlerEnds(c)    BY <1>14 DEF HandlerEnds
<1>15. CASE PortStep(c)       BY <1>15, PortStepTyped
<1> QED
  BY <1>1, <1>2, <1>3, <1>4, <1>5, <1>6, <1>7, <1>8, <1>9, <1>10, <1>11, <1>12, <1>13, <1>14,
     <1>15 DEF HandlerStep

\* So do the clients and the owner.
LEMMA OtherStepTyped ==
    ASSUME Typed, (\E c \in Clients : ClientStep(c)) \/ OwnerCall \/ StopStep
    PROVE  Typed'
<1> USE DEF Typed, TypeOK, PortKnown, NeedsPort, Serving, ClientPC, OwnerPC,
            brokerVars, mapVars, stopVars, threadVars, localVars, serialVars
<1>1. ASSUME NEW c \in Clients, ClientConnects(c)  PROVE Typed'
  BY <1>1 DEF ClientConnects
<1>2. ASSUME NEW c \in Clients, ClientLeaves(c)    PROVE Typed'
  BY <1>2 DEF ClientLeaves
<1>3. ASSUME NEW c \in Clients, Request(c)         PROVE Typed'
  BY <1>3 DEF Request
<1>4. ASSUME NEW c \in Clients, HangUp(c)          PROVE Typed'
  BY <1>4 DEF HangUp
<1>5. CASE Start          BY <1>5 DEF Start
<1>6. CASE Stop           BY <1>6 DEF Stop
<1>7. ASSUME NEW p \in Ports, OwnerAttaches(p)     PROVE Typed'
  BY <1>7 DEF OwnerAttaches
<1>8. ASSUME NEW p \in Ports, OwnerDetaches(p)     PROVE Typed'
  BY <1>8 DEF OwnerDetaches
<1>9. CASE StopHangsUp    BY <1>9 DEF StopHangsUp
<1>10. CASE StopTakesLock BY <1>10 DEF StopTakesLock
<1>11. ASSUME NEW p \in Ports, StopCloses(p)       PROVE Typed'
  BY <1>11 DEF StopCloses
<1>12. CASE StopDiscards  BY <1>12 DEF StopDiscards
<1>13. CASE StopClears    BY <1>13 DEF StopClears
<1> QED
  BY <1>1, <1>2, <1>3, <1>4, <1>5, <1>6, <1>7, <1>8, <1>9, <1>10, <1>11, <1>12, <1>13
  DEF ClientStep, OwnerCall, StopStep

\* The typing invariant in every reachable state.
LEMMA TypedInvariant == Spec => []Typed
<1>1. Init => Typed
  BY DEF Init, Typed, TypeOK, PortKnown, NeedsPort, Serving, ClientPC, OwnerPC
<1>2. Typed /\ [Next]_vars => Typed'
  <2> SUFFICES ASSUME Typed, [Next]_vars  PROVE Typed'
    OBVIOUS
  <2>1. CASE Next
    BY <2>1, HandlerStepTyped, OtherStepTyped, PortStepTyped DEF Next, OwnerStep
  <2>2. CASE UNCHANGED vars
    BY <2>2 DEF vars, brokerVars, mapVars, stopVars, threadVars, localVars, serialVars, Typed,
       TypeOK, PortKnown
  <2> QED  BY <2>1, <2>2
<1> QED  BY <1>1, <1>2, PTL DEF Spec

\* The state of broker.py is well typed in every reachable state: no release
\* takes a count below zero, and a port has one transport or none.
THEOREM TypeCorrect == Spec => []TypeOK
BY TypedInvariant, PTL DEF Typed

-----------------------------------------------------------------------------
\* The client counts.

\* attach, detach and close touch neither the counts nor who is counted.
LEMMA PortStepCounts ==
    ASSUME Typed, NEW a \in Actors, PortStep(a)
    PROVE  clientCounts' = clientCounts /\ \A p \in Ports : Counted(p)' = Counted(p)
<1> USE DEF Typed, TypeOK, ClientPC, OwnerPC, Counted, Serving, Attached, Refused, Detached,
            brokerVars, mapVars, stopVars, threadVars, localVars, serialVars
<1>1. CASE AttachExisting(a)  BY <1>1 DEF AttachExisting
<1>2. CASE AttachBusy(a)      BY <1>2 DEF AttachBusy
<1>3. CASE Claim(a)           BY <1>3 DEF Claim
<1>4. ASSUME NEW t \in Transports, DeviceOpens(a, t)
      PROVE  clientCounts' = clientCounts /\ \A p \in Ports : Counted(p)' = Counted(p)
  BY <1>4 DEF DeviceOpens
<1>5. CASE DeviceRefused(a)   BY <1>5 DEF DeviceRefused
<1>6. CASE Detach(a)          BY <1>6 DEF Detach
<1>7. CASE CloseDevice(a)     BY <1>7 DEF CloseDevice
<1>8. CASE DiscardClaim(a)    BY <1>8 DEF DiscardClaim
<1> QED  BY <1>1, <1>2, <1>3, <1>4, <1>5, <1>6, <1>7, <1>8 DEF PortStep

\* Nor does anything a handler does except the two locked blocks that count.
LEMMA HandlerStepCounts ==
    ASSUME Typed, NEW c \in Clients, HandlerStep(c), ~CountClient(c), ~ReleaseClient(c)
    PROVE  clientCounts' = clientCounts /\ \A p \in Ports : Counted(p)' = Counted(p)
<1> USE DEF Typed, TypeOK, ClientPC, Counted, Serving, brokerVars, mapVars, stopVars,
            threadVars, localVars, serialVars
<1>1. CASE HandlerStarts(c)   BY <1>1 DEF HandlerStarts
<1>2. ASSUME NEW p \in Ports, AttachRequested(c, p)
      PROVE  clientCounts' = clientCounts /\ \A q \in Ports : Counted(q)' = Counted(q)
  BY <1>2 DEF AttachRequested
<1>3. CASE HandshakeEnds(c)   BY <1>3 DEF HandshakeEnds
<1>4. CASE Lookup(c)          BY <1>4 DEF Lookup
<1>5. CASE ReplySent(c)       BY <1>5 DEF ReplySent
<1>6. CASE ReplyFails(c)      BY <1>6 DEF ReplyFails
<1>7. CASE TakeLink(c)        BY <1>7 DEF TakeLink
<1>8. CASE ExchangeEnds(c)    BY <1>8 DEF ExchangeEnds
<1>9. CASE LinkFails(c)       BY <1>9 DEF LinkFails
<1>10. CASE DropFailedTransport(c)  BY <1>10 DEF DropFailedTransport, InCharge
<1>11. CASE ClientGone(c)     BY <1>11 DEF ClientGone
<1>12. CASE HandlerEnds(c)    BY <1>12 DEF HandlerEnds
<1>13. CASE PortStep(c)       BY <1>13, PortStepCounts
<1> QED
  BY <1>1, <1>2, <1>3, <1>4, <1>5, <1>6, <1>7, <1>8, <1>9, <1>10, <1>11, <1>12, <1>13
  DEF HandlerStep

\* Nor do the clients and the owner.
LEMMA OtherStepCounts ==
    ASSUME Typed, (\E c \in Clients : ClientStep(c)) \/ OwnerCall \/ StopStep
    PROVE  clientCounts' = clientCounts /\ \A p \in Ports : Counted(p)' = Counted(p)
<1> DEFINE Goal == clientCounts' = clientCounts /\ \A p \in Ports : Counted(p)' = Counted(p)
<1> USE DEF Typed, TypeOK, ClientPC, OwnerPC, Counted, Serving, brokerVars, mapVars, stopVars,
            threadVars, localVars, serialVars
<1>1. ASSUME NEW c \in Clients, ClientConnects(c)  PROVE Goal
  BY <1>1 DEF ClientConnects
<1>2. ASSUME NEW c \in Clients, ClientLeaves(c)    PROVE Goal
  BY <1>2 DEF ClientLeaves
<1>3. ASSUME NEW c \in Clients, Request(c)         PROVE Goal
  BY <1>3 DEF Request
<1>4. ASSUME NEW c \in Clients, HangUp(c)          PROVE Goal
  BY <1>4 DEF HangUp
<1>5. CASE Start          BY <1>5 DEF Start
<1>6. CASE Stop           BY <1>6 DEF Stop
<1>7. ASSUME NEW p \in Ports, OwnerAttaches(p)     PROVE Goal
  BY <1>7 DEF OwnerAttaches
<1>8. ASSUME NEW p \in Ports, OwnerDetaches(p)     PROVE Goal
  BY <1>8 DEF OwnerDetaches
<1>9. CASE StopHangsUp    BY <1>9 DEF StopHangsUp
<1>10. CASE StopTakesLock BY <1>10 DEF StopTakesLock
<1>11. ASSUME NEW p \in Ports, StopCloses(p)       PROVE Goal
  BY <1>11 DEF StopCloses
<1>12. CASE StopDiscards  BY <1>12 DEF StopDiscards
<1>13. CASE StopClears    BY <1>13 DEF StopClears
<1> QED
  BY <1>1, <1>2, <1>3, <1>4, <1>5, <1>6, <1>7, <1>8, <1>9, <1>10, <1>11, <1>12, <1>13
  DEF ClientStep, OwnerCall, StopStep

\* The handlers of one port are finitely many.
LEMMA CountedFinite ==
    ASSUME NEW p
    PROVE  /\ IsFiniteSet(Counted(p))
           /\ Cardinality(Counted(p)) \in Nat
<1>1. Counted(p) \in SUBSET Clients
  BY DEF Counted
<1> QED  BY <1>1, FS_Subset, FS_CardinalityType

\* The client that is counted joins the counted ones in the same step.
LEMMA CountClientCounts ==
    ASSUME Typed, NoGhostClients, NEW c \in Clients, CountClient(c)
    PROVE  NoGhostClients'
<1>0. PICK q \in Ports : q = port[c]
  BY DEF CountClient, Typed, PortKnown, NeedsPort
<1>1. c \notin Counted(q)
  BY DEF CountClient, Counted, Serving
<1>2. Counted(q)' = Counted(q) \cup {c}
  BY <1>0 DEF CountClient, Counted, Serving, Typed, TypeOK, localVars
<1>3. Cardinality(Counted(q)') = Cardinality(Counted(q)) + 1
  BY <1>1, <1>2, CountedFinite, FS_AddElement
<1>4. \A p \in Ports : p # q => Counted(p)' = Counted(p)
  BY <1>0 DEF CountClient, Counted, Serving, Typed, TypeOK, localVars
<1>5. /\ clientCounts'[q] = clientCounts[q] + 1
      /\ \A p \in Ports : p # q => clientCounts'[p] = clientCounts[p]
  BY <1>0 DEF CountClient, Typed, TypeOK
<1>6. Cardinality(Counted(q)) \in Nat /\ clientCounts[q] \in Nat
  BY <1>1, CountedFinite DEF Typed, TypeOK
<1>7. clientCounts'[q] <= Cardinality(Counted(q)')
  BY <1>1, <1>3, <1>5, <1>6 DEF NoGhostClients
<1>8. ASSUME NEW p \in Ports, p # q
      PROVE  clientCounts'[p] <= Cardinality(Counted(p)')
  BY <1>4, <1>5, <1>8 DEF NoGhostClients
<1> QED  BY <1>7, <1>8 DEF NoGhostClients

\* A release takes one off the count and at most one client out of the counted.
LEMMA ReleaseClientCounts ==
    ASSUME Typed, NoGhostClients, NEW c \in Clients, ReleaseClient(c)
    PROVE  NoGhostClients'
<1>1. PICK q \in Ports : q = port[c]
  BY DEF ReleaseClient, LastClient, Typed, PortKnown, NeedsPort, Serving
<1>2. Counted(q)' = Counted(q) \ {c}
  BY <1>1 DEF ReleaseClient, LastClient, Counted, Serving, Typed, TypeOK, localVars
<1>3. /\ Cardinality(Counted(q)) \in Nat
      /\ Cardinality(Counted(q)') >= Cardinality(Counted(q)) - 1
      /\ Cardinality(Counted(q)') \in Nat
  <2>1. IsFiniteSet(Counted(q)) /\ Cardinality(Counted(q)) \in Nat
    BY CountedFinite
  <2>2. Cardinality(Counted(q)') = IF c \in Counted(q) THEN Cardinality(Counted(q)) - 1
                                                      ELSE Cardinality(Counted(q))
    BY <1>2, <2>1, FS_RemoveElement
  <2>3. Cardinality(Counted(q) \ {c}) \in Nat
    BY <2>1, FS_RemoveElement, FS_CardinalityType
  <2> QED  BY <1>2, <2>1, <2>2, <2>3
<1>4. \A p \in Ports : p # q => Counted(p)' = Counted(p) /\ clientCounts'[p] = clientCounts[p]
  BY <1>1 DEF ReleaseClient, LastClient, Counted, Serving, Typed, TypeOK, localVars
<1>5. clientCounts[q] \in Nat /\ clientCounts[q] <= Cardinality(Counted(q))
  BY <1>1 DEF Typed, TypeOK, NoGhostClients
<1>6. clientCounts'[q] = IF clientCounts[q] > 1 THEN clientCounts[q] - 1 ELSE 0
  BY <1>1 DEF ReleaseClient, LastClient, Typed, TypeOK
<1>7. clientCounts'[q] <= Cardinality(Counted(q)')
  BY <1>3, <1>5, <1>6
<1>8. ASSUME NEW p \in Ports, p # q
      PROVE  clientCounts'[p] <= Cardinality(Counted(p)')
  BY <1>4, <1>8 DEF NoGhostClients
<1> QED  BY <1>7, <1>8 DEF NoGhostClients

\* The bound on the counts is kept by every step.
LEMMA CountsStep ==
    ASSUME Typed, NoGhostClients, [Next]_vars
    PROVE  NoGhostClients'
<1>1. ASSUME clientCounts' = clientCounts, \A p \in Ports : Counted(p)' = Counted(p)
      PROVE  NoGhostClients'
  BY <1>1 DEF NoGhostClients
<1>2. CASE UNCHANGED vars
  <2>1. clientCounts' = clientCounts /\ \A p \in Ports : Counted(p)' = Counted(p)
    BY <1>2 DEF vars, brokerVars, mapVars, stopVars, threadVars, localVars, Counted
  <2> QED  BY <1>1, <2>1
<1>3. ASSUME NEW c \in Clients, HandlerStep(c)
      PROVE  NoGhostClients'
  BY <1>1, <1>3, HandlerStepCounts, CountClientCounts, ReleaseClientCounts
<1>4. CASE (\E c \in Clients : ClientStep(c)) \/ OwnerCall \/ StopStep
  BY <1>1, <1>4, OtherStepCounts
<1>5. CASE PortStep(Owner)
  BY <1>1, <1>5, PortStepCounts
<1> QED  BY <1>2, <1>3, <1>4, <1>5 DEF Next, OwnerStep

\* For any number of clients, in whatever order they are released, dropped or
\* hung up on, client_count never includes a client that is gone.
THEOREM CountsBounded == Spec => []NoGhostClients
<1>1. Init => NoGhostClients
  BY CountedFinite DEF Init, NoGhostClients
<1>2. Typed /\ NoGhostClients /\ [Next]_vars => NoGhostClients'
  BY CountsStep
<1> QED  BY <1>1, <1>2, TypedInvariant, PTL DEF Spec

-----------------------------------------------------------------------------
\* Ports opened on demand.

\* A step that leaves the port map and the lazy set alone, and takes nobody
\* from the holders and the detaching threads, cannot make an orphan.
LEMMA OrphanFrame ==
    ASSUME NoOrphanPort,
           transports' = transports, lazyAttached' = lazyAttached, ownerOpened' = ownerOpened,
           \A p \in Ports : Holders(p) \subseteq Holders(p)' /\ Detaching(p) \subseteq Detaching(p)'
    PROVE  NoOrphanPort'
<1> SUFFICES ASSUME NEW p \in Ports, transports[p] # None, transports[p] \notin ownerOpened
             PROVE  \/ p \in lazyAttached /\ Holders(p)' # {}
                    \/ Detaching(p)' # {}
  BY DEF NoOrphanPort
<1>1. \/ p \in lazyAttached /\ Holders(p) # {}
      \/ Detaching(p) # {}
  BY DEF NoOrphanPort
<1> QED  BY <1>1

\* attach, detach and close leave no orphan: who opens a port on demand holds
\* it, and who detaches takes it out of the map.
LEMMA PortStepOrphan ==
    ASSUME Typed, NoOrphanPort, NEW a \in Actors, PortStep(a)
    PROVE  NoOrphanPort'
<1> USE DEF Typed, TypeOK, ClientPC, OwnerPC, Holders, Detaching, Serving, Attached, Refused,
            Detached, brokerVars, mapVars, stopVars, threadVars, localVars, serialVars
<1>1. CASE AttachExisting(a)  BY <1>1, OrphanFrame DEF AttachExisting
<1>2. CASE AttachBusy(a)      BY <1>2, OrphanFrame DEF AttachBusy
<1>3. CASE Claim(a)           BY <1>3, OrphanFrame DEF Claim
<1>4. ASSUME NEW t \in Transports, DeviceOpens(a, t)
      PROVE  NoOrphanPort'
  <2>1. PICK q \in Ports : q = port[a]
    BY <1>4 DEF DeviceOpens, PortKnown, NeedsPort
  <2>2. \/ t \in ownerOpened'
        \/ q \in lazyAttached' /\ Holders(q)' # {}
    BY <1>4, <2>1 DEF DeviceOpens
  <2>3. transports'[q] = t
    BY <1>4, <2>1 DEF DeviceOpens
  <2>4. ASSUME NEW p \in Ports, p # q
        PROVE  /\ transports'[p] = transports[p] /\ transports[p] # t
               /\ p \in lazyAttached => p \in lazyAttached'
               /\ transports[p] \in ownerOpened => transports[p] \in ownerOpened'
               /\ Holders(p) \subseteq Holders(p)' /\ Detaching(p) \subseteq Detaching(p)'
    BY <1>4, <2>1, <2>4 DEF DeviceOpens, Unreferenced
  <2> QED  BY <2>2, <2>3, <2>4 DEF NoOrphanPort
<1>5. CASE DeviceRefused(a)   BY <1>5, OrphanFrame DEF DeviceRefused
<1>6. CASE Detach(a)
  <2>1. PICK q \in Ports : q = port[a]
    BY <1>6 DEF Detach, PortKnown, NeedsPort
  <2>2. transports'[q] = None
    BY <1>6, <2>1 DEF Detach
  <2>3. ASSUME NEW p \in Ports, p # q
        PROVE  /\ transports'[p] = transports[p]
               /\ Holders(p) \subseteq Holders(p)' /\ Detaching(p) \subseteq Detaching(p)'
    BY <1>6, <2>1, <2>3 DEF Detach
  <2>4. lazyAttached' = lazyAttached /\ ownerOpened' = ownerOpened
    BY <1>6 DEF Detach
  <2> QED  BY <2>2, <2>3, <2>4 DEF NoOrphanPort
<1>7. CASE CloseDevice(a)     BY <1>7, OrphanFrame DEF CloseDevice
<1>8. CASE DiscardClaim(a)    BY <1>8, OrphanFrame DEF DiscardClaim
<1> QED  BY <1>1, <1>2, <1>3, <1>4, <1>5, <1>6, <1>7, <1>8 DEF PortStep

\* The heart of the argument: a client that gives a port back either leaves
\* another counted client behind, because the count is not above their number,
\* or turns the lazy mark into a detach.
LEMMA ReleaseClientOrphan ==
    ASSUME Typed, NoGhostClients, NoOrphanPort, NEW c \in Clients, ReleaseClient(c)
    PROVE  NoOrphanPort'
<1> USE DEF Typed, TypeOK, serialVars, stopVars, localVars
<1>1. PICK q \in Ports : q = port[c]
  BY DEF ReleaseClient, LastClient, PortKnown, NeedsPort, Serving
<1>2. UNCHANGED <<transports, ownerOpened, port>>
  BY DEF ReleaseClient, LastClient
<1>3. ASSUME NEW p \in Ports, p # q
      PROVE  /\ p \in lazyAttached => p \in lazyAttached'
             /\ Holders(p) \subseteq Holders(p)' /\ Detaching(p) \subseteq Detaching(p)'
  BY <1>1, <1>3 DEF ReleaseClient, LastClient, Holders, Detaching
<1>4. Detaching(q) \subseteq Detaching(q)'
  BY DEF ReleaseClient, LastClient, Detaching
<1>5. CASE clientCounts[q] > 1
  <2>1. \E d \in Counted(q) : d # c
    <3>1. Cardinality(Counted(q)) > 1 /\ Cardinality(Counted(q)) \in Nat
      BY <1>5, CountedFinite DEF NoGhostClients
    <3> SUFFICES ASSUME \A d \in Counted(q) : d = c  PROVE FALSE
      OBVIOUS
    <3>2. Counted(q) = {} \/ Counted(q) = {c}
      OBVIOUS
    <3>3. Cardinality({}) = 0
      BY FS_EmptySet
    <3>4. Cardinality({c}) = 1
      BY FS_Singleton
    <3>5. Cardinality(Counted(q)) = 0 \/ Cardinality(Counted(q)) = 1
      BY <3>2, <3>3, <3>4, Zenon
    <3> QED  BY <3>1, <3>5
  <2>2. Holders(q)' # {}
    BY <2>1 DEF Counted, Holders, ReleaseClient, LastClient
  <2>3. lazyAttached' = lazyAttached
    BY <1>1, <1>5 DEF ReleaseClient, LastClient
  <2> QED  BY <1>2, <1>3, <1>4, <2>2, <2>3 DEF NoOrphanPort
<1>6. CASE clientCounts[q] <= 1 /\ q \in lazyAttached
  <2>1. c \in Detaching(q)'
    BY <1>1, <1>6 DEF ReleaseClient, LastClient, Detaching
  <2> QED  BY <1>2, <1>3, <2>1 DEF NoOrphanPort
<1>7. CASE q \notin lazyAttached
  <2>1. transports[q] # None /\ transports[q] \notin ownerOpened => Detaching(q)' # {}
    BY <1>4, <1>7 DEF NoOrphanPort
  <2> QED  BY <1>2, <1>3, <2>1 DEF NoOrphanPort
<1> QED  BY <1>5, <1>6, <1>7

\* The other steps of a handler keep its hold on the port until the release.
LEMMA HandlerStepOrphan ==
    ASSUME Typed, NoGhostClients, NoOrphanPort, NEW c \in Clients, HandlerStep(c)
    PROVE  NoOrphanPort'
<1> USE DEF Typed, TypeOK, Holders, Detaching, Serving, brokerVars, mapVars, stopVars,
            threadVars, localVars, serialVars
<1>1. CASE HandlerStarts(c)   BY <1>1, OrphanFrame DEF HandlerStarts
<1>2. ASSUME NEW p \in Ports, AttachRequested(c, p)
      PROVE  NoOrphanPort'
  BY <1>2, OrphanFrame DEF AttachRequested
<1>3. CASE HandshakeEnds(c)   BY <1>3, OrphanFrame DEF HandshakeEnds
<1>4. CASE Lookup(c)          BY <1>4, OrphanFrame DEF Lookup
<1>5. CASE ReplySent(c)       BY <1>5, OrphanFrame DEF ReplySent
<1>6. CASE ReplyFails(c)      BY <1>6, OrphanFrame DEF ReplyFails
<1>7. CASE CountClient(c)     BY <1>7, OrphanFrame DEF CountClient
<1>8. CASE TakeLink(c)        BY <1>8, OrphanFrame DEF TakeLink
<1>9. CASE ExchangeEnds(c)    BY <1>9, OrphanFrame DEF ExchangeEnds
<1>10. CASE LinkFails(c)      BY <1>10, OrphanFrame DEF LinkFails
<1>11. CASE DropFailedTransport(c)
  <2>1. \A p \in Ports : transports'[p] = transports[p] \/ transports'[p] = None
    BY <1>11 DEF DropFailedTransport, InCharge
  <2>2. \A p \in Ports : Holders(p) \subseteq Holders(p)' /\ Detaching(p) \subseteq Detaching(p)'
    BY <1>11 DEF DropFailedTransport, InCharge
  <2>3. lazyAttached' = lazyAttached /\ ownerOpened' = ownerOpened
    BY <1>11 DEF DropFailedTransport, InCharge
  <2> QED  BY <2>1, <2>2, <2>3 DEF NoOrphanPort
<1>12. CASE ClientGone(c)     BY <1>12, OrphanFrame DEF ClientGone
<1>13. CASE ReleaseClient(c)  BY <1>13, ReleaseClientOrphan
<1>14. CASE HandlerEnds(c)    BY <1>14, OrphanFrame DEF HandlerEnds
<1>15. CASE PortStep(c)       BY <1>15, PortStepOrphan
<1> QED
  BY <1>1, <1>2, <1>3, <1>4, <1>5, <1>6, <1>7, <1>8, <1>9, <1>10, <1>11, <1>12, <1>13, <1>14,
     <1>15 DEF HandlerStep

\* The clients and the owner take no hold away either; stop() empties the map.
LEMMA OtherStepOrphan ==
    ASSUME Typed, NoOrphanPort, (\E c \in Clients : ClientStep(c)) \/ OwnerCall \/ StopStep
    PROVE  NoOrphanPort'
<1> USE DEF Typed, TypeOK, OwnerPC, ClientPC, Holders, Detaching, Serving,
            brokerVars, mapVars, stopVars, threadVars, localVars, serialVars
<1>1. ASSUME NEW c \in Clients, ClientConnects(c)  PROVE NoOrphanPort'
  BY <1>1, OrphanFrame DEF ClientConnects
<1>2. ASSUME NEW c \in Clients, ClientLeaves(c)    PROVE NoOrphanPort'
  BY <1>2, OrphanFrame DEF ClientLeaves
<1>3. ASSUME NEW c \in Clients, Request(c)         PROVE NoOrphanPort'
  BY <1>3, OrphanFrame DEF Request
<1>4. ASSUME NEW c \in Clients, HangUp(c)          PROVE NoOrphanPort'
  BY <1>4, OrphanFrame DEF HangUp
<1>5. CASE Start          BY <1>5, OrphanFrame DEF Start
<1>6. CASE Stop           BY <1>6, OrphanFrame DEF Stop
<1>7. ASSUME NEW p \in Ports, OwnerAttaches(p)     PROVE NoOrphanPort'
  BY <1>7, OrphanFrame DEF OwnerAttaches
<1>8. ASSUME NEW p \in Ports, OwnerDetaches(p)     PROVE NoOrphanPort'
  BY <1>8, OrphanFrame DEF OwnerDetaches
<1>9. CASE StopHangsUp    BY <1>9, OrphanFrame DEF StopHangsUp
<1>10. CASE StopTakesLock BY <1>10, OrphanFrame DEF StopTakesLock
<1>11. ASSUME NEW p \in Ports, StopCloses(p)       PROVE NoOrphanPort'
  BY <1>11, OrphanFrame DEF StopCloses
<1>12. CASE StopDiscards  BY <1>12, OrphanFrame DEF StopDiscards
<1>13. CASE StopClears    BY <1>13 DEF StopClears, NoOrphanPort
<1> QED
  BY <1>1, <1>2, <1>3, <1>4, <1>5, <1>6, <1>7, <1>8, <1>9, <1>10, <1>11, <1>12, <1>13
  DEF ClientStep, OwnerCall, StopStep

\* For any number of clients and ports: a port that was opened on demand is
\* always held by a client that will give it back, or is being detached.
THEOREM OnDemandPortsHeld == Spec => []NoOrphanPort
<1>1. Init => NoOrphanPort
  BY DEF Init, NoOrphanPort
<1>2. Typed /\ NoGhostClients /\ NoOrphanPort /\ [Next]_vars => NoOrphanPort'
  <2> SUFFICES ASSUME Typed, NoGhostClients, NoOrphanPort, [Next]_vars  PROVE NoOrphanPort'
    OBVIOUS
  <2>1. CASE Next
    BY <2>1, HandlerStepOrphan, OtherStepOrphan, PortStepOrphan DEF Next, OwnerStep
  <2>2. CASE UNCHANGED vars
    BY <2>2, OrphanFrame DEF vars, brokerVars, mapVars, stopVars, threadVars, localVars,
       serialVars, Holders, Detaching
  <2> QED  BY <2>1, <2>2
<1> QED  BY <1>1, <1>2, TypedInvariant, CountsBounded, PTL DEF Spec

-----------------------------------------------------------------------------
\* The registry of open ports.

\* attach, detach and close leave every claim with a device or with a thread
\* that is about to settle it.
LEMMA PortStepClaim ==
    ASSUME Typed, NoLeakedClaim, NEW a \in Actors, PortStep(a)
    PROVE  NoLeakedClaim'
<1> USE DEF Typed, TypeOK, NoLeakedClaim, Attached, Refused, Detached,
            brokerVars, mapVars, stopVars, threadVars, localVars, serialVars
<1>1. CASE AttachExisting(a)  BY <1>1 DEF AttachExisting
<1>2. CASE AttachBusy(a)      BY <1>2 DEF AttachBusy
<1>3. CASE Claim(a)           BY <1>3 DEF Claim
<1>4. ASSUME NEW t \in Transports, DeviceOpens(a, t)
      PROVE  NoLeakedClaim'
  <2>1. PICK q \in Ports : q = port[a]
    BY <1>4 DEF DeviceOpens, PortKnown, NeedsPort
  <2>2. device'[q] # {} /\ claimed' = claimed
    BY <1>4, <2>1 DEF DeviceOpens
  <2>3. ASSUME NEW p \in claimed, p # q
        PROVE  \/ device'[p] # {}
               \/ \E b \in Actors : /\ port'[b] = p
                                   /\ pc'[b] \in {"opening", "dropDiscard", "detachDiscard",
                                                   "stopDiscard"}
    BY <1>4, <2>1, <2>3 DEF DeviceOpens
  <2> QED  BY <2>2, <2>3
<1>5. CASE DeviceRefused(a)   BY <1>5 DEF DeviceRefused
<1>6. CASE Detach(a)          BY <1>6 DEF Detach
<1>7. CASE CloseDevice(a)     BY <1>7 DEF CloseDevice
<1>8. CASE DiscardClaim(a)    BY <1>8 DEF DiscardClaim
<1> QED  BY <1>1, <1>2, <1>3, <1>4, <1>5, <1>6, <1>7, <1>8 DEF PortStep

\* A handler settles its claims only through attach, detach and close.
LEMMA HandlerStepClaim ==
    ASSUME Typed, NoLeakedClaim, NEW c \in Clients, HandlerStep(c)
    PROVE  NoLeakedClaim'
<1> USE DEF Typed, TypeOK, NoLeakedClaim, Serving, brokerVars, mapVars, stopVars, threadVars,
            localVars, serialVars
<1>1. CASE HandlerStarts(c)   BY <1>1 DEF HandlerStarts
<1>2. ASSUME NEW p \in Ports, AttachRequested(c, p)
      PROVE  NoLeakedClaim'
  BY <1>2 DEF AttachRequested
<1>3. CASE HandshakeEnds(c)   BY <1>3 DEF HandshakeEnds
<1>4. CASE Lookup(c)          BY <1>4 DEF Lookup
<1>5. CASE ReplySent(c)       BY <1>5 DEF ReplySent
<1>6. CASE ReplyFails(c)      BY <1>6 DEF ReplyFails
<1>7. CASE CountClient(c)     BY <1>7 DEF CountClient
<1>8. CASE TakeLink(c)        BY <1>8 DEF TakeLink
<1>9. CASE ExchangeEnds(c)    BY <1>9 DEF ExchangeEnds
<1>10. CASE LinkFails(c)      BY <1>10 DEF LinkFails
<1>11. CASE DropFailedTransport(c)  BY <1>11 DEF DropFailedTransport, InCharge
<1>12. CASE ClientGone(c)     BY <1>12 DEF ClientGone
<1>13. CASE ReleaseClient(c)  BY <1>13 DEF ReleaseClient, LastClient
<1>14. CASE HandlerEnds(c)    BY <1>14 DEF HandlerEnds
<1>15. CASE PortStep(c)       BY <1>15, PortStepClaim
<1> QED
  BY <1>1, <1>2, <1>3, <1>4, <1>5, <1>6, <1>7, <1>8, <1>9, <1>10, <1>11, <1>12, <1>13, <1>14,
     <1>15 DEF HandlerStep

\* stop() removes the claim of each port it closes; the clients and the other
\* calls touch none.
LEMMA OtherStepClaim ==
    ASSUME Typed, NoLeakedClaim, (\E c \in Clients : ClientStep(c)) \/ OwnerCall \/ StopStep
    PROVE  NoLeakedClaim'
<1> USE DEF Typed, TypeOK, NoLeakedClaim, brokerVars, mapVars, stopVars, threadVars, localVars,
            serialVars
<1>1. ASSUME NEW c \in Clients, ClientConnects(c)  PROVE NoLeakedClaim'
  BY <1>1 DEF ClientConnects
<1>2. ASSUME NEW c \in Clients, ClientLeaves(c)    PROVE NoLeakedClaim'
  BY <1>2 DEF ClientLeaves
<1>3. ASSUME NEW c \in Clients, Request(c)         PROVE NoLeakedClaim'
  BY <1>3 DEF Request
<1>4. ASSUME NEW c \in Clients, HangUp(c)          PROVE NoLeakedClaim'
  BY <1>4 DEF HangUp
<1>5. CASE Start          BY <1>5 DEF Start
<1>6. CASE Stop           BY <1>6 DEF Stop
<1>7. ASSUME NEW p \in Ports, OwnerAttaches(p)     PROVE NoLeakedClaim'
  BY <1>7 DEF OwnerAttaches
<1>8. ASSUME NEW p \in Ports, OwnerDetaches(p)     PROVE NoLeakedClaim'
  BY <1>8 DEF OwnerDetaches
<1>9. CASE StopHangsUp    BY <1>9 DEF StopHangsUp
<1>10. CASE StopTakesLock BY <1>10 DEF StopTakesLock
<1>11. ASSUME NEW p \in Ports, StopCloses(p)       PROVE NoLeakedClaim'
  BY <1>11 DEF StopCloses
<1>12. CASE StopDiscards  BY <1>12 DEF StopDiscards
<1>13. CASE StopClears    BY <1>13 DEF StopClears
<1> QED
  BY <1>1, <1>2, <1>3, <1>4, <1>5, <1>6, <1>7, <1>8, <1>9, <1>10, <1>11, <1>12, <1>13
  DEF ClientStep, OwnerCall, StopStep

\* A registry entry never outlives its port, so a port is never refused as
\* busy for good.
THEOREM ClaimsSettled == Spec => []NoLeakedClaim
<1>1. Init => NoLeakedClaim
  BY DEF Init, NoLeakedClaim
<1>2. Typed /\ NoLeakedClaim /\ [Next]_vars => NoLeakedClaim'
  <2> SUFFICES ASSUME Typed, NoLeakedClaim, [Next]_vars  PROVE NoLeakedClaim'
    OBVIOUS
  <2>1. CASE Next
    BY <2>1, HandlerStepClaim, OtherStepClaim, PortStepClaim DEF Next, OwnerStep
  <2>2. CASE UNCHANGED vars
    BY <2>2 DEF vars, brokerVars, mapVars, stopVars, threadVars, localVars, serialVars,
       NoLeakedClaim
  <2> QED  BY <2>1, <2>2
<1> QED  BY <1>1, <1>2, TypedInvariant, PTL DEF Spec

-----------------------------------------------------------------------------
\* The lock of the port map.

\* Whoever is between the two ends of a locked block of several steps is the
\* one that holds _transports_lock.
LockHeld ==
    \A a \in Actors : pc[a] \in {"opening", "stopClose", "stopDiscard"} => lockHolder = a

\* What stop() has closed stays closed until it clears the map.
StopProgress ==
    pc[Owner] \in {"stopClose", "stopDiscard"} =>
        \A p \in Ports :
            (p \notin closing \/ (pc[Owner] = "stopDiscard" /\ p = port[Owner]))
                => transports[p] \notin device[p]

\* A port stays out of the map while it is being opened.
OpeningAbsent == \A a \in Actors : pc[a] = "opening" => transports[port[a]] = None

\* attach, detach and close respect the lock.
LEMMA PortStepLock ==
    ASSUME Typed, LockHeld, StopProgress, OpeningAbsent, NEW a \in Actors, PortStep(a)
    PROVE  (LockHeld /\ StopProgress /\ OpeningAbsent)'
<1> USE DEF Typed, TypeOK, PortKnown, NeedsPort, LockHeld, StopProgress, OpeningAbsent,
            LockFree, Attached, Refused, Detached,
            ClientPC, OwnerPC, Serving, brokerVars, mapVars, stopVars, threadVars, localVars,
            serialVars
<1>1. CASE AttachExisting(a)  BY <1>1 DEF AttachExisting
<1>2. CASE AttachBusy(a)      BY <1>2 DEF AttachBusy
<1>3. CASE Claim(a)           BY <1>3 DEF Claim
<1>4. ASSUME NEW t \in Transports, DeviceOpens(a, t)
      PROVE  (LockHeld /\ StopProgress /\ OpeningAbsent)'
  BY <1>4 DEF DeviceOpens
<1>5. CASE DeviceRefused(a)   BY <1>5 DEF DeviceRefused
<1>6. CASE Detach(a)          BY <1>6 DEF Detach
<1>7. CASE CloseDevice(a)     BY <1>7 DEF CloseDevice
<1>8. CASE DiscardClaim(a)    BY <1>8 DEF DiscardClaim
<1> QED  BY <1>1, <1>2, <1>3, <1>4, <1>5, <1>6, <1>7, <1>8 DEF PortStep

\* So does every handler.
LEMMA HandlerStepLock ==
    ASSUME Typed, LockHeld, StopProgress, OpeningAbsent, NEW c \in Clients, HandlerStep(c)
    PROVE  (LockHeld /\ StopProgress /\ OpeningAbsent)'
<1> USE DEF Typed, TypeOK, PortKnown, NeedsPort, LockHeld, StopProgress, OpeningAbsent,
            LockFree, Attached, Refused, Detached,
            ClientPC, OwnerPC, Serving, brokerVars, mapVars, stopVars, threadVars, localVars,
            serialVars
<1>1. CASE HandlerStarts(c)         BY <1>1 DEF HandlerStarts
<1>2. ASSUME NEW p \in Ports, AttachRequested(c, p)
      PROVE  (LockHeld /\ StopProgress /\ OpeningAbsent)'
  BY <1>2 DEF AttachRequested
<1>3. CASE HandshakeEnds(c)         BY <1>3 DEF HandshakeEnds
<1>4. CASE Lookup(c)                BY <1>4 DEF Lookup
<1>5. CASE ReplySent(c)             BY <1>5 DEF ReplySent
<1>6. CASE ReplyFails(c)            BY <1>6 DEF ReplyFails
<1>7. CASE CountClient(c)           BY <1>7 DEF CountClient
<1>8. CASE TakeLink(c)              BY <1>8 DEF TakeLink
<1>9. CASE ExchangeEnds(c)          BY <1>9 DEF ExchangeEnds
<1>10. CASE LinkFails(c)            BY <1>10 DEF LinkFails
<1>11. CASE DropFailedTransport(c)  BY <1>11 DEF DropFailedTransport, InCharge
<1>12. CASE ClientGone(c)           BY <1>12 DEF ClientGone
<1>13. CASE ReleaseClient(c)        BY <1>13 DEF ReleaseClient, LastClient
<1>14. CASE HandlerEnds(c)          BY <1>14 DEF HandlerEnds
<1>15. CASE PortStep(c)             BY <1>15, PortStepLock
<1> QED
  BY <1>1, <1>2, <1>3, <1>4, <1>5, <1>6, <1>7, <1>8,
     <1>9, <1>10, <1>11, <1>12, <1>13, <1>14, <1>15 DEF HandlerStep

\* So do the clients and the owner, which works its way through the closing
\* ports.
LEMMA OtherStepLock ==
    ASSUME Typed, LockHeld, StopProgress, OpeningAbsent, (\E c \in Clients : ClientStep(c)) \/ OwnerCall \/ StopStep
    PROVE  (LockHeld /\ StopProgress /\ OpeningAbsent)'
<1> USE DEF Typed, TypeOK, PortKnown, NeedsPort, LockHeld, StopProgress, OpeningAbsent,
            LockFree, Attached, Refused, Detached,
            ClientPC, OwnerPC, Serving, brokerVars, mapVars, stopVars, threadVars, localVars,
            serialVars
<1>1. ASSUME NEW c \in Clients, ClientConnects(c)PROVE (LockHeld /\ StopProgress /\ OpeningAbsent)'
  BY <1>1 DEF ClientConnects
<1>2. ASSUME NEW c \in Clients, ClientLeaves(c) PROVE (LockHeld /\ StopProgress /\ OpeningAbsent)'
  BY <1>2 DEF ClientLeaves
<1>3. ASSUME NEW c \in Clients, Request(c)      PROVE (LockHeld /\ StopProgress /\ OpeningAbsent)'
  BY <1>3 DEF Request
<1>4. ASSUME NEW c \in Clients, HangUp(c)       PROVE (LockHeld /\ StopProgress /\ OpeningAbsent)'
  BY <1>4 DEF HangUp
<1>5. CASE Start          BY <1>5 DEF Start
<1>6. CASE Stop           BY <1>6 DEF Stop
<1>7. ASSUME NEW p \in Ports, OwnerAttaches(p)  PROVE (LockHeld /\ StopProgress /\ OpeningAbsent)'
  BY <1>7 DEF OwnerAttaches
<1>8. ASSUME NEW p \in Ports, OwnerDetaches(p)  PROVE (LockHeld /\ StopProgress /\ OpeningAbsent)'
  BY <1>8 DEF OwnerDetaches
<1>9. CASE StopHangsUp    BY <1>9 DEF StopHangsUp
<1>10. CASE StopTakesLock BY <1>10 DEF StopTakesLock
<1>11. ASSUME NEW p \in Ports, StopCloses(p)    PROVE (LockHeld /\ StopProgress /\ OpeningAbsent)'
  BY <1>11 DEF StopCloses
<1>12. CASE StopDiscards  BY <1>12 DEF StopDiscards
<1>13. CASE StopClears    BY <1>13 DEF StopClears
<1> QED
  BY <1>1, <1>2, <1>3, <1>4, <1>5, <1>6, <1>7, <1>8, <1>9, <1>10, <1>11, <1>12, <1>13
  DEF ClientStep, OwnerCall, StopStep

\* Mutual exclusion on the port map, over the blocks that take several steps.
LEMMA LockInvariant == Spec => [](LockHeld /\ StopProgress /\ OpeningAbsent)
<1>1. Init => LockHeld /\ StopProgress /\ OpeningAbsent
  BY DEF Init, LockHeld, StopProgress, OpeningAbsent
<1>2. Typed /\ (LockHeld /\ StopProgress /\ OpeningAbsent) /\ [Next]_vars => (LockHeld /\ StopProgress /\ OpeningAbsent)'
  <2> SUFFICES ASSUME Typed, LockHeld, StopProgress, OpeningAbsent, [Next]_vars  PROVE (LockHeld /\ StopProgress /\ OpeningAbsent)'
    OBVIOUS
  <2>1. CASE Next
    BY <2>1, HandlerStepLock, OtherStepLock, PortStepLock DEF Next, OwnerStep
  <2>2. CASE UNCHANGED vars
    BY <2>2 DEF vars, brokerVars, mapVars, stopVars, threadVars, localVars, serialVars,
       LockHeld, StopProgress, OpeningAbsent
  <2> QED  BY <2>1, <2>2
<1> QED  BY <1>1, <1>2, TypedInvariant, PTL DEF Spec

-----------------------------------------------------------------------------
\* Open devices.

\* A transport leaves the map only in the hands of the thread that closes it.
LEMMA PortStepDevice ==
    ASSUME Typed, OpeningAbsent, NoLeakedDevice, NEW a \in Actors, PortStep(a)
    PROVE  NoLeakedDevice'
<1> USE DEF Typed, TypeOK, NoLeakedDevice, Tracked, LockFree, Attached, Refused, Detached,
            brokerVars, mapVars, stopVars, threadVars, localVars, serialVars
<1>1. CASE AttachExisting(a)  BY <1>1 DEF AttachExisting
<1>2. CASE AttachBusy(a)      BY <1>2 DEF AttachBusy
<1>3. CASE Claim(a)           BY <1>3 DEF Claim
<1>4. ASSUME NEW t \in Transports, DeviceOpens(a, t)
      PROVE  NoLeakedDevice'
  <2>1. PICK q \in Ports : q = port[a] /\ transports[q] = None
    BY <1>4 DEF DeviceOpens, OpeningAbsent, PortKnown, NeedsPort
  <2>2. /\ device'[q] = device[q] \cup {t}
        /\ \A p \in Ports \ {q} : device'[p] = device[p] /\ transports'[p] = transports[p]
        /\ transports'[q] = t
    BY <1>4, <2>1 DEF DeviceOpens
  <2>3. ASSUME NEW p \in Ports, NEW u \in device[p]
        PROVE  Tracked(p, u)'
    <3>1. transports[p] = u => p # q
      BY <2>1, <2>3
    <3>2. CASE transports[p] = u
      BY <2>2, <3>1, <3>2
    <3>3. CASE \E b \in Actors : /\ port[b] = p /\ trans[b] = u
                               /\ pc[b] \in {"dropClose", "detachClose"}
      BY <1>4, <3>3 DEF DeviceOpens
    <3> QED  BY <3>2, <3>3
  <2> QED  BY <2>1, <2>2, <2>3
<1>5. CASE DeviceRefused(a)   BY <1>5 DEF DeviceRefused
<1>6. CASE Detach(a)          BY <1>6 DEF Detach
<1>7. CASE CloseDevice(a)     BY <1>7 DEF CloseDevice
<1>8. CASE DiscardClaim(a)    BY <1>8 DEF DiscardClaim
<1> QED  BY <1>1, <1>2, <1>3, <1>4, <1>5, <1>6, <1>7, <1>8 DEF PortStep

\* In particular a drop takes its own transport out of the map, no other.
LEMMA HandlerStepDevice ==
    ASSUME Typed, OpeningAbsent, NoLeakedDevice, NEW c \in Clients, HandlerStep(c)
    PROVE  NoLeakedDevice'
<1> USE DEF Typed, TypeOK, NoLeakedDevice, Tracked, LockFree, Attached, Refused, Detached,
            brokerVars, mapVars, stopVars, threadVars, localVars, serialVars, Serving
<1>1. CASE HandlerStarts(c)         BY <1>1 DEF HandlerStarts
<1>2. ASSUME NEW p \in Ports, AttachRequested(c, p)
      PROVE  NoLeakedDevice'
  BY <1>2 DEF AttachRequested
<1>3. CASE HandshakeEnds(c)         BY <1>3 DEF HandshakeEnds
<1>4. CASE Lookup(c)                BY <1>4 DEF Lookup
<1>5. CASE ReplySent(c)             BY <1>5 DEF ReplySent
<1>6. CASE ReplyFails(c)            BY <1>6 DEF ReplyFails
<1>7. CASE CountClient(c)           BY <1>7 DEF CountClient
<1>8. CASE TakeLink(c)              BY <1>8 DEF TakeLink
<1>9. CASE ExchangeEnds(c)          BY <1>9 DEF ExchangeEnds
<1>10. CASE LinkFails(c)            BY <1>10 DEF LinkFails
<1>11. CASE DropFailedTransport(c)  BY <1>11 DEF DropFailedTransport, InCharge
<1>12. CASE ClientGone(c)           BY <1>12 DEF ClientGone
<1>13. CASE ReleaseClient(c)        BY <1>13 DEF ReleaseClient, LastClient
<1>14. CASE HandlerEnds(c)          BY <1>14 DEF HandlerEnds
<1>15. CASE PortStep(c)             BY <1>15, PortStepDevice
<1> QED
  BY <1>1, <1>2, <1>3, <1>4, <1>5, <1>6, <1>7, <1>8,
     <1>9, <1>10, <1>11, <1>12, <1>13, <1>14, <1>15 DEF HandlerStep

\* stop() clears the map when it has closed every port in it.
LEMMA OtherStepDevice ==
    ASSUME Typed, LockHeld, StopProgress, OpeningAbsent, NoLeakedDevice,
           (\E c \in Clients : ClientStep(c)) \/ OwnerCall \/ StopStep
    PROVE  NoLeakedDevice'
<1> USE DEF Typed, TypeOK, NoLeakedDevice, Tracked, LockFree, Attached, Refused, Detached,
            brokerVars, mapVars, stopVars, threadVars, localVars, serialVars, StopProgress
<1>1. ASSUME NEW c \in Clients, ClientConnects(c)PROVE NoLeakedDevice'
  BY <1>1 DEF ClientConnects
<1>2. ASSUME NEW c \in Clients, ClientLeaves(c) PROVE NoLeakedDevice'
  BY <1>2 DEF ClientLeaves
<1>3. ASSUME NEW c \in Clients, Request(c)      PROVE NoLeakedDevice'
  BY <1>3 DEF Request
<1>4. ASSUME NEW c \in Clients, HangUp(c)       PROVE NoLeakedDevice'
  BY <1>4 DEF HangUp
<1>5. CASE Start          BY <1>5 DEF Start
<1>6. CASE Stop           BY <1>6 DEF Stop
<1>7. ASSUME NEW p \in Ports, OwnerAttaches(p)  PROVE NoLeakedDevice'
  BY <1>7 DEF OwnerAttaches
<1>8. ASSUME NEW p \in Ports, OwnerDetaches(p)  PROVE NoLeakedDevice'
  BY <1>8 DEF OwnerDetaches
<1>9. CASE StopHangsUp    BY <1>9 DEF StopHangsUp
<1>10. CASE StopTakesLock BY <1>10 DEF StopTakesLock
<1>11. ASSUME NEW p \in Ports, StopCloses(p)    PROVE NoLeakedDevice'
  BY <1>11 DEF StopCloses
<1>12. CASE StopDiscards  BY <1>12 DEF StopDiscards
<1>13. CASE StopClears    BY <1>13 DEF StopClears
<1> QED
  BY <1>1, <1>2, <1>3, <1>4, <1>5, <1>6, <1>7, <1>8, <1>9, <1>10, <1>11, <1>12, <1>13
  DEF ClientStep, OwnerCall, StopStep

\* Every open device is in the port map or in the hands of a thread that is
\* about to close it: nothing the broker does loses an open port.
THEOREM DevicesTracked == Spec => []NoLeakedDevice
<1>1. Init => NoLeakedDevice
  BY DEF Init, NoLeakedDevice
<1>2. Typed /\ LockHeld /\ StopProgress /\ OpeningAbsent /\ NoLeakedDevice /\ [Next]_vars => NoLeakedDevice'
  <2> SUFFICES ASSUME Typed, LockHeld, StopProgress, OpeningAbsent, NoLeakedDevice, [Next]_vars  PROVE NoLeakedDevice'
    OBVIOUS
  <2>1. CASE Next
    BY <2>1, HandlerStepDevice, OtherStepDevice, PortStepDevice DEF Next, OwnerStep
  <2>2. CASE UNCHANGED vars
    BY <2>2 DEF vars, brokerVars, mapVars, stopVars, threadVars, localVars, serialVars,
       NoLeakedDevice, Tracked
  <2> QED  BY <2>1, <2>2
<1> QED  BY <1>1, <1>2, TypedInvariant, LockInvariant, PTL DEF Spec
=============================================================================
