----------------------------- MODULE FaultProofs -----------------------------
(* What a fault on the line costs, for any callers, connections and bounds:  *)
(* one call at most.                                                        *)
EXTENDS LinkProofs, FiniteSetTheorems

USE LinkAssumption DEF Users, Callers

\* Errors that a caller has still to be told: at the end of send_frame, and on the way
\* back to a remote caller.
Owing == {u \in Users : At(u, "done") /\ user[u].ans = 0}
Refused == {k \in Conns : down[k] = 0}

\* The exchange under way is as it should be: the request or its reply is on the line,
\* and nothing else is.
Sound(u) ==
    /\ At(u, "reading") /\ Len(inbox) + Len(wire) + Len(buffer) = 1
    /\ ~On(wire, Garbled) /\ ~On(buffer, Garbled) /\ ~On(buffer, Header)
Spoiled == IF holder # None /\ ~Sound(holder) THEN 1 ELSE 0

\* Every error told, owed, or to come was paid for by a fault of its own.
Debts == failures + Cardinality(Owing) + Cardinality(Refused) + Spoiled
Paid ==
    /\ IsFiniteSet(Owing) /\ IsFiniteSet(Refused)
    /\ opened /\ ~LateReplies => Debts <= faults

-----------------------------------------------------------------------------
(* Counting                                                                 *)

\* A set that has grown by one element at most.
LEMMA OneMore ==
    ASSUME NEW S, IsFiniteSet(S), NEW x, NEW T, T \subseteq S \cup {x}
    PROVE  /\ IsFiniteSet(T) /\ Cardinality(T) \in Nat /\ Cardinality(S) \in Nat
           /\ Cardinality(T) <= Cardinality(S) + 1
<1>1. /\ IsFiniteSet(S \cup {x})
      /\ Cardinality(S \cup {x}) = IF x \in S THEN Cardinality(S) ELSE Cardinality(S) + 1
  BY FS_AddElement
<1>2. IsFiniteSet(T) /\ Cardinality(T) <= Cardinality(S \cup {x})
  BY <1>1, FS_Subset
<1>3. Cardinality(T) \in Nat /\ Cardinality(S) \in Nat
  BY <1>2, FS_CardinalityType
<1> QED  BY <1>1, <1>2, <1>3

\* A set that has not grown.
LEMMA NoMore ==
    ASSUME NEW S, IsFiniteSet(S), NEW T, T \subseteq S
    PROVE  /\ IsFiniteSet(T) /\ Cardinality(T) \in Nat /\ Cardinality(S) \in Nat
           /\ Cardinality(T) <= Cardinality(S)
BY FS_Subset, FS_CardinalityType

\* A set that has lost an element.
LEMMA OneLess ==
    ASSUME NEW S, IsFiniteSet(S), NEW x \in S, NEW T, T \subseteq S \ {x}
    PROVE  /\ IsFiniteSet(T) /\ Cardinality(T) \in Nat /\ Cardinality(S) \in Nat
           /\ Cardinality(T) + 1 <= Cardinality(S)
<1>1. IsFiniteSet(S \ {x}) /\ Cardinality(S \ {x}) = Cardinality(S) - 1
  BY FS_RemoveElement
<1>2. IsFiniteSet(T) /\ Cardinality(T) <= Cardinality(S \ {x})
  BY <1>1, FS_Subset
<1>3. Cardinality(T) \in Nat /\ Cardinality(S) \in Nat
  BY <1>2, FS_CardinalityType
<1> QED  BY <1>1, <1>2, <1>3

\* Nothing is owed that was not, and what goes wrong is a fault.
LEMMA NothingOwed ==
    ASSUME Paid, IInv, IInv', Owing' \subseteq Owing, Refused' \subseteq Refused,
           failures' = failures, opened' => opened,
           ~LateReplies => Spoiled' <= Spoiled + (faults' - faults)
    PROVE  Paid'
<1>1. /\ IsFiniteSet(Owing') /\ Cardinality(Owing') \in Nat /\ Cardinality(Owing) \in Nat
      /\ Cardinality(Owing') <= Cardinality(Owing)
  BY NoMore DEF Paid
<1>2. /\ IsFiniteSet(Refused') /\ Cardinality(Refused') \in Nat /\ Cardinality(Refused) \in Nat
      /\ Cardinality(Refused') <= Cardinality(Refused)
  BY NoMore DEF Paid
<1>3. /\ failures \in Nat /\ faults \in Nat /\ faults' \in Nat
      /\ Spoiled \in {0, 1} /\ Spoiled' \in {0, 1}
  BY DEF IInv, Typed, TypeOK, Spoiled
<1>4. ASSUME opened', ~LateReplies
      PROVE  Debts' <= faults'
  <2>1. PICK g \in Nat, y \in {0, 1} : g = faults' /\ y = Spoiled'
    BY <1>3
  <2>2. PICK o \in Nat, r \in Nat : o = Cardinality(Owing') /\ r = Cardinality(Refused')
    BY <1>1, <1>2
  <2>3. Debts <= faults /\ y <= Spoiled + (g - faults)
    BY <1>4, <2>1 DEF Paid
  <2>4. o <= Cardinality(Owing) /\ r <= Cardinality(Refused)
    BY <1>1, <1>2, <2>2
  <2>5. failures + o + r + y <= g
    BY <1>1, <1>2, <1>3, <2>3, <2>4 DEF Debts
  <2> QED  BY <2>1, <2>2, <2>5 DEF Debts
<1> QED  BY <1>1, <1>2, <1>4 DEF Paid

\* A call of send_frame fails. Its exchange was spoiled before, or this is a fault.
LEMMA CallFails ==
    ASSUME Paid, IInv, IInv', NEW u \in Users, Owing' \subseteq Owing \cup {u},
           Refused' \subseteq Refused, failures' = failures, opened' => opened,
           \/ Spoiled = 1 /\ Spoiled' = 0 /\ faults' = faults
           \/ Spoiled' = 0 /\ faults' = faults + 1
    PROVE  Paid'
<1>1. /\ IsFiniteSet(Owing') /\ Cardinality(Owing') \in Nat /\ Cardinality(Owing) \in Nat
      /\ Cardinality(Owing') <= Cardinality(Owing) + 1
  BY OneMore DEF Paid
<1>2. /\ IsFiniteSet(Refused') /\ Cardinality(Refused') \in Nat /\ Cardinality(Refused) \in Nat
      /\ Cardinality(Refused') <= Cardinality(Refused)
  BY NoMore DEF Paid
<1>3. /\ failures \in Nat /\ faults \in Nat /\ faults' \in Nat
      /\ Spoiled \in {0, 1} /\ Spoiled' \in {0, 1}
  BY DEF IInv, Typed, TypeOK, Spoiled
<1> QED  BY <1>1, <1>2, <1>3 DEF Paid, Debts

\* Who has the lock is in the call he reads for; nobody else's place has changed.
LEMMA HolderReads ==
    ASSUME IInv
    PROVE  /\ \A u \in Users : Reading(u) => holder = u /\ holder # None
           /\ holder # None => holder \in Users /\ Reading(holder)
BY DEF IInv, Line, Typed, TypeOK, OneReader

\* What an end of a call makes of who is owed an error.
LEMMA EndsOwing ==
    ASSUME IInv, NEW u \in Users, NEW ans \in Reply, Ends(u, ans), UNCHANGED down
    PROVE  /\ Owing' \subseteq Owing \cup {u} /\ Refused' = Refused
           /\ ans # 0 => Owing' \subseteq Owing
           /\ holder = u => Spoiled' = 0
           /\ holder # u => holder' = holder
<1>1. /\ \A v \in Users \ {u} : user'[v] = user[v]
      /\ user'[u].pc = "done" /\ user'[u].ans = ans
  BY EndsTyped DEF IInv
<1>2. Owing' \subseteq Owing \cup {u} /\ (ans # 0 => Owing' \subseteq Owing)
  BY <1>1 DEF Owing, At
<1> QED  BY <1>2 DEF Refused, Spoiled, Ends

-----------------------------------------------------------------------------
(* The steps of send_frame                                                  *)

\* A request on an empty line, after the purge, is a sound exchange.
LEMMA SendPays ==
    ASSUME IInv, IInv', Paid, NEW u \in Users, Send(u)
    PROVE  Paid'
<1> USE DEF Send
<1>1. /\ \A v \in Users \ {u} : user'[v] = user[v]
      /\ user'[u].pc = "reading" /\ user[u].pc = "waiting"
  BY GoesTyped DEF IInv, PCs, At
<1>2. Owing' \subseteq Owing /\ Refused' \subseteq Refused
  BY <1>1 DEF Owing, Refused, At, netVars
<1>3. ASSUME ~LateReplies  PROVE Spoiled' = 0
  <2>1. inbox = <<>> /\ wire = <<>> /\ buffer' = <<>> /\ wire' = <<>>
    BY <1>3 DEF Settled, Purged
  <2>2. Len(inbox') = 1 /\ Len(wire') = 0 /\ Len(buffer') = 0
    BY <2>1
  <2>3. Sound(u)'
    BY <1>1, <2>1, <2>2, OnEmpty DEF Sound, At
  <2> QED  BY <2>3 DEF Spoiled
<1>4. faults \in Nat /\ faults' = faults /\ Spoiled \in {0, 1}
  BY DEF IInv, Typed, TypeOK, Spoiled
<1> QED  BY <1>2, <1>3, <1>4, NothingOwed

\* A frame is read. When it is no answer, the exchange was spoiled.
LEMMA ReadFramePays ==
    ASSUME IInv, IInv', Paid, NEW u \in Users, ReadFrame(u)
    PROVE  Paid'
<1> DEFINE ans == IF Head(buffer) = Garbled THEN 0 ELSE Head(buffer)
<1>1. /\ At(u, "reading") /\ Ends(u, ans) /\ buffer # <<>> /\ buffer \in Seq(Item)
      /\ UNCHANGED <<down, failures, faults, opened>> /\ Head(buffer) # Header
  BY DEF ReadFrame, netVars, IInv, Typed, SeqTypes
<1>2. On(buffer, Head(buffer)) /\ Head(buffer) \in Item
  BY <1>1, OnHeadTail
<1>3. ans \in Reply /\ (ans = 0 => Head(buffer) = Garbled)
  BY <1>1, <1>2 DEF Item, Reply
<1>4. holder = u /\ holder # None
  BY <1>1, HolderReads DEF Reading, At
<1>5. /\ Owing' \subseteq Owing \cup {u} /\ Refused' \subseteq Refused
      /\ (ans # 0 => Owing' \subseteq Owing) /\ Spoiled' = 0
  BY <1>1, <1>3, <1>4, EndsOwing
<1>6. CASE ans = 0
  <2>1. Spoiled = 1
    BY <1>2, <1>3, <1>4, <1>6 DEF Spoiled, Sound
  <2> QED  BY <1>1, <1>5, <2>1, CallFails
<1>7. CASE ans # 0
  <2>1. Spoiled \in {0, 1} /\ faults \in Nat
    BY DEF Spoiled, IInv, Typed, TypeOK
  <2> QED  BY <1>1, <1>5, <1>7, <2>1, NothingOwed
<1> QED  BY <1>6, <1>7

\* Noise and a misled reader mean that the exchange is spoiled.
LEMMA MisledPays ==
    ASSUME IInv, IInv', Paid, NEW u \in Users, Misled(u)
    PROVE  Paid'
<1> USE DEF Misled
<1>1. /\ \A v \in Users \ {u} : user'[v] = user[v]
      /\ user'[u].pc = "misled" /\ user[u].pc = "reading"
  BY GoesTyped DEF IInv, PCs, At
<1>2. Owing' \subseteq Owing /\ Refused' \subseteq Refused
  BY <1>1 DEF Owing, Refused, At, netVars
<1>3. holder = u /\ holder # None
  BY <1>1, HolderReads DEF Reading
<1>4. On(buffer, Header)
  BY OnHeadTail DEF IInv, Typed, SeqTypes
<1>5. Spoiled = 1 /\ Spoiled' \in {0, 1} /\ faults \in Nat
  BY <1>3, <1>4 DEF Spoiled, Sound, IInv, Typed, TypeOK
<1> QED  BY <1>2, <1>5, NothingOwed

\* He swallows what follows, or fails.
LEMMA SwallowFramePays ==
    ASSUME IInv, IInv', Paid, NEW u \in Users, SwallowFrame(u)
    PROVE  Paid'
<1>1. /\ user[u].pc = "misled" /\ holder = u /\ holder # None
      /\ UNCHANGED <<down, failures, faults, opened>>
  BY HolderReads DEF SwallowFrame, Reading, At, netVars
<1>2. Spoiled = 1 /\ faults \in Nat
  BY <1>1 DEF Spoiled, Sound, At, IInv, Typed, TypeOK
<1>3. CASE UNCHANGED <<user, holder>>
  <2>1. Owing' \subseteq Owing /\ Refused' \subseteq Refused /\ Spoiled' \in {0, 1}
    BY <1>1, <1>3 DEF Owing, Refused, At, Spoiled
  <2> QED  BY <1>1, <1>2, <2>1, NothingOwed
<1>4. CASE Ends(u, 0)
  <2>1. Owing' \subseteq Owing \cup {u} /\ Refused' \subseteq Refused /\ Spoiled' = 0
    BY <1>1, <1>4, EndsOwing DEF Reply
  <2> QED  BY <1>1, <1>2, <2>1, CallFails
<1> QED  BY <1>3, <1>4 DEF SwallowFrame

\* A reader gives up because his reply is lost, or too early, which is a fault.
LEMMA ReadTimesOutPays ==
    ASSUME IInv, IInv', Paid, NEW u \in Users, ReadTimesOut(u)
    PROVE  Paid'
<1>1. /\ user[u].pc \in {"reading", "misled"} /\ buffer = <<>> /\ Ends(u, 0) /\ 0 \in Reply
      /\ UNCHANGED <<down, failures, opened>>
  BY DEF ReadTimesOut, Waited, netVars, Reply
<1>2. holder = u /\ holder # None
  BY <1>1, HolderReads DEF Reading
<1>3. Owing' \subseteq Owing \cup {u} /\ Refused' \subseteq Refused /\ Spoiled' = 0
  BY <1>1, <1>2, EndsOwing
<1>4. CASE inbox = <<>> /\ wire = <<>> /\ UNCHANGED faults
  <2>1. Len(inbox) + Len(wire) + Len(buffer) = 0
    BY <1>1, <1>4
  <2>2. Spoiled = 1
    BY <1>2, <2>1 DEF Spoiled, Sound
  <2> QED  BY <1>1, <1>3, <1>4, <2>2, CallFails
<1>5. CASE Fault
  BY <1>1, <1>3, <1>5, CallFails DEF Fault
<1> QED  BY <1>4, <1>5 DEF ReadTimesOut

\* A device that fails is a fault.
LEMMA LinkFailsPays ==
    ASSUME IInv, IInv', Paid, NEW u \in Users, LinkFails(u)
    PROVE  Paid'
<1>0. 0 \in Reply
  BY DEF Reply
<1>1. /\ user[u].pc \in {"reading", "misled"} /\ Ends(u, 0)
      /\ down' = down /\ failures' = failures /\ (opened' => opened) /\ faults' = faults + 1
  BY DEF LinkFails, Fault, netVars
<1>2. holder = u
  BY <1>1, HolderReads DEF Reading
<1> QED  BY <1>0, <1>1, <1>2, EndsOwing, CallFails

\* A port that is closed owes nothing.
LEMMA NotOpenPays ==
    ASSUME IInv, IInv', Paid, NEW u \in Users, NotOpen(u)
    PROVE  Paid'
<1>1. Owing' \subseteq Owing \cup {u} /\ Refused' \subseteq Refused
  BY EndsOwing DEF NotOpen, Reply, netVars
<1>2. IsFiniteSet(Owing') /\ IsFiniteSet(Refused')
  BY <1>1, OneMore, NoMore DEF Paid
<1> QED  BY <1>2 DEF Paid, NotOpen

-----------------------------------------------------------------------------
(* The line                                                                 *)

\* What is on the line changes, and a sound exchange stays sound or this is a fault.
LEMMA LineKeepsPaid ==
    ASSUME IInv, IInv', Paid, UNCHANGED <<user, holder, opened, netVars, failures>>,
           \/ faults' = faults + 1
           \/ faults' = faults /\ (holder # None /\ Sound(holder) => Sound(holder)')
    PROVE  Paid'
<1>1. Owing' \subseteq Owing /\ Refused' \subseteq Refused
  BY DEF Owing, Refused, At, netVars
<1>2. Spoiled \in {0, 1} /\ Spoiled' \in {0, 1} /\ faults \in Nat
  BY DEF Spoiled, IInv, Typed, TypeOK
<1>3. Spoiled' <= Spoiled + (faults' - faults)
  BY <1>2 DEF Spoiled
<1> QED  BY <1>1, <1>3, NothingOwed

\* The arm's answer takes the place of the request.
LEMMA ArmAnswersPays ==
    ASSUME IInv, IInv', Paid, ArmAnswers
    PROVE  Paid'
<1>1. /\ inbox # <<>> /\ inbox \in Seq(Requests) /\ wire \in Seq(Requests \cup {Garbled})
      /\ buffer \in Seq(Item) /\ UNCHANGED <<user, holder, opened, netVars, failures, buffer>>
      /\ inbox' = Tail(inbox)
  BY DEF ArmAnswers, IInv, Typed, SeqTypes
<1>2. CASE wire' = Append(wire, Head(inbox)) /\ UNCHANGED faults
  <2>1. Head(inbox) \in Requests /\ Len(inbox') = Len(inbox) - 1
    BY <1>1, OnHeadTail
  <2>2. Head(inbox) # Garbled /\ Len(wire') = Len(wire) + 1
    BY <1>1, <1>2, <2>1 DEF Requests
  <2>3. ~On(wire, Garbled) => ~On(wire', Garbled)
    BY <1>1, <1>2, <2>1, <2>2, OnAppend
  <2>4. Len(inbox') + Len(wire') + Len(buffer') = Len(inbox) + Len(wire) + Len(buffer)
    BY <1>1, <2>1, <2>2
  <2>5. \A u \in Users : Sound(u) => Sound(u)'
    BY <1>1, <2>3, <2>4 DEF Sound, At
  <2> QED  BY <1>1, <1>2, <2>5, HolderReads, LineKeepsPaid
<1>3. CASE Fault
  BY <1>1, <1>3, LineKeepsPaid DEF Fault
<1> QED  BY <1>2, <1>3 DEF ArmAnswers

\* Bytes arrive.
LEMMA ArrivePays ==
    ASSUME IInv, IInv', Paid, Arrive
    PROVE  Paid'
<1>1. /\ wire # <<>> /\ inbox \in Seq(Requests) /\ wire \in Seq(Requests \cup {Garbled})
      /\ buffer \in Seq(Item)
      /\ UNCHANGED <<user, holder, opened, netVars, failures, faults, inbox>>
      /\ wire' = Tail(wire) /\ buffer' = Append(buffer, Head(wire))
  BY DEF Arrive, IInv, Typed, SeqTypes
<1>2. /\ On(wire, Head(wire)) /\ Head(wire) \in Requests \cup {Garbled}
      /\ \A r : On(Tail(wire), r) => On(wire, r)
      /\ Len(wire') = Len(wire) - 1
  BY <1>1, OnHeadTail
<1>3. Head(wire) \in Item /\ Head(wire) # Header
  BY <1>2 DEF Requests, Item
<1>4. (\A r : On(buffer', r) <=> On(buffer, r) \/ r = Head(wire)) /\ Len(buffer') = Len(buffer) + 1
  BY <1>1, <1>3, OnAppend
<1>5. Len(inbox') + Len(wire') + Len(buffer') = Len(inbox) + Len(wire) + Len(buffer)
  BY <1>1, <1>2, <1>4
<1>6. \A u \in Users : Sound(u) => Sound(u)'
  BY <1>1, <1>2, <1>3, <1>4, <1>5 DEF Sound, At
<1> QED  BY <1>1, <1>6, HolderReads, LineKeepsPaid

-----------------------------------------------------------------------------
(* The callers                                                              *)

\* The lock and the line stay as they are.
Aside == UNCHANGED <<holder, opened, lineVars>>

\* A thread with no exchange under way takes a step aside of the line.
LEMMA AsideSpoils ==
    ASSUME IInv, IInv', Aside, NEW u \in Users, ~Reading(u),
           \A v \in Users \ {u} : user'[v] = user[v]
    PROVE  Spoiled' = Spoiled
<1>1. holder # None => holder \in Users \ {u}
  BY HolderReads
<1>2. holder # None => (Sound(holder) <=> Sound(holder)')
  BY <1>1 DEF Sound, At, Aside, lineVars
<1> QED  BY <1>2 DEF Spoiled, Aside

\* A caller is told, and this was owed or is a fault.
LEMMA LocalReturnsPays ==
    ASSUME IInv, IInv', Paid, NEW c \in Local, LocalReturns(c)
    PROVE  Paid'
<1>1. /\ user[c].pc = "done" /\ user' = [user EXCEPT ![c] = Idle] /\ Aside /\ UNCHANGED down
      /\ UNCHANGED faults /\ (IF user[c].ans = 0 THEN failures' = failures + 1
                                                 ELSE UNCHANGED failures)
  BY DEF LocalReturns, Returned, At, Aside, netVars
<1>2. /\ \A v \in Users \ {c} : user'[v] = user[v]
      /\ user'[c].pc = "idle"
  BY <1>1 DEF IInv, Typed, TypeOK, Idle
<1>3. Spoiled' = Spoiled
  BY <1>1, <1>2, AsideSpoils DEF Reading
<1>4. Owing' \subseteq Owing \ {c} /\ Refused' \subseteq Refused
  BY <1>1, <1>2 DEF Owing, Refused, At
<1>5. Spoiled \in {0, 1} /\ faults \in Nat /\ failures \in Nat
  BY DEF Spoiled, IInv, Typed, TypeOK
<1>6. CASE user[c].ans = 0
  <2>1. c \in Owing
    BY <1>1, <1>6 DEF Owing, At
  <2>2. /\ IsFiniteSet(Owing') /\ Cardinality(Owing') \in Nat /\ Cardinality(Owing) \in Nat
        /\ Cardinality(Owing') + 1 <= Cardinality(Owing)
    BY <1>4, <2>1, OneLess DEF Paid
  <2>3. /\ IsFiniteSet(Refused') /\ Cardinality(Refused') \in Nat /\ Cardinality(Refused) \in Nat
        /\ Cardinality(Refused') <= Cardinality(Refused)
    BY <1>4, NoMore DEF Paid
  <2> QED  BY <1>1, <1>3, <1>5, <1>6, <2>2, <2>3 DEF Paid, Debts, Aside
<1>7. CASE user[c].ans # 0
  BY <1>1, <1>3, <1>4, <1>5, <1>7, NothingOwed DEF Aside
<1> QED  BY <1>6, <1>7

\* The error that a handler has sent.
LEMMA RemoteReturnsPays ==
    ASSUME IInv, IInv', Paid, NEW c \in Remote, RemoteReturns(c)
    PROVE  Paid'
<1> DEFINE k == socket[c]
<1>1. /\ k \in Conns /\ down[k] # None /\ down' = [down EXCEPT ![k] = None]
      /\ Aside /\ UNCHANGED <<user, faults>>
      /\ (IF down[k] = 0 THEN failures' = failures + 1 ELSE UNCHANGED failures)
  BY DEF RemoteReturns, Returned, Aside, IInv, Typed, TypeOK
<1>2. down'[k] # 0 /\ \A l \in Conns \ {k} : down'[l] = down[l]
  BY <1>1 DEF IInv, Typed, TypeOK
<1>3. Spoiled' = Spoiled
  BY <1>1 DEF Spoiled, Sound, At, Aside, lineVars
<1>4. Owing' \subseteq Owing /\ Refused' \subseteq Refused \ {k}
  BY <1>1, <1>2 DEF Owing, Refused, At
<1>5. Spoiled \in {0, 1} /\ faults \in Nat /\ failures \in Nat
  BY DEF Spoiled, IInv, Typed, TypeOK
<1>6. CASE down[k] = 0
  <2>1. k \in Refused
    BY <1>1, <1>6 DEF Refused
  <2>2. /\ IsFiniteSet(Refused') /\ Cardinality(Refused') \in Nat /\ Cardinality(Refused) \in Nat
        /\ Cardinality(Refused') + 1 <= Cardinality(Refused)
    BY <1>4, <2>1, OneLess DEF Paid
  <2>3. /\ IsFiniteSet(Owing') /\ Cardinality(Owing') \in Nat /\ Cardinality(Owing) \in Nat
        /\ Cardinality(Owing') <= Cardinality(Owing)
    BY <1>4, NoMore DEF Paid
  <2> QED  BY <1>1, <1>3, <1>5, <1>6, <2>2, <2>3 DEF Paid, Debts, Aside
<1>7. CASE down[k] # 0
  BY <1>1, <1>3, <1>4, <1>5, <1>7, NothingOwed DEF Aside
<1> QED  BY <1>6, <1>7

\* A handler passes on the error it owes.
LEMMA SendReplyPays ==
    ASSUME IInv, IInv', Paid, NEW k \in Conns, SendReply(k)
    PROVE  Paid'
<1>1. /\ user[k].pc = "done" /\ user' = [user EXCEPT ![k] = Idle] /\ Aside
      /\ down' = [down EXCEPT ![k] = user[k].ans] /\ UNCHANGED <<failures, faults>>
  BY DEF SendReply, At, Aside
<1>2. /\ \A v \in Users \ {k} : user'[v] = user[v]
      /\ user'[k].pc = "idle"
      /\ down'[k] = user[k].ans /\ \A l \in Conns \ {k} : down'[l] = down[l]
  BY <1>1 DEF IInv, Typed, TypeOK, Idle
<1>3. Spoiled' = Spoiled
  BY <1>1, <1>2, AsideSpoils DEF Reading
<1>4. Owing' \subseteq Owing \ {k} /\ Refused' \subseteq Refused \cup {k}
      /\ (user[k].ans # 0 => Refused' \subseteq Refused)
  BY <1>1, <1>2 DEF Owing, Refused, At
<1>5. Spoiled \in {0, 1} /\ faults \in Nat /\ failures \in Nat
  BY DEF Spoiled, IInv, Typed, TypeOK
<1>6. CASE user[k].ans = 0
  <2>1. k \in Owing
    BY <1>1, <1>6 DEF Owing, At
  <2>2. /\ IsFiniteSet(Owing') /\ Cardinality(Owing') \in Nat /\ Cardinality(Owing) \in Nat
        /\ Cardinality(Owing') + 1 <= Cardinality(Owing)
    BY <1>4, <2>1, OneLess DEF Paid
  <2>3. /\ IsFiniteSet(Refused') /\ Cardinality(Refused') \in Nat /\ Cardinality(Refused) \in Nat
        /\ Cardinality(Refused') <= Cardinality(Refused) + 1
    BY <1>4, OneMore DEF Paid
  <2> QED  BY <1>1, <1>3, <1>5, <2>2, <2>3 DEF Paid, Debts, Aside
<1>7. CASE user[k].ans # 0
  BY <1>1, <1>3, <1>4, <1>5, <1>7, NothingOwed DEF Aside
<1> QED  BY <1>6, <1>7

\* A request begins, or waits for its turn.
LEMMA BeginPays ==
    ASSUME IInv, IInv', Paid, NEW u \in Users, user[u].pc = "idle", NEW r, Begin(u, r), Aside,
           UNCHANGED <<down, failures, faults>>
    PROVE  Paid'
<1>1. user'[u].pc = "waiting" /\ \A v \in Users \ {u} : user'[v] = user[v]
  BY DEF Begin, IInv, Typed, TypeOK
<1>2. Spoiled' = Spoiled /\ Spoiled \in {0, 1} /\ faults \in Nat
  BY <1>1, AsideSpoils DEF Reading, Spoiled, IInv, Typed, TypeOK
<1>3. Owing' \subseteq Owing /\ Refused' \subseteq Refused
  BY <1>1 DEF Owing, Refused, At
<1> QED  BY <1>2, <1>3, NothingOwed DEF Aside

\* A caller that gives up is told, and that is a fault.
LEMMA GiveUpPays ==
    ASSUME IInv, IInv', Paid, NEW c \in Remote, GiveUp(c)
    PROVE  Paid'
<1>1. /\ failures' = failures + 1 /\ faults' = faults + 1
      /\ UNCHANGED <<user, down>> /\ Aside
  BY DEF GiveUp, Fault, Returned, Aside
<1>2. Owing' = Owing /\ Refused' = Refused /\ Spoiled' = Spoiled
  BY <1>1 DEF Owing, Refused, Spoiled, Sound, At, Aside, lineVars
<1>3. /\ IsFiniteSet(Owing) /\ Cardinality(Owing) \in Nat
      /\ IsFiniteSet(Refused) /\ Cardinality(Refused) \in Nat
  BY NoMore DEF Paid
<1>4. Spoiled \in {0, 1} /\ faults \in Nat /\ failures \in Nat
  BY DEF Spoiled, IInv, Typed, TypeOK
<1> QED  BY <1>1, <1>2, <1>3, <1>4 DEF Paid, Debts, Aside

\* A connection is made, or a request is sent on one.
LEMMA SocketPays ==
    ASSUME IInv, IInv', Paid, Aside, UNCHANGED <<user, failures, faults>>,
           \A k \in Conns : down'[k] \in {None, down[k]}
    PROVE  Paid'
<1>1. Owing' \subseteq Owing /\ Refused' \subseteq Refused
  BY DEF Owing, Refused, At
<1>2. Spoiled' = Spoiled /\ Spoiled \in {0, 1} /\ faults \in Nat
  BY DEF Spoiled, Sound, At, Aside, lineVars, IInv, Typed, TypeOK
<1> QED  BY <1>1, <1>2, NothingOwed DEF Aside

-----------------------------------------------------------------------------
(* The theorem                                                              *)

LEMMA InitPaid ==
    ASSUME Init
    PROVE  Paid
<1>1. \A u \in Users : user[u].pc = "idle"
  BY DEF Init, Idle
<1>2. Owing = {} /\ Refused = {} /\ Spoiled = 0 /\ failures = 0 /\ faults = 0
  BY <1>1 DEF Init, Owing, Refused, Spoiled, At
<1> QED  BY <1>2, FS_EmptySet DEF Paid, Debts

\* Every step keeps the books.
LEMMA NextPays ==
    ASSUME IInv, Paid, [Next]_vars
    PROVE  Paid'
<1>0. IInv'
  BY NextKeeps
<1>1. ASSUME NEW u \in Users, SerialStep(u)
      PROVE  Paid'
  BY <1>0, <1>1, SendPays, NotOpenPays, ReadFramePays, MisledPays, SwallowFramePays,
     ReadTimesOutPays, LinkFailsPays
  DEF SerialStep
<1>2. ASSUME NEW c \in Local, LocalStep(c)
      PROVE  Paid'
  <2>1. CASE LocalAsks(c)
    <3>1. user[c].pc = "idle"
      BY <2>1 DEF LocalAsks, NextRequest, IInv, Places, LocalPlace, At
    <3> QED  BY <1>0, <2>1, <3>1, BeginPays DEF LocalAsks, Aside, netVars
  <2>2. CASE LocalReturns(c)
    BY <1>0, <2>2, LocalReturnsPays
  <2> QED  BY <1>2, <2>1, <2>2 DEF LocalStep
<1>3. ASSUME NEW c \in Remote, RemoteStep(c)
      PROVE  Paid'
  <2>1. CASE Connect(c) \/ RemoteAsks(c)
    <3>1. Aside /\ UNCHANGED <<user, failures, faults>>
      BY <2>1 DEF Connect, RemoteAsks, Aside
    <3>2. \A k \in Conns : down'[k] \in {None, down[k]}
      BY <2>1 DEF Connect, RemoteAsks, IInv, Typed, TypeOK
    <3> QED  BY <1>0, <3>1, <3>2, SocketPays
  <2>2. CASE RemoteReturns(c)
    BY <1>0, <2>2, RemoteReturnsPays
  <2>3. CASE GiveUp(c)
    BY <1>0, <2>3, GiveUpPays
  <2> QED  BY <1>3, <2>1, <2>2, <2>3 DEF RemoteStep
<1>4. ASSUME NEW k \in Conns, HandlerStep(k)
      PROVE  Paid'
  <2>1. CASE TakeRequest(k)
    BY <1>0, <2>1, BeginPays DEF TakeRequest, Aside, At
  <2>2. CASE SendReply(k)
    BY <1>0, <2>2, SendReplyPays
  <2> QED  BY <1>4, <2>1, <2>2 DEF HandlerStep
<1>5. CASE LineStep
  <2>1. CASE RequestLost \/ Noise
    BY <1>0, <2>1, LineKeepsPaid DEF RequestLost, Noise, Fault
  <2> QED  BY <1>0, <1>5, <2>1, ArmAnswersPays, ArrivePays DEF LineStep
<1>6. CASE UNCHANGED vars
  <2>1. Aside /\ UNCHANGED <<user, failures, faults, down>>
    BY <1>6 DEF vars, Aside, netVars
  <2> QED  BY <1>0, <2>1, SocketPays
<1> QED  BY <1>1, <1>2, <1>3, <1>4, <1>5, <1>6 DEF Next

\* transport.py send_frame: as long as the port is open and replies are punctual, no
\* more calls fail than things have gone wrong. A late, lost or garbled reply, or noise
\* that looks like a header, costs the call it hits and never the one after it.
THEOREM FaultsCostOneCall == ~LateReplies /\ Spec => []OneFaultOneFailure
<1>1. Init => Paid
  BY InitPaid
<1>2. IInv /\ Paid /\ [Next]_vars => Paid'
  BY NextPays
<1>3. ASSUME ~LateReplies, IInv, Paid  PROVE OneFaultOneFailure
  <2>1. /\ Cardinality(Owing) \in Nat /\ Cardinality(Refused) \in Nat
        /\ Spoiled \in {0, 1} /\ failures \in Nat /\ faults \in Nat
    BY <1>3, NoMore DEF Paid, Spoiled, IInv, Typed, TypeOK
  <2> QED  BY <1>3, <2>1 DEF Paid, Debts, OneFaultOneFailure
<1>4. CASE LateReplies
  BY <1>4
<1>5. CASE ~LateReplies
  <2>1. IInv /\ Paid => OneFaultOneFailure
    BY <1>3, <1>5
  <2> QED  BY <1>1, <1>2, <1>5, <2>1, LinkInductive, PTL DEF Spec
<1> QED  BY <1>4, <1>5
=============================================================================
