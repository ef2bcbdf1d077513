----------------------------- MODULE LinkProofs -----------------------------
(* Theorems about Link, for any callers, connections and bounds: who has what *)
(* on the line and on the connections, and that with punctual replies Link   *)
(* implements Calls.                                                        *)
EXTENDS Link, TLAPS

USE LinkAssumption DEF Users, Callers

Requests == 1..MaxRequests
PCs == {"idle", "waiting", "reading", "misled", "done"}
User == [pc : PCs, req : Reply, ans : Reply]

SeqTypes ==
    /\ inbox \in Seq(Requests) /\ wire \in Seq(Requests \cup {Garbled}) /\ buffer \in Seq(Item)

\* Requests are numbered in the order they are asked.
Numbered ==
    /\ \A u \in Users : user[u].req <= asked /\ (~At(u, "idle") => user[u].req # 0)
    /\ \A k \in Conns : up[k] # None => up[k] <= asked

\* A request that has not been written is nowhere else, and the arm gets one at a time.
Unwritten(r) == r \notin executed /\ ~On(inbox, r)
Unsent ==
    ~LateReplies =>
        /\ Len(inbox) <= 1
        /\ \A r \in Requests : On(inbox, r) => r \notin executed
        /\ \A u \in Users : At(u, "waiting") => Unwritten(user[u].req)
        /\ \A k \in Conns : up[k] # None => Unwritten(up[k])
        /\ \A u, v \in Users :
              At(u, "waiting") /\ At(v, "waiting") /\ user[u].req = user[v].req => u = v
        /\ \A k, l \in Conns : up[k] # None /\ up[k] = up[l] => k = l
        /\ \A u \in Users, k \in Conns : At(u, "waiting") => user[u].req # up[k]

Typed == TypeOK /\ SeqTypes
Line == OneReader /\ LineIsClean /\ AnswerMatches
Places == LocalPlace /\ RemotePlace

\* The inductive invariant.
IInv == Typed /\ Line /\ Places /\ Numbered /\ Unsent

-----------------------------------------------------------------------------
(* What is on a sequence                                                    *)

\* Nothing is on the empty sequence.
LEMMA OnEmpty == \A r : ~On(<<>>, r)
BY DEF On

\* Appending adds one item.
LEMMA OnAppend ==
    ASSUME NEW S, NEW s \in Seq(S), NEW x \in S
    PROVE  \A r : On(Append(s, x), r) <=> On(s, r) \/ r = x
<1> DEFINE a == Append(s, x)
<1>1. DOMAIN s = 1..Len(s) /\ DOMAIN a = 1..(Len(s) + 1) /\ Len(s) \in Nat
  OBVIOUS
<1>2. (\A i \in 1..Len(s) : a[i] = s[i]) /\ a[Len(s) + 1] = x
  OBVIOUS
<1> HIDE DEF a
<1>3. \A r : On(a, r) <=> On(s, r) \/ r = x
  BY <1>1, <1>2 DEF On
<1> QED  BY <1>3 DEF a

\* The head is on it, and so is what is on the rest.
LEMMA OnHeadTail ==
    ASSUME NEW S, NEW s \in Seq(S), s # <<>>
    PROVE  /\ On(s, Head(s)) /\ Head(s) \in S
           /\ \A r : On(Tail(s), r) => On(s, r)
           /\ Tail(s) \in Seq(S) /\ Len(Tail(s)) = Len(s) - 1
<1>1. Head(s) \in S /\ Tail(s) \in Seq(S) /\ Len(Tail(s)) = Len(s) - 1
  OBVIOUS
<1>2. On(s, Head(s))
  BY DEF On
<1>3. ASSUME NEW r, On(Tail(s), r)  PROVE On(s, r)
  <2>1. PICK i \in 1..(Len(s) - 1) : Tail(s)[i] = r
    BY <1>1, <1>3 DEF On
  <2>2. i + 1 \in 1..Len(s) /\ s[i + 1] = r
    BY <2>1
  <2> QED  BY <2>2 DEF On
<1> QED  BY <1>1, <1>2, <1>3

\* What is on a sequence with an item in front.
LEMMA OnPrepend ==
    ASSUME NEW S, NEW s \in Seq(S), NEW x \in S
    PROVE  \A r : On(<<x>> \o s, r) => On(s, r) \/ r = x
<1> DEFINE a == <<x>> \o s
<1>1. DOMAIN s = 1..Len(s) /\ DOMAIN a = 1..(Len(s) + 1) /\ Len(s) \in Nat
  OBVIOUS
<1>2. (\A i \in 1..Len(s) : a[i + 1] = s[i]) /\ a[1] = x
  OBVIOUS
<1> HIDE DEF a
<1>3. ASSUME NEW r, On(a, r)  PROVE On(s, r) \/ r = x
  <2>1. PICK i \in 1..(Len(s) + 1) : a[i] = r
    BY <1>1, <1>3 DEF On
  <2>2. CASE i = 1
    BY <1>2, <2>1, <2>2
  <2>3. CASE i # 1
    <3>1. i - 1 \in 1..Len(s) /\ a[(i - 1) + 1] = s[i - 1] /\ (i - 1) + 1 = i
      BY <1>1, <1>2, <2>1, <2>3
    <3> QED  BY <1>1, <2>1, <3>1 DEF On
  <2> QED  BY <2>2, <2>3
<1> QED  BY <1>3 DEF a

-----------------------------------------------------------------------------
(* Steps that are alike                                                     *)

\* A call of SerialTransport.send_frame that is over.
LEMMA EndsTyped ==
    ASSUME Typed, NEW u \in Users, NEW ans \in Reply, Ends(u, ans)
    PROVE  /\ user' \in [Users -> User] /\ holder' \in Users \cup {None}
           /\ \A v \in Users \ {u} : user'[v] = user[v]
           /\ user'[u].pc = "done" /\ user'[u].ans = ans /\ user'[u].req = user[u].req
<1>1. user \in [Users -> User] /\ holder \in Users \cup {None}
  BY DEF Typed, TypeOK, User, PCs
<1>2. PICK r \in User : r = user[u]
  BY <1>1
<1> DEFINE d == [r EXCEPT !.pc = "done", !.ans = ans]
<1>3. d \in User /\ d.pc = "done" /\ d.ans = ans /\ d.req = r.req
  BY DEF User, PCs
<1>4. user' = [user EXCEPT ![u] = d]
  BY <1>2 DEF Ends
<1> HIDE DEF d
<1> QED  BY <1>1, <1>2, <1>3, <1>4 DEF Ends

\* A call that goes on.
LEMMA GoesTyped ==
    ASSUME Typed, NEW u \in Users, NEW pc \in PCs, user' = [user EXCEPT ![u].pc = pc]
    PROVE  /\ user' \in [Users -> User]
           /\ \A v \in Users \ {u} : user'[v] = user[v]
           /\ user'[u].pc = pc /\ user'[u].ans = user[u].ans /\ user'[u].req = user[u].req
<1>1. user \in [Users -> User]
  BY DEF Typed, TypeOK, User, PCs
<1> QED  BY <1>1 DEF User

\* A request stays in its place while its call is under way on the serial line.
LEMMA PlacesKept ==
    ASSUME Typed, Places, UNCHANGED <<pending, netVars>>, executed \subseteq executed',
           \A u \in Users : user'[u].req = user[u].req
                            /\ (user'[u].pc = "idle" <=> user[u].pc = "idle")
    PROVE  Places'
<1>1. LocalPlace'
  BY DEF Places, LocalPlace, At
<1>2. ASSUME NEW c \in Remote, socket[c] # None
      PROVE  /\ OnTheWay(socket[c], None) => OnTheWay(socket[c], None)'
             /\ OnTheWay(socket[c], pending[c]) => OnTheWay(socket[c], pending[c])'
             /\ WithHandler(socket[c], pending[c]) => WithHandler(socket[c], pending[c])'
             /\ Answering(socket[c], pending[c]) => Answering(socket[c], pending[c])'
  <2>1. socket[c] \in Users
    BY <1>2 DEF Typed, TypeOK
  <2> QED  BY <2>1 DEF OnTheWay, WithHandler, Answering, At, netVars
<1>3. RemotePlace'
  BY <1>2 DEF Places, RemotePlace, netVars
<1> QED  BY <1>1, <1>3 DEF Places

\* Nothing is written: what is unsent stays so.
LEMMA UnsentKept ==
    ASSUME Unsent, UNCHANGED <<executed, up>>, Len(inbox') <= Len(inbox),
           Len(inbox) \in Nat, Len(inbox') \in Nat,
           \A r : On(inbox', r) => On(inbox, r),
           \A u \in Users : user'[u].pc = "waiting" =>
                               user[u].pc = "waiting" /\ user'[u].req = user[u].req
    PROVE  Unsent'
BY DEF Unsent, Unwritten, At

\* A call ends, with its own answer or with an error.
LEMMA SerialEnds ==
    ASSUME IInv, NEW u \in Users, user[u].pc \in {"waiting", "reading", "misled"},
           NEW ans \in Reply, Ends(u, ans),
           ~LateReplies => ans = 0 \/ (ans = user[u].req /\ ans \in executed),
           UNCHANGED <<callVars, netVars, inbox, wire, failures>>,
           opened' \in BOOLEAN, faults' \in 0..MaxFaults,
           buffer' \in Seq(Item), \A r : On(buffer', r) => On(buffer, r) \/ r \notin Requests
    PROVE  IInv'
<1> USE DEF IInv, callVars, netVars
<1>1. /\ user' \in [Users -> User] /\ holder' \in Users \cup {None}
      /\ \A v \in Users \ {u} : user'[v] = user[v]
      /\ user'[u].pc = "done" /\ user'[u].ans = ans /\ user'[u].req = user[u].req
  BY EndsTyped
<1>2. Typed'
  BY <1>1 DEF Typed, TypeOK, SeqTypes, User, PCs
<1>3. OneReader'
  BY <1>1 DEF Line, OneReader, Reading, Ends
<1>4. LineIsClean'
  BY <1>1 DEF Line, LineIsClean, Reading, Requests
<1>5. AnswerMatches'
  BY <1>1 DEF Line, AnswerMatches, At
<1>6. Places'
  BY <1>1, PlacesKept
<1>7. Numbered'
  BY <1>1 DEF Numbered, At
<1>8. Unsent'
  BY <1>1, UnsentKept DEF Typed, SeqTypes
<1> QED  BY <1>2, <1>3, <1>4, <1>5, <1>6, <1>7, <1>8 DEF Line

\* Nothing new comes on the line, and at most a reader goes on reading.
LEMMA QuietKeeps ==
    ASSUME IInv, UNCHANGED <<callVars, holder, opened, netVars, failures>>,
           faults' \in 0..MaxFaults,
           user' \in [Users -> User],
           \A u \in Users : /\ user'[u].req = user[u].req /\ user'[u].ans = user[u].ans
                            /\ \/ user'[u].pc = user[u].pc
                               \/ user[u].pc = "reading" /\ user'[u].pc = "misled",
           SeqTypes', Len(inbox') <= Len(inbox), \A r : On(inbox', r) => On(inbox, r),
           \A r : On(wire', r) \/ On(buffer', r) => On(wire, r) \/ On(buffer, r) \/ r \notin Requests
    PROVE  IInv'
<1> USE DEF IInv, callVars, netVars
<1>1. Typed'
  BY DEF Typed, TypeOK, User, PCs
<1>2. OneReader'
  BY DEF Line, OneReader, Reading
<1>3. LineIsClean'
  BY DEF Line, LineIsClean, Reading, Requests
<1>4. AnswerMatches'
  BY DEF Line, AnswerMatches, At
<1>5. Places'
  BY PlacesKept
<1>6. Numbered'
  BY DEF Numbered, At
<1>7. Len(inbox) \in Nat /\ Len(inbox') \in Nat
  BY DEF Typed, SeqTypes
<1>8. Unsent'
  BY <1>7, UnsentKept
<1> QED  BY <1>1, <1>2, <1>3, <1>4, <1>5, <1>6, <1>8 DEF Line

-----------------------------------------------------------------------------
(* The steps of send_frame                                                  *)

\* The transport was closed before the call came to it.
LEMMA NotOpenKeeps ==
    ASSUME IInv, NEW u \in Users, NotOpen(u)
    PROVE  IInv'
<1>1. /\ user[u].pc = "waiting" /\ Ends(u, 0) /\ 0 \in Reply /\ opened' \in BOOLEAN
      /\ faults' \in 0..MaxFaults /\ buffer' \in Seq(Item)
      /\ UNCHANGED <<callVars, netVars, inbox, wire, buffer, failures>>
  BY DEF NotOpen, At, IInv, Typed, TypeOK, SeqTypes, lineVars, Reply
<1> QED  BY <1>1, SerialEnds

\* The first frame is taken for the answer: with punctual replies it is the answer.
LEMMA ReadFrameKeeps ==
    ASSUME IInv, NEW u \in Users, ReadFrame(u)
    PROVE  IInv'
<1> DEFINE h == Head(buffer)
           ans == IF h = Garbled THEN 0 ELSE h
<1>1. buffer \in Seq(Item) /\ buffer # <<>> /\ user[u].pc = "reading"
  BY DEF IInv, Typed, SeqTypes, ReadFrame, At
<1>2. /\ On(buffer, h) /\ h \in Item /\ buffer' \in Seq(Item)
      /\ \A r : On(buffer', r) => On(buffer, r)
  BY <1>1, OnHeadTail DEF ReadFrame
<1>3. ans \in Reply /\ (h \in Requests \/ ans = 0)
  BY <1>2 DEF ReadFrame, Item, Reply, Requests
<1>4. h \in Requests /\ ~LateReplies => h = user[u].req /\ h \in executed
  BY <1>1, <1>2 DEF IInv, Line, LineIsClean, Reading, Requests
<1>5. ~LateReplies => ans = 0 \/ (ans = user[u].req /\ ans \in executed)
  BY <1>3, <1>4 DEF Requests
<1>6. /\ Ends(u, ans) /\ UNCHANGED <<callVars, netVars, inbox, wire, failures>>
      /\ opened' \in BOOLEAN /\ faults' \in 0..MaxFaults
  BY DEF ReadFrame, IInv, Typed, TypeOK
<1> HIDE DEF ans, h
<1> QED  BY <1>1, <1>2, <1>3, <1>5, <1>6, SerialEnds

\* Noise misleads the reader.
LEMMA MisledKeeps ==
    ASSUME IInv, NEW u \in Users, Misled(u)
    PROVE  IInv'
<1>1. /\ user[u].pc = "reading" /\ user' = [user EXCEPT ![u].pc = "misled"] /\ "misled" \in PCs
      /\ UNCHANGED <<callVars, holder, opened, netVars, failures, inbox, wire>>
      /\ faults' \in 0..MaxFaults
  BY DEF Misled, At, PCs, IInv, Typed, TypeOK
<1>2. buffer \in Seq(Item) /\ buffer # <<>> /\ buffer' = Tail(buffer)
  BY DEF IInv, Typed, SeqTypes, Misled
<1>3. buffer' \in Seq(Item) /\ \A r : On(buffer', r) => On(buffer, r)
  BY <1>2, OnHeadTail
<1>4. SeqTypes' /\ Len(inbox') <= Len(inbox)
  BY <1>1, <1>3 DEF SeqTypes, IInv, Typed
<1>5. /\ user' \in [Users -> User]
      /\ \A v \in Users \ {u} : user'[v] = user[v]
      /\ user'[u].pc = "misled" /\ user'[u].ans = user[u].ans /\ user'[u].req = user[u].req
  BY <1>1, GoesTyped DEF IInv
<1> QED  BY <1>1, <1>3, <1>4, <1>5, QuietKeeps

\* He reads past a frame, or takes a part of it for one with a wrong checksum.
LEMMA SwallowFrameKeeps ==
    ASSUME IInv, NEW u \in Users, SwallowFrame(u)
    PROVE  IInv'
<1>1. buffer \in Seq(Item) /\ buffer # <<>> /\ user[u].pc = "misled"
  BY DEF IInv, Typed, SeqTypes, SwallowFrame, At
<1>2. Tail(buffer) \in Seq(Item) /\ \A r : On(Tail(buffer), r) => On(buffer, r)
  BY <1>1, OnHeadTail
<1>3. /\ UNCHANGED <<callVars, opened, netVars, failures, inbox, wire>>
      /\ faults' \in 0..MaxFaults /\ opened' \in BOOLEAN
  BY DEF SwallowFrame, IInv, Typed, TypeOK
<1>4. CASE buffer' = Tail(buffer) /\ UNCHANGED <<user, holder>>
  <2>1. SeqTypes' /\ Len(inbox') <= Len(inbox)
    BY <1>2, <1>3, <1>4 DEF SeqTypes, IInv, Typed
  <2>2. user' \in [Users -> User]
    BY <1>4 DEF IInv, Typed, TypeOK, User, PCs
  <2> QED  BY <1>2, <1>3, <1>4, <2>1, <2>2, QuietKeeps
<1>5. CASE buffer' = <<Garbled>> \o Tail(buffer) /\ Ends(u, 0)
  <2>1. Garbled \in Item /\ Garbled \notin Requests /\ 0 \in Reply
    BY DEF Item, Requests, Reply
  <2>2. buffer' \in Seq(Item)
    BY <1>2, <1>5, <2>1
  <2>3. \A r : On(buffer', r) => On(buffer, r) \/ r \notin Requests
    <3>1. \A r : On(buffer', r) => On(Tail(buffer), r) \/ r = Garbled
      BY <1>2, <1>5, <2>1, OnPrepend
    <3> QED  BY <1>2, <2>1, <3>1
  <2> QED  BY <1>1, <1>3, <1>5, <2>1, <2>2, <2>3, SerialEnds
<1> QED  BY <1>4, <1>5 DEF SwallowFrame

\* The reader gives up.
LEMMA ReadTimesOutKeeps ==
    ASSUME IInv, NEW u \in Users, ReadTimesOut(u)
    PROVE  IInv'
<1>1. faults' \in 0..MaxFaults
  BY DEF ReadTimesOut, Fault, IInv, Typed, TypeOK
<1>2. /\ user[u].pc \in {"reading", "misled"} /\ Ends(u, 0) /\ 0 \in Reply /\ opened' \in BOOLEAN
      /\ buffer' \in Seq(Item) /\ UNCHANGED <<callVars, netVars, inbox, wire, buffer, failures>>
  BY DEF ReadTimesOut, Waited, IInv, Typed, TypeOK, SeqTypes, lineVars, Reply
<1> QED  BY <1>1, <1>2, SerialEnds

\* The read or the write raises.
LEMMA LinkFailsKeeps ==
    ASSUME IInv, NEW u \in Users, LinkFails(u)
    PROVE  IInv'
<1>1. faults' \in 0..MaxFaults
  BY DEF LinkFails, Fault, IInv, Typed, TypeOK
<1>2. /\ user[u].pc \in {"reading", "misled"} /\ Ends(u, 0) /\ 0 \in Reply
      /\ buffer' \in Seq(Item) /\ UNCHANGED <<callVars, netVars, inbox, wire, buffer, failures>>
  BY DEF LinkFails, IInv, Typed, TypeOK, SeqTypes, lineVars, Reply
<1>3. opened' \in BOOLEAN
  BY DEF LinkFails
<1> QED  BY <1>1, <1>2, <1>3, SerialEnds

\* A request is written, with the lock, after what was left on the line is dropped.
LEMMA SendKeeps ==
    ASSUME IInv, NEW u \in Users, Send(u)
    PROVE  IInv'
<1> DEFINE r0 == user[u].req
<1>1. /\ user[u].pc = "waiting" /\ holder = None /\ holder' = u
      /\ user' = [user EXCEPT ![u].pc = "reading"] /\ "reading" \in PCs
      /\ buffer' = <<>> /\ inbox' = Append(inbox, r0)
      /\ LateReplies \/ (inbox = <<>> /\ wire = <<>>)
      /\ UNCHANGED <<callVars, opened, wire, netVars, failures, faults>>
  BY DEF Send, At, Purged, Settled, PCs
<1>2. r0 \in Requests /\ r0 <= asked /\ asked \in Nat
  BY <1>1 DEF IInv, Typed, TypeOK, Numbered, At, Requests, Reply
<1>3. /\ user' \in [Users -> User]
      /\ \A v \in Users \ {u} : user'[v] = user[v]
      /\ user'[u].pc = "reading" /\ user'[u].ans = user[u].ans /\ user'[u].req = r0
  BY <1>1, GoesTyped DEF IInv
<1>4. /\ inbox \in Seq(Requests) /\ inbox' \in Seq(Requests)
      /\ \A r : On(inbox', r) <=> On(inbox, r) \/ r = r0
  BY <1>1, <1>2, OnAppend DEF IInv, Typed, SeqTypes
<1>5. (\A r : ~On(buffer', r)) /\ buffer' \in Seq(Item)
  BY <1>1, OnEmpty
<1>6. ~LateReplies => Len(inbox') <= 1 /\ \A r : ~On(inbox, r) /\ ~On(wire, r)
  BY <1>1, OnEmpty
<1> HIDE DEF r0
<1>7. Typed'
  BY <1>1, <1>3, <1>4, <1>5 DEF IInv, Typed, TypeOK, SeqTypes, User, PCs, callVars, netVars
<1>8. OneReader'
  BY <1>1, <1>3 DEF IInv, Line, OneReader, Reading
<1>9. LineIsClean'
  BY <1>1, <1>2, <1>3, <1>4, <1>5, <1>6, <1>8
  DEF IInv, Line, LineIsClean, OneReader, Reading, callVars
<1>10. AnswerMatches'
  BY <1>1, <1>3 DEF IInv, Line, AnswerMatches, At, callVars
<1>11. Places'
  BY <1>1, <1>3, PlacesKept DEF IInv, callVars
<1>12. Numbered'
  BY <1>1, <1>3 DEF IInv, Numbered, At, callVars, netVars, r0
<1>13. Unsent'
  BY <1>1, <1>2, <1>3, <1>4, <1>6
  DEF IInv, Unsent, Unwritten, At, callVars, netVars, r0, Typed, TypeOK
<1> QED  BY <1>7, <1>8, <1>9, <1>10, <1>11, <1>12, <1>13 DEF IInv, Line

-----------------------------------------------------------------------------
(* The steps of the arm and the line                                        *)

\* A step without the callers and the line needs the invariant's types alone.
LEMMA Typing ==
    ASSUME IInv
    PROVE  /\ user \in [Users -> User] /\ faults \in 0..MaxFaults /\ SeqTypes
           /\ asked \in 0..MaxRequests /\ executed \subseteq 1..asked
           /\ Len(inbox) \in Nat
BY DEF IInv, Typed, TypeOK, SeqTypes, User, PCs

\* A request gets lost.
LEMMA RequestLostKeeps ==
    ASSUME IInv, RequestLost
    PROVE  IInv'
<1>1. inbox \in Seq(Requests) /\ inbox # <<>> /\ inbox' = Tail(inbox)
  BY Typing DEF RequestLost, SeqTypes
<1>2. /\ inbox' \in Seq(Requests) /\ Len(inbox') <= Len(inbox)
      /\ \A r : On(inbox', r) => On(inbox, r)
  BY <1>1, OnHeadTail
<1>3. faults' \in 0..MaxFaults
  BY Typing DEF RequestLost, Fault
<1>4. UNCHANGED <<callVars, user, holder, opened, wire, buffer, netVars, failures>>
  BY DEF RequestLost
<1>5. SeqTypes' /\ user' \in [Users -> User]
  BY <1>2, <1>4, Typing DEF SeqTypes
<1> QED  BY <1>2, <1>3, <1>4, <1>5, QuietKeeps

\* What the arm has sent arrives.
LEMMA ArriveKeeps ==
    ASSUME IInv, Arrive
    PROVE  IInv'
<1>1. /\ wire \in Seq(Requests \cup {Garbled}) /\ wire # <<>> /\ wire' = Tail(wire)
      /\ buffer \in Seq(Item) /\ buffer' = Append(buffer, Head(wire))
  BY Typing DEF Arrive, SeqTypes
<1>2. /\ wire' \in Seq(Requests \cup {Garbled}) /\ Head(wire) \in Item /\ On(wire, Head(wire))
      /\ \A r : On(wire', r) => On(wire, r)
  <2>1. Requests \cup {Garbled} \subseteq Item
    BY DEF Requests, Item
  <2> QED  BY <1>1, <2>1, OnHeadTail
<1>3. buffer' \in Seq(Item) /\ \A r : On(buffer', r) <=> On(buffer, r) \/ r = Head(wire)
  BY <1>1, <1>2, OnAppend
<1>4. UNCHANGED <<callVars, user, holder, opened, inbox, netVars, failures, faults>>
  BY DEF Arrive
<1>5. SeqTypes' /\ user' \in [Users -> User] /\ faults' \in 0..MaxFaults /\ Len(inbox') <= Len(inbox)
  BY <1>2, <1>3, <1>4, Typing DEF SeqTypes
<1> QED  BY <1>2, <1>3, <1>4, <1>5, QuietKeeps

\* Noise is no reply.
LEMMA NoiseKeeps ==
    ASSUME IInv, Noise
    PROVE  IInv'
<1>1. buffer \in Seq(Item) /\ buffer' = Append(buffer, Header)
  BY Typing DEF Noise, SeqTypes
<1>2. Header \in Item /\ Header \notin Requests
  BY DEF Item, Requests
<1>3. buffer' \in Seq(Item) /\ \A r : On(buffer', r) <=> On(buffer, r) \/ r = Header
  BY <1>1, <1>2, OnAppend
<1>4. UNCHANGED <<callVars, user, holder, opened, inbox, wire, netVars, failures>>
  BY DEF Noise
<1>5. faults' \in 0..MaxFaults
  BY Typing DEF Noise, Fault
<1>6. SeqTypes' /\ user' \in [Users -> User] /\ Len(inbox') <= Len(inbox)
  BY <1>3, <1>4, Typing DEF SeqTypes
<1> QED  BY <1>2, <1>3, <1>4, <1>5, <1>6, QuietKeeps

\* The arm executes a request, once when replies are punctual, and may answer.
LEMMA ArmAnswersKeeps ==
    ASSUME IInv, ArmAnswers
    PROVE  IInv'
<1> DEFINE h == Head(inbox)
<1>1. inbox \in Seq(Requests) /\ inbox # <<>>
  BY Typing DEF ArmAnswers, SeqTypes
<1>2. /\ inbox' = Tail(inbox) /\ executed' = executed \cup {h}
      /\ UNCHANGED <<asked, pending, answer, user, holder, opened, buffer, netVars, failures>>
  BY DEF ArmAnswers
<1>3. /\ inbox' \in Seq(Requests) /\ h \in Requests /\ On(inbox, h)
      /\ \A r : On(inbox', r) => On(inbox, r)
      /\ Len(inbox') = Len(inbox) - 1
  BY <1>1, <1>2, OnHeadTail
<1>4. h \in 1..asked
  BY <1>3, Typing DEF IInv, Line, LineIsClean, Requests
<1>5. wire' \in Seq(Requests \cup {Garbled}) /\ \A r \in Requests : On(wire', r) => On(wire, r) \/ r = h
  <2>1. wire \in Seq(Requests \cup {Garbled}) /\ Garbled \notin Requests
    BY Typing DEF SeqTypes, Requests
  <2>2. CASE wire' = Append(wire, h)
    BY <1>3, <2>1, <2>2, OnAppend
  <2>3. CASE wire' = Append(wire, Garbled)
    BY <2>1, <2>3, OnAppend
  <2>4. CASE UNCHANGED wire
    BY <2>1, <2>4
  <2> QED  BY <2>2, <2>3, <2>4 DEF ArmAnswers
<1>6. faults' \in 0..MaxFaults
  BY Typing DEF ArmAnswers, Fault
<1>7. ~LateReplies => inbox' = <<>> /\ \A r : ~On(inbox', r)
  <2> SUFFICES ASSUME ~LateReplies  PROVE inbox' = <<>>
    BY OnEmpty
  <2>1. Len(inbox') = 0
    BY <1>3, Typing DEF IInv, Unsent
  <2> QED  BY <1>3, <2>1
<1> HIDE DEF h
<1>8. Typed'
  BY <1>2, <1>3, <1>4, <1>5, <1>6 DEF IInv, Typed, TypeOK, SeqTypes, netVars
<1>9. OneReader'
  BY <1>2 DEF IInv, Line, OneReader, Reading
<1>10. LineIsClean'
  BY <1>2, <1>3, <1>4, <1>5 DEF IInv, Line, LineIsClean, Reading, Requests
<1>11. AnswerMatches'
  BY <1>2 DEF IInv, Line, AnswerMatches, At
<1>12. Places'
  BY <1>2, PlacesKept DEF IInv
<1>13. Numbered'
  BY <1>2 DEF IInv, Numbered, At, netVars
<1>14. Unsent'
  BY <1>2, <1>3, <1>7 DEF IInv, Unsent, Unwritten, At, netVars
<1> QED  BY <1>8, <1>9, <1>10, <1>11, <1>12, <1>13, <1>14 DEF IInv, Line

-----------------------------------------------------------------------------
(* The steps of the callers and the handlers                                *)

\* A thread begins a call with a request that nobody has written.
LEMMA BeginTyped ==
    ASSUME user \in [Users -> User], NEW u \in Users, NEW r \in Reply, Begin(u, r)
    PROVE  /\ user' \in [Users -> User]
           /\ \A v \in Users \ {u} : user'[v] = user[v]
           /\ user'[u].pc = "waiting" /\ user'[u].req = r
<1>1. [pc |-> "waiting", req |-> r, ans |-> 0] \in User
  BY DEF User, PCs, Reply
<1> QED  BY <1>1 DEF Begin

\* A thread has returned from its call.
LEMMA IdleTyped ==
    ASSUME user \in [Users -> User], NEW u \in Users, user' = [user EXCEPT ![u] = Idle]
    PROVE  /\ user' \in [Users -> User]
           /\ \A v \in Users \ {u} : user'[v] = user[v]
           /\ user'[u].pc = "idle" /\ user'[u].req = 0
<1>1. Idle \in User /\ Idle.pc = "idle" /\ Idle.req = 0
  BY DEF Idle, User, PCs, Reply
<1> QED  BY <1>1

\* A local caller asks.
LEMMA LocalAsksKeeps ==
    ASSUME IInv, NEW c \in Local, LocalAsks(c)
    PROVE  IInv'
<1>1. /\ asked' = asked + 1 /\ asked + 1 \in Requests /\ asked + 1 \in Reply
      /\ pending' = [pending EXCEPT ![c] = asked + 1] /\ pending[c] = 0
      /\ UNCHANGED <<executed, answer, holder, opened, lineVars, netVars, failures, faults>>
  BY Typing DEF LocalAsks, NextRequest, Requests, Reply
<1>2. /\ user' \in [Users -> User]
      /\ \A v \in Users \ {c} : user'[v] = user[v]
      /\ user'[c].pc = "waiting" /\ user'[c].req = asked + 1
  BY <1>1, Typing, BeginTyped DEF LocalAsks
<1>3. user[c].pc = "idle"
  BY <1>1 DEF IInv, Places, LocalPlace, At
<1>4. Typed'
  <2>1. asked' \in 0..MaxRequests /\ executed' \subseteq 1..asked'
    BY <1>1, Typing DEF Requests
  <2>2. pending' \in [Callers -> Reply]
    BY <1>1 DEF IInv, Typed, TypeOK
  <2> QED
    BY <1>1, <1>2, <2>1, <2>2 DEF IInv, Typed, TypeOK, SeqTypes, User, PCs, lineVars, netVars
<1>5. OneReader'
  BY <1>1, <1>2, <1>3 DEF IInv, Line, OneReader, Reading
<1>6. LineIsClean'
  BY <1>1, <1>2, <1>3, Typing DEF IInv, Line, LineIsClean, Reading, lineVars
<1>7. AnswerMatches'
  BY <1>1, <1>2 DEF IInv, Line, AnswerMatches, At
<1>8. LocalPlace'
  BY <1>1, <1>2 DEF IInv, Places, LocalPlace, At, Typed, TypeOK, Requests
<1>9. RemotePlace'
  BY <1>1, <1>2
  DEF IInv, Places, RemotePlace, OnTheWay, WithHandler, Answering, At, Typed, TypeOK,
     netVars
<1>10. Numbered'
  <2>1. /\ \A u \in Users : user[u].req \in Nat
        /\ \A k \in Conns : up[k] # None => up[k] \in Nat
    BY Typing DEF IInv, Typed, TypeOK, User, Reply
  <2>2. asked \in Nat
    BY Typing
  <2> QED
    BY <1>1, <1>2, <2>1, <2>2 DEF IInv, Numbered, At, netVars
<1>11. Unsent'
  <2>1. asked + 1 \notin executed /\ ~On(inbox, asked + 1)
    BY <1>1, Typing DEF IInv, Line, LineIsClean, Requests
  <2> QED
    BY <1>1, <1>2, <2>1, Typing
    DEF IInv, Unsent, Unwritten, At, Numbered, netVars, lineVars, Requests
<1> QED  BY <1>4, <1>5, <1>6, <1>7, <1>8, <1>9, <1>10, <1>11 DEF IInv, Line, Places

\* A local caller's call returns.
LEMMA LocalReturnsKeeps ==
    ASSUME IInv, NEW c \in Local, LocalReturns(c)
    PROVE  IInv'
<1>1. /\ user[c].pc = "done" /\ Returned(c, user[c].ans)
      /\ UNCHANGED <<asked, executed, holder, opened, lineVars, netVars, faults>>
  BY DEF LocalReturns, At
<1>2. /\ user' \in [Users -> User]
      /\ \A v \in Users \ {c} : user'[v] = user[v]
      /\ user'[c].pc = "idle" /\ user'[c].req = 0
  BY Typing, IdleTyped DEF LocalReturns
<1>3. /\ pending' = [pending EXCEPT ![c] = 0] /\ pending' \in [Callers -> Reply]
      /\ answer' \in [Callers -> Reply] /\ failures' \in Nat
  <2>1. user[c].ans \in Reply /\ 0 \in Reply
    BY Typing DEF User, Reply
  <2>2. pending' = [pending EXCEPT ![c] = 0] /\ pending' \in [Callers -> Reply]
    BY <1>1, <2>1 DEF Returned, IInv, Typed, TypeOK
  <2>3. CASE user[c].ans = 0
    BY <1>1, <2>2, <2>3 DEF Returned, IInv, Typed, TypeOK
  <2>4. CASE user[c].ans # 0
    BY <1>1, <2>1, <2>2, <2>4 DEF Returned, IInv, Typed, TypeOK
  <2> QED  BY <2>3, <2>4
<1>4. Typed'
  BY <1>1, <1>2, <1>3 DEF IInv, Typed, TypeOK, SeqTypes, User, PCs, lineVars, netVars
<1>5. OneReader'
  BY <1>1, <1>2 DEF IInv, Line, OneReader, Reading
<1>6. LineIsClean'
  BY <1>1, <1>2 DEF IInv, Line, LineIsClean, Reading, lineVars
<1>7. AnswerMatches'
  BY <1>1, <1>2 DEF IInv, Line, AnswerMatches, At
<1>8. LocalPlace'
  BY <1>1, <1>2, <1>3 DEF IInv, Places, LocalPlace, At, Typed, TypeOK
<1>9. RemotePlace'
  BY <1>1, <1>2, <1>3 DEF IInv, Places, RemotePlace, OnTheWay, WithHandler, Answering, At, Typed,
     TypeOK, netVars
<1>10. Numbered'
  BY <1>1, <1>2, Typing DEF IInv, Numbered, At, netVars
<1>11. Unsent'
  BY <1>1, <1>2, UnsentKept, Typing DEF IInv, netVars, lineVars
<1> QED  BY <1>4, <1>5, <1>6, <1>7, <1>8, <1>9, <1>10, <1>11 DEF IInv, Line, Places

\* A handler answers its client, or one that has left.
LEMMA SendReplyKeeps ==
    ASSUME IInv, NEW k \in Conns, SendReply(k)
    PROVE  IInv'
<1>1. /\ user[k].pc = "done" /\ down' = [down EXCEPT ![k] = user[k].ans]
      /\ UNCHANGED <<callVars, holder, opened, lineVars, socket, up, failures, faults>>
  BY DEF SendReply, At
<1>2. /\ user' \in [Users -> User]
      /\ \A v \in Users \ {k} : user'[v] = user[v]
      /\ user'[k].pc = "idle" /\ user'[k].req = 0
  BY Typing, IdleTyped DEF SendReply
<1>3. /\ user[k].ans \in Reply /\ user[k].ans # None
      /\ ~LateReplies => user[k].ans = 0 \/ (user[k].ans = user[k].req /\ user[k].ans \in executed)
  BY <1>1, Typing DEF User, Reply, IInv, Line, AnswerMatches, At
<1>4. Typed'
  BY <1>1, <1>2, <1>3 DEF IInv, Typed, TypeOK, SeqTypes, User, PCs, lineVars, callVars
<1>5. OneReader'
  BY <1>1, <1>2 DEF IInv, Line, OneReader, Reading
<1>6. LineIsClean'
  BY <1>1, <1>2 DEF IInv, Line, LineIsClean, Reading, lineVars, callVars
<1>7. AnswerMatches'
  BY <1>1, <1>2 DEF IInv, Line, AnswerMatches, At, callVars
<1>8. LocalPlace'
  BY <1>1, <1>2 DEF IInv, Places, LocalPlace, At, callVars
<1>9. RemotePlace'
  <2>1. ASSUME NEW c \in Remote, socket[c] = k
        PROVE  pending[c] # 0 /\ Answering(k, pending[c])'
    <3>1. pending[c] # 0 /\ WithHandler(k, pending[c])
      BY <1>1, <2>1 DEF IInv, Places, RemotePlace, OnTheWay, Answering, At
    <3> QED
      BY <1>1, <1>2, <1>3, <3>1 DEF WithHandler, Answering, At, IInv, Typed, TypeOK, callVars
  <2>2. ASSUME NEW c \in Remote, socket[c] # k, socket[c] # None
        PROVE  /\ OnTheWay(socket[c], None) => OnTheWay(socket[c], None)'
               /\ OnTheWay(socket[c], pending[c]) => OnTheWay(socket[c], pending[c])'
               /\ WithHandler(socket[c], pending[c]) => WithHandler(socket[c], pending[c])'
               /\ Answering(socket[c], pending[c]) => Answering(socket[c], pending[c])'
    <3>1. socket[c] \in Conns
      BY <2>2 DEF IInv, Typed, TypeOK
    <3> QED
      BY <1>1, <1>2, <2>2, <3>1
      DEF OnTheWay, WithHandler, Answering, At, IInv, Typed, TypeOK, callVars
  <2> QED  BY <1>1, <2>1, <2>2 DEF IInv, Places, RemotePlace, callVars
<1>10. Numbered'
  BY <1>1, <1>2, Typing DEF IInv, Numbered, At, callVars
<1>11. Unsent'
  BY <1>1, <1>2, UnsentKept, Typing DEF IInv, callVars, lineVars
<1> QED  BY <1>4, <1>5, <1>6, <1>7, <1>8, <1>9, <1>10, <1>11 DEF IInv, Line, Places

\* A handler takes up a request.
LEMMA TakeRequestKeeps ==
    ASSUME IInv, NEW k \in Conns, TakeRequest(k)
    PROVE  IInv'
<1>1. /\ user[k].pc = "idle" /\ up[k] # None /\ up' = [up EXCEPT ![k] = None]
      /\ UNCHANGED <<callVars, holder, opened, lineVars, socket, down, failures, faults>>
  BY DEF TakeRequest, At
<1>2. up[k] \in Requests /\ up[k] \in Reply /\ up[k] <= asked /\ up[k] # 0
  BY <1>1 DEF IInv, Typed, TypeOK, Numbered, Requests, Reply
<1>3. /\ user' \in [Users -> User]
      /\ \A v \in Users \ {k} : user'[v] = user[v]
      /\ user'[k].pc = "waiting" /\ user'[k].req = up[k]
  BY <1>2, Typing, BeginTyped DEF TakeRequest
<1>4. up'[k] = None /\ \A l \in Conns \ {k} : up'[l] = up[l]
  BY <1>1 DEF IInv, Typed, TypeOK
<1>5. Typed'
  BY <1>1, <1>2, <1>3 DEF IInv, Typed, TypeOK, SeqTypes, User, PCs, lineVars, callVars
<1>6. OneReader'
  BY <1>1, <1>3 DEF IInv, Line, OneReader, Reading
<1>7. LineIsClean'
  BY <1>1, <1>3 DEF IInv, Line, LineIsClean, Reading, lineVars, callVars
<1>8. AnswerMatches'
  BY <1>1, <1>3 DEF IInv, Line, AnswerMatches, At, callVars
<1>9. LocalPlace'
  BY <1>1, <1>3 DEF IInv, Places, LocalPlace, At, callVars
<1>10. RemotePlace'
  <2>1. ASSUME NEW c \in Remote, socket[c] = k
        PROVE  pending[c] # 0 /\ WithHandler(k, pending[c])'
    <3>1. pending[c] # 0 /\ OnTheWay(k, pending[c])
      BY <1>1, <2>1 DEF IInv, Places, RemotePlace, OnTheWay, WithHandler, Answering, At
    <3> QED
      BY <1>1, <1>3, <3>1 DEF OnTheWay, WithHandler, At, IInv, Typed, TypeOK, callVars
  <2>2. ASSUME NEW c \in Remote, socket[c] # k, socket[c] # None
        PROVE  /\ OnTheWay(socket[c], None) => OnTheWay(socket[c], None)'
               /\ OnTheWay(socket[c], pending[c]) => OnTheWay(socket[c], pending[c])'
               /\ WithHandler(socket[c], pending[c]) => WithHandler(socket[c], pending[c])'
               /\ Answering(socket[c], pending[c]) => Answering(socket[c], pending[c])'
    <3>1. socket[c] \in Conns
      BY <2>2 DEF IInv, Typed, TypeOK
    <3> QED
      BY <1>1, <1>3, <2>2, <3>1
      DEF OnTheWay, WithHandler, Answering, At, IInv, Typed, TypeOK, callVars
  <2> QED  BY <1>1, <2>1, <2>2 DEF IInv, Places, RemotePlace, callVars
<1>11. Numbered'
  BY <1>1, <1>2, <1>3, <1>4 DEF IInv, Numbered, At, callVars
<1>12. Unsent'
  <2> SUFFICES ASSUME ~LateReplies  PROVE Unsent'
    BY DEF Unsent
  <2> USE <1>1, <1>3, <1>4 DEF IInv, Unsent, Unwritten, At, callVars, lineVars
  <2>1. Len(inbox') <= 1 /\ \A r \in Requests : On(inbox, r)' => r \notin executed'
    OBVIOUS
  <2>2. /\ \A u \in Users : At(u, "waiting")' => Unwritten(user[u].req)'
        /\ \A l \in Conns : up'[l] # None => Unwritten(up[l])'
    OBVIOUS
  <2>3. \A u, v \in Users :
            At(u, "waiting")' /\ At(v, "waiting")' /\ user'[u].req = user'[v].req => u = v
    OBVIOUS
  <2>4. \A m, l \in Conns : up'[m] # None /\ up'[m] = up'[l] => m = l
    OBVIOUS
  <2>5. \A u \in Users, l \in Conns : At(u, "waiting")' => user'[u].req # up'[l]
    BY <1>2 DEF User, Reply
  <2> QED  BY <2>1, <2>2, <2>3, <2>4, <2>5
<1> QED  BY <1>5, <1>6, <1>7, <1>8, <1>9, <1>10, <1>11, <1>12 DEF IInv, Line, Places

\* What the steps of the remote callers leave alone.
LEMMA RemoteKeeps ==
    ASSUME IInv, UNCHANGED <<executed, user, holder, opened, lineVars>>,
           asked' \in {asked, asked + 1}, asked' \in 0..MaxRequests,
           pending' \in [Callers -> Reply], \A c \in Local : pending'[c] = pending[c],
           answer' \in [Callers -> Reply], failures' \in Nat, faults' \in 0..MaxFaults,
           socket' \in [Remote -> Conns \cup {None}],
           up' \in [Conns -> Requests \cup {None}], down' \in [Conns -> Reply \cup {None}]
    PROVE  Typed' /\ Line' /\ LocalPlace'
<1>1. executed' \subseteq 1..asked' /\ asked \in Nat /\ asked' \in Nat
  BY Typing
<1>2. Typed'
  BY <1>1 DEF IInv, Typed, TypeOK, SeqTypes, lineVars, Requests
<1>3. OneReader' /\ AnswerMatches'
  BY DEF IInv, Line, OneReader, AnswerMatches, Reading, At
<1>4. LineIsClean'
  BY <1>1 DEF IInv, Line, LineIsClean, Reading, lineVars
<1>5. LocalPlace'
  BY DEF IInv, Places, LocalPlace, At
<1> QED  BY <1>2, <1>3, <1>4, <1>5 DEF Line

\* A remote caller connects to a free handler.
LEMMA ConnectKeeps ==
    ASSUME IInv, NEW c \in Remote, Connect(c)
    PROVE  IInv'
<1>1. PICK k \in Conns : /\ Free(k) /\ socket[c] = None
                         /\ socket' = [socket EXCEPT ![c] = k] /\ down' = [down EXCEPT ![k] = None]
  BY DEF Connect
<1>2. UNCHANGED <<callVars, user, holder, opened, lineVars, up, failures, faults>>
  BY DEF Connect
<1>3. /\ socket' \in [Remote -> Conns \cup {None}] /\ up' \in [Conns -> Requests \cup {None}]
      /\ down' \in [Conns -> Reply \cup {None}] /\ asked' \in 0..MaxRequests
      /\ pending' \in [Callers -> Reply] /\ answer' \in [Callers -> Reply] /\ failures' \in Nat
      /\ faults' \in 0..MaxFaults
  BY <1>1, <1>2 DEF IInv, Typed, TypeOK, Requests, callVars
<1>4. Typed' /\ Line' /\ LocalPlace'
  BY <1>2, <1>3, RemoteKeeps DEF callVars
<1>5. RemotePlace'
  <2>1. pending'[c] = 0 /\ socket'[c] = k /\ OnTheWay(k, None)'
    BY <1>1, <1>2 DEF Free, At, OnTheWay, IInv, Typed, TypeOK, Places, RemotePlace, callVars
  <2>2. ASSUME NEW d \in Remote \ {c}
        PROVE  /\ socket'[d] = socket[d] /\ socket[d] # k
               /\ socket[d] # None =>
                     /\ OnTheWay(socket[d], None) => OnTheWay(socket[d], None)'
                     /\ OnTheWay(socket[d], pending[d]) => OnTheWay(socket[d], pending[d])'
                     /\ WithHandler(socket[d], pending[d]) => WithHandler(socket[d], pending[d])'
                     /\ Answering(socket[d], pending[d]) => Answering(socket[d], pending[d])'
    BY <1>1, <1>2 DEF Free, OnTheWay, WithHandler, Answering, At, IInv, Typed, TypeOK, callVars
  <2> QED  BY <1>1, <1>2, <2>1, <2>2 DEF IInv, Places, RemotePlace, callVars
<1>6. Numbered'
  BY <1>2 DEF IInv, Numbered, At, callVars
<1>7. Unsent'
  BY <1>2, UnsentKept, Typing DEF IInv, callVars, lineVars
<1> QED  BY <1>4, <1>5, <1>6, <1>7 DEF IInv, Places

\* The state of a connection is that of its one client's request.
LEMMA ClientPlace ==
    ASSUME IInv, NEW c \in Remote, socket[c] # None
    PROVE  /\ socket[c] \in Conns
           /\ \A d \in Remote \ {c} : socket[d] # socket[c]
           /\ pending[c] = 0 => OnTheWay(socket[c], None)
           /\ pending[c] # 0 => \/ OnTheWay(socket[c], pending[c])
                                \/ WithHandler(socket[c], pending[c])
                                \/ Answering(socket[c], pending[c])
BY DEF IInv, Places, RemotePlace, Typed, TypeOK

\* A remote caller sends a request.
LEMMA RemoteAsksKeeps ==
    ASSUME IInv, NEW c \in Remote, RemoteAsks(c)
    PROVE  IInv'
<1>0. PICK k \in Conns : k = socket[c]
  BY ClientPlace DEF RemoteAsks
<1>1. /\ k # None /\ pending[c] = 0 /\ asked' = asked + 1 /\ asked + 1 \in Requests
      /\ pending' = [pending EXCEPT ![c] = asked + 1] /\ up' = [up EXCEPT ![k] = asked + 1]
      /\ UNCHANGED <<executed, answer, user, holder, opened, lineVars, socket, down, failures, faults>>
  BY <1>0, Typing DEF RemoteAsks, NextRequest, Requests
<1>2. OnTheWay(k, None) /\ \A d \in Remote \ {c} : socket[d] # k
  BY <1>0, <1>1, ClientPlace
<1>3. /\ socket' \in [Remote -> Conns \cup {None}] /\ up' \in [Conns -> Requests \cup {None}]
      /\ down' \in [Conns -> Reply \cup {None}] /\ asked' \in 0..MaxRequests
      /\ pending' \in [Callers -> Reply] /\ answer' \in [Callers -> Reply] /\ failures' \in Nat
      /\ faults' \in 0..MaxFaults
  <2>1. asked + 1 \in Reply /\ asked + 1 \in 0..MaxRequests
    BY <1>1 DEF Requests, Reply
  <2> QED
    BY <1>1, <2>1 DEF IInv, Typed, TypeOK, Requests
<1>4. /\ pending'[c] = asked + 1 /\ \A d \in Callers \ {c} : pending'[d] = pending[d]
      /\ up'[k] = asked + 1 /\ \A l \in Conns \ {k} : up'[l] = up[l]
  BY <1>1, <1>2 DEF IInv, Typed, TypeOK
<1>5. Typed' /\ Line' /\ LocalPlace'
  BY <1>1, <1>3, <1>4, RemoteKeeps
<1>6. RemotePlace'
  <2>1. pending'[c] # 0 /\ socket'[c] = k /\ OnTheWay(k, pending[c])'
    BY <1>0, <1>1, <1>2, <1>4 DEF OnTheWay, At, Requests
  <2>2. ASSUME NEW d \in Remote \ {c}
        PROVE  /\ socket'[d] = socket[d] /\ socket[d] # k /\ pending'[d] = pending[d]
               /\ socket[d] # None =>
                     /\ OnTheWay(socket[d], None) => OnTheWay(socket[d], None)'
                     /\ OnTheWay(socket[d], pending[d]) => OnTheWay(socket[d], pending[d])'
                     /\ WithHandler(socket[d], pending[d]) => WithHandler(socket[d], pending[d])'
                     /\ Answering(socket[d], pending[d]) => Answering(socket[d], pending[d])'
    BY <1>1, <1>2, <1>4 DEF OnTheWay, WithHandler, Answering, At, IInv, Typed, TypeOK
  <2> QED  BY <1>1, <1>4, <2>1, <2>2 DEF IInv, Places, RemotePlace
<1>7. Numbered'
  <2>1. asked \in Nat /\ \A u \in Users : user[u].req \in Nat
    BY Typing DEF User, Reply
  <2>2. \A l \in Conns : up[l] # None => up[l] \in Nat
    BY DEF IInv, Typed, TypeOK
  <2> QED  BY <1>1, <1>4, <2>1, <2>2 DEF IInv, Numbered, At
<1>8. Unsent'
  <2>1. asked + 1 \notin executed /\ ~On(inbox, asked + 1)
    BY <1>1, Typing DEF IInv, Line, LineIsClean, Requests
  <2>2. asked \in Nat /\ (\A u \in Users : user[u].req # asked + 1) /\ \A l \in Conns : up[l] # asked + 1
    <3>1. asked \in Nat /\ \A u \in Users : user[u].req \in Nat
      BY Typing DEF User, Reply
    <3>2. \A l \in Conns : up[l] # None => up[l] \in Nat
      BY DEF IInv, Typed, TypeOK
    <3>3. asked + 1 # None
      BY <1>1 DEF Requests
    <3> QED  BY <3>1, <3>2, <3>3 DEF IInv, Numbered
  <2> QED
    BY <1>1, <1>2, <1>4, <2>1, <2>2 DEF IInv, Unsent, Unwritten, At, lineVars
<1> QED  BY <1>5, <1>6, <1>7, <1>8 DEF IInv, Places

\* A caller's call is over.
LEMMA ReturnedTyped ==
    ASSUME IInv, NEW c \in Callers, NEW r \in Reply, Returned(c, r)
    PROVE  /\ pending' \in [Callers -> Reply] /\ answer' \in [Callers -> Reply] /\ failures' \in Nat
           /\ pending'[c] = 0 /\ \A d \in Callers \ {c} : pending'[d] = pending[d]
<1>1. pending \in [Callers -> Reply] /\ answer \in [Callers -> Reply] /\ failures \in Nat /\ 0 \in Reply
  BY DEF IInv, Typed, TypeOK, Reply
<1>2. CASE r = 0
  BY <1>1, <1>2 DEF Returned
<1>3. CASE r # 0
  BY <1>1, <1>3 DEF Returned
<1> QED  BY <1>2, <1>3

\* A remote caller reads the answer.
LEMMA RemoteReturnsKeeps ==
    ASSUME IInv, NEW c \in Remote, RemoteReturns(c)
    PROVE  IInv'
<1>0. PICK k \in Conns : k = socket[c]
  BY ClientPlace DEF RemoteReturns
<1>1. /\ k # None /\ down[k] # None /\ Returned(c, down[k]) /\ down' = [down EXCEPT ![k] = None]
      /\ UNCHANGED <<asked, executed, user, holder, opened, lineVars, socket, up, faults>>
  BY <1>0 DEF RemoteReturns
<1>2. k \in Conns /\ Answering(k, pending[c]) /\ \A d \in Remote \ {c} : socket[d] # k
  BY <1>0, <1>1, ClientPlace DEF OnTheWay, WithHandler
<1>3. down[k] \in Reply
  BY <1>1, <1>2 DEF IInv, Typed, TypeOK
<1>4. /\ pending' \in [Callers -> Reply] /\ answer' \in [Callers -> Reply] /\ failures' \in Nat
      /\ pending'[c] = 0 /\ \A d \in Callers \ {c} : pending'[d] = pending[d]
  BY <1>1, <1>3, ReturnedTyped
<1>5. /\ down' \in [Conns -> Reply \cup {None}]
      /\ down'[k] = None /\ \A l \in Conns \ {k} : down'[l] = down[l]
  BY <1>1, <1>2 DEF IInv, Typed, TypeOK
<1>6. /\ socket' \in [Remote -> Conns \cup {None}] /\ up' \in [Conns -> Requests \cup {None}]
      /\ asked' \in 0..MaxRequests /\ faults' \in 0..MaxFaults
  BY <1>1 DEF IInv, Typed, TypeOK, Requests
<1>7. Typed' /\ Line' /\ LocalPlace'
  BY <1>1, <1>4, <1>5, <1>6, RemoteKeeps
<1>8. RemotePlace'
  <2>1. socket'[c] = k /\ OnTheWay(k, None)'
    BY <1>0, <1>1, <1>2, <1>5 DEF OnTheWay, Answering, At
  <2>2. ASSUME NEW d \in Remote \ {c}
        PROVE  /\ socket'[d] = socket[d] /\ socket[d] # k /\ pending'[d] = pending[d]
               /\ socket[d] # None =>
                     /\ OnTheWay(socket[d], None) => OnTheWay(socket[d], None)'
                     /\ OnTheWay(socket[d], pending[d]) => OnTheWay(socket[d], pending[d])'
                     /\ WithHandler(socket[d], pending[d]) => WithHandler(socket[d], pending[d])'
                     /\ Answering(socket[d], pending[d]) => Answering(socket[d], pending[d])'
    BY <1>1, <1>2, <1>4, <1>5 DEF OnTheWay, WithHandler, Answering, At, IInv, Typed, TypeOK
  <2> QED  BY <1>1, <1>4, <2>1, <2>2 DEF IInv, Places, RemotePlace
<1>9. Numbered'
  BY <1>1 DEF IInv, Numbered, At
<1>10. Unsent'
  BY <1>1, UnsentKept, Typing DEF IInv, lineVars
<1> QED  BY <1>7, <1>8, <1>9, <1>10 DEF IInv, Places

\* A remote caller gives up, and drops its connection.
LEMMA GiveUpKeeps ==
    ASSUME IInv, NEW c \in Remote, GiveUp(c)
    PROVE  IInv'
<1>1. /\ socket' = [socket EXCEPT ![c] = None] /\ Returned(c, 0) /\ 0 \in Reply
      /\ UNCHANGED <<asked, executed, user, holder, opened, lineVars, up, down>>
  BY DEF GiveUp, Dropped, Reply
<1>2. /\ pending' \in [Callers -> Reply] /\ answer' \in [Callers -> Reply] /\ failures' \in Nat
      /\ pending'[c] = 0 /\ \A d \in Callers \ {c} : pending'[d] = pending[d]
  BY <1>1, ReturnedTyped
<1>3. /\ socket' \in [Remote -> Conns \cup {None}]
      /\ socket'[c] = None /\ \A d \in Remote \ {c} : socket'[d] = socket[d]
  BY <1>1 DEF IInv, Typed, TypeOK
<1>4. /\ up' \in [Conns -> Requests \cup {None}] /\ down' \in [Conns -> Reply \cup {None}]
      /\ asked' \in 0..MaxRequests
  BY <1>1 DEF IInv, Typed, TypeOK, Requests
<1>5. faults' \in 0..MaxFaults
  BY Typing DEF GiveUp, Fault
<1>6. Typed' /\ Line' /\ LocalPlace'
  BY <1>1, <1>2, <1>3, <1>4, <1>5, RemoteKeeps
<1>7. RemotePlace'
  BY <1>1, <1>2, <1>3 DEF IInv, Places, RemotePlace, OnTheWay, WithHandler, Answering, At
<1>8. Numbered'
  BY <1>1 DEF IInv, Numbered, At
<1>9. Unsent'
  BY <1>1, UnsentKept, Typing DEF IInv, lineVars
<1> QED  BY <1>6, <1>7, <1>8, <1>9 DEF IInv, Places

-----------------------------------------------------------------------------
(* The theorems                                                             *)

\* Nothing is under way at first.
LEMMA InitConsistent ==
    ASSUME Init
    PROVE  IInv
<1> USE DEF Init
<1>1. Idle \in User /\ Idle.pc = "idle" /\ Idle.req = 0 /\ 0 \in Reply
  BY DEF Idle, User, PCs, Reply
<1>2. user \in [Users -> User] /\ \A u \in Users : user[u].pc = "idle" /\ user[u].req = 0
  BY <1>1
<1>3. SeqTypes /\ \A r : ~On(inbox, r) /\ ~On(wire, r) /\ ~On(buffer, r)
  BY OnEmpty DEF SeqTypes
<1>4. Typed
  BY <1>1, <1>2, <1>3 DEF Typed, TypeOK, User, PCs
<1>5. Line
  BY <1>2, <1>3 DEF Line, OneReader, LineIsClean, AnswerMatches, Reading, At
<1>6. Places
  BY <1>2 DEF Places, LocalPlace, RemotePlace, At
<1>7. Numbered
  BY <1>2 DEF Numbered, At
<1>8. Unsent
  BY <1>2, <1>3 DEF Unsent, At
<1> QED  BY <1>4, <1>5, <1>6, <1>7, <1>8 DEF IInv

\* Every step keeps the inductive invariant.
LEMMA NextKeeps ==
    ASSUME IInv, [Next]_vars
    PROVE  IInv'
<1>1. ASSUME NEW u \in Users, SerialStep(u)
      PROVE  IInv'
  BY <1>1, SendKeeps, NotOpenKeeps, ReadFrameKeeps, MisledKeeps, SwallowFrameKeeps,
     ReadTimesOutKeeps,
     LinkFailsKeeps
  DEF SerialStep
<1>2. ASSUME NEW c \in Local, LocalStep(c)
      PROVE  IInv'
  BY <1>2, LocalAsksKeeps, LocalReturnsKeeps DEF LocalStep
<1>3. ASSUME NEW c \in Remote, RemoteStep(c)
      PROVE  IInv'
  BY <1>3, ConnectKeeps, RemoteAsksKeeps, RemoteReturnsKeeps, GiveUpKeeps DEF RemoteStep
<1>4. ASSUME NEW k \in Conns, HandlerStep(k)
      PROVE  IInv'
  BY <1>4, TakeRequestKeeps, SendReplyKeeps DEF HandlerStep
<1>5. CASE LineStep
  BY <1>5, ArmAnswersKeeps, RequestLostKeeps, ArriveKeeps, NoiseKeeps DEF LineStep
<1>6. CASE UNCHANGED vars
  <2>1. UNCHANGED <<callVars, holder, opened, netVars, failures, faults, user, inbox, wire, buffer>>
    BY <1>6 DEF vars, lineVars
  <2>2. SeqTypes' /\ user' \in [Users -> User] /\ faults' \in 0..MaxFaults /\ Len(inbox') <= Len(inbox)
    BY <2>1, Typing DEF SeqTypes
  <2> QED  BY <2>1, <2>2, QuietKeeps
<1> QED  BY <1>1, <1>2, <1>3, <1>4, <1>5, <1>6 DEF Next

\* The inductive invariant holds in every reachable state.
LEMMA LinkInductive == Spec => []IInv
<1>1. Init => IInv
  BY InitConsistent
<1>2. IInv /\ [Next]_vars => IInv'
  BY NextKeeps
<1> QED  BY <1>1, <1>2, PTL DEF Spec

\* transport.py send_frame and the relay loop of broker.py, for any threads, programs
\* and connections: one exchange at a time, nothing on the line that was not asked
\* and executed, every request in one place; and, when no reply comes after the next
\* request was written, whoever reads finds only his own reply, and a call ends with it
\* or with an error.
THEOREM LinkSound == Spec => []LinkInvariant
<1>1. IInv => LinkInvariant
  BY DEF IInv, Typed, Line, Places, LinkInvariant
<1> QED  BY <1>1, LinkInductive, PTL

\* A step of the link is one the promise allows, or none.
LEMMA StepImplements ==
    ASSUME ~LateReplies, IInv, [Next]_vars
    PROVE  [Promised!Next]_(Promised!vars)
<1> USE DEF Promised!Next, Promised!vars, Promised!Ask, Promised!Execute, Promised!Answered,
            Promised!Failed
<1>1. ASSUME UNCHANGED callVars
      PROVE  [Promised!Next]_(Promised!vars)
  BY <1>1 DEF callVars
<1>2. ASSUME NEW c \in Callers, NextRequest(c), UNCHANGED <<executed, answer>>
      PROVE  [Promised!Next]_(Promised!vars)
  BY <1>2 DEF NextRequest
<1>3. ASSUME NEW c \in Callers, NEW r \in Reply, Returned(c, r), pending[c] # 0,
             r = 0 \/ (r = pending[c] /\ r \in executed), UNCHANGED <<asked, executed>>
      PROVE  [Promised!Next]_(Promised!vars)
  <2>1. CASE r = 0
    BY <1>3, <2>1 DEF Returned
  <2>2. CASE r # 0
    BY <1>3, <2>2 DEF Returned
  <2> QED  BY <2>1, <2>2
<1>4. ASSUME NEW u \in Users, SerialStep(u)
      PROVE  UNCHANGED callVars
  BY <1>4 DEF SerialStep, Send, NotOpen, ReadFrame, Misled, SwallowFrame, ReadTimesOut, LinkFails
<1>5. ASSUME NEW c \in Local, LocalStep(c)
      PROVE  [Promised!Next]_(Promised!vars)
  <2>1. CASE LocalAsks(c)
    BY <1>2, <2>1 DEF LocalAsks
  <2>2. CASE LocalReturns(c)
    <3>1. /\ user[c].ans \in Reply /\ pending[c] # 0
          /\ user[c].ans = 0 \/ (user[c].ans = pending[c] /\ user[c].ans \in executed)
      BY <2>2, Typing DEF User, LocalReturns, At, IInv, Places, LocalPlace, Line, AnswerMatches
    <3> QED  BY <1>3, <2>2, <3>1 DEF LocalReturns
  <2> QED  BY <1>5, <2>1, <2>2 DEF LocalStep
<1>6. ASSUME NEW c \in Remote, RemoteStep(c)
      PROVE  [Promised!Next]_(Promised!vars)
  <2>1. CASE Connect(c)
    BY <1>1, <2>1 DEF Connect
  <2>2. CASE RemoteAsks(c)
    BY <1>2, <2>2 DEF RemoteAsks
  <2>3. CASE RemoteReturns(c)
    <3>1. socket[c] # None /\ down[socket[c]] # None
      BY <2>3 DEF RemoteReturns
    <3>2. socket[c] \in Conns /\ Answering(socket[c], pending[c]) /\ pending[c] # 0
      BY <3>1, ClientPlace DEF OnTheWay, WithHandler
    <3>3. /\ down[socket[c]] \in Reply
          /\ down[socket[c]] = 0 \/ (down[socket[c]] = pending[c] /\ down[socket[c]] \in executed)
      BY <3>1, <3>2 DEF Answering, IInv, Typed, TypeOK
    <3> QED  BY <1>3, <2>3, <3>2, <3>3 DEF RemoteReturns
  <2>4. CASE GiveUp(c)
    <3>1. 0 \in Reply
      BY DEF Reply
    <3> QED  BY <1>3, <2>4, <3>1 DEF GiveUp
  <2> QED  BY <1>6, <2>1, <2>2, <2>3, <2>4 DEF RemoteStep
<1>7. ASSUME NEW k \in Conns, HandlerStep(k)
      PROVE  UNCHANGED callVars
  BY <1>7 DEF HandlerStep, TakeRequest, SendReply
<1>8. CASE LineStep
  <2>1. CASE ArmAnswers
    <3>1. inbox \in Seq(Requests) /\ inbox # <<>>
      BY <2>1, Typing DEF ArmAnswers, SeqTypes
    <3>2. On(inbox, Head(inbox)) /\ Head(inbox) \in Requests
      BY <3>1, OnHeadTail
    <3>3. Head(inbox) \in 1..asked \ executed
      BY <3>2, Typing DEF IInv, Line, LineIsClean, Unsent, Requests
    <3> QED  BY <2>1, <3>3 DEF ArmAnswers
  <2>2. CASE RequestLost \/ Arrive \/ Noise
    BY <1>1, <2>2 DEF RequestLost, Arrive, Noise
  <2> QED  BY <1>8, <2>1, <2>2 DEF LineStep
<1>9. CASE UNCHANGED vars
  BY <1>1, <1>9 DEF vars
<1> QED  BY <1>1, <1>4, <1>5, <1>6, <1>7, <1>8, <1>9 DEF Next

\* With punctual replies a caller gets the arm's answer to its own request, which the
\* arm has executed once, or an error: for any callers, on both routes.
THEOREM LinkImplementsCalls == ~LateReplies /\ Spec => CallsImplemented
<1>1. Init => Promised!Init
  BY DEF Init, Promised!Init
<1>2. ~LateReplies /\ IInv /\ [Next]_vars => [Promised!Next]_(Promised!vars)
  BY StepImplements
<1>3. CASE LateReplies
  BY <1>3
<1>4. CASE ~LateReplies
  BY <1>1, <1>2, <1>4, LinkInductive, PTL DEF Spec, CallsImplemented, Promised!Spec
<1> QED  BY <1>3, <1>4
=============================================================================
