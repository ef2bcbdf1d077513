-------------------------------- MODULE Link --------------------------------
(* One request and its reply, over one open port: transport.py send_frame,  *)
(* in the program that has the port open (SerialTransport) and across the   *)
(* broker (BrokerTransport and the relay loop of broker.py), with           *)
(* protocol.py read_frame as the reader of the serial line.                 *)
(*                                                                          *)
(* Local callers are threads of the program that opened the port. A remote  *)
(* caller has a socket to a handler thread, which calls the same transport. *)
(* Requests are numbered in the order they are asked. Bytes are frames here:*)
(* on the line there are replies, frames with a wrong checksum, and noise   *)
(* that looks like a header.                                                *)
EXTENDS Naturals, Sequences, FiniteSets

CONSTANTS
    Local,          \* threads that call SerialTransport.send_frame themselves
    Remote,         \* programs that call BrokerTransport.send_frame
    Conns,          \* the broker's connections, each with its handler thread
    None,
    Garbled,        \* an item on the line: a reply with a wrong checksum
    Header,         \* an item on the line: noise that looks like a frame's header
    LateReplies,    \* an answer may arrive after the next request was written
    MaxRequests, MaxFaults

Callers == Local \cup Remote
Users == Local \cup Conns           \* the threads that use the serial port

ASSUME LinkAssumption ==
    /\ Local \cap Remote = {} /\ Local \cap Conns = {}
    /\ None \notin Users \cup 0..MaxRequests
    /\ {Garbled, Header} \cap 0..MaxRequests = {} /\ Garbled # Header
    /\ LateReplies \in BOOLEAN
    /\ MaxRequests \in Nat /\ MaxFaults \in Nat

VARIABLES
    asked, pending, executed, answer,   \* as in Calls
    user,       \* each user's call of SerialTransport.send_frame
    holder,     \* who has the transport's lock, or None
    opened,     \* the transport is open
    inbox,      \* requests written, not yet handled by the arm
    wire,       \* what the arm sent and the program has not received yet
    buffer,     \* the serial input buffer
    socket,     \* each remote caller's connection, or None
    up, down,   \* what is on its way on a connection; None, or a request or reply
    failures, faults    \* how many calls failed, and how often something went wrong

callVars == <<asked, pending, executed, answer>>
lineVars == <<inbox, wire, buffer>>
netVars == <<socket, up, down>>
vars == <<callVars, user, holder, opened, lineVars, netVars, failures, faults>>

Idle == [pc |-> "idle", req |-> 0, ans |-> 0]

Init ==
    /\ asked = 0 /\ executed = {}
    /\ pending = [c \in Callers |-> 0]
    /\ answer = [c \in Callers |-> 0]
    /\ user = [u \in Users |-> Idle]
    /\ holder = None /\ opened = TRUE
    /\ inbox = <<>> /\ wire = <<>> /\ buffer = <<>>
    /\ socket = [c \in Remote |-> None]
    /\ up = [k \in Conns |-> None]
    /\ down = [k \in Conns |-> None]
    /\ failures = 0 /\ faults = 0

-----------------------------------------------------------------------------
(* SerialTransport.send_frame                                               *)

At(u, pc) == user[u].pc = pc
Fault == faults < MaxFaults /\ faults' = faults + 1

\* The call of u is over, with this answer; 0 is an exception.
Ends(u, ans) ==
    /\ user' = [user EXCEPT ![u].pc = "done", ![u].ans = ans]
    /\ holder' = IF holder = u THEN None ELSE holder

\* reset_input_buffer(): what arrived too late for its own request is dropped.
PurgeForgotten == buffer
Purged == <<>>

\* What a punctual arm adds: an answer that misses its request arrives before
\* the next one is written, or not at all.
Settled == LateReplies \/ (inbox = <<>> /\ wire = <<>>)

Send(u) ==
    /\ At(u, "waiting") /\ opened /\ holder = None /\ Settled
    /\ holder' = u
    /\ user' = [user EXCEPT ![u].pc = "reading"]
    /\ buffer' = Purged
    /\ inbox' = Append(inbox, user[u].req)
    /\ UNCHANGED <<callVars, opened, wire, netVars, failures, faults>>

NotOpen(u) ==
    /\ At(u, "waiting") /\ ~opened /\ Ends(u, 0)
    /\ UNCHANGED <<callVars, opened, lineVars, netVars, failures, faults>>

\* read_frame returns the first frame in the buffer, or raises for a checksum.
ReadFrame(u) ==
    /\ At(u, "reading") /\ buffer # <<>> /\ Head(buffer) # Header
    /\ Ends(u, IF Head(buffer) = Garbled THEN 0 ELSE Head(buffer))
    /\ buffer' = Tail(buffer)
    /\ UNCHANGED <<callVars, opened, inbox, wire, netVars, failures, faults>>

\* Bytes that look like a header: the reader takes what follows for a frame of
\* the length it finds there. It reads past the reply, or finds a wrong checksum
\* in the middle of it and leaves the rest.
Misled(u) ==
    /\ At(u, "reading") /\ buffer # <<>> /\ Head(buffer) = Header
    /\ user' = [user EXCEPT ![u].pc = "misled"]
    /\ buffer' = Tail(buffer)
    /\ UNCHANGED <<callVars, holder, opened, inbox, wire, netVars, failures, faults>>

SwallowFrame(u) ==
    /\ At(u, "misled") /\ buffer # <<>>
    /\ \/ buffer' = Tail(buffer) /\ UNCHANGED <<user, holder>>
       \/ buffer' = <<Garbled>> \o Tail(buffer) /\ Ends(u, 0)
    /\ UNCHANGED <<callVars, opened, inbox, wire, netVars, failures, faults>>

\* _read_byte waits a limited time. That it gives up while an answer is on its
\* way is a fault of the arm, which was late.
WaitsForever(u) == FALSE
Waited(u) == user[u].pc \in {"reading", "misled"} /\ buffer = <<>>

ReadTimesOut(u) ==
    /\ Waited(u) /\ Ends(u, 0)
    /\ \/ inbox = <<>> /\ wire = <<>> /\ UNCHANGED faults
       \/ (inbox # <<>> \/ wire # <<>>) /\ Fault
    /\ UNCHANGED <<callVars, opened, lineVars, netVars, failures>>

\* The read or the write fails. A handler then drops the transport.
LinkFails(u) ==
    /\ user[u].pc \in {"reading", "misled"}
    /\ Fault /\ Ends(u, 0)
    /\ opened' = (opened /\ u \notin Conns)
    /\ UNCHANGED <<callVars, lineVars, netVars, failures>>

-----------------------------------------------------------------------------
(* The arm and the line                                                     *)

ArmAnswers ==
    /\ inbox # <<>>
    /\ executed' = executed \cup {Head(inbox)}
    /\ inbox' = Tail(inbox)
    /\ \/ wire' = Append(wire, Head(inbox)) /\ UNCHANGED faults
       \/ wire' = Append(wire, Garbled) /\ Fault
       \/ UNCHANGED wire /\ Fault
    /\ UNCHANGED <<asked, pending, answer, user, holder, opened, buffer, netVars, failures>>

RequestLost ==
    /\ inbox # <<>> /\ Fault
    /\ inbox' = Tail(inbox)
    /\ UNCHANGED <<callVars, user, holder, opened, wire, buffer, netVars, failures>>

Arrive ==
    /\ wire # <<>>
    /\ buffer' = Append(buffer, Head(wire))
    /\ wire' = Tail(wire)
    /\ UNCHANGED <<callVars, user, holder, opened, inbox, netVars, failures, faults>>

Noise ==
    /\ Fault
    /\ buffer' = Append(buffer, Header)
    /\ UNCHANGED <<callVars, user, holder, opened, inbox, wire, netVars, failures>>

-----------------------------------------------------------------------------
(* The callers                                                              *)

NextRequest(c) ==
    /\ pending[c] = 0 /\ asked < MaxRequests
    /\ asked' = asked + 1
    /\ pending' = [pending EXCEPT ![c] = asked + 1]

Begin(u, r) == user' = [user EXCEPT ![u] = [pc |-> "waiting", req |-> r, ans |-> 0]]

\* send_frame of c returns with answer r, or raises.
Returned(c, r) ==
    /\ pending' = [pending EXCEPT ![c] = 0]
    /\ IF r = 0 THEN failures' = failures + 1 /\ UNCHANGED answer
                ELSE answer' = [answer EXCEPT ![c] = r] /\ UNCHANGED failures

LocalAsks(c) ==
    /\ NextRequest(c) /\ Begin(c, asked + 1)
    /\ UNCHANGED <<executed, answer, holder, opened, lineVars, netVars, failures, faults>>

LocalReturns(c) ==
    /\ At(c, "done") /\ Returned(c, user[c].ans)
    /\ user' = [user EXCEPT ![c] = Idle]
    /\ UNCHANGED <<asked, executed, holder, opened, lineVars, netVars, faults>>

\* A connection whose handler has ended: it has no client and nothing to do.
Free(k) == At(k, "idle") /\ up[k] = None /\ \A c \in Remote : socket[c] # k

Connect(c) ==
    /\ socket[c] = None
    /\ \E k \in Conns :
          /\ Free(k)
          /\ socket' = [socket EXCEPT ![c] = k]
          /\ down' = [down EXCEPT ![k] = None]
    /\ UNCHANGED <<callVars, user, holder, opened, lineVars, up, failures, faults>>

RemoteAsks(c) ==
    /\ socket[c] # None /\ NextRequest(c)
    /\ up' = [up EXCEPT ![socket[c]] = asked + 1]
    /\ UNCHANGED <<executed, answer, user, holder, opened, lineVars, socket, down, failures,
                   faults>>

RemoteReturns(c) ==
    /\ socket[c] # None /\ down[socket[c]] # None
    /\ Returned(c, down[socket[c]])
    /\ down' = [down EXCEPT ![socket[c]] = None]
    /\ UNCHANGED <<asked, executed, user, holder, opened, lineVars, socket, up, faults>>

\* After a timeout the client drops the connection: the answer that may still
\* come would be taken for the answer to the next request.
KeptOpen(c) == socket
Dropped(c) == [socket EXCEPT ![c] = None]

\* The client gives up, or the connection to the broker breaks.
GiveUp(c) ==
    /\ socket[c] # None /\ pending[c] # 0 /\ Fault
    /\ socket' = Dropped(c) /\ Returned(c, 0)
    /\ UNCHANGED <<asked, executed, user, holder, opened, lineVars, up, down>>

\* The relay loop of a handler: it relays requests also of a client that has left.
TakeRequest(k) ==
    /\ At(k, "idle") /\ up[k] # None
    /\ Begin(k, up[k])
    /\ up' = [up EXCEPT ![k] = None]
    /\ UNCHANGED <<callVars, holder, opened, lineVars, socket, down, failures, faults>>

SendReply(k) ==
    /\ At(k, "done")
    /\ down' = [down EXCEPT ![k] = user[k].ans]
    /\ user' = [user EXCEPT ![k] = Idle]
    /\ UNCHANGED <<callVars, holder, opened, lineVars, socket, up, failures, faults>>

-----------------------------------------------------------------------------
SerialStep(u) ==
    \/ Send(u) \/ NotOpen(u) \/ ReadFrame(u) \/ Misled(u) \/ SwallowFrame(u)
    \/ ReadTimesOut(u) \/ LinkFails(u)
LocalStep(c) == LocalAsks(c) \/ LocalReturns(c)
RemoteStep(c) == Connect(c) \/ RemoteAsks(c) \/ RemoteReturns(c) \/ GiveUp(c)
HandlerStep(k) == TakeRequest(k) \/ SendReply(k)
LineStep == ArmAnswers \/ RequestLost \/ Arrive \/ Noise

Next ==
    \/ \E u \in Users : SerialStep(u)
    \/ \E c \in Local : LocalStep(c)
    \/ \E c \in Remote : RemoteStep(c)
    \/ \E k \in Conns : HandlerStep(k)
    \/ LineStep

Spec == Init /\ [][Next]_vars

\* The serial reads have a timeout, threads run, the line delivers, and the lock
\* of the transport goes to each thread that keeps asking for it.
Fairness ==
    /\ \A u \in Users :
          /\ SF_vars(Send(u))
          /\ WF_vars(NotOpen(u) \/ ReadFrame(u) \/ Misled(u) \/ SwallowFrame(u)
                     \/ ReadTimesOut(u))
    /\ \A c \in Local : WF_vars(LocalReturns(c))
    /\ \A c \in Remote : WF_vars(RemoteReturns(c))
    /\ \A k \in Conns : WF_vars(HandlerStep(k))
    /\ WF_vars(ArmAnswers) /\ WF_vars(Arrive)

FairSpec == Spec /\ Fairness

-----------------------------------------------------------------------------
(* Properties                                                               *)

Reply == 0..MaxRequests
Item == 1..MaxRequests \cup {Garbled, Header}

\* Every variable has the values the code can give it.
TypeOK ==
    /\ asked \in 0..MaxRequests /\ executed \subseteq 1..asked
    /\ pending \in [Callers -> Reply] /\ answer \in [Callers -> Reply]
    /\ user \in [Users -> [pc : {"idle", "waiting", "reading", "misled", "done"},
                           req : Reply, ans : Reply]]
    /\ holder \in Users \cup {None} /\ opened \in BOOLEAN
    /\ socket \in [Remote -> Conns \cup {None}]
    /\ up \in [Conns -> 1..MaxRequests \cup {None}]
    /\ down \in [Conns -> Reply \cup {None}]
    /\ failures \in Nat /\ faults \in 0..MaxFaults

Reading(u) == user[u].pc \in {"reading", "misled"}

\* One exchange at a time: whoever reads has the lock.
OneReader == \A u \in Users : Reading(u) <=> holder = u

On(seq, r) == \E i \in DOMAIN seq : seq[i] = r

\* Whatever is on the line was asked, and a reply is one the arm has sent. While
\* somebody reads, there is nothing on it but his own request and reply.
LineIsClean ==
    \A r \in 1..MaxRequests :
        /\ On(inbox, r) => r <= asked
        /\ On(wire, r) \/ On(buffer, r) => r \in executed
        /\ ~LateReplies /\ (On(inbox, r) \/ On(wire, r) \/ On(buffer, r)) =>
              \A u \in Users : Reading(u) => user[u].req = r

\* A call that is over has the answer to its own request, or failed.
AnswerMatches ==
    ~LateReplies => \A u \in Users :
        At(u, "done") => user[u].ans = 0 \/ (user[u].ans = user[u].req /\ user[u].ans \in executed)

\* A caller's request is in one place: with its own call, on the way to the
\* handler, with the handler, or answered. A connection has one client.
LocalPlace ==
    \A c \in Local : IF pending[c] = 0 THEN At(c, "idle")
                                      ELSE ~At(c, "idle") /\ user[c].req = pending[c]

OnTheWay(k, r) == At(k, "idle") /\ up[k] = r /\ down[k] = None
WithHandler(k, r) == ~At(k, "idle") /\ user[k].req = r /\ up[k] = None /\ down[k] = None
Answering(k, r) ==
    /\ At(k, "idle") /\ up[k] = None /\ down[k] # None
    /\ ~LateReplies /\ down[k] # 0 => down[k] = r /\ r \in executed

RemotePlace ==
    \A c \in Remote :
        IF socket[c] = None THEN pending[c] = 0
        ELSE /\ \A d \in Remote : socket[d] = socket[c] => d = c
             /\ IF pending[c] = 0 THEN OnTheWay(socket[c], None)
                ELSE \/ OnTheWay(socket[c], pending[c])
                     \/ WithHandler(socket[c], pending[c])
                     \/ Answering(socket[c], pending[c])

LinkInvariant ==
    TypeOK /\ OneReader /\ LineIsClean /\ AnswerMatches /\ LocalPlace /\ RemotePlace

\* Of all that goes wrong on the line, each thing costs one call at most: a late,
\* lost or garbled reply, or noise, never spoils the call after the one it hit.
OneFaultOneFailure == opened => failures <= faults

\* A caller gets the arm's answer to its own request, or an error.
Promised == INSTANCE Calls WITH
    Callers <- Callers, asked <- asked, pending <- pending, executed <- executed, answer <- answer
CallsImplemented == Promised!Spec

\* Every call ends, and a handler whose client has left becomes free.
CallsEnd == \A c \in Callers : pending[c] # 0 ~> pending[c] = 0
HandlersEnd == \A k \in Conns : (\A c \in Remote : socket[c] # k) ~>
                                (Free(k) \/ \E c \in Remote : socket[c] = k)
=============================================================================
