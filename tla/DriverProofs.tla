---------------------------- MODULE DriverProofs ----------------------------
(* Theorems about the queue protocol, for any threads, Dobots, commands and   *)
(* bounds: types and the order of the queue however the arm is used, and what *)
(* the results of the methods mean to a program that drives the arm alone.    *)
EXTENDS Driver, TLAPS, FiniteSetTheorems, SequenceTheorems

USE DriverAssumption

Queued(a) == {c \in Commands : a.outcome[c] = "queued"}

\* The queue of an arm: the commands not executed, in the order of their indexes.
Sound(a) ==
    /\ a \in ArmType
    /\ a.executed <= a.added
    /\ \A i \in DOMAIN a.queue :
          /\ a.outcome[a.queue[i]] = "queued"
          /\ a.executed < a.index[a.queue[i]] /\ a.index[a.queue[i]] <= a.added
    /\ \A i, j \in DOMAIN a.queue : i < j => a.index[a.queue[i]] < a.index[a.queue[j]]
    /\ \A c \in Queued(a) : \E i \in DOMAIN a.queue : a.queue[i] = c
    /\ \A c \in Commands : a.outcome[c] = "failed" => c \in OutOfReach
    /\ a.started => a.queue # <<>> /\ Head(a.queue) \in Moves \cup Homings

\* Some of the commands of a have run, in b.
Ran(a, b) ==
    /\ b.index = a.index /\ b.added = a.added /\ a.executed <= b.executed
    /\ \A c \in Commands :
          \/ b.outcome[c] = a.outcome[c]
          \/ a.outcome[c] = "queued" /\ b.outcome[c] = "done"
          \/ a.outcome[c] = "queued" /\ b.outcome[c] = "failed" /\ b.alarm
    /\ a.alarm => b.alarm
    /\ b.alarm => a.alarm \/ Queued(a) # {}

\* What each place of a call is reached by.
Fits(pc, call) ==
    /\ pc = "record" => call \in {"execute", "queue", "moveTo", "home"}
    /\ pc = "mode" => call \in {"execute", "home"}
    /\ pc = "index" => call \in {"execute", "moveTo", "home", "idle", "exit"}
    /\ pc \in {"alarms", "discard", "forgetAndRaise"} =>
          call \in {"execute", "moveTo", "idle", "exit"}
    /\ pc = "target" => call \in {"idle", "exit"}
    /\ pc = "homed" => call = "home"
    /\ pc \in {"clearAlarm", "confirm"} => call \in {"home", "clearAlarm"}
    /\ pc = "deepen" => call = "enter"
    /\ pc = "stopQueue" => call \in {"enter", "control"}
    /\ pc \in {"clearQueue", "forget"} => call \in {"enter", "abort", "connect", "clearQueue"}
    /\ pc = "startQueue" => call \in {"exit", "abort", "connect", "control"}

PlaceFits(th) == Fits(th.pc, th.call)

\* The blocks that the threads of a Dobot are in.
Blocks(d) == {b \in Threads \X Nat : DobotOf[b[1]] = d /\ b[2] \in 1..thread[b[1]].depth}

\* The depth of a Dobot counts them.
DepthsMatch ==
    \A d \in Dobots : IsFiniteSet(Blocks(d)) /\ Cardinality(Blocks(d)) = dobot[d].depth

IInv == TypeOK /\ Sound(arm) /\ DepthsMatch /\ \A t \in Threads : PlaceFits(thread[t])

-----------------------------------------------------------------------------
(* One thread drives                                                        *)

\* A call that waits for its own command.
Own == {"execute", "moveTo", "home"}

\* The command is the last the arm got, and was neither discarded nor refused without an
\* alarm.
Awaited(th, a) ==
    /\ th.command \in Commands /\ th.target = a.index[th.command]
    /\ a.outcome[th.command] \in {"queued", "done", "failed"}
    /\ a.outcome[th.command] = "failed" => a.alarm
    /\ \A c \in Queued(a) : a.index[c] <= th.target
    /\ th.call = "home" => th.command \in Homings

HasRun(th, a) == th.command \in Commands /\ a.outcome[th.command] = "done"

\* What the driving thread may rely on.
CallHolds(th, a) ==
    /\ th.pc = "record" => th.target = a.added /\ th.target # 0
    /\ th.pc \in {"record", "mode", "index", "alarms"} /\ th.call \in Own => Awaited(th, a)
    /\ th.pc = "alarms" => th.current <= a.executed
    /\ th.pc \in {"homed", "clearAlarm", "confirm"} /\ th.call = "home" =>
          HasRun(th, a) /\ Queued(a) = {}
    /\ th.pc = "idle" /\ th.returned = "ok" /\ th.call \in Own => HasRun(th, a)
    /\ th.pc = "idle" /\ th.returned = "ok" /\ th.call = "home" => ~a.alarm /\ Queued(a) = {}

\* As long as no exchange has failed, the Dobot remembers an index that none still queued
\* is beyond.
NothingBeyond(th, last, a) ==
    /\ th.pc # "record" => \A c \in Queued(a) : a.index[c] <= last
    /\ th.pc \in {"forget", "forgetAndRaise"} => Queued(a) = {}
    /\ th.pc \in {"index", "alarms"} => \A c \in Queued(a) : a.index[c] <= th.target
    /\ th.pc = "idle" /\ th.returned = "ok" /\ th.call \in {"idle", "exit"} => Queued(a) = {}
    /\ th.pc = "idle" /\ th.returned = "raised" /\ th.call \in {"execute", "idle", "exit"} =>
          Queued(a) = {}

\* The others start or stop the queue.
OnlyControls(th) == th.call \in {"none", "control"}

DrivenInv(s) ==
    /\ CallHolds(thread[s], arm)
    /\ \A t \in Threads \ {s} : OnlyControls(thread[t])
    /\ failures = 0 => NothingBeyond(thread[s], dobot[D(s)].last, arm)

-----------------------------------------------------------------------------
(* Documented use                                                           *)

\* In a batch the queue is stopped and holds all of it.
BatchHolds(th, d, a) ==
    /\ th.depth = d.depth
    /\ th.depth > 0 =>
          /\ th.pc \in {"idle", "record", "mode", "clearAlarm", "confirm"}
          /\ th.pc = "record" => th.call # "moveTo"
          /\ ~a.running /\ d.batch \subseteq Queued(a)
    /\ th.call = "enter" /\ th.pc \in {"clearQueue", "forget", "deepen"} => ~a.running
    /\ th.call = "enter" /\ th.pc = "deepen" => d.batch = {}

\* As long as no exchange has failed, the batch that ends is neither discarded nor, without
\* an alarm, refused.
BatchEnds(th, d, a) ==
    /\ th.depth > 0 /\ th.pc # "record" /\ d.last = 0 => d.batch = {}
    /\ th.call = "exit" /\ th.pc \in {"startQueue", "target", "index", "alarms"} =>
          /\ d.last = 0 => d.batch = {}
          /\ \A c \in d.batch : /\ a.outcome[c] \in {"queued", "done", "failed"}
                                /\ a.outcome[c] = "failed" => a.alarm
    /\ th.call = "exit" /\ th.pc = "idle" /\ th.returned = "ok" =>
          \A c \in d.batch : a.outcome[c] = "done"

DocumentedInv(s) ==
    /\ BatchHolds(thread[s], dobot[D(s)], arm)
    /\ \A t \in Threads \ {s} : thread[t].pc = "idle" /\ thread[t].depth = 0
    /\ failures = 0 => BatchEnds(thread[s], dobot[D(s)], arm)

-----------------------------------------------------------------------------
(* The queue of the arm                                                     *)

\* What runs at once is at the front of the queue.
LEMMA RunsFront ==
    ASSUME NEW a \in ArmType
    PROVE  /\ Cardinality(RunsAtOnce(a)) \in 0..Len(a.queue)
           /\ RunsAtOnce(a) = 1..Cardinality(RunsAtOnce(a))
<1> DEFINE R == RunsAtOnce(a)
           n == Cardinality(R)
<1>1. a.queue \in Seq(Commands) /\ Len(a.queue) \in Nat /\ DOMAIN a.queue = 1..Len(a.queue)
  BY DEF ArmType
<1>2. IsFiniteSet(1..Len(a.queue)) /\ Cardinality(1..Len(a.queue)) = Len(a.queue)
  BY <1>1, FS_Interval
<1>3. R \subseteq 1..Len(a.queue)
  BY <1>1 DEF RunsAtOnce
<1>4. IsFiniteSet(R) /\ n \in Nat /\ n <= Len(a.queue)
  BY <1>2, <1>3, FS_Subset, FS_CardinalityType
<1>5. ASSUME NEW i \in R  PROVE i <= n
  <2>1. i \in 1..Len(a.queue) /\ 1..i \subseteq R
    BY <1>1, <1>3 DEF RunsAtOnce
  <2>2. Cardinality(1..i) = i
    BY <2>1, FS_Interval
  <2> QED  BY <1>4, <2>1, <2>2, FS_Subset
<1>6. R \subseteq 1..n
  BY <1>3, <1>4, <1>5
<1>7. IsFiniteSet(1..n) /\ Cardinality(1..n) = n
  BY <1>4, FS_Interval
<1>8. R = 1..n
  BY <1>6, <1>7, FS_Subset
<1> QED  BY <1>4, <1>8

\* The queue without its first n commands.
LEMMA Shortened ==
    ASSUME NEW q \in Seq(Commands), NEW n \in 0..Len(q), NEW r, r = SubSeq(q, n + 1, Len(q))
    PROVE  /\ r \in Seq(Commands) /\ Len(r) = Len(q) - n
           /\ \A i \in 1..Len(r) : r[i] = q[n + i]
           /\ n < Len(q) => Head(r) = q[n + 1]
<1>1. r \in Seq(Commands) /\ Len(r) = Len(q) - n
  OBVIOUS
<1>2. \A i \in 1..Len(r) : r[i] = q[n + i]
  BY <1>1
<1>3. n < Len(q) => Head(r) = q[n + 1]
  BY <1>1, <1>2
<1> QED  BY <1>1, <1>2, <1>3

\* Two arms with the same fields.
LEMMA SameArm ==
    ASSUME NEW a \in ArmType, NEW b \in ArmType,
           a.queue = b.queue, a.index = b.index, a.running = b.running, a.jogging = b.jogging,
           a.alarm = b.alarm, a.started = b.started, a.added = b.added,
           a.executed = b.executed, a.outcome = b.outcome
    PROVE  a = b
<1> DEFINE R(x) == [queue |-> x.queue, index |-> x.index, running |-> x.running,
                    jogging |-> x.jogging, alarm |-> x.alarm, started |-> x.started,
                    added |-> x.added, executed |-> x.executed, outcome |-> x.outcome]
<1>1. \A x \in ArmType : x = R(x)
  BY DEF ArmType
<1>2. R(a) = R(b)
  OBVIOUS
<1> QED  BY <1>1, <1>2

\* An exchange that only runs what can run.
LEMMA AdvanceSound ==
    ASSUME NEW a, Sound(a)
    PROVE  /\ Sound(Advance(a)) /\ Ran(a, Advance(a))
           /\ Advance(a).running = a.running /\ Advance(a).jogging = a.jogging
           /\ ~a.running => Advance(a) = a
<1> DEFINE R == RunsAtOnce(a)
           n == Cardinality(R)
           ran == {a.queue[i] : i \in R}
           b == [a EXCEPT
                    !.queue = SubSeq(@, n + 1, Len(@)),
                    !.executed = IF n = 0 THEN @ ELSE a.index[a.queue[n]],
                    !.alarm = @ \/ ran \cap OutOfReach # {},
                    !.outcome = [c \in Commands |->
                        CASE c \in ran \cap Settings -> "done"
                          [] c \in ran \cap OutOfReach -> "failed"
                          [] OTHER -> @[c]]]
           d == [b EXCEPT !.started = @ \/ CanRun(b)]
<1>0. Advance(a) = d
  BY DEF Advance
<1>1. /\ a \in ArmType /\ a.queue \in Seq(Commands) /\ a.index \in [Commands -> Nat]
      /\ a.executed \in Nat /\ a.added \in Nat /\ DOMAIN a.queue = 1..Len(a.queue)
      /\ Len(a.queue) \in Nat /\ a.alarm \in BOOLEAN /\ a.started \in BOOLEAN
      /\ a.outcome \in [Commands -> {"unsent", "queued", "done", "failed", "dropped"}]
  BY DEF Sound, ArmType
<1>2. n \in 0..Len(a.queue) /\ R = 1..n
  BY <1>1, RunsFront
<1> HIDE DEF R, n
<1>3. /\ d.queue = SubSeq(a.queue, n + 1, Len(a.queue))
      /\ d.executed = IF n = 0 THEN a.executed ELSE a.index[a.queue[n]]
      /\ d.index = a.index /\ d.added = a.added
      /\ d.running = a.running /\ d.jogging = a.jogging
      /\ d.alarm = (a.alarm \/ ran \cap OutOfReach # {})
      /\ d.outcome = [c \in Commands |->
                        CASE c \in ran \cap Settings -> "done"
                          [] c \in ran \cap OutOfReach -> "failed"
                          [] OTHER -> a.outcome[c]]
      /\ d.started = (a.started \/ CanRun(b))
      /\ b.queue = d.queue /\ b.running = a.running /\ b.jogging = a.jogging
      /\ b.alarm = d.alarm
  BY <1>1 DEF ArmType
<1>4. \A i \in 1..n :
         /\ CanRun(a) /\ ~a.alarm
         /\ a.queue[i] \in Settings \cup OutOfReach
         /\ \A j \in 1..(i - 1) : a.queue[j] \in Settings
  BY <1>2 DEF R, RunsAtOnce
<1> HIDE DEF b, d
<1>5. /\ ran \subseteq Queued(a)
      /\ \A i, j \in DOMAIN a.queue : a.queue[i] = a.queue[j] => i = j
  <2>1. \A i \in DOMAIN a.queue : a.queue[i] \in Commands
    BY <1>1
  <2>2. ASSUME NEW i \in DOMAIN a.queue, NEW j \in DOMAIN a.queue, a.queue[i] = a.queue[j]
        PROVE  i = j
    <3>1. i \in Nat /\ j \in Nat /\ a.index[a.queue[i]] \in Nat
      BY <1>1, <2>1
    <3>2. ~(i < j) /\ ~(j < i)
      BY <2>2, <3>1 DEF Sound
    <3> QED  BY <3>1, <3>2
  <2>3. ASSUME NEW i \in R  PROVE a.queue[i] \in Queued(a)
    <3>1. i \in DOMAIN a.queue
      BY <1>1, <1>2
    <3> QED  BY <2>1, <3>1 DEF Sound, Queued
  <2> QED  BY <2>2, <2>3
<1>6. \A c \in Commands :
         /\ c \in ran /\ c \in Settings => d.outcome[c] = "done"
         /\ c \in ran /\ c \in OutOfReach => d.outcome[c] = "failed" /\ d.alarm
         /\ c \notin ran => d.outcome[c] = a.outcome[c]
         /\ c \in ran => c \in Settings \cup OutOfReach
  <2>1. \A c \in ran : c \in Settings \cup OutOfReach
    BY <1>2, <1>4
  <2>2. \A c \in Commands : c \in ran \cap OutOfReach => c \notin Settings
    BY CommandsAssumption
  <2>3. ASSUME NEW c \in ran, c \in OutOfReach  PROVE d.alarm
    BY <1>3, <2>3
  <2> HIDE DEF ran
  <2> QED  BY <1>3, <2>1, <2>2, <2>3
<1>7. /\ d.queue \in Seq(Commands) /\ Len(d.queue) = Len(a.queue) - n
      /\ (n < Len(a.queue) => Head(d.queue) = a.queue[n + 1])
      /\ \A i \in 1..Len(d.queue) : d.queue[i] = a.queue[n + i]
  <2>1. d.queue = SubSeq(a.queue, n + 1, Len(a.queue)) /\ a.queue \in Seq(Commands)
    BY <1>1, <1>3
  <2>2. n \in 0..Len(a.queue)
    BY <1>2
  <2>3. /\ d.queue \in Seq(Commands) /\ Len(d.queue) = Len(a.queue) - n
        /\ \A i \in 1..Len(d.queue) : d.queue[i] = a.queue[n + i]
        /\ n < Len(a.queue) => Head(d.queue) = a.queue[n + 1]
    BY <2>1, <2>2, Shortened
  <2> QED  BY <2>3
<1>8. ASSUME NEW i \in 1..Len(d.queue)
      PROVE  n + i \in DOMAIN a.queue /\ a.queue[n + i] \notin ran
  <2>1. n + i \in DOMAIN a.queue /\ i > 0
    BY <1>1, <1>2, <1>7
  <2>2. ASSUME a.queue[n + i] \in ran  PROVE FALSE
    <3>1. PICK j \in 1..n : a.queue[n + i] = a.queue[j]
      BY <1>2, <2>2
    <3>2. j \in DOMAIN a.queue
      BY <1>1, <1>2
    <3>3. n + i = j
      BY <1>5, <2>1, <3>1, <3>2
    <3> QED  BY <1>2, <2>1, <3>3
  <2> QED  BY <2>1, <2>2
<1>9. n > 0 => /\ a.queue[n] \in Commands /\ n \in DOMAIN a.queue /\ d.executed = a.index[a.queue[n]]
               /\ a.executed < d.executed /\ d.executed <= a.added /\ d.executed \in Nat
  BY <1>1, <1>2, <1>3 DEF Sound
<1>10. d \in ArmType
  <2>1. d.outcome \in [Commands -> {"unsent", "queued", "done", "failed", "dropped"}]
    BY <1>1, <1>3, <1>6
  <2>2. d.executed \in Nat
    BY <1>1, <1>2, <1>3, <1>9
  <2>3. d.alarm \in BOOLEAN /\ d.started \in BOOLEAN
    BY <1>1, <1>3 DEF CanRun
  <2> QED  BY <1>1, <1>3, <1>7, <2>1, <2>2, <2>3 DEF ArmType, b, d
<1>11. ASSUME d.started  PROVE d.queue # <<>> /\ Head(d.queue) \in Moves \cup Homings
  <2>1. CASE a.started
    <3>1. a.queue # <<>> /\ Head(a.queue) \in Moves \cup Homings /\ Head(a.queue) = a.queue[1]
      BY <1>1, <2>1 DEF Sound
    <3>2. Len(a.queue) > 0
      BY <1>1, <3>1, EmptySeq
    <3>3. n = 0
      <4>1. ASSUME n # 0  PROVE FALSE
        <5>1. Head(a.queue) \in Settings \cup OutOfReach
          BY <1>2, <1>4, <3>1, <4>1
        <5> QED  BY <3>1, <5>1, CommandsAssumption
      <4> QED  BY <4>1
    <3> QED  BY <1>7, <3>1, <3>2, <3>3
  <2>2. CASE ~a.started
    <3>1. /\ d.queue # <<>> /\ a.running /\ ~a.jogging
          /\ ~d.alarm \/ Head(d.queue) \in Homings
      BY <1>3, <1>11, <2>2 DEF CanRun
    <3>2. n < Len(a.queue) /\ n + 1 \in DOMAIN a.queue /\ Head(d.queue) = a.queue[n + 1]
      <4>1. Len(d.queue) # 0
        BY <1>7, <3>1, EmptySeq
      <4>2. n \in Nat /\ Len(a.queue) \in Nat /\ n <= Len(a.queue)
        BY <1>1, <1>2
      <4>3. n < Len(a.queue)
        BY <1>7, <4>1, <4>2
      <4>4. n + 1 \in DOMAIN a.queue
        BY <1>1, <4>2, <4>3
      <4> QED  BY <1>7, <4>3, <4>4
    <3>3. Head(d.queue) \in Commands /\ a.queue # <<>>
      BY <1>1, <3>2
    <3>4. ASSUME ~d.alarm, a.queue[n + 1] \in Settings \cup OutOfReach  PROVE FALSE
      <4>1. \A i \in 1..n : a.queue[i] \in ran
        BY <1>2
      <4>2. ~a.alarm /\ \A i \in 1..n : a.queue[i] \notin OutOfReach
        BY <1>3, <3>4, <4>1
      <4>3. CanRun(a) /\ \A i \in 1..n : a.queue[i] \in Settings
        BY <1>4, <3>1, <3>3, <4>2 DEF CanRun
      <4>4. n + 1 \in R
        BY <1>2, <3>2, <3>4, <4>2, <4>3 DEF R, RunsAtOnce
      <4> QED  BY <1>2, <4>4
    <3> QED  BY <3>1, <3>2, <3>3, <3>4 DEF Commands
  <2> QED  BY <2>1, <2>2
<1> HIDE DEF ran
<1>12. Sound(d)
  <2>1. d.executed <= d.added
    BY <1>1, <1>2, <1>3, <1>9 DEF Sound
  <2>2. ASSUME NEW i \in DOMAIN d.queue
        PROVE  /\ d.outcome[d.queue[i]] = "queued"
               /\ d.executed < d.index[d.queue[i]] /\ d.index[d.queue[i]] <= d.added
    <3>0. i \in 1..Len(d.queue) /\ d.queue[i] = a.queue[n + i]
      BY <1>7
    <3>1. i \in 1..Len(d.queue) /\ d.queue[i] = a.queue[n + i] /\ a.queue[n + i] \in Commands
      BY <1>1, <1>8, <3>0
    <3>2. n + i \in DOMAIN a.queue /\ a.queue[n + i] \notin ran
      BY <1>8, <3>1
    <3>3. d.outcome[d.queue[i]] = "queued"
      BY <1>6, <3>1, <3>2 DEF Sound
    <3>4. d.index[d.queue[i]] <= d.added /\ a.executed < d.index[d.queue[i]]
      BY <1>3, <3>1, <3>2 DEF Sound
    <3>5. CASE n = 0
      BY <1>3, <3>3, <3>4, <3>5
    <3>6. CASE n # 0
      <4>1. n \in DOMAIN a.queue /\ n < n + i /\ d.executed = a.index[a.queue[n]]
        BY <1>2, <1>9, <3>1, <3>6
      <4>2. a.index[a.queue[n]] < a.index[a.queue[n + i]]
        BY <3>2, <4>1 DEF Sound
      <4> QED  BY <1>3, <3>1, <3>3, <3>4, <4>1, <4>2
    <3> QED  BY <3>5, <3>6
  <2>3. \A i, j \in DOMAIN d.queue : i < j => d.index[d.queue[i]] < d.index[d.queue[j]]
    <3>1. ASSUME NEW i \in DOMAIN d.queue, NEW j \in DOMAIN d.queue, i < j
          PROVE  d.index[d.queue[i]] < d.index[d.queue[j]]
      <4>1. i \in 1..Len(d.queue) /\ j \in 1..Len(d.queue)
        BY <1>7
      <4>2. n + i \in DOMAIN a.queue /\ n + j \in DOMAIN a.queue /\ n + i < n + j
        BY <1>2, <1>8, <3>1, <4>1
      <4> QED  BY <1>3, <1>7, <4>1, <4>2 DEF Sound
    <3> QED  BY <3>1
  <2>4. ASSUME NEW c \in Queued(d)  PROVE \E i \in DOMAIN d.queue : d.queue[i] = c
    <3>1. c \in Commands /\ c \notin ran /\ a.outcome[c] = "queued"
      BY <1>6 DEF Queued
    <3>2. PICK k \in DOMAIN a.queue : a.queue[k] = c
      BY <3>1 DEF Sound, Queued
    <3>3. k \notin 1..n /\ k \in 1..Len(a.queue)
      BY <1>1, <1>2, <3>1, <3>2 DEF ran
    <3>4. k - n \in 1..Len(d.queue) /\ n + (k - n) = k
      <4>1. Len(d.queue) = Len(a.queue) - n /\ n \in Nat /\ Len(a.queue) \in Nat
        BY <1>1, <1>2, <1>7
      <4> QED  BY <3>3, <4>1
    <3>5. d.queue[k - n] = c
      BY <1>7, <3>2, <3>4
    <3> QED  BY <1>7, <3>4, <3>5
  <2>5. \A c \in Commands : d.outcome[c] = "failed" => c \in OutOfReach
    BY <1>6 DEF Sound
  <2> QED  BY <1>10, <1>11, <2>1, <2>2, <2>3, <2>4, <2>5 DEF Sound
<1>13. Ran(a, d)
  <2>1. a.executed <= d.executed
    <3>1. a.executed \in Nat /\ n \in Nat
      BY <1>1, <1>2
    <3>2. CASE n = 0
      BY <1>3, <3>1, <3>2
    <3>3. CASE n > 0
      BY <1>9, <3>1, <3>3
    <3> QED  BY <3>1, <3>2, <3>3
  <2>2. ASSUME d.alarm, ~a.alarm  PROVE Queued(a) # {}
    BY <1>3, <1>5, <2>2
  <2>3. \A c \in Commands :
           \/ d.outcome[c] = a.outcome[c]
           \/ a.outcome[c] = "queued" /\ d.outcome[c] = "done"
           \/ a.outcome[c] = "queued" /\ d.outcome[c] = "failed" /\ d.alarm
    BY <1>5, <1>6 DEF Queued
  <2> QED  BY <1>1, <1>3, <2>1, <2>2, <2>3 DEF Ran
<1>14. ASSUME ~a.running  PROVE d = a
  <2>1. n = 0
    BY <1>2, <1>4, <1>14 DEF CanRun
  <2>2. ran = {}
    BY <1>2, <2>1 DEF ran
  <2>3. d.queue = a.queue
    BY <1>1, <1>3, <2>1
  <2>4. d.outcome = a.outcome
    BY <1>1, <1>3, <2>2
  <2>5. d.started = a.started
    <3>1. ~CanRun(b)
      BY <1>3, <1>14 DEF CanRun
    <3> QED  BY <1>1, <1>3, <3>1
  <2>6. d.alarm = a.alarm /\ d.executed = a.executed
    BY <1>1, <1>3, <2>1, <2>2
  <2>7. d.index = a.index /\ d.added = a.added /\ d.running = a.running /\ d.jogging = a.jogging
    BY <1>3
  <2> QED  BY <1>1, <1>10, <2>3, <2>4, <2>5, <2>6, <2>7, SameArm
<1> QED  BY <1>0, <1>3, <1>12, <1>13, <1>14

\* What Ran says of two runs after one another.
LEMMA RanTwice ==
    ASSUME NEW a \in ArmType, NEW b \in ArmType, NEW d \in ArmType, Ran(a, b), Ran(b, d)
    PROVE  Ran(a, d)
<1>1. \A c \in Commands :
         /\ a.outcome[c] # "queued" => b.outcome[c] = a.outcome[c]
         /\ b.outcome[c] # "queued" => d.outcome[c] = b.outcome[c]
  BY DEF Ran
<1>2. ASSUME NEW c \in Commands
      PROVE  \/ d.outcome[c] = a.outcome[c]
             \/ a.outcome[c] = "queued" /\ d.outcome[c] = "done"
             \/ a.outcome[c] = "queued" /\ d.outcome[c] = "failed" /\ d.alarm
  BY <1>1 DEF Ran
<1>3. Queued(b) \subseteq Queued(a)
  BY <1>1 DEF Queued
<1>4. a.executed \in Nat /\ b.executed \in Nat /\ d.executed \in Nat
  BY DEF ArmType
<1> QED  BY <1>2, <1>3, <1>4 DEF Ran

LEMMA RanSame ==
    ASSUME NEW a \in ArmType, NEW b \in ArmType, b.index = a.index, b.added = a.added,
           b.executed = a.executed, b.outcome = a.outcome, b.alarm = a.alarm
    PROVE  Ran(a, b)
<1>1. a.executed \in Nat
  BY DEF ArmType
<1> QED  BY <1>1 DEF Ran

\* The queue only starts, stops, or the arm jogs.
LEMMA SwitchSound ==
    ASSUME NEW a, Sound(a), NEW b, NEW run \in BOOLEAN, NEW jog \in BOOLEAN,
           b = [a EXCEPT !.running = run, !.jogging = jog]
    PROVE  /\ Sound(b) /\ Ran(a, b) /\ b.outcome = a.outcome
           /\ b.running = run /\ b.jogging = jog
<1>1. a \in ArmType /\ b \in ArmType
  BY DEF ArmType, Sound
<1>2. /\ b.queue = a.queue /\ b.index = a.index /\ b.added = a.added /\ b.executed = a.executed
      /\ b.outcome = a.outcome /\ b.alarm = a.alarm /\ b.started = a.started
      /\ b.running = run /\ b.jogging = jog
  BY <1>1 DEF ArmType
<1>3. Sound(b)
  BY <1>1, <1>2 DEF Sound, Queued
<1> QED  BY <1>1, <1>2, <1>3, RanSame

\* The queue after its first command.
LEMMA Behind ==
    ASSUME NEW a, Sound(a), a.queue # <<>>
    PROVE  /\ Tail(a.queue) \in Seq(Commands) /\ Len(Tail(a.queue)) = Len(a.queue) - 1
           /\ Head(a.queue) = a.queue[1] /\ Head(a.queue) \in Commands /\ 1 \in DOMAIN a.queue
           /\ \A i \in 1..Len(Tail(a.queue)) :
                 /\ i + 1 \in DOMAIN a.queue /\ Tail(a.queue)[i] = a.queue[i + 1]
                 /\ Tail(a.queue)[i] # Head(a.queue)
           /\ \A i \in DOMAIN a.queue : i # 1 =>
                 i - 1 \in 1..Len(Tail(a.queue)) /\ Tail(a.queue)[i - 1] = a.queue[i]
<1>1. a.queue \in Seq(Commands) /\ a.index \in [Commands -> Nat]
  BY DEF Sound, ArmType
<1>2. /\ Tail(a.queue) \in Seq(Commands) /\ Len(Tail(a.queue)) = Len(a.queue) - 1
      /\ Head(a.queue) = a.queue[1] /\ Len(a.queue) \in Nat /\ DOMAIN a.queue = 1..Len(a.queue)
      /\ \A i \in 1..Len(Tail(a.queue)) : Tail(a.queue)[i] = a.queue[i + 1]
  BY <1>1
<1>3. Len(a.queue) # 0
  BY <1>1, EmptySeq
<1>4. 1 \in DOMAIN a.queue /\ Head(a.queue) \in Commands
  BY <1>1, <1>2, <1>3
<1>5. ASSUME NEW i \in 1..Len(Tail(a.queue))
      PROVE  i + 1 \in DOMAIN a.queue /\ Tail(a.queue)[i] # Head(a.queue)
  <2>1. i + 1 \in DOMAIN a.queue /\ 1 < i + 1
    BY <1>2
  <2>2. a.index[a.queue[1]] < a.index[a.queue[i + 1]] /\ a.queue[1] \in Commands
    BY <1>1, <1>2, <1>4, <2>1 DEF Sound
  <2>3. a.index[a.queue[1]] \in Nat
    BY <1>1, <2>2
  <2> QED  BY <1>2, <2>1, <2>2, <2>3
<1>6. \A i \in DOMAIN a.queue : i # 1 =>
         i - 1 \in 1..Len(Tail(a.queue)) /\ Tail(a.queue)[i - 1] = a.queue[i]
  BY <1>2
<1> QED  BY <1>2, <1>4, <1>5, <1>6

\* The first command leaves the queue: executed, or abandoned.
LEMMA HeadLeaves ==
    ASSUME NEW a, Sound(a), a.queue # <<>>, NEW b \in ArmType,
           b.queue = Tail(a.queue), b.index = a.index, b.added = a.added, ~b.started,
           b.executed \in {a.executed, a.index[Head(a.queue)]},
           b.outcome[Head(a.queue)] \in {"done", "dropped"},
           \A c \in Commands \ {Head(a.queue)} : b.outcome[c] = a.outcome[c]
    PROVE  Sound(b)
<1> DEFINE h == Head(a.queue)
           t == Tail(a.queue)
<1>1. /\ a.executed \in Nat /\ a.added \in Nat /\ a.index \in [Commands -> Nat] /\ a.queue[1] = h
      /\ h \in Commands /\ 1 \in DOMAIN a.queue /\ a.executed < a.index[h] /\ a.index[h] <= a.added
  BY Behind DEF Sound, ArmType
<1>2. b.executed <= b.added
  BY <1>1 DEF Sound
<1>3. ASSUME NEW i \in DOMAIN b.queue
      PROVE  /\ b.outcome[b.queue[i]] = "queued"
             /\ b.executed < b.index[b.queue[i]] /\ b.index[b.queue[i]] <= b.added
  <2>1. /\ i \in 1..Len(t) /\ i + 1 \in DOMAIN a.queue /\ b.queue[i] = a.queue[i + 1]
        /\ b.queue[i] # h
    BY Behind
  <2>2. /\ a.outcome[b.queue[i]] = "queued" /\ a.executed < a.index[b.queue[i]]
        /\ a.index[b.queue[i]] <= a.added
    BY <2>1 DEF Sound
  <2>3. 1 < i + 1 /\ b.queue[i] \in Commands
    BY <2>1, Behind
  <2>4. a.index[h] < a.index[b.queue[i]]
    BY <1>1, <2>1, <2>3 DEF Sound
  <2> QED  BY <2>1, <2>2, <2>3, <2>4
<1>4. ASSUME NEW i \in DOMAIN b.queue, NEW j \in DOMAIN b.queue, i < j
      PROVE  b.index[b.queue[i]] < b.index[b.queue[j]]
  <2>1. /\ i \in 1..Len(t) /\ i + 1 \in DOMAIN a.queue /\ b.queue[i] = a.queue[i + 1]
        /\ j \in 1..Len(t) /\ j + 1 \in DOMAIN a.queue /\ b.queue[j] = a.queue[j + 1]
    BY Behind
  <2>2. i + 1 < j + 1
    BY <1>4, <2>1
  <2> QED  BY <2>1, <2>2 DEF Sound
<1>5. ASSUME NEW c \in Queued(b)  PROVE \E i \in DOMAIN b.queue : b.queue[i] = c
  <2>1. c \in Commands /\ c # h /\ c \in Queued(a)
    BY DEF Queued
  <2>2. PICK i \in DOMAIN a.queue : a.queue[i] = c
    BY <2>1 DEF Sound
  <2>3. i # 1
    BY <1>1, <2>1, <2>2
  <2>4. i - 1 \in 1..Len(t) /\ t[i - 1] = c
    BY <2>2, <2>3, Behind
  <2>5. DOMAIN t = 1..Len(t)
    BY Behind
  <2> QED  BY <2>4, <2>5
<1>6. \A c \in Commands : b.outcome[c] = "failed" => c \in OutOfReach
  BY DEF Sound
<1> QED  BY <1>2, <1>3, <1>4, <1>5, <1>6 DEF Sound

LEMMA RetireSound ==
    ASSUME NEW a, Sound(a), a.queue # <<>>
    PROVE  Sound(Retire(a)) /\ Ran(a, Retire(a)) /\ Retire(a).running = a.running
<1> DEFINE b == Retire(a)
           h == Head(a.queue)
<1>1. /\ a \in ArmType /\ h \in Commands /\ Tail(a.queue) \in Seq(Commands)
      /\ a.index \in [Commands -> Nat] /\ a.executed \in Nat
      /\ a.outcome \in [Commands -> {"unsent", "queued", "done", "failed", "dropped"}]
  BY Behind DEF Sound, ArmType
<1>2. /\ b.queue = Tail(a.queue) /\ b.index = a.index /\ b.added = a.added /\ b.started = FALSE
      /\ b.executed = a.index[h] /\ b.outcome = [a.outcome EXCEPT ![h] = "done"]
      /\ b.alarm = a.alarm /\ b.running = a.running
  BY <1>1 DEF Retire, ArmType
<1>3. b \in ArmType
  BY <1>1 DEF Retire, ArmType
<1>4. a.outcome[h] = "queued" /\ a.executed < a.index[h]
  BY Behind DEF Sound
<1> HIDE DEF b
<1>5. Sound(b)
  BY <1>1, <1>2, <1>3, HeadLeaves
<1>6. Ran(a, b)
  <2>1. a.executed <= b.executed
    BY <1>1, <1>2, <1>4
  <2> QED  BY <1>1, <1>2, <1>4, <2>1 DEF Ran
<1> QED  BY <1>2, <1>5, <1>6 DEF b

\* A tick of the motion loop runs commands, and none when the queue is stopped.
LEMMA TickSound ==
    ASSUME Sound(arm), Tick
    PROVE  Sound(arm') /\ Ran(arm, arm') /\ arm'.running = arm.running /\ arm.running
<1>1. /\ Sound(Advance(arm)) /\ Ran(arm, Advance(arm)) /\ Advance(arm).running = arm.running
      /\ ~arm.running => Advance(arm) = arm
  BY AdvanceSound
<1>2. CASE TickStarts
  BY <1>1, <1>2 DEF TickStarts
<1>3. CASE TickEnds
  <2> DEFINE b == Retire(Advance(arm))
  <2>1. Advance(arm).queue # <<>> /\ arm.running /\ arm' = Advance(b)
    BY <1>1, <1>3 DEF TickEnds, CanRun
  <2>2. Sound(b) /\ Ran(Advance(arm), b) /\ b.running = arm.running
    BY <1>1, <2>1, RetireSound
  <2>3. Sound(arm') /\ Ran(b, arm') /\ arm'.running = b.running
    BY <2>1, <2>2, AdvanceSound
  <2>4. Ran(arm, b)
    BY <1>1, <2>2, RanTwice DEF Sound
  <2> QED  BY <2>1, <2>2, <2>3, <2>4, RanTwice DEF Sound
<1> QED  BY <1>2, <1>3 DEF Tick

\* The command in progress is abandoned.
LEMMA ForceStoppedSound ==
    ASSUME NEW a, Sound(a)
    PROVE  LET b == ForceStopped(a) IN
           /\ Sound(b) /\ b.index = a.index /\ b.added = a.added /\ b.executed = a.executed
           /\ b.alarm = a.alarm /\ b.running = FALSE
           /\ \A c \in Commands : \/ b.outcome[c] = a.outcome[c]
                                  \/ a.outcome[c] = "queued" /\ b.outcome[c] = "dropped"
<1> DEFINE b == ForceStopped(a)
           h == Head(a.queue)
<1>1. CASE ~a.started
  <2>1. b = [a EXCEPT !.running = FALSE, !.jogging = a.jogging]
    BY <1>1 DEF ForceStopped, QueueStopped, Sound, ArmType
  <2>2. a.jogging \in BOOLEAN /\ a \in ArmType
    BY DEF Sound, ArmType
  <2> HIDE DEF b
  <2>3. Sound(b) /\ Ran(a, b) /\ b.outcome = a.outcome /\ b.running = FALSE
    BY <2>1, <2>2, SwitchSound
  <2>4. b.executed = a.executed /\ b.alarm = a.alarm
    BY <2>1, <2>2 DEF ArmType
  <2> QED  BY <2>3, <2>4 DEF Ran, b
<1>2. CASE a.started
  <2>1. a.queue # <<>> /\ a \in ArmType
    BY <1>2 DEF Sound
  <2>2. h \in Commands /\ Tail(a.queue) \in Seq(Commands) /\ a.outcome[h] = "queued"
    BY <2>1, Behind DEF Sound
  <2>3. b = [a EXCEPT !.running = FALSE, !.queue = Tail(a.queue), !.started = FALSE,
                      !.outcome = Dropped(a, {h})]
    BY <1>2 DEF ForceStopped
  <2>4. /\ Dropped(a, {h}) \in [Commands -> {"unsent", "queued", "done", "failed", "dropped"}]
        /\ Dropped(a, {h})[h] = "dropped"
        /\ \A c \in Commands \ {h} : Dropped(a, {h})[c] = a.outcome[c]
    BY <2>1, <2>2 DEF Dropped, ArmType
  <2>5. /\ b.queue = Tail(a.queue) /\ b.index = a.index /\ b.added = a.added /\ b.started = FALSE
        /\ b.executed = a.executed /\ b.outcome = Dropped(a, {h})
        /\ b.alarm = a.alarm /\ b.running = FALSE
    BY <2>1, <2>3 DEF ArmType
  <2>6. b \in ArmType
    BY <2>1, <2>2, <2>3, <2>4 DEF ArmType
  <2> HIDE DEF b
  <2>7. Sound(b)
    BY <2>1, <2>4, <2>5, <2>6, HeadLeaves
  <2> QED  BY <2>2, <2>4, <2>5, <2>7 DEF b
<1> QED  BY <1>1, <1>2

\* The queue is cleared.
LEMMA ClearedSound ==
    ASSUME NEW a, Sound(a)
    PROVE  LET b == Cleared(a) IN
           /\ Sound(b) /\ b.index = a.index /\ b.added = 0 /\ b.executed = 0
           /\ b.alarm = a.alarm /\ b.running = a.running /\ Queued(b) = {}
           /\ \A c \in Commands : b.outcome[c] =
                 IF a.outcome[c] = "queued" THEN "dropped" ELSE a.outcome[c]
<1> DEFINE b == Cleared(a)
           all == {a.queue[i] : i \in DOMAIN a.queue}
<1>1. a \in ArmType /\ <<>> \in Seq(Commands) /\ \A c \in Commands : c \in all <=> c \in Queued(a)
  BY DEF Sound, Queued, ArmType
<1>2. /\ Dropped(a, all) \in [Commands -> {"unsent", "queued", "done", "failed", "dropped"}]
      /\ \A c \in Commands : Dropped(a, all)[c] =
                 IF a.outcome[c] = "queued" THEN "dropped" ELSE a.outcome[c]
  BY <1>1 DEF Dropped, ArmType, Queued
<1> HIDE DEF all
<1>3. b = [a EXCEPT !.queue = <<>>, !.added = 0, !.executed = 0, !.started = FALSE,
                    !.outcome = Dropped(a, all)]
  BY DEF Cleared, all
<1>4. /\ b.queue = <<>> /\ b.index = a.index /\ b.added = 0 /\ b.executed = 0
      /\ b.started = FALSE /\ b.outcome = Dropped(a, all) /\ b.alarm = a.alarm
      /\ b.running = a.running
  BY <1>1, <1>3 DEF ArmType
<1>5. b \in ArmType
  <2> DEFINE o == Dropped(a, all)
  <2>1. o \in [Commands -> {"unsent", "queued", "done", "failed", "dropped"}]
    BY <1>2
  <2>2. <<>> \in Seq(Commands) /\ 0 \in Nat /\ a \in ArmType
    BY <1>1
  <2>3. b = [a EXCEPT !.queue = <<>>, !.added = 0, !.executed = 0, !.started = FALSE,
                      !.outcome = o]
    BY <1>3
  <2> HIDE DEF o, b
  <2> QED  BY <2>1, <2>2, <2>3 DEF ArmType
<1> HIDE DEF b
<1>6. Queued(b) = {} /\ DOMAIN b.queue = {}
  BY <1>1, <1>2, <1>4 DEF Queued
<1>7. \A c \in Commands : b.outcome[c] = "failed" => c \in OutOfReach
  BY <1>2, <1>4 DEF Sound
<1>8. Sound(b)
  BY <1>4, <1>5, <1>6, <1>7 DEF Sound
<1> QED  BY <1>2, <1>4, <1>6, <1>8 DEF b

\* A command comes to the end of the queue.
Appended(a, c) ==
    [a EXCEPT !.added = @ + 1, !.index[c] = a.added + 1, !.queue = Append(@, c),
              !.outcome[c] = "queued"]

LEMMA AppendedSound ==
    ASSUME NEW a, Sound(a), NEW c \in Commands, a.outcome[c] = "unsent"
    PROVE  LET b == Appended(a, c) IN
           /\ Sound(b) /\ b.index = [a.index EXCEPT ![c] = a.added + 1] /\ b.added = a.added + 1
           /\ b.executed = a.executed /\ b.alarm = a.alarm /\ b.running = a.running
           /\ b.outcome = [a.outcome EXCEPT ![c] = "queued"]
           /\ \A d \in Queued(b) : b.index[d] <= a.added + 1
<1> DEFINE b == Appended(a, c)
<1>1. /\ a \in ArmType /\ a.queue \in Seq(Commands) /\ a.index \in [Commands -> Nat]
      /\ a.added \in Nat /\ a.executed \in Nat /\ Len(a.queue) \in Nat
      /\ DOMAIN a.queue = 1..Len(a.queue)
      /\ a.outcome \in [Commands -> {"unsent", "queued", "done", "failed", "dropped"}]
  BY DEF Sound, ArmType
<1>2. /\ b.queue = Append(a.queue, c) /\ b.index = [a.index EXCEPT ![c] = a.added + 1]
      /\ b.added = a.added + 1 /\ b.executed = a.executed /\ b.alarm = a.alarm
      /\ b.running = a.running /\ b.started = a.started
      /\ b.outcome = [a.outcome EXCEPT ![c] = "queued"]
  BY <1>1 DEF Appended, ArmType
<1>3. b \in ArmType
  <2> DEFINE q == Append(a.queue, c)
             x == [a.index EXCEPT ![c] = a.added + 1]
             o == [a.outcome EXCEPT ![c] = "queued"]
  <2>1. q \in Seq(Commands) /\ x \in [Commands -> Nat] /\ a.added + 1 \in Nat
    BY <1>1
  <2>2. o \in [Commands -> {"unsent", "queued", "done", "failed", "dropped"}]
    BY <1>1
  <2>3. b = [a EXCEPT !.added = a.added + 1, !.index = x, !.queue = q, !.outcome = o]
    BY <1>1 DEF Appended, ArmType
  <2> HIDE DEF q, x, o, b
  <2> QED  BY <1>1, <2>1, <2>2, <2>3 DEF ArmType
<1> HIDE DEF b
<1>4. /\ Len(b.queue) = Len(a.queue) + 1 /\ DOMAIN b.queue = 1..Len(b.queue)
      /\ b.queue[Len(a.queue) + 1] = c
      /\ \A i \in 1..Len(a.queue) : b.queue[i] = a.queue[i]
  BY <1>1, <1>2
<1>5. \A i \in DOMAIN a.queue : /\ a.queue[i] \in Commands /\ a.queue[i] # c
                                /\ a.executed < a.index[a.queue[i]]
                                /\ a.index[a.queue[i]] <= a.added
                                /\ a.outcome[a.queue[i]] = "queued"
  BY <1>1 DEF Sound
<1>6. \A i \in DOMAIN a.queue : i \in DOMAIN b.queue /\ b.index[b.queue[i]] = a.index[a.queue[i]]
                                /\ b.outcome[b.queue[i]] = "queued"
  BY <1>1, <1>2, <1>4, <1>5
<1>7. b.index[c] = a.added + 1 /\ b.outcome[c] = "queued" /\ a.executed <= a.added
  BY <1>1, <1>2 DEF Sound
<1>8. \A i \in DOMAIN b.queue : i \in DOMAIN a.queue \/ (i = Len(a.queue) + 1 /\ b.queue[i] = c)
  <2>1. DOMAIN b.queue = 1..(Len(a.queue) + 1)
    BY <1>4
  <2>2. \A i \in DOMAIN b.queue : i \in 1..Len(a.queue) \/ i = Len(a.queue) + 1
    BY <1>1, <2>1
  <2>3. b.queue[Len(a.queue) + 1] = c /\ DOMAIN a.queue = 1..Len(a.queue)
    BY <1>1, <1>4
  <2>4. ASSUME NEW i \in DOMAIN b.queue
        PROVE  i \in DOMAIN a.queue \/ (i = Len(a.queue) + 1 /\ b.queue[i] = c)
    <3>1. CASE i \in 1..Len(a.queue)
      BY <2>3, <3>1
    <3>2. CASE i = Len(a.queue) + 1
      BY <2>3, <3>2
    <3> QED  BY <2>2, <3>1, <3>2
  <2> QED  BY <2>4
<1>9. ASSUME NEW i \in DOMAIN b.queue
      PROVE  /\ b.outcome[b.queue[i]] = "queued" /\ b.executed < b.index[b.queue[i]]
             /\ b.index[b.queue[i]] <= b.added
  <2>1. CASE i \in DOMAIN a.queue
    <3>1. /\ a.index[a.queue[i]] \in Nat /\ a.executed < a.index[a.queue[i]]
          /\ a.index[a.queue[i]] <= a.added
      BY <1>1, <1>5, <2>1
    <3>2. /\ b.outcome[b.queue[i]] = "queued" /\ b.index[b.queue[i]] = a.index[a.queue[i]]
          /\ b.executed = a.executed /\ b.added = a.added + 1 /\ a.added \in Nat
      BY <1>1, <1>2, <1>6, <2>1
    <3> QED  BY <3>1, <3>2
  <2>2. CASE b.queue[i] = c
    BY <1>1, <1>2, <1>7, <2>2
  <2> QED  BY <1>8, <2>1, <2>2
<1>10. ASSUME NEW i \in DOMAIN b.queue, NEW j \in DOMAIN b.queue, i < j
       PROVE  b.index[b.queue[i]] < b.index[b.queue[j]]
  <2>1. i \in DOMAIN a.queue
    BY <1>1, <1>4, <1>10
  <2>2. CASE j \in DOMAIN a.queue
    <3>1. a.index[a.queue[i]] < a.index[a.queue[j]]
      BY <1>10, <2>1, <2>2 DEF Sound
    <3> QED  BY <1>6, <2>1, <2>2, <3>1
  <2>3. CASE b.queue[j] = c
    <3>1. a.index[a.queue[i]] \in Nat /\ a.index[a.queue[i]] <= a.added
      BY <1>1, <1>5, <2>1
    <3> QED  BY <1>1, <1>6, <1>7, <2>1, <2>3, <3>1
  <2> QED  BY <1>8, <2>2, <2>3
<1>11. ASSUME NEW d \in Queued(b)
       PROVE  (\E i \in DOMAIN b.queue : b.queue[i] = d) /\ b.index[d] <= a.added + 1
  <2>1. CASE d = c
    <3>1. Len(a.queue) + 1 \in DOMAIN b.queue
      BY <1>1, <1>4
    <3> QED  BY <1>1, <1>4, <1>7, <2>1, <3>1
  <2>2. CASE d # c
    <3>1. d \in Commands /\ a.outcome[d] = "queued"
      BY <1>1, <1>2, <2>2 DEF Queued
    <3>2. PICK i \in DOMAIN a.queue : a.queue[i] = d
      BY <3>1 DEF Sound, Queued
    <3>3. b.queue[i] = d /\ i \in DOMAIN b.queue
      BY <1>1, <1>4, <3>2
    <3>4. b.index[d] <= b.added
      BY <1>9, <3>3
    <3> QED  BY <1>2, <3>3, <3>4
  <2> QED  BY <2>1, <2>2
<1>12. \A d \in Commands : b.outcome[d] = "failed" => d \in OutOfReach
  BY <1>1, <1>2 DEF Sound
<1>13. b.started => b.queue # <<>> /\ Head(b.queue) \in Moves \cup Homings
  <2>1. ASSUME b.started
        PROVE  b.queue # <<>> /\ Head(b.queue) \in Moves \cup Homings
    <3>1. a.queue # <<>> /\ Head(a.queue) = a.queue[1] /\ Head(a.queue) \in Moves \cup Homings
      BY <1>1, <1>2, <2>1 DEF Sound
    <3>2. Len(a.queue) # 0
      BY <1>1, <3>1, EmptySeq
    <3>3. b.queue[1] = a.queue[1] /\ Len(b.queue) # 0 /\ b.queue \in Seq(Commands)
      BY <1>1, <1>2, <1>4, <3>2
    <3>4. b.queue # <<>> /\ Head(b.queue) = b.queue[1]
      BY <3>3, EmptySeq
    <3> QED  BY <3>1, <3>3, <3>4
  <2> QED  BY <2>1
<1>14. b.executed <= b.added
  BY <1>1, <1>2, <1>7
<1>15. Sound(b)
  BY <1>3, <1>9, <1>10, <1>11, <1>12, <1>13, <1>14 DEF Sound
<1> QED  BY <1>2, <1>11, <1>15 DEF b

-----------------------------------------------------------------------------
(* The frame handlers                                                       *)

LEMMA EnqueuedSound ==
    ASSUME NEW a, Sound(a), NEW c \in Commands, a.outcome[c] = "unsent"
    PROVE  /\ Sound(Appended(a, c)) /\ Sound(Enqueued(a, c)) /\ Ran(Appended(a, c), Enqueued(a, c))
           /\ Enqueued(a, c).running = a.running
           /\ ~a.running => Enqueued(a, c) = Appended(a, c)
<1>1. Enqueued(a, c) = Advance(Appended(a, c))
  BY DEF Enqueued, Appended
<1>2. Sound(Appended(a, c)) /\ Appended(a, c).running = a.running
  BY AppendedSound
<1> QED  BY <1>1, <1>2, AdvanceSound

LEMMA StartedSound ==
    ASSUME NEW a, Sound(a)
    PROVE  Sound(QueueStarted(a)) /\ Ran(a, QueueStarted(a))
<1> DEFINE b == [a EXCEPT !.running = TRUE]
<1>1. b = [a EXCEPT !.running = TRUE, !.jogging = a.jogging] /\ a.jogging \in BOOLEAN
  BY DEF Sound, ArmType
<1>2. QueueStarted(a) = Advance(b)
  BY DEF QueueStarted
<1> HIDE DEF b
<1>3. Sound(b) /\ Ran(a, b)
  BY <1>1, SwitchSound
<1> QED  BY <1>2, <1>3, AdvanceSound, RanTwice DEF Sound

LEMMA StoppedSound ==
    ASSUME NEW a, Sound(a)
    PROVE  /\ Sound(QueueStopped(a)) /\ Ran(a, QueueStopped(a)) /\ QueueStopped(a).running = FALSE
           /\ QueueStopped(a).outcome = a.outcome
<1> DEFINE b == [a EXCEPT !.running = FALSE]
<1>1. b = [a EXCEPT !.running = FALSE, !.jogging = a.jogging] /\ a.jogging \in BOOLEAN
  BY DEF Sound, ArmType
<1>2. QueueStopped(a) = b
  BY DEF QueueStopped
<1> HIDE DEF b
<1>3. Sound(b) /\ Ran(a, b) /\ b.running = FALSE /\ b.outcome = a.outcome
  BY <1>1, SwitchSound
<1> QED  BY <1>2, <1>3

LEMMA JogSound ==
    ASSUME NEW a, Sound(a), NEW b \in {Jogged(a), JogIdle(a)}
    PROVE  Sound(b) /\ Ran(a, b) /\ b.running = a.running /\ b.outcome = a.outcome
<1>1. a.running \in BOOLEAN /\ a \in ArmType
  BY DEF Sound, ArmType
<1>2. \/ b = [a EXCEPT !.running = a.running, !.jogging = TRUE]
      \/ b = [a EXCEPT !.running = a.running, !.jogging = FALSE]
  BY <1>1 DEF Jogged, JogIdle, ArmType
<1>3. CASE b = [a EXCEPT !.running = a.running, !.jogging = TRUE]
  BY <1>1, <1>3, SwitchSound
<1>4. CASE b = [a EXCEPT !.running = a.running, !.jogging = FALSE]
  BY <1>1, <1>4, SwitchSound
<1> QED  BY <1>2, <1>3, <1>4

\* The alarms are cleared, before anything runs.
Calm(a) == [a EXCEPT !.alarm = FALSE]

LEMMA AlarmsClearedSound ==
    ASSUME NEW a, Sound(a)
    PROVE  LET b == Calm(a) IN
           /\ Sound(AlarmsCleared(a)) /\ Ran(b, AlarmsCleared(a))
           /\ AlarmsCleared(a).running = a.running
           /\ ~a.running => AlarmsCleared(a) = b
           /\ Sound(b) /\ b.index = a.index /\ b.added = a.added /\ b.executed = a.executed
           /\ b.outcome = a.outcome /\ b.alarm = FALSE /\ b.running = a.running
<1> DEFINE b == Calm(a)
<1>1. a \in ArmType
  BY DEF Sound
<1>2. /\ b.queue = a.queue /\ b.index = a.index /\ b.added = a.added /\ b.executed = a.executed
      /\ b.outcome = a.outcome /\ b.alarm = FALSE /\ b.started = a.started /\ b.running = a.running
      /\ b \in ArmType
  BY <1>1 DEF ArmType, Calm
<1>3. AlarmsCleared(a) = Advance(b)
  BY DEF AlarmsCleared, Calm
<1> HIDE DEF b
<1>4. Sound(b)
  BY <1>2 DEF Sound, Queued
<1> QED  BY <1>2, <1>3, <1>4, AdvanceSound DEF b

-----------------------------------------------------------------------------
(* The depth of the batches                                                 *)

LEMMA DepthsKept ==
    ASSUME DepthsMatch, \A t \in Threads : thread'[t].depth = thread[t].depth,
           \A d \in Dobots : dobot'[d].depth = dobot[d].depth
    PROVE  DepthsMatch'
<1>1. \A d \in Dobots : Blocks(d)' = Blocks(d)
  BY DEF Blocks
<1> QED  BY <1>1 DEF DepthsMatch

\* A thread enters a block.
LEMMA DepthsGrow ==
    ASSUME TypeOK, DepthsMatch, NEW t \in Threads, thread'[t].depth = thread[t].depth + 1,
           \A u \in Threads \ {t} : thread'[u].depth = thread[u].depth,
           dobot'[D(t)].depth = dobot[D(t)].depth + 1,
           \A d \in Dobots \ {D(t)} : dobot'[d].depth = dobot[d].depth
    PROVE  DepthsMatch'
<1> DEFINE new == <<t, thread[t].depth + 1>>
<1>1. \A u \in Threads : thread[u].depth \in Nat
  BY DEF TypeOK, ThreadType
<1>2. ASSUME NEW d \in Dobots, d # D(t)  PROVE Blocks(d)' = Blocks(d)
  BY <1>2 DEF Blocks, D
<1>3. Blocks(D(t))' = Blocks(D(t)) \cup {new} /\ new \notin Blocks(D(t))
  <2>1. \A i \in Nat : i \in 1..(thread[t].depth + 1) <=>
                          i \in 1..thread[t].depth \/ i = thread[t].depth + 1
    BY <1>1
  <2>2. new \notin Blocks(D(t)) /\ new \in Threads \X Nat /\ DobotOf[new[1]] = D(t)
    BY <1>1 DEF Blocks, D
  <2>3. ASSUME NEW b \in Threads \X Nat
        PROVE  b[2] \in 1..thread'[b[1]].depth <=> b[2] \in 1..thread[b[1]].depth \/ b = new
    <3>1. b = <<b[1], b[2]>> /\ b[1] \in Threads /\ b[2] \in Nat
      OBVIOUS
    <3>2. CASE b[1] = t
      BY <2>1, <3>1, <3>2
    <3>3. CASE b[1] # t
      BY <3>1, <3>3
    <3> QED  BY <3>2, <3>3
  <2> QED  BY <2>2, <2>3 DEF Blocks
<1>4. ASSUME NEW d \in Dobots
      PROVE  IsFiniteSet(Blocks(d)') /\ Cardinality(Blocks(d)') = dobot'[d].depth
  <2>1. CASE d # D(t)
    BY <1>2, <2>1 DEF DepthsMatch
  <2>2. CASE d = D(t)
    <3>1. /\ IsFiniteSet(Blocks(d) \cup {new})
          /\ Cardinality(Blocks(d) \cup {new}) = Cardinality(Blocks(d)) + 1
      BY <1>3, <2>2, FS_AddElement DEF DepthsMatch
    <3> QED  BY <1>3, <2>2, <3>1 DEF DepthsMatch
  <2> QED  BY <2>1, <2>2
<1> QED  BY <1>4 DEF DepthsMatch

\* A thread leaves a block.
LEMMA DepthsShrink ==
    ASSUME TypeOK, DepthsMatch, NEW t \in Threads, thread[t].depth > 0,
           thread'[t].depth = thread[t].depth - 1,
           \A u \in Threads \ {t} : thread'[u].depth = thread[u].depth,
           dobot'[D(t)].depth = dobot[D(t)].depth - 1,
           \A d \in Dobots \ {D(t)} : dobot'[d].depth = dobot[d].depth
    PROVE  DepthsMatch' /\ dobot'[D(t)].depth \in Nat
<1> DEFINE old == <<t, thread[t].depth>>
<1>1. \A u \in Threads : thread[u].depth \in Nat
  BY DEF TypeOK, ThreadType
<1>2. ASSUME NEW d \in Dobots, d # D(t)  PROVE Blocks(d)' = Blocks(d)
  BY <1>2 DEF Blocks, D
<1>3. Blocks(D(t))' = Blocks(D(t)) \ {old} /\ old \in Blocks(D(t))
  <2>1. \A i \in Nat : i \in 1..(thread[t].depth - 1) <=>
                          i \in 1..thread[t].depth /\ i # thread[t].depth
    BY <1>1
  <2>2. old \in Blocks(D(t))
    BY <1>1 DEF Blocks, D
  <2>3. ASSUME NEW b \in Threads \X Nat
        PROVE  b[2] \in 1..thread'[b[1]].depth <=> b[2] \in 1..thread[b[1]].depth /\ b # old
    <3>1. b = <<b[1], b[2]>> /\ b[1] \in Threads /\ b[2] \in Nat
      OBVIOUS
    <3>2. CASE b[1] = t
      BY <2>1, <3>1, <3>2
    <3>3. CASE b[1] # t
      BY <3>1, <3>3
    <3> QED  BY <3>2, <3>3
  <2> QED  BY <2>2, <2>3 DEF Blocks
<1>4. D(t) \in Dobots
  BY DEF D
<1>5. /\ IsFiniteSet(Blocks(D(t)) \ {old})
      /\ Cardinality(Blocks(D(t)) \ {old}) = Cardinality(Blocks(D(t))) - 1
  BY <1>3, <1>4, FS_RemoveElement DEF DepthsMatch
<1>6. Cardinality(Blocks(D(t)) \ {old}) \in Nat
  BY <1>5, FS_CardinalityType
<1>7. ASSUME NEW d \in Dobots
      PROVE  IsFiniteSet(Blocks(d)') /\ Cardinality(Blocks(d)') = dobot'[d].depth
  <2>1. CASE d # D(t)
    BY <1>2, <2>1 DEF DepthsMatch
  <2>2. CASE d = D(t)
    BY <1>3, <1>4, <1>5, <2>2 DEF DepthsMatch
  <2> QED  BY <2>1, <2>2
<1>8. dobot'[D(t)].depth \in Nat
  BY <1>4, <1>5, <1>6 DEF DepthsMatch
<1> QED  BY <1>7, <1>8 DEF DepthsMatch

-----------------------------------------------------------------------------
(* The steps of a thread                                                    *)

\* Only thread t moves, and stays in its blocks.
Moved(t) ==
    /\ thread' \in [Threads -> ThreadType]
    /\ \A u \in Threads \ {t} : thread'[u] = thread[u]
    /\ thread'[t].depth = thread[t].depth

\* Only its Dobot changes.
Touched(t) ==
    /\ dobot' \in [Dobots -> DobotType]
    /\ \A d \in Dobots \ {D(t)} : dobot'[d] = dobot[d]
    /\ dobot'[D(t)].depth = dobot[D(t)].depth

LEMMA GoMoves ==
    ASSUME TypeOK, NEW t \in Threads, NEW pc \in Places, Go(t, pc)
    PROVE  /\ Moved(t) /\ thread'[t].pc = pc /\ thread'[t].call = thread[t].call
           /\ thread'[t].command = thread[t].command /\ thread'[t].target = thread[t].target
           /\ thread'[t].current = thread[t].current /\ thread'[t].returned = thread[t].returned
BY DEF TypeOK, ThreadType, Go, Moved

LEMMA ReturnMoves ==
    ASSUME TypeOK, NEW t \in Threads, NEW result \in {"ok", "queued", "raised"}, Return(t, result)
    PROVE  /\ Moved(t) /\ thread'[t].pc = "idle" /\ thread'[t].call = thread[t].call
           /\ thread'[t].command = thread[t].command /\ thread'[t].returned = result
<1> DEFINE r == [thread[t] EXCEPT !.pc = "idle", !.returned = result]
<1>1. "idle" \in Places
  BY DEF Places
<1>2. thread \in [Threads -> ThreadType]
  BY DEF TypeOK
<1>3. /\ r \in ThreadType /\ r.pc = "idle" /\ r.returned = result /\ r.call = thread[t].call
      /\ r.command = thread[t].command /\ r.depth = thread[t].depth
  BY <1>1, <1>2 DEF ThreadType
<1>4. thread' = [thread EXCEPT ![t] = r]
  BY <1>2 DEF Return, ThreadType
<1> HIDE DEF r
<1> QED  BY <1>2, <1>3, <1>4 DEF Moved

LEMMA BeginMoves ==
    ASSUME TypeOK, NEW t \in Threads, NEW call \in Calls, NEW pc \in Places, Begin(t, call, pc)
    PROVE  /\ Moved(t) /\ thread'[t].pc = pc /\ thread'[t].call = call
           /\ thread'[t].returned = "nothing" /\ thread[t].pc = "idle"
<1> DEFINE r == [thread[t] EXCEPT !.pc = pc, !.call = call, !.command = None, !.target = 0,
                                  !.current = 0, !.returned = "nothing"]
<1>1. thread \in [Threads -> ThreadType]
  BY DEF TypeOK
<1>2. /\ r \in ThreadType /\ r.pc = pc /\ r.call = call /\ r.returned = "nothing"
      /\ r.depth = thread[t].depth
  BY <1>1 DEF ThreadType
<1>3. thread' = [thread EXCEPT ![t] = r] /\ thread[t].pc = "idle"
  BY DEF Begin, At
<1> HIDE DEF r
<1> QED  BY <1>1, <1>2, <1>3 DEF Moved

\* A step that leaves the blocks as they are.
LEMMA MovedKeeps ==
    ASSUME IInv, NEW t \in Threads, Moved(t), PlaceFits(thread'[t]), Touched(t), Sound(arm'),
           failures' \in 0..MaxFailures
    PROVE  IInv'
<1>1. DepthsMatch'
  <2>1. \A u \in Threads : thread'[u].depth = thread[u].depth
    BY DEF Moved
  <2>2. \A d \in Dobots : dobot'[d].depth = dobot[d].depth
    BY DEF Touched
  <2> QED  BY <2>1, <2>2, DepthsKept DEF IInv
<1>2. \A u \in Threads : PlaceFits(thread'[u])
  BY DEF IInv, Moved
<1>3. TypeOK'
  BY DEF Moved, Touched, Sound, TypeOK
<1> QED  BY <1>1, <1>2, <1>3 DEF IInv, PlaceFits

LEMMA UntouchedDobot ==
    ASSUME TypeOK, NEW t \in Threads, UNCHANGED dobot
    PROVE  Touched(t)
BY DEF TypeOK, Touched

LEMMA SendKeeps ==
    ASSUME IInv, NEW t \in Threads, NEW c \in Commands, NEW call \in Own \cup {"queue"},
           Send(t, c, call)
    PROVE  /\ IInv' /\ Moved(t) /\ Touched(t)
           /\ thread'[t].pc = "record" /\ thread'[t].call = call /\ thread'[t].command = c
           /\ thread'[t].target = arm.added + 1 /\ thread'[t].returned = "nothing"
           /\ dobot'[D(t)].last = dobot[D(t)].last
           /\ dobot'[D(t)].batch = dobot[D(t)].batch \cup {c}
<1>1. Sound(arm') /\ arm.added \in Nat
  <2>1. Sound(arm) /\ arm.outcome[c] = "unsent" /\ arm' = Enqueued(arm, c)
    BY DEF Send, IInv
  <2>2. Sound(Enqueued(arm, c))
    BY <2>1, EnqueuedSound
  <2>3. arm.added \in Nat
    BY <2>1 DEF Sound, ArmType
  <2> QED  BY <2>1, <2>2, <2>3
<1>2. D(t) \in Dobots
  BY DEF D
<1>3. /\ Touched(t) /\ dobot'[D(t)].last = dobot[D(t)].last
      /\ dobot'[D(t)].batch = dobot[D(t)].batch \cup {c}
  BY <1>2 DEF IInv, TypeOK, DobotType, Send, Touched
<1>4. "record" \in Places /\ call \in Calls
  BY DEF Places, Calls, Own
<1>5. /\ Moved(t) /\ thread'[t].pc = "record" /\ thread'[t].call = call
      /\ thread'[t].command = c /\ thread'[t].target = arm.added + 1
      /\ thread'[t].returned = "nothing"
  <2> DEFINE th == [thread[t] EXCEPT !.pc = "record", !.call = call, !.command = c, !.current = 0,
                                      !.target = arm.added + 1, !.returned = "nothing"]
  <2>1. thread' = [thread EXCEPT ![t] = th]
    BY DEF Send
  <2>2. thread \in [Threads -> ThreadType]
    BY DEF IInv, TypeOK
  <2>3. /\ th \in ThreadType /\ th.depth = thread[t].depth /\ th.pc = "record" /\ th.call = call
        /\ th.command = c /\ th.target = arm.added + 1 /\ th.returned = "nothing"
    <3>1. /\ thread[t] \in ThreadType /\ arm.added + 1 \in Nat /\ "record" \in Places
          /\ call \in Calls /\ c \in Commands \cup {None} /\ 0 \in Nat
      BY <1>1, <1>4, <2>2
    <3>2. th \in ThreadType
      BY <3>1 DEF ThreadType
    <3> QED  BY <3>1 , <3>2 DEF ThreadType
  <2> HIDE DEF th
  <2> QED  BY <2>1, <2>2, <2>3 DEF Moved
<1>6. PlaceFits(thread'[t])
  BY <1>5 DEF PlaceFits, Fits, Own
<1>7. failures' \in 0..MaxFailures
  BY DEF Send, IInv, TypeOK
<1> QED  BY <1>1, <1>3, <1>5, <1>6, <1>7, MovedKeeps

LEMMA GoKeeps ==
    ASSUME IInv, NEW t \in Threads, NEW pc \in Places, Go(t, pc), Fits(pc, Call(t)),
           Touched(t), Sound(arm'), failures' \in 0..MaxFailures
    PROVE  IInv'
<1>1. Moved(t) /\ thread'[t].pc = pc /\ thread'[t].call = thread[t].call
  BY GoMoves DEF IInv
<1> QED  BY <1>1, MovedKeeps DEF PlaceFits, Call

LEMMA ReturnKeeps ==
    ASSUME IInv, NEW t \in Threads, NEW result \in {"ok", "queued", "raised"}, Return(t, result),
           Touched(t), Sound(arm'), failures' \in 0..MaxFailures
    PROVE  IInv'
<1>1. Moved(t) /\ thread'[t].pc = "idle"
  BY ReturnMoves DEF IInv
<1>2. PlaceFits(thread'[t])
  BY <1>1 DEF PlaceFits, Fits
<1> QED  BY <1>1, <1>2, MovedKeeps

LEMMA BeginKeeps ==
    ASSUME IInv, NEW t \in Threads, NEW call \in Calls, NEW pc \in Places, Begin(t, call, pc),
           Fits(pc, call), Touched(t), Sound(arm'), failures' \in 0..MaxFailures
    PROVE  IInv'
<1>1. Moved(t) /\ thread'[t].pc = pc /\ thread'[t].call = call
  BY BeginMoves DEF IInv
<1> QED  BY <1>1, MovedKeeps DEF PlaceFits

\* The index of the Dobot, and the commands since its batch began.
LEMMA LastTouches ==
    ASSUME IInv, NEW t \in Threads, NEW last \in Nat, NEW batch \in SUBSET Commands,
           dobot' = [dobot EXCEPT ![D(t)].last = last, ![D(t)].batch = batch]
    PROVE  Touched(t) /\ dobot'[D(t)].last = last /\ dobot'[D(t)].batch = batch
<1>1. D(t) \in Dobots /\ dobot \in [Dobots -> DobotType]
  BY DEF D, IInv, TypeOK
<1> QED  BY <1>1 DEF Touched, DobotType

LEMMA LastTouchesToo ==
    ASSUME IInv, NEW t \in Threads, NEW last \in Nat,
           dobot' = [dobot EXCEPT ![D(t)].last = last]
    PROVE  Touched(t) /\ dobot'[D(t)].last = last /\ dobot'[D(t)].batch = dobot[D(t)].batch
<1>1. D(t) \in Dobots /\ dobot \in [Dobots -> DobotType]
  BY DEF D, IInv, TypeOK
<1> QED  BY <1>1 DEF Touched, DobotType

LEMMA RecordTouches ==
    ASSUME IInv, NEW t \in Threads, RecordIndex(t)
    PROVE  /\ Touched(t) /\ dobot'[D(t)].batch = dobot[D(t)].batch
           /\ dobot'[D(t)].last = LastIndex(t, dobot[D(t)].last)
<1>1. LastIndex(t, dobot[D(t)].last) \in Nat /\ D(t) \in Dobots
  BY DEF D, LastIndex, IInv, TypeOK, ThreadType, DobotType
<1>2. dobot' = [dobot EXCEPT ![D(t)].last = LastIndex(t, dobot[D(t)].last)]
  BY DEF RecordIndex
<1> QED  BY <1>1, <1>2, LastTouchesToo

LEMMA ForgetTouches ==
    ASSUME IInv, NEW t \in Threads, Forget(t)
    PROVE  /\ Touched(t) /\ dobot'[D(t)].last = 0
           /\ dobot'[D(t)].batch = IF Call(t) = "enter" THEN {} ELSE dobot[D(t)].batch
<1>1. dobot[D(t)].batch \in SUBSET Commands
  BY DEF D, IInv, TypeOK, DobotType
<1> DEFINE batch == IF Call(t) = "enter" THEN {} ELSE dobot[D(t)].batch
<1>2. batch \in SUBSET Commands /\ dobot' = [dobot EXCEPT ![D(t)].last = 0, ![D(t)].batch = batch]
  BY <1>1 DEF Forget
<1> HIDE DEF batch
<1>3. Touched(t) /\ dobot'[D(t)].last = 0 /\ dobot'[D(t)].batch = batch
  BY <1>2, LastTouches
<1> QED  BY <1>3 DEF batch

\* A step into a block or out of one.
LEMMA BlockKeeps ==
    ASSUME IInv, NEW t \in Threads, thread' \in [Threads -> ThreadType],
           \A u \in Threads \ {t} : thread'[u] = thread[u], PlaceFits(thread'[t]),
           dobot' \in [Dobots -> DobotType],
           DepthsMatch', UNCHANGED <<arm, failures>>
    PROVE  IInv'
<1>1. \A u \in Threads : PlaceFits(thread'[u])
  BY DEF IInv
<1>2. TypeOK' /\ Sound(arm')
  BY DEF IInv, TypeOK
<1> QED  BY <1>1, <1>2 DEF IInv, PlaceFits

LEMMA DeepenKeeps ==
    ASSUME IInv, NEW t \in Threads, Deepen(t)
    PROVE  /\ IInv' /\ thread'[t].pc = "idle" /\ thread'[t].call = thread[t].call
           /\ thread'[t].returned = "ok" /\ thread'[t].depth = thread[t].depth + 1
           /\ \A u \in Threads \ {t} : thread'[u] = thread[u]
           /\ dobot'[D(t)].depth = dobot[D(t)].depth + 1
           /\ dobot'[D(t)].last = dobot[D(t)].last /\ dobot'[D(t)].batch = dobot[D(t)].batch
<1>1. /\ thread \in [Threads -> ThreadType] /\ dobot \in [Dobots -> DobotType] /\ D(t) \in Dobots
      /\ thread[t].depth + 1 \in Nat /\ dobot[D(t)].depth + 1 \in Nat /\ "idle" \in Places
  BY DEF IInv, TypeOK, ThreadType, DobotType, D, Places
<1>2. /\ thread' \in [Threads -> ThreadType]
      /\ thread'[t].pc = "idle" /\ thread'[t].call = thread[t].call
      /\ thread'[t].returned = "ok" /\ thread'[t].depth = thread[t].depth + 1
      /\ \A u \in Threads \ {t} : thread'[u] = thread[u]
  BY <1>1 DEF Deepen, ThreadType
<1>3. /\ dobot' \in [Dobots -> DobotType]
      /\ dobot'[D(t)].depth = dobot[D(t)].depth + 1
      /\ dobot'[D(t)].last = dobot[D(t)].last /\ dobot'[D(t)].batch = dobot[D(t)].batch
      /\ \A d \in Dobots \ {D(t)} : dobot'[d] = dobot[d]
  BY <1>1 DEF Deepen, DobotType
<1>4. DepthsMatch'
  BY <1>2, <1>3, DepthsGrow DEF IInv
<1>5. PlaceFits(thread'[t])
  BY <1>2 DEF PlaceFits, Fits
<1>6. IInv'
  BY <1>2, <1>3, <1>4, <1>5, BlockKeeps DEF Deepen
<1> QED  BY <1>2, <1>3, <1>6

\* Of a call in progress.
LEMMA ContinueKeeps ==
    ASSUME IInv, NEW t \in Threads, Continue(t)
    PROVE  IInv'
<1> USE DEF At, Call, PlaceFits, Fits
<1>0. /\ TypeOK /\ Sound(arm) /\ PlaceFits(thread[t]) /\ failures \in 0..MaxFailures
      /\ \A pc \in {"index", "mode", "homed", "alarms", "discard", "forgetAndRaise", "target",
                     "clearAlarm", "confirm", "clearQueue", "forget", "deepen", "startQueue"} :
            pc \in Places
  BY DEF IInv, TypeOK, Places, Sending
<1>1. CASE RecordIndex(t)
  BY <1>0, <1>1, RecordTouches, GoKeeps, ReturnKeeps DEF RecordIndex
<1>2. CASE ReadMode(t)
  BY <1>0, <1>2, UntouchedDobot, GoKeeps, ReturnKeeps DEF ReadMode
<1>3. CASE ReadIndex(t)
  <2>1. Touched(t) /\ Sound(arm') /\ failures' \in 0..MaxFailures
    BY <1>0, <1>3, UntouchedDobot DEF ReadIndex
  <2>2. CASE Call(t) = "home"
    BY <1>0, <1>3, <2>1, <2>2, GoKeeps DEF ReadIndex
  <2>3. CASE Call(t) # "home"
    <3>1. Moved(t) /\ thread'[t].pc = "alarms" /\ thread'[t].call = thread[t].call
      <4>1. arm.executed \in Nat
        BY <1>0 DEF Sound, ArmType
      <4> QED  BY <1>0, <1>3, <2>3, <4>1 DEF ReadIndex, Moved, TypeOK, ThreadType
    <3> QED  BY <1>0, <1>3, <2>1, <2>3, <3>1, MovedKeeps DEF ReadIndex
  <2> QED  BY <2>2, <2>3
<1>4. CASE ReadAlarms(t)
  BY <1>0, <1>4, UntouchedDobot, GoKeeps, ReturnKeeps DEF ReadAlarms, RaiseAlarm
<1>5. CASE Discard(t)
  BY <1>0, <1>5, UntouchedDobot, ClearedSound, GoKeeps DEF Discard
<1>6. CASE ForgetAndRaise(t)
  BY <1>0, <1>6, LastTouchesToo, ReturnKeeps DEF ForgetAndRaise
<1>7. CASE ReadTarget(t)
  <2>1. Touched(t) /\ Sound(arm') /\ failures' \in 0..MaxFailures
    BY <1>0, <1>7, UntouchedDobot DEF ReadTarget
  <2>2. CASE dobot[D(t)].last = 0
    BY <1>7, <2>1, <2>2, ReturnKeeps DEF ReadTarget
  <2>3. CASE dobot[D(t)].last # 0
    <3>1. dobot[D(t)].last \in Nat
      BY <1>0 DEF TypeOK, DobotType, D
    <3>2. Moved(t) /\ thread'[t].pc = "index" /\ thread'[t].call = thread[t].call
      BY <1>0, <1>7, <2>3, <3>1 DEF ReadTarget, Moved, TypeOK, ThreadType
    <3> QED  BY <1>0, <1>7, <2>1, <3>2, MovedKeeps DEF ReadTarget
  <2> QED  BY <2>2, <2>3
<1>8. CASE Homed(t)
  BY <1>0, <1>8, UntouchedDobot, GoKeeps, ReturnKeeps DEF Homed
<1>9. CASE SendClearAlarm(t)
  BY <1>0, <1>9, UntouchedDobot, AlarmsClearedSound, GoKeeps DEF SendClearAlarm
<1>10. CASE Confirm(t)
  BY <1>0, <1>10, UntouchedDobot, ReturnKeeps DEF Confirm
<1>11. CASE Deepen(t)
  BY <1>11, DeepenKeeps
<1>12. CASE SendStop(t)
  BY <1>0, <1>12, UntouchedDobot, StoppedSound, GoKeeps, ReturnKeeps DEF SendStop
<1>13. CASE SendClear(t)
  BY <1>0, <1>13, UntouchedDobot, ClearedSound, GoKeeps DEF SendClear
<1>14. CASE Forget(t)
  BY <1>0, <1>14, ForgetTouches, GoKeeps, ReturnKeeps DEF Forget
<1>15. CASE SendStart(t)
  BY <1>0, <1>15, UntouchedDobot, StartedSound, GoKeeps, ReturnKeeps DEF SendStart
<1> QED  BY <1>1, <1>2, <1>3, <1>4, <1>5, <1>6, <1>7, <1>8, <1>9, <1>10, <1>11, <1>12, <1>13,
            <1>14, <1>15 DEF Continue

\* The start of a batch takes its lock, that of an inner one only counts.
LEMMA EnterKeeps ==
    ASSUME IInv, NEW t \in Threads, EnterBatch(t)
    PROVE  /\ IInv' /\ \A u \in Threads \ {t} : thread'[u] = thread[u]
           /\ dobot'[D(t)].last = dobot[D(t)].last /\ dobot'[D(t)].batch = dobot[D(t)].batch
           /\ thread[t].pc = "idle"
           /\ \/ /\ thread'[t].pc = "stopQueue" /\ thread'[t].call = "enter"
                 /\ thread'[t].depth = thread[t].depth /\ dobot'[D(t)].depth = dobot[D(t)].depth
                 /\ dobot[D(t)].depth = 0
              \/ /\ thread'[t] = [thread[t] EXCEPT !.depth = @ + 1]
                 /\ dobot'[D(t)].depth = dobot[D(t)].depth + 1 /\ dobot[D(t)].depth # 0
<1>1. /\ thread \in [Threads -> ThreadType] /\ dobot \in [Dobots -> DobotType] /\ D(t) \in Dobots
      /\ thread[t].depth + 1 \in Nat /\ dobot[D(t)].depth + 1 \in Nat
      /\ "stopQueue" \in Places /\ "enter" \in Calls
  BY DEF IInv, TypeOK, ThreadType, DobotType, D, Places, Sending, Calls
<1>2. CASE dobot[D(t)].depth = 0
  <2>1. Begin(t, "enter", "stopQueue") /\ dobot' = [dobot EXCEPT ![D(t)].lock = t]
        /\ UNCHANGED <<arm, failures>>
    BY <1>2 DEF EnterBatch
  <2>2. /\ Touched(t)
        /\ dobot'[D(t)].last = dobot[D(t)].last /\ dobot'[D(t)].batch = dobot[D(t)].batch
    BY <1>1, <2>1 DEF Touched, DobotType
  <2>3. IInv'
    BY <1>1, <2>1, <2>2, BeginKeeps DEF IInv, TypeOK, Fits
  <2>4. /\ Moved(t) /\ thread'[t].pc = "stopQueue" /\ thread'[t].call = "enter"
        /\ thread[t].pc = "idle"
    BY <1>1, <2>1, BeginMoves DEF IInv
  <2> QED  BY <1>2, <2>2, <2>3, <2>4 DEF Moved, Touched
<1>3. CASE dobot[D(t)].depth # 0
  <2>1. /\ thread' = [thread EXCEPT ![t].depth = @ + 1]
        /\ dobot' = [dobot EXCEPT ![D(t)].depth = @ + 1]
        /\ UNCHANGED <<arm, failures>> /\ thread[t].pc = "idle"
    BY <1>3 DEF EnterBatch, At
  <2>2. /\ thread' \in [Threads -> ThreadType]
        /\ thread'[t] = [thread[t] EXCEPT !.depth = @ + 1]
        /\ thread'[t].depth = thread[t].depth + 1 /\ thread'[t].pc = thread[t].pc
        /\ \A u \in Threads \ {t} : thread'[u] = thread[u]
    BY <1>1, <2>1 DEF ThreadType
  <2>3. /\ dobot' \in [Dobots -> DobotType]
        /\ dobot'[D(t)].depth = dobot[D(t)].depth + 1
        /\ dobot'[D(t)].last = dobot[D(t)].last /\ dobot'[D(t)].batch = dobot[D(t)].batch
        /\ \A d \in Dobots \ {D(t)} : dobot'[d] = dobot[d]
    BY <1>1, <2>1 DEF DobotType
  <2>4. DepthsMatch'
    BY <2>2, <2>3, DepthsGrow DEF IInv
  <2>5. PlaceFits(thread'[t])
    BY <2>1, <2>2 DEF PlaceFits, Fits
  <2>6. IInv'
    BY <2>1, <2>2, <2>3, <2>4, <2>5, BlockKeeps
  <2> QED  BY <1>3, <2>1, <2>2, <2>3, <2>6
<1> QED  BY <1>2, <1>3

\* The end of a batch, or of an inner one.
LEMMA LeaveKeeps ==
    ASSUME IInv, NEW t \in Threads, NEW call \in {"exit", "abort"},
           NEW pc \in {"startQueue", "clearQueue"}, Fits(pc, call), LeaveBatch(t, call, pc)
    PROVE  /\ IInv' /\ \A u \in Threads \ {t} : thread'[u] = thread[u]
           /\ dobot'[D(t)].last = dobot[D(t)].last /\ dobot'[D(t)].batch = dobot[D(t)].batch
           /\ dobot'[D(t)].depth = dobot[D(t)].depth - 1
           /\ thread[t].pc = "idle" /\ thread[t].depth > 0
           /\ thread'[t].depth = thread[t].depth - 1
           /\ \/ /\ thread'[t].pc = pc /\ thread'[t].call = call /\ dobot[D(t)].depth = 1
              \/ thread'[t] = [thread[t] EXCEPT !.depth = thread[t].depth - 1] /\ dobot[D(t)].depth # 1
<1>1. /\ thread \in [Threads -> ThreadType] /\ dobot \in [Dobots -> DobotType] /\ D(t) \in Dobots
      /\ pc \in Places /\ call \in Calls /\ thread[t].depth - 1 \in Nat /\ thread[t] \in ThreadType
      /\ thread[t].depth > 0 /\ thread[t].pc = "idle"
  BY DEF IInv, TypeOK, ThreadType, DobotType, D, Places, Sending, Calls, LeaveBatch, At
<1> DEFINE outer == [thread[t] EXCEPT !.pc = pc, !.call = call, !.command = None, !.target = 0,
                                      !.current = 0, !.returned = "nothing",
                                      !.depth = thread[t].depth - 1]
           inner == [thread[t] EXCEPT !.depth = thread[t].depth - 1]
<1>2. /\ outer \in ThreadType /\ outer.pc = pc /\ outer.call = call
      /\ outer.depth = thread[t].depth - 1
  BY <1>1 DEF ThreadType
<1>3. /\ inner \in ThreadType /\ inner.pc = thread[t].pc /\ inner.depth = thread[t].depth - 1
  BY <1>1 DEF ThreadType
<1>4. thread' = [thread EXCEPT ![t] = IF dobot[D(t)].depth = 1 THEN outer ELSE inner]
  <2>1. thread' = [thread EXCEPT ![t] = IF OutermostBatch(t) THEN outer ELSE inner]
    BY DEF LeaveBatch
  <2>2. OutermostBatch(t) <=> dobot[D(t)].depth = 1
    BY DEF OutermostBatch
  <2> HIDE DEF outer, inner
  <2> QED  BY <2>1, <2>2
<1>5. inner = [thread[t] EXCEPT !.depth = thread[t].depth - 1]
  OBVIOUS
<1> HIDE DEF outer, inner
<1>6. /\ thread' \in [Threads -> ThreadType] /\ \A u \in Threads \ {t} : thread'[u] = thread[u]
      /\ thread'[t] = IF dobot[D(t)].depth = 1 THEN outer ELSE inner
      /\ thread'[t].depth = thread[t].depth - 1
  BY <1>1, <1>2, <1>3, <1>4
<1>7. /\ dobot'[D(t)].depth = dobot[D(t)].depth - 1
      /\ dobot'[D(t)].last = dobot[D(t)].last /\ dobot'[D(t)].batch = dobot[D(t)].batch
      /\ \A d \in Dobots \ {D(t)} : dobot'[d] = dobot[d]
  BY <1>1 DEF LeaveBatch, DobotType
<1>8. DepthsMatch' /\ dobot'[D(t)].depth \in Nat
  BY <1>1, <1>6, <1>7, DepthsShrink DEF IInv
<1>9. dobot' \in [Dobots -> DobotType]
  BY <1>1, <1>7, <1>8 DEF LeaveBatch, DobotType
<1>10. PlaceFits(thread'[t])
  BY <1>1, <1>2, <1>3, <1>6 DEF PlaceFits, Fits
<1>11. IInv'
  BY <1>6, <1>8, <1>9, <1>10, BlockKeeps DEF LeaveBatch
<1> QED  BY <1>1, <1>2, <1>5, <1>6, <1>7, <1>11

LEMMA CallKeeps ==
    ASSUME IInv, NEW t \in Threads, CallMethod(t)
    PROVE  IInv'
<1>0. /\ TypeOK /\ Sound(arm) /\ failures \in 0..MaxFailures
      /\ "target" \in Places /\ "clearAlarm" \in Places /\ "idle" \in Calls /\ "clearAlarm" \in Calls
  BY DEF IInv, TypeOK, Places, Sending, Calls
<1>1. ASSUME NEW c \in Commands, SendCommand(t, c)  PROVE IInv'
  BY <1>1, SendKeeps DEF SendCommand, ExecuteCommand, QueueCommand, MoveTo, SetHome, Own
<1>2. CASE WaitIdle(t)
  BY <1>0, <1>2, UntouchedDobot, BeginKeeps DEF WaitIdle, Fits
<1>3. CASE ClearAlarm(t)
  BY <1>0, <1>3, UntouchedDobot, BeginKeeps DEF ClearAlarm, Fits
<1>4. CASE ExitBatch(t)
  BY <1>4, LeaveKeeps DEF ExitBatch, Fits
<1>5. CASE AbortBatch(t)
  BY <1>5, LeaveKeeps DEF AbortBatch, Fits
<1> QED  BY <1>1, <1>2, <1>3, <1>4, <1>5, EnterKeeps DEF CallMethod

LEMMA ControlKeeps ==
    ASSUME IInv, NEW t \in Threads, ControlQueue(t)
    PROVE  IInv'
<1>0. /\ TypeOK /\ Sound(arm) /\ failures \in 0..MaxFailures
      /\ "clearQueue" \in Places /\ "startQueue" \in Places /\ "stopQueue" \in Places
      /\ "idle" \in Places
      /\ "connect" \in Calls /\ "clearQueue" \in Calls /\ "control" \in Calls
  BY DEF IInv, TypeOK, Places, Sending, Calls
<1>1. CASE Connect(t)
  BY <1>0, <1>1, UntouchedDobot, BeginKeeps DEF Connect, Fits
<1>2. CASE ClearQueue(t)
  BY <1>0, <1>2, UntouchedDobot, BeginKeeps DEF ClearQueue, Fits
<1>3. CASE StartQueue(t)
  BY <1>0, <1>3, UntouchedDobot, BeginKeeps DEF StartQueue, Fits
<1>4. CASE StopQueue(t)
  BY <1>0, <1>4, UntouchedDobot, BeginKeeps DEF StopQueue, Fits
<1>5. CASE ForceStopQueue(t)
  <2>1. Sound(arm')
    BY <1>0, <1>5, ForceStoppedSound DEF ForceStopQueue
  <2> QED  BY <1>0, <1>5, <2>1, UntouchedDobot, BeginKeeps DEF ForceStopQueue, Fits
<1>6. CASE Jog(t)
  <2>1. Sound(arm')
    BY <1>0, <1>6, JogSound DEF Jog
  <2> QED  BY <1>0, <1>6, <2>1, UntouchedDobot, BeginKeeps DEF Jog, Fits
<1> QED  BY <1>1, <1>2, <1>3, <1>4, <1>5, <1>6 DEF ControlQueue

\* An exchange that fails may have been handled.
LEMMA HandledSound ==
    ASSUME Sound(arm), NEW t \in Threads
    PROVE  Sound(Handled(t))
BY AlarmsClearedSound, StoppedSound, ClearedSound, StartedSound DEF Handled

LEMMA ExchangeFailsKeeps ==
    ASSUME IInv, NEW t \in Threads, ExchangeFails(t)
    PROVE  /\ IInv' /\ Moved(t) /\ thread'[t].pc = "idle" /\ thread'[t].call = thread[t].call
           /\ thread'[t].returned = "raised" /\ failures' # 0 /\ Touched(t)
           /\ dobot'[D(t)].last = dobot[D(t)].last /\ dobot'[D(t)].batch = dobot[D(t)].batch
<1>1. /\ TypeOK /\ Return(t, "raised") /\ failures \in Nat /\ failures < MaxFailures
      /\ failures' = failures + 1
  BY DEF ExchangeFails, IInv, TypeOK
<1>2. Moved(t) /\ thread'[t].pc = "idle" /\ thread'[t].call = thread[t].call
      /\ thread'[t].returned = "raised"
  BY <1>1, ReturnMoves
<1>3. Touched(t)
      /\ dobot'[D(t)].last = dobot[D(t)].last /\ dobot'[D(t)].batch = dobot[D(t)].batch
  <2>1. D(t) \in Dobots /\ dobot \in [Dobots -> DobotType]
    BY <1>1 DEF D, TypeOK
  <2> QED  BY <2>1 DEF ExchangeFails, Touched, DobotType
<1>4. Sound(arm')
  BY HandledSound DEF ExchangeFails, IInv
<1>5. failures' \in 0..MaxFailures /\ failures' # 0
  BY <1>1
<1> QED  BY <1>1, <1>2, <1>3, <1>4, <1>5, ReturnKeeps

LEMMA SendFailsKeeps ==
    ASSUME IInv, NEW t \in Threads, NEW c \in Commands, SendFails(t, c)
    PROVE  /\ IInv' /\ Moved(t) /\ thread'[t].pc = "idle" /\ thread'[t].call = thread[t].call
           /\ thread'[t].returned = "raised" /\ failures' # 0 /\ Touched(t)
           /\ dobot'[D(t)].batch = dobot[D(t)].batch \cup {c}
<1>1. /\ TypeOK /\ Return(t, "raised") /\ failures \in Nat /\ failures < MaxFailures
      /\ failures' = failures + 1
  BY DEF SendFails, IInv, TypeOK
<1>2. Moved(t) /\ thread'[t].pc = "idle" /\ thread'[t].call = thread[t].call
      /\ thread'[t].returned = "raised"
  BY <1>1, ReturnMoves
<1>3. Touched(t) /\ dobot'[D(t)].batch = dobot[D(t)].batch \cup {c}
  <2>1. D(t) \in Dobots /\ dobot \in [Dobots -> DobotType]
    BY <1>1 DEF D, TypeOK
  <2> QED  BY <2>1 DEF SendFails, Touched, DobotType
<1>4. Sound(arm')
  <2>1. Sound(Enqueued(arm, c))
    BY EnqueuedSound DEF SendFails, IInv
  <2> QED  BY <2>1 DEF SendFails
<1>5. failures' \in 0..MaxFailures /\ failures' # 0
  BY <1>1
<1> QED  BY <1>1, <1>2, <1>3, <1>4, <1>5, ReturnKeeps

-----------------------------------------------------------------------------
(* However the arm is used                                                  *)

LEMMA InitHolds ==
    ASSUME Init
    PROVE  IInv
<1>1. TypeOK
  BY DEF Init, ArmInit, TypeOK, ArmType, ThreadType, DobotType, Places, Calls
<1>2. Sound(arm)
  BY <1>1 DEF Init, ArmInit, TypeOK, Sound, Queued
<1>3. DepthsMatch
  <2>1. \A d \in Dobots : Blocks(d) = {}
    BY DEF Init, Blocks
  <2> QED  BY <2>1, FS_EmptySet DEF DepthsMatch, Init
<1>4. \A t \in Threads : PlaceFits(thread[t])
  BY DEF Init, PlaceFits, Fits
<1> QED  BY <1>1, <1>2, <1>3, <1>4 DEF IInv

LEMMA NextKeeps ==
    ASSUME IInv, [Next]_vars
    PROVE  IInv'
<1>1. CASE ArmMoves
  <2>1. Sound(arm')
    BY <1>1, TickSound DEF ArmMoves, IInv
  <2> QED  BY <1>1, <2>1 DEF ArmMoves, IInv, TypeOK, Sound, DepthsMatch, Blocks
<1>2. CASE UNCHANGED vars
  BY <1>2 DEF vars, IInv, TypeOK, DepthsMatch, Blocks
<1>3. ASSUME NEW t \in Threads, Fail(t)  PROVE IInv'
  BY <1>3, ExchangeFailsKeeps, SendFailsKeeps DEF Fail
<1> QED  BY <1>1, <1>2, <1>3, ContinueKeeps, CallKeeps, ControlKeeps DEF Next

LEMMA DriverInductive == Spec => []IInv
<1>1. Init => IInv
  BY InitHolds
<1>2. IInv /\ [Next]_vars => IInv'
  BY NextKeeps
<1> QED  BY <1>1, <1>2, PTL DEF Spec

\* device.py, queue.py: whatever threads, programs and lost exchanges there are. Among the
\* types is that the depth of a Dobot, from which every end of a batch takes one, never
\* goes below zero: it counts the blocks that its threads are in.
THEOREM DriverTypes == Spec => []TypeOK
<1>1. IInv => TypeOK
  BY DEF IInv
<1> QED  BY <1>1, DriverInductive, PTL

\* simulator.py: the queue holds what is queued, once, in the order of the indexes, and the
\* executed index is behind all of it, whoever clears, stops or force-stops the queue.
THEOREM QueueKeepsOrder == Spec => []Sound(arm)
<1>1. IInv => Sound(arm)
  BY DEF IInv
<1> QED  BY <1>1, DriverInductive, PTL

-----------------------------------------------------------------------------
(* The call of the driving thread                                           *)

\* A queued command is behind the executed index.
LEMMA QueuedIsAhead ==
    ASSUME NEW a, Sound(a)
    PROVE  \A c \in Queued(a) : /\ c \in Commands /\ a.index[c] \in Nat
                               /\ a.executed < a.index[c] /\ a.index[c] <= a.added
BY DEF Sound, ArmType, Queued

\* Nothing a call relies on is lost when commands run.
LEMMA RanKeepsCall ==
    ASSUME NEW a, Sound(a), NEW b, Sound(b), Ran(a, b), NEW th \in ThreadType, NEW last \in Nat
    PROVE  /\ Queued(b) \subseteq Queued(a)
           /\ CallHolds(th, a) => CallHolds(th, b)
           /\ NothingBeyond(th, last, a) => NothingBeyond(th, last, b)
<1>1. /\ b.index = a.index /\ b.added = a.added /\ a.executed <= b.executed
      /\ a.executed \in Nat /\ b.executed \in Nat /\ th.current \in Nat
      /\ a.alarm => b.alarm
      /\ Queued(a) = {} => (b.alarm => a.alarm)
  BY DEF Ran, Sound, ArmType, ThreadType
<1>2. /\ Queued(b) \subseteq Queued(a)
      /\ Queued(a) = {} => Queued(b) = {}
  BY DEF Ran, Queued
<1>3. \A c \in Commands :
         /\ a.outcome[c] = "done" => b.outcome[c] = "done"
         /\ a.outcome[c] \in {"queued", "done", "failed"} =>
               b.outcome[c] \in {"queued", "done", "failed"}
         /\ b.outcome[c] = "failed" => a.outcome[c] = "failed" \/ b.alarm
  BY DEF Ran
<1>4. Awaited(th, a) => Awaited(th, b)
  BY <1>1, <1>2, <1>3 DEF Awaited
<1>5. HasRun(th, a) => HasRun(th, b)
  BY <1>3 DEF HasRun
<1>6. th.current <= a.executed => th.current <= b.executed
  BY <1>1
<1>7. CallHolds(th, a) => CallHolds(th, b)
  BY <1>1, <1>2, <1>4, <1>5, <1>6 DEF CallHolds
<1>8. NothingBeyond(th, last, a) => NothingBeyond(th, last, b)
  BY <1>1, <1>2 DEF NothingBeyond
<1> QED  BY <1>2, <1>7, <1>8

\* When the awaited index is reached, nothing is queued and the command has run, or failed
\* with an alarm.
LEMMA ReachedHasRun ==
    ASSUME NEW a, Sound(a), NEW th \in ThreadType, Awaited(th, a), NEW current \in Nat,
           current <= a.executed, current >= th.target
    PROVE  /\ Queued(a) = {}
           /\ (~a.alarm \/ th.call = "home") => HasRun(th, a)
<1>1. th.target \in Nat /\ a.executed \in Nat
  BY DEF ThreadType, Sound, ArmType
<1>2. ASSUME NEW c \in Queued(a)  PROVE FALSE
  <2>1. a.index[c] <= th.target /\ a.executed < a.index[c] /\ a.index[c] \in Nat
    BY QueuedIsAhead DEF Awaited
  <2> QED  BY <1>1, <2>1
<1>3. a.outcome[th.command] \in {"done", "failed"}
  BY <1>2 DEF Awaited, Queued
<1>4. th.call = "home" => a.outcome[th.command] # "failed"
  BY CommandsAssumption DEF Awaited, Sound
<1> QED  BY <1>2, <1>3, <1>4 DEF Awaited, HasRun

\* The driving thread after its step.
CallHoldsNow(s) == CallHolds(thread[s], arm)
LastHolds(s) == failures = 0 => NothingBeyond(thread[s], dobot[D(s)].last, arm)
SHolds(s) == CallHoldsNow(s) /\ LastHolds(s)

LEMMA TypedParts ==
    ASSUME IInv, NEW s \in Threads
    PROVE  /\ Sound(arm) /\ thread[s] \in ThreadType /\ Fits(thread[s].pc, thread[s].call)
           /\ dobot[D(s)] \in DobotType /\ dobot[D(s)].last \in Nat
           /\ thread[s].target \in Nat /\ thread[s].current \in Nat
           /\ arm.executed \in Nat /\ arm.added \in Nat /\ failures \in Nat
BY DEF IInv, TypeOK, ThreadType, DobotType, D, PlaceFits, Sound, ArmType

\* A step in which the thread itself stands still.
LEMMA AroundHolds ==
    ASSUME IInv, IInv', NEW s \in Threads, SHolds(s), thread'[s] = thread[s], Ran(arm, arm'),
           dobot'[D(s)].last = dobot[D(s)].last, failures' = 0 => failures = 0
    PROVE  SHolds(s)'
<1>1. Sound(arm) /\ Sound(arm') /\ thread[s] \in ThreadType /\ dobot[D(s)].last \in Nat
  BY TypedParts DEF IInv
<1>2. CallHolds(thread[s], arm) => CallHolds(thread[s], arm')
  BY <1>1, RanKeepsCall
<1>3. NothingBeyond(thread[s], dobot[D(s)].last, arm) =>
         NothingBeyond(thread[s], dobot[D(s)].last, arm')
  BY <1>1, RanKeepsCall
<1> QED  BY <1>2, <1>3 DEF SHolds, CallHoldsNow, LastHolds

LEMMA RecordHolds ==
    ASSUME IInv, NEW s \in Threads, SHolds(s), RecordIndex(s)
    PROVE  SHolds(s)'
<1>1. /\ thread[s].pc = "record" /\ thread[s].call \in {"execute", "queue", "moveTo", "home"}
      /\ arm' = arm /\ failures' = failures
      /\ Sound(arm) /\ dobot[D(s)].last \in Nat /\ thread[s].target \in Nat
  BY TypedParts DEF RecordIndex, At, Fits
<1>2. dobot'[D(s)].last = LastIndex(s, dobot[D(s)].last)
  BY RecordTouches
<1>3. thread[s].target = arm.added /\ (thread[s].call \in Own => Awaited(thread[s], arm))
  BY <1>1 DEF SHolds, CallHoldsNow, CallHolds
<1>4. \A c \in Queued(arm) : arm.index[c] <= thread[s].target /\ arm.index[c] \in Nat
  BY <1>1, <1>3, QueuedIsAhead
<1>5. \A c \in Queued(arm) : arm.index[c] <= LastIndex(s, dobot[D(s)].last)
  BY <1>1, <1>4 DEF LastIndex
<1>6. CASE thread[s].call = "queue"
  <2>1. thread'[s].pc = "idle" /\ thread'[s].returned = "queued"
    BY <1>6, ReturnMoves DEF RecordIndex, Call, IInv
  <2> QED  BY <1>1, <1>2, <1>5, <2>1 DEF SHolds, CallHoldsNow, LastHolds, CallHolds, NothingBeyond
<1>7. CASE thread[s].call # "queue"
  <2>1. /\ thread'[s].pc \in {"index", "mode"} /\ thread'[s].call = thread[s].call
        /\ thread'[s].command = thread[s].command /\ thread'[s].target = thread[s].target
    BY <1>7, GoMoves DEF RecordIndex, Call, IInv, Places, Sending
  <2>2. Awaited(thread'[s], arm)
    BY <1>1, <1>3, <1>7, <2>1 DEF Awaited, Own
  <2> QED  BY <1>1, <1>2, <1>4, <1>5, <2>1, <2>2
           DEF SHolds, CallHoldsNow, LastHolds, CallHolds, NothingBeyond
<1> QED  BY <1>6, <1>7

LEMMA ReadModeHolds ==
    ASSUME IInv, NEW s \in Threads, SHolds(s), ReadMode(s)
    PROVE  SHolds(s)'
<1>1. /\ thread[s].pc = "mode" /\ thread[s].call \in {"execute", "home"}
      /\ arm' = arm /\ failures' = failures /\ dobot' = dobot
  BY TypedParts DEF ReadMode, At, Fits
<1>2. Awaited(thread[s], arm)
  BY <1>1 DEF SHolds, CallHoldsNow, CallHolds, Own
<1>3. CASE dobot[D(s)].depth = 0
  <2>1. /\ thread'[s].pc = "index" /\ thread'[s].call = thread[s].call
        /\ thread'[s].command = thread[s].command /\ thread'[s].target = thread[s].target
    BY <1>3, GoMoves DEF ReadMode, IInv, Places, Sending
  <2>2. Awaited(thread'[s], arm)
    BY <1>2, <2>1 DEF Awaited
  <2> QED  BY <1>1, <1>2, <2>1, <2>2
           DEF SHolds, CallHoldsNow, LastHolds, CallHolds, NothingBeyond, Awaited
<1>4. CASE dobot[D(s)].depth # 0
  <2>1. thread'[s].pc = "idle" /\ thread'[s].returned = "queued"
    BY <1>4, ReturnMoves DEF ReadMode, IInv
  <2> QED  BY <1>1, <2>1 DEF SHolds, CallHoldsNow, LastHolds, CallHolds, NothingBeyond
<1> QED  BY <1>3, <1>4

LEMMA ReadIndexHolds ==
    ASSUME IInv, NEW s \in Threads, SHolds(s), ReadIndex(s)
    PROVE  SHolds(s)'
<1>1. /\ thread[s].pc = "index" /\ arm' = arm /\ failures' = failures /\ dobot' = dobot
      /\ Sound(arm) /\ arm.executed \in Nat /\ thread[s] \in ThreadType
  BY TypedParts DEF ReadIndex, At
<1>2. thread[s].call \in Own => Awaited(thread[s], arm)
  BY <1>1 DEF SHolds, CallHoldsNow, CallHolds
<1>3. CASE Call(s) = "home" /\ Reached(s, arm.executed)
  <2>1. /\ thread'[s].pc = "homed" /\ thread'[s].call = thread[s].call
        /\ thread'[s].command = thread[s].command
    BY <1>3, GoMoves DEF ReadIndex, IInv, Places, Sending
  <2>2. Queued(arm) = {} /\ HasRun(thread[s], arm)
    BY <1>1, <1>2, <1>3, ReachedHasRun DEF Reached, Call, Own
  <2>3. HasRun(thread'[s], arm)
    BY <2>1, <2>2 DEF HasRun
  <2> QED  BY <1>1, <2>1, <2>2, <2>3
           DEF SHolds, CallHoldsNow, LastHolds, CallHolds, NothingBeyond
<1>4. CASE Call(s) = "home" /\ ~Reached(s, arm.executed)
  <2>1. /\ thread'[s].pc = "index" /\ thread'[s].call = thread[s].call
        /\ thread'[s].command = thread[s].command /\ thread'[s].target = thread[s].target
    BY <1>4, GoMoves DEF ReadIndex, IInv, Places, Sending
  <2>2. Awaited(thread'[s], arm)
    BY <1>2, <1>4, <2>1 DEF Awaited, Call, Own
  <2> QED  BY <1>1, <2>1, <2>2 DEF SHolds, CallHoldsNow, LastHolds, CallHolds, NothingBeyond
<1>5. CASE Call(s) # "home"
  <2>1. /\ thread'[s].pc = "alarms" /\ thread'[s].call = thread[s].call
        /\ thread'[s].command = thread[s].command /\ thread'[s].target = thread[s].target
        /\ thread'[s].current = arm.executed
    BY <1>1, <1>5 DEF ReadIndex, IInv, TypeOK, ThreadType
  <2>2. thread[s].call \in Own => Awaited(thread'[s], arm)
    BY <1>2, <2>1 DEF Awaited
  <2>3. arm.executed <= arm.executed
    BY <1>1
  <2> QED  BY <1>1, <2>1, <2>2, <2>3
           DEF SHolds, CallHoldsNow, LastHolds, CallHolds, NothingBeyond
<1> QED  BY <1>3, <1>4, <1>5

LEMMA ReadAlarmsHolds ==
    ASSUME IInv, NEW s \in Threads, SHolds(s), ReadAlarms(s)
    PROVE  SHolds(s)'
<1>1. /\ thread[s].pc = "alarms" /\ arm' = arm /\ failures' = failures /\ dobot' = dobot
      /\ Sound(arm) /\ arm.executed \in Nat /\ thread[s] \in ThreadType
      /\ thread[s].target \in Nat /\ thread[s].current \in Nat
      /\ thread[s].call \in {"execute", "moveTo", "idle", "exit"}
  BY TypedParts DEF ReadAlarms, At, Fits
<1>2. /\ thread[s].call \in Own => Awaited(thread[s], arm)
      /\ thread[s].current <= arm.executed
  BY <1>1 DEF SHolds, CallHoldsNow, CallHolds
<1>3. CASE arm.alarm /\ RaiseAlarm(s)
  <2>1. thread'[s].pc = "discard"
    BY <1>3, GoMoves DEF RaiseAlarm, IInv, Places, Sending
  <2> QED  BY <1>1, <2>1 DEF SHolds, CallHoldsNow, LastHolds, CallHolds, NothingBeyond
<1>4. CASE ~arm.alarm /\ Reached(s, thread[s].current) /\ Return(s, "ok")
  <2>1. /\ thread'[s].pc = "idle" /\ thread'[s].returned = "ok"
        /\ thread'[s].call = thread[s].call /\ thread'[s].command = thread[s].command
    BY <1>4, ReturnMoves DEF IInv
  <2>2. thread[s].current >= thread[s].target
    BY <1>4 DEF Reached
  <2>3. thread[s].call \in Own => HasRun(thread'[s], arm)
    BY <1>1, <1>2, <1>4, <2>1, <2>2, ReachedHasRun DEF HasRun
  <2>4. failures = 0 => Queued(arm) = {}
    <3>1. ASSUME failures = 0, NEW c \in Queued(arm)  PROVE FALSE
      <4>1. arm.index[c] <= thread[s].target
        BY <1>1, <3>1 DEF SHolds, LastHolds, NothingBeyond
      <4>2. arm.executed < arm.index[c] /\ arm.index[c] \in Nat
        BY <1>1, <3>1, QueuedIsAhead
      <4> QED  BY <1>1, <1>2, <2>2, <4>1, <4>2
    <3> QED  BY <3>1
  <2> QED  BY <1>1, <2>1, <2>3, <2>4 DEF SHolds, CallHoldsNow, LastHolds, CallHolds, NothingBeyond
<1>5. CASE Go(s, "index")
  <2>1. /\ thread'[s].pc = "index" /\ thread'[s].call = thread[s].call
        /\ thread'[s].command = thread[s].command /\ thread'[s].target = thread[s].target
    BY <1>5, GoMoves DEF IInv, Places, Sending
  <2>2. thread[s].call \in Own => Awaited(thread'[s], arm)
    BY <1>2, <2>1 DEF Awaited
  <2> QED  BY <1>1, <2>1, <2>2 DEF SHolds, CallHoldsNow, LastHolds, CallHolds, NothingBeyond
<1>6. CASE Call(s) = "moveTo" /\ Return(s, "raised")
  <2>1. /\ thread'[s].pc = "idle" /\ thread'[s].returned = "raised"
        /\ thread'[s].call = "moveTo"
    BY <1>6, ReturnMoves DEF IInv, Call
  <2> QED  BY <1>1, <2>1 DEF SHolds, CallHoldsNow, LastHolds, CallHolds, NothingBeyond
<1> QED  BY <1>3, <1>4, <1>5, <1>6 DEF ReadAlarms

\* At a place where nothing is relied on, once the queue is empty or as it was.
LEMMA PlainHolds ==
    ASSUME NEW s \in Threads, SHolds(s), Ran(arm, arm'), thread[s].pc # "record",
           thread'[s].pc \in {"discard", "clearQueue", "stopQueue", "startQueue", "target",
                             "deepen", "idle"},
           thread'[s].pc = "idle" =>
              thread'[s].returned = "nothing" \/ thread'[s].call \in
                 {"enter", "abort", "connect", "clearAlarm", "clearQueue", "control"},
           dobot'[D(s)].last = dobot[D(s)].last, failures' = failures
    PROVE  SHolds(s)'
<1>1. Queued(arm') \subseteq Queued(arm) /\ arm'.index = arm.index
  BY DEF Ran, Queued
<1> QED  BY <1>1 DEF SHolds, CallHoldsNow, LastHolds, CallHolds, NothingBeyond, Own

\* The same when the queue has been emptied.
LEMMA EmptyHolds ==
    ASSUME NEW s \in Threads, Queued(arm') = {}, thread'[s].pc # "record",
           thread'[s].pc \notin {"mode", "index", "alarms", "homed", "clearAlarm", "confirm"},
           thread'[s].pc = "idle" => thread'[s].returned # "ok" \/ thread'[s].call \notin Own
    PROVE  SHolds(s)'
BY DEF SHolds, CallHoldsNow, LastHolds, CallHolds, NothingBeyond, Own

LEMMA ReadTargetHolds ==
    ASSUME IInv, NEW s \in Threads, SHolds(s), ReadTarget(s)
    PROVE  SHolds(s)'
<1>1. /\ thread[s].pc = "target" /\ arm' = arm /\ failures' = failures /\ dobot' = dobot
      /\ Sound(arm) /\ thread[s].call \in {"idle", "exit"} /\ dobot[D(s)].last \in Nat
      /\ arm.executed \in Nat
  BY TypedParts DEF ReadTarget, At, Fits
<1>2. failures = 0 => \A c \in Queued(arm) : arm.index[c] <= dobot[D(s)].last
  BY <1>1 DEF SHolds, LastHolds, NothingBeyond
<1>3. CASE dobot[D(s)].last = 0
  <2>1. thread'[s].pc = "idle" /\ thread'[s].call = thread[s].call
    BY <1>3, ReturnMoves DEF ReadTarget, IInv
  <2>2. failures = 0 => Queued(arm) = {}
    <3>1. ASSUME failures = 0, NEW c \in Queued(arm)  PROVE FALSE
      <4>1. arm.index[c] \in Nat /\ arm.executed < arm.index[c]
        BY <1>1, <3>1, QueuedIsAhead
      <4> QED  BY <1>1, <1>2, <1>3, <3>1, <4>1
    <3> QED  BY <3>1
  <2> QED  BY <1>1, <1>2, <2>1, <2>2
           DEF SHolds, CallHoldsNow, LastHolds, CallHolds, NothingBeyond, Own
<1>4. CASE dobot[D(s)].last # 0
  <2>1. /\ thread'[s].pc = "index" /\ thread'[s].call = thread[s].call
        /\ thread'[s].target = dobot[D(s)].last
    BY <1>1, <1>4 DEF ReadTarget, IInv, TypeOK, ThreadType
  <2> QED  BY <1>1, <1>2, <2>1 DEF SHolds, CallHoldsNow, LastHolds, CallHolds, NothingBeyond, Own
<1> QED  BY <1>3, <1>4

LEMMA HomedHolds ==
    ASSUME IInv, NEW s \in Threads, SHolds(s), Homed(s)
    PROVE  SHolds(s)'
<1>1. /\ thread[s].pc = "homed" /\ arm' = arm /\ failures' = failures /\ dobot' = dobot
      /\ thread[s].call = "home"
  BY TypedParts DEF Homed, At, Fits
<1>2. HasRun(thread[s], arm) /\ Queued(arm) = {}
  BY <1>1 DEF SHolds, CallHoldsNow, CallHolds
<1>3. CASE arm.alarm
  <2>1. /\ thread'[s].pc = "clearAlarm" /\ thread'[s].call = "home"
        /\ thread'[s].command = thread[s].command
    BY <1>1, <1>3, GoMoves DEF Homed, IInv, Places, Sending
  <2> QED  BY <1>1, <1>2, <2>1
           DEF SHolds, CallHoldsNow, LastHolds, CallHolds, NothingBeyond, HasRun
<1>4. CASE ~arm.alarm
  <2>1. /\ thread'[s].pc = "idle" /\ thread'[s].call = "home"
        /\ thread'[s].command = thread[s].command
    BY <1>1, <1>4, ReturnMoves DEF Homed, IInv
  <2> QED  BY <1>1, <1>2, <1>4, <2>1
           DEF SHolds, CallHoldsNow, LastHolds, CallHolds, NothingBeyond, HasRun
<1> QED  BY <1>3, <1>4

LEMMA SendClearAlarmHolds ==
    ASSUME IInv, NEW s \in Threads, SHolds(s), SendClearAlarm(s)
    PROVE  SHolds(s)'
<1>1. /\ thread[s].pc = "clearAlarm" /\ arm' = AlarmsCleared(arm) /\ failures' = failures
      /\ dobot' = dobot /\ Sound(arm) /\ thread[s].call \in {"home", "clearAlarm"}
  BY TypedParts DEF SendClearAlarm, At, Fits
<1>2. /\ thread'[s].pc = "confirm" /\ thread'[s].call = thread[s].call
      /\ thread'[s].command = thread[s].command
  BY GoMoves DEF SendClearAlarm, IInv, Places, Sending
<1>3. /\ Ran(Calm(arm), arm') /\ Calm(arm).outcome = arm.outcome /\ Calm(arm).index = arm.index
  BY <1>1, AlarmsClearedSound
<1>4. Queued(arm') \subseteq Queued(arm) /\ arm'.index = arm.index
  BY <1>3 DEF Ran, Queued
<1>5. thread[s].call = "home" => HasRun(thread[s], arm) /\ Queued(arm) = {}
  BY <1>1 DEF SHolds, CallHoldsNow, CallHolds
<1>6. thread[s].call = "home" => HasRun(thread'[s], arm') /\ Queued(arm') = {}
  BY <1>2, <1>3, <1>4, <1>5 DEF HasRun, Ran
<1> QED  BY <1>1, <1>2, <1>4, <1>6 DEF SHolds, CallHoldsNow, LastHolds, CallHolds, NothingBeyond

LEMMA ConfirmHolds ==
    ASSUME IInv, NEW s \in Threads, SHolds(s), Confirm(s)
    PROVE  SHolds(s)'
<1>1. /\ thread[s].pc = "confirm" /\ arm' = arm /\ failures' = failures /\ dobot' = dobot
      /\ thread[s].call \in {"home", "clearAlarm"}
  BY TypedParts DEF Confirm, At, Fits
<1>2. /\ thread'[s].pc = "idle" /\ thread'[s].call = thread[s].call
      /\ thread'[s].command = thread[s].command
      /\ thread'[s].returned = IF arm.alarm THEN "raised" ELSE "ok"
  BY ReturnMoves DEF Confirm, IInv
<1>3. thread[s].call = "home" => HasRun(thread'[s], arm) /\ Queued(arm) = {}
  BY <1>1, <1>2 DEF SHolds, CallHoldsNow, CallHolds, HasRun
<1> QED  BY <1>1, <1>2, <1>3
         DEF SHolds, CallHoldsNow, LastHolds, CallHolds, NothingBeyond, Own

LEMMA StepHolds ==
    ASSUME IInv, NEW s \in Threads, SHolds(s), Continue(s)
    PROVE  SHolds(s)'
<1>0. TypeOK /\ Sound(arm) /\ Fits(thread[s].pc, thread[s].call)
  BY TypedParts DEF IInv
<1>1. CASE Discard(s)
  <2>1. thread'[s].pc = "forgetAndRaise"
    BY <1>0, <1>1, GoMoves DEF Discard, Places
  <2>2. Queued(arm') = {}
    BY <1>0, <1>1, ClearedSound DEF Discard
  <2> QED  BY <2>1, <2>2, EmptyHolds
<1>2. CASE ForgetAndRaise(s)
  <2>1. /\ thread'[s].pc = "idle" /\ thread'[s].returned = "raised" /\ arm' = arm
        /\ failures' = failures /\ thread[s].pc = "forgetAndRaise"
    BY <1>0, <1>2, ReturnMoves DEF ForgetAndRaise, At
  <2>2. failures = 0 => Queued(arm) = {}
    BY <2>1 DEF SHolds, LastHolds, NothingBeyond
  <2> QED  BY <2>1, <2>2 DEF SHolds, CallHoldsNow, LastHolds, CallHolds, NothingBeyond
<1>3. CASE Deepen(s)
  <2>1. /\ thread'[s].pc = "idle" /\ thread'[s].call = "enter" /\ thread[s].pc = "deepen"
        /\ dobot'[D(s)].last = dobot[D(s)].last /\ arm' = arm /\ failures' = failures
    BY <1>0, <1>3, DeepenKeeps DEF Deepen, At, Fits
  <2>2. Ran(arm, arm')
    BY <1>0, <2>1, RanSame DEF Sound
  <2> QED  BY <2>1, <2>2, PlainHolds
<1>4. CASE SendStop(s)
  <2>1. /\ thread[s].pc = "stopQueue" /\ dobot' = dobot /\ failures' = failures
        /\ thread[s].call \in {"enter", "control"}
    BY <1>0, <1>4 DEF SendStop, At, Fits
  <2>2. thread'[s].pc \in {"clearQueue", "idle"} /\ thread'[s].call = thread[s].call
    BY <1>0, <1>4, GoMoves, ReturnMoves DEF SendStop, Places, Sending
  <2>3. Ran(arm, arm')
    BY <1>0, <1>4, StoppedSound DEF SendStop
  <2> QED  BY <2>1, <2>2, <2>3, PlainHolds
<1>5. CASE SendClear(s)
  <2>1. thread'[s].pc = "forget"
    BY <1>0, <1>5, GoMoves DEF SendClear, Places
  <2>2. Queued(arm') = {}
    BY <1>0, <1>5, ClearedSound DEF SendClear
  <2> QED  BY <2>1, <2>2, EmptyHolds
<1>6. CASE Forget(s)
  <2>1. /\ thread[s].pc = "forget" /\ arm' = arm /\ failures' = failures
        /\ thread[s].call \in {"enter", "abort", "connect", "clearQueue"}
    BY <1>0, <1>6 DEF Forget, At, Fits
  <2>2. /\ thread'[s].pc \in {"deepen", "startQueue", "idle"}
        /\ thread'[s].call = thread[s].call
    BY <1>0, <1>6, GoMoves, ReturnMoves DEF Forget, Places, Sending
  <2>3. failures = 0 => Queued(arm) = {}
    BY <2>1 DEF SHolds, LastHolds, NothingBeyond
  <2> QED  BY <2>1, <2>2, <2>3
           DEF SHolds, CallHoldsNow, LastHolds, CallHolds, NothingBeyond, Own
<1>7. CASE SendStart(s)
  <2>1. /\ thread[s].pc = "startQueue" /\ dobot' = dobot /\ failures' = failures
        /\ thread[s].call \in {"exit", "abort", "connect", "control"}
    BY <1>0, <1>7 DEF SendStart, At, Fits
  <2>2. /\ thread'[s].pc \in {"target", "idle"} /\ thread'[s].call = thread[s].call
        /\ thread'[s].pc = "idle" => thread[s].call # "exit"
    BY <1>0, <1>7, GoMoves, ReturnMoves DEF SendStart, Call, Places
  <2>3. Ran(arm, arm')
    BY <1>0, <1>7, StartedSound DEF SendStart
  <2> QED  BY <2>1, <2>2, <2>3, PlainHolds
<1> QED  BY <1>1, <1>2, <1>3, <1>4, <1>5, <1>6, <1>7, RecordHolds, ReadModeHolds, ReadIndexHolds,
            ReadAlarmsHolds, ReadTargetHolds, HomedHolds, SendClearAlarmHolds, ConfirmHolds
         DEF Continue

LEMMA SendHolds ==
    ASSUME IInv, NEW s \in Threads, SHolds(s), NEW c \in Commands, NEW call \in Own \cup {"queue"},
           Send(s, c, call)
    PROVE  SHolds(s)'
<1> DEFINE e == Appended(arm, c)
<1>1. /\ Sound(arm) /\ arm.outcome[c] = "unsent" /\ arm' = Enqueued(arm, c) /\ failures' = failures
      /\ arm.added \in Nat /\ arm.index \in [Commands -> Nat]
      /\ arm.outcome \in [Commands -> {"unsent", "queued", "done", "failed", "dropped"}]
      /\ call = "home" => c \in Homings
  BY TypedParts DEF Send, Sound, ArmType
<1>2. Ran(e, arm')
  BY <1>1, EnqueuedSound
<1>3. /\ e.index = [arm.index EXCEPT ![c] = arm.added + 1] /\ e.added = arm.added + 1
      /\ e.outcome = [arm.outcome EXCEPT ![c] = "queued"]
      /\ \A d \in Queued(e) : e.index[d] <= arm.added + 1
  BY <1>1, AppendedSound
<1> HIDE DEF e
<1>4. e.index[c] = arm.added + 1 /\ e.outcome[c] = "queued"
  BY <1>1, <1>3
<1>5. /\ arm'.index = e.index /\ arm'.added = arm.added + 1 /\ Queued(arm') \subseteq Queued(e)
      /\ arm'.outcome[c] \in {"queued", "done", "failed"}
      /\ arm'.outcome[c] = "failed" => arm'.alarm
  BY <1>2, <1>3, <1>4 DEF Ran, Queued
<1>6. /\ thread'[s].pc = "record" /\ thread'[s].call = call /\ thread'[s].command = c
      /\ thread'[s].target = arm.added + 1
  BY SendKeeps
<1>7. Awaited(thread'[s], arm')
  BY <1>1, <1>3, <1>4, <1>5, <1>6 DEF Awaited
<1>8. arm.added + 1 # 0
  BY <1>1
<1> QED  BY <1>5, <1>6, <1>7, <1>8 DEF SHolds, CallHoldsNow, LastHolds, CallHolds, NothingBeyond

\* A call begins; what was queued is queued, or gone.
LEMMA BegunHolds ==
    ASSUME IInv, NEW s \in Threads, SHolds(s), thread[s].pc = "idle",
           thread'[s].pc \in {"target", "clearAlarm", "stopQueue", "startQueue", "clearQueue", "idle"},
           thread'[s].pc = "idle" => thread'[s].returned = "nothing",
           thread'[s].pc = "clearAlarm" => thread'[s].call = "clearAlarm",
           Queued(arm') \subseteq Queued(arm), arm'.index = arm.index,
           dobot'[D(s)].last = dobot[D(s)].last, failures' = failures
    PROVE  SHolds(s)'
BY DEF SHolds, CallHoldsNow, LastHolds, CallHolds, NothingBeyond

\* Blocks within a batch change its depth only.
LEMMA InnerHolds ==
    ASSUME NEW s \in Threads, SHolds(s), thread[s].pc = "idle",
           NEW depth, thread'[s] = [thread[s] EXCEPT !.depth = depth], thread[s] \in ThreadType,
           arm' = arm, dobot'[D(s)].last = dobot[D(s)].last, failures' = failures
    PROVE  SHolds(s)'
<1>1. /\ thread'[s].pc = thread[s].pc /\ thread'[s].call = thread[s].call
      /\ thread'[s].command = thread[s].command /\ thread'[s].returned = thread[s].returned
  BY DEF ThreadType
<1> QED  BY <1>1 DEF SHolds, CallHoldsNow, LastHolds, CallHolds, NothingBeyond, HasRun

LEMMA BeginHolds ==
    ASSUME IInv, NEW s \in Threads, SHolds(s), NEW call \in Calls,
           NEW pc \in {"target", "clearAlarm", "stopQueue", "startQueue", "clearQueue", "idle"},
           Begin(s, call, pc), pc = "clearAlarm" => call = "clearAlarm",
           Queued(arm') \subseteq Queued(arm), arm'.index = arm.index,
           UNCHANGED <<dobot, failures>>
    PROVE  SHolds(s)'
<1>1. pc \in Places
  BY DEF Places, Sending
<1>2. /\ thread'[s].pc = pc /\ thread'[s].call = call
      /\ thread'[s].returned = "nothing" /\ thread[s].pc = "idle"
  BY <1>1, BeginMoves DEF IInv
<1> QED  BY <1>2, BegunHolds

LEMMA CallHoldsStep ==
    ASSUME IInv, NEW s \in Threads, SHolds(s), CallMethod(s)
    PROVE  SHolds(s)'
<1>0. /\ TypeOK /\ Sound(arm) /\ thread[s] \in ThreadType
      /\ "idle" \in Calls /\ "clearAlarm" \in Calls
  BY TypedParts DEF IInv, Calls
<1>1. ASSUME NEW c \in Commands, SendCommand(s, c)  PROVE SHolds(s)'
  BY <1>1, SendHolds DEF SendCommand, ExecuteCommand, QueueCommand, MoveTo, SetHome, Own
<1>2. CASE WaitIdle(s)
  BY <1>0, <1>2, BeginHolds DEF WaitIdle
<1>3. CASE ClearAlarm(s)
  BY <1>0, <1>3, BeginHolds DEF ClearAlarm
<1>4. CASE EnterBatch(s)
  <2>1. dobot'[D(s)].last = dobot[D(s)].last /\ arm' = arm /\ failures' = failures
        /\ thread[s].pc = "idle"
    BY <1>4, EnterKeeps DEF EnterBatch
  <2>2. CASE thread'[s].pc = "stopQueue"
    BY <2>1, <2>2, BegunHolds
  <2>3. CASE thread'[s] = [thread[s] EXCEPT !.depth = @ + 1]
    BY <1>0, <2>1, <2>3, InnerHolds
  <2> QED  BY <1>4, <2>2, <2>3, EnterKeeps
<1>5. ASSUME NEW call \in {"exit", "abort"}, NEW pc \in {"startQueue", "clearQueue"},
             Fits(pc, call), LeaveBatch(s, call, pc)
      PROVE  SHolds(s)'
  <2>1. dobot'[D(s)].last = dobot[D(s)].last /\ arm' = arm /\ failures' = failures
        /\ thread[s].pc = "idle"
    BY <1>5, LeaveKeeps DEF LeaveBatch
  <2>2. CASE thread'[s].pc = pc
    BY <2>1, <2>2, BegunHolds
  <2>3. CASE thread'[s] = [thread[s] EXCEPT !.depth = thread[s].depth - 1]
    BY <1>0, <2>1, <2>3, InnerHolds
  <2> QED  BY <1>5, <2>2, <2>3, LeaveKeeps
<1>6. CASE ExitBatch(s)
  BY <1>5, <1>6 DEF ExitBatch, Fits
<1>7. CASE AbortBatch(s)
  BY <1>5, <1>7 DEF AbortBatch, Fits
<1> QED  BY <1>1, <1>2, <1>3, <1>4, <1>6, <1>7 DEF CallMethod

LEMMA ControlHolds ==
    ASSUME IInv, NEW s \in Threads, SHolds(s), ControlQueue(s)
    PROVE  SHolds(s)'
<1>0. Sound(arm) /\ "connect" \in Calls /\ "clearQueue" \in Calls /\ "control" \in Calls
  BY DEF IInv, Calls
<1>1. CASE Connect(s)
  BY <1>0, <1>1, BeginHolds DEF Connect
<1>2. CASE ClearQueue(s)
  BY <1>0, <1>2, BeginHolds DEF ClearQueue
<1>3. CASE StartQueue(s)
  BY <1>0, <1>3, BeginHolds DEF StartQueue
<1>4. CASE StopQueue(s)
  BY <1>0, <1>4, BeginHolds DEF StopQueue
<1>5. CASE ForceStopQueue(s)
  <2>1. arm' = ForceStopped(arm)
    BY <1>5 DEF ForceStopQueue
  <2>2. Queued(arm') \subseteq Queued(arm) /\ arm'.index = arm.index
    BY <1>0, <2>1, ForceStoppedSound DEF Queued
  <2> QED  BY <1>0, <1>5, <2>2, BeginHolds DEF ForceStopQueue
<1>6. CASE Jog(s)
  <2>1. Ran(arm, arm')
    BY <1>0, <1>6, JogSound DEF Jog
  <2>2. Queued(arm') \subseteq Queued(arm) /\ arm'.index = arm.index
    BY <2>1 DEF Ran, Queued
  <2> QED  BY <1>0, <1>6, <2>2, BeginHolds DEF Jog
<1> QED  BY <1>1, <1>2, <1>3, <1>4, <1>5, <1>6 DEF ControlQueue

\* After an exchange that failed nothing is promised.
LEMMA FailHolds ==
    ASSUME IInv, NEW s \in Threads, Fail(s)
    PROVE  SHolds(s)'
<1>1. thread'[s].pc = "idle" /\ thread'[s].returned = "raised" /\ failures' # 0
  BY ExchangeFailsKeeps, SendFailsKeeps DEF Fail
<1> QED  BY <1>1 DEF SHolds, CallHoldsNow, LastHolds, CallHolds

-----------------------------------------------------------------------------
(* The other threads                                                        *)

\* A thread that stands by starts the queue, stops it, or lets the arm jog.
LEMMA StandByOnly ==
    ASSUME IInv, NEW t \in Threads, OnlyControls(thread[t]), StandBy(t)
    PROVE  /\ IInv' /\ OnlyControls(thread'[t]) /\ Ran(arm, arm')
           /\ \A u \in Threads \ {t} : thread'[u] = thread[u]
           /\ \A d \in Dobots : dobot'[d].last = dobot[d].last
           /\ failures' = 0 => failures = 0
<1>0. /\ TypeOK /\ Sound(arm) /\ "control" \in Calls /\ Fits(thread[t].pc, thread[t].call)
      /\ thread[t].call \in {"none", "control"} /\ failures \in Nat /\ arm \in ArmType
  BY TypedParts DEF IInv, Calls, OnlyControls, Sound
<1> USE DEF OnlyControls
<1>1. CASE Continue(t)
  <2>1. IInv'
    BY <1>1, ContinueKeeps
  <2>2. SendStop(t) \/ SendStart(t)
    BY <1>0, <1>1 DEF Continue, Fits, At, RecordIndex, ReadMode, ReadIndex, ReadAlarms, Discard,
       ForgetAndRaise, ReadTarget, Homed, SendClearAlarm, Confirm, Deepen, SendClear, Forget
  <2>3. CASE SendStop(t)
    <3>1. Moved(t) /\ thread'[t].call = thread[t].call
      BY <1>0, <2>3, GoMoves, ReturnMoves DEF SendStop, Places, Sending
    <3> QED  BY <1>0, <2>1, <2>3, <3>1, StoppedSound DEF SendStop, Moved
  <2>4. CASE SendStart(t)
    <3>1. Moved(t) /\ thread'[t].call = thread[t].call
      BY <1>0, <2>4, GoMoves, ReturnMoves DEF SendStart, Places, Sending
    <3> QED  BY <1>0, <2>1, <2>4, <3>1, StartedSound DEF SendStart, Moved
  <2> QED  BY <2>2, <2>3, <2>4
<1>2. CASE ExchangeFails(t)
  <2>1. /\ IInv' /\ Moved(t) /\ thread'[t].call = thread[t].call /\ failures' # 0 /\ Touched(t)
        /\ dobot'[D(t)].last = dobot[D(t)].last
    BY <1>2, ExchangeFailsKeeps
  <2>2. thread[t].pc \in {"stopQueue", "startQueue"}
    BY <1>0, <1>2 DEF ExchangeFails, Fits, Sending
  <2>3. Ran(arm, Handled(t))
    BY <1>0, <2>2, StoppedSound, StartedSound DEF Handled, At
  <2>4. Ran(arm, arm)
    BY <1>0, RanSame
  <2> QED  BY <1>0, <1>2, <2>1, <2>3, <2>4 DEF ExchangeFails, Moved, Touched
<1>3. CASE StartQueue(t)
  <2>1. IInv'
    BY <1>3, ControlKeeps DEF ControlQueue
  <2>2. Moved(t) /\ thread'[t].call = "control"
    BY <1>0, <1>3, BeginMoves DEF StartQueue, Places, Sending
  <2> QED  BY <1>0, <1>3, <2>1, <2>2, RanSame DEF StartQueue, Moved
<1>4. CASE StopQueue(t)
  <2>1. IInv'
    BY <1>4, ControlKeeps DEF ControlQueue
  <2>2. Moved(t) /\ thread'[t].call = "control"
    BY <1>0, <1>4, BeginMoves DEF StopQueue, Places, Sending
  <2> QED  BY <1>0, <1>4, <2>1, <2>2, RanSame DEF StopQueue, Moved
<1>5. CASE Jog(t)
  <2>1. IInv'
    BY <1>5, ControlKeeps DEF ControlQueue
  <2>2. Moved(t) /\ thread'[t].call = "control"
    BY <1>0, <1>5, BeginMoves DEF Jog, Places, Sending
  <2> QED  BY <1>0, <1>5, <2>1, <2>2, JogSound DEF Jog, Moved
<1> QED  BY <1>1, <1>2, <1>3, <1>4, <1>5 DEF StandBy

\* In a step of the driving thread the others stand still.
LEMMA OnlyMine ==
    ASSUME IInv, NEW s \in Threads, Continue(s) \/ CallMethod(s) \/ ControlQueue(s) \/ Fail(s)
    PROVE  \A u \in Threads \ {s} : thread'[u] = thread[u]
<1>1. /\ thread \in [Threads -> ThreadType]
  BY DEF IInv, TypeOK
<1>2. ASSUME Continue(s)  PROVE \A u \in Threads \ {s} : thread'[u] = thread[u]
  BY <1>1, <1>2 DEF Continue, RecordIndex, ReadMode, ReadIndex, ReadAlarms, RaiseAlarm, Discard,
     ForgetAndRaise, ReadTarget, Homed, SendClearAlarm, Confirm, Deepen, SendStop, SendClear,
     Forget, SendStart, Go, Return
<1>3. ASSUME CallMethod(s)  PROVE \A u \in Threads \ {s} : thread'[u] = thread[u]
  <2>1. ASSUME NEW c \in Commands, SendCommand(s, c)
        PROVE  \A u \in Threads \ {s} : thread'[u] = thread[u]
    BY <1>1, <2>1 DEF SendCommand, ExecuteCommand, QueueCommand, MoveTo, SetHome, Send
  <2> QED  BY <1>1, <1>3, <2>1 DEF CallMethod, WaitIdle, ClearAlarm, EnterBatch, ExitBatch,
              AbortBatch, LeaveBatch, Begin
<1>4. ASSUME ControlQueue(s)  PROVE \A u \in Threads \ {s} : thread'[u] = thread[u]
  BY <1>1, <1>4 DEF ControlQueue, Connect, ClearQueue, StartQueue, StopQueue, ForceStopQueue, Jog,
     Begin
<1>5. ASSUME Fail(s)  PROVE \A u \in Threads \ {s} : thread'[u] = thread[u]
  BY <1>1, <1>5 DEF Fail, ExchangeFails, SendFails, Return
<1> QED  BY <1>2, <1>3, <1>4, <1>5

-----------------------------------------------------------------------------
(* What the results mean to the driving thread                              *)

LEMMA DrivenIsNext ==
    ASSUME NEW s \in Threads, DrivenNext(s)
    PROVE  Next
BY DEF DrivenNext, StandBy, ControlQueue, Fail, Next

LEMMA InitDrives ==
    ASSUME Init, NEW s \in Threads
    PROVE  DrivenInv(s)
<1>1. /\ thread[s].pc = "idle" /\ thread[s].returned = "nothing"
      /\ \A t \in Threads : thread[t].call = "none"
      /\ \A c \in Commands : arm.outcome[c] = "unsent"
  BY DEF Init, ArmInit
<1>2. Queued(arm) = {}
  BY <1>1 DEF Queued
<1> QED  BY <1>1, <1>2 DEF DrivenInv, CallHolds, NothingBeyond, OnlyControls

LEMMA DrivenKeeps ==
    ASSUME IInv, NEW s \in Threads, DrivenInv(s), [DrivenNext(s)]_vars
    PROVE  IInv' /\ DrivenInv(s)'
<1>1. SHolds(s) /\ \A t \in Threads \ {s} : OnlyControls(thread[t])
  BY DEF DrivenInv, SHolds, CallHoldsNow, LastHolds
<1>2. IInv'
  BY DrivenIsNext, NextKeeps
<1>3. D(s) \in Dobots
  BY DEF D
<1>4. SHolds(s)' /\ (\A u \in Threads \ {s} : OnlyControls(thread'[u])) => DrivenInv(s)'
  BY DEF DrivenInv, SHolds, CallHoldsNow, LastHolds
<1>5. CASE Continue(s) \/ CallMethod(s) \/ ControlQueue(s) \/ Fail(s)
  <2>1. SHolds(s)'
    BY <1>1, <1>5, StepHolds, CallHoldsStep, ControlHolds, FailHolds
  <2>2. \A u \in Threads \ {s} : thread'[u] = thread[u]
    BY <1>5, OnlyMine
  <2> QED  BY <1>1, <1>2, <2>1, <2>2
           DEF DrivenInv, SHolds, CallHoldsNow, LastHolds, OnlyControls
<1>6. ASSUME NEW t \in Threads \ {s}, StandBy(t)
      PROVE  DrivenInv(s)'
  <2>1. OnlyControls(thread[t])
    BY <1>1
  <2>2. /\ OnlyControls(thread'[t]) /\ Ran(arm, arm')
        /\ \A u \in Threads \ {t} : thread'[u] = thread[u]
        /\ \A d \in Dobots : dobot'[d].last = dobot[d].last
        /\ failures' = 0 => failures = 0
    BY <1>6, <2>1, StandByOnly
  <2>3. thread'[s] = thread[s]
    BY <2>2
  <2>4. SHolds(s)'
    BY <1>1, <1>2, <1>3, <2>2, <2>3, AroundHolds
  <2>5. \A u \in Threads \ {s} : OnlyControls(thread'[u])
    BY <1>1, <2>2
  <2> QED  BY <2>4, <2>5 DEF DrivenInv, SHolds, CallHoldsNow, LastHolds
<1>7. CASE ArmMoves \/ UNCHANGED vars
  <2>1. Sound(arm) /\ thread' = thread /\ dobot' = dobot /\ failures' = failures
    BY <1>7 DEF IInv, ArmMoves, vars
  <2>2. ASSUME Tick  PROVE Ran(arm, arm')
    BY <2>1, <2>2, TickSound
  <2>3. Ran(arm, arm)
    BY <2>1, RanSame DEF Sound
  <2>4. Ran(arm, arm')
    BY <1>7, <2>2, <2>3 DEF ArmMoves, vars
  <2>5. SHolds(s)'
    BY <1>1, <1>2, <2>1, <2>4, AroundHolds
  <2>6. \A u \in Threads \ {s} : OnlyControls(thread'[u])
    BY <1>1, <2>1
  <2> QED  BY <1>2, <1>4, <2>5, <2>6
<1> QED  BY <1>2, <1>5, <1>6, <1>7 DEF DrivenNext

LEMMA DrivenInductive ==
    ASSUME NEW s \in Threads
    PROVE  DrivenSpec(s) => [](IInv /\ DrivenInv(s))
<1>1. Init => IInv /\ DrivenInv(s)
  BY InitHolds, InitDrives
<1>2. IInv /\ DrivenInv(s) /\ [DrivenNext(s)]_vars => IInv' /\ DrivenInv(s)'
  BY DrivenKeeps
<1> QED  BY <1>1, <1>2, PTL DEF DrivenSpec

\* ptp, the settings and move_to of device.py: True means that the arm has executed the
\* command, whatever exchanges failed before.
THEOREM TrueMeansDone ==
    ASSUME NEW s \in Threads
    PROVE  DrivenSpec(s) => []OkMeansDone
<1>1. DrivenInv(s) => OkMeansDone
  BY DEF DrivenInv, CallHolds, OnlyControls, HasRun, OkMeansDone, Returned, At, Call, Own
<1> QED  BY <1>1, DrivenInductive, PTL

\* set_home of device.py: True means that the arm has homed and is not alarmed.
THEOREM TrueMeansHome ==
    ASSUME NEW s \in Threads
    PROVE  DrivenSpec(s) => []HomeEndsAlarm
<1>1. DrivenInv(s) => HomeEndsAlarm
  BY DEF DrivenInv, CallHolds, OnlyControls, HasRun, HomeEndsAlarm, Returned, At, Call, Own
<1> QED  BY <1>1, DrivenInductive, PTL

\* wait_idle and the end of a batch: the one index that device.py remembers is enough to
\* know that nothing is left, as long as no exchange has failed.
THEOREM OneIndexIsEnough ==
    ASSUME NEW s \in Threads
    PROVE  DrivenSpec(s) => []IdleMeansDone
<1>1. ASSUME DrivenInv(s)  PROVE IdleMeansDone
  <2>1. ASSUME NEW t \in Threads, failures = 0, Returned(t, "ok"), Call(t) \in {"idle", "exit"}
        PROVE  Queued(arm) = {}
    <3>1. t = s
      BY <1>1, <2>1 DEF DrivenInv, OnlyControls, Call
    <3> QED  BY <1>1, <2>1, <3>1 DEF DrivenInv, NothingBeyond, Returned, At, Call
  <2> QED  BY <2>1 DEF IdleMeansDone, Queued
<1>2. DrivenInv(s) => IdleMeansDone
  BY <1>1
<1> QED  BY <1>2, DrivenInductive, PTL

\* wait_for of device.py: an alarm that is raised leaves nothing in the queue, as long as
\* no exchange has failed.
THEOREM RaisedMeansDiscarded ==
    ASSUME NEW s \in Threads
    PROVE  DrivenSpec(s) => []AlarmDiscards
<1>1. ASSUME IInv, DrivenInv(s)  PROVE AlarmDiscards
  <2>1. Sound(arm)
    BY <1>1 DEF IInv
  <2>2. ASSUME NEW t \in Threads, failures = 0, Returned(t, "raised"),
               Call(t) \in {"execute", "idle", "exit"}
        PROVE  arm.queue = <<>>
    <3>1. t = s
      BY <1>1, <2>2 DEF DrivenInv, OnlyControls, Call
    <3>2. Queued(arm) = {}
      BY <1>1, <2>2, <3>1 DEF DrivenInv, NothingBeyond, Returned, At, Call
    <3>3. arm.queue \in Seq(Commands) /\ \A i \in DOMAIN arm.queue : arm.queue[i] \in Queued(arm)
      BY <2>1 DEF Sound, ArmType, Queued
    <3>4. Len(arm.queue) = 0
      <4>1. Len(arm.queue) \in Nat /\ DOMAIN arm.queue = 1..Len(arm.queue)
        BY <3>3, LenProperties
      <4>2. 1 \notin DOMAIN arm.queue
        BY <3>2, <3>3
      <4> QED  BY <4>1, <4>2
    <3> QED  BY <3>3, <3>4, EmptySeq
  <2> QED  BY <2>2 DEF AlarmDiscards
<1>2. IInv /\ DrivenInv(s) => AlarmDiscards
  BY <1>1
<1> QED  BY <1>2, DrivenInductive, PTL

-----------------------------------------------------------------------------
(* Batches in documented use                                                *)

BatchHoldsNow(s) == BatchHolds(thread[s], dobot[D(s)], arm)
EndsNow(s) == failures = 0 => BatchEnds(thread[s], dobot[D(s)], arm)
BHolds(s) == BatchHoldsNow(s) /\ EndsNow(s)

\* Commands that run, outside a batch, take nothing away from it.
LEMMA RanKeepsBatch ==
    ASSUME NEW a, NEW b, Ran(a, b), b.running = a.running, ~a.running => b.outcome = a.outcome,
           NEW th, NEW d \in DobotType
    PROVE  /\ BatchHolds(th, d, a) => BatchHolds(th, d, b)
           /\ BatchEnds(th, d, a) => BatchEnds(th, d, b)
<1>1. \A c \in d.batch : c \in Commands
  BY DEF DobotType
<1>2. ~a.running => Queued(b) = Queued(a)
  BY DEF Queued
<1>3. BatchHolds(th, d, a) => BatchHolds(th, d, b)
  BY <1>2 DEF BatchHolds
<1>4. \A c \in Commands :
         /\ a.outcome[c] = "done" => b.outcome[c] = "done"
         /\ a.outcome[c] \in {"queued", "done", "failed"} /\ (a.outcome[c] = "failed" => a.alarm) =>
               b.outcome[c] \in {"queued", "done", "failed"} /\ (b.outcome[c] = "failed" => b.alarm)
  BY DEF Ran
<1>5. BatchEnds(th, d, a) => BatchEnds(th, d, b)
  BY <1>1, <1>4 DEF BatchEnds
<1> QED  BY <1>3, <1>5

LEMMA BatchTypes ==
    ASSUME IInv, NEW s \in Threads
    PROVE  /\ Sound(arm) /\ thread[s] \in ThreadType /\ Fits(thread[s].pc, thread[s].call)
           /\ dobot[D(s)] \in DobotType /\ thread[s].depth \in Nat /\ dobot[D(s)].depth \in Nat
           /\ dobot[D(s)].last \in Nat /\ thread[s].target \in Nat /\ failures \in Nat
           /\ dobot[D(s)].batch \subseteq Commands /\ TypeOK
BY TypedParts DEF ThreadType, DobotType, IInv

\* A step in which the thread itself stands still.
LEMMA AroundBatch ==
    ASSUME IInv, NEW s \in Threads, BHolds(s), thread'[s] = thread[s], dobot' = dobot,
           failures' = failures, Ran(arm, arm'), arm'.running = arm.running,
           ~arm.running => arm'.outcome = arm.outcome
    PROVE  BHolds(s)'
<1>1. dobot[D(s)] \in DobotType
  BY BatchTypes
<1>2. /\ BatchHolds(thread[s], dobot[D(s)], arm) => BatchHolds(thread[s], dobot[D(s)], arm')
      /\ BatchEnds(thread[s], dobot[D(s)], arm) => BatchEnds(thread[s], dobot[D(s)], arm')
  BY <1>1, RanKeepsBatch
<1> QED  BY <1>2 DEF BHolds, BatchHoldsNow, EndsNow

\* Outside every batch, at a place where nothing is relied on.
LEMMA OutsideHolds ==
    ASSUME NEW s \in Threads, thread'[s].depth = 0, dobot'[D(s)].depth = 0,
           thread'[s].call = "enter" => thread'[s].pc \notin {"clearQueue", "forget", "deepen"},
           thread'[s].call = "exit" =>
              /\ thread'[s].pc \notin {"startQueue", "target", "index", "alarms"}
              /\ thread'[s].pc = "idle" => thread'[s].returned # "ok"
    PROVE  BHolds(s)'
BY DEF BHolds, BatchHoldsNow, EndsNow, BatchHolds, BatchEnds

LEMMA RecordBatch ==
    ASSUME IInv, NEW s \in Threads, SHolds(s), BHolds(s), RecordIndex(s)
    PROVE  BHolds(s)'
<1>1. /\ thread[s].pc = "record" /\ thread[s].call \in {"execute", "queue", "moveTo", "home"}
      /\ arm' = arm /\ failures' = failures /\ thread[s].target # 0
      /\ dobot[D(s)].last \in Nat /\ thread[s].target \in Nat
  BY BatchTypes DEF RecordIndex, At, Fits, SHolds, CallHoldsNow, CallHolds
<1>2. /\ dobot'[D(s)].depth = dobot[D(s)].depth /\ dobot'[D(s)].batch = dobot[D(s)].batch
      /\ dobot'[D(s)].last = LastIndex(s, dobot[D(s)].last)
  BY RecordTouches DEF Touched
<1>3. dobot'[D(s)].last # 0
  BY <1>1, <1>2 DEF LastIndex
<1>4. /\ thread'[s].depth = thread[s].depth /\ thread'[s].call = thread[s].call
      /\ thread'[s].pc = IF thread[s].call = "queue" THEN "idle"
                         ELSE IF thread[s].call = "moveTo" THEN "index" ELSE "mode"
  BY GoMoves, ReturnMoves DEF RecordIndex, Call, IInv, Places, Sending, Moved
<1> QED  BY <1>1, <1>2, <1>3, <1>4 DEF BHolds, BatchHoldsNow, EndsNow, BatchHolds, BatchEnds

LEMMA ModeBatch ==
    ASSUME IInv, NEW s \in Threads, BHolds(s), ReadMode(s)
    PROVE  BHolds(s)'
<1>1. /\ thread[s].pc = "mode" /\ thread[s].call \in {"execute", "home"}
      /\ arm' = arm /\ failures' = failures /\ dobot' = dobot
      /\ dobot[D(s)].depth \in Nat
  BY BatchTypes DEF ReadMode, At, Fits
<1>2. /\ thread'[s].depth = thread[s].depth /\ thread'[s].call = thread[s].call
      /\ thread'[s].pc = IF dobot[D(s)].depth = 0 THEN "index" ELSE "idle"
  BY GoMoves, ReturnMoves DEF ReadMode, IInv, Places, Sending, Moved
<1> QED  BY <1>1, <1>2 DEF BHolds, BatchHoldsNow, EndsNow, BatchHolds, BatchEnds

LEMMA IndexBatch ==
    ASSUME IInv, NEW s \in Threads, BHolds(s), ReadIndex(s)
    PROVE  BHolds(s)'
<1>1. /\ thread[s].pc = "index" /\ arm' = arm /\ failures' = failures /\ dobot' = dobot
      /\ thread[s].call \in {"execute", "moveTo", "home", "idle", "exit"}
      /\ thread[s].depth \in Nat
  BY BatchTypes DEF ReadIndex, At, Fits
<1>2. /\ thread'[s].depth = thread[s].depth /\ thread'[s].call = thread[s].call
      /\ thread'[s].pc \in {"homed", "index", "alarms"}
      /\ thread[s].call = "exit" => thread'[s].pc = "alarms"
  <2>1. CASE thread[s].call = "home"
    BY <1>1, <2>1, GoMoves DEF ReadIndex, Call, IInv, Places, Sending, Moved
  <2>2. CASE thread[s].call # "home"
    BY <1>1, <2>2 DEF ReadIndex, Call, IInv, TypeOK, ThreadType
  <2> QED  BY <2>1, <2>2
<1> QED  BY <1>1, <1>2 DEF BHolds, BatchHoldsNow, EndsNow, BatchHolds, BatchEnds

\* Its wait ends without an alarm: everything in the batch has run.
LEMMA AlarmsBatch ==
    ASSUME IInv, NEW s \in Threads, SHolds(s), BHolds(s), ReadAlarms(s)
    PROVE  BHolds(s)'
<1>1. /\ thread[s].pc = "alarms" /\ arm' = arm /\ failures' = failures /\ dobot' = dobot
      /\ thread[s].call \in {"execute", "moveTo", "idle", "exit"}
      /\ thread[s].depth \in Nat /\ Sound(arm) /\ TypeOK /\ thread[s].target \in Nat
      /\ dobot[D(s)].batch \subseteq Commands
      /\ thread[s].current \in Nat /\ arm.executed \in Nat
  BY BatchTypes, TypedParts DEF ReadAlarms, At, Fits
<1>2. thread[s].depth = 0 /\ dobot[D(s)].depth = 0
  BY <1>1 DEF BHolds, BatchHoldsNow, BatchHolds
<1>3. CASE RaiseAlarm(s)
  <2>1. thread'[s].depth = 0 /\ thread'[s].pc = "discard" /\ thread'[s].call = thread[s].call
    BY <1>1, <1>2, <1>3, GoMoves DEF RaiseAlarm, Places, Sending, Moved
  <2> QED  BY <1>1, <1>2, <2>1, OutsideHolds
<1>4. CASE Return(s, "raised")
  <2>1. thread'[s].depth = 0 /\ thread'[s].pc = "idle" /\ thread'[s].returned = "raised"
    BY <1>1, <1>2, <1>4, ReturnMoves DEF Moved
  <2> QED  BY <1>1, <1>2, <2>1, OutsideHolds
<1>5. CASE Go(s, "index")
  <2>1. thread'[s].depth = 0 /\ thread'[s].pc = "index" /\ thread'[s].call = thread[s].call
    BY <1>1, <1>2, <1>5, GoMoves DEF Places, Sending, Moved
  <2> QED  BY <1>1, <1>2, <2>1 DEF BHolds, BatchHoldsNow, EndsNow, BatchHolds, BatchEnds
<1>6. CASE ~arm.alarm /\ Reached(s, thread[s].current) /\ Return(s, "ok")
  <2>1. thread'[s].depth = 0 /\ thread'[s].pc = "idle" /\ thread'[s].call = thread[s].call
    BY <1>1, <1>2, <1>6, ReturnMoves DEF Moved
  <2>2. thread[s].current <= arm.executed /\ thread[s].current >= thread[s].target
    BY <1>1, <1>6 DEF SHolds, CallHoldsNow, CallHolds, Reached
  <2>3. ASSUME failures = 0  PROVE Queued(arm) = {}
    <3>1. ASSUME NEW c \in Queued(arm)  PROVE FALSE
      <4>1. arm.index[c] <= thread[s].target
        BY <1>1, <2>3 DEF SHolds, LastHolds, NothingBeyond
      <4>2. arm.executed < arm.index[c] /\ arm.index[c] \in Nat
        BY <1>1, QueuedIsAhead
      <4> QED  BY <1>1, <2>2, <4>1, <4>2
    <3> QED  BY <3>1
  <2>4. ASSUME failures = 0, thread[s].call = "exit"
        PROVE  \A c \in dobot[D(s)].batch : arm.outcome[c] = "done"
    <3>1. \A c \in dobot[D(s)].batch :
             /\ arm.outcome[c] \in {"queued", "done", "failed"}
             /\ arm.outcome[c] = "failed" => arm.alarm
      BY <1>1, <2>4 DEF BHolds, EndsNow, BatchEnds
    <3>2. \A c \in Commands : arm.outcome[c] # "queued"
      BY <2>3, <2>4 DEF Queued
    <3>3. ~arm.alarm /\ dobot[D(s)].batch \subseteq Commands
      BY <1>1, <1>6
    <3> QED  BY <3>1, <3>2, <3>3
  <2> QED  BY <1>1, <1>2, <2>1, <2>4 DEF BHolds, BatchHoldsNow, EndsNow, BatchHolds, BatchEnds
<1> QED  BY <1>3, <1>4, <1>5, <1>6 DEF ReadAlarms

LEMMA TargetBatch ==
    ASSUME IInv, NEW s \in Threads, BHolds(s), ReadTarget(s)
    PROVE  BHolds(s)'
<1>1. /\ thread[s].pc = "target" /\ arm' = arm /\ failures' = failures /\ dobot' = dobot
      /\ thread[s].depth \in Nat /\ TypeOK /\ thread[s].call \in {"idle", "exit"}
  BY BatchTypes DEF ReadTarget, At, Fits
<1>2. thread[s].depth = 0 /\ dobot[D(s)].depth = 0
  BY <1>1 DEF BHolds, BatchHoldsNow, BatchHolds
<1>3. /\ thread'[s].depth = 0 /\ thread'[s].call = thread[s].call
      /\ thread'[s].pc = IF dobot[D(s)].last = 0 THEN "idle" ELSE "index"
  <2>1. CASE dobot[D(s)].last = 0
    BY <1>1, <1>2, <2>1, ReturnMoves DEF ReadTarget, Moved
  <2>2. CASE dobot[D(s)].last # 0
    BY <1>1, <1>2, <2>2 DEF ReadTarget, TypeOK, ThreadType
  <2> QED  BY <2>1, <2>2
<1> QED  BY <1>1, <1>2, <1>3 DEF BHolds, BatchHoldsNow, EndsNow, BatchHolds, BatchEnds

\* clear_alarm is the one exchange a batch makes besides its commands: the queue is
\* stopped, and what it holds stays.
LEMMA ClearAlarmBatch ==
    ASSUME IInv, NEW s \in Threads, BHolds(s),
           thread[s].pc \in {"clearAlarm", "confirm"}, thread'[s].pc \in {"confirm", "idle"},
           thread'[s].call = thread[s].call, thread'[s].depth = thread[s].depth,
           arm' \in {arm, AlarmsCleared(arm)},
           dobot'[D(s)].depth = dobot[D(s)].depth, dobot'[D(s)].last = dobot[D(s)].last,
           dobot'[D(s)].batch = dobot[D(s)].batch, failures' = 0 => failures = 0
    PROVE  BHolds(s)'
<1>1. thread[s].call \in {"home", "clearAlarm"} /\ Sound(arm)
  BY BatchTypes DEF Fits
<1>2. arm'.running = arm.running /\ (~arm.running => arm'.outcome = arm.outcome)
  <2>1. /\ AlarmsCleared(arm).running = arm.running
        /\ ~arm.running => AlarmsCleared(arm) = Calm(arm)
        /\ Calm(arm).outcome = arm.outcome
    BY <1>1, AlarmsClearedSound
  <2> QED  BY <2>1
<1>3. ~arm.running => Queued(arm') = Queued(arm)
  BY <1>2 DEF Queued
<1> QED  BY <1>1, <1>2, <1>3 DEF BHolds, BatchHoldsNow, EndsNow, BatchHolds, BatchEnds

LEMMA StepBatch ==
    ASSUME IInv, NEW s \in Threads, SHolds(s), BHolds(s), Continue(s)
    PROVE  BHolds(s)'
<1>0. /\ TypeOK /\ Sound(arm) /\ Fits(thread[s].pc, thread[s].call)
      /\ thread[s].depth \in Nat /\ dobot[D(s)].depth \in Nat /\ thread[s] \in ThreadType
      /\ thread[s].depth = dobot[D(s)].depth
  BY BatchTypes DEF BHolds, BatchHoldsNow, BatchHolds
<1>1. ASSUME thread[s].pc \notin {"idle", "record", "mode", "clearAlarm", "confirm"}
      PROVE  thread[s].depth = 0 /\ dobot[D(s)].depth = 0
  BY <1>0, <1>1 DEF BHolds, BatchHoldsNow, BatchHolds
<1>2. CASE Discard(s)
  <2>1. thread'[s].pc = "forgetAndRaise" /\ thread'[s].depth = thread[s].depth /\ dobot' = dobot
        /\ thread[s].pc = "discard"
    BY <1>0, <1>2, GoMoves DEF Discard, Places, Moved, At
  <2> QED  BY <1>1, <2>1, OutsideHolds
<1>3. CASE ForgetAndRaise(s)
  <2>1. /\ thread'[s].pc = "idle" /\ thread'[s].returned = "raised"
        /\ thread'[s].depth = thread[s].depth /\ thread[s].pc = "forgetAndRaise"
    BY <1>0, <1>3, ReturnMoves DEF ForgetAndRaise, At, Moved
  <2>2. dobot'[D(s)].depth = dobot[D(s)].depth
    BY <1>0, <1>3 DEF ForgetAndRaise, TypeOK, DobotType, D
  <2> QED  BY <1>1, <2>1, <2>2, OutsideHolds
<1>4. CASE Homed(s)
  <2>1. /\ thread'[s].pc \in {"clearAlarm", "idle"} /\ thread'[s].call = "home"
        /\ thread'[s].depth = thread[s].depth /\ dobot' = dobot /\ thread[s].pc = "homed"
    BY <1>0, <1>4, GoMoves, ReturnMoves DEF Homed, At, Moved, Fits, Places, Sending
  <2> QED  BY <1>1, <2>1, OutsideHolds
<1>5. CASE SendClearAlarm(s)
  <2>1. /\ thread[s].pc = "clearAlarm" /\ thread'[s].pc = "confirm"
        /\ thread'[s].call = thread[s].call /\ thread'[s].depth = thread[s].depth
        /\ dobot' = dobot /\ arm' = AlarmsCleared(arm) /\ failures' = failures
    BY <1>0, <1>5, GoMoves DEF SendClearAlarm, At, Moved, Places, Sending
  <2> QED  BY <2>1, ClearAlarmBatch
<1>6. CASE Confirm(s)
  <2>1. /\ thread[s].pc = "confirm" /\ thread[s].call \in {"home", "clearAlarm"}
        /\ thread'[s].pc = "idle" /\ thread'[s].call = thread[s].call
        /\ thread'[s].depth = thread[s].depth
        /\ dobot' = dobot /\ arm' = arm /\ failures' = failures
    BY <1>0, <1>6, ReturnMoves DEF Confirm, At, Moved, Fits
  <2> QED  BY <2>1 DEF BHolds, BatchHoldsNow, EndsNow, BatchHolds, BatchEnds
<1>7. CASE Deepen(s)
  <2>1. /\ thread[s].pc = "deepen" /\ thread[s].call = "enter" /\ arm' = arm
        /\ thread'[s].pc = "idle" /\ thread'[s].call = "enter"
        /\ thread'[s].depth = thread[s].depth + 1
        /\ dobot'[D(s)].depth = dobot[D(s)].depth + 1
        /\ dobot'[D(s)].batch = dobot[D(s)].batch
    BY <1>0, <1>7, DeepenKeeps DEF Deepen, At, Fits
  <2>2. ~arm.running /\ dobot[D(s)].batch = {}
    BY <2>1 DEF BHolds, BatchHoldsNow, BatchHolds
  <2>3. dobot'[D(s)].batch \subseteq Queued(arm)
    BY <2>1, <2>2
  <2> QED  BY <1>0, <2>1, <2>2, <2>3 DEF BHolds, BatchHoldsNow, EndsNow, BatchHolds, BatchEnds
<1>8. CASE SendStop(s)
  <2>1. /\ thread[s].pc = "stopQueue" /\ thread[s].call \in {"enter", "control"}
        /\ thread'[s].pc \in {"clearQueue", "idle"} /\ thread'[s].call = thread[s].call
        /\ thread'[s].depth = thread[s].depth /\ dobot' = dobot /\ failures' = failures
    BY <1>0, <1>8, GoMoves, ReturnMoves DEF SendStop, At, Moved, Fits, Places, Sending
  <2>2. ~arm'.running
    BY <1>0, <1>8, StoppedSound DEF SendStop
  <2> QED  BY <1>1, <2>1, <2>2 DEF BHolds, BatchHoldsNow, EndsNow, BatchHolds, BatchEnds
<1>9. CASE SendClear(s)
  <2>1. /\ thread[s].pc = "clearQueue"
        /\ thread[s].call \in {"enter", "abort", "connect", "clearQueue"}
        /\ thread'[s].pc = "forget" /\ thread'[s].call = thread[s].call
        /\ thread'[s].depth = thread[s].depth /\ dobot' = dobot /\ failures' = failures
    BY <1>0, <1>9, GoMoves DEF SendClear, At, Moved, Fits, Places
  <2>2. arm'.running = arm.running
    BY <1>0, <1>9, ClearedSound DEF SendClear
  <2>3. thread[s].call = "enter" => ~arm.running
    BY <2>1 DEF BHolds, BatchHoldsNow, BatchHolds
  <2> QED  BY <1>1, <2>1, <2>2, <2>3 DEF BHolds, BatchHoldsNow, EndsNow, BatchHolds, BatchEnds
<1>10. CASE Forget(s)
  <2>1. /\ thread[s].pc = "forget" /\ arm' = arm /\ failures' = failures
        /\ thread[s].call \in {"enter", "abort", "connect", "clearQueue"}
        /\ thread'[s].pc \in {"deepen", "startQueue", "idle"}
        /\ thread'[s].call = thread[s].call /\ thread'[s].depth = thread[s].depth
    BY <1>0, <1>10, GoMoves, ReturnMoves DEF Forget, At, Moved, Fits, Places, Sending
  <2>2. /\ dobot'[D(s)].depth = dobot[D(s)].depth
        /\ thread[s].call = "enter" => dobot'[D(s)].batch = {}
    BY <1>10, ForgetTouches DEF Touched, Call
  <2>3. thread[s].call = "enter" => ~arm.running
    BY <2>1 DEF BHolds, BatchHoldsNow, BatchHolds
  <2> QED  BY <1>1, <2>1, <2>2, <2>3 DEF BHolds, BatchHoldsNow, EndsNow, BatchHolds, BatchEnds
<1>11. CASE SendStart(s)
  <2>1. /\ thread[s].pc = "startQueue" /\ thread[s].call \in {"exit", "abort", "connect", "control"}
        /\ thread'[s].pc \in {"target", "idle"} /\ thread'[s].call = thread[s].call
        /\ thread[s].call = "exit" => thread'[s].pc = "target"
        /\ thread'[s].depth = thread[s].depth /\ dobot' = dobot /\ failures' = failures
    BY <1>0, <1>11, GoMoves, ReturnMoves DEF SendStart, At, Moved, Fits, Places, Call
  <2>2. Ran(arm, arm') /\ dobot[D(s)].batch \subseteq Commands
    BY <1>0, <1>11, StartedSound, BatchTypes DEF SendStart
  <2>3. \A c \in dobot[D(s)].batch :
           arm.outcome[c] \in {"queued", "done", "failed"} /\ (arm.outcome[c] = "failed" => arm.alarm) =>
              arm'.outcome[c] \in {"queued", "done", "failed"} /\ (arm'.outcome[c] = "failed" => arm'.alarm)
    BY <2>2 DEF Ran
  <2> QED  BY <1>1, <2>1, <2>3 DEF BHolds, BatchHoldsNow, EndsNow, BatchHolds, BatchEnds
<1> QED  BY <1>2, <1>3, <1>4, <1>5, <1>6, <1>7, <1>8, <1>9, <1>10, <1>11, RecordBatch, ModeBatch,
            IndexBatch, AlarmsBatch, TargetBatch
         DEF Continue

\* A command that is sent in a batch joins it, and is queued.
LEMMA JoinsBatch ==
    ASSUME IInv, NEW s \in Threads, BHolds(s), thread[s].pc = "idle",
           NEW c \in Commands, arm.outcome[c] = "unsent", arm' = Enqueued(arm, c),
           dobot'[D(s)].depth = dobot[D(s)].depth,
           dobot'[D(s)].batch = dobot[D(s)].batch \cup {c},
           thread'[s].depth = thread[s].depth,
           \/ thread'[s].pc = "record" /\ (thread[s].depth > 0 => thread'[s].call # "moveTo")
           \/ thread'[s].pc = "idle" /\ failures' # 0,
           thread'[s].pc = "record" => thread'[s].call \notin {"enter", "exit"}
    PROVE  BHolds(s)'
<1>1. Sound(arm) /\ thread[s].depth \in Nat /\ dobot[D(s)].batch \subseteq Commands
      /\ arm.outcome \in [Commands -> {"unsent", "queued", "done", "failed", "dropped"}]
  BY BatchTypes DEF Sound, ArmType
<1>2. ~arm.running =>
         /\ ~arm'.running
         /\ arm'.outcome = [arm.outcome EXCEPT ![c] = "queued"]
  <2>1. /\ Enqueued(arm, c).running = arm.running
        /\ ~arm.running => Enqueued(arm, c) = Appended(arm, c)
    BY <1>1, EnqueuedSound
  <2>2. Appended(arm, c).outcome = [arm.outcome EXCEPT ![c] = "queued"]
    BY <1>1, AppendedSound
  <2> QED  BY <2>1, <2>2
<1>3. thread[s].depth > 0 => ~arm.running /\ dobot[D(s)].batch \subseteq Queued(arm)
  BY DEF BHolds, BatchHoldsNow, BatchHolds
<1>4. thread[s].depth > 0 => ~arm'.running /\ dobot'[D(s)].batch \subseteq Queued(arm')
  <2>1. ASSUME thread[s].depth > 0, NEW x \in dobot'[D(s)].batch  PROVE x \in Queued(arm')
    BY <1>1, <1>2, <1>3, <2>1 DEF Queued
  <2> QED  BY <1>2, <1>3, <2>1
<1> QED  BY <1>1, <1>4 DEF BHolds, BatchHoldsNow, EndsNow, BatchHolds, BatchEnds

\* A call begins that is not the end of a batch.
LEMMA BeginBatch ==
    ASSUME IInv, NEW s \in Threads, BHolds(s), NEW call \in {"idle", "clearAlarm", "connect"},
           NEW pc \in {"target", "clearAlarm", "clearQueue"}, Begin(s, call, pc),
           pc = "clearAlarm" \/ thread[s].depth = 0, UNCHANGED <<arm, dobot, failures>>
    PROVE  BHolds(s)'
<1>1. call \in Calls /\ pc \in Places /\ TypeOK
  BY DEF Calls, Places, Sending, IInv
<1>2. /\ thread'[s].pc = pc /\ thread'[s].call = call /\ thread'[s].returned = "nothing"
      /\ thread[s].pc = "idle" /\ thread'[s].depth = thread[s].depth
  BY <1>1, BeginMoves DEF Moved
<1> QED  BY <1>2 DEF BHolds, BatchHoldsNow, EndsNow, BatchHolds, BatchEnds

LEMMA EnterBatchHolds ==
    ASSUME IInv, NEW s \in Threads, BHolds(s), EnterBatch(s)
    PROVE  BHolds(s)'
<1>1. /\ thread[s].pc = "idle" /\ arm' = arm /\ failures' = failures
      /\ dobot'[D(s)].last = dobot[D(s)].last /\ dobot'[D(s)].batch = dobot[D(s)].batch
      /\ thread[s].depth \in Nat /\ dobot[D(s)].depth \in Nat /\ thread[s] \in ThreadType
      /\ thread[s].depth = dobot[D(s)].depth
  BY EnterKeeps, BatchTypes DEF EnterBatch, BHolds, BatchHoldsNow, BatchHolds
<1>2. CASE /\ thread'[s].pc = "stopQueue" /\ thread'[s].call = "enter"
           /\ thread'[s].depth = thread[s].depth /\ dobot'[D(s)].depth = dobot[D(s)].depth
           /\ dobot[D(s)].depth = 0
  BY <1>1, <1>2, OutsideHolds
<1>3. CASE /\ thread'[s] = [thread[s] EXCEPT !.depth = @ + 1]
           /\ dobot'[D(s)].depth = dobot[D(s)].depth + 1 /\ dobot[D(s)].depth # 0
  <2>1. /\ thread'[s].pc = thread[s].pc /\ thread'[s].call = thread[s].call
        /\ thread'[s].returned = thread[s].returned /\ thread'[s].depth = thread[s].depth + 1
        /\ thread[s].depth > 0
    BY <1>1, <1>3 DEF ThreadType
  <2> QED  BY <1>1, <1>3, <2>1 DEF BHolds, BatchHoldsNow, EndsNow, BatchHolds, BatchEnds
<1> QED  BY <1>2, <1>3, EnterKeeps

LEMMA LeaveBatchHolds ==
    ASSUME IInv, NEW s \in Threads, BHolds(s), NEW call \in {"exit", "abort"},
           NEW pc \in {"startQueue", "clearQueue"}, Fits(pc, call), LeaveBatch(s, call, pc)
    PROVE  BHolds(s)'
<1>1. /\ thread[s].pc = "idle" /\ arm' = arm /\ failures' = failures /\ thread[s].depth > 0
      /\ dobot'[D(s)].last = dobot[D(s)].last /\ dobot'[D(s)].batch = dobot[D(s)].batch
      /\ dobot'[D(s)].depth = dobot[D(s)].depth - 1
      /\ thread'[s].depth = thread[s].depth - 1
  BY LeaveKeeps DEF LeaveBatch
<1>2. /\ thread[s].depth \in Nat /\ dobot[D(s)].depth \in Nat /\ thread[s] \in ThreadType
      /\ thread[s].depth = dobot[D(s)].depth
      /\ ~arm.running /\ dobot[D(s)].batch \subseteq Queued(arm)
  BY <1>1, BatchTypes DEF BHolds, BatchHoldsNow, BatchHolds
<1>3. CASE thread'[s].pc = pc /\ thread'[s].call = call /\ dobot[D(s)].depth = 1
  <2>1. \A c \in dobot[D(s)].batch : arm.outcome[c] = "queued"
    BY <1>2 DEF Queued
  <2>2. failures = 0 => (dobot[D(s)].last = 0 => dobot[D(s)].batch = {})
    BY <1>1 DEF BHolds, EndsNow, BatchEnds
  <2>3. thread'[s].depth = 0 /\ dobot'[D(s)].depth = 0
    BY <1>1, <1>2, <1>3
  <2> QED  BY <1>1, <1>3, <2>1, <2>2, <2>3
           DEF BHolds, BatchHoldsNow, EndsNow, BatchHolds, BatchEnds, Fits
<1>4. CASE /\ thread'[s] = [thread[s] EXCEPT !.depth = thread[s].depth - 1]
           /\ dobot[D(s)].depth # 1
  <2>1. /\ thread'[s].pc = thread[s].pc /\ thread'[s].call = thread[s].call
        /\ thread'[s].returned = thread[s].returned /\ thread'[s].depth > 0
        /\ thread'[s].depth = dobot'[D(s)].depth
    BY <1>1, <1>2, <1>4 DEF ThreadType
  <2> QED  BY <1>1, <1>2, <2>1 DEF BHolds, BatchHoldsNow, EndsNow, BatchHolds, BatchEnds
<1> QED  BY <1>3, <1>4, LeaveKeeps

LEMMA CallBatch ==
    ASSUME IInv, NEW s \in Threads, BHolds(s), CallAsDocumented(s)
    PROVE  BHolds(s)'
<1>1. ASSUME NEW c \in Commands, NEW call \in Own \cup {"queue"}, Send(s, c, call),
             thread[s].depth > 0 => call # "moveTo"
      PROVE  BHolds(s)'
  <2>1. /\ Moved(s) /\ Touched(s) /\ thread'[s].pc = "record" /\ thread'[s].call = call
        /\ dobot'[D(s)].batch = dobot[D(s)].batch \cup {c}
    BY <1>1, SendKeeps
  <2>2. thread[s].pc = "idle" /\ arm.outcome[c] = "unsent" /\ arm' = Enqueued(arm, c)
    BY <1>1 DEF Send, At
  <2>3. call \notin {"enter", "exit"}
    BY DEF Own
  <2> QED  BY <1>1, <2>1, <2>2, <2>3, JoinsBatch DEF Moved, Touched
<1>2. ASSUME NEW c \in Commands, ExecuteCommand(s, c) \/ QueueCommand(s, c) \/ SetHome(s, c)
      PROVE  BHolds(s)'
  BY <1>1, <1>2 DEF ExecuteCommand, QueueCommand, SetHome, Own
<1>3. ASSUME NEW c \in Commands, thread[s].depth = 0, MoveTo(s, c)
      PROVE  BHolds(s)'
  BY <1>1, <1>3 DEF MoveTo, Own
<1>4. CASE thread[s].depth = 0 /\ WaitIdle(s)
  BY <1>4, BeginBatch DEF WaitIdle
<1>5. CASE ClearAlarm(s)
  BY <1>5, BeginBatch DEF ClearAlarm
<1>6. CASE Connect(s)
  BY <1>6, BeginBatch DEF Connect
<1>7. CASE ExitBatch(s)
  BY <1>7, LeaveBatchHolds DEF ExitBatch, Fits
<1>8. CASE AbortBatch(s)
  BY <1>8, LeaveBatchHolds DEF AbortBatch, Fits
<1> QED  BY <1>2, <1>3, <1>4, <1>5, <1>6, <1>7, <1>8, EnterBatchHolds DEF CallAsDocumented

LEMMA FailBatch ==
    ASSUME IInv, NEW s \in Threads, BHolds(s), Fail(s)
    PROVE  BHolds(s)'
<1>1. CASE ExchangeFails(s)
  <2>1. /\ thread'[s].pc = "idle" /\ thread'[s].call = thread[s].call
        /\ thread'[s].returned = "raised" /\ failures' # 0
        /\ thread'[s].depth = thread[s].depth /\ dobot'[D(s)].depth = dobot[D(s)].depth
        /\ dobot'[D(s)].last = dobot[D(s)].last /\ dobot'[D(s)].batch = dobot[D(s)].batch
        /\ thread[s].pc \in Sending /\ arm' \in {arm, Handled(s)}
    BY <1>1, ExchangeFailsKeeps DEF Moved, Touched, ExchangeFails
  <2>2. CASE thread[s].pc \in {"clearAlarm", "confirm"}
    <3>1. Handled(s) \in {arm, AlarmsCleared(arm)}
      BY <2>2 DEF Handled, At
    <3> QED  BY <2>1, <2>2, <3>1, ClearAlarmBatch
  <2>3. CASE thread[s].pc \notin {"clearAlarm", "confirm"}
    <3>1. thread[s].depth = 0 /\ dobot[D(s)].depth = 0
      <4>1. thread[s].depth \in Nat
        BY BatchTypes
      <4>2. thread[s].pc \notin {"idle", "record", "mode", "clearAlarm", "confirm"}
        BY <2>1, <2>3 DEF Sending
      <4> QED  BY <4>1, <4>2 DEF BHolds, BatchHoldsNow, BatchHolds
    <3> QED  BY <2>1, <3>1, OutsideHolds
  <2> QED  BY <2>2, <2>3
<1>2. ASSUME NEW c \in Commands, SendFails(s, c)
      PROVE  BHolds(s)'
  <2>1. /\ thread'[s].pc = "idle" /\ failures' # 0 /\ Moved(s) /\ Touched(s)
        /\ dobot'[D(s)].batch = dobot[D(s)].batch \cup {c}
    BY <1>2, SendFailsKeeps
  <2>2. thread[s].pc = "idle" /\ arm.outcome[c] = "unsent" /\ arm' = Enqueued(arm, c)
    BY <1>2 DEF SendFails, At
  <2> QED  BY <2>1, <2>2, JoinsBatch DEF Moved, Touched
<1> QED  BY <1>1, <1>2 DEF Fail

LEMMA DocumentedIsDriven ==
    ASSUME NEW s \in Threads, DocumentedNext(s)
    PROVE  DrivenNext(s)
BY DEF DocumentedNext, CallAsDocumented, CallMethod, ControlQueue, SendCommand, StandBy, DrivenNext

LEMMA InitDocumented ==
    ASSUME Init, NEW s \in Threads
    PROVE  DocumentedInv(s)
<1>1. /\ \A t \in Threads : /\ thread[t].pc = "idle" /\ thread[t].depth = 0
                            /\ thread[t].call = "none"
      /\ D(s) \in Dobots
  BY DEF Init, D
<1>2. dobot[D(s)].depth = 0
  BY <1>1 DEF Init
<1> QED  BY <1>1, <1>2 DEF DocumentedInv, BatchHolds, BatchEnds

LEMMA DocumentedKeeps ==
    ASSUME IInv, NEW s \in Threads, DrivenInv(s), DocumentedInv(s), [DocumentedNext(s)]_vars
    PROVE  DocumentedInv(s)'
<1>1. /\ SHolds(s) /\ BHolds(s)
      /\ \A t \in Threads \ {s} : thread[t].pc = "idle" /\ thread[t].depth = 0
  BY DEF DrivenInv, SHolds, CallHoldsNow, LastHolds, DocumentedInv, BHolds, BatchHoldsNow, EndsNow
<1>2. BHolds(s)' /\ (\A u \in Threads \ {s} : thread'[u].pc = "idle" /\ thread'[u].depth = 0) =>
         DocumentedInv(s)'
  BY DEF DocumentedInv, BHolds, BatchHoldsNow, EndsNow
<1>3. CASE Continue(s) \/ CallAsDocumented(s) \/ Fail(s)
  <2>1. BHolds(s)'
    BY <1>1, <1>3, StepBatch, CallBatch, FailBatch
  <2>2. Continue(s) \/ CallMethod(s) \/ ControlQueue(s) \/ Fail(s)
    BY <1>3 DEF CallAsDocumented, CallMethod, ControlQueue, SendCommand
  <2>3. \A u \in Threads \ {s} : thread'[u] = thread[u]
    BY <2>2, OnlyMine
  <2> QED  BY <1>1, <1>2, <2>1, <2>3
<1>4. ASSUME NEW t \in Threads \ {s}, Jog(t)
      PROVE  DocumentedInv(s)'
  <2>1. /\ Moved(t) /\ thread'[t].pc = "idle"
    BY <1>4, BeginMoves DEF Jog, IInv, Calls, Places
  <2>2. \A u \in Threads \ {s} : thread'[u].pc = "idle" /\ thread'[u].depth = 0
    BY <1>1, <2>1 DEF Moved
  <2>3. Sound(arm) /\ arm' \in {Jogged(arm), JogIdle(arm)} /\ dobot' = dobot /\ failures' = failures
    BY <1>4 DEF Jog, IInv
  <2>4. Ran(arm, arm') /\ arm'.running = arm.running /\ arm'.outcome = arm.outcome
    BY <2>3, JogSound
  <2>5. thread'[s] = thread[s]
    BY <2>1 DEF Moved
  <2>6. BHolds(s)'
    BY <1>1, <2>3, <2>4, <2>5, AroundBatch
  <2> QED  BY <1>2, <2>2, <2>6
<1>5. CASE ArmMoves \/ UNCHANGED vars
  <2>1. Sound(arm) /\ thread' = thread /\ dobot' = dobot /\ failures' = failures
    BY <1>5 DEF IInv, ArmMoves, vars
  <2>2. ASSUME Tick  PROVE Ran(arm, arm') /\ arm'.running = arm.running /\ arm.running
    BY <2>1, <2>2, TickSound
  <2>3. Ran(arm, arm)
    BY <2>1, RanSame DEF Sound
  <2>4. /\ Ran(arm, arm') /\ arm'.running = arm.running
        /\ ~arm.running => arm'.outcome = arm.outcome
    BY <1>5, <2>2, <2>3 DEF ArmMoves, vars
  <2>5. BHolds(s)'
    BY <1>1, <2>1, <2>4, AroundBatch
  <2>6. \A u \in Threads \ {s} : thread'[u].pc = "idle" /\ thread'[u].depth = 0
    BY <1>1, <2>1
  <2> QED  BY <1>2, <2>5, <2>6
<1> QED  BY <1>3, <1>4, <1>5 DEF DocumentedNext

LEMMA DocumentedInductive ==
    ASSUME NEW s \in Threads
    PROVE  DocumentedSpec(s) => [](IInv /\ DrivenInv(s) /\ DocumentedInv(s))
<1>1. Init => IInv /\ DrivenInv(s) /\ DocumentedInv(s)
  BY InitHolds, InitDrives, InitDocumented
<1>2. IInv /\ DrivenInv(s) /\ DocumentedInv(s) /\ [DocumentedNext(s)]_vars =>
         IInv' /\ DrivenInv(s)' /\ DocumentedInv(s)'
  BY DrivenKeeps, DocumentedKeeps, DocumentedIsDriven
<1> QED  BY <1>1, <1>2, PTL DEF DocumentedSpec

\* batch() of queue.py: whatever exchanges failed, nothing of a batch starts before its
\* block ends.
THEOREM NothingStartsInABatch ==
    ASSUME NEW s \in Threads
    PROVE  DocumentedSpec(s) => []BatchHeld
<1>1. ASSUME IInv, DocumentedInv(s)  PROVE BatchHeld
  <2>1. ASSUME NEW t \in Threads, thread[t].depth > 0
        PROVE  \A c \in dobot[D(t)].batch : arm.outcome[c] = "queued"
    <3>1. t = s
      BY <1>1, <2>1 DEF DocumentedInv
    <3>2. dobot[D(s)].batch \subseteq Queued(arm)
      BY <1>1, <2>1, <3>1 DEF DocumentedInv, BatchHolds
    <3> QED  BY <3>1, <3>2 DEF Queued
  <2> QED  BY <2>1 DEF BatchHeld
<1>2. IInv /\ DocumentedInv(s) => BatchHeld
  BY <1>1
<1> QED  BY <1>2, DocumentedInductive, PTL

\* The end of a batch, when it returns True: every command of the batch has run, as long as
\* no exchange has failed.
THEOREM BatchesRunWhole ==
    ASSUME NEW s \in Threads
    PROVE  DocumentedSpec(s) => []BatchRuns
<1>1. ASSUME DrivenInv(s), DocumentedInv(s)  PROVE BatchRuns
  <2>1. ASSUME NEW t \in Threads, failures = 0, Returned(t, "ok"), Call(t) = "exit"
        PROVE  \A c \in dobot[D(t)].batch : arm.outcome[c] = "done"
    <3>1. t = s
      BY <1>1, <2>1 DEF DrivenInv, OnlyControls, Call
    <3> QED  BY <1>1, <2>1, <3>1 DEF DocumentedInv, BatchEnds, Returned, At, Call
  <2> QED  BY <2>1 DEF BatchRuns
<1>2. DrivenInv(s) /\ DocumentedInv(s) => BatchRuns
  BY <1>1
<1> QED  BY <1>2, DocumentedInductive, PTL
=============================================================================
