------------------------------- MODULE Driver -------------------------------
(***************************************************************************)
(* The queue protocol of pydobotlab/device.py and queue.py: threads that   *)
(* call the methods of Dobot objects, all of which drive one arm.  A Dobot *)
(* is one program's connection; threads of a program may share it, and     *)
(* scripts and the control panel reach the same arm through the broker.    *)
(*                                                                         *)
(* One action is one exchange with the arm, or one block under a lock of   *)
(* the Dobot.  An exchange may fail: then the caller gets an exception and *)
(* does not know whether the arm got the request.                          *)
(***************************************************************************)
EXTENDS ArmQueue

CONSTANTS
    Threads,      \* the threads that call the methods
    Dobots,       \* the Dobot objects
    DobotOf,      \* the Dobot each thread uses
    None,         \* no command, no thread
    MaxDepth,     \* bound: how deep batches nest
    MaxFailures   \* bound: how many exchanges fail

ASSUME DriverAssumption ==
    /\ DobotOf \in [Threads -> Dobots]
    /\ None \notin Threads \cup Commands
    /\ MaxDepth \in Nat /\ MaxFailures \in Nat

VARIABLES
    thread,   \* of each thread: where it is, and the locals of its call
    dobot,    \* of each Dobot: _last_queued_index and _batch_state
    failures  \* how many exchanges have failed

vars == <<arm, thread, dobot, failures>>

Calls == {"none", "execute", "moveTo", "queue", "home", "idle", "enter", "exit", "abort",
          "clearAlarm", "clearQueue", "connect", "control"}

\* Where a thread is in its call.  The places in Sending wait for the arm.
Sending == {"index", "alarms", "discard", "homed", "clearAlarm", "confirm", "stopQueue",
            "clearQueue", "startQueue"}
Places == Sending \cup {"idle", "record", "mode", "forget", "forgetAndRaise", "deepen", "target"}

ThreadType ==
    [pc : Places, call : Calls,
     command  : Commands \cup {None},   \* the command of the call
     target   : Nat,                    \* index
     current  : Nat,                    \* current, in wait_for
     returned : {"nothing", "ok", "queued", "raised"},
     depth    : Nat]                    \* batches this thread is in

DobotType ==
    [last  : Nat,                       \* _last_queued_index
     depth : Nat,                       \* _batch_state.depth
     lock  : Threads \cup {None},       \* _batch_state.lock
     batch : SUBSET Commands]           \* history: sent since the batch began

TypeOK ==
    /\ arm \in ArmType
    /\ thread \in [Threads -> ThreadType]
    /\ dobot \in [Dobots -> DobotType]
    /\ failures \in 0..MaxFailures

Init ==
    /\ ArmInit
    /\ thread = [t \in Threads |->
                    [pc |-> "idle", call |-> "none", command |-> None, target |-> 0,
                     current |-> 0, returned |-> "nothing", depth |-> 0]]
    /\ dobot = [d \in Dobots |-> [last |-> 0, depth |-> 0, lock |-> None, batch |-> {}]]
    /\ failures = 0

-----------------------------------------------------------------------------
\* Steps of a thread.

D(t) == DobotOf[t]
At(t, pc) == thread[t].pc = pc
Call(t) == thread[t].call

Go(t, pc) == thread' = [thread EXCEPT ![t].pc = pc]

Return(t, result) == thread' = [thread EXCEPT ![t].pc = "idle", ![t].returned = result]

\* A new call: what the last one left behind is gone.
Begin(t, call, pc) ==
    /\ At(t, "idle")
    /\ thread' = [thread EXCEPT ![t] =
                    [@ EXCEPT !.pc = pc, !.call = call, !.command = None, !.target = 0,
                              !.current = 0, !.returned = "nothing"]]

\* Calls that only send: a setting, a move that is waited for, set_home.
\* The reply holds the command's queue index.
Send(t, c, call) ==
    /\ At(t, "idle")
    /\ arm.outcome[c] = "unsent"
    /\ c \in Homings <=> call = "home"
    /\ call = "moveTo" => c \in Moves \cup OutOfReach
    /\ arm' = Enqueued(arm, c)
    /\ thread' = [thread EXCEPT ![t] =
                    [@ EXCEPT !.pc = "record", !.call = call, !.command = c, !.current = 0,
                              !.target = arm.added + 1, !.returned = "nothing"]]
    /\ dobot' = [dobot EXCEPT ![D(t)].batch = @ \cup {c}]
    /\ UNCHANGED failures

\* ptp and the settings, which wait; cp and its settings, which do not; move_to and
\* set_home, which wait in ways of their own.
ExecuteCommand(t, c) == Send(t, c, "execute")
QueueCommand(t, c) == Send(t, c, "queue")
MoveTo(t, c) == Send(t, c, "moveTo")
SetHome(t, c) == Send(t, c, "home")

SendCommand(t, c) ==
    ExecuteCommand(t, c) \/ QueueCommand(t, c) \/ MoveTo(t, c) \/ SetHome(t, c)

\* Wrong: the first index is kept.
FirstIndex(t, last) == IF last = 0 THEN thread[t].target ELSE last

\* Another thread may have recorded a later index already.
LastIndex(t, last) == IF thread[t].target > last THEN thread[t].target ELSE last

RecordIndex(t) ==
    /\ At(t, "record")
    /\ dobot' = [dobot EXCEPT ![D(t)].last = LastIndex(t, @)]
    /\ IF Call(t) = "queue" THEN Return(t, "queued")
       ELSE Go(t, IF Call(t) = "moveTo" THEN "index" ELSE "mode")
    /\ UNCHANGED <<arm, failures>>

\* Inside a batch, whoever opened it, nothing is waited for.
ReadMode(t) ==
    /\ At(t, "mode")
    /\ IF dobot[D(t)].depth = 0 THEN Go(t, "index") ELSE Return(t, "queued")
    /\ UNCHANGED <<arm, dobot, failures>>

-----------------------------------------------------------------------------
\* wait_for.

\* Wrong: a command that is next to run counts as executed.
ReachedTooEarly(t, current) == current + 1 >= thread[t].target

Reached(t, current) == current >= thread[t].target

\* set_home waits without looking at the alarms.
ReadIndex(t) ==
    /\ At(t, "index")
    /\ IF Call(t) = "home"
       THEN Go(t, IF Reached(t, arm.executed) THEN "homed" ELSE "index")
       ELSE thread' = [thread EXCEPT ![t].pc = "alarms", ![t].current = arm.executed]
    /\ UNCHANGED <<arm, dobot, failures>>

\* Wrong: the alarm is raised, and what is queued stays queued.
RaiseOnly(t) == Return(t, "raised")

\* The commands still queued are discarded before the alarm is raised.
RaiseAlarm(t) == Go(t, "discard")

\* Only move_to has a timeout.
ReadAlarms(t) ==
    /\ At(t, "alarms")
    /\ \/ arm.alarm /\ RaiseAlarm(t)
       \/ ~arm.alarm /\ Reached(t, thread[t].current) /\ Return(t, "ok")
       \/ ~arm.alarm /\ ~Reached(t, thread[t].current) /\ Go(t, "index")
       \/ ~arm.alarm /\ ~Reached(t, thread[t].current) /\ Call(t) = "moveTo" /\ Return(t, "raised")
    /\ UNCHANGED <<arm, dobot, failures>>

Discard(t) ==
    /\ At(t, "discard")
    /\ arm' = Cleared(arm)
    /\ Go(t, "forgetAndRaise")
    /\ UNCHANGED <<dobot, failures>>

\* Wrong: the index of a discarded command is remembered.
RaiseRemembering(t) ==
    /\ At(t, "forgetAndRaise")
    /\ Return(t, "raised")
    /\ UNCHANGED <<arm, dobot, failures>>

ForgetAndRaise(t) ==
    /\ At(t, "forgetAndRaise")
    /\ dobot' = [dobot EXCEPT ![D(t)].last = 0]
    /\ Return(t, "raised")
    /\ UNCHANGED <<arm, failures>>

\* wait_idle reads its target once.
WaitIdle(t) ==
    /\ Begin(t, "idle", "target")
    /\ UNCHANGED <<arm, dobot, failures>>

ReadTarget(t) ==
    /\ At(t, "target")
    /\ IF dobot[D(t)].last = 0
       THEN Return(t, "ok")
       ELSE thread' = [thread EXCEPT ![t].pc = "index", ![t].target = dobot[D(t)].last]
    /\ UNCHANGED <<arm, dobot, failures>>

-----------------------------------------------------------------------------
\* Alarms: clear_alarm, and the end of set_home.

\* Wrong: set_home returns when the arm is home, alarm or not.
HomedIsEnough(t) ==
    /\ At(t, "homed")
    /\ Return(t, "ok")
    /\ UNCHANGED <<arm, dobot, failures>>

Homed(t) ==
    /\ At(t, "homed")
    /\ IF arm.alarm THEN Go(t, "clearAlarm") ELSE Return(t, "ok")
    /\ UNCHANGED <<arm, dobot, failures>>

ClearAlarm(t) ==
    /\ Begin(t, "clearAlarm", "clearAlarm")
    /\ UNCHANGED <<arm, dobot, failures>>

SendClearAlarm(t) ==
    /\ At(t, "clearAlarm")
    /\ arm' = AlarmsCleared(arm)
    /\ Go(t, "confirm")
    /\ UNCHANGED <<dobot, failures>>

\* After the settling time an alarm that is back is raised.
Confirm(t) ==
    /\ At(t, "confirm")
    /\ Return(t, IF arm.alarm THEN "raised" ELSE "ok")
    /\ UNCHANGED <<arm, dobot, failures>>

-----------------------------------------------------------------------------
\* Batches, connections and the raw queue control.

LockFree(t) == dobot[D(t)].lock = None

\* The batch lock is held until the depth is counted.
EnterBatch(t) ==
    /\ LockFree(t)
    /\ thread[t].depth < MaxDepth
    /\ IF dobot[D(t)].depth = 0
       THEN /\ Begin(t, "enter", "stopQueue")
            /\ dobot' = [dobot EXCEPT ![D(t)].lock = t]
       ELSE /\ At(t, "idle")
            /\ thread' = [thread EXCEPT ![t].depth = @ + 1]
            /\ dobot' = [dobot EXCEPT ![D(t)].depth = @ + 1]
    /\ UNCHANGED <<arm, failures>>

Deepen(t) ==
    /\ At(t, "deepen")
    /\ thread' = [thread EXCEPT ![t].pc = "idle", ![t].returned = "ok", ![t].depth = @ + 1]
    /\ dobot' = [dobot EXCEPT ![D(t)].lock = None, ![D(t)].depth = @ + 1]
    /\ UNCHANGED <<arm, failures>>

\* Wrong: the end of an inner batch starts the queue.
AnyBatch(t) == TRUE

OutermostBatch(t) == dobot[D(t)].depth = 1

\* Wrong: an exception that leaves the block counts down twice.
LeaveBatchTwice(t, call, pc) ==
    /\ At(t, "idle")
    /\ LockFree(t)
    /\ thread[t].depth > 0
    /\ thread' = [thread EXCEPT ![t].depth = @ - 1, ![t].pc = pc, ![t].call = call]
    /\ dobot' = [dobot EXCEPT ![D(t)].depth = IF call = "abort" THEN @ - 2 ELSE @ - 1]
    /\ UNCHANGED <<arm, failures>>

\* The block ends, or an exception leaves it; only the outermost end acts.
LeaveBatch(t, call, pc) ==
    /\ At(t, "idle")
    /\ LockFree(t)
    /\ thread[t].depth > 0
    /\ thread' = [thread EXCEPT ![t] =
                    IF OutermostBatch(t)
                    THEN [@ EXCEPT !.pc = pc, !.call = call, !.command = None, !.target = 0,
                                   !.current = 0, !.returned = "nothing",
                                   !.depth = thread[t].depth - 1]
                    ELSE [@ EXCEPT !.depth = thread[t].depth - 1]]
    /\ dobot' = [dobot EXCEPT ![D(t)].depth = @ - 1]
    /\ UNCHANGED <<arm, failures>>

ExitBatch(t) == LeaveBatch(t, "exit", "startQueue")
AbortBatch(t) == LeaveBatch(t, "abort", "clearQueue")

\* connect() and disconnect() with auto_start_queue: clear, then start.
Connect(t) ==
    /\ thread[t].depth = 0
    /\ Begin(t, "connect", "clearQueue")
    /\ UNCHANGED <<arm, dobot, failures>>

ClearQueue(t) ==
    /\ Begin(t, "clearQueue", "clearQueue")
    /\ UNCHANGED <<arm, dobot, failures>>

StartQueue(t) ==
    /\ Begin(t, "control", "startQueue")
    /\ UNCHANGED <<arm, dobot, failures>>

StopQueue(t) ==
    /\ Begin(t, "control", "stopQueue")
    /\ UNCHANGED <<arm, dobot, failures>>

\* One exchange, and nothing after it.
ForceStopQueue(t) ==
    /\ Begin(t, "control", "idle")
    /\ arm' = ForceStopped(arm)
    /\ UNCHANGED <<dobot, failures>>

Jog(t) ==
    /\ Begin(t, "control", "idle")
    /\ arm' \in {Jogged(arm), JogIdle(arm)}
    /\ UNCHANGED <<dobot, failures>>

SendStop(t) ==
    /\ At(t, "stopQueue")
    /\ arm' = QueueStopped(arm)
    /\ IF Call(t) = "enter" THEN Go(t, "clearQueue") ELSE Return(t, "ok")
    /\ UNCHANGED <<dobot, failures>>

SendClear(t) ==
    /\ At(t, "clearQueue")
    /\ arm' = Cleared(arm)
    /\ Go(t, "forget")
    /\ UNCHANGED <<dobot, failures>>

\* The second half of clear_queue, and what its caller does next.
Forget(t) ==
    /\ At(t, "forget")
    /\ dobot' = [dobot EXCEPT ![D(t)].last = 0,
                              ![D(t)].batch = IF Call(t) = "enter" THEN {} ELSE @]
    /\ CASE Call(t) = "enter" -> Go(t, "deepen")
         [] Call(t) \in {"abort", "connect"} -> Go(t, "startQueue")
         [] OTHER -> Return(t, "ok")
    /\ UNCHANGED <<arm, failures>>

SendStart(t) ==
    /\ At(t, "startQueue")
    /\ arm' = QueueStarted(arm)
    /\ CASE Call(t) = "exit" -> Go(t, "target")
         [] Call(t) = "abort" -> Return(t, "raised")
         [] OTHER -> Return(t, "ok")
    /\ UNCHANGED <<dobot, failures>>

-----------------------------------------------------------------------------
\* Exchanges that fail: a timeout, a broken link.

\* What the arm has made of the request if it got it.
Handled(t) ==
    CASE At(t, "clearAlarm") -> AlarmsCleared(arm)
      [] At(t, "stopQueue") -> QueueStopped(arm)
      [] thread[t].pc \in {"clearQueue", "discard"} -> Cleared(arm)
      [] At(t, "startQueue") -> QueueStarted(arm)
      [] OTHER -> arm

\* The exception leaves the call, and the batch lock with it.  wait_for
\* raises the alarm even when it could not discard the commands.
ExchangeFails(t) ==
    /\ thread[t].pc \in Sending
    /\ failures < MaxFailures
    /\ failures' = failures + 1
    /\ arm' \in {arm, Handled(t)}
    /\ dobot' = [dobot EXCEPT ![D(t)].lock = IF @ = t THEN None ELSE @]
    /\ Return(t, "raised")

\* The same for the exchange that sends a command: it may be queued or not.
SendFails(t, c) ==
    /\ At(t, "idle")
    /\ arm.outcome[c] = "unsent"
    /\ failures < MaxFailures
    /\ failures' = failures + 1
    /\ arm' = Enqueued(arm, c)
    /\ dobot' = [dobot EXCEPT ![D(t)].batch = @ \cup {c}]
    /\ Return(t, "raised")

-----------------------------------------------------------------------------
\* A call in progress.
Continue(t) ==
    \/ RecordIndex(t)
    \/ ReadMode(t)
    \/ ReadIndex(t)
    \/ ReadAlarms(t)
    \/ Discard(t)
    \/ ForgetAndRaise(t)
    \/ ReadTarget(t)
    \/ Homed(t)
    \/ SendClearAlarm(t)
    \/ Confirm(t)
    \/ Deepen(t)
    \/ SendStop(t)
    \/ SendClear(t)
    \/ Forget(t)
    \/ SendStart(t)

\* A new call of the API that moves the arm or waits for it.
CallMethod(t) ==
    \/ \E c \in Commands : SendCommand(t, c)
    \/ WaitIdle(t)
    \/ ClearAlarm(t)
    \/ EnterBatch(t)
    \/ ExitBatch(t)
    \/ AbortBatch(t)

\* A new call that controls the queue itself.
ControlQueue(t) ==
    \/ Connect(t)
    \/ ClearQueue(t)
    \/ StartQueue(t)
    \/ StopQueue(t)
    \/ ForceStopQueue(t)
    \/ Jog(t)

Fail(t) == ExchangeFails(t) \/ \E c \in Commands : SendFails(t, c)

ArmMoves == Tick /\ UNCHANGED <<thread, dobot, failures>>

Next ==
    \/ \E t \in Threads : Continue(t) \/ CallMethod(t) \/ ControlQueue(t) \/ Fail(t)
    \/ ArmMoves

Spec == Init /\ [][Next]_vars

-----------------------------------------------------------------------------
\* Two ways to use the arm that promise more.

\* One thread drives; the others, such as the panel that opens, reconnects and jogs,
\* start and stop the queue.
StandBy(t) ==
    \/ Continue(t) \/ ExchangeFails(t)
    \/ StartQueue(t) \/ StopQueue(t) \/ Jog(t)

DrivenNext(s) ==
    \/ Continue(s) \/ CallMethod(s) \/ ControlQueue(s) \/ Fail(s)
    \/ \E t \in Threads \ {s} : StandBy(t)
    \/ ArmMoves

DrivenSpec(s) == Init /\ [][DrivenNext(s)]_vars

\* The calls of a program that keeps to docs/api/queue.md: it leaves the queue to the
\* batches, and inside one it does not wait, since nothing that waits would return there.
CallAsDocumented(t) ==
    \/ \E c \in Commands : ExecuteCommand(t, c) \/ QueueCommand(t, c) \/ SetHome(t, c)
    \/ thread[t].depth = 0 /\ \E c \in Commands : MoveTo(t, c)
    \/ thread[t].depth = 0 /\ WaitIdle(t)
    \/ ClearAlarm(t) \/ EnterBatch(t) \/ ExitBatch(t) \/ AbortBatch(t) \/ Connect(t)

DocumentedNext(s) ==
    \/ Continue(s) \/ CallAsDocumented(s) \/ Fail(s)
    \/ \E t \in Threads \ {s} : Jog(t)
    \/ ArmMoves

DocumentedSpec(s) == Init /\ [][DocumentedNext(s)]_vars

-----------------------------------------------------------------------------
\* Threads run, and the motion loop ends every command that may run.
Fairness ==
    /\ \A t \in Threads : WF_vars(Continue(t))
    /\ WF_vars(TickEnds /\ UNCHANGED <<thread, dobot, failures>>)

-----------------------------------------------------------------------------
\* Properties.

\* The last call of thread t has returned like this.
Returned(t, result) == At(t, "idle") /\ thread[t].returned = result

\* docs/api/motion.md: a command that is waited for returns True once the arm
\* has executed it.  It was neither discarded nor refused by the arm: the
\* index is read before the alarms, so the alarm of a command that ended in
\* between is not missed.
OkMeansDone ==
    \A t \in Threads :
        (Returned(t, "ok") /\ Call(t) \in {"execute", "moveTo"}) =>
            arm.outcome[thread[t].command] = "done"

\* set_home works during an alarm too: when it returns True the arm has homed
\* and no alarm is left.
HomeEndsAlarm ==
    \A t \in Threads :
        (Returned(t, "ok") /\ Call(t) = "home") =>
            arm.outcome[thread[t].command] = "done" /\ ~arm.alarm

\* wait_idle, and the end of a batch, return when nothing is left in the queue,
\* although only one index is remembered, and reset by every clear_queue.  Once an
\* exchange has failed, a command may be in the queue without anyone knowing its index.
IdleMeansDone ==
    \A t \in Threads :
        (failures = 0 /\ Returned(t, "ok") /\ Call(t) \in {"idle", "exit"}) =>
            \A c \in Commands : arm.outcome[c] # "queued"

\* A batch that ends without an exception has run every one of its commands, as long
\* as no exchange has failed.
BatchRuns ==
    \A t \in Threads :
        (failures = 0 /\ Returned(t, "ok") /\ Call(t) = "exit") =>
            \A c \in dobot[D(t)].batch : arm.outcome[c] = "done"

\* queue.py: inside a batch commands are only queued.  Nothing starts before the
\* block ends, whatever the block does about alarms, homing or inner batches.
BatchHeld ==
    \A t \in Threads :
        thread[t].depth > 0 => \A c \in dobot[D(t)].batch : arm.outcome[c] = "queued"

\* wait_for: commands still queued when an alarm is raised are discarded, so
\* that clearing the alarm does not resume them, unless the discarding fails.
AlarmDiscards ==
    \A t \in Threads :
        (failures = 0 /\ Returned(t, "raised") /\ Call(t) \in {"execute", "idle", "exit"}) =>
            arm.queue = <<>>

\* A thread waits in one of these calls, outside every batch.
Waits(t, calls) == ~At(t, "idle") /\ Call(t) \in calls /\ thread[t].depth = 0

\* No call waits for a command the arm does not have any more: the alarms are
\* looked at in every round, and the indexes of the arm and of the Dobot are
\* reset together.
CallsReturn == \A t \in Threads : Waits(t, Calls \ {"home"}) ~> At(t, "idle")

-----------------------------------------------------------------------------
\* What device.py says of set_home and the code does not do.

\* device.py: set_home works also during an alarm.  It waits forever behind a
\* queued command that the alarm holds back.
HomeReturns == \A t \in Threads : Waits(t, {"home"}) ~> At(t, "idle")
=============================================================================
