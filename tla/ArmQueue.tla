------------------------------ MODULE ArmQueue ------------------------------
(***************************************************************************)
(* The command queue of one arm: FakeDobot of pydobotlab/simulator.py.     *)
(*                                                                         *)
(* Every frame handler runs under the arm's lock and answers with the      *)
(* state it has left, so a handler is a function from the state of the arm *)
(* to its next state.  The motion loop is the action Tick.  Positions are  *)
(* left out: a command is told apart only by how it leaves the queue.      *)
(***************************************************************************)
EXTENDS Naturals, Sequences, FiniteSets

CONSTANTS
    Moves,       \* moves and waits: they stay at the head until a tick ends them
    OutOfReach,  \* moves to a target no joint angles reach
    Settings,    \* queued settings: done when they come to the head
    Homings      \* homing moves: they run during an alarm too

Commands == Moves \cup OutOfReach \cup Settings \cup Homings

ASSUME CommandsAssumption ==
    /\ Moves \cap OutOfReach = {} /\ Moves \cap Settings = {} /\ Moves \cap Homings = {}
    /\ OutOfReach \cap Settings = {} /\ OutOfReach \cap Homings = {}
    /\ Settings \cap Homings = {}

VARIABLE arm

\* outcome is history: what has become of each command.
ArmType ==
    [queue    : Seq(Commands),          \* _queue
     index    : [Commands -> Nat],      \* queue_index
     running  : BOOLEAN,                \* _queue_running
     jogging  : BOOLEAN,                \* _jog
     alarm    : BOOLEAN,                \* any(_alarms)
     started  : BOOLEAN,                \* the head has its waypoints
     added    : Nat,                    \* _queue_added
     executed : Nat,                    \* _queue_executed
     outcome  : [Commands -> {"unsent", "queued", "done", "failed", "dropped"}]]

ArmInit ==
    arm = [queue |-> <<>>, index |-> [c \in Commands |-> 0], running |-> TRUE,
           jogging |-> FALSE, alarm |-> FALSE, started |-> FALSE, added |-> 0,
           executed |-> 0, outcome |-> [c \in Commands |-> "unsent"]]

-----------------------------------------------------------------------------
\* The queue.

CanRun(a) ==
    /\ a.queue # <<>>
    /\ a.running
    /\ ~a.jogging
    /\ ~a.alarm \/ Head(a.queue) \in Homings

\* The places at the front whose commands take no time and run now, one after
\* the other; the first move out of reach sets the alarm and ends the run.
RunsAtOnce(a) ==
    {i \in DOMAIN a.queue :
        /\ CanRun(a) /\ ~a.alarm
        /\ a.queue[i] \in Settings \cup OutOfReach
        /\ \A j \in 1..(i - 1) : a.queue[j] \in Settings}

\* advance_queue: what takes no time runs and leaves, then the head starts.
Advance(a) ==
    LET n == Cardinality(RunsAtOnce(a))
        ran == {a.queue[i] : i \in RunsAtOnce(a)}
        b == [a EXCEPT
                !.queue = SubSeq(@, n + 1, Len(@)),
                !.executed = IF n = 0 THEN @ ELSE a.index[a.queue[n]],
                !.alarm = @ \/ ran \cap OutOfReach # {},
                !.outcome = [c \in Commands |->
                    CASE c \in ran \cap Settings -> "done"
                      [] c \in ran \cap OutOfReach -> "failed"
                      [] OTHER -> @[c]]]
    IN [b EXCEPT !.started = @ \/ CanRun(b)]

\* The command in progress ends.
Retire(a) ==
    [a EXCEPT !.queue = Tail(@), !.executed = a.index[Head(a.queue)], !.started = FALSE,
              !.outcome[Head(a.queue)] = "done"]

\* Commands that never run.
Dropped(a, cs) == [c \in Commands |-> IF c \in cs THEN "dropped" ELSE a.outcome[c]]

-----------------------------------------------------------------------------
\* The frame handlers.

Enqueued(a, c) ==
    Advance([a EXCEPT !.added = @ + 1, !.index[c] = a.added + 1, !.queue = Append(@, c),
                      !.outcome[c] = "queued"])

QueueStarted(a) == Advance([a EXCEPT !.running = TRUE])

QueueStopped(a) == [a EXCEPT !.running = FALSE]

\* The command in progress is abandoned; no index counts it as executed.
ForceStopped(a) ==
    IF a.started
    THEN [a EXCEPT !.running = FALSE, !.queue = Tail(@), !.started = FALSE,
                   !.outcome = Dropped(a, {Head(a.queue)})]
    ELSE QueueStopped(a)

\* Both indexes start again from zero.
Cleared(a) ==
    [a EXCEPT !.queue = <<>>, !.added = 0, !.executed = 0, !.started = FALSE,
              !.outcome = Dropped(a, {a.queue[i] : i \in DOMAIN a.queue})]

AlarmsCleared(a) == Advance([a EXCEPT !.alarm = FALSE])

Jogged(a) == [a EXCEPT !.jogging = TRUE]

\* The queue goes on at the next tick.
JogIdle(a) == [a EXCEPT !.jogging = FALSE]

-----------------------------------------------------------------------------
\* The motion loop: a tick starts what can run, and may end the command in
\* progress.
TickStarts == arm' = Advance(arm) /\ arm' # arm

TickEnds ==
    /\ CanRun(Advance(arm))
    /\ arm' = Advance(Retire(Advance(arm)))

Tick == TickStarts \/ TickEnds
=============================================================================
