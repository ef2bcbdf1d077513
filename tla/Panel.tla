------------------------------- MODULE Panel -------------------------------
(* A control panel window: panel.py ControlPanel with its home and move      *)
(* workers, the jog pads of widgets.py, and the pose stream of device.py     *)
(* with the PoseStreamer that reports its alarms.                            *)
(*                                                                          *)
(* Slots run one after the other in the GUI thread: each is one action, with *)
(* the failures of its exchanges with the arm as choices. The pose stream    *)
(* and the workers are threads; what they emit waits in posted, or as the    *)
(* result of a worker, until the GUI thread takes it.                        *)
EXTENDS Naturals, Sequences, FiniteSets

CONSTANTS
    Streams,            \* pose-stream threads
    None,
    WatchdogFailures,   \* configuration: panel.watchdog_failures
    Flaps,              \* a cleared alarm may be back before the stream's next check
    MaxFaults, MaxPosted

ASSUME PanelAssumption ==
    /\ Streams # {} /\ IsFiniteSet(Streams) /\ None \notin BOOLEAN
    /\ WatchdogFailures \in Nat \ {0} /\ Flaps \in BOOLEAN
    /\ MaxFaults \in Nat /\ MaxPosted \in Nat \ {0}

VARIABLES
    answering, alarm, moving,   \* the arm: it answers, has an alarm, is jogging
    link,           \* bot.is_open, and whether the broker's serial line is alive
    window,         \* "connecting", "shown" or "closed"
    connected, label, failedChecks,     \* _connected, the indicator, _failed_checks
    enabled, entry,                     \* the controls; the pose values
    pressed, jogging,           \* a jog segment is held; _jogging
    told,           \* history: what the slot in which this jog's stop failed left to read
    banner, alarmActive,        \* the alarm area; _alarm_active
    home, move,                 \* the workers, up to the slot that ends them
    stream, last,               \* each pose-stream thread, and its _last_alarms
    posted,                     \* alarmsChanged signals not delivered yet
    faults

armVars == <<answering, alarm>>
shownVars == <<connected, label, banner, enabled, entry, stream, last>>
jogVars == <<pressed, jogging, told, moving>>
workers == <<home, move>>
signals == <<posted, alarmActive>>
linkVars == <<link, failedChecks, faults>>
vars == <<armVars, shownVars, jogVars, workers, signals, linkVars, window>>

Init ==
    /\ answering \in BOOLEAN /\ alarm \in BOOLEAN /\ moving = FALSE
    /\ link = "closed" /\ window = "connecting"
    /\ connected = FALSE /\ label = "Connected" /\ failedChecks = 0
    /\ enabled = TRUE /\ entry = TRUE
    /\ pressed = FALSE /\ jogging = FALSE /\ told = "nothing"
    /\ banner = "unknown" /\ alarmActive = FALSE
    /\ home = "none" /\ move = "none"
    /\ stream = [s \in Streams |-> "none"] /\ last = [s \in Streams |-> None]
    /\ posted = <<>> /\ faults = 0

Fault == faults < MaxFaults /\ faults' = faults + 1
Reaches == link = "open" /\ answering

-----------------------------------------------------------------------------
(* The pose stream                                                          *)

\* start_pose_stream with a new PoseStreamer, whose first check always reports.
LastKept(s) == last
LastForgotten(s) == [last EXCEPT ![s] = None]

StartStream ==
    \E s \in Streams :
        /\ stream[s] = "none"
        /\ stream' = [stream EXCEPT ![s] = "on"]
        /\ last' = LastForgotten(s)

\* stop_pose_stream waits one second: a thread that is waiting for the arm by
\* then goes on ("leaving") until its read ends, and sees its own event set.
EventCleared == {"none", "on"}
StoppedStates == {"none", "leaving"}

StopStream ==
    /\ UNCHANGED last
    /\ IF \E s \in Streams : stream[s] = "on"
       THEN \E s \in Streams, to \in StoppedStates :
               stream[s] = "on" /\ stream' = [stream EXCEPT ![s] = to]
       ELSE UNCHANGED stream

\* PoseStreamer.push: reads the alarms, and reports them when they changed.
Sample(s) ==
    /\ stream[s] # "none" /\ Reaches /\ Len(posted) < MaxPosted
    /\ last' = [last EXCEPT ![s] = alarm]
    /\ posted' = IF last[s] = alarm THEN posted ELSE Append(posted, alarm)
    /\ stream' = [stream EXCEPT ![s] = IF @ = "leaving" THEN "none" ELSE "on"]
    /\ UNCHANGED <<armVars, connected, label, banner, enabled, entry, jogVars, workers,
                   alarmActive, linkVars, window>>

\* A thread that was told to stop ends when its read fails, too.
StreamEnds(s) ==
    /\ stream[s] = "leaving"
    /\ stream' = [stream EXCEPT ![s] = "none"]
    /\ UNCHANGED <<armVars, connected, label, banner, enabled, entry, last, jogVars, workers,
                   signals, linkVars, window>>

-----------------------------------------------------------------------------
(* Jogging, and the state of the connection                                 *)

\* jog_stop(), with its retry; when both fail the panel shows "STOP FAILED" in the
\* status bar, where the rest of the slot may write something else over it: says is
\* what stands there when the slot ends.
StopSent(says) ==
    \/ link' = "open" /\ answering /\ moving' = FALSE /\ UNCHANGED told
    \/ moving' \in {moving, FALSE} /\ told' = says

\* JogPad.release_pressed_segment and stop_jog.
ReleaseSegment(says) ==
    /\ pressed' = FALSE
    /\ jogging' = (jogging /\ ~pressed)
    /\ IF pressed /\ jogging THEN StopSent(says) ELSE UNCHANGED <<moving, told>>

\* JogPad.changeEvent: a pad that is disabled while pressed gets no release. Both
\* slots that disable the pads go on to a message of their own: that the arm does
\* not respond, or that it homes.
PadsDisabled == ReleaseSegment("other")

\* set_controls_enabled, with homing taken into account by its callers.
SetControls(on) == enabled' = on /\ entry' = (on /\ move' = "none")

HomingForgotten == TRUE
NotHoming == home' = "none"

\* set_connection_state; on and typing are the controls' states before it.
SetState(c, on, typing) ==
    IF c = connected
    THEN /\ enabled' = on /\ entry' = typing
         /\ UNCHANGED <<connected, label, banner, stream, last, jogVars>>
    ELSE /\ connected' = c
         /\ label' = IF c THEN "Connected" ELSE "Disconnected"
         /\ SetControls(c /\ NotHoming)
         /\ IF c THEN StartStream /\ UNCHANGED <<banner, jogVars>>
                 ELSE banner' = "unknown" /\ StopStream /\ PadsDisabled

\* An exchange that fails. The arm or the serial line may be the reason; the
\* broker that answers too late is another, and makes the client hang up.
NoReply(l) == IF ~Reaches /\ l = link THEN UNCHANGED faults ELSE Fault
Lost == \E l \in {link, "closed"} : NoReply(l) /\ link' = l
Kept == UNCHANGED <<link, faults>>

\* arm_responds: the arm answers, or does not, or the connection is not open.
NotShown(on, typing) == SetState(connected, on, typing)
ShowAnswer(on, typing) == SetState(TRUE, on, typing)

Answers(on, typing) ==
    /\ Reaches /\ failedChecks' = 0 /\ Kept
    /\ ShowAnswer(on, typing)

Counted == IF failedChecks < WatchdogFailures THEN failedChecks + 1 ELSE failedChecks

TimeoutNotCaught(on, typing) ==
    /\ link # "closed" /\ ~Reaches /\ enabled' = on /\ entry' = typing
    /\ UNCHANGED <<linkVars, connected, label, banner, stream, last, jogVars>>

Fails(on, typing) ==
    /\ link # "closed"
    /\ failedChecks' = Counted
    /\ \E l \in {link, "closed"} :
          NoReply(l) /\ link' = IF Counted >= WatchdogFailures THEN "closed" ELSE l
    /\ SetState(FALSE, on, typing)

NotOpen(on, typing) ==
    /\ link = "closed" /\ enabled' = on /\ entry' = typing
    /\ UNCHANGED <<linkVars, connected, label, banner, stream, last, jogVars>>

ArmResponds(on, typing) ==
    Answers(on, typing) \/ Fails(on, typing) \/ NotOpen(on, typing)

-----------------------------------------------------------------------------
(* Slots                                                                    *)

\* connect_to_arm. When it fails, the window closes itself before anybody can
\* hear of it, and the hub shows it all the same.
ConnectToArm ==
    /\ window = "connecting"
    /\ UNCHANGED <<armVars, workers, signals, failedChecks, faults>>
    /\ \/ /\ answering /\ link' = "open" /\ window' = "shown"
          /\ SetState(TRUE, enabled, entry)
       \/ /\ link' = "closed" /\ window' = "failed"
          /\ UNCHANGED <<shownVars, jogVars>>

\* check_connection, the watchdog's, and report_stream_error.
CheckConnection ==
    /\ window = "shown"
    /\ UNCHANGED <<armVars, workers, signals, window>>
    /\ ArmResponds(enabled, entry)

\* reconnect. The port may open while the arm does not answer.
Reconnect ==
    /\ window = "shown" /\ label = "Disconnected"
    /\ UNCHANGED <<armVars, workers, signals, window>>
    /\ \/ /\ answering /\ link' = "open" /\ failedChecks' = 0 /\ UNCHANGED faults
          /\ SetState(TRUE, enabled, entry)
       \/ /\ link' \in {"open", "closed"} /\ UNCHANGED <<shownVars, jogVars, failedChecks>>
          /\ IF answering THEN Fault ELSE UNCHANGED faults

Ended == {"ok", "failed"}

\* A slot of a control goes on when the arm answers, and does nothing otherwise.
Proceeds == Reaches /\ connected /\ failedChecks' = 0
Refused ==
    /\ UNCHANGED <<armVars, workers, signals, window>>
    /\ Fails(enabled, entry) \/ NotOpen(enabled, entry)
OnScreen == window \in {"shown", "failed"}
Usable == OnScreen /\ enabled

\* set_end_effector and apply_jump_params: one write.
SendCommand ==
    /\ Usable
    /\ \/ /\ Proceeds /\ (Kept \/ Lost)
          /\ UNCHANGED <<armVars, shownVars, jogVars, workers, signals, window>>
       \/ Refused

\* mousePressEvent and start_jog. A jog whose reply is lost may be running. A press
\* that the arm does not answer moves nothing, and its release changes nothing.
JoggingSetLast(sent) == sent
JoggingSetFirst(sent) == TRUE

Press ==
    /\ Usable /\ ~pressed
    /\ \/ /\ Proceeds /\ pressed' = TRUE
          /\ told' = "nothing"
          /\ \/ Kept /\ moving' = TRUE /\ jogging' = JoggingSetFirst(TRUE)
             \/ Lost /\ moving' \in BOOLEAN /\ jogging' = JoggingSetFirst(FALSE)
          /\ UNCHANGED <<armVars, shownVars, workers, signals, window>>
       \/ Refused

\* mouseReleaseEvent and stop_jog.
Release ==
    /\ OnScreen /\ pressed
    /\ UNCHANGED <<armVars, shownVars, workers, signals, linkVars, window>>
    /\ ReleaseSegment("stop failed")

StartHoming ==
    /\ Usable /\ home # "running"
    /\ \/ /\ Proceeds /\ Kept
          /\ home' = "running" /\ UNCHANGED <<armVars, move>>
          /\ SetControls(FALSE) /\ PadsDisabled
          /\ UNCHANGED <<connected, label, banner, stream, last, signals, window>>
       \/ Refused

FinishHoming ==
    /\ home \in Ended /\ home' = "none"
    /\ UNCHANGED <<armVars, move, signals, window>>
    /\ \/ /\ home = "ok"
          /\ SetControls(connected)
          /\ UNCHANGED <<connected, label, banner, stream, last, jogVars, linkVars>>
       \/ home = "failed" /\ ArmResponds(connected, connected /\ move = "none")

StartMove ==
    /\ OnScreen /\ entry /\ move = "none"
    /\ \/ /\ Proceeds /\ Kept
          /\ move' = "running" /\ entry' = FALSE
          /\ UNCHANGED <<armVars, connected, label, banner, enabled, stream, last, jogVars, home,
                         signals, window>>
       \/ Refused

EntryAllowed == connected /\ home = "none"

FinishMove ==
    /\ move \in Ended /\ move' = "none"
    /\ UNCHANGED <<armVars, home, signals, window>>
    /\ \/ /\ move = "ok" /\ entry' = EntryAllowed
          /\ UNCHANGED <<connected, label, banner, enabled, stream, last, jogVars, linkVars>>
       \/ move = "failed" /\ ArmResponds(enabled, EntryAllowed)

\* clear_alarms says "No alarms" itself, unless an alarm is back at once.
ClearAlarms ==
    /\ Usable
    /\ \/ /\ Proceeds
          /\ \/ Kept /\ alarm' = FALSE /\ banner' = "clear"
             \/ Kept /\ alarm /\ UNCHANGED <<alarm, banner>>
             \/ Lost /\ alarm' \in {alarm, FALSE} /\ UNCHANGED banner
          /\ UNCHANGED <<answering, connected, label, enabled, entry, stream, last, jogVars,
                         workers, signals, window>>
       \/ Refused

\* update_alarms: a jog that runs when an alarm appears is stopped.
UpdateAlarms ==
    /\ posted # <<>>
    /\ posted' = Tail(posted) /\ alarmActive' = Head(posted)
    /\ banner' = IF Head(posted) THEN "alarm" ELSE "clear"
    /\ IF Head(posted) /\ ~alarmActive THEN UNCHANGED link /\ StopSent("stop failed")
       ELSE UNCHANGED <<link, moving, told>>
    /\ UNCHANGED <<armVars, connected, label, enabled, entry, stream, last, pressed, jogging,
                   workers, failedChecks, faults, window>>

\* closeEvent: waits for the workers for a while, and closes the connection. A
\* worker that is still busy ends at its next exchange.
StreamKept == UNCHANGED <<stream, last>>
StreamStopped == StopStream

Close ==
    /\ OnScreen /\ window' = "closed" /\ link' = "closed"
    /\ StreamStopped
    /\ UNCHANGED <<armVars, connected, label, banner, enabled, entry, jogVars, workers, signals,
                   failedChecks, faults>>

-----------------------------------------------------------------------------
(* The workers, and the world                                               *)

\* A worker succeeds, or one of its exchanges fails.
WorkEnds(result) ==
    \/ Reaches /\ Kept /\ result = "ok"
    \/ link # "closed" /\ Lost /\ result = "failed"
    \/ link = "closed" /\ Kept /\ result = "failed"

HomeEnds ==
    /\ home = "running" /\ home' \in Ended /\ WorkEnds(home')
    /\ alarm' \in {alarm, FALSE}
    /\ UNCHANGED <<answering, shownVars, jogVars, move, signals, failedChecks, window>>

MoveEnds ==
    /\ move = "running" /\ move' \in Ended /\ WorkEnds(move')
    /\ UNCHANGED <<armVars, shownVars, jogVars, home, signals, failedChecks, window>>

\* The exchange of the stream finds the connection broken.
StreamBreaks(s) ==
    /\ stream[s] # "none" /\ link # "closed" /\ Fault /\ link' = "closed"
    /\ UNCHANGED <<armVars, shownVars, jogVars, workers, signals, failedChecks, window>>

\* The serial line fails under a request of any program. The transport is
\* closed then, also for this window, whose own connection stays.
SerialFails ==
    /\ link = "open" /\ Fault /\ link' = "dead"
    /\ UNCHANGED <<armVars, shownVars, jogVars, workers, signals, failedChecks, window>>

ArmFallsSilent ==
    /\ answering /\ Fault /\ answering' = FALSE
    /\ UNCHANGED <<alarm, shownVars, jogVars, workers, signals, link, failedChecks, window>>

ArmIsBack ==
    /\ ~answering /\ answering' = TRUE
    /\ UNCHANGED <<alarm, shownVars, jogVars, workers, signals, linkVars, window>>

AlarmRises ==
    /\ ~alarm /\ alarm' = TRUE
    /\ Flaps \/ \A s \in Streams : stream[s] = "on" => last[s] # TRUE
    /\ UNCHANGED <<answering, shownVars, jogVars, workers, signals, linkVars, window>>

AlarmEnds ==
    /\ alarm /\ alarm' = FALSE
    /\ UNCHANGED <<answering, shownVars, jogVars, workers, signals, linkVars, window>>

-----------------------------------------------------------------------------
Slot ==
    \/ ConnectToArm \/ CheckConnection \/ Reconnect \/ SendCommand \/ Press \/ Release
    \/ StartHoming \/ FinishHoming \/ StartMove \/ FinishMove \/ ClearAlarms \/ UpdateAlarms
    \/ Close
StreamStep(s) == Sample(s) \/ StreamEnds(s) \/ StreamBreaks(s)
World == SerialFails \/ ArmFallsSilent \/ ArmIsBack \/ AlarmRises \/ AlarmEnds

Next ==
    \/ Slot
    \/ HomeEnds
    \/ MoveEnds
    \/ \E s \in Streams : StreamStep(s)
    \/ World

Spec == Init /\ [][Next]_vars

\* The watchdog ticks, threads run, and the GUI thread takes what is posted. The
\* user need not do anything.
Fairness ==
    /\ WF_vars(ConnectToArm) /\ WF_vars(CheckConnection)
    /\ WF_vars(FinishHoming) /\ WF_vars(FinishMove) /\ WF_vars(UpdateAlarms)
    /\ WF_vars(HomeEnds) /\ WF_vars(MoveEnds)
    /\ \A s \in Streams : WF_vars(Sample(s)) /\ WF_vars(StreamEnds(s))

FairSpec == Spec /\ Fairness

-----------------------------------------------------------------------------
(* Properties                                                               *)

Readings == {"nothing", "stop failed", "other"}

\* Every variable has the values the code can give it.
TypeOK ==
    /\ answering \in BOOLEAN /\ alarm \in BOOLEAN /\ moving \in BOOLEAN
    /\ link \in {"closed", "open", "dead"}
    /\ window \in {"connecting", "shown", "failed", "closed"}
    /\ connected \in BOOLEAN /\ label \in {"Connected", "Disconnected"}
    /\ failedChecks \in 0..WatchdogFailures
    /\ enabled \in BOOLEAN /\ entry \in BOOLEAN
    /\ pressed \in BOOLEAN /\ jogging \in BOOLEAN
    /\ told \in Readings
    /\ banner \in {"unknown", "clear", "alarm"} /\ alarmActive \in BOOLEAN
    /\ home \in {"none", "running"} \cup Ended /\ move \in {"none", "running"} \cup Ended
    /\ stream \in [Streams -> {"none", "on", "leaving"}]
    /\ last \in [Streams -> BOOLEAN \cup {None}]
    /\ posted \in Seq(BOOLEAN) /\ Len(posted) <= MaxPosted
    /\ faults \in 0..MaxFaults

\* No jog is left without a stop: when the segment of a jog is no longer held, be it
\* released or its pad disabled, jog_stop() has been called for it, and the arm has
\* stopped or both of its attempts have failed. (Not so for a window that is closed.)
JogHasButton == moving => pressed \/ told # "nothing" \/ window = "closed"

\* What is to be in the status bar when stopping a jog fails: "STOP FAILED - the arm
\* may still be moving". The code does not keep it: the slots that disable the pads write
\* over it.
StopFailureShown == moving => pressed \/ told = "stop failed" \/ window = "closed"

\* Nothing that moves the arm can be started from a window that shows it as
\* disconnected, or while it homes; nor can a typed move while another runs.
ControlsFit ==
    window = "shown" =>
        /\ enabled => connected /\ home = "none"
        /\ entry => enabled /\ move = "none"

\* One thread at most streams poses, and none for an arm shown as disconnected:
\* one that was told to stop while it waited never goes on.
Active == {s \in Streams : stream[s] = "on"}
OneStream == Cardinality(Active) <= 1 /\ (Active # {} => connected)

PanelInvariant == TypeOK /\ ControlsFit /\ OneStream

\* The watchdog notices an arm that has fallen silent and a serial line that has
\* broken, whatever slots, stream and workers do in between, as long as the connection
\* is open: once one of them has closed it, arm_responds returns before it looks.
Unnoticed == window = "shown" /\ connected /\ link # "closed" /\ ~Reaches
SilenceNoticed == Unnoticed ~> (~Unnoticed)

\* What the documentation promises: a window that hears nothing from its arm, for
\* whatever reason, does not go on saying that it is connected. The code does not keep
\* it, when the connection was closed elsewhere.
Pretends == window = "shown" /\ label = "Connected" /\ ~Reaches
SilenceShown == Pretends ~> (~Pretends)

\* An arm that answers again while its connection is open is shown as connected,
\* without the user.
Missed == window = "shown" /\ ~connected /\ Reaches
AnswerShown == Missed ~> (~Missed)

\* An alarm is shown in the end, as long as the panel can hear of it.
Hidden == window = "shown" /\ connected /\ Reaches /\ alarm /\ banner # "alarm"
AlarmShown == Hidden ~> (~Hidden)

\* A closed window leaves nothing running: its stream ends, and so do its workers.
Quiet == home = "none" /\ move = "none" /\ \A s \in Streams : stream[s] = "none"
ClosedIsQuiet == window = "closed" ~> Quiet /\ link = "closed"
=============================================================================
