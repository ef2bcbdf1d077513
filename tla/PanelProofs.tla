----------------------------- MODULE PanelProofs -----------------------------
(* Theorems about the control panel window, for any number of pose-stream     *)
(* threads, any watchdog and any bounds: no jog is left without a stop having *)
(* been tried, the controls fit the state of the connection, and one thread   *)
(* at most streams poses.                                                     *)
EXTENDS Panel, TLAPS, FiniteSetTheorems, SequenceTheorems

\* A thread streams only for an arm that is shown as connected, and it is the only one.
StreamsFit ==
    /\ stream \in [Streams -> {"none", "on", "leaving"}]
    /\ last \in [Streams -> BOOLEAN \cup {None}]
    /\ \A s, t \in Streams : stream[s] = "on" /\ stream[t] = "on" => s = t
    /\ (\E s \in Streams : stream[s] = "on") => connected

\* A segment that is held has started its jog, so that its release sends the stop.
JogsFit ==
    /\ pressed \in BOOLEAN /\ jogging \in BOOLEAN /\ told \in Readings /\ moving \in BOOLEAN
    /\ pressed => jogging
    /\ JogHasButton

\* The controls of a window are enabled when, and only when, it is connected and the arm is
\* not homing: a move that ends may give back the pose values without looking further.
ControlsMatch ==
    /\ connected \in BOOLEAN /\ enabled \in BOOLEAN /\ entry \in BOOLEAN
    /\ label \in {"Connected", "Disconnected"} /\ banner \in {"unknown", "clear", "alarm"}
    /\ window = "shown" => /\ enabled <=> connected /\ home = "none"
                           /\ entry => enabled /\ move = "none"

\* Nothing happens in a window that has not connected yet.
NotYet == window = "connecting" => ~connected /\ home = "none" /\ move = "none"

LinkTypes ==
    /\ link \in {"closed", "open", "dead"} /\ failedChecks \in 0..WatchdogFailures
    /\ faults \in 0..MaxFaults

RestTypes ==
    /\ answering \in BOOLEAN /\ alarm \in BOOLEAN
    /\ window \in {"connecting", "shown", "failed", "closed"}
    /\ home \in {"none", "running"} \cup Ended /\ move \in {"none", "running"} \cup Ended
    /\ alarmActive \in BOOLEAN /\ posted \in Seq(BOOLEAN) /\ Len(posted) <= MaxPosted

IInv == StreamsFit /\ JogsFit /\ ControlsMatch /\ NotYet /\ LinkTypes /\ RestTypes

\* A window that is closed stays so.
StaysClosed == window = "closed" => window' = "closed"

\* What the controls should be for the connection they are under, once a step is over.
Fit(on, typing) ==
    window' = "shown" =>
        /\ on <=> (connected /\ home' = "none")
        /\ typing => (on /\ move' = "none")

-----------------------------------------------------------------------------
(* The jog, the stream, and the controls                                    *)

\* What a slot whose stop failed leaves to read.
LEMMA FailureReadings == {"stop failed", "other"} \subseteq Readings \ {"nothing"}
BY DEF Readings

\* The release of a segment stops its jog, or has tried to, whatever is left to read.
LEMMA ReleaseKeeps ==
    ASSUME NEW says \in Readings \ {"nothing"}, JogsFit, StaysClosed, ReleaseSegment(says)
    PROVE  JogsFit'
<1>1. CASE pressed
  <2>1. pressed' = FALSE /\ jogging' = FALSE /\ StopSent(says)
    BY <1>1 DEF ReleaseSegment, JogsFit
  <2> QED  BY <2>1 DEF JogsFit, JogHasButton, StopSent, Readings
<1>2. CASE ~pressed
  <2>1. pressed' = FALSE /\ jogging' = jogging /\ moving' = moving /\ told' = told
    BY <1>2 DEF ReleaseSegment, JogsFit
  <2> QED  BY <1>2, <2>1 DEF JogsFit, JogHasButton, StaysClosed
<1> QED  BY <1>1, <1>2

\* A jog that nothing touches goes on as it was.
LEMMA JogUntouched ==
    ASSUME JogsFit, StaysClosed, UNCHANGED jogVars
    PROVE  JogsFit'
BY DEF JogsFit, JogHasButton, StaysClosed, jogVars

\* The stream of an arm that becomes connected is the first one: no thread streamed before.
LEMMA StartKeeps ==
    ASSUME StreamsFit, ~connected, connected' = TRUE, StartStream
    PROVE  StreamsFit'
<1>1. PICK s \in Streams : /\ stream[s] = "none"
                           /\ stream' = [stream EXCEPT ![s] = "on"]
                           /\ last' = [last EXCEPT ![s] = None]
  BY DEF StartStream, LastForgotten
<1>2. \A t \in Streams : stream'[t] = "on" => t = s
  BY <1>1 DEF StreamsFit
<1>3. stream' \in [Streams -> {"none", "on", "leaving"}]
  BY <1>1 DEF StreamsFit
<1>4. last' \in [Streams -> BOOLEAN \cup {None}]
  BY <1>1 DEF StreamsFit
<1> QED  BY <1>2, <1>3, <1>4 DEF StreamsFit

\* After stop_pose_stream no thread streams, although one may still be leaving.
LEMMA StopKeeps ==
    ASSUME StreamsFit, StopStream
    PROVE  StreamsFit' /\ \A s \in Streams : stream'[s] # "on"
<1>1. \A s \in Streams : stream'[s] # "on"
  <2>1. CASE \E s \in Streams : stream[s] = "on"
    <3>1. PICK s \in Streams, to \in StoppedStates :
             stream[s] = "on" /\ stream' = [stream EXCEPT ![s] = to]
      BY <2>1 DEF StopStream
    <3>2. to # "on"
      BY DEF StoppedStates
    <3> QED  BY <3>1, <3>2 DEF StreamsFit
  <2>2. CASE ~ \E s \in Streams : stream[s] = "on"
    BY <2>2 DEF StopStream
  <2> QED  BY <2>1, <2>2
<1>2. stream' \in [Streams -> {"none", "on", "leaving"}]
  BY DEF StopStream, StoppedStates, StreamsFit
<1>3. last' \in [Streams -> BOOLEAN \cup {None}]
  BY DEF StopStream, StreamsFit
<1> QED  BY <1>1, <1>2, <1>3 DEF StreamsFit

\* set_connection_state leaves the stream, the jog and the controls as they should be.
LEMMA SetStateKeeps ==
    ASSUME NEW c \in BOOLEAN, NEW on \in BOOLEAN, NEW typing \in BOOLEAN,
           StreamsFit, JogsFit, ControlsMatch, StaysClosed,
           Fit(on, typing), SetState(c, on, typing)
    PROVE  StreamsFit' /\ JogsFit' /\ ControlsMatch' /\ connected' = c
<1>0. connected \in BOOLEAN /\ label \in {"Connected", "Disconnected"}
      /\ banner \in {"unknown", "clear", "alarm"}
  BY DEF ControlsMatch
<1>1. CASE c = connected
  <2>1. /\ enabled' = on /\ entry' = typing /\ connected' = connected /\ label' = label
        /\ banner' = banner /\ stream' = stream /\ last' = last /\ UNCHANGED jogVars
    BY <1>1 DEF SetState
  <2>2. StreamsFit'
    BY <2>1 DEF StreamsFit
  <2>3. JogsFit'
    BY <2>1, JogUntouched
  <2>4. ControlsMatch'
    BY <1>0, <2>1 DEF ControlsMatch, Fit
  <2> QED  BY <1>1, <2>1, <2>2, <2>3, <2>4
<1>2. CASE c # connected
  <2>1. /\ connected' = c /\ label' = IF c THEN "Connected" ELSE "Disconnected"
        /\ enabled' = (c /\ home' = "none") /\ entry' = (c /\ home' = "none" /\ move' = "none")
    BY <1>2 DEF SetState, SetControls, NotHoming
  <2>2. CASE c
    <3>1. StartStream /\ banner' = banner /\ UNCHANGED jogVars
      BY <1>2, <2>2 DEF SetState
    <3>2. StreamsFit'
      BY <1>0, <1>2, <2>1, <2>2, <3>1, StartKeeps
    <3>3. ControlsMatch'
      BY <1>0, <2>1, <3>1 DEF ControlsMatch
    <3> QED  BY <2>1, <3>1, <3>2, <3>3, JogUntouched
  <2>3. CASE ~c
    <3>1. banner' = "unknown" /\ StopStream /\ ReleaseSegment("other")
      BY <1>2, <2>3 DEF SetState, PadsDisabled
    <3>2. ControlsMatch'
      BY <2>1, <3>1 DEF ControlsMatch
    <3>3. StreamsFit'
      <4>1. \A s \in Streams : stream'[s] # "on"
        BY <3>1, StopKeeps
      <4> QED  BY <3>1, <4>1, StopKeeps
    <3> QED  BY <2>1, <3>1, <3>2, <3>3, ReleaseKeeps, FailureReadings
  <2> QED  BY <2>2, <2>3
<1> QED  BY <1>1, <1>2

-----------------------------------------------------------------------------
(* The exchanges with the arm                                               *)

\* A fault is counted, up to the bound.
LEMMA FaultCounts ==
    ASSUME LinkTypes, Fault \/ UNCHANGED faults
    PROVE  faults' \in 0..MaxFaults
<1>1. MaxFaults \in Nat
  BY PanelAssumption
<1> QED  BY <1>1 DEF LinkTypes, Fault

\* An exchange that fails leaves the connection as it was, or closed.
LEMMA LostKeeps ==
    ASSUME LinkTypes, Lost \/ Kept, failedChecks' \in 0..WatchdogFailures
    PROVE  LinkTypes'
<1>1. Fault \/ UNCHANGED faults
  BY DEF Lost, Kept, NoReply
<1>2. link' \in {"closed", "open", "dead"}
  BY DEF Lost, Kept, LinkTypes
<1> QED  BY <1>1, <1>2, FaultCounts DEF LinkTypes

\* A check that fails is counted up to panel.watchdog_failures.
LEMMA CountedInRange ==
    ASSUME LinkTypes
    PROVE  Counted \in 0..WatchdogFailures /\ 0 \in 0..WatchdogFailures
<1>1. WatchdogFailures \in Nat
  BY PanelAssumption
<1> QED  BY <1>1 DEF LinkTypes, Counted

\* arm_responds keeps the window as it should be, whatever the arm answers.
LEMMA RespondsKeeps ==
    ASSUME NEW on \in BOOLEAN, NEW typing \in BOOLEAN,
           StreamsFit, JogsFit, ControlsMatch, LinkTypes, StaysClosed,
           Fit(on, typing), ArmResponds(on, typing)
    PROVE  StreamsFit' /\ JogsFit' /\ ControlsMatch' /\ LinkTypes'
<1>1. CASE Answers(on, typing)
  <2>1. SetState(TRUE, on, typing)
    BY <1>1 DEF Answers, ShowAnswer
  <2>2. LinkTypes'
    BY <1>1, CountedInRange DEF Answers, Kept, LinkTypes
  <2> QED  BY <2>1, <2>2, SetStateKeeps
<1>2. CASE Fails(on, typing)
  <2>1. SetState(FALSE, on, typing) /\ failedChecks' = Counted
    BY <1>2 DEF Fails
  <2>2. Fault \/ UNCHANGED faults
    BY <1>2 DEF Fails, NoReply
  <2>3. link' \in {"closed", "open", "dead"}
    BY <1>2 DEF Fails, LinkTypes
  <2>4. LinkTypes'
    BY <2>1, <2>2, <2>3, FaultCounts, CountedInRange DEF LinkTypes
  <2> QED  BY <2>1, <2>4, SetStateKeeps
<1>3. CASE NotOpen(on, typing)
  <2>1. /\ enabled' = on /\ entry' = typing /\ connected' = connected /\ label' = label
        /\ banner' = banner /\ stream' = stream /\ last' = last
        /\ UNCHANGED <<jogVars, linkVars>>
    BY <1>3 DEF NotOpen
  <2>2. JogsFit'
    BY <2>1, JogUntouched
  <2>3. StreamsFit'
    BY <2>1 DEF StreamsFit
  <2>4. ControlsMatch'
    BY <2>1 DEF ControlsMatch, Fit
  <2>5. LinkTypes'
    BY <2>1 DEF LinkTypes, linkVars
  <2> QED  BY <2>2, <2>3, <2>4, <2>5
<1> QED  BY <1>1, <1>2, <1>3 DEF ArmResponds

\* What the controls are, they fit, when nothing they depend on changes.
LEMMA FitAsBefore ==
    ASSUME ControlsMatch, window' = window, UNCHANGED workers
    PROVE  Fit(enabled, entry) /\ enabled \in BOOLEAN /\ entry \in BOOLEAN
BY DEF ControlsMatch, Fit, workers

\* What is shown stays right when nothing it depends on changes.
LEMMA ShownUntouched ==
    ASSUME StreamsFit, ControlsMatch, UNCHANGED shownVars, UNCHANGED workers,
           window' = "shown" => window = "shown"
    PROVE  StreamsFit' /\ ControlsMatch'
<1>1. StreamsFit'
  BY DEF StreamsFit, shownVars
<1>2. ControlsMatch'
  BY DEF ControlsMatch, shownVars, workers
<1> QED  BY <1>1, <1>2

\* The rest stays as it is with what it speaks of.
LEMMA RestUntouched ==
    ASSUME RestTypes, NotYet, UNCHANGED <<armVars, workers, signals, window>>,
           window # "connecting"
    PROVE  RestTypes' /\ NotYet'
<1>1. RestTypes'
  BY DEF RestTypes, armVars, workers, signals
<1> QED  BY <1>1 DEF NotYet

\* A control whose check finds no arm does nothing else.
LEMMA RefusedKeeps ==
    ASSUME IInv, Refused, OnScreen
    PROVE  IInv'
<1>1. UNCHANGED <<armVars, workers, signals, window>> /\ ArmResponds(enabled, entry)
  BY DEF Refused, ArmResponds
<1>2. RestTypes' /\ NotYet'
  BY <1>1, RestUntouched DEF IInv, OnScreen
<1>3. StreamsFit' /\ JogsFit' /\ ControlsMatch' /\ LinkTypes'
  BY <1>1, FitAsBefore, RespondsKeeps DEF IInv, StaysClosed
<1> QED  BY <1>2, <1>3 DEF IInv

\* A control whose check finds the arm goes on, and its own exchanges come next.
LEMMA ProceedsKeeps ==
    ASSUME LinkTypes, Proceeds, Kept \/ Lost
    PROVE  LinkTypes'
BY LostKeeps, CountedInRange DEF Proceeds

-----------------------------------------------------------------------------
(* The slots                                                                *)

LEMMA InitIInv ==
    ASSUME Init
    PROVE  IInv
<1>1. StreamsFit
  BY DEF Init, StreamsFit
<1>2. JogsFit /\ ControlsMatch /\ NotYet
  BY DEF Init, JogsFit, JogHasButton, Readings, ControlsMatch, NotYet
<1>3. LinkTypes
  <2>1. WatchdogFailures \in Nat /\ MaxFaults \in Nat
    BY PanelAssumption
  <2> QED  BY <2>1 DEF Init, LinkTypes
<1>4. RestTypes
  <2>1. MaxPosted \in Nat
    BY PanelAssumption
  <2>2. posted \in Seq(BOOLEAN) /\ Len(posted) = 0
    BY DEF Init
  <2>3. Len(posted) <= MaxPosted
    BY <2>1, <2>2
  <2>4. /\ answering \in BOOLEAN /\ alarm \in BOOLEAN /\ window = "connecting"
        /\ home = "none" /\ move = "none" /\ alarmActive = FALSE
    BY DEF Init
  <2> QED  BY <2>2, <2>3, <2>4 DEF RestTypes
<1> QED  BY <1>1, <1>2, <1>3, <1>4 DEF IInv

LEMMA ConnectToArmKeeps ==
    ASSUME IInv, ConnectToArm
    PROVE  IInv'
<1>1. /\ window = "connecting" /\ ~connected /\ home' = "none" /\ move' = "none"
      /\ UNCHANGED <<armVars, workers, signals>> /\ failedChecks' = failedChecks /\ faults' = faults
  BY DEF ConnectToArm, IInv, NotYet, workers
<1>2. CASE link' = "open" /\ window' = "shown" /\ SetState(TRUE, enabled, entry)
  <2>1. enabled \in BOOLEAN /\ entry \in BOOLEAN /\ connected = FALSE
        /\ banner \in {"unknown", "clear", "alarm"}
    BY <1>1 DEF IInv, ControlsMatch
  <2>2. /\ connected' = TRUE /\ label' = "Connected" /\ banner' = banner /\ UNCHANGED jogVars
        /\ enabled' = TRUE /\ entry' = TRUE /\ StartStream
    BY <1>1, <1>2, <2>1 DEF SetState, SetControls, NotHoming
  <2>3. StreamsFit'
    BY <1>1, <2>2, StartKeeps DEF IInv
  <2>4. JogsFit'
    BY <1>1, <2>2, JogUntouched DEF IInv, StaysClosed
  <2>5. ControlsMatch'
    BY <1>1, <2>1, <2>2 DEF ControlsMatch
  <2>6. LinkTypes' /\ NotYet'
    BY <1>1, <1>2 DEF IInv, LinkTypes, NotYet
  <2>7. RestTypes'
    BY <1>1, <1>2 DEF IInv, RestTypes, armVars, workers, signals
  <2> QED  BY <2>3, <2>4, <2>5, <2>6, <2>7 DEF IInv
<1>3. CASE link' = "closed" /\ window' = "failed" /\ UNCHANGED <<shownVars, jogVars>>
  <2>1. StreamsFit' /\ ControlsMatch'
    BY <1>1, <1>3, ShownUntouched DEF IInv
  <2>2. JogsFit'
    BY <1>1, <1>3, JogUntouched DEF IInv, StaysClosed
  <2>3. LinkTypes' /\ NotYet'
    BY <1>1, <1>3 DEF IInv, LinkTypes, NotYet
  <2>4. RestTypes'
    BY <1>1, <1>3 DEF IInv, RestTypes, armVars, workers, signals
  <2> QED  BY <2>1, <2>2, <2>3, <2>4 DEF IInv
<1> QED  BY <1>2, <1>3 DEF ConnectToArm

LEMMA CheckConnectionKeeps ==
    ASSUME IInv, CheckConnection
    PROVE  IInv'
<1>1. /\ window = "shown" /\ UNCHANGED <<armVars, workers, signals, window>>
      /\ ArmResponds(enabled, entry)
  BY DEF CheckConnection
<1>2. RestTypes' /\ NotYet'
  BY <1>1, RestUntouched DEF IInv
<1>3. StreamsFit' /\ JogsFit' /\ ControlsMatch' /\ LinkTypes'
  BY <1>1, FitAsBefore, RespondsKeeps DEF IInv, StaysClosed
<1> QED  BY <1>2, <1>3 DEF IInv

LEMMA ReconnectKeeps ==
    ASSUME IInv, Reconnect
    PROVE  IInv'
<1>1. window = "shown" /\ UNCHANGED <<armVars, workers, signals, window>>
  BY DEF Reconnect
<1>2. RestTypes' /\ NotYet'
  BY <1>1, RestUntouched DEF IInv
<1>3. CASE /\ link' = "open" /\ failedChecks' = 0 /\ UNCHANGED faults
           /\ SetState(TRUE, enabled, entry)
  <2>1. LinkTypes'
    BY <1>3, CountedInRange DEF IInv, LinkTypes
  <2>2. StreamsFit' /\ JogsFit' /\ ControlsMatch'
    BY <1>1, <1>3, FitAsBefore, SetStateKeeps DEF IInv, StaysClosed
  <2> QED  BY <1>2, <2>1, <2>2 DEF IInv
<1>4. CASE /\ link' \in {"open", "closed"} /\ UNCHANGED <<shownVars, jogVars, failedChecks>>
           /\ IF answering THEN Fault ELSE UNCHANGED faults
  <2>1. Fault \/ UNCHANGED faults
    BY <1>4
  <2>2. LinkTypes'
    BY <1>4, <2>1, FaultCounts DEF IInv, LinkTypes
  <2>3. StreamsFit' /\ ControlsMatch' /\ JogsFit'
    BY <1>1, <1>4, ShownUntouched, JogUntouched DEF IInv, StaysClosed
  <2> QED  BY <1>2, <2>2, <2>3 DEF IInv
<1> QED  BY <1>3, <1>4 DEF Reconnect

LEMMA SendCommandKeeps ==
    ASSUME IInv, SendCommand
    PROVE  IInv'
<1>1. OnScreen
  BY DEF SendCommand, Usable
<1>2. CASE /\ Proceeds /\ (Kept \/ Lost)
           /\ UNCHANGED <<armVars, shownVars, jogVars, workers, signals, window>>
  <2>1. LinkTypes'
    BY <1>2, ProceedsKeeps DEF IInv
  <2>2. StreamsFit' /\ ControlsMatch' /\ JogsFit'
    BY <1>2, ShownUntouched, JogUntouched DEF IInv, StaysClosed
  <2>3. RestTypes' /\ NotYet'
    BY <1>1, <1>2, RestUntouched DEF IInv, OnScreen
  <2> QED  BY <2>1, <2>2, <2>3 DEF IInv
<1>3. CASE Refused
  BY <1>1, <1>3, RefusedKeeps
<1> QED  BY <1>2, <1>3 DEF SendCommand

\* A press that starts its jog is held, and its jog is known.
LEMMA PressKeeps ==
    ASSUME IInv, Press
    PROVE  IInv'
<1>1. OnScreen
  BY DEF Press, Usable
<1>2. CASE Refused
  BY <1>1, <1>2, RefusedKeeps
<1>3. CASE ~Refused
  <2>1. /\ Proceeds /\ pressed' = TRUE /\ (Kept \/ Lost) /\ moving' \in BOOLEAN
        /\ told' = "nothing" /\ jogging' = TRUE
        /\ UNCHANGED <<armVars, shownVars, workers, signals, window>>
    BY <1>3 DEF Press, JoggingSetFirst
  <2>2. LinkTypes'
    BY <2>1, ProceedsKeeps DEF IInv
  <2>3. StreamsFit' /\ ControlsMatch'
    BY <2>1, ShownUntouched DEF IInv
  <2>4. RestTypes' /\ NotYet'
    BY <1>1, <2>1, RestUntouched DEF IInv, OnScreen
  <2>5. JogsFit'
    BY <2>1 DEF JogsFit, JogHasButton, Readings
  <2> QED  BY <2>2, <2>3, <2>4, <2>5 DEF IInv
<1> QED  BY <1>2, <1>3

LEMMA ReleaseStepKeeps ==
    ASSUME IInv, Release
    PROVE  IInv'
<1>1. /\ OnScreen /\ ReleaseSegment("stop failed")
      /\ UNCHANGED <<armVars, shownVars, workers, signals, linkVars, window>>
  BY DEF Release
<1>2. JogsFit'
  BY <1>1, ReleaseKeeps, FailureReadings DEF IInv, StaysClosed
<1>3. StreamsFit' /\ ControlsMatch'
  BY <1>1, ShownUntouched DEF IInv
<1>4. RestTypes' /\ NotYet'
  BY <1>1, RestUntouched DEF IInv, OnScreen
<1>5. LinkTypes'
  BY <1>1 DEF IInv, LinkTypes, linkVars
<1> QED  BY <1>2, <1>3, <1>4, <1>5 DEF IInv

\* Homing takes the controls away, and the jog pads with them.
LEMMA StartHomingKeeps ==
    ASSUME IInv, StartHoming
    PROVE  IInv'
<1>1. OnScreen
  BY DEF StartHoming, Usable
<1>2. CASE /\ Proceeds /\ Kept
           /\ home' = "running" /\ UNCHANGED <<armVars, move>>
           /\ SetControls(FALSE) /\ PadsDisabled
           /\ UNCHANGED <<connected, label, banner, stream, last, signals, window>>
  <2>1. LinkTypes'
    BY <1>2, ProceedsKeeps DEF IInv
  <2>2. JogsFit'
    BY <1>2, ReleaseKeeps, FailureReadings DEF IInv, StaysClosed, PadsDisabled
  <2>3. StreamsFit'
    BY <1>2 DEF IInv, StreamsFit
  <2>4. ControlsMatch'
    BY <1>2 DEF IInv, ControlsMatch, SetControls
  <2>5. RestTypes' /\ NotYet'
    BY <1>1, <1>2 DEF IInv, RestTypes, NotYet, OnScreen, armVars, signals
  <2> QED  BY <2>1, <2>2, <2>3, <2>4, <2>5 DEF IInv
<1>3. CASE Refused
  BY <1>1, <1>3, RefusedKeeps
<1> QED  BY <1>2, <1>3 DEF StartHoming

\* The controls come back with the end of homing, if the window is still connected.
LEMMA FinishHomingKeeps ==
    ASSUME IInv, FinishHoming
    PROVE  IInv'
<1>1. /\ home \in Ended /\ home' = "none" /\ UNCHANGED <<armVars, move, signals, window>>
  BY DEF FinishHoming
<1>2. window # "connecting"
  BY <1>1 DEF IInv, NotYet, Ended
<1>3. RestTypes' /\ NotYet'
  BY <1>1, <1>2 DEF IInv, RestTypes, NotYet, armVars, signals
<1>4. CASE /\ SetControls(connected)
           /\ UNCHANGED <<connected, label, banner, stream, last, jogVars, linkVars>>
  <2>1. JogsFit'
    BY <1>1, <1>4, JogUntouched DEF IInv, StaysClosed
  <2>2. LinkTypes' /\ StreamsFit'
    BY <1>4 DEF IInv, LinkTypes, StreamsFit, linkVars
  <2>3. ControlsMatch'
    BY <1>1, <1>4 DEF IInv, ControlsMatch, SetControls
  <2> QED  BY <1>3, <2>1, <2>2, <2>3 DEF IInv
<1>5. CASE ArmResponds(connected, connected /\ move = "none")
  <2>1. connected \in BOOLEAN /\ (connected /\ move = "none") \in BOOLEAN
    BY DEF IInv, ControlsMatch
  <2>2. Fit(connected, connected /\ move = "none")
    BY <1>1, <2>1 DEF Fit
  <2>3. StreamsFit' /\ JogsFit' /\ ControlsMatch' /\ LinkTypes'
    BY <1>1, <1>5, <2>1, <2>2, RespondsKeeps DEF IInv, StaysClosed
  <2> QED  BY <1>3, <2>3 DEF IInv
<1> QED  BY <1>4, <1>5 DEF FinishHoming

LEMMA StartMoveKeeps ==
    ASSUME IInv, StartMove
    PROVE  IInv'
<1>1. OnScreen
  BY DEF StartMove
<1>2. CASE /\ Proceeds /\ Kept
           /\ move' = "running" /\ entry' = FALSE
           /\ UNCHANGED <<armVars, connected, label, banner, enabled, stream, last, jogVars, home,
                          signals, window>>
  <2>1. LinkTypes'
    BY <1>2, ProceedsKeeps DEF IInv
  <2>2. JogsFit'
    BY <1>2, JogUntouched DEF IInv, StaysClosed
  <2>3. StreamsFit'
    BY <1>2 DEF IInv, StreamsFit
  <2>4. ControlsMatch'
    BY <1>2 DEF IInv, ControlsMatch
  <2>5. RestTypes' /\ NotYet'
    BY <1>1, <1>2 DEF IInv, RestTypes, NotYet, OnScreen, armVars, signals
  <2> QED  BY <2>1, <2>2, <2>3, <2>4, <2>5 DEF IInv
<1>3. CASE Refused
  BY <1>1, <1>3, RefusedKeeps
<1> QED  BY <1>2, <1>3 DEF StartMove

\* The pose values come back for a window that is connected and not homing: the very
\* windows whose controls are enabled.
LEMMA FinishMoveKeeps ==
    ASSUME IInv, FinishMove
    PROVE  IInv'
<1>1. /\ move \in Ended /\ move' = "none" /\ UNCHANGED <<armVars, home, signals, window>>
  BY DEF FinishMove
<1>2. window # "connecting"
  BY <1>1 DEF IInv, NotYet, Ended
<1>3. RestTypes' /\ NotYet'
  BY <1>1, <1>2 DEF IInv, RestTypes, NotYet, armVars, signals
<1>4. CASE /\ entry' = EntryAllowed
           /\ UNCHANGED <<connected, label, banner, enabled, stream, last, jogVars, linkVars>>
  <2>1. JogsFit'
    BY <1>1, <1>4, JogUntouched DEF IInv, StaysClosed
  <2>2. LinkTypes' /\ StreamsFit'
    BY <1>4 DEF IInv, LinkTypes, StreamsFit, linkVars
  <2>3. ControlsMatch'
    BY <1>1, <1>4 DEF IInv, ControlsMatch, EntryAllowed
  <2> QED  BY <1>3, <2>1, <2>2, <2>3 DEF IInv
<1>5. CASE ArmResponds(enabled, EntryAllowed)
  <2>1. enabled \in BOOLEAN /\ EntryAllowed \in BOOLEAN
    BY DEF IInv, ControlsMatch, EntryAllowed
  <2>2. Fit(enabled, EntryAllowed)
    BY <1>1, <2>1 DEF IInv, ControlsMatch, Fit, EntryAllowed
  <2>3. StreamsFit' /\ JogsFit' /\ ControlsMatch' /\ LinkTypes'
    BY <1>1, <1>5, <2>1, <2>2, RespondsKeeps DEF IInv, StaysClosed
  <2> QED  BY <1>3, <2>3 DEF IInv
<1> QED  BY <1>4, <1>5 DEF FinishMove

LEMMA ClearAlarmsKeeps ==
    ASSUME IInv, ClearAlarms
    PROVE  IInv'
<1>1. OnScreen
  BY DEF ClearAlarms, Usable
<1>2. CASE Refused
  BY <1>1, <1>2, RefusedKeeps
<1>3. CASE ~Refused
  <2>1. /\ Proceeds /\ (Kept \/ Lost) /\ alarm' \in {alarm, FALSE} /\ banner' \in {banner, "clear"}
        /\ UNCHANGED <<answering, connected, label, enabled, entry, stream, last, jogVars,
                       workers, signals, window>>
    BY <1>3 DEF ClearAlarms
  <2>2. LinkTypes'
    BY <2>1, ProceedsKeeps DEF IInv
  <2>3. JogsFit'
    BY <2>1, JogUntouched DEF IInv, StaysClosed
  <2>4. StreamsFit'
    BY <2>1 DEF IInv, StreamsFit
  <2>5. ControlsMatch'
    BY <2>1 DEF IInv, ControlsMatch, workers
  <2>6. RestTypes' /\ NotYet'
    BY <1>1, <2>1 DEF IInv, RestTypes, NotYet, OnScreen, workers, signals
  <2> QED  BY <2>2, <2>3, <2>4, <2>5, <2>6 DEF IInv
<1> QED  BY <1>2, <1>3

\* What is left of the posted signals when one is taken.
LEMMA SignalTaken ==
    ASSUME posted \in Seq(BOOLEAN), Len(posted) <= MaxPosted, posted # <<>>
    PROVE  /\ Head(posted) \in BOOLEAN
           /\ Tail(posted) \in Seq(BOOLEAN) /\ Len(Tail(posted)) <= MaxPosted
<1>1. Len(posted) \in Nat /\ Len(posted) # 0 /\ MaxPosted \in Nat
  BY PanelAssumption, EmptySeq, LenProperties
<1>2. Head(posted) \in BOOLEAN /\ Tail(posted) \in Seq(BOOLEAN) /\ Len(Tail(posted)) = Len(posted) - 1
  BY HeadTailProperties
<1> QED  BY <1>1, <1>2

\* A new alarm stops the jog, or both attempts to stop it have failed.
LEMMA UpdateAlarmsKeeps ==
    ASSUME IInv, UpdateAlarms
    PROVE  IInv'
<1>1. /\ posted # <<>> /\ posted' = Tail(posted) /\ alarmActive' = Head(posted)
      /\ banner' \in {"alarm", "clear"}
      /\ UNCHANGED <<armVars, connected, label, enabled, entry, stream, last, pressed, jogging,
                     workers, failedChecks, faults, window>>
  BY DEF UpdateAlarms
<1>2. /\ link' \in {link, "open"}
      /\ \/ moving' = moving /\ told' = told
         \/ moving' = FALSE /\ told' = told
         \/ moving' \in {moving, FALSE} /\ told' = "stop failed"
  BY DEF UpdateAlarms, StopSent
<1>3. JogsFit'
  <2>1. pressed' = pressed /\ jogging' = jogging /\ window' = window
    BY <1>1
  <2>2. /\ moving' \in BOOLEAN /\ told' \in Readings
        /\ moving' => moving
        /\ told # "nothing" => told' # "nothing"
    <3>1. moving \in BOOLEAN /\ told \in Readings
      BY DEF IInv, JogsFit
    <3>2. CASE moving' = moving
      BY <1>2, <3>1, <3>2 DEF Readings
    <3>3. CASE moving' # moving
      BY <1>2, <3>1, <3>3 DEF Readings
    <3> QED  BY <3>2, <3>3
  <2> QED  BY <2>1, <2>2 DEF IInv, JogsFit, JogHasButton
<1>4. LinkTypes'
  BY <1>1, <1>2 DEF IInv, LinkTypes
<1>5. StreamsFit'
  BY <1>1 DEF IInv, StreamsFit
<1>6. ControlsMatch' /\ NotYet'
  BY <1>1 DEF IInv, ControlsMatch, NotYet, workers
<1>7. RestTypes'
  <2>1. /\ Head(posted) \in BOOLEAN
        /\ Tail(posted) \in Seq(BOOLEAN) /\ Len(Tail(posted)) <= MaxPosted
    BY <1>1, SignalTaken DEF IInv, RestTypes
  <2>2. alarmActive' \in BOOLEAN /\ posted' \in Seq(BOOLEAN) /\ Len(posted') <= MaxPosted
    BY <1>1, <2>1
  <2> QED  BY <1>1, <2>2 DEF IInv, RestTypes, armVars, workers
<1> QED  BY <1>3, <1>4, <1>5, <1>6, <1>7 DEF IInv

\* A window that closes stops its stream.
LEMMA CloseKeeps ==
    ASSUME IInv, Close
    PROVE  IInv'
<1>1. /\ OnScreen /\ window' = "closed" /\ link' = "closed" /\ StopStream
      /\ UNCHANGED <<armVars, connected, label, banner, enabled, entry, jogVars, workers, signals,
                     failedChecks, faults>>
  BY DEF Close, StreamStopped
<1>2. StreamsFit'
  BY <1>1, StopKeeps DEF IInv
<1>3. JogsFit'
  BY <1>1, JogUntouched DEF IInv, StaysClosed
<1>4. ControlsMatch' /\ NotYet' /\ LinkTypes'
  BY <1>1 DEF IInv, ControlsMatch, NotYet, LinkTypes
<1>5. RestTypes'
  BY <1>1 DEF IInv, RestTypes, armVars, workers, signals
<1> QED  BY <1>2, <1>3, <1>4, <1>5 DEF IInv

-----------------------------------------------------------------------------
(* The workers, the stream and the world                                    *)

\* The end of a worker's work leaves the connection as it was, or closed.
LEMMA WorkKeeps ==
    ASSUME NEW result, LinkTypes, WorkEnds(result), failedChecks' = failedChecks
    PROVE  LinkTypes'
<1>1. Lost \/ Kept
  BY DEF WorkEnds
<1> QED  BY <1>1, LostKeeps DEF LinkTypes

LEMMA WorkersKeep ==
    ASSUME IInv, HomeEnds \/ MoveEnds
    PROVE  IInv'
<1>1. LinkTypes'
  BY WorkKeeps DEF IInv, HomeEnds, MoveEnds
<1>2. JogsFit'
  BY JogUntouched DEF IInv, StaysClosed, HomeEnds, MoveEnds
<1>3. window # "connecting"
  BY DEF IInv, NotYet, HomeEnds, MoveEnds
<1>4. StreamsFit'
  BY DEF IInv, StreamsFit, HomeEnds, MoveEnds, shownVars
<1>5. ControlsMatch'
  <2>1. /\ UNCHANGED shownVars /\ window' = window
        /\ home' = "none" <=> home = "none"
        /\ move' = "none" <=> move = "none"
    BY DEF HomeEnds, MoveEnds, Ended
  <2> QED  BY <2>1 DEF IInv, ControlsMatch, shownVars
<1>6. RestTypes' /\ NotYet'
  BY <1>3 DEF IInv, RestTypes, NotYet, HomeEnds, MoveEnds, armVars, signals
<1> QED  BY <1>1, <1>2, <1>4, <1>5, <1>6 DEF IInv

\* A check of the alarms is remembered, and reported when it finds a change.
LEMMA SampleKeeps ==
    ASSUME IInv, NEW s \in Streams, Sample(s)
    PROVE  IInv'
<1>1. /\ last' = [last EXCEPT ![s] = alarm]
      /\ posted' = IF last[s] = alarm THEN posted ELSE Append(posted, alarm)
      /\ stream' = [stream EXCEPT ![s] = IF stream[s] = "leaving" THEN "none" ELSE "on"]
      /\ stream[s] # "none" /\ Len(posted) < MaxPosted
      /\ UNCHANGED <<armVars, connected, label, banner, enabled, entry, jogVars, workers,
                     alarmActive, linkVars, window>>
  BY DEF Sample
<1>2. StreamsFit'
  <2>1. stream' \in [Streams -> {"none", "on", "leaving"}]
    BY <1>1 DEF IInv, StreamsFit
  <2>2. last' \in [Streams -> BOOLEAN \cup {None}]
    BY <1>1 DEF IInv, StreamsFit, RestTypes
  <2>3. \A t \in Streams : stream'[t] = "on" => stream[t] = "on"
    BY <1>1 DEF IInv, StreamsFit
  <2> QED  BY <1>1, <2>1, <2>2, <2>3 DEF IInv, StreamsFit
<1>3. JogsFit'
  BY <1>1, JogUntouched DEF IInv, StaysClosed
<1>4. ControlsMatch' /\ NotYet' /\ LinkTypes'
  BY <1>1 DEF IInv, ControlsMatch, NotYet, LinkTypes, workers, linkVars
<1>5. RestTypes'
  <2>1. posted \in Seq(BOOLEAN) /\ alarm \in BOOLEAN /\ Len(posted) \in Nat /\ MaxPosted \in Nat
    BY PanelAssumption, LenProperties DEF IInv, RestTypes
  <2>2. Append(posted, alarm) \in Seq(BOOLEAN) /\ Len(Append(posted, alarm)) = Len(posted) + 1
    BY <2>1, AppendProperties
  <2>3. posted' \in Seq(BOOLEAN) /\ Len(posted') <= MaxPosted
    <3>1. posted' = posted \/ posted' = Append(posted, alarm)
      BY <1>1
    <3>2. Len(posted) < MaxPosted
      BY <1>1
    <3> QED  BY <2>1, <2>2, <3>1, <3>2
  <2> QED  BY <1>1, <2>3 DEF IInv, RestTypes, armVars, workers
<1> QED  BY <1>2, <1>3, <1>4, <1>5 DEF IInv

LEMMA StreamEndsKeeps ==
    ASSUME IInv, NEW s \in Streams, StreamEnds(s)
    PROVE  IInv'
<1>1. /\ stream' = [stream EXCEPT ![s] = "none"]
      /\ UNCHANGED <<armVars, connected, label, banner, enabled, entry, last, jogVars, workers,
                     signals, linkVars, window>>
  BY DEF StreamEnds
<1>2. StreamsFit'
  <2>1. \A t \in Streams : stream'[t] = "on" => stream[t] = "on"
    BY <1>1 DEF IInv, StreamsFit
  <2>2. stream' \in [Streams -> {"none", "on", "leaving"}]
    BY <1>1 DEF IInv, StreamsFit
  <2> QED  BY <1>1, <2>1, <2>2 DEF IInv, StreamsFit
<1>3. JogsFit'
  BY <1>1, JogUntouched DEF IInv, StaysClosed
<1>4. ControlsMatch' /\ NotYet' /\ LinkTypes' /\ RestTypes'
  BY <1>1 DEF IInv, ControlsMatch, NotYet, LinkTypes, RestTypes, armVars, workers, signals, linkVars
<1> QED  BY <1>2, <1>3, <1>4 DEF IInv

\* The arm and its connection change under the window, which has yet to notice.
LEMMA UnnoticedKeeps ==
    ASSUME IInv, World \/ \E s \in Streams : StreamBreaks(s)
    PROVE  IInv'
<1>1. UNCHANGED <<shownVars, jogVars, workers, signals, failedChecks, window>>
  BY DEF World, SerialFails, ArmFallsSilent, ArmIsBack, AlarmRises, AlarmEnds, StreamBreaks, linkVars
<1>2. answering' \in BOOLEAN /\ alarm' \in BOOLEAN
  BY DEF World, SerialFails, ArmFallsSilent, ArmIsBack, AlarmRises, AlarmEnds, StreamBreaks,
         IInv, RestTypes, armVars
<1>3. (Fault \/ UNCHANGED faults) /\ link' \in {link, "closed", "dead"}
  BY DEF World, SerialFails, ArmFallsSilent, ArmIsBack, AlarmRises, AlarmEnds, StreamBreaks, linkVars
<1>4. LinkTypes'
  <2>1. faults' \in 0..MaxFaults
    BY <1>3, FaultCounts DEF IInv
  <2> QED  BY <1>1, <1>3, <2>1 DEF IInv, LinkTypes
<1>5. StreamsFit' /\ ControlsMatch' /\ JogsFit'
  BY <1>1, ShownUntouched, JogUntouched DEF IInv, StaysClosed
<1>6. RestTypes' /\ NotYet'
  BY <1>1, <1>2 DEF IInv, RestTypes, NotYet, workers, signals, shownVars
<1> QED  BY <1>4, <1>5, <1>6 DEF IInv

-----------------------------------------------------------------------------
(* The theorems                                                             *)

LEMMA NextIInv == IInv /\ [Next]_vars => IInv'
<1> SUFFICES ASSUME IInv, [Next]_vars
             PROVE  IInv'
  OBVIOUS
<1>1. CASE Slot
  BY <1>1, ConnectToArmKeeps, CheckConnectionKeeps, ReconnectKeeps, SendCommandKeeps, PressKeeps,
     ReleaseStepKeeps, StartHomingKeeps, FinishHomingKeeps, StartMoveKeeps, FinishMoveKeeps,
     ClearAlarmsKeeps, UpdateAlarmsKeeps, CloseKeeps
     DEF Slot
<1>2. CASE HomeEnds \/ MoveEnds
  BY <1>2, WorkersKeep
<1>3. CASE \E s \in Streams : StreamStep(s)
  <2>1. PICK s \in Streams : StreamStep(s)
    BY <1>3
  <2> QED  BY <2>1, SampleKeeps, StreamEndsKeeps, UnnoticedKeeps DEF StreamStep
<1>4. CASE World
  BY <1>4, UnnoticedKeeps
<1>5. CASE UNCHANGED vars
  <2>1. /\ UNCHANGED <<armVars, shownVars, jogVars, workers, signals, window>>
        /\ link' = link /\ failedChecks' = failedChecks /\ faults' = faults
    BY <1>5 DEF vars, linkVars
  <2>2. StreamsFit' /\ ControlsMatch' /\ JogsFit'
    BY <2>1, ShownUntouched, JogUntouched DEF IInv, StaysClosed
  <2>3. RestTypes' /\ NotYet' /\ LinkTypes'
    BY <2>1 DEF IInv, RestTypes, NotYet, LinkTypes, armVars, shownVars, workers, signals
  <2> QED  BY <2>2, <2>3 DEF IInv
<1> QED  BY <1>1, <1>2, <1>3, <1>4, <1>5 DEF Next

LEMMA IInvHolds == Spec => []IInv
<1>1. Init => IInv
  BY InitIInv
<1>2. IInv /\ [Next]_vars => IInv'
  BY NextIInv
<1> QED  BY <1>1, <1>2, PTL DEF Spec

\* When no two threads stream, one at most does.
LEMMA OneActive ==
    ASSUME StreamsFit
    PROVE  OneStream
<1>1. CASE Active = {}
  BY <1>1, FS_EmptySet DEF OneStream
<1>2. CASE Active # {}
  <2>1. PICK s : s \in Active
    BY <1>2
  <2>2. Active = {s}
    BY <2>1 DEF Active, StreamsFit
  <2>3. Cardinality(Active) = 1
    BY <2>2, FS_Singleton
  <2>4. connected
    BY <2>1 DEF Active, StreamsFit
  <2> QED  BY <2>3, <2>4 DEF OneStream
<1> QED  BY <1>1, <1>2

\* Every variable has its values; a window that shows the arm as disconnected, or homes it,
\* offers nothing that moves it, and no typed move while one runs; and one pose stream at most
\* goes on, for an arm shown as connected (panel.py set_connection_state, set_controls_enabled).
THEOREM ControlsAndStream == Spec => []PanelInvariant
<1>1. IInv => PanelInvariant
  <2> SUFFICES ASSUME IInv
               PROVE  PanelInvariant
    OBVIOUS
  <2>1. TypeOK
    BY DEF IInv, StreamsFit, JogsFit, ControlsMatch, LinkTypes, RestTypes, TypeOK
  <2>2. ControlsFit
    BY DEF IInv, ControlsMatch, ControlsFit
  <2>3. OneStream
    BY OneActive DEF IInv
  <2> QED  BY <2>1, <2>2, <2>3 DEF PanelInvariant
<1> QED  BY <1>1, IInvHolds, PTL

\* An arm that jogs has its segment held, or jog_stop() has been called for that jog and failed
\* with its retry, or the window is closed: every way in which a segment is let go of, its pad
\* being disabled among them, sends the stop (widgets.py release_pressed_segment and
\* changeEvent, panel.py stop_jog). What the user reads of the failure is another matter.
THEOREM JogsEnd == Spec => []JogHasButton
<1>1. IInv => JogHasButton
  BY DEF IInv, JogsFit
<1> QED  BY <1>1, IInvHolds, PTL

=============================================================================
