------------------------------- MODULE Speeds -------------------------------
(* The speed of an arm in its four places: on the arm, on the slider of its  *)
(* window (panel.py), in the configuration file (config.py), and with the    *)
(* pose stream, which reports a change. Scripts set and save speeds as well. *)
(*                                                                          *)
(* The file is seen as the entries of [motion.arms]. Two writers at once may *)
(* mix their texts; here the later one's stays.                              *)
EXTENDS Integers, Sequences

CONSTANTS
    Arms, Own,          \* the arms; the one whose window this is
    Scripts, ArmOf,     \* the scripts; the arm each of them drives
    Gui,                \* the panel's GUI thread
    Ratios, Default,    \* velocity ratios in percent; the configured default
    None,
    Hasty,              \* a script may set a speed before the stream has seen the last one
    MaxSets, MaxFaults  \* bounds: speeds set by anyone, exchanges that fail

Savers == Scripts \cup {Gui}

ASSUME SpeedsAssumption ==
    /\ Own \in Arms /\ ArmOf \in [Scripts -> Arms] /\ Gui \notin Scripts
    /\ Ratios \subseteq Int /\ Default \in Ratios \cap 1..100 /\ None \notin Int
    /\ Hasty \in BOOLEAN /\ MaxSets \in Nat /\ MaxFaults \in Nat

VARIABLES
    file, active,       \* the saved speeds: in the file, and in the panel's memory
    save,               \* what each thread is doing to the file
    ptp, jog,           \* the arm's speeds of moves and jogs
    slider, held,       \* the slider, and whether it is being dragged
    connected, serial,  \* _connected; _serial_number is known
    last, posted,       \* _last_speed, and speedChanged signals not delivered yet
    wanted, overlapped, \* history: the speed last saved; two saves at the same time
    unsent,             \* history: a speed did not get to the arm, and none has since
    sets, faults

fileVars == <<file, active, save, wanted, overlapped>>
armVars == <<ptp, jog, unsent>>
guiVars == <<slider, held, connected, serial>>
vars == <<fileVars, armVars, guiVars, last, posted, sets, faults>>

\* slider_percent
Percent(v) == IF v < 1 THEN 1 ELSE IF v > 100 THEN 100 ELSE v
Shown == {Percent(v) : v \in Ratios}
NoSave == [pc |-> "none", speed |-> 0, text |-> None]

Init ==
    /\ file \in [Arms -> {None, Default}] /\ active = file /\ wanted = file
    /\ save = [t \in Savers |-> NoSave] /\ overlapped = FALSE
    /\ ptp \in Ratios /\ jog = Default /\ slider = Default
    /\ held = FALSE /\ connected = FALSE /\ serial = FALSE
    /\ last = None /\ posted = <<>> /\ unsent = FALSE
    /\ sets = 0 /\ faults = 0

Fault == faults < MaxFaults /\ faults' = faults + 1
Sets == sets < MaxSets /\ sets' = sets + 1
Free == save[Gui].pc = "none"       \* the GUI thread takes one slot after the other

-----------------------------------------------------------------------------
(* save_arm_speed                                                           *)

ArmBy(t) == IF t = Gui THEN Own ELSE ArmOf[t]

\* Only that arm's line is written.
OnlyLine(text, a, v) == [b \in Arms |-> IF b = a THEN v ELSE None]
Edited(text, a, v) == [text EXCEPT ![a] = v]

\* The file is read, or cannot be.
SaveReads(t) ==
    /\ save[t].pc = "start"
    /\ \/ save' = [save EXCEPT ![t].pc = "read", ![t].text = file]
       \/ save' = [save EXCEPT ![t].pc = "end"]
    /\ overlapped' = (overlapped \/ \E u \in Savers \ {t} : save[u].pc \in {"read", "cut"})
    /\ UNCHANGED <<file, active, wanted, armVars, guiVars, last, posted, sets, faults>>

\* write_text opens the file, which empties it, and then writes.
SaveOpens(t) ==
    /\ save[t].pc = "read"
    /\ save' = [save EXCEPT ![t].pc = "cut"]
    /\ file' = [a \in Arms |-> None]
    /\ UNCHANGED <<active, wanted, overlapped, armVars, guiVars, last, posted, sets, faults>>

SaveWrites(t) ==
    /\ save[t].pc = "cut"
    /\ save' = [save EXCEPT ![t].pc = "end", ![t].text = None]
    /\ file' = Edited(save[t].text, ArmBy(t), save[t].speed)
    /\ wanted' = [wanted EXCEPT ![ArmBy(t)] = save[t].speed]
    /\ UNCHANGED <<active, overlapped, armVars, guiVars, last, posted, sets, faults>>

SaveStep(t) == SaveReads(t) \/ SaveOpens(t) \/ SaveWrites(t)

-----------------------------------------------------------------------------
(* A script sets motion_params                                              *)

Seen == ~connected \/ (last = ptp /\ posted = <<>> /\ Free)

ScriptSets(s) ==
    /\ save[s].pc = "none" /\ Sets
    /\ \E v \in Ratios :
          /\ save' = [save EXCEPT ![s] = [NoSave EXCEPT !.pc = "start", !.speed = v]]
          /\ IF ArmOf[s] = Own THEN (Hasty \/ Seen) /\ ptp' = v ELSE UNCHANGED ptp
    /\ UNCHANGED <<file, active, wanted, overlapped, jog, unsent, guiVars, last, posted, faults>>

ScriptGoesOn(s) ==
    /\ save[s].pc = "end" /\ save' = [save EXCEPT ![s] = NoSave]
    /\ UNCHANGED <<file, active, wanted, overlapped, armVars, guiVars, last, posted, sets, faults>>

-----------------------------------------------------------------------------
(* The window                                                               *)

\* apply_speed begins: the speed goes to the active configuration first.
Apply(v) ==
    /\ active' = IF serial THEN [active EXCEPT ![Own] = v] ELSE active
    /\ save' = [save EXCEPT ![Gui] = [NoSave EXCEPT !.pc = IF serial THEN "start" ELSE "end",
                                                    !.speed = v]]

\* slider_moved: a click, the wheel or a key sets the value at once.
Click ==
    /\ Free /\ connected /\ ~held /\ Sets
    /\ \E v \in Shown \ {slider} : slider' = v /\ Apply(v)
    /\ UNCHANGED <<file, wanted, overlapped, armVars, held, connected, serial, last, posted,
                   faults>>

\* A drag sets it when the slider is released.
Drag ==
    /\ Free /\ connected /\ Sets /\ held' = TRUE
    /\ slider' \in Shown \ {slider}
    /\ UNCHANGED <<fileVars, armVars, connected, serial, last, posted, faults>>

Drop ==
    /\ Free /\ held /\ held' = FALSE /\ Apply(slider)
    /\ UNCHANGED <<file, wanted, overlapped, armVars, slider, connected, serial, last, posted, sets,
                   faults>>

\* The connection is shown as lost, and the stream stops; a slider that is
\* disabled is not held any more.
ShowLost == connected' = FALSE /\ held' = FALSE /\ last' = None
KeepShown == UNCHANGED <<connected, held, last>>

\* send_speed: one write for moves, then one for jogs.
Sent(v) == ptp' = v /\ jog' = v /\ unsent' = FALSE
SendFails(v) == ptp' \in {ptp, v} /\ UNCHANGED jog /\ unsent' = TRUE

\* apply_speed ends: the arm answers and gets the speed, or does not answer.
SendSpeed ==
    /\ save[Gui].pc = "end"
    /\ save' = [save EXCEPT ![Gui] = NoSave]
    /\ \/ connected /\ Sent(save[Gui].speed) /\ KeepShown /\ UNCHANGED faults
       \/ connected /\ Fault /\ SendFails(save[Gui].speed) /\ KeepShown
       \/ connected /\ Fault /\ ShowLost /\ unsent' = TRUE /\ UNCHANGED <<ptp, jog>>
    /\ UNCHANGED <<file, active, wanted, overlapped, slider, serial, posted, sets>>

\* PoseStreamer.push, once a second.
FirstOnly(v) == last = None
Differs(v) == last # v

SampleSpeed ==
    /\ connected /\ Differs(ptp) /\ posted = <<>>
    /\ last' = ptp /\ posted' = Append(posted, ptp)
    /\ UNCHANGED <<fileVars, armVars, guiVars, sets, faults>>

\* sync_speed: the slider shows the speed, and jogs get it too.
JogKept(v) == jog
JogToo(v) == Percent(v)

SyncSpeed ==
    /\ Free /\ posted # <<>> /\ posted' = Tail(posted)
    /\ slider' = Percent(Head(posted))
    /\ \/ slider = slider' /\ UNCHANGED <<jog, unsent, faults>>
       \/ slider # slider' /\ jog' = JogToo(Head(posted)) /\ UNCHANGED <<unsent, faults>>
       \/ slider # slider' /\ UNCHANGED jog /\ unsent' = TRUE /\ Fault
    /\ UNCHANGED <<fileVars, ptp, held, connected, serial, last, sets>>

\* The arm stops answering, which the window notices.
LoseArm ==
    /\ Free /\ connected /\ Fault /\ ShowLost
    /\ unsent' = (unsent \/ held)
    /\ UNCHANGED <<fileVars, ptp, jog, slider, serial, posted, sets>>

\* saved_arm_speed reads the file again. While it is being written there is
\* nothing in it, or half a line: then the active configuration counts.
Cut == \E t \in Savers : save[t].pc = "cut"
SavedIn(text) == IF text[Own] = None THEN Default ELSE text[Own]
Loaded == {file} \cup (IF Cut THEN {active} ELSE {})

\* The arm answers again: apply_saved_speed, and a new stream. Without the serial
\* number nothing is set, and nothing is saved until the next time.
FindArm ==
    /\ Free /\ ~connected /\ connected' = TRUE /\ last' = None
    /\ \/ /\ serial' = TRUE
          /\ \E text \in Loaded :
                LET v == Percent(SavedIn(text))
                IN  /\ active' = text /\ slider' = v
                    /\ \/ Sent(v) /\ UNCHANGED faults
                       \/ SendFails(v) /\ Fault
       \/ Fault /\ UNCHANGED <<active, slider, armVars, serial>>
    /\ UNCHANGED <<file, save, wanted, overlapped, held, posted, sets>>

-----------------------------------------------------------------------------
Window == Click \/ Drag \/ Drop \/ SendSpeed \/ SyncSpeed \/ LoseArm \/ FindArm

Next ==
    \/ Window
    \/ SampleSpeed
    \/ \E t \in Savers : SaveStep(t)
    \/ \E s \in Scripts : ScriptSets(s) \/ ScriptGoesOn(s)

Spec == Init /\ [][Next]_vars

\* Threads run, and the stream samples. Nobody has to let the slider go.
Fairness ==
    /\ \A t \in Savers : WF_vars(SaveStep(t))
    /\ WF_vars(SendSpeed) /\ WF_vars(SampleSpeed) /\ WF_vars(SyncSpeed)

FairSpec == Spec /\ Fairness

-----------------------------------------------------------------------------
(* Properties                                                               *)

Entries == [Arms -> Ratios \cup Shown \cup {None}]

\* Every variable has the values the code can give it.
TypeOK ==
    /\ file \in Entries /\ active \in Entries /\ wanted \in Entries
    /\ save \in [Savers -> [pc : {"none", "start", "read", "cut", "end"},
                            speed : Ratios \cup Shown \cup {0}, text : Entries \cup {None}]]
    /\ overlapped \in BOOLEAN
    /\ ptp \in Ratios \cup Shown /\ jog \in Shown /\ slider \in Shown
    /\ unsent \in BOOLEAN /\ held \in BOOLEAN /\ connected \in BOOLEAN /\ serial \in BOOLEAN
    /\ last \in Ratios \cup Shown \cup {None} /\ posted \in Seq(Ratios \cup Shown)
    /\ sets \in 0..MaxSets /\ faults \in 0..MaxFaults

\* config.py: "Only that arm's line is written." When no two saves have met, the
\* file holds for each arm what was saved for it last.
SavedKept ==
    ~overlapped /\ (\A t \in Savers : save[t].pc \in {"none", "start", "end"}) => file = wanted

SpeedsInvariant == TypeOK /\ SavedKept

\* Once the stream has seen the arm's speed and the window has taken its report,
\* the slider shows what the arm uses, and jogs use it too, whoever has set it
\* and in whatever order; unless a write has failed.
Taken == connected /\ ~held /\ Free /\ last = ptp /\ posted = <<>>
SettledAgree == Taken /\ ~unsent => slider = Percent(ptp) /\ jog = Percent(ptp)

\* A slider that shows something else than the arm's speed moves there.
Astray == connected /\ ~held /\ ~unsent /\ slider # Percent(ptp)
SliderFollows == Astray ~> (~Astray)
=============================================================================
