---------------------------- MODULE SpeedsProofs ----------------------------
(* Theorems about Speeds: the file keeps what was saved, and the slider, the  *)
(* arm and its jogs agree, for any arms, scripts, speeds and bounds.         *)
EXTENDS Speeds, TLAPS

USE SpeedsAssumption

Speed == Ratios \cup Shown
Save == [pc : {"none", "start", "read", "cut", "end"}, speed : Speed \cup {0},
         text : Entries \cup {None}]

InFile(t) == save[t].pc \in {"read", "cut"}

\* While no two saves have met, a thread that works on the file has its true contents.
Saving ==
    /\ \A t \in Savers : save[t].pc # "none" => save[t].speed \in Speed
    /\ \A t \in Savers : InFile(t) => save[t].text \in Entries
    /\ ~overlapped =>
          /\ \A t, u \in Savers : InFile(t) /\ InFile(u) => t = u
          /\ \A t \in Savers : InFile(t) => save[t].text = wanted
          /\ (\A t \in Savers : save[t].pc # "cut") => file = wanted

\* What the GUI thread is about to send is on the slider; only a connected arm's
\* slider is held; a report on its way is the last one of its stream.
WindowSound ==
    /\ ~Free => save[Gui].speed = slider
    /\ held => connected
    /\ last # None /\ posted # <<>> => posted = <<last>>

\* Jogs have the speed of the slider, and a difference to the arm's own speed will
\* be reported.
Following ==
    Free /\ ~held /\ ~unsent =>
        /\ jog = slider
        /\ ~Hasty /\ connected /\ last = ptp /\ posted = <<>> => slider = Percent(ptp)

Steady == TypeOK /\ Saving /\ WindowSound /\ Following

-----------------------------------------------------------------------------
\* Every speed is shown as a percentage, and a shown speed as itself.
LEMMA PercentShown ==
    /\ \A v \in Ratios : Percent(v) \in Shown
    /\ \A v \in Shown : v \in 1..100 /\ Percent(v) = v
    /\ \A v \in Speed : v \in Int /\ Percent(v) \in Shown
    /\ Default \in Shown
<1>1. \A v \in Int : Percent(v) \in 1..100
  BY DEF Percent
<1>2. \A v \in 1..100 : Percent(v) = v
  BY DEF Percent
<1>3. \A v \in Ratios : Percent(v) \in Shown
  BY DEF Shown
<1>4. \A v \in Shown : v \in 1..100
  BY <1>1 DEF Shown
<1>5. Default \in Shown
  <2>1. Default = Percent(Default)
    BY <1>2
  <2> QED  BY <2>1, <1>3
<1> QED  BY <1>2, <1>3, <1>4, <1>5 DEF Speed

\* A thread's save goes on.
LEMMA SaveTyped ==
    ASSUME save \in [Savers -> Save], NEW t \in Savers, NEW r \in Save,
           save' = [save EXCEPT ![t] = r]
    PROVE  /\ save' \in [Savers -> Save] /\ save'[t] = r
           /\ \A u \in Savers \ {t} : save'[u] = save[u]
OBVIOUS

\* The file is read.
LEMMA SaveReadsKeeps ==
    ASSUME Steady, NEW t \in Savers, SaveReads(t)
    PROVE  Steady'
<1> USE DEF Steady
<1>0. PICK r \in Save : r = save[t]
  BY DEF TypeOK, Save, Speed
<1>1. PICK d \in Save : /\ save' = [save EXCEPT ![t] = d] /\ d.speed = r.speed
                        /\ (d.pc = "read" /\ d.text = file) \/ d.pc = "end"
  <2>1. [r EXCEPT !.pc = "read", !.text = file] \in Save /\ [r EXCEPT !.pc = "end"] \in Save
    BY DEF Save, TypeOK
  <2> QED  BY <1>0, <2>1 DEF SaveReads, Save
<1>2. save \in [Savers -> Save]
  BY DEF TypeOK, Save, Speed
<1>3. /\ save' \in [Savers -> Save] /\ save'[t] = d
      /\ \A u \in Savers \ {t} : save'[u] = save[u]
  BY <1>1, <1>2
<1>4. TypeOK'
  BY <1>3 DEF TypeOK, SaveReads, Save, Speed, armVars, guiVars
<1>5. Saving'
  <2>1. /\ r.pc = "start" /\ file' = file /\ wanted' = wanted
        /\ overlapped' = (overlapped \/ \E u \in Savers \ {t} : InFile(u))
    BY <1>0 DEF SaveReads, InFile
  <2>2. file \in Entries /\ r.speed \in Speed
    BY <1>0, <2>1 DEF TypeOK, Saving
  <2>3. \A u \in Savers : save'[u].pc # "none" => save'[u].speed \in Speed
    BY <1>1, <1>3, <2>2 DEF Saving
  <2>4. \A u \in Savers : InFile(u)' => save'[u].text \in Entries
    BY <1>1, <1>3, <2>2 DEF Saving, InFile
  <2>5. ASSUME ~overlapped'
        PROVE  /\ \A u, v \in Savers : InFile(u)' /\ InFile(v)' => u = v
               /\ \A u \in Savers : InFile(u)' => save'[u].text = wanted'
               /\ (\A u \in Savers : save'[u].pc # "cut") => file' = wanted'
    <3>1. ~overlapped /\ \A u \in Savers : ~InFile(u)
      BY <1>0, <2>1, <2>5 DEF InFile
    <3>2. file = wanted
      BY <3>1 DEF Saving, InFile
    <3>3. \A u \in Savers \ {t} : ~InFile(u)'
      BY <1>3, <3>1 DEF InFile
    <3> QED  BY <1>1, <1>3, <2>1, <3>2, <3>3 DEF InFile
  <2> QED  BY <2>3, <2>4, <2>5 DEF Saving
<1>6. WindowSound' /\ Following'
  BY <1>0, <1>1, <1>3 DEF WindowSound, Following, Free, SaveReads, armVars, guiVars, Savers
<1> QED  BY <1>4, <1>5, <1>6

\* The file is emptied, and the thread has its contents.
LEMMA SaveOpensKeeps ==
    ASSUME Steady, NEW t \in Savers, SaveOpens(t)
    PROVE  Steady'
<1> USE DEF Steady
<1>1. save \in [Savers -> Save] /\ file' \in Entries
  BY DEF TypeOK, Save, Speed, SaveOpens, Entries
<1>2. PICK r \in Save : r = save[t]
  BY <1>1
<1>3. PICK d \in Save : /\ save' = [save EXCEPT ![t] = d] /\ d.pc = "cut"
                        /\ d.speed = r.speed /\ d.text = r.text
  <2>1. [r EXCEPT !.pc = "cut"] \in Save
    BY DEF Save
  <2> QED  BY <1>2, <2>1 DEF SaveOpens, Save
<1>4. /\ save' \in [Savers -> Save] /\ save'[t] = d
      /\ \A u \in Savers \ {t} : save'[u] = save[u]
  BY <1>1, <1>3
<1>5. TypeOK'
  BY <1>1, <1>4 DEF TypeOK, SaveOpens, Save, Speed, armVars, guiVars
<1>6. Saving'
  BY <1>2, <1>3, <1>4 DEF Saving, InFile, SaveOpens
<1>7. WindowSound' /\ Following'
  BY <1>2, <1>3, <1>4 DEF WindowSound, Following, Free, SaveOpens, armVars, guiVars, Savers
<1> QED  BY <1>5, <1>6, <1>7

\* The text is written back with one entry replaced.
LEMMA SaveWritesKeeps ==
    ASSUME Steady, NEW t \in Savers, SaveWrites(t)
    PROVE  Steady'
<1> USE DEF Steady
<1>1. save \in [Savers -> Save]
  BY DEF TypeOK, Save, Speed
<1>2. PICK r \in Save : r = save[t]
  BY <1>1
<1>3. PICK d \in Save : save' = [save EXCEPT ![t] = d] /\ d.pc = "end" /\ d.speed = r.speed
  <2>1. [r EXCEPT !.pc = "end", !.text = None] \in Save
    BY DEF Save
  <2>2. save' = [save EXCEPT ![t] = [r EXCEPT !.pc = "end", !.text = None]]
    BY <1>2 DEF SaveWrites
  <2> QED  BY <2>1, <2>2 DEF Save
<1>4. /\ save' \in [Savers -> Save] /\ save'[t] = d
      /\ \A u \in Savers \ {t} : save'[u] = save[u]
  BY <1>1, <1>3
<1>5. file' \in Entries /\ wanted' \in Entries
  <2>1. save[t].text \in Entries /\ save[t].speed \in Speed /\ wanted \in Entries
    BY DEF Saving, InFile, SaveWrites, TypeOK
  <2>2. ASSUME NEW e \in Entries, NEW a \in Arms, NEW v \in Speed
        PROVE  [e EXCEPT ![a] = v] \in Entries
    BY DEF Entries, Speed
  <2>3. ArmBy(t) \in Arms
    BY DEF ArmBy, Savers
  <2> QED  BY <2>1, <2>2, <2>3 DEF SaveWrites, Edited
<1>6. TypeOK'
  BY <1>4, <1>5 DEF TypeOK, SaveWrites, Save, Speed, armVars, guiVars
<1>7. Saving'
  <2>1. /\ save[t].pc = "cut" /\ overlapped' = overlapped
        /\ file' = [save[t].text EXCEPT ![ArmBy(t)] = save[t].speed]
        /\ wanted' = [wanted EXCEPT ![ArmBy(t)] = save[t].speed]
    BY DEF SaveWrites, Edited
  <2>2. \A u \in Savers : InFile(u)' => u # t /\ InFile(u)
    BY <1>3, <1>4 DEF InFile
  <2>3. \A u \in Savers : save'[u].pc # "none" => save'[u].speed \in Speed
    BY <1>2, <1>3, <1>4, <2>1 DEF Saving
  <2>4. \A u \in Savers : InFile(u)' => save'[u].text \in Entries
    BY <1>4, <2>2 DEF Saving
  <2>5. ASSUME ~overlapped'
        PROVE  file' = wanted' /\ \A u \in Savers : ~InFile(u)'
    <3>1. InFile(t) /\ save[t].text = wanted /\ \A u \in Savers : InFile(u) => u = t
      BY <2>1, <2>5 DEF Saving, InFile
    <3> QED  BY <2>1, <2>2, <3>1
  <2> QED  BY <2>3, <2>4, <2>5 DEF Saving
<1>8. WindowSound' /\ Following'
  BY <1>2, <1>3, <1>4 DEF WindowSound, Following, Free, SaveWrites, armVars, guiVars, Savers
<1> QED  BY <1>6, <1>7, <1>8

\* A script sets a speed: the stream has seen the last one, or may have missed it.
LEMMA ScriptSetsKeeps ==
    ASSUME Steady, NEW s \in Scripts, ScriptSets(s)
    PROVE  Steady'
<1> USE DEF Steady, fileVars, armVars, guiVars
<1>1. save \in [Savers -> Save] /\ s \in Savers /\ s # Gui
  BY DEF TypeOK, Save, Speed, Savers
<1>2. PICK v \in Ratios : /\ save' = [save EXCEPT ![s] = [NoSave EXCEPT !.pc = "start", !.speed = v]]
                          /\ IF ArmOf[s] = Own THEN (Hasty \/ Seen) /\ ptp' = v ELSE UNCHANGED ptp
  BY DEF ScriptSets
<1>3. PICK d \in Save : save' = [save EXCEPT ![s] = d] /\ d.pc = "start" /\ d.speed = v
  <2>1. [NoSave EXCEPT !.pc = "start", !.speed = v] \in Save
    BY DEF NoSave, Save, Speed
  <2> QED  BY <1>2, <2>1 DEF NoSave, Save
<1>4. /\ save' \in [Savers -> Save] /\ save'[s] = d
      /\ \A u \in Savers \ {s} : save'[u] = save[u]
  BY <1>1, <1>3
<1>a. TypeOK'
  BY <1>2, <1>4 DEF TypeOK, Save, Speed, ScriptSets, Sets, Seen, Speed
<1>b. Saving'
  BY <1>3, <1>4 DEF Saving, InFile, ScriptSets, Sets, Seen, Speed
<1>c. WindowSound'
  BY <1>1, <1>4 DEF WindowSound, Free, Savers, TypeOK, ScriptSets, Sets, Seen, Speed
<1>d. Following'
  BY <1>1, <1>2, <1>4, PercentShown
  DEF Following, WindowSound, Free, Savers, TypeOK, ScriptSets, Sets, Seen, Speed
<1> QED  BY <1>a, <1>b, <1>c, <1>d

\* A script's save is over.
LEMMA ScriptGoesOnKeeps ==
    ASSUME Steady, NEW s \in Scripts, ScriptGoesOn(s)
    PROVE  Steady'
<1> USE DEF Steady, fileVars, armVars, guiVars
<1>1. save \in [Savers -> Save] /\ s \in Savers /\ s # Gui
  BY DEF TypeOK, Save, Speed, Savers
<1>2. NoSave \in Save /\ NoSave.pc = "none"
  BY DEF NoSave, Save
<1>3. /\ save' \in [Savers -> Save] /\ save'[s] = NoSave
      /\ \A u \in Savers \ {s} : save'[u] = save[u]
  BY <1>1, <1>2 DEF ScriptGoesOn
<1>a. TypeOK'
  BY <1>3 DEF TypeOK, Save, Speed, ScriptGoesOn
<1>b. Saving'
  BY <1>2, <1>3 DEF Saving, InFile, ScriptGoesOn
<1>c. WindowSound'
  BY <1>1, <1>3 DEF WindowSound, Free, Savers, TypeOK, ScriptGoesOn
<1>d. Following'
  BY <1>1, <1>3 DEF Following, WindowSound, Free, Savers, TypeOK, ScriptGoesOn
<1> QED  BY <1>a, <1>b, <1>c, <1>d

\* apply_speed begins.
LEMMA ApplyTyped ==
    ASSUME Steady, NEW v \in Shown, Apply(v)
    PROVE  /\ active' \in Entries /\ save' \in [Savers -> Save]
           /\ save'[Gui].pc \in {"start", "end"} /\ save'[Gui].speed = v
           /\ \A u \in Savers \ {Gui} : save'[u] = save[u]
<1>1. save \in [Savers -> Save] /\ active \in Entries /\ Gui \in Savers
  BY DEF Steady, TypeOK, Save, Speed, Savers
<1>2. ASSUME NEW pc \in {"start", "end"}
      PROVE  /\ [NoSave EXCEPT !.pc = pc, !.speed = v] \in Save
             /\ [NoSave EXCEPT !.pc = pc, !.speed = v].pc = pc
             /\ [NoSave EXCEPT !.pc = pc, !.speed = v].speed = v
  BY DEF NoSave, Save, Speed
<1>3. PICK pc \in {"start", "end"} : save' = [save EXCEPT ![Gui] = [NoSave EXCEPT !.pc = pc, !.speed = v]]
  BY DEF Apply
<1>4. active' \in Entries
  BY <1>1 DEF Apply, Entries
<1> QED  BY <1>1, <1>2, <1>3, <1>4

\* A click, the wheel or a key sets a speed at once.
LEMMA ClickKeeps ==
    ASSUME Steady, Click
    PROVE  Steady'
<1> USE DEF Steady, fileVars, armVars, guiVars
<1>1. PICK v \in Shown : slider' = v /\ Apply(v)
  BY DEF Click
<1>2. /\ active' \in Entries /\ save' \in [Savers -> Save]
      /\ save'[Gui].pc \in {"start", "end"} /\ save'[Gui].speed = v
      /\ \A u \in Savers \ {Gui} : save'[u] = save[u]
  BY <1>1, ApplyTyped
<1>3. v \in Speed
  BY DEF Speed
<1>a. TypeOK'
  BY <1>1, <1>2 DEF TypeOK, Save, Speed, Click, Sets, Speed
<1>b. Saving'
  BY <1>2, <1>3 DEF Saving, InFile, Free, Click
<1>c. WindowSound'
  BY <1>1, <1>2 DEF WindowSound, Free, Savers, TypeOK, Click, Sets, Speed
<1>d. Following'
  BY <1>1, <1>2 DEF Following, WindowSound, Free, Savers, TypeOK, Click, Sets, Speed
<1> QED  BY <1>a, <1>b, <1>c, <1>d

\* The slider is dragged.
LEMMA DragKeeps ==
    ASSUME Steady, Drag
    PROVE  Steady'
<1> USE DEF Steady, fileVars, armVars, guiVars
<1>a. TypeOK'
  BY DEF TypeOK, Save, Speed, Drag, Sets
<1>b. Saving'
  BY DEF Saving, InFile, Drag, Sets
<1>c. WindowSound'
  BY DEF WindowSound, Free, Savers, TypeOK, Drag, Sets
<1>d. Following'
  BY DEF Following, WindowSound, Free, Savers, TypeOK, Drag, Sets
<1> QED  BY <1>a, <1>b, <1>c, <1>d

\* Releasing the slider sets what it shows.
LEMMA DropKeeps ==
    ASSUME Steady, Drop
    PROVE  Steady'
<1> USE DEF Steady, fileVars, armVars, guiVars
<1>1. slider \in Shown /\ Apply(slider)
  BY DEF TypeOK, Drop
<1>2. /\ active' \in Entries /\ save' \in [Savers -> Save]
      /\ save'[Gui].pc \in {"start", "end"} /\ save'[Gui].speed = slider
      /\ \A u \in Savers \ {Gui} : save'[u] = save[u]
  BY <1>1, ApplyTyped
<1>3. slider \in Speed
  BY <1>1 DEF Speed
<1>a. TypeOK'
  BY <1>1, <1>2 DEF TypeOK, Save, Speed, Drop, Speed
<1>b. Saving'
  BY <1>2, <1>3 DEF Saving, InFile, Free, Drop
<1>c. WindowSound'
  BY <1>1, <1>2 DEF WindowSound, Free, Savers, TypeOK, Drop, Speed
<1>d. Following'
  BY <1>1, <1>2 DEF Following, WindowSound, Free, Savers, TypeOK, Drop, Speed
<1> QED  BY <1>a, <1>b, <1>c, <1>d

\* The speed is sent to the arm, in two writes, or is not.
LEMMA SendSpeedKeeps ==
    ASSUME Steady, SendSpeed
    PROVE  Steady'
<1> USE DEF Steady, fileVars, armVars, guiVars
<1>1. save \in [Savers -> Save] /\ Gui \in Savers
  BY DEF TypeOK, Save, Speed, Savers
<1>2. NoSave \in Save /\ NoSave.pc = "none"
  BY DEF NoSave, Save
<1>3. /\ save' \in [Savers -> Save] /\ save'[Gui] = NoSave
      /\ \A u \in Savers \ {Gui} : save'[u] = save[u]
  BY <1>1, <1>2 DEF SendSpeed
<1>4. save[Gui].speed = slider /\ slider \in Shown
  BY DEF SendSpeed, WindowSound, Free, TypeOK
<1>5. faults' \in 0..MaxFaults
  BY DEF SendSpeed, Fault, TypeOK
<1>6. ptp' \in Speed /\ jog' \in Shown
  BY <1>4 DEF SendSpeed, Sent, SendFails, TypeOK, Speed
<1>7. /\ unsent' \in BOOLEAN /\ held' \in BOOLEAN /\ connected' \in BOOLEAN
      /\ last' \in Speed \cup {None}
  BY DEF SendSpeed, Sent, SendFails, KeepShown, ShowLost, TypeOK, Speed
<1>a. TypeOK'
  BY <1>3, <1>5, <1>6, <1>7 DEF TypeOK, Save, Speed, SendSpeed
<1>b. Saving'
  BY <1>2, <1>3 DEF Saving, InFile, SendSpeed, Fault, Sent, SendFails, KeepShown, ShowLost
<1>c. WindowSound'
  BY <1>2, <1>3
  DEF WindowSound, Free, Savers, TypeOK, SendSpeed, Fault, Sent, SendFails, KeepShown, ShowLost
<1>d. Following'
  BY <1>2, <1>3, <1>4, PercentShown
  DEF Following, WindowSound, Free, Savers, TypeOK, SendSpeed, Fault, Sent, SendFails,
      KeepShown, ShowLost
<1> QED  BY <1>a, <1>b, <1>c, <1>d

\* The stream reports a speed that differs from the last one.
LEMMA SampleSpeedKeeps ==
    ASSUME Steady, SampleSpeed
    PROVE  Steady'
<1> USE DEF Steady, fileVars, armVars, guiVars
<1>a. TypeOK'
  BY DEF TypeOK, Save, Speed, SampleSpeed, Differs
<1>b. Saving'
  BY DEF Saving, InFile, SampleSpeed, Differs
<1>c. WindowSound'
  BY DEF WindowSound, Free, Savers, TypeOK, SampleSpeed, Differs
<1>d. Following'
  BY DEF Following, WindowSound, Free, Savers, TypeOK, SampleSpeed, Differs
<1> QED  BY <1>a, <1>b, <1>c, <1>d

\* The window takes a report.
LEMMA SyncSpeedKeeps ==
    ASSUME Steady, SyncSpeed
    PROVE  Steady'
<1> USE DEF Steady, fileVars, armVars, guiVars
<1>1. Head(posted) \in Speed /\ Percent(Head(posted)) \in Shown
  <2>1. posted \in Seq(Speed) /\ posted # <<>>
    BY DEF TypeOK, SyncSpeed, Speed
  <2>2. Head(posted) \in Speed
    BY <2>1
  <2> QED  BY <2>2, PercentShown
<1>2. posted' \in Seq(Speed)
  BY DEF TypeOK, SyncSpeed, Speed
<1>3. faults' \in 0..MaxFaults
  BY DEF SyncSpeed, Fault, TypeOK
<1>5. unsent' \in BOOLEAN
  BY DEF SyncSpeed, TypeOK
<1>4. jog' \in Shown
  BY <1>1 DEF SyncSpeed, JogToo, TypeOK
<1>a. TypeOK'
  BY <1>1, <1>2, <1>3, <1>4, <1>5 DEF TypeOK, Speed, SyncSpeed
<1>b. Saving'
  BY DEF Saving, InFile, SyncSpeed, JogToo, Fault
<1>c. WindowSound'
  BY DEF WindowSound, Free, Savers, TypeOK, SyncSpeed, JogToo, Fault
<1>d. Following'
  BY <1>1, PercentShown DEF Following, WindowSound, Free, Savers, TypeOK, SyncSpeed, JogToo, Fault
<1> QED  BY <1>a, <1>b, <1>c, <1>d

\* The arm stops answering; what the slider was being dragged to is lost.
LEMMA LoseArmKeeps ==
    ASSUME Steady, LoseArm
    PROVE  Steady'
<1> USE DEF Steady, fileVars, armVars, guiVars
<1>1. unsent' \in BOOLEAN
  BY DEF LoseArm
<1>2. faults' \in 0..MaxFaults
  BY DEF LoseArm, Fault, TypeOK
<1>a. TypeOK'
  BY <1>1, <1>2 DEF TypeOK, LoseArm, ShowLost
<1>b. Saving'
  BY DEF Saving, InFile, LoseArm, Fault, ShowLost
<1>c. WindowSound'
  BY DEF WindowSound, Free, Savers, TypeOK, LoseArm, Fault, ShowLost
<1>d. Following'
  BY DEF Following, WindowSound, Free, Savers, TypeOK, LoseArm, Fault, ShowLost
<1> QED  BY <1>a, <1>b, <1>c, <1>d

\* The arm answers again and gets its saved speed.
LEMMA FindArmKeeps ==
    ASSUME Steady, FindArm
    PROVE  Steady'
<1> USE DEF Steady, fileVars, armVars, guiVars
<1>1. \A text \in Loaded : text \in Entries /\ Percent(SavedIn(text)) \in Shown
  <2>1. \A text \in Loaded : text \in Entries
    BY DEF Loaded, TypeOK
  <2>2. \A text \in Entries : SavedIn(text) \in Speed
    BY PercentShown DEF Entries, SavedIn, Speed
  <2> QED  BY <2>1, <2>2, PercentShown
<1>2. faults' \in 0..MaxFaults
  BY DEF FindArm, Fault, TypeOK
<1>3. CASE /\ serial' = TRUE
           /\ \E text \in Loaded :
                 LET v == Percent(SavedIn(text))
                 IN  /\ active' = text /\ slider' = v
                     /\ \/ Sent(v) /\ UNCHANGED faults
                        \/ SendFails(v) /\ Fault
  <2>1. PICK text \in Loaded : /\ active' = text /\ slider' = Percent(SavedIn(text))
                               /\ Sent(Percent(SavedIn(text))) \/ SendFails(Percent(SavedIn(text)))
    BY <1>3
  <2>2. active' \in Entries /\ Percent(SavedIn(text)) \in Shown
    BY <1>1, <2>1
  <2>3. /\ slider' \in Shown /\ ptp' \in Speed /\ jog' \in Shown /\ unsent' \in BOOLEAN
        /\ unsent' = FALSE => jog' = slider'
    BY <2>1, <2>2 DEF Sent, SendFails, TypeOK, Speed
  <2>4. TypeOK' /\ Saving' /\ WindowSound'
    BY <1>2, <1>3, <2>2, <2>3 DEF FindArm, TypeOK, Speed, Saving, InFile, WindowSound, Free
  <2>5. Following'
    BY <2>3 DEF FindArm, Following, Free, TypeOK, Speed
  <2> QED  BY <2>4, <2>5
<1>4. CASE Fault /\ UNCHANGED <<active, slider, armVars, serial>>
  <2>1. TypeOK' /\ Saving' /\ WindowSound'
    BY <1>2, <1>4 DEF FindArm, TypeOK, Saving, InFile, WindowSound, Free
  <2>2. Following'
    BY <1>4 DEF FindArm, Following, WindowSound, Free, TypeOK
  <2> QED  BY <2>1, <2>2
<1> QED  BY <1>3, <1>4 DEF FindArm

-----------------------------------------------------------------------------
\* The inductive invariant holds in every reachable state.
LEMMA SteadyInvariant == Spec => []Steady
<1>1. Init => Steady
  <2> SUFFICES ASSUME Init  PROVE Steady
    OBVIOUS
  <2> USE DEF Init
  <2>1. NoSave \in Save /\ NoSave.pc = "none"
    BY DEF NoSave, Save
  <2>2. file \in Entries /\ active \in Entries /\ wanted \in Entries
    BY DEF Entries
  <2>3. TypeOK
    <3>1. save \in [Savers -> Save] /\ posted \in Seq(Speed)
      BY <2>1
    <3>2. ptp \in Speed /\ jog \in Shown /\ slider \in Shown
      BY PercentShown DEF Speed
    <3>3. sets \in 0..MaxSets /\ faults \in 0..MaxFaults /\ last \in Speed \cup {None}
      OBVIOUS
    <3>4. /\ overlapped \in BOOLEAN /\ unsent \in BOOLEAN /\ held \in BOOLEAN
          /\ connected \in BOOLEAN /\ serial \in BOOLEAN
      OBVIOUS
    <3> HIDE DEF Init
    <3> QED  BY <2>2, <3>1, <3>2, <3>3, <3>4 DEF TypeOK, Save, Speed
  <2>4. Saving
    BY <2>1 DEF Saving, InFile
  <2>5. WindowSound /\ Following
    BY <2>1 DEF WindowSound, Following, Free, Savers
  <2> QED  BY <2>3, <2>4, <2>5 DEF Steady
<1>2. Steady /\ [Next]_vars => Steady'
  <2> SUFFICES ASSUME Steady, [Next]_vars  PROVE Steady'
    OBVIOUS
  <2>1. CASE Next
    BY <2>1, SaveReadsKeeps, SaveOpensKeeps, SaveWritesKeeps, ScriptSetsKeeps, ScriptGoesOnKeeps,
       ClickKeeps, DragKeeps, DropKeeps, SendSpeedKeeps, SampleSpeedKeeps, SyncSpeedKeeps, LoseArmKeeps,
       FindArmKeeps
    DEF Next, Window, SaveStep
  <2>2. CASE UNCHANGED vars
    BY <2>2
    DEF vars, fileVars, armVars, guiVars, Steady, TypeOK, Saving, InFile, WindowSound,
        Following, Free
  <2> QED  BY <2>1, <2>2
<1> QED  BY <1>1, <1>2, PTL DEF Spec

\* config.py save_arm_speed: whatever else the programs do, a save that meets no
\* other leaves the other arms' speeds in the file as they were saved last.
THEOREM SpeedsKept == Spec => []SpeedsInvariant
<1>1. Steady => SpeedsInvariant
  BY DEF Steady, Saving, InFile, SpeedsInvariant, SavedKept
<1> QED  BY <1>1, SteadyInvariant, PTL

\* panel.py sync_speed and apply_speed: for any speeds, when scripts leave the pose
\* stream the time to see each speed, the slider, the arm and its jogs agree as soon
\* as everything is taken in.
THEOREM SpeedsAgree == ~Hasty /\ Spec => []SettledAgree
<1>1. ~Hasty /\ Steady => SettledAgree
  <2> SUFFICES ASSUME ~Hasty, Steady, Taken, ~unsent
      PROVE  slider = Percent(ptp) /\ jog = Percent(ptp)
    BY DEF SettledAgree
  <2> QED  BY DEF Steady, Following, Taken
<1>2. CASE Hasty
  BY <1>2
<1>3. CASE ~Hasty
  BY <1>1, <1>3, SteadyInvariant, PTL
<1> QED  BY <1>2, <1>3
=============================================================================
