----------------------------- MODULE RouteProofs -----------------------------
(* Theorems about Route: the registry of open ports, the serial devices and  *)
(* the calls under way agree, for any number of threads, ports and arms, any  *)
(* number of starts of the panel and any number of faults.                   *)
EXTENDS Route, TLAPS

PCs == {"idle", "reached", "unreached", "pick", "scan", "probe", "identify", "close", "open",
        "claimed", "opened", "undo", "failed", "connected", "closing"}
Call == [pc : PCs, route : {"broker", "direct", None}, port : Ports \cup {None},
         todo : SUBSET Ports, found : SUBSET Arms, for : {None, "pick", "check", "reason"}]

\* A call that is at a port knows it, and only a direct call claims one.
AtPort == Holding \cup {"open", "opened", "failed", "connected"}
Located ==
    \A t \in Threads :
        /\ dobot[t].pc \in AtPort \/ (At(t, "idle") /\ dobot[t].route # None) =>
              dobot[t].port \in Ports
        /\ At(t, "claimed") \/ At(t, "undo") => dobot[t].route = "direct"

Typed == TypeOK /\ dobot \in [Threads -> Call] /\ Located

\* The inductive invariant.
Consistent == Typed /\ NoOrphan /\ Owned

USE RouteAssumption

-----------------------------------------------------------------------------
(* Choosing a route and a port                                              *)

\* A call that has just chosen holds nothing, and knows its port when it goes on
\* to open one.
LEMMA ChosenTyped ==
    ASSUME dobot \in [Threads -> Call], NEW t \in Threads, NEW reachable \in BOOLEAN,
           Chosen(t, reachable)
    PROVE  /\ dobot' \in [Threads -> Call]
           /\ \A u \in Threads \ {t} : dobot'[u] = dobot[u]
           /\ dobot'[t].pc \in {"idle", "pick", "open"}
           /\ dobot'[t].pc = "idle" => dobot'[t].route = None
           /\ dobot'[t].pc = "open" => dobot'[t].port \in Ports
<1> DEFINE d == IF t \in Required /\ ~reachable THEN Fresh
                ELSE [Fresh EXCEPT !.pc = IF Explicit[t] = None THEN "pick" ELSE "open",
                                   !.route = IF reachable THEN "broker" ELSE "direct",
                                   !.port = Explicit[t]]
<1>1. /\ d \in Call /\ d.pc \in {"idle", "pick", "open"}
      /\ d.pc = "idle" => d.route = None
      /\ d.pc = "open" => d.port \in Ports
  BY DEF Fresh, Call, PCs
<1>2. dobot' = [dobot EXCEPT ![t] = d]
  BY DEF Chosen
<1> HIDE DEF d
<1> QED  BY <1>1, <1>2

\* Moving on changes nothing else about a call.
LEMMA GoTyped ==
    ASSUME dobot \in [Threads -> Call], NEW t \in Threads, NEW pc \in PCs, Go(t, pc)
    PROVE  /\ dobot' \in [Threads -> Call]
           /\ \A u \in Threads \ {t} : dobot'[u] = dobot[u]
           /\ dobot'[t].pc = pc /\ dobot'[t].route = dobot[t].route
           /\ dobot'[t].port = dobot[t].port /\ dobot'[t].found = dobot[t].found
BY DEF Go, Call

\* A scan starts without holding a port.
LEMMA ScanTyped ==
    ASSUME dobot \in [Threads -> Call], NEW t \in Threads, NEW ports \in SUBSET Ports,
           NEW for \in {"pick", "check", "reason"}, Scan(t, ports, for)
    PROVE  /\ dobot' \in [Threads -> Call]
           /\ \A u \in Threads \ {t} : dobot'[u] = dobot[u]
           /\ dobot'[t].pc = "scan"
<1>0. PICK r \in Call : r = dobot[t]
  OBVIOUS
<1> DEFINE d == [r EXCEPT !.pc = "scan", !.todo = ports, !.for = for, !.found = {}]
<1>1. d \in Call /\ d.pc = "scan"
  BY DEF Call, PCs
<1>2. dobot' = [dobot EXCEPT ![t] = d]
  BY <1>0 DEF Scan
<1> HIDE DEF d
<1> QED  BY <1>1, <1>2

\* A call that is at no port, before or after, disturbs nobody.
LEMMA AwayKeeps ==
    ASSUME Consistent, NEW t \in Threads,
           dobot' \in [Threads -> Call], \A u \in Threads \ {t} : dobot'[u] = dobot[u],
           dobot[t].pc \notin Holding \cup {"opened", "connected"},
           dobot'[t].pc \notin Holding \cup {"opened", "connected"},
           dobot'[t].pc \in {"open", "failed"} \/ (dobot'[t].pc = "idle" /\ dobot'[t].route # None)
              => dobot'[t].port \in Ports,
           UNCHANGED <<claimed, device, panelVars>>,
           cache' \in BOOLEAN \cup {None}, faults' \in 0 .. MaxFaults
    PROVE  Consistent'
<1> USE DEF Consistent, Typed, Holding, At, panelVars
<1>1. TypeOK'
  BY DEF TypeOK
<1>2. Located'
  BY DEF Located, AtPort
<1>3. NoOrphan'
  BY DEF NoOrphan, Holds, Direct, Connected
<1>4. Owned'
  BY DEF Owned, Direct, Connected
<1> QED  BY <1>1, <1>2, <1>3, <1>4

\* connect() looks at what the Dobot has from before, at the cache, or asks.
LEMMA ConnectKeeps ==
    ASSUME Consistent, NEW t \in Threads, Connect(t)
    PROVE  Consistent'
<1> USE DEF At, Holding, panelVars
<1>0. /\ dobot \in [Threads -> Call] /\ cache \in BOOLEAN \cup {None}
      /\ faults \in 0 .. MaxFaults /\ claimed \subseteq Ports /\ Located
  BY DEF Consistent, Typed, TypeOK
<1>1. CASE dobot[t].route # None
  <2>1. Go(t, "open") /\ "open" \in PCs
    BY <1>1 DEF Connect, PCs
  <2> QED  BY <1>0, <1>1, <2>1, GoTyped, AwayKeeps DEF Connect, Located
<1>2. CASE dobot[t].route = None /\ cache # None
  <2>1. cache \in BOOLEAN /\ Chosen(t, cache)
    BY <1>0, <1>2 DEF Connect
  <2> QED  BY <1>0, <2>1, ChosenTyped, AwayKeeps DEF Connect
<1>3. CASE dobot[t].route = None /\ cache = None
  <2>1. PICK pc \in {"reached", "unreached"} : Go(t, pc)
    BY <1>3 DEF Connect
  <2>2. pc \in PCs
    BY DEF PCs
  <2> QED  BY <1>0, <2>1, <2>2, GoTyped, AwayKeeps DEF Connect
<1> QED  BY <1>1, <1>2, <1>3

\* The answer is stored and used, however old it is.
LEMMA StoreAnswerKeeps ==
    ASSUME Consistent, NEW t \in Threads, StoreAnswer(t)
    PROVE  Consistent'
<1> USE DEF At, Holding, panelVars
<1>0. /\ dobot \in [Threads -> Call] /\ cache \in BOOLEAN \cup {None}
      /\ faults \in 0 .. MaxFaults /\ claimed \subseteq Ports /\ Located
  BY DEF Consistent, Typed, TypeOK
<1>1. cache' \in BOOLEAN /\ Chosen(t, cache')
  BY DEF StoreAnswer
<1> QED  BY <1>0, <1>1, ChosenTyped, AwayKeeps DEF StoreAnswer

\* A port the broker lists, or a scan.
LEMMA PickKeeps ==
    ASSUME Consistent, NEW t \in Threads, Pick(t)
    PROVE  Consistent'
<1> USE DEF At, Holding, panelVars
<1>0. /\ dobot \in [Threads -> Call] /\ cache \in BOOLEAN \cup {None}
      /\ faults \in 0 .. MaxFaults /\ claimed \subseteq Ports /\ Located
  BY DEF Consistent, Typed, TypeOK
<1>1. ASSUME NEW p \in ListedPorts, dobot' = [dobot EXCEPT ![t].pc = "open", ![t].port = p]
      PROVE  Consistent'
  <2>0. PICK r \in Call : r = dobot[t]
    BY <1>0
  <2> DEFINE d == [r EXCEPT !.pc = "open", !.port = p]
  <2>1. p \in Ports
    BY DEF ListedPorts, AttachedPorts
  <2>2. d \in Call /\ d.pc = "open" /\ d.port \in Ports
    BY <2>1 DEF Call, PCs
  <2>3. dobot' = [dobot EXCEPT ![t] = d]
    BY <1>1, <2>0
  <2> HIDE DEF d
  <2> QED  BY <1>0, <2>2, <2>3, AwayKeeps DEF Pick
<1>2. CASE Scan(t, Ports \ claimed, "pick")
  BY <1>0, <1>2, ScanTyped, AwayKeeps DEF Pick
<1> QED  BY <1>1, <1>2 DEF Pick

\* is_dobot scans one port.
LEMMA IsDobotKeeps ==
    ASSUME Consistent, NEW t \in Threads, IsDobot(t)
    PROVE  Consistent'
<1> USE DEF At, Holding, panelVars
<1>0. /\ dobot \in [Threads -> Call] /\ cache \in BOOLEAN \cup {None}
      /\ faults \in 0 .. MaxFaults /\ claimed \subseteq Ports /\ Located
  BY DEF Consistent, Typed, TypeOK
<1>1. PICK p \in Ports : Scan(t, {p}, "check")
  BY DEF IsDobot
<1> QED  BY <1>0, <1>1, ScanTyped, AwayKeeps DEF IsDobot

\* A scan opens a port it has claimed, or gives the claim back.
LEMMA ScanOpensKeeps ==
    ASSUME Consistent, NEW t \in Threads, ScanOpens(t)
    PROVE  Consistent'
<1> USE DEF Consistent, Typed, TypeOK, Located, AtPort, Holding, panelVars, At, NoOrphan,
            Owned, Holds, Direct, Connected
<1>1. CASE DeviceOpens(t, "identify")
  <2>1. Go(t, "identify") /\ "identify" \in PCs
    BY <1>1 DEF DeviceOpens, PCs
  <2> QED  BY <1>1, <2>1, GoTyped DEF DeviceOpens, ScanOpens
<1>2. CASE DeviceRefused(t, "scan")
  <2>1. Go(t, "scan") /\ "scan" \in PCs
    BY <1>2 DEF DeviceRefused, PCs
  <2> QED  BY <1>2, <2>1, GoTyped DEF DeviceRefused, ClaimReturned, Discard, ScanOpens
<1> QED  BY <1>1, <1>2 DEF ScanOpens

\* The arm answers, or does not; the device is closed.
LEMMA IdentifyKeeps ==
    ASSUME Consistent, NEW t \in Threads, Identify(t)
    PROVE  Consistent'
<1> USE DEF At, Holding, panelVars
<1>0. /\ dobot \in [Threads -> Call] /\ cache \in BOOLEAN \cup {None}
      /\ faults \in 0 .. MaxFaults /\ claimed \subseteq Ports /\ Located
  BY DEF Consistent, Typed, TypeOK
<1>1. PICK d \in Call : d.pc = "close" /\ d.port = dobot[t].port /\ dobot' = [dobot EXCEPT ![t] = d]
  <2>1. CASE dobot' = [dobot EXCEPT ![t].pc = "close",
                                    ![t].found = @ \cup (Arms \cap {dobot[t].port})]
    <3>0. PICK r \in Call : r = dobot[t]
      BY <1>0
    <3> DEFINE d == [r EXCEPT !.pc = "close", !.found = @ \cup (Arms \cap {r.port})]
    <3>1. d \in Call /\ d.pc = "close" /\ d.port = r.port
      BY DEF Call, PCs
    <3>2. dobot' = [dobot EXCEPT ![t] = d]
      BY <2>1, <3>0
    <3> QED  BY <3>0, <3>1, <3>2
  <2>2. CASE Go(t, "close")
    <3> DEFINE d == [dobot[t] EXCEPT !.pc = "close"]
    <3>1. d \in Call /\ d.pc = "close" /\ d.port = dobot[t].port
      BY <1>0 DEF Call, PCs
    <3>2. dobot' = [dobot EXCEPT ![t] = d]
      BY <2>2 DEF Go
    <3> QED  BY <3>1, <3>2
  <2> QED  BY <2>1, <2>2 DEF Identify
<1>2. Typed'
  BY <1>0, <1>1 DEF Identify, Consistent, Typed, TypeOK, Located, AtPort
<1>3. NoOrphan'
  BY <1>0, <1>1 DEF Identify, Consistent, NoOrphan, Holds, Direct, Connected
<1>4. Owned'
  <2>1. dobot[t].port \in Ports /\ device[dobot[t].port] = t
    BY <1>0 DEF Identify, Consistent, Located, AtPort, Owned
  <2>2. \A u \in Threads \ {t} : dobot'[u] = dobot[u]
    BY <1>0, <1>1
  <2>3. dobot'[t].pc = "close" /\ device' = [device EXCEPT ![dobot[t].port] = None]
    BY <1>0, <1>1 DEF Identify
  <2> QED
    BY <1>0, <2>1, <2>2, <2>3 DEF Identify, Consistent, Typed, TypeOK, Owned, Direct, Connected
<1> QED  BY <1>2, <1>3, <1>4 DEF Consistent

\* A scan gives its claim back after it has closed the device.
LEMMA ScanClosesKeeps ==
    ASSUME Consistent, NEW t \in Threads, ScanCloses(t)
    PROVE  Consistent'
<1> USE DEF Consistent, panelVars, At, ScanCloses, Discard, Go
<1>1. Typed'  BY DEF Typed, TypeOK, Call, PCs, Located, AtPort, Holding
<1>2. NoOrphan'  BY DEF NoOrphan, Typed, TypeOK, Call, Located, AtPort, Holding, Holds, Direct,
                          Connected
<1>3. Owned'  BY DEF Owned, Typed, TypeOK, Call, Located, AtPort, Holding, Direct, Connected
<1> QED  BY <1>1, <1>2, <1>3

\* A scan ends with an arm, with none, or with an error.
LEMMA ScanEndsKeeps ==
    ASSUME Consistent, NEW t \in Threads, ScanEnds(t)
    PROVE  Consistent'
<1> USE DEF At, Holding, panelVars
<1>0. /\ dobot \in [Threads -> Call] /\ cache \in BOOLEAN \cup {None}
      /\ faults \in 0 .. MaxFaults /\ claimed \subseteq Ports /\ Located
  BY DEF Consistent, Typed, TypeOK
<1>1. CASE dobot' = [dobot EXCEPT ![t] = Fresh]
  <2>1. Fresh \in Call /\ Fresh.pc = "idle" /\ Fresh.route = None
    BY DEF Fresh, Call, PCs
  <2> QED  BY <1>0, <1>1, <2>1, AwayKeeps DEF ScanEnds
<1>2. CASE Scan(t, Ports \ claimed, "reason")
  BY <1>0, <1>2, ScanTyped, AwayKeeps DEF ScanEnds
<1>3. ASSUME NEW p \in dobot[t].found,
             dobot' = [dobot EXCEPT ![t] =
                         [Fresh EXCEPT !.pc = "open", !.route = dobot[t].route, !.port = p]]
      PROVE  Consistent'
  <2> DEFINE d == [Fresh EXCEPT !.pc = "open", !.route = dobot[t].route, !.port = p]
  <2>1. p \in Ports
    BY <1>0 DEF Call
  <2>2. d \in Call /\ d.pc = "open" /\ d.port = p
    BY <1>0, <2>1 DEF Fresh, Call, PCs
  <2>3. dobot' = [dobot EXCEPT ![t] = d]
    BY <1>3
  <2> HIDE DEF d
  <2> QED  BY <1>0, <2>1, <2>2, <2>3, AwayKeeps DEF ScanEnds
<1> QED  BY <1>1, <1>2, <1>3 DEF ScanEnds

\* A connection claims its port, or finds it claimed.
LEMMA ClaimKeeps ==
    ASSUME Consistent, NEW t \in Threads, Claim(t)
    PROVE  Consistent'
<1> USE DEF Consistent, panelVars, At, Claim, Go
<1>1. Typed'  BY DEF Typed, TypeOK, Call, PCs, Located, AtPort, Holding
<1>2. NoOrphan'  BY DEF NoOrphan, Typed, TypeOK, Call, Located, AtPort, Holding, Holds, Direct,
                          Connected
<1>3. Owned'  BY DEF Owned, Typed, TypeOK, Call, Located, AtPort, Holding, Direct, Connected
<1> QED  BY <1>1, <1>2, <1>3

\* A connection opens its port, or gives the claim back.
LEMMA OpenKeeps ==
    ASSUME Consistent, NEW t \in Threads, Open(t)
    PROVE  Consistent'
<1> USE DEF Consistent, Typed, TypeOK, Located, AtPort, Holding, panelVars, At, NoOrphan,
            Owned, Holds, Direct, Connected
<1>1. CASE DeviceOpens(t, "opened")
  <2>1. Go(t, "opened") /\ "opened" \in PCs
    BY <1>1 DEF DeviceOpens, PCs
  <2> QED  BY <1>1, <2>1, GoTyped DEF DeviceOpens, Open
<1>2. CASE DeviceRefused(t, "failed")
  <2>1. Go(t, "failed") /\ "failed" \in PCs
    BY <1>2 DEF DeviceRefused, PCs
  <2> QED  BY <1>2, <2>1, GoTyped DEF DeviceRefused, ClaimReturned, Discard, Open
<1> QED  BY <1>1, <1>2 DEF Open

\* A connection through the broker: the panel has the device.
LEMMA AttachKeeps ==
    ASSUME Consistent, NEW t \in Threads, Attach(t)
    PROVE  Consistent'
<1> USE DEF Consistent, panelVars, At, Attach, Go
<1>1. Typed'  BY DEF Typed, TypeOK, Call, PCs, Located, AtPort, Holding
<1>2. NoOrphan'  BY DEF NoOrphan, Typed, TypeOK, Call, Located, AtPort, Holding, Holds, Direct,
                          Connected
<1>3. Owned'  BY DEF Owned, Typed, TypeOK, Call, Located, AtPort, Holding, Direct, Connected
<1> QED  BY <1>1, <1>2, <1>3

\* The arm takes its empty queue, or does not: then the device is closed, and the
\* claim is kept for one step more.
LEMMA PrepareKeeps ==
    ASSUME Consistent, NEW t \in Threads, Prepare(t)
    PROVE  Consistent'
<1> USE DEF Consistent, panelVars, At
<1>0. dobot \in [Threads -> Call] /\ dobot[t].port \in Ports
  BY DEF Prepare, Typed, Located, AtPort
<1>1. CASE Go(t, "connected") /\ UNCHANGED <<device, faults>>
  <2>1. "connected" \in PCs  BY DEF PCs
  <2>2. Typed'
    BY <1>0, <1>1, <2>1, GoTyped DEF Prepare, Typed, TypeOK, Located, AtPort, Holding
  <2>3. NoOrphan' /\ Owned'
    BY <1>0, <1>1, <2>1, GoTyped DEF Prepare, NoOrphan, Owned, Holding, Holds, Direct, Connected
  <2> QED  BY <2>2, <2>3
<1>2. CASE /\ faults < MaxFaults /\ faults' = faults + 1
           /\ dobot[t].route = "direct"
           /\ device' = [device EXCEPT ![dobot[t].port] = None] /\ Go(t, "undo")
  <2>1. "undo" \in PCs  BY DEF PCs
  <2>2. Typed'
    BY <1>0, <1>2, <2>1, GoTyped DEF Prepare, Typed, TypeOK, Located, AtPort, Holding
  <2>3. NoOrphan'
    BY <1>0, <1>2, <2>1, GoTyped DEF Prepare, NoOrphan, Holding, Holds, Direct, Connected
  <2>4. Owned'
    BY <1>0, <1>2, <2>1, GoTyped
    DEF Prepare, Typed, TypeOK, Owned, Direct, Connected
  <2> QED  BY <2>2, <2>3, <2>4
<1>3. CASE /\ faults < MaxFaults /\ faults' = faults + 1
           /\ dobot[t].route # "direct" /\ UNCHANGED device /\ Go(t, "failed")
  <2>1. "failed" \in PCs  BY DEF PCs
  <2>2. Typed'
    BY <1>0, <1>3, <2>1, GoTyped DEF Prepare, Typed, TypeOK, Located, AtPort, Holding
  <2>3. NoOrphan' /\ Owned'
    BY <1>0, <1>3, <2>1, GoTyped DEF Prepare, NoOrphan, Owned, Holding, Holds, Direct, Connected
  <2> QED  BY <2>2, <2>3
<1> QED  BY <1>1, <1>2, <1>3 DEF Prepare

\* A failed connection closes its transport once more.
LEMMA GiveUpKeeps ==
    ASSUME Consistent, NEW t \in Threads, GiveUp(t)
    PROVE  Consistent'
<1> USE DEF Consistent, panelVars, At, GiveUp, TransportForgotten, Fresh, Discard
<1>1. Typed'  BY DEF Typed, TypeOK, Call, PCs, Located, AtPort, Holding
<1>2. NoOrphan'  BY DEF NoOrphan, Typed, TypeOK, Call, Located, AtPort, Holding, Holds, Direct,
                          Connected
<1>3. Owned'  BY DEF Owned, Typed, TypeOK, Call, Located, AtPort, Holding, Direct, Connected
<1> QED  BY <1>1, <1>2, <1>3

\* disconnect() closes the device, and keeps the claim for one step more.
LEMMA DisconnectKeeps ==
    ASSUME Consistent, NEW t \in Threads, Disconnect(t)
    PROVE  Consistent'
<1> USE DEF Consistent, panelVars, At, Disconnect, Go
<1>1. Typed'  BY DEF Typed, TypeOK, Call, PCs, Located, AtPort, Holding
<1>2. NoOrphan'  BY DEF NoOrphan, Typed, TypeOK, Call, Located, AtPort, Holding, Holds, Direct,
                          Connected
<1>3. Owned'  BY DEF Owned, Typed, TypeOK, Call, Located, AtPort, Holding, Direct, Connected
<1> QED  BY <1>1, <1>2, <1>3

\* Then it gives the claim back.
LEMMA ClosedKeeps ==
    ASSUME Consistent, NEW t \in Threads, Closed(t)
    PROVE  Consistent'
<1> USE DEF Consistent, panelVars, At, Closed, Discard, Go
<1>1. Typed'  BY DEF Typed, TypeOK, Call, PCs, Located, AtPort, Holding
<1>2. NoOrphan'  BY DEF NoOrphan, Typed, TypeOK, Call, Located, AtPort, Holding, Holds, Direct,
                          Connected
<1>3. Owned'  BY DEF Owned, Typed, TypeOK, Call, Located, AtPort, Holding, Direct, Connected
<1> QED  BY <1>1, <1>2, <1>3

\* A scan claims a port, or leaves it out because it is claimed.
LEMMA ScanClaimsKeeps ==
    ASSUME Consistent, NEW t \in Threads, NEW p \in Ports, ScanClaims(t, p)
    PROVE  Consistent'
<1> USE DEF At, Holding, panelVars
<1>0. /\ dobot \in [Threads -> Call] /\ cache \in BOOLEAN \cup {None}
      /\ faults \in 0 .. MaxFaults /\ claimed \subseteq Ports /\ Located
  BY DEF Consistent, Typed, TypeOK
<1>1. CASE p \in claimed
  <2> DEFINE d == [dobot[t] EXCEPT !.todo = @ \ {p}]
  <2>1. d \in Call /\ d.pc = "scan"
    BY <1>0 DEF Call, PCs, ScanClaims
  <2>2. dobot' = [dobot EXCEPT ![t] = d]
    BY <1>1 DEF ScanClaims
  <2> HIDE DEF d
  <2> QED  BY <1>0, <1>1, <2>1, <2>2, AwayKeeps DEF ScanClaims
<1>2. CASE p \notin claimed
  <2>0. PICK r \in Call : r = dobot[t]
    BY <1>0
  <2> DEFINE d == [r EXCEPT !.pc = "probe", !.todo = @ \ {p}, !.port = p]
  <2>1. d \in Call /\ d.pc = "probe" /\ d.port = p
    BY <1>0 DEF Call, PCs
  <2>2. dobot' = [dobot EXCEPT ![t] = d]
    BY <1>2, <2>0 DEF ScanClaims
  <2> HIDE DEF d
  <2>3. Typed'
    BY <1>0, <1>2, <2>1, <2>2 DEF ScanClaims, Consistent, Typed, TypeOK, Located, AtPort
  <2>4. NoOrphan'
    BY <1>0, <1>2, <2>1, <2>2 DEF ScanClaims, Consistent, NoOrphan, Holds, Direct, Connected
    <2>5. Owned'
    BY <1>0, <1>2, <2>1, <2>2 DEF ScanClaims, Consistent, Owned, Direct, Connected
  <2> QED  BY <2>3, <2>4, <2>5 DEF Consistent
<1> QED  BY <1>1, <1>2

\* The windows, the broker and the clock change nothing that a call of this program holds.
LEMMA WindowOpensKeeps ==
    ASSUME Consistent, NEW p \in Ports, WindowOpens(p)
    PROVE  Consistent'
<1> USE DEF Consistent, panelVars, At, WindowOpens
<1>1. Typed'  BY DEF Typed, TypeOK, Call, PCs, Located, AtPort, Holding
<1>2. NoOrphan'  BY DEF NoOrphan, Typed, TypeOK, Call, Located, AtPort, Holding, Holds, Direct,
                          Connected
<1>3. Owned'  BY DEF Owned, Typed, TypeOK, Call, Located, AtPort, Holding, Direct, Connected
<1> QED  BY <1>1, <1>2, <1>3

\* A window closes: the broker still has the port.
LEMMA WindowClosesKeeps ==
    ASSUME Consistent, NEW p \in Ports, WindowCloses(p)
    PROVE  Consistent'
<1> USE DEF Consistent, panelVars, At, WindowCloses
<1>1. Typed'  BY DEF Typed, TypeOK, Call, PCs, Located, AtPort, Holding
<1>2. NoOrphan'  BY DEF NoOrphan, Typed, TypeOK, Call, Located, AtPort, Holding, Holds, Direct,
                          Connected
<1>3. Owned'  BY DEF Owned, Typed, TypeOK, Call, Located, AtPort, Holding, Direct, Connected
<1> QED  BY <1>1, <1>2, <1>3

\* The broker closes a port that nobody uses.
LEMMA BrokerReleasesKeeps ==
    ASSUME Consistent, NEW p \in Ports, BrokerReleases(p)
    PROVE  Consistent'
<1> USE DEF Consistent, panelVars, At, BrokerReleases, Uses
<1>1. Typed'  BY DEF Typed, TypeOK, Call, PCs, Located, AtPort, Holding
<1>2. NoOrphan'  BY DEF NoOrphan, Typed, TypeOK, Call, Located, AtPort, Holding, Holds, Direct,
                          Connected
<1>3. Owned'  BY DEF Owned, Typed, TypeOK, Call, Located, AtPort, Holding, Direct, Connected
<1> QED  BY <1>1, <1>2, <1>3

\* The panel starts with no port.
LEMMA PanelStartsKeeps ==
    ASSUME Consistent, PanelStarts
    PROVE  Consistent'
<1> USE DEF Consistent, panelVars, At, PanelStarts
<1>1. Typed'  BY DEF Typed, TypeOK, Call, PCs, Located, AtPort, Holding
<1>2. NoOrphan'  BY DEF NoOrphan, Typed, TypeOK, Call, Located, AtPort, Holding, Holds, Direct,
                          Connected
<1>3. Owned'  BY DEF Owned, Typed, TypeOK, Call, Located, AtPort, Holding, Direct, Connected
<1> QED  BY <1>1, <1>2, <1>3

\* The panel ends, and hangs up on its clients.
LEMMA PanelEndsKeeps ==
    ASSUME Consistent, PanelEnds
    PROVE  Consistent'
<1> USE DEF Consistent, Typed, Holding, At, panelVars
<1>1. dobot' \in [Threads -> Call]
  <2>1. \A t \in Threads :
            [dobot[t] EXCEPT !.pc = IF @ = "opened" THEN "failed" ELSE "idle"] \in Call
    BY DEF Call, PCs
  <2> QED  BY <2>1 DEF PanelEnds
<1>2. \A t \in Threads :
          /\ dobot'[t].route = dobot[t].route /\ dobot'[t].port = dobot[t].port
          /\ \/ dobot'[t].pc = dobot[t].pc
             \/ /\ dobot[t].pc \in {"opened", "connected"} /\ dobot[t].route = "broker"
                /\ dobot'[t].pc \in {"failed", "idle"}
  BY DEF PanelEnds, Call, Connected
<1>3. TypeOK'
  BY DEF PanelEnds, TypeOK
<1>4. Located'
  BY <1>2 DEF Located, AtPort
<1>5. NoOrphan'
  BY <1>2 DEF PanelEnds, NoOrphan, Holds, Direct, Connected
<1>6. Owned'
  BY <1>2 DEF PanelEnds, TypeOK, Owned, Direct, Connected
<1> QED  BY <1>1, <1>3, <1>4, <1>5, <1>6

\* The stored answer gets old.
LEMMA CacheExpiresKeeps ==
    ASSUME Consistent, CacheExpires
    PROVE  Consistent'
<1> USE DEF Consistent, panelVars, At, CacheExpires
<1>1. Typed'  BY DEF Typed, TypeOK, Call, PCs, Located, AtPort, Holding
<1>2. NoOrphan'  BY DEF NoOrphan, Typed, TypeOK, Call, Located, AtPort, Holding, Holds, Direct,
                          Connected
<1>3. Owned'  BY DEF Owned, Typed, TypeOK, Call, Located, AtPort, Holding, Direct, Connected
<1> QED  BY <1>1, <1>2, <1>3

-----------------------------------------------------------------------------
(* The theorem                                                              *)

\* The inductive invariant holds in every reachable state.
LEMMA ConsistentInvariant == Spec => []Consistent
<1>1. Init => Consistent
  <2> SUFFICES ASSUME Init  PROVE Consistent
    OBVIOUS
  <2> USE DEF Init
  <2>1. Fresh \in Call /\ Fresh.pc = "idle" /\ Fresh.route = None
    BY DEF Fresh, Call, PCs
  <2>2. TypeOK
    BY DEF TypeOK
  <2>3. /\ dobot \in [Threads -> Call]
        /\ \A t \in Threads : dobot[t].pc = "idle" /\ dobot[t].route = None
    BY <2>1
  <2>4. Located /\ NoOrphan /\ Owned
    BY <2>3 DEF Located, AtPort, Holding, At, NoOrphan, Holds, Direct, Connected, Owned
  <2> QED  BY <2>2, <2>3, <2>4 DEF Consistent, Typed
<1>2. Consistent /\ [Next]_vars => Consistent'
  <2> SUFFICES ASSUME Consistent, [Next]_vars  PROVE Consistent'
    OBVIOUS
  <2>1. ASSUME NEW t \in Threads, Goes(t)
        PROVE  Consistent'
    BY <2>1, StoreAnswerKeeps, PickKeeps, ScanClaimsKeeps, ScanOpensKeeps, IdentifyKeeps,
       ScanClosesKeeps, ScanEndsKeeps, ClaimKeeps, OpenKeeps, AttachKeeps, PrepareKeeps,
       GiveUpKeeps, ClosedKeeps
    DEF Goes
  <2>2. CASE UNCHANGED vars
    BY <2>2 DEF vars, panelVars, Consistent, Typed, TypeOK, Located, At, NoOrphan,
       Holds, Direct, Connected, Owned
  <2> QED
    BY <2>1, <2>2, ConnectKeeps, DisconnectKeeps, IsDobotKeeps, WindowOpensKeeps, WindowClosesKeeps,
       BrokerReleasesKeeps, CacheExpiresKeeps, PanelStartsKeeps, PanelEndsKeeps
    DEF Next
<1> QED  BY <1>1, <1>2, PTL DEF Spec

\* transport.py, device.py, discovery.py: at every step, for any threads, ports and
\* starts of the panel, no claim of a port outlives the call that made it, and the
\* serial devices are open exactly for those that are entitled to them, also when an
\* open fails or the arm does not take its queue after it. (A claim may be missing:
\* HeldIsClaimed does not hold.)
THEOREM RouteConsistent == Spec => []RouteInvariant
BY ConsistentInvariant, PTL DEF Consistent, Typed, RouteInvariant

==============================================================================
