------------------------------- MODULE Route -------------------------------
(* How a program gets to an arm: Dobot.connect and disconnect of device.py,  *)
(* the registry of open ports in transport.py, discovery.py, and the answer  *)
(* of broker.py is_broker_reachable, which is kept for a while.              *)
(*                                                                          *)
(* Each thread of one program has a Dobot of its own. The panel, another     *)
(* program, comes and goes with its broker. An operating system lets one     *)
(* program open a serial device, once.                                       *)
EXTENDS Naturals

CONSTANTS
    Threads, Ports,
    Arms,           \* the ports with an arm
    Explicit,       \* the port each thread has asked for, or None
    Required,       \* the threads that want the panel (require_panel)
    Panel, None,
    MaxStarts,      \* bound: how often the panel starts
    MaxFaults       \* bound: how often a port fails to open or an arm to answer

ASSUME RouteAssumption ==
    /\ Arms \subseteq Ports /\ Required \subseteq Threads
    /\ {None, Panel} \cap (Threads \cup Ports) = {} /\ None # Panel
    /\ Explicit \in [Threads -> Arms \cup {None}]
    /\ MaxStarts \in Nat /\ MaxFaults \in Nat

VARIABLES
    claimed,        \* _OPEN_PORTS of this program
    device,         \* who has the serial device open
    up, window,     \* the broker runs; the ports of the panel's windows
    cache,          \* _BROKER_CACHE: whether it was reachable, or None
    dobot,          \* each thread: where it is in its call, and what it has found
    starts, faults

panelVars == <<up, window, starts>>
vars == <<claimed, device, panelVars, cache, dobot, faults>>

Fresh == [pc |-> "idle", route |-> None, port |-> None, todo |-> {}, found |-> {}, for |-> None]

Init ==
    /\ claimed = {}
    /\ device \in [Ports -> {None, Panel}]
    /\ \A p \in Ports \ Arms : device[p] = None
    /\ up = (\E p \in Ports : device[p] = Panel)
    /\ window = {p \in Ports : device[p] = Panel}
    /\ cache = None /\ starts = 0 /\ faults = 0
    /\ dobot = [t \in Threads |-> Fresh]

At(t, pc) == dobot[t].pc = pc
Go(t, pc) == dobot' = [dobot EXCEPT ![t].pc = pc]

-----------------------------------------------------------------------------
(* Which way, and which port                                                *)

\* A Dobot that has a transport from before uses it again. Otherwise the cached
\* answer counts, or the broker is asked.
Chosen(t, reachable) ==
    dobot' = [dobot EXCEPT ![t] =
        IF t \in Required /\ ~reachable THEN Fresh
        ELSE [Fresh EXCEPT !.pc = IF Explicit[t] = None THEN "pick" ELSE "open",
                           !.route = IF reachable THEN "broker" ELSE "direct",
                           !.port = Explicit[t]]]

Connect(t) ==
    /\ At(t, "idle")
    /\ IF dobot[t].route # None THEN Go(t, "open")
       ELSE IF cache # None THEN Chosen(t, cache)
       ELSE Go(t, IF up THEN "reached" ELSE "unreached")
    /\ UNCHANGED <<claimed, device, panelVars, cache, faults>>

\* The answer is stored when the panel may have come or gone since.
StoreAnswer(t) ==
    /\ dobot[t].pc \in {"reached", "unreached"}
    /\ cache' = At(t, "reached") /\ Chosen(t, cache')
    /\ UNCHANGED <<claimed, device, panelVars, faults>>

CacheExpires ==
    /\ cache # None /\ cache' = None
    /\ UNCHANGED <<claimed, device, panelVars, dobot, faults>>

Scan(t, ports, for) ==
    dobot' = [dobot EXCEPT ![t].pc = "scan", ![t].todo = ports, ![t].for = for, ![t].found = {}]

AttachedPorts == {p \in Ports : device[p] = Panel}
ListedPorts == IF up THEN AttachedPorts ELSE {}

\* A port the broker has open, or else an arm a scan finds.
Pick(t) ==
    /\ At(t, "pick")
    /\ IF dobot[t].route = "broker" /\ ListedPorts # {}
       THEN \E p \in ListedPorts : dobot' = [dobot EXCEPT ![t].pc = "open", ![t].port = p]
       ELSE Scan(t, Ports \ claimed, "pick")
    /\ UNCHANGED <<claimed, device, panelVars, cache, faults>>

-----------------------------------------------------------------------------
(* SerialTransport.open and close, and a scan of the ports                  *)

Holding == {"probe", "identify", "close", "claimed", "undo", "closing"}
Connected(t) == At(t, "opened") \/ At(t, "connected")
Direct(t) == Connected(t) /\ dobot[t].route = "direct"
Holds(t, p) == dobot[t].port = p /\ (dobot[t].pc \in Holding \/ Direct(t))

\* Closing takes the port out of the registry, whoever has put it in.
Discard(t) == claimed' = claimed \ {dobot[t].port}

\* is_dobot: a port this program has open is taken for an arm.
IsDobot(t) ==
    /\ At(t, "idle") /\ dobot[t].route = None
    /\ \E p \in Ports \ claimed : Scan(t, {p}, "check")
    /\ UNCHANGED <<claimed, device, panelVars, cache, faults>>

ScanClaims(t, p) ==
    /\ At(t, "scan") /\ p \in dobot[t].todo
    /\ IF p \in claimed
       THEN /\ dobot' = [dobot EXCEPT ![t].todo = @ \ {p}]
            /\ UNCHANGED claimed
       ELSE /\ dobot' = [dobot EXCEPT ![t].pc = "probe", ![t].todo = @ \ {p}, ![t].port = p]
            /\ claimed' = claimed \cup {p}
    /\ UNCHANGED <<device, panelVars, cache, faults>>

\* The device opens, or the claim is given back.
DeviceOpens(t, pc) ==
    /\ device[dobot[t].port] = None
    /\ device' = [device EXCEPT ![dobot[t].port] = t]
    /\ Go(t, pc)
    /\ UNCHANGED <<claimed, faults>>

ClaimKept(t) == UNCHANGED claimed
ClaimReturned(t) == Discard(t)

DeviceRefused(t, pc) ==
    /\ \/ device[dobot[t].port] # None /\ UNCHANGED faults
       \/ faults < MaxFaults /\ faults' = faults + 1
    /\ ClaimReturned(t)
    /\ Go(t, pc)
    /\ UNCHANGED device

ScanOpens(t) ==
    /\ At(t, "probe")
    /\ DeviceOpens(t, "identify") \/ DeviceRefused(t, "scan")
    /\ UNCHANGED <<panelVars, cache>>

\* identify_magician: an arm may fail to answer.
Identify(t) ==
    /\ At(t, "identify")
    /\ \/ dobot' = [dobot EXCEPT ![t].pc = "close", ![t].found = @ \cup (Arms \cap {dobot[t].port})]
          /\ UNCHANGED faults
       \/ faults < MaxFaults /\ faults' = faults + 1 /\ Go(t, "close")
    /\ device' = [device EXCEPT ![dobot[t].port] = None]
    /\ UNCHANGED <<claimed, panelVars, cache>>

ScanCloses(t) ==
    /\ At(t, "close") /\ Discard(t)
    /\ Go(t, "scan")
    /\ UNCHANGED <<device, panelVars, cache, faults>>

\* find_free_port, or no_dobot_found_error, which scans again for the reason.
ScanEnds(t) ==
    /\ At(t, "scan") /\ dobot[t].todo = {}
    /\ IF dobot[t].for # "pick" THEN dobot' = [dobot EXCEPT ![t] = Fresh]
       ELSE IF dobot[t].found = {} THEN Scan(t, Ports \ claimed, "reason")
       ELSE \E p \in dobot[t].found :
               dobot' = [dobot EXCEPT ![t] =
                            [Fresh EXCEPT !.pc = "open", !.route = dobot[t].route, !.port = p]]
    /\ UNCHANGED <<claimed, device, panelVars, cache, faults>>

\* A connection of this Dobot's own to the serial port.
Claim(t) ==
    /\ At(t, "open") /\ dobot[t].route = "direct"
    /\ IF dobot[t].port \in claimed
       THEN Go(t, "failed") /\ UNCHANGED claimed
       ELSE Go(t, "claimed") /\ claimed' = claimed \cup {dobot[t].port}
    /\ UNCHANGED <<device, panelVars, cache, faults>>

Open(t) ==
    /\ At(t, "claimed")
    /\ DeviceOpens(t, "opened") \/ DeviceRefused(t, "failed")
    /\ UNCHANGED <<panelVars, cache>>

\* Or a connection to the broker, which opens the port when it has to.
Attach(t) ==
    /\ At(t, "open") /\ dobot[t].route = "broker"
    /\ \/ /\ up /\ device[dobot[t].port] \in {None, Panel}
          /\ device' = [device EXCEPT ![dobot[t].port] = Panel]
          /\ Go(t, "opened")
       \/ ~(up /\ device[dobot[t].port] \in {None, Panel}) /\ Go(t, "failed") /\ UNCHANGED device
    /\ UNCHANGED <<claimed, panelVars, cache, faults>>

\* connect() clears and starts the queue of the arm, which may fail. Then the device
\* is closed again.
Prepare(t) ==
    /\ At(t, "opened")
    /\ \/ Go(t, "connected") /\ UNCHANGED <<device, faults>>
       \/ /\ faults < MaxFaults /\ faults' = faults + 1
          /\ IF dobot[t].route = "direct"
             THEN device' = [device EXCEPT ![dobot[t].port] = None] /\ Go(t, "undo")
             ELSE UNCHANGED device /\ Go(t, "failed")
    /\ UNCHANGED <<claimed, panelVars, cache>>

\* After any failure the transport is closed, which takes the port out of the
\* registry, and forgotten: the next connect() chooses afresh.
TransportKept(t) == Go(t, "idle")
TransportForgotten(t) == dobot' = [dobot EXCEPT ![t] = Fresh]

GiveUp(t) ==
    /\ At(t, "failed") \/ At(t, "undo")
    /\ TransportForgotten(t)
    /\ IF dobot[t].route = "direct" THEN Discard(t) ELSE UNCHANGED claimed
    /\ UNCHANGED <<device, panelVars, cache, faults>>

\* disconnect() closes the device, then gives the claim back. The Dobot keeps the
\* transport.
Disconnect(t) ==
    /\ At(t, "connected")
    /\ IF dobot[t].route = "direct"
       THEN device' = [device EXCEPT ![dobot[t].port] = None] /\ Go(t, "closing")
       ELSE UNCHANGED device /\ Go(t, "idle")
    /\ UNCHANGED <<claimed, panelVars, cache, faults>>

Closed(t) ==
    /\ At(t, "closing") /\ Discard(t)
    /\ Go(t, "idle")
    /\ UNCHANGED <<device, panelVars, cache, faults>>

-----------------------------------------------------------------------------
(* The panel                                                                *)

PanelStarts ==
    /\ ~up /\ starts < MaxStarts
    /\ up' = TRUE /\ starts' = starts + 1
    /\ UNCHANGED <<claimed, device, window, cache, dobot, faults>>

\* The broker hangs up on its clients and closes its ports.
PanelEnds ==
    /\ up /\ up' = FALSE /\ window' = {}
    /\ device' = [p \in Ports |-> IF device[p] = Panel THEN None ELSE device[p]]
    /\ dobot' = [t \in Threads |->
                    IF Connected(t) /\ dobot[t].route = "broker"
                    THEN [dobot[t] EXCEPT !.pc = IF @ = "opened" THEN "failed" ELSE "idle"]
                    ELSE dobot[t]]
    /\ UNCHANGED <<claimed, cache, starts, faults>>

WindowOpens(p) ==
    /\ up /\ p \in Arms \ window /\ device[p] \in {None, Panel}
    /\ window' = window \cup {p} /\ device' = [device EXCEPT ![p] = Panel]
    /\ UNCHANGED <<claimed, up, cache, dobot, starts, faults>>

WindowCloses(p) ==
    /\ p \in window /\ window' = window \ {p}
    /\ UNCHANGED <<claimed, device, up, cache, dobot, starts, faults>>

\* The broker closes a port that nobody uses any more.
Uses(t, p) == Connected(t) /\ dobot[t].route = "broker" /\ dobot[t].port = p
BrokerReleases(p) ==
    /\ device[p] = Panel /\ p \notin window /\ \A t \in Threads : ~Uses(t, p)
    /\ device' = [device EXCEPT ![p] = None]
    /\ UNCHANGED <<claimed, panelVars, cache, dobot, faults>>

-----------------------------------------------------------------------------
Goes(t) ==
    \/ StoreAnswer(t) \/ Pick(t) \/ (\E p \in Ports : ScanClaims(t, p)) \/ ScanOpens(t)
    \/ Identify(t) \/ ScanCloses(t) \/ ScanEnds(t)
    \/ Claim(t) \/ Open(t) \/ Attach(t) \/ Prepare(t) \/ GiveUp(t) \/ Closed(t)

Next ==
    \/ \E t \in Threads : Goes(t) \/ Connect(t) \/ Disconnect(t) \/ IsDobot(t)
    \/ \E p \in Ports : WindowOpens(p) \/ WindowCloses(p) \/ BrokerReleases(p)
    \/ CacheExpires \/ PanelStarts \/ PanelEnds

\* Every call goes on until it has returned or failed; a cached answer gets old; the
\* broker notices a port that nobody uses.
Calls == \A t \in Threads : WF_vars(Goes(t))
Time == WF_vars(CacheExpires) /\ \A p \in Ports : WF_vars(BrokerReleases(p))

\* Programs that come back to connect() as long as they are not connected, whatever
\* else they ask in between.
Retrying == \A t \in Threads : SF_vars(Connect(t))

Spec == Init /\ [][Next]_vars
FairSpec == Spec /\ Calls /\ Time /\ Retrying

-----------------------------------------------------------------------------
(* Properties                                                               *)

TypeOK ==
    /\ claimed \subseteq Ports /\ window \subseteq Arms
    /\ device \in [Ports -> Threads \cup {None, Panel}]
    /\ up \in BOOLEAN /\ cache \in BOOLEAN \cup {None}
    /\ starts \in 0 .. MaxStarts /\ faults \in 0 .. MaxFaults

\* No claim outlives the Dobot or the scan that made it, however its open, its probe
\* or its connection ended: such a port would look busy for the rest of the program.
NoOrphan == \A p \in claimed : \E t \in Threads : Holds(t, p)

\* The serial device is open exactly for the thread that identifies an arm on it or
\* is connected by its own route, and for the panel only while the panel runs.
Owned ==
    \A p \in Ports :
        /\ \A t \in Threads :
              device[p] = t <=> dobot[t].port = p /\ (At(t, "identify") \/ Direct(t))
        /\ device[p] = Panel => up

\* transport.py and device.py: no claim is left behind, and the serial devices are
\* open for those that are entitled to them, however the calls of the threads fail
\* and interleave.
RouteInvariant == TypeOK /\ NoOrphan /\ Owned

\* transport.py is_port_claimed: "True iff port is currently held by a
\* SerialTransport". A serial device that a thread has open is in the registry. The code
\* does not keep it: the close after a refused open takes the claim of the holder.
HeldIsClaimed == \A p \in Ports : device[p] \in Threads => p \in claimed

\* The panel or this thread has the ports, and nobody else's call is at one.
Calm(t) ==
    /\ \A p \in Ports : device[p] \in {None, Panel, t}
    /\ \A u \in Threads \ {t}, p \in Ports : ~Holds(u, p) /\ ~At(u, "failed")

\* What the panel must go on doing for a program that asks it for any arm: have one
\* open. (Windows that keep opening and closing may each time come in between.)
Served(t) == up /\ (Explicit[t] = None => \E p \in Ports : device[p] = Panel)

\* device.py connect, broker.py is_broker_reachable: a program that keeps trying gets
\* to its arm in the end, through the panel when that runs, and by itself when it
\* does not: neither an answer that was stored late, nor the transport of an earlier
\* connection, nor a claim left behind keeps it out for ever.
ConnectHeals ==
    \A t \in Threads :
        /\ (<>[](Calm(t) /\ Served(t))) => []<>At(t, "connected")
        /\ (<>[](Calm(t) /\ ~up /\ t \notin Required)) => []<>At(t, "connected")
=============================================================================
