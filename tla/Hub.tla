-------------------------------- MODULE Hub --------------------------------
(* The panel program: hub.py with its scans, the control panel windows it    *)
(* opens, the scripts that use its broker, and what app.py does around them. *)
(* One serial port is one element of Ports; Arms are those where             *)
(* discovery.py identify_magician finds a Magician.                          *)
(*                                                                          *)
(* The broker of this program is seen from here as one connection per client *)
(* with the count it keeps; its locks, and the handlers that are still busy  *)
(* with a client that has come back, are in module Broker. A window waits    *)
(* for replies when it connects, so its client is counted by then, unless it *)
(* gives up before.                                                          *)
EXTENDS Naturals, FiniteSets

CONSTANTS
    Ports, Arms,    \* the serial ports of the computer; those with an arm
    Scripts,        \* programs that use the broker
    Workers,        \* DiscoveryWorker threads
    None,
    MaxAsked        \* bound: how often the list is refreshed

Clients == Ports \cup Scripts       \* a port stands for its window's connection

ASSUME HubAssumption ==
    /\ Arms \subseteq Ports /\ IsFiniteSet(Clients) /\ Ports \cap Scripts = {}
    /\ None \notin Clients \cup Workers /\ Workers # {}
    /\ None \notin {"open", "lost", "free", "panel open", "in use elsewhere"}
    /\ MaxAsked \in Nat \ {0}

VARIABLES
    claimed,        \* transport.py _OPEN_PORTS of this program
    attached,       \* the ports the broker has open (_transports)
    outside,        \* ports another program has open
    scan,           \* what each discovery thread does
    worker, rescan, \* _worker and _rescan_requested
    rows,           \* the list: None, or the tag of the port's row
    number,         \* _numbers, 0 for none
    panels,         \* _panels: None, or whether the window's connection is open
    handler,        \* the broker's handler of each client's connection
    tally,          \* _client_counts: the clients that are counted in, at their port
    asked, shown,   \* refreshes asked for, and the one the list is the answer to
    quit, unasked   \* closed; scripts cut off by closing without a question

scanVars == <<scan, worker, rescan, rows, number, asked, shown>>
brokerVars == <<claimed, attached, handler, tally>>
quitVars == <<quit, unasked>>
vars == <<brokerVars, outside, scanVars, panels, quitVars>>

NoScan == [pc |-> "none", todo |-> {}, at |-> None, found |-> {}, for |-> 0]

\* A handler: its port, where it is, whether its client still listens, whether it has
\* opened the port (attached_for_this_client), and what has become of its transport:
\* "live" while the broker has it, "dropped" until its device is closed.
NoHandler == [port |-> None, pc |-> "none", here |-> FALSE, opened |-> FALSE, trans |-> "closed"]

\* The first scan starts with the window, before anything is claimed.
Init ==
    /\ claimed = {} /\ attached = {} /\ outside \in SUBSET Ports
    /\ worker = CHOOSE w \in Workers : TRUE
    /\ scan = [w \in Workers |->
                  IF w = worker THEN [NoScan EXCEPT !.pc = "probing", !.todo = Ports, !.for = 1]
                                ELSE NoScan]
    /\ rescan = FALSE
    /\ rows = [p \in Ports |-> None] /\ number = [p \in Ports |-> 0]
    /\ panels = [p \in Ports |-> None]
    /\ handler = [c \in Clients |-> NoHandler] /\ tally = {}
    /\ asked = 1 /\ shown = 0
    /\ quit = FALSE /\ unasked = {}

-----------------------------------------------------------------------------
(* The scan: discover_with_diagnostics in a DiscoveryWorker                 *)

Running == {w \in Workers : scan[w].pc # "none"}
Probed == {scan[w].at : w \in Running} \ {None}
Scanning(w) == scan[w].pc = "probing"

\* The devices this program has open: the broker's, those whose transport it has dropped
\* and not closed yet, and the one the scan is at. SerialTransport.open wants the claim and
\* the device.
Dropped == {handler[c].port : c \in {d \in Clients : handler[d].trans = "dropped"}}
Devices == attached \cup Dropped \cup Probed
Free(p) == p \notin claimed \cup outside \cup Devices

\* list_ports: a port this program has open is not tried.
Probing(n) == [NoScan EXCEPT !.pc = "probing", !.todo = Ports \ claimed, !.for = n]
StartScan ==
    LET w == CHOOSE v \in Workers : v \notin Running
    IN  worker' = w /\ scan' = [scan EXCEPT ![w] = Probing(asked')]

\* refresh: one scan at a time.
AskAnyway == StartScan /\ UNCHANGED rescan
OneAtATime ==
    IF worker # None THEN rescan' = TRUE /\ UNCHANGED <<worker, scan>>
                     ELSE StartScan /\ UNCHANGED rescan

RowsCleared == [p \in Ports |-> None]

Refreshed ==
    /\ asked < MaxAsked /\ asked' = asked + 1
    /\ OneAtATime
    /\ rows' = RowsCleared
    /\ UNCHANGED <<number, shown>>

\* The Refresh button is disabled during a scan.
Refresh ==
    /\ ~quit /\ worker = None
    /\ Refreshed
    /\ UNCHANGED <<brokerVars, outside, panels, quitVars>>

\* A port is claimed and its device opened, or the open fails: for the claim of this
\* program, or because a device is opened once only, by whatever program.
ProbeOpens(w, p) ==
    /\ Scanning(w) /\ scan[w].at = None /\ p \in scan[w].todo
    /\ IF Free(p)
       THEN /\ scan' = [scan EXCEPT ![w].todo = @ \ {p}, ![w].at = p]
            /\ claimed' = claimed \cup {p}
       ELSE /\ scan' = [scan EXCEPT ![w].todo = @ \ {p}]
            /\ UNCHANGED claimed
    /\ UNCHANGED <<attached, outside, worker, rescan, rows, number, asked, shown, panels, handler,
                   tally, quitVars>>

\* An arm that is there may still fail to answer.
ProbeEnds(w) ==
    /\ Scanning(w) /\ scan[w].at # None
    /\ \E found \in {{}, Arms \cap {scan[w].at}} :
          scan' = [scan EXCEPT ![w].at = None, ![w].found = @ \cup found]
    /\ claimed' = claimed \ {scan[w].at}
    /\ UNCHANGED <<attached, outside, worker, rescan, rows, number, asked, shown, panels, handler,
                   tally, quitVars>>

\* The results, or an error, which leaves the list empty.
ScanEnds(w) ==
    /\ Scanning(w) /\ scan[w].at = None
    /\ \/ /\ scan[w].todo = {}
          /\ scan' = [scan EXCEPT ![w].pc = "done"]
       \/ scan' = [scan EXCEPT ![w].pc = "done", ![w].todo = {}, ![w].found = {}]
    /\ UNCHANGED <<brokerVars, outside, worker, rescan, rows, number, asked, shown, panels, quitVars>>

\* device_name numbers an arm when it is first found.
Named(p) == number[p] # 0
ByRow(found) ==
    {n \in [Ports -> 0..Cardinality(Ports)] :
        /\ \A p \in Ports : p \notin found => n[p] = number[p]
        /\ {n[p] : p \in found} = 1..Cardinality(found)}
FirstFound(found) ==
    {n \in [Ports -> 0..Cardinality(Ports)] :
        /\ \A p \in Ports : Named(p) \/ p \notin found => n[p] = number[p]
        /\ LET new == {p \in found : ~Named(p)}
               old == Cardinality({p \in Ports : Named(p)})
           IN  {n[p] : p \in new} = (old + 1)..(old + Cardinality(new))}

Tag(p) == IF panels[p] # None THEN "panel open"
          ELSE IF p \in claimed THEN "in use elsewhere" ELSE "free"

\* show_discovery_results with finish_scan: a re-scan that was asked for takes
\* the place of the results.
RescanForgotten(w) == FALSE
Superseded(w) == rescan

ShowResults(w) ==
    /\ ~quit /\ scan[w].pc = "done"
    /\ IF Superseded(w)
       THEN \* finish_scan starts the next scan; the finished thread is gone
            /\ rescan' = FALSE
            /\ scan' = [scan EXCEPT ![w] = Probing(asked)]
            /\ UNCHANGED <<worker, rows, number, shown>>
       ELSE /\ worker' = None /\ UNCHANGED rescan
            /\ scan' = [scan EXCEPT ![w] = NoScan]
            /\ number' \in FirstFound(scan[w].found)
            /\ rows' = [p \in Ports |-> IF p \in scan[w].found THEN Tag(p) ELSE None]
            /\ shown' = scan[w].for
    /\ UNCHANGED <<brokerVars, outside, asked, panels, quitVars>>

-----------------------------------------------------------------------------
(* The broker of this program                                               *)

At(p) == {c \in Clients : handler[c].port = p}
Counted == {c \in Clients : handler[c].pc \in {"counted", "dropping"}}
ClientCount == Cardinality(tally)

\* The port is open by then, or is opened now. Another client may have opened it
\* between the look at _transports and attach(), which does as if it had opened it.
Attached(c, p, pc, here) ==
    \E opened \in (IF p \in attached /\ pc = "attached" THEN BOOLEAN ELSE {pc = "attached"}) :
        /\ p \in attached \/ Free(p)
        /\ handler' = [handler EXCEPT ![c] = [port |-> p, pc |-> pc, here |-> here,
                                              opened |-> opened, trans |-> "live"]]
        /\ attached' = attached \cup {p}
        /\ claimed' = IF p \in attached THEN claimed ELSE claimed \cup {p}

ScriptConnects(s) ==
    /\ ~quit /\ handler[s] = NoHandler
    /\ \E p \in Ports : Attached(s, p, "attached", TRUE)
    /\ UNCHANGED <<tally, outside, scanVars, panels, quitVars>>

ScriptLeaves(s) ==
    /\ handler[s].here
    /\ handler' = [handler EXCEPT ![s].here = FALSE]
    /\ UNCHANGED <<claimed, attached, tally, outside, scanVars, panels, quitVars>>

\* REPLY_OK is sent first, and the count goes up afterwards.
Reply(c) ==
    /\ handler[c].pc = "attached"
    /\ handler' = [handler EXCEPT ![c].pc = "replied"]
    /\ UNCHANGED <<claimed, attached, tally, outside, scanVars, panels, quitVars>>

Count(c) ==
    /\ handler[c].pc = "replied"
    /\ handler' = [handler EXCEPT ![c].pc = "counted", ![c].opened = FALSE]
    /\ tally' = tally \cup {c}
    /\ UNCHANGED <<claimed, attached, outside, scanVars, panels, quitVars>>

\* The transport of a port is no longer the broker's: its clients keep the object.
Dropping(p) == [c \in Clients |-> IF c \in At(p) /\ handler[c].trans = "live"
                                  THEN [handler[c] EXCEPT !.trans = "dropped"] ELSE handler[c]]

\* _release_client: the count goes down, be it for c or, when c is not counted, for
\* another client of its port; at zero the port is detached, and c goes on to close it.
OwnCount(c) == IF c \in tally THEN {c} ELSE tally \cap At(handler[c].port)
ReleaseClient(c) ==
    LET p == handler[c].port IN
    \E gone \in IF OwnCount(c) = {} THEN {{}} ELSE {{d} : d \in OwnCount(c)} :
        /\ tally' = tally \ gone
        /\ IF tally' \cap At(p) = {} /\ p \in attached
           THEN /\ attached' = attached \ {p}
                /\ handler' = [Dropping(p) EXCEPT ![c].pc = "closing", ![c].opened = FALSE,
                                                  ![c].trans = "dropped"]
           ELSE /\ handler' = [handler EXCEPT ![c] = NoHandler]
                /\ UNCHANGED attached

\* A client that has left: REPLY_OK cannot be sent, and the release is that of a client
\* that was never counted; or its connection ends.
ReplyFails(c) ==
    /\ handler[c].pc = "attached" /\ ~handler[c].here
    /\ IF handler[c].opened
       THEN ReleaseClient(c)
       ELSE handler' = [handler EXCEPT ![c] = NoHandler] /\ UNCHANGED <<attached, tally>>
    /\ UNCHANGED <<claimed, outside, scanVars, panels, quitVars>>

Release(c) ==
    /\ handler[c].pc = "counted" /\ ~handler[c].here
    /\ ReleaseClient(c)
    /\ UNCHANGED <<claimed, outside, scanVars, panels, quitVars>>

\* _drop_failed_transport, in two steps: the transport is taken out of the map when it is
\* the one that is there, and is closed in any case. A request on a transport that
\* another handler has closed fails, too.
RequestFails(c) ==
    /\ handler[c].pc = "counted"
    /\ handler' = [(IF handler[c].trans = "live" THEN Dropping(handler[c].port) ELSE handler)
                      EXCEPT ![c].pc = "dropping"]
    /\ attached' = IF handler[c].trans = "live" THEN attached \ {handler[c].port} ELSE attached
    /\ UNCHANGED <<claimed, tally, outside, scanVars, panels, quitVars>>

\* SerialTransport.close takes the claim of its port away, whoever has it by then.
ClaimKept(c) == IF handler[c].trans = "dropped" THEN claimed ELSE claimed \ {handler[c].port}
Unclaimed(c) == claimed \ {handler[c].port}

Close(c) ==
    /\ handler[c].pc \in {"dropping", "closing"}
    /\ claimed' = Unclaimed(c)
    /\ LET closes(d) == /\ handler[c].trans = "dropped" /\ handler[d].trans = "dropped"
                        /\ d \in At(handler[c].port)
           after == [d \in Clients |-> IF closes(d) THEN [handler[d] EXCEPT !.trans = "closed"]
                                                  ELSE handler[d]]
       IN  handler' = IF handler[c].pc = "dropping" THEN [after EXCEPT ![c].pc = "counted"]
                                                    ELSE [after EXCEPT ![c] = NoHandler]
    /\ UNCHANGED <<attached, tally, outside, scanVars, panels, quitVars>>

-----------------------------------------------------------------------------
(* The windows                                                              *)

\* connect_to_arm and reconnect: they succeed, fail, or give up while the handler is at
\* work. The connection a window had before has to be released first.
Connects(p) ==
    /\ handler[p] = NoHandler
    /\ \/ /\ Attached(p, p, "counted", TRUE) /\ tally' = tally \cup {p}
          /\ panels' = [panels EXCEPT ![p] = "open"]
       \/ /\ Attached(p, p, "attached", FALSE) /\ UNCHANGED tally
          /\ panels' = [panels EXCEPT ![p] = "lost"]
       \/ panels' = [panels EXCEPT ![p] = "lost"] /\ UNCHANGED brokerVars

\* open_panel: a window whose connection failed stays open as well.
OpenPanel(p) ==
    /\ ~quit /\ rows[p] # None /\ panels[p] = None
    /\ Connects(p)
    /\ UNCHANGED <<outside, scanVars, quitVars>>

Hangs(ports) == [c \in Clients |-> IF c \in ports THEN [handler[c] EXCEPT !.here = FALSE]
                                                  ELSE handler[c]]

LosesConnection(p) ==
    /\ panels[p] = "open"
    /\ panels' = [panels EXCEPT ![p] = "lost"]
    /\ handler' = Hangs({p})
    /\ UNCHANGED <<claimed, attached, tally, outside, scanVars, quitVars>>

Reconnect(p) ==
    /\ ~quit /\ panels[p] = "lost"
    /\ Connects(p)
    /\ UNCHANGED <<outside, scanVars, quitVars>>

\* closeEvent of the window, and remove_panel, which refreshes the list.
NotRefreshed == UNCHANGED <<scanVars>>
ListRefreshed == Refreshed

ClosePanel(p) ==
    /\ ~quit /\ panels[p] # None
    /\ panels' = [panels EXCEPT ![p] = None]
    /\ handler' = Hangs({p})
    /\ ListRefreshed
    /\ UNCHANGED <<claimed, attached, tally, outside, quitVars>>

\* script_count: every other client of the broker is a script.
EveryWindow == {p \in Ports : panels[p] # None}
OpenConnections == {p \in Ports : panels[p] = "open"}
ScriptCount == IF ClientCount > Cardinality(OpenConnections)
               THEN ClientCount - Cardinality(OpenConnections) ELSE 0

\* A script is connected once it has its REPLY_OK.
Accepted == {s \in Scripts : handler[s].here /\ handler[s].pc \in {"replied", "counted", "dropping"}}

\* closeEvent of the hub: it asks when there are scripts. Then it closes the
\* windows and the program ends, with its scan and its broker.
Quit ==
    /\ ~quit /\ quit' = TRUE
    /\ unasked' = IF ScriptCount = 0 THEN Accepted ELSE {}
    /\ panels' = [p \in Ports |-> None]
    /\ handler' = [c \in Clients |-> NoHandler] /\ tally' = {}
    /\ claimed' = {} /\ attached' = {}
    /\ scan' = [w \in Workers |-> NoScan] /\ worker' = None
    /\ UNCHANGED <<outside, rescan, rows, number, asked, shown>>

\* Another program opens or closes a port.
OutsideOpens(p) ==
    /\ ~quit /\ p \notin outside \cup Devices /\ outside' = outside \cup {p}
    /\ UNCHANGED <<brokerVars, scanVars, panels, quitVars>>

OutsideCloses(p) ==
    /\ ~quit /\ p \in outside /\ outside' = outside \ {p}
    /\ UNCHANGED <<brokerVars, scanVars, panels, quitVars>>

-----------------------------------------------------------------------------
ScanStep(w) == (\E p \in Ports : ProbeOpens(w, p)) \/ ProbeEnds(w) \/ ScanEnds(w)
HandlerStep(c) ==
    Reply(c) \/ ReplyFails(c) \/ Count(c) \/ RequestFails(c) \/ Release(c) \/ Close(c)
Window(p) == OpenPanel(p) \/ LosesConnection(p) \/ Reconnect(p) \/ ClosePanel(p)

Next ==
    \/ \E w \in Workers : ScanStep(w) \/ ShowResults(w)
    \/ \E c \in Clients : HandlerStep(c)
    \/ \E s \in Scripts : ScriptConnects(s) \/ ScriptLeaves(s)
    \/ \E p \in Ports : Window(p) \/ OutsideOpens(p) \/ OutsideCloses(p)
    \/ Refresh
    \/ Quit

Spec == Init /\ [][Next]_vars

\* The scan's thread runs and the GUI thread takes the results.
Fairness ==
    /\ WF_vars(\E w \in Workers : ScanStep(w))
    /\ WF_vars(\E w \in Workers : ShowResults(w))

FairSpec == Spec /\ Fairness

-----------------------------------------------------------------------------
(* Properties                                                               *)

TypeOK ==
    /\ claimed \subseteq Ports /\ attached \subseteq Ports /\ outside \subseteq Ports
    /\ scan \in [Workers -> [pc : {"none", "probing", "done"}, todo : SUBSET Ports,
                             at : Ports \cup {None}, found : SUBSET Arms, for : 0..MaxAsked]]
    /\ worker \in Workers \cup {None} /\ rescan \in BOOLEAN
    /\ rows \in [Ports -> {None, "free", "panel open", "in use elsewhere"}]
    /\ number \in [Ports -> Nat]
    /\ panels \in [Ports -> {None, "open", "lost"}]
    /\ handler \in [Clients -> [port : Ports \cup {None}, here : BOOLEAN, opened : BOOLEAN,
                                pc : {"none", "attached", "replied", "counted", "dropping", "closing"},
                                trans : {"live", "dropped", "closed"}]]
    /\ tally \subseteq Clients
    /\ asked \in 1..MaxAsked /\ shown \in 0..asked
    /\ quit \in BOOLEAN /\ unasked \subseteq Scripts

\* One scan at a time, and it is the one the hub waits for: two would find each
\* other's ports busy.
OneScan == ~quit => Running = {worker} \ {None}

\* A claim does not outlive its device, and a device is opened once: by the scan, by the
\* broker, or by another program. (A device may have lost its claim: PortsClaimed.)
ClaimsHeld ==
    /\ claimed \subseteq Devices
    /\ Probed \cap attached = {} /\ Probed \cap Dropped = {} /\ attached \cap Dropped = {}
    /\ outside \cap Devices = {}

\* No device is left open with nobody to close it: one that was dropped has a handler on
\* its way to close it, and one the broker serves has a client that is counted, or about
\* to be, whose release finds the count at zero in the end.
WillClose(c) == handler[c].pc \in {"dropping", "closing"} /\ handler[c].trans = "dropped"
WillRelease(c) == c \in tally \/ handler[c].opened
Attended ==
    /\ \A p \in Dropped : \E c \in At(p) : WillClose(c)
    /\ \A p \in attached : \E c \in At(p) : WillRelease(c)

HubInvariant == TypeOK /\ OneScan /\ ClaimsHeld /\ Attended

\* A row that says a window is open tells the truth, however old the list is.
TagTrue == ~quit => \A p \in Ports : rows[p] = "panel open" => panels[p] # None

\* The hub's count sees every script that was counted, whatever the windows' connections
\* have been through, but for one for each count that the release of an uncounted client
\* has taken away.
CountedScripts == Counted \cap Scripts
ScriptsSeen ==
    ~quit => Cardinality(CountedScripts) <= ScriptCount + Cardinality(Counted \ tally)

\* What the documentation promises: closing the hub cuts off no script that is connected
\* without a question. The code does not keep it: a script is connected before it is
\* counted, and the release of another client may take away its count.
QuitAsks == unasked = {}

\* What is_port_claimed promises: the ports the broker has open are claimed. The code does
\* not keep it: the late close of a dropped transport takes the claim of the next.
PortsClaimed == attached \subseteq claimed

\* No two arms have the same number, and an arm keeps its own.
NamesKept ==
    [][\A p \in Ports : Named(p) => /\ number'[p] = number[p]
                                    /\ \A q \in Ports \ {p} : number'[q] # number[p]]_vars

\* Each refresh is answered by a scan that started after it was asked for.
RefreshAnswered == \A n \in 1..MaxAsked : asked >= n ~> shown >= n \/ quit
=============================================================================
