------------------------------ MODULE HubProofs ------------------------------
(* Theorems about the hub window, for any ports, arms, scripts and discovery  *)
(* threads: one scan at a time, the devices and the claims of the program,    *)
(* what the list says, the scripts the hub counts, and the names of the arms. *)
EXTENDS Hub, TLAPS, FiniteSetTheorems, FunctionTheorems

\* The hub waits for the scan that runs, also when it is closed.
OneWorker == Running = {worker} \ {None}

\* A scan holds a port only while it probes, and answers no refresh of the future.
ScansSound ==
    \A w \in Workers : scan[w].for <= asked /\ (scan[w].pc # "probing" => scan[w].at = None)

HandlerType == [port : Ports \cup {None}, here : BOOLEAN, opened : BOOLEAN,
                pc : {"none", "attached", "replied", "counted", "dropping", "closing"},
                trans : {"live", "dropped", "closed"}]

BrokerTypes ==
    /\ claimed \subseteq Ports /\ attached \subseteq Ports /\ outside \subseteq Ports
    /\ handler \in [Clients -> HandlerType] /\ tally \subseteq Clients

\* A transport that is live is the one the broker has for the port, and who is counted in has
\* got past the count.
HandlersSound ==
    /\ \A c \in Clients :
          /\ handler[c].pc = "none" => handler[c] = NoHandler
          /\ handler[c].pc # "none" => handler[c].port \in Ports
          /\ handler[c].trans = "live" => handler[c].port \in attached
          /\ handler[c].opened => handler[c].pc \in {"attached", "replied"}
    /\ tally \subseteq Counted

BrokerSound == BrokerTypes /\ HandlersSound /\ ClaimsHeld /\ Attended

\* The broker has counted the connection of an open window.
Heard(c) == c \in Counted /\ handler[c].here
WindowsCounted == \A p \in Ports : panels[p] = "open" => Heard(p)

\* No client that is counted and still there is put back by the step of a handler.
HeardKeeps == \A c \in Clients : Heard(c) => Heard(c)'

NamedPorts == {p \in Ports : Named(p)}

\* The numbers are those up to the number of named arms, each once.
NumbersSound ==
    /\ \A p \in NamedPorts : number[p] <= Cardinality(NamedPorts)
    /\ \A p, q \in NamedPorts : p # q => number[p] # number[q]

IInv ==
    /\ TypeOK /\ OneWorker /\ ScansSound /\ HandlersSound /\ ClaimsHeld /\ Attended
    /\ WindowsCounted /\ TagTrue /\ NumbersSound

-----------------------------------------------------------------------------
(* Scans                                                                    *)

ScanType == [pc : {"none", "probing", "done"}, todo : SUBSET Ports,
             at : Ports \cup {None}, found : SUBSET Arms, for : 0..MaxAsked]

ScanTypes ==
    /\ scan \in [Workers -> ScanType] /\ worker \in Workers \cup {None}
    /\ asked \in 1..MaxAsked /\ claimed \subseteq Ports

LEMMA Bound == MaxAsked \in Nat /\ MaxAsked # 0
BY HubAssumption

LEMMA NoneElsewhere == None \notin Ports /\ None \notin Workers /\ None \notin Scripts
BY HubAssumption DEF Clients

LEMMA ScanConstants ==
    NoScan \in ScanType /\ NoScan.pc = "none" /\ NoScan.at = None /\ NoScan.for = 0
BY Bound DEF NoScan, ScanType

LEMMA ProbingScan ==
    ASSUME NEW n \in 0..MaxAsked
    PROVE  /\ Probing(n) \in ScanType /\ Probing(n).pc = "probing" /\ Probing(n).at = None
           /\ Probing(n).for = n
BY DEF Probing, NoScan, ScanType

\* The scan of one thread changes.
LEMMA OneScanChanges ==
    ASSUME ScanTypes, OneWorker, ScansSound, NEW w \in Workers, NEW new \in ScanType,
           scan' = [scan EXCEPT ![w] = new], asked' \in asked..MaxAsked,
           new.for <= asked', new.pc # "probing" => new.at = None,
           worker' = (IF new.pc = "none" THEN None ELSE w), worker \in {w, None},
           claimed' \subseteq Ports
    PROVE  /\ ScanTypes' /\ OneWorker' /\ ScansSound' /\ scan'[w] = new
           /\ Running' = IF new.pc = "none" THEN {} ELSE {w}
<1>1. /\ scan' \in [Workers -> ScanType] /\ scan'[w] = new
      /\ \A v \in Workers \ {w} : scan'[v] = scan[v]
  BY DEF ScanTypes
<1>2. \A v \in Workers \ {w} : v \notin Running
  BY DEF OneWorker
<1>3. \A v \in Workers \ {w} : scan[v].pc = "none"
  BY <1>2 DEF Running
<1>4. Running' = IF new.pc = "none" THEN {} ELSE {w}
  BY <1>1, <1>3 DEF Running
<1>5. worker' \in Workers \cup {None}
  OBVIOUS
<1>6. asked' \in 1..MaxAsked /\ asked \in Nat /\ asked' \in Nat
  BY Bound DEF ScanTypes
<1>7. OneWorker'
  BY <1>4, NoneElsewhere DEF OneWorker
<1>8. ScansSound'
  <2>1. ASSUME NEW v \in Workers \ {w}
        PROVE  scan'[v].for <= asked' /\ (scan'[v].pc # "probing" => scan'[v].at = None)
    <3>1. scan[v] \in ScanType /\ scan'[v] = scan[v] /\ scan[v].for <= asked
          /\ (scan[v].pc # "probing" => scan[v].at = None)
      BY <1>1 DEF ScansSound, ScanTypes
    <3>2. scan[v].for \in Nat /\ asked <= asked'
      BY <1>6, <3>1, Bound DEF ScanType, ScanTypes
    <3> QED  BY <1>6, <3>1, <3>2
  <2> QED  BY <1>1, <2>1 DEF ScansSound
<1> QED  BY <1>1, <1>4, <1>5, <1>6, <1>7, <1>8 DEF ScanTypes

\* A scan starts when none runs.
LEMMA ScanStarts ==
    ASSUME ScanTypes, OneWorker, ScansSound, worker = None, StartScan, asked' \in asked..MaxAsked,
           claimed' \subseteq Ports
    PROVE  /\ ScanTypes' /\ OneWorker' /\ ScansSound'
           /\ \E w \in Workers : Running' = {w} /\ scan'[w].at = None
<1> DEFINE w == CHOOSE v \in Workers : v \notin Running
<1>1. Running = {}
  BY DEF OneWorker
<1>2. w \in Workers
  BY <1>1, HubAssumption
<1>3. worker' = w /\ scan' = [scan EXCEPT ![w] = Probing(asked')]
  BY DEF StartScan
<1>4. asked' \in 0..MaxAsked /\ asked' <= asked'
  BY Bound DEF ScanTypes
<1>5. /\ Probing(asked') \in ScanType /\ Probing(asked').pc = "probing"
      /\ Probing(asked').at = None /\ Probing(asked').for = asked'
  BY <1>4, ProbingScan
<1> HIDE DEF w
<1> DEFINE new == Probing(asked')
<1>6. /\ new \in ScanType /\ scan' = [scan EXCEPT ![w] = new] /\ new.for <= asked'
      /\ new.pc # "probing" => new.at = None
      /\ worker' = IF new.pc = "none" THEN None ELSE w
      /\ new.pc # "none" /\ new.at = None
  BY <1>3, <1>4, <1>5
<1> HIDE DEF new
<1>7. /\ ScanTypes' /\ OneWorker' /\ ScansSound' /\ scan'[w] = new
      /\ Running' = {w}
  BY <1>2, <1>6, OneScanChanges
<1> QED  BY <1>2, <1>6, <1>7

\* What a refresh does to the scans: none, or one that has no port yet.
LEMMA RefreshedScans ==
    ASSUME ScanTypes, OneWorker, ScansSound, Refreshed, claimed' = claimed
    PROVE  ScanTypes' /\ OneWorker' /\ ScansSound' /\ Probed' = Probed
<1>1. /\ asked' \in asked..MaxAsked /\ asked' \in 1..MaxAsked /\ claimed' \subseteq Ports
      /\ asked \in Nat /\ asked <= asked'
  BY Bound DEF Refreshed, ScanTypes
<1>2. CASE worker # None
  <2>1. worker' = worker /\ scan' = scan
    BY <1>2 DEF Refreshed, OneAtATime
  <2>2. Running' = Running
    BY <2>1 DEF Running
  <2>3. ScansSound'
    <3>1. ASSUME NEW v \in Workers
          PROVE  scan[v].for <= asked' /\ (scan[v].pc # "probing" => scan[v].at = None)
      <4>1. scan[v] \in ScanType /\ scan[v].for <= asked
        BY DEF ScansSound, ScanTypes
      <4>2. scan[v].for \in Nat
        BY <4>1, Bound DEF ScanType
      <4> QED  BY <1>1, <4>1, <4>2 DEF ScansSound
    <3> QED  BY <2>1, <3>1 DEF ScansSound
  <2> QED  BY <1>1, <2>1, <2>2, <2>3 DEF ScanTypes, OneWorker, Probed
<1>3. CASE worker = None
  <2>1. StartScan
    BY <1>3 DEF Refreshed, OneAtATime
  <2>2. /\ ScanTypes' /\ OneWorker' /\ ScansSound'
        /\ \E w \in Workers : Running' = {w} /\ scan'[w].at = None
    BY <1>1, <1>3, <2>1, ScanStarts
  <2>3. Probed' = {} /\ Probed = {}
    BY <1>3, <2>2 DEF Probed, OneWorker
  <2> QED  BY <2>2, <2>3
<1> QED  BY <1>2, <1>3

\* A thread that is at work is the one the hub waits for.
LEMMA TheWorker ==
    ASSUME ScanTypes, OneWorker, NEW w \in Workers, scan[w].pc # "none"
    PROVE  /\ worker = w /\ Running = {w} /\ Probed = {scan[w].at} \ {None}
           /\ scan[w] \in ScanType
BY DEF ScanTypes, OneWorker, Running, Probed

LEMMA ProbeOpensScan ==
    ASSUME ScanTypes, OneWorker, ScansSound, NEW w \in Workers, NEW p \in Ports, ProbeOpens(w, p)
    PROVE  /\ ScanTypes' /\ OneWorker' /\ ScansSound'
           /\ \/ claimed' = claimed /\ Probed' = Probed
              \/ Free(p) /\ claimed' = claimed \cup {p} /\ Probed' = Probed \cup {p}
<1>1. /\ worker = w /\ Probed = {} /\ scan[w] \in ScanType /\ scan[w].pc = "probing"
      /\ worker' = worker /\ asked' = asked
  BY TheWorker DEF ProbeOpens, Scanning
<1>2. asked' \in asked..MaxAsked /\ scan[w].for <= asked' /\ claimed' \subseteq Ports
  BY <1>1, Bound DEF ScanTypes, ScansSound, ProbeOpens
<1>3. CASE ~Free(p)
  <2> DEFINE new == [scan[w] EXCEPT !.todo = @ \ {p}]
  <2>1. /\ new \in ScanType /\ new.pc = "probing" /\ new.at = None /\ new.for = scan[w].for
        /\ scan' = [scan EXCEPT ![w] = new] /\ claimed' = claimed
    BY <1>1, <1>3 DEF ScanType, ProbeOpens
  <2> HIDE DEF new
  <2>2. /\ ScanTypes' /\ OneWorker' /\ ScansSound' /\ scan'[w] = new /\ Running' = {w}
    BY <1>1, <1>2, <2>1, OneScanChanges
  <2>3. Probed' = {}
    BY <2>1, <2>2 DEF Probed
  <2> QED  BY <1>1, <2>1, <2>2, <2>3
<1>4. CASE Free(p)
  <2> DEFINE new == [scan[w] EXCEPT !.todo = @ \ {p}, !.at = p]
  <2>1. /\ new \in ScanType /\ new.pc = "probing" /\ new.at = p /\ new.for = scan[w].for
        /\ scan' = [scan EXCEPT ![w] = new] /\ claimed' = claimed \cup {p}
    BY <1>1, <1>4 DEF ScanType, ProbeOpens
  <2> HIDE DEF new
  <2>2. /\ ScanTypes' /\ OneWorker' /\ ScansSound' /\ scan'[w] = new /\ Running' = {w}
    BY <1>1, <1>2, <2>1, OneScanChanges
  <2>3. Probed' = {p}
    BY <2>1, <2>2, NoneElsewhere DEF Probed
  <2> QED  BY <1>1, <1>4, <2>1, <2>2, <2>3
<1> QED  BY <1>3, <1>4

LEMMA ProbeEndsScan ==
    ASSUME ScanTypes, OneWorker, ScansSound, NEW w \in Workers, ProbeEnds(w)
    PROVE  /\ ScanTypes' /\ OneWorker' /\ ScansSound'
           /\ Probed = {scan[w].at} /\ Probed' = {} /\ claimed' = claimed \ {scan[w].at}
<1>1. /\ worker = w /\ Probed = {scan[w].at} /\ scan[w] \in ScanType /\ scan[w].pc = "probing"
      /\ worker' = worker /\ asked' = asked /\ claimed' = claimed \ {scan[w].at}
  BY TheWorker DEF ProbeEnds, Scanning
<1>2. asked' \in asked..MaxAsked /\ scan[w].for <= asked' /\ claimed' \subseteq Ports
  BY <1>1, Bound DEF ScanTypes, ScansSound
<1>3. PICK found \in {{}, Arms \cap {scan[w].at}} :
         scan' = [scan EXCEPT ![w].at = None, ![w].found = @ \cup found]
  BY DEF ProbeEnds
<1> DEFINE new == [scan[w] EXCEPT !.at = None, !.found = @ \cup found]
<1>4. /\ new \in ScanType /\ new.pc = "probing" /\ new.at = None /\ new.for = scan[w].for
      /\ scan' = [scan EXCEPT ![w] = new]
  BY <1>1, <1>3 DEF ScanType
<1> HIDE DEF new
<1>5. /\ ScanTypes' /\ OneWorker' /\ ScansSound' /\ scan'[w] = new /\ Running' = {w}
  BY <1>1, <1>2, <1>4, OneScanChanges
<1>6. Probed' = {}
  BY <1>4, <1>5 DEF Probed
<1> QED  BY <1>1, <1>5, <1>6

LEMMA ScanEndsScan ==
    ASSUME ScanTypes, OneWorker, ScansSound, NEW w \in Workers, ScanEnds(w)
    PROVE  ScanTypes' /\ OneWorker' /\ ScansSound' /\ Probed' = Probed
<1>1. /\ worker = w /\ Probed = {} /\ scan[w] \in ScanType /\ scan[w].at = None
      /\ worker' = worker /\ asked' = asked /\ claimed' = claimed
  BY TheWorker DEF ScanEnds, Scanning, brokerVars
<1>2. asked' \in asked..MaxAsked /\ scan[w].for <= asked' /\ claimed' \subseteq Ports
  BY <1>1, Bound DEF ScanTypes, ScansSound
<1>3. PICK todo \in SUBSET Ports, found \in SUBSET Arms :
         scan' = [scan EXCEPT ![w] = [scan[w] EXCEPT !.pc = "done", !.todo = todo, !.found = found]]
  <2>1. CASE scan' = [scan EXCEPT ![w].pc = "done"]
    <3>1. scan' = [scan EXCEPT ![w] = [scan[w] EXCEPT !.pc = "done", !.todo = scan[w].todo,
                                                     !.found = scan[w].found]]
      BY <1>1, <2>1 DEF ScanType
    <3>2. scan[w].todo \in SUBSET Ports /\ scan[w].found \in SUBSET Arms
      BY <1>1 DEF ScanType
    <3> QED  BY <3>1, <3>2
  <2>2. CASE scan' = [scan EXCEPT ![w].pc = "done", ![w].todo = {}, ![w].found = {}]
    <3>1. scan' = [scan EXCEPT ![w] = [scan[w] EXCEPT !.pc = "done", !.todo = {}, !.found = {}]]
      BY <2>2
    <3> QED  BY <3>1
  <2> QED  BY <2>1, <2>2 DEF ScanEnds
<1> DEFINE new == [scan[w] EXCEPT !.pc = "done", !.todo = todo, !.found = found]
<1>4. /\ new \in ScanType /\ new.pc = "done" /\ new.at = None /\ new.for = scan[w].for
      /\ scan' = [scan EXCEPT ![w] = new]
  BY <1>1, <1>3 DEF ScanType
<1> HIDE DEF new
<1>5. /\ ScanTypes' /\ OneWorker' /\ ScansSound' /\ scan'[w] = new /\ Running' = {w}
  BY <1>1, <1>2, <1>4, OneScanChanges
<1>6. Probed' = {}
  BY <1>4, <1>5 DEF Probed
<1> QED  BY <1>1, <1>5, <1>6

LEMMA ShowResultsScan ==
    ASSUME ScanTypes, OneWorker, ScansSound, NEW w \in Workers, ShowResults(w)
    PROVE  ScanTypes' /\ OneWorker' /\ ScansSound' /\ Probed' = Probed
<1>1. /\ worker = w /\ scan[w] \in ScanType /\ scan[w].pc = "done"
      /\ asked' = asked /\ claimed' = claimed
  BY TheWorker DEF ShowResults, brokerVars
<1>2. scan[w].at = None
  BY <1>1 DEF ScansSound
<1>3. Probed = {}
  BY <1>1, <1>2, TheWorker
<1>4. /\ asked' \in asked..MaxAsked /\ 0 <= asked' /\ claimed' \subseteq Ports
      /\ asked \in 0..MaxAsked /\ asked <= asked'
  BY <1>1, Bound DEF ScanTypes
<1>5. CASE Superseded(w)
  <2> DEFINE new == Probing(asked)
  <2>1. /\ new \in ScanType /\ new.pc = "probing" /\ new.at = None /\ new.for = asked
    BY <1>4, ProbingScan
  <2>2. scan' = [scan EXCEPT ![w] = new] /\ worker' = worker
    BY <1>5 DEF ShowResults
  <2> HIDE DEF new
  <2>3. /\ ScanTypes' /\ OneWorker' /\ ScansSound' /\ scan'[w] = new /\ Running' = {w}
    BY <1>1, <1>4, <2>1, <2>2, OneScanChanges
  <2>4. Probed' = {}
    BY <2>1, <2>3 DEF Probed
  <2> QED  BY <1>3, <2>3, <2>4
<1>6. CASE ~Superseded(w)
  <2>1. scan' = [scan EXCEPT ![w] = NoScan] /\ worker' = None
    BY <1>6 DEF ShowResults
  <2>2. /\ ScanTypes' /\ OneWorker' /\ ScansSound' /\ Running' = {}
    BY <1>1, <1>4, <2>1, ScanConstants, OneScanChanges
  <2>3. Probed' = {}
    BY <2>2 DEF Probed
  <2> QED  BY <1>3, <2>2, <2>3
<1> QED  BY <1>5, <1>6

LEMMA QuitScan ==
    ASSUME ScanTypes, OneWorker, ScansSound, Quit
    PROVE  ScanTypes' /\ OneWorker' /\ ScansSound' /\ Probed' = {}
<1>1. /\ scan' = [w \in Workers |-> NoScan] /\ worker' = None /\ asked' = asked /\ claimed' = {}
  BY DEF Quit
<1>2. Running' = {}
  BY <1>1, ScanConstants DEF Running
<1>3. ScansSound' /\ ScanTypes'
  BY <1>1, ScanConstants, Bound DEF ScansSound, ScanTypes
<1> QED  BY <1>1, <1>2, <1>3 DEF OneWorker, Probed

\* In the other steps the scans stand still.
LEMMA ScansStill ==
    ASSUME ScanTypes, OneWorker, ScansSound, UNCHANGED scanVars, claimed' \subseteq Ports
    PROVE  ScanTypes' /\ OneWorker' /\ ScansSound' /\ Probed' = Probed
<1>1. scan' = scan /\ worker' = worker /\ asked' = asked
  BY DEF scanVars
<1>2. Running' = Running
  BY <1>1 DEF Running
<1> QED  BY <1>1, <1>2 DEF ScanTypes, OneWorker, ScansSound, Probed

-----------------------------------------------------------------------------
(* Ports and connections                                                    *)

LEMMA ClientParts ==
    /\ \A p \in Ports : p \in Clients /\ p \notin Scripts
    /\ \A s \in Scripts : s \in Clients /\ s \notin Ports
BY HubAssumption DEF Clients

LEMMA NoHandlerType ==
    /\ NoHandler \in HandlerType /\ NoHandler.port = None /\ NoHandler.pc = "none"
    /\ NoHandler.trans = "closed" /\ NoHandler.opened = FALSE /\ NoHandler.here = FALSE
BY DEF NoHandler, HandlerType

\* What was dropped are ports.
LEMMA DroppedPorts ==
    ASSUME BrokerSound
    PROVE  Dropped \subseteq Ports
BY NoHandlerType DEF BrokerSound, HandlersSound, Dropped

\* The scans open and close their ports.
LEMMA ProbesKeep ==
    ASSUME BrokerSound, handler' = handler, attached' = attached, tally' = tally,
           outside' = outside, claimed' \subseteq Ports,
           \/ claimed' = claimed /\ Probed' = Probed
           \/ \E p \in Ports : /\ Free(p)
                               /\ claimed' = claimed \cup {p} /\ Probed' = Probed \cup {p}
           \/ claimed' = claimed \ Probed /\ Probed' = {}
    PROVE  BrokerSound'
<1>1. Dropped' = Dropped /\ \A p \in Ports : At(p)' = At(p)
  BY DEF Dropped, At
<1>2. ClaimsHeld'
  BY <1>1 DEF BrokerSound, ClaimsHeld, Devices, Free
<1>3. Attended'
  <2>1. \A c \in Clients : (WillClose(c)' <=> WillClose(c)) /\ (WillRelease(c)' <=> WillRelease(c))
    BY DEF WillClose, WillRelease
  <2>2. Dropped \subseteq Ports
    BY DroppedPorts DEF BrokerSound
  <2> QED  BY <1>1, <2>1, <2>2 DEF BrokerSound, BrokerTypes, Attended, At
<1> QED  BY <1>2, <1>3 DEF BrokerSound, BrokerTypes, HandlersSound, Counted

\* So do the other programs.
LEMMA OutsideKeeps ==
    ASSUME BrokerSound, UNCHANGED brokerVars, Probed' = Probed, outside' \subseteq Ports,
           outside' \cap Devices = {}
    PROVE  BrokerSound'
<1>1. handler' = handler /\ attached' = attached /\ tally' = tally /\ claimed' = claimed
  BY DEF brokerVars
<1>2. Dropped' = Dropped /\ \A p \in Ports : At(p)' = At(p)
  BY <1>1 DEF Dropped, At
<1>3. ClaimsHeld'
  BY <1>1, <1>2 DEF BrokerSound, ClaimsHeld, Devices
<1>4. Attended'
  BY <1>1, <1>2 DEF BrokerSound, Attended, At, WillClose, WillRelease
<1> QED  BY <1>1, <1>3, <1>4 DEF BrokerSound, BrokerTypes, HandlersSound, Counted

\* Handlers go on without a change to the transports: those that are to close one still are,
\* and those that are to release one.
LEMMA HandlersGoOn ==
    ASSUME BrokerSound, handler' \in [Clients -> HandlerType], tally' \subseteq Clients,
           HandlersSound',
           \A c \in Clients : /\ handler'[c].port = handler[c].port
                              /\ handler'[c].trans = handler[c].trans
                              /\ WillClose(c) => WillClose(c)'
                              /\ WillRelease(c) => WillRelease(c)',
           claimed' = claimed, attached' = attached, outside' = outside, Probed' = Probed
    PROVE  BrokerSound'
<1>1. Dropped' = Dropped
  BY DEF Dropped
<1>2. \A p \in Ports : At(p)' = At(p)
  BY DEF At
<1>3. ClaimsHeld'
  BY <1>1 DEF BrokerSound, ClaimsHeld, Devices
<1>4. Attended'
  <2>1. Dropped \subseteq Ports
    BY DroppedPorts DEF BrokerSound
  <2> QED  BY <1>1, <1>2, <2>1 DEF BrokerSound, BrokerTypes, Attended, At
<1> QED  BY <1>3, <1>4 DEF BrokerSound, BrokerTypes

\* Clients go away.
LEMMA HangsKeeps ==
    ASSUME BrokerSound, NEW c \in Clients,
           \/ handler' = [handler EXCEPT ![c].here = FALSE]
           \/ c \in Ports /\ handler' = Hangs({c}),
           claimed' = claimed, attached' = attached, tally' = tally, outside' = outside,
           Probed' = Probed
    PROVE  BrokerSound' /\ \A d \in Clients \ {c} : handler'[d] = handler[d]
<1>1. handler \in [Clients -> HandlerType]
  BY DEF BrokerSound, BrokerTypes
<1>2. handler' = [handler EXCEPT ![c] = [handler[c] EXCEPT !.here = FALSE]]
  BY <1>1 DEF Hangs
<1> DEFINE new == [handler[c] EXCEPT !.here = FALSE]
<1>3. /\ new \in HandlerType /\ new.port = handler[c].port /\ new.pc = handler[c].pc
      /\ new.trans = handler[c].trans /\ new.opened = handler[c].opened
      /\ handler[c] = NoHandler => new = NoHandler
  <2>1. handler[c] \in HandlerType
    BY <1>1
  <2>2. /\ new \in HandlerType /\ new.port = handler[c].port /\ new.pc = handler[c].pc
        /\ new.trans = handler[c].trans /\ new.opened = handler[c].opened
    BY <2>1 DEF HandlerType
  <2>3. new.here = FALSE
    BY <2>1 DEF HandlerType
  <2>4. handler[c] = NoHandler => new = NoHandler
    <3> HIDE DEF new
    <3>1. \A a, b \in HandlerType :
             /\ a.port = b.port /\ a.pc = b.pc /\ a.here = b.here /\ a.opened = b.opened
             /\ a.trans = b.trans
             => a = b
      BY DEF HandlerType
    <3> QED  BY <2>2, <2>3, <3>1, NoHandlerType
  <2> QED  BY <2>2, <2>4
<1> HIDE DEF new
<1>4. /\ handler' \in [Clients -> HandlerType] /\ handler'[c] = new
      /\ \A d \in Clients \ {c} : handler'[d] = handler[d]
  BY <1>1, <1>2, <1>3 DEF new
<1>5. \A d \in Clients : /\ handler'[d].port = handler[d].port /\ handler'[d].pc = handler[d].pc
                         /\ handler'[d].trans = handler[d].trans
                         /\ handler'[d].opened = handler[d].opened
                         /\ handler[d] = NoHandler => handler'[d] = NoHandler
  BY <1>3, <1>4
<1>6. HandlersSound'
  BY <1>5 DEF BrokerSound, HandlersSound, Counted
<1>7. \A d \in Clients : (WillClose(d) => WillClose(d)') /\ (WillRelease(d) => WillRelease(d)')
  BY <1>5 DEF WillClose, WillRelease
<1>8. BrokerSound'
  <2>1. tally' \subseteq Clients
    BY DEF BrokerSound, BrokerTypes
  <2> QED  BY <1>4, <1>5, <1>6, <1>7, <2>1, HandlersGoOn
<1> QED  BY <1>4, <1>8

\* The broker serves one client more.
LEMMA AttachedKeeps ==
    ASSUME BrokerSound, NEW c \in Clients, NEW p \in Ports, NEW pc \in {"attached", "counted"},
           NEW here \in BOOLEAN, handler[c] = NoHandler, Attached(c, p, pc, here),
           tally' = IF pc = "counted" THEN tally \cup {c} ELSE tally,
           outside' = outside, Probed' = Probed
    PROVE  /\ BrokerSound' /\ \A d \in Clients \ {c} : handler'[d] = handler[d]
           /\ handler'[c].pc = pc /\ handler'[c].here = here
<1>1. PICK opened \in BOOLEAN :
         /\ opened => pc = "attached"
         /\ pc = "attached" => opened \/ p \in attached
         /\ p \in attached \/ Free(p)
         /\ handler' = [handler EXCEPT ![c] = [port |-> p, pc |-> pc, here |-> here,
                                              opened |-> opened, trans |-> "live"]]
         /\ attached' = attached \cup {p}
         /\ claimed' = IF p \in attached THEN claimed ELSE claimed \cup {p}
  BY DEF Attached
<1> DEFINE new == [port |-> p, pc |-> pc, here |-> here, opened |-> opened, trans |-> "live"]
<1>2. /\ new \in HandlerType /\ new.port = p /\ new.pc = pc /\ new.here = here
      /\ new.opened = opened /\ new.trans = "live"
  BY DEF HandlerType
<1> HIDE DEF new
<1>3. /\ handler' \in [Clients -> HandlerType] /\ handler'[c] = new
      /\ \A d \in Clients \ {c} : handler'[d] = handler[d]
  BY <1>1, <1>2 DEF new, BrokerSound, BrokerTypes
<1>4. Dropped' = Dropped
  BY <1>2, <1>3, NoHandlerType DEF Dropped
<1>5. ClaimsHeld'
  BY <1>1, <1>4 DEF BrokerSound, ClaimsHeld, Devices, Free
<1>6. HandlersSound'
  <2>1. c \in tally' => pc = "counted"
    BY NoHandlerType DEF BrokerSound, HandlersSound, Counted
  <2> QED  BY <1>1, <1>2, <1>3, <2>1, NoHandlerType DEF BrokerSound, HandlersSound, Counted
<1>7. Attended'
  <2>1. ASSUME NEW q \in Dropped  PROVE \E d \in At(q)' : WillClose(d)'
    <3>1. PICK d \in At(q) : WillClose(d)
      BY DEF BrokerSound, Attended
    <3>2. d \in Clients /\ d # c
      BY <3>1, NoHandlerType DEF At, WillClose
    <3> QED  BY <1>3, <3>1, <3>2 DEF At, WillClose
  <2>2. ASSUME NEW q \in attached  PROVE \E d \in At(q)' : WillRelease(d)'
    <3>1. PICK d \in At(q) : WillRelease(d)
      BY DEF BrokerSound, Attended
    <3>2. d \in Clients /\ d # c
      <4>1. q \in Ports
        BY DEF BrokerSound, BrokerTypes
      <4> QED  BY <3>1, <4>1, NoHandlerType, NoneElsewhere DEF At
    <3> QED  BY <1>3, <3>1, <3>2 DEF At, WillRelease
  <2>3. ASSUME p \notin attached  PROVE \E d \in At(p)' : WillRelease(d)'
    <3>1. pc = "counted" => c \in tally'
      OBVIOUS
    <3> QED  BY <1>1, <1>2, <1>3, <2>3, <3>1 DEF At, WillRelease
  <2> QED  BY <1>1, <1>4, <2>1, <2>2, <2>3 DEF Attended
<1>8. attached' \subseteq Ports /\ claimed' \subseteq Ports /\ tally' \subseteq Clients
  BY <1>1 DEF BrokerSound, BrokerTypes
<1> QED  BY <1>2, <1>3, <1>5, <1>6, <1>7, <1>8 DEF BrokerSound, BrokerTypes

\* REPLY_OK is on its way, and then the client is counted.
LEMMA ReplyKeeps ==
    ASSUME BrokerSound, NEW c \in Clients, Reply(c) \/ Count(c), Probed' = Probed
    PROVE  BrokerSound' /\ HeardKeeps
<1>1. handler \in [Clients -> HandlerType] /\ handler[c] \in HandlerType
  BY DEF BrokerSound, BrokerTypes
<1>2. PICK pc \in {"replied", "counted"}, opened \in {handler[c].opened, FALSE} :
         /\ handler' = [handler EXCEPT ![c] = [handler[c] EXCEPT !.pc = pc, !.opened = opened]]
         /\ handler[c].pc \in {"attached", "replied"}
         /\ pc = "replied" => opened = handler[c].opened /\ tally' = tally
         /\ pc = "counted" => opened = FALSE /\ tally' = tally \cup {c}
  <2>1. CASE Reply(c)
    <3>1. handler' = [handler EXCEPT ![c] = [handler[c] EXCEPT !.pc = "replied", !.opened = handler[c].opened]]
      BY <1>1, <2>1 DEF Reply, HandlerType
    <3> QED  BY <2>1, <3>1 DEF Reply
  <2>2. CASE Count(c)
    <3>1. handler' = [handler EXCEPT ![c] = [handler[c] EXCEPT !.pc = "counted", !.opened = FALSE]]
      BY <2>2 DEF Count
    <3> QED  BY <2>2, <3>1 DEF Count
  <2> QED  BY <2>1, <2>2
<1> DEFINE new == [handler[c] EXCEPT !.pc = pc, !.opened = opened]
<1>3. /\ new \in HandlerType /\ new.port = handler[c].port /\ new.pc = pc
      /\ new.trans = handler[c].trans /\ new.opened = opened /\ new.here = handler[c].here
  BY <1>1 DEF HandlerType
<1> HIDE DEF new
<1>4. /\ handler' \in [Clients -> HandlerType] /\ handler'[c] = new
      /\ \A d \in Clients \ {c} : handler'[d] = handler[d]
  BY <1>1, <1>2, <1>3 DEF new
<1>5. \A d \in Clients : handler'[d].port = handler[d].port /\ handler'[d].trans = handler[d].trans
  BY <1>3, <1>4
<1>6. HandlersSound'
  <2>1. ASSUME NEW d \in Clients
        PROVE  /\ handler'[d].pc = "none" => handler'[d] = NoHandler
               /\ handler'[d].pc # "none" => handler'[d].port \in Ports
               /\ handler'[d].trans = "live" => handler'[d].port \in attached'
               /\ handler'[d].opened => handler'[d].pc \in {"attached", "replied"}
    <3>1. attached' = attached
      BY DEF Reply, Count
    <3>2. CASE d = c
      BY <1>2, <1>3, <1>4, <3>1, <3>2 DEF BrokerSound, HandlersSound
    <3>3. CASE d # c
      BY <1>4, <3>1, <3>3 DEF BrokerSound, HandlersSound
    <3> QED  BY <3>2, <3>3
  <2>2. tally' \subseteq Counted'
    BY <1>2, <1>3, <1>4 DEF BrokerSound, HandlersSound, Counted
  <2> QED  BY <2>1, <2>2 DEF HandlersSound
<1>7. \A d \in Clients : (WillClose(d) => WillClose(d)') /\ (WillRelease(d) => WillRelease(d)')
  BY <1>2, <1>3, <1>4 DEF WillClose, WillRelease
<1>8. HeardKeeps
  BY <1>2, <1>3, <1>4 DEF HeardKeeps, Heard, Counted
<1>9. BrokerSound'
  <2>1. claimed' = claimed /\ attached' = attached /\ outside' = outside
    BY DEF Reply, Count
  <2>2. tally' \subseteq Clients
    BY <1>2 DEF BrokerSound, BrokerTypes
  <2> QED  BY <1>4, <1>5, <1>6, <1>7, <2>1, <2>2, HandlersGoOn
<1> QED  BY <1>8, <1>9

\* The transport of a port is dropped: what each client's handler is like then.
LEMMA DroppingShape ==
    ASSUME BrokerSound, NEW p \in Ports
    PROVE  /\ Dropping(p) \in [Clients -> HandlerType]
           /\ \A d \in Clients :
                 /\ Dropping(p)[d].port = handler[d].port /\ Dropping(p)[d].pc = handler[d].pc
                 /\ Dropping(p)[d].here = handler[d].here
                 /\ Dropping(p)[d].opened = handler[d].opened
                 /\ Dropping(p)[d].trans = IF handler[d].port = p /\ handler[d].trans = "live"
                                           THEN "dropped" ELSE handler[d].trans
                 /\ handler[d] = NoHandler => Dropping(p)[d] = NoHandler
<1>1. ASSUME NEW d \in Clients
      PROVE  /\ handler[d] \in HandlerType
             /\ [handler[d] EXCEPT !.trans = "dropped"] \in HandlerType
             /\ [handler[d] EXCEPT !.trans = "dropped"].port = handler[d].port
             /\ [handler[d] EXCEPT !.trans = "dropped"].pc = handler[d].pc
             /\ [handler[d] EXCEPT !.trans = "dropped"].here = handler[d].here
             /\ [handler[d] EXCEPT !.trans = "dropped"].opened = handler[d].opened
             /\ [handler[d] EXCEPT !.trans = "dropped"].trans = "dropped"
  BY DEF BrokerSound, BrokerTypes, HandlerType
<1>2. \A d \in Clients : Dropping(p)[d] = IF handler[d].port = p /\ handler[d].trans = "live"
                                          THEN [handler[d] EXCEPT !.trans = "dropped"] ELSE handler[d]
  BY DEF Dropping, At
<1>3. Dropping(p) \in [Clients -> HandlerType]
  BY <1>1 DEF Dropping
<1> QED  BY <1>1, <1>2, <1>3, NoHandlerType

\* A handler takes the transport of its port out of the map, and goes on to close it.
LEMMA DropKeeps ==
    ASSUME BrokerSound, NEW c \in Clients, NEW p \in attached, handler[c].port = p,
           NEW pc \in {"dropping", "closing"}, handler' \in [Clients -> HandlerType],
           \A d \in Clients : /\ handler'[d].port = handler[d].port
                              /\ handler[d] = NoHandler => handler'[d] = NoHandler
                              /\ d # c => handler'[d].pc = handler[d].pc
                              /\ d # c => handler'[d].opened = handler[d].opened
                              /\ d # c => handler'[d].trans =
                                             IF handler[d].port = p /\ handler[d].trans = "live"
                                             THEN "dropped" ELSE handler[d].trans,
           handler'[c].pc = pc, handler'[c].trans = "dropped", handler'[c].opened = FALSE,
           attached' = attached \ {p}, tally' \subseteq tally,
           c \in tally' => pc = "dropping",
           \A d \in tally \ tally' : handler[d].port = p,
           claimed' = claimed, outside' = outside, Probed' = Probed
    PROVE  BrokerSound'
<1>1. /\ p \in Ports /\ handler[c] # NoHandler /\ handler \in [Clients -> HandlerType]
      /\ attached \subseteq Ports
  BY NoHandlerType, NoneElsewhere DEF BrokerSound, BrokerTypes
<1>2. Dropped' = Dropped \cup {p}
  BY DEF Dropped
<1>3. ClaimsHeld'
  BY <1>2 DEF BrokerSound, ClaimsHeld, Devices
<1>4. HandlersSound'
  <2>1. ASSUME NEW d \in Clients
        PROVE  /\ handler'[d].pc = "none" => handler'[d] = NoHandler
               /\ handler'[d].pc # "none" => handler'[d].port \in Ports
               /\ handler'[d].trans = "live" => handler'[d].port \in attached'
               /\ handler'[d].opened => handler'[d].pc \in {"attached", "replied"}
    <3>1. CASE d = c
      BY <1>1, <3>1
    <3>2. CASE d # c
      BY <3>2 DEF BrokerSound, HandlersSound
    <3> QED  BY <3>1, <3>2
  <2>2. tally' \subseteq Counted'
    BY DEF BrokerSound, HandlersSound, Counted
  <2> QED  BY <2>1, <2>2 DEF HandlersSound
<1>5. Attended'
  <2>1. c \in At(p)' /\ WillClose(c)'
    BY DEF At, WillClose
  <2>2. ASSUME NEW q \in Dropped, q # p  PROVE \E d \in At(q)' : WillClose(d)'
    <3>1. PICK d \in At(q) : WillClose(d)
      BY DEF BrokerSound, Attended
    <3>2. d \in Clients /\ d # c /\ handler[d].port = q
      BY <2>2, <3>1 DEF At
    <3> QED  BY <2>2, <3>1, <3>2 DEF At, WillClose
  <2>3. ASSUME NEW q \in attached \ {p}  PROVE \E d \in At(q)' : WillRelease(d)'
    <3>1. PICK d \in At(q) : WillRelease(d)
      BY DEF BrokerSound, Attended
    <3>2. d \in Clients /\ d # c /\ handler[d].port = q
      BY <3>1 DEF At
    <3>3. d \in tally => d \in tally'
      BY <3>2
    <3> QED  BY <3>1, <3>2, <3>3 DEF At, WillRelease
  <2> QED  BY <1>2, <2>1, <2>2, <2>3 DEF Attended
<1>6. tally' \subseteq Clients
  BY DEF BrokerSound, BrokerTypes
<1> QED  BY <1>1, <1>3, <1>4, <1>5, <1>6 DEF BrokerSound, BrokerTypes

\* A handler ends: what it held is held by another, or was nothing.
LEMMA EndKeeps ==
    ASSUME BrokerSound, NEW c \in Clients, handler' = [handler EXCEPT ![c] = NoHandler],
           ~WillClose(c), attached' = attached, tally' \subseteq tally \ {c},
           WillRelease(c) /\ handler[c].port \in attached => tally' \cap At(handler[c].port) # {},
           \A d \in tally \ tally' :
              \/ d = c
              \/ handler[d].port = handler[c].port
                 /\ (handler[c].port \in attached => tally' \cap At(handler[c].port) # {}),
           claimed' = claimed, outside' = outside, Probed' = Probed
    PROVE  BrokerSound'
<1>1. /\ handler' \in [Clients -> HandlerType] /\ handler'[c] = NoHandler
      /\ \A d \in Clients \ {c} : handler'[d] = handler[d]
  BY NoHandlerType DEF BrokerSound, BrokerTypes
<1>2. ASSUME NEW q \in Dropped  PROVE \E d \in At(q)' : WillClose(d)'
  <2>1. PICK d \in At(q) : WillClose(d)
    BY DEF BrokerSound, Attended
  <2>2. d \in Clients /\ d # c
    BY <2>1 DEF At
  <2> QED  BY <1>1, <2>1, <2>2 DEF At, WillClose
<1>3. Dropped' = Dropped
  <2>1. Dropped' \subseteq Dropped
    BY <1>1, NoHandlerType DEF Dropped
  <2>2. ASSUME NEW q \in Dropped  PROVE q \in Dropped'
    BY <1>2 DEF Dropped, At, WillClose
  <2> QED  BY <2>1, <2>2
<1>4. ClaimsHeld'
  BY <1>3 DEF BrokerSound, ClaimsHeld, Devices
<1>5. ASSUME NEW q \in attached  PROVE \E d \in At(q)' : WillRelease(d)'
  <2>1. ASSUME NEW d \in tally' \cap At(q)  PROVE d \in At(q)' /\ WillRelease(d)'
    <3>1. d \in Clients \ {c} /\ handler[d].port = q
      BY DEF At
    <3> QED  BY <1>1, <3>1 DEF At, WillRelease
  <2>2. PICK d \in At(q) : WillRelease(d)
    BY DEF BrokerSound, Attended
  <2>3. d \in Clients /\ handler[d].port = q
    BY <2>2 DEF At
  <2>4. CASE tally' \cap At(q) # {}
    BY <2>1, <2>4
  <2>5. CASE tally' \cap At(q) = {}
    <3>1. d # c
      BY <2>2, <2>3, <2>5
    <3>2. d \in tally => d \in tally'
      BY <2>3, <2>5, <3>1
    <3> QED  BY <1>1, <2>2, <2>3, <3>1, <3>2 DEF At, WillRelease
  <2> QED  BY <2>4, <2>5
<1>6. Attended'
  BY <1>2, <1>3, <1>5 DEF Attended
<1>7. HandlersSound'
  BY <1>1, NoHandlerType DEF BrokerSound, HandlersSound, Counted
<1>8. tally' \subseteq Clients
  BY DEF BrokerSound, BrokerTypes
<1> QED  BY <1>1, <1>4, <1>6, <1>7, <1>8 DEF BrokerSound, BrokerTypes

\* _release_client detaches the port at zero; before, the counts that are left stay at it.
LEMMA ReleaseClientKeeps ==
    ASSUME BrokerSound, NEW c \in Clients, ReleaseClient(c), ~handler[c].here,
           handler[c].pc \in {"attached", "counted"},
           claimed' = claimed, outside' = outside, Probed' = Probed
    PROVE  BrokerSound' /\ HeardKeeps
<1> DEFINE p == handler[c].port
<1>1. handler \in [Clients -> HandlerType] /\ p \in Ports /\ tally \subseteq Clients
  BY DEF BrokerSound, BrokerTypes, HandlersSound
<1>2. PICK gone \in SUBSET OwnCount(c) :
         /\ tally' = tally \ gone
         /\ OwnCount(c) = {} => gone = {}
         /\ c \in tally => gone = {c}
         /\ IF tally' \cap At(p) = {} /\ p \in attached
            THEN /\ attached' = attached \ {p}
                 /\ handler' = [Dropping(p) EXCEPT ![c].pc = "closing", ![c].opened = FALSE,
                                                   ![c].trans = "dropped"]
            ELSE /\ handler' = [handler EXCEPT ![c] = NoHandler] /\ attached' = attached
  <2>1. PICK gone \in IF OwnCount(c) = {} THEN {{}} ELSE {{d} : d \in OwnCount(c)} :
         /\ tally' = tally \ gone
         /\ IF tally' \cap At(p) = {} /\ p \in attached
            THEN /\ attached' = attached \ {p}
                 /\ handler' = [Dropping(p) EXCEPT ![c].pc = "closing", ![c].opened = FALSE,
                                                   ![c].trans = "dropped"]
            ELSE /\ handler' = [handler EXCEPT ![c] = NoHandler] /\ attached' = attached
    BY DEF ReleaseClient
  <2>2. gone \in SUBSET OwnCount(c) /\ (OwnCount(c) = {} => gone = {})
    <3>1. CASE OwnCount(c) = {}
      BY <2>1, <3>1
    <3>2. CASE OwnCount(c) # {}
      BY <2>1, <3>2
    <3> QED  BY <3>1, <3>2
  <2>3. c \in tally => gone = {c}
    BY <2>1 DEF OwnCount
  <2> QED  BY <2>1, <2>2, <2>3
<1> HIDE DEF p
<1>3. \A d \in gone : d \in tally /\ handler[d].port = p /\ d \in Clients
  BY <1>1, <1>2 DEF OwnCount, At, p
<1>4. c \notin tally'
  BY <1>2
<1>5. CASE tally' \cap At(p) = {} /\ p \in attached
  <2>1. /\ attached' = attached \ {p}
        /\ handler' = [Dropping(p) EXCEPT ![c].pc = "closing", ![c].opened = FALSE,
                                          ![c].trans = "dropped"]
    BY <1>2, <1>5
  <2> DEFINE D == Dropping(p)
  <2>2. /\ D \in [Clients -> HandlerType]
        /\ \A d \in Clients :
              /\ D[d].port = handler[d].port /\ D[d].pc = handler[d].pc
              /\ D[d].here = handler[d].here
              /\ D[d].opened = handler[d].opened
              /\ D[d].trans = IF handler[d].port = p /\ handler[d].trans = "live"
                              THEN "dropped" ELSE handler[d].trans
              /\ handler[d] = NoHandler => D[d] = NoHandler
    BY <1>1, DroppingShape
  <2>3. handler' = [D EXCEPT ![c] = [D[c] EXCEPT !.pc = "closing", !.opened = FALSE, !.trans = "dropped"]]
    BY <2>1, <2>2
  <2> HIDE DEF D
  <2> DEFINE new == [D[c] EXCEPT !.pc = "closing", !.opened = FALSE, !.trans = "dropped"]
  <2>4. /\ new \in HandlerType /\ new.port = D[c].port /\ new.pc = "closing"
        /\ new.trans = "dropped" /\ new.opened = FALSE
    BY <2>2 DEF HandlerType
  <2> HIDE DEF new
  <2>5. /\ handler' \in [Clients -> HandlerType] /\ handler'[c] = new
        /\ \A d \in Clients \ {c} : handler'[d] = D[d]
    BY <2>2, <2>3, <2>4 DEF new
  <2>6. handler[c] # NoHandler
    BY NoHandlerType
  <2>7. \A d \in Clients : /\ handler'[d].port = handler[d].port
                           /\ handler[d] = NoHandler => handler'[d] = NoHandler
                           /\ d # c => handler'[d].pc = handler[d].pc
                           /\ d # c => handler'[d].opened = handler[d].opened
                           /\ d # c => handler'[d].here = handler[d].here
                           /\ d # c => handler'[d].trans =
                                          IF handler[d].port = p /\ handler[d].trans = "live"
                                          THEN "dropped" ELSE handler[d].trans
    BY <2>2, <2>4, <2>5, <2>6
  <2>8. tally' \subseteq tally /\ \A d \in tally \ tally' : handler[d].port = p
    BY <1>2, <1>3
  <2>9. BrokerSound'
    <3>1. handler[c].port = p /\ p \in attached /\ c \notin tally'
      BY <1>4, <1>5 DEF p
    <3>2. handler'[c].pc = "closing" /\ handler'[c].trans = "dropped" /\ handler'[c].opened = FALSE
      BY <2>4, <2>5
    <3>3. handler' \in [Clients -> HandlerType] /\ attached' = attached \ {p}
      BY <2>1, <2>5
    <3>4. \A d \in Clients : /\ handler'[d].port = handler[d].port
                             /\ handler[d] = NoHandler => handler'[d] = NoHandler
                             /\ d # c => handler'[d].pc = handler[d].pc
                             /\ d # c => handler'[d].opened = handler[d].opened
                             /\ d # c => handler'[d].trans =
                                            IF handler[d].port = p /\ handler[d].trans = "live"
                                            THEN "dropped" ELSE handler[d].trans
      BY <2>7
    <3> QED  BY <2>8, <3>1, <3>2, <3>3, <3>4, DropKeeps
  <2>10. HeardKeeps
    BY <2>7 DEF HeardKeeps, Heard, Counted
  <2> QED  BY <2>9, <2>10
<1>6. CASE ~(tally' \cap At(p) = {} /\ p \in attached)
  <2>1. handler' = [handler EXCEPT ![c] = NoHandler] /\ attached' = attached
    BY <1>2, <1>6
  <2>2. ~WillClose(c)
    BY DEF WillClose
  <2>3. tally' \subseteq tally \ {c}
    BY <1>2, <1>4
  <2>4. \A d \in tally \ tally' : handler[d].port = p
    BY <1>2, <1>3
  <2>5. BrokerSound'
    BY <1>6, <2>1, <2>2, <2>3, <2>4, EndKeeps DEF p
  <2>6. HeardKeeps
    BY <1>1, <2>1 DEF HeardKeeps, Heard, Counted
  <2> QED  BY <2>5, <2>6
<1> QED  BY <1>5, <1>6

\* The reply or the connection of a client that has left fails.
LEMMA LeavesKeep ==
    ASSUME BrokerSound, NEW c \in Clients, ReplyFails(c) \/ Release(c), Probed' = Probed
    PROVE  BrokerSound' /\ HeardKeeps
<1>1. /\ handler[c].pc \in {"attached", "counted"} /\ ~handler[c].here
      /\ claimed' = claimed /\ outside' = outside
  BY DEF ReplyFails, Release
<1>2. CASE ReleaseClient(c)
  BY <1>1, <1>2, ReleaseClientKeeps
<1>3. CASE /\ handler[c].pc = "attached" /\ ~handler[c].opened
           /\ handler' = [handler EXCEPT ![c] = NoHandler] /\ UNCHANGED <<attached, tally>>
  <2>1. c \notin tally /\ ~WillRelease(c) /\ ~WillClose(c)
    BY <1>3 DEF BrokerSound, HandlersSound, Counted, WillRelease, WillClose
  <2>2. BrokerSound'
    BY <1>1, <1>3, <2>1, EndKeeps
  <2>3. HeardKeeps
    BY <1>1, <1>3 DEF HeardKeeps, Heard, Counted, BrokerSound, BrokerTypes
  <2> QED  BY <2>2, <2>3
<1> QED  BY <1>2, <1>3 DEF ReplyFails, Release

\* The serial link of a port fails under a request: its transport is dropped, unless it has
\* been by another handler.
LEMMA RequestFailsKeeps ==
    ASSUME BrokerSound, NEW c \in Clients, RequestFails(c), Probed' = Probed
    PROVE  BrokerSound' /\ HeardKeeps
<1> DEFINE p == handler[c].port
<1>1. /\ handler \in [Clients -> HandlerType] /\ p \in Ports /\ handler[c].pc = "counted"
      /\ handler[c] \in HandlerType /\ handler[c].opened = FALSE
      /\ tally \subseteq Clients /\ handler[c] # NoHandler
      /\ claimed' = claimed /\ tally' = tally /\ outside' = outside
  BY NoHandlerType DEF BrokerSound, BrokerTypes, HandlersSound, HandlerType, RequestFails
<1> DEFINE D == IF handler[c].trans = "live" THEN Dropping(p) ELSE handler
<1>2. /\ D \in [Clients -> HandlerType]
      /\ \A d \in Clients :
            /\ D[d].port = handler[d].port /\ D[d].pc = handler[d].pc
            /\ D[d].here = handler[d].here /\ D[d].opened = handler[d].opened
            /\ handler[d] = NoHandler => D[d] = NoHandler
            /\ D[d].trans = IF /\ handler[c].trans = "live"
                               /\ handler[d].port = p /\ handler[d].trans = "live"
                            THEN "dropped" ELSE handler[d].trans
  <2>1. CASE handler[c].trans = "live"
    BY <1>1, <2>1, DroppingShape
  <2>2. CASE handler[c].trans # "live"
    BY <1>1, <2>2
  <2> QED  BY <2>1, <2>2
<1>3. /\ handler' = [D EXCEPT ![c] = [D[c] EXCEPT !.pc = "dropping"]]
      /\ attached' = IF handler[c].trans = "live" THEN attached \ {p} ELSE attached
  BY <1>2 DEF RequestFails
<1> HIDE DEF D
<1> DEFINE new == [D[c] EXCEPT !.pc = "dropping"]
<1>4. /\ new \in HandlerType /\ new.port = D[c].port /\ new.pc = "dropping"
      /\ new.trans = D[c].trans /\ new.opened = D[c].opened /\ new.here = D[c].here
  BY <1>2 DEF HandlerType
<1> HIDE DEF new
<1>5. /\ handler' \in [Clients -> HandlerType] /\ handler'[c] = new
      /\ \A d \in Clients \ {c} : handler'[d] = D[d]
  BY <1>2, <1>3, <1>4 DEF new
<1>6. \A d \in Clients : /\ handler'[d].port = handler[d].port
                         /\ handler[d] = NoHandler => handler'[d] = NoHandler
                         /\ d # c => handler'[d].pc = handler[d].pc
                         /\ handler'[d].opened = handler[d].opened
                         /\ handler'[d].here = handler[d].here
                         /\ handler'[d].trans =
                              IF /\ handler[c].trans = "live"
                                 /\ handler[d].port = p /\ handler[d].trans = "live"
                              THEN "dropped" ELSE handler[d].trans
  BY <1>1, <1>2, <1>4, <1>5
<1>7. handler'[c].pc = "dropping"
  BY <1>4, <1>5
<1>8. HeardKeeps
  BY <1>6, <1>7 DEF HeardKeeps, Heard, Counted
<1>9. CASE handler[c].trans = "live"
  <2>1. p \in attached /\ attached' = attached \ {p}
    BY <1>3, <1>9 DEF BrokerSound, HandlersSound
  <2>2. handler'[c].trans = "dropped" /\ handler'[c].opened = FALSE
    BY <1>1, <1>6, <1>9
  <2>3. \A d \in Clients \ {c} : handler'[d].trans =
                                   IF handler[d].port = p /\ handler[d].trans = "live"
                                   THEN "dropped" ELSE handler[d].trans
    BY <1>6, <1>9
  <2> HIDE DEF p
  <2>4. handler[c].port = p
    BY DEF p
  <2>5. BrokerSound'
    <3>1. \A d \in Clients : /\ handler'[d].port = handler[d].port
                             /\ handler[d] = NoHandler => handler'[d] = NoHandler
                             /\ d # c => handler'[d].pc = handler[d].pc
                             /\ d # c => handler'[d].opened = handler[d].opened
                             /\ d # c => handler'[d].trans =
                                            IF handler[d].port = p /\ handler[d].trans = "live"
                                            THEN "dropped" ELSE handler[d].trans
      BY <1>6, <2>3
    <3>2. /\ handler' \in [Clients -> HandlerType] /\ claimed' = claimed /\ tally' = tally
          /\ outside' = outside
      BY <1>1, <1>5
    <3> QED  BY <1>7, <2>1, <2>2, <2>4, <3>1, <3>2, DropKeeps
  <2> QED  BY <1>8, <2>5
<1>10. CASE handler[c].trans # "live"
  <2>1. attached' = attached /\ \A d \in Clients : handler'[d].trans = handler[d].trans
    BY <1>3, <1>6, <1>10
  <2>2. HandlersSound'
    BY <1>1, <1>6, <1>7, <2>1 DEF BrokerSound, HandlersSound, Counted
  <2>3. \A d \in Clients : (WillClose(d) => WillClose(d)') /\ (WillRelease(d) => WillRelease(d)')
    BY <1>1, <1>6, <1>7, <2>1 DEF WillClose, WillRelease
  <2>4. BrokerSound'
    BY <1>1, <1>5, <1>6, <2>1, <2>2, <2>3, HandlersGoOn
  <2> QED  BY <1>8, <2>4
<1> QED  BY <1>9, <1>10

\* The device of a transport is closed, and its claim goes; for one that another handler has
\* closed before, the claim of whatever has come after.
LEMMA CloseKeeps ==
    ASSUME BrokerSound, NEW c \in Clients, Close(c), Probed' = Probed
    PROVE  BrokerSound' /\ HeardKeeps
<1> DEFINE p == handler[c].port
           Closes(d) == handler[c].trans = "dropped" /\ handler[d].trans = "dropped"
                        /\ handler[d].port = p
           after == [d \in Clients |-> IF Closes(d) THEN [handler[d] EXCEPT !.trans = "closed"]
                                                    ELSE handler[d]]
<1>1. /\ handler \in [Clients -> HandlerType] /\ p \in Ports
      /\ handler[c].pc \in {"dropping", "closing"} /\ handler[c].opened = FALSE
      /\ attached' = attached /\ tally' = tally /\ outside' = outside /\ claimed' = claimed \ {p}
  BY DEF BrokerSound, BrokerTypes, HandlersSound, HandlerType, Close, Unclaimed
<1>2. handler' = IF handler[c].pc = "dropping" THEN [after EXCEPT ![c].pc = "counted"]
                                               ELSE [after EXCEPT ![c] = NoHandler]
  <2>1. after = [d \in Clients |->
                   IF /\ handler[c].trans = "dropped" /\ handler[d].trans = "dropped"
                      /\ d \in At(handler[c].port)
                   THEN [handler[d] EXCEPT !.trans = "closed"] ELSE handler[d]]
    BY DEF At
  <2> HIDE DEF after
  <2> QED  BY <2>1 DEF Close
<1>3. /\ after \in [Clients -> HandlerType]
      /\ \A d \in Clients :
            /\ after[d].port = handler[d].port /\ after[d].pc = handler[d].pc
            /\ after[d].here = handler[d].here /\ after[d].opened = handler[d].opened
            /\ after[d].trans = IF Closes(d) THEN "closed" ELSE handler[d].trans
            /\ handler[d] = NoHandler => after[d] = NoHandler
  <2>1. ASSUME NEW d \in Clients
        PROVE  /\ handler[d] \in HandlerType
               /\ [handler[d] EXCEPT !.trans = "closed"] \in HandlerType
               /\ [handler[d] EXCEPT !.trans = "closed"].port = handler[d].port
               /\ [handler[d] EXCEPT !.trans = "closed"].pc = handler[d].pc
               /\ [handler[d] EXCEPT !.trans = "closed"].here = handler[d].here
               /\ [handler[d] EXCEPT !.trans = "closed"].opened = handler[d].opened
               /\ [handler[d] EXCEPT !.trans = "closed"].trans = "closed"
    BY <1>1 DEF HandlerType
  <2>2. \A d \in Clients : after[d] = IF Closes(d) THEN [handler[d] EXCEPT !.trans = "closed"]
                                                   ELSE handler[d]
    OBVIOUS
  <2>3. after \in [Clients -> HandlerType]
    BY <2>1
  <2> HIDE DEF after, Closes
  <2>4. \A d \in Clients : handler[d] = NoHandler => ~Closes(d)
    BY NoHandlerType DEF Closes
  <2> QED  BY <2>1, <2>2, <2>3, <2>4
<1> HIDE DEF after
<1> DEFINE new == IF handler[c].pc = "dropping" THEN [after[c] EXCEPT !.pc = "counted"] ELSE NoHandler
<1>4. /\ new \in HandlerType
      /\ handler[c].pc = "dropping" =>
            /\ new.port = p /\ new.pc = "counted" /\ new.trans = after[c].trans
            /\ new.opened = FALSE /\ new.here = handler[c].here
      /\ handler[c].pc = "closing" => new = NoHandler
      /\ handler' = [after EXCEPT ![c] = new]
  <2>1. CASE handler[c].pc = "dropping"
    BY <1>1, <1>2, <1>3, <2>1 DEF HandlerType
  <2>2. CASE handler[c].pc = "closing"
    BY <1>1, <1>2, <1>3, <2>2, NoHandlerType
  <2> QED  BY <1>1, <2>1, <2>2
<1> HIDE DEF new
<1>5. /\ handler' \in [Clients -> HandlerType] /\ handler'[c] = new
      /\ \A d \in Clients \ {c} : handler'[d] = after[d]
  BY <1>3, <1>4
<1>6. c \in tally => handler[c].pc = "dropping"
  BY <1>1 DEF BrokerSound, HandlersSound, Counted
<1>7. HeardKeeps
  BY <1>1, <1>3, <1>4, <1>5 DEF HeardKeeps, Heard, Counted
<1>8. HandlersSound'
  <2>1. ASSUME NEW d \in Clients
        PROVE  /\ handler'[d].pc = "none" => handler'[d] = NoHandler
               /\ handler'[d].pc # "none" => handler'[d].port \in Ports
               /\ handler'[d].trans = "live" => handler'[d].port \in attached'
               /\ handler'[d].opened => handler'[d].pc \in {"attached", "replied"}
    <3>1. CASE d = c
      <4>1. handler[c].trans = "live" => p \in attached
        BY DEF BrokerSound, HandlersSound
      <4>2. after[c].trans = "live" => handler[c].trans = "live"
        BY <1>3
      <4> QED  BY <1>1, <1>4, <1>5, <3>1, <4>1, <4>2, NoHandlerType
    <3>2. CASE d # c
      BY <1>1, <1>3, <1>5, <3>2 DEF BrokerSound, HandlersSound
    <3> QED  BY <3>1, <3>2
  <2>2. tally' \subseteq Counted'
    <3>1. ASSUME NEW d \in tally  PROVE d \in Clients /\ handler'[d].pc \in {"counted", "dropping"}
      BY <1>3, <1>4, <1>5, <1>6 DEF BrokerSound, HandlersSound, Counted
    <3> QED  BY <1>1, <3>1 DEF Counted
  <2> QED  BY <2>1, <2>2 DEF HandlersSound
<1>9. ASSUME NEW q \in Dropped, q # p \/ handler[c].trans # "dropped"
      PROVE  \E d \in At(q)' : WillClose(d)'
  <2>1. PICK d \in At(q) : WillClose(d)
    BY DEF BrokerSound, Attended
  <2>2. d \in Clients /\ handler[d].port = q /\ handler[d].trans = "dropped"
        /\ handler[d].pc \in {"dropping", "closing"}
    BY <2>1 DEF At, WillClose
  <2>3. d # c /\ ~Closes(d)
    BY <1>9, <2>2
  <2>4. handler'[d] = after[d] /\ after[d].trans = "dropped" /\ after[d].port = q
        /\ after[d].pc = handler[d].pc
    BY <1>3, <1>5, <2>2, <2>3
  <2> QED  BY <2>2, <2>4 DEF At, WillClose
<1>10. Dropped' = IF handler[c].trans = "dropped" THEN Dropped \ {p} ELSE Dropped
  <2>1. ASSUME NEW d \in Clients, handler'[d].trans = "dropped"
        PROVE  /\ handler'[d].port = handler[d].port /\ handler[d].trans = "dropped" /\ ~Closes(d)
    <3>1. CASE d = c
      BY <1>1, <1>3, <1>4, <1>5, <2>1, <3>1, NoHandlerType
    <3>2. CASE d # c
      BY <1>3, <1>5, <2>1, <3>2
    <3> QED  BY <3>1, <3>2
  <2>2. Dropped' = {handler'[d].port : d \in {e \in Clients : handler'[e].trans = "dropped"}}
    BY DEF Dropped
  <2>3. ASSUME NEW q \in Dropped'
        PROVE  q \in Dropped /\ (handler[c].trans = "dropped" => q # p)
    <3>1. PICK d \in Clients : handler'[d].trans = "dropped" /\ q = handler'[d].port
      BY <2>2
    <3> QED  BY <2>1, <3>1 DEF Dropped
  <2>4. ASSUME NEW q \in Dropped, q # p \/ handler[c].trans # "dropped"  PROVE q \in Dropped'
    <3>1. PICK d \in At(q)' : WillClose(d)'
      BY <1>9, <2>4
    <3> QED  BY <2>2, <3>1 DEF At, WillClose
  <2> QED  BY <2>3, <2>4
<1>11. ClaimsHeld'
  <2>1. CASE handler[c].trans = "dropped"
    BY <1>1, <1>10, <2>1 DEF BrokerSound, ClaimsHeld, Devices
  <2>2. CASE handler[c].trans # "dropped"
    BY <1>1, <1>10, <2>2 DEF BrokerSound, ClaimsHeld, Devices
  <2> QED  BY <2>1, <2>2
<1>12. Attended'
  <2>1. ASSUME NEW q \in attached  PROVE \E d \in At(q)' : WillRelease(d)'
    <3>1. PICK d \in At(q) : WillRelease(d)
      BY DEF BrokerSound, Attended
    <3>2. d \in Clients /\ handler[d].port = q
      BY <3>1 DEF At
    <3>3. CASE d = c
      <4>1. c \in tally /\ handler[c].pc = "dropping"
        BY <1>1, <1>6, <3>1, <3>3 DEF WillRelease
      <4> QED  BY <1>1, <1>4, <1>5, <3>2, <3>3, <4>1 DEF At, WillRelease
    <3>4. CASE d # c
      BY <1>1, <1>3, <1>5, <3>1, <3>2, <3>4 DEF At, WillRelease
    <3> QED  BY <3>3, <3>4
  <2> QED  BY <1>1, <1>9, <1>10, <2>1 DEF Attended
<1>13. claimed' \subseteq Ports
  BY <1>1 DEF BrokerSound, BrokerTypes
<1> HIDE DEF p
<1> QED  BY <1>1, <1>5, <1>7, <1>8, <1>11, <1>12, <1>13 DEF BrokerSound, BrokerTypes

-----------------------------------------------------------------------------
(* The numbers of the arms                                                  *)

RestTypes ==
    /\ rescan \in BOOLEAN
    /\ rows \in [Ports -> {None, "free", "panel open", "in use elsewhere"}]
    /\ number \in [Ports -> Nat]
    /\ panels \in [Ports -> {None, "open", "lost"}]
    /\ shown \in 0..asked /\ quit \in BOOLEAN /\ unasked \subseteq Scripts

\* Only arms that have no number get one: those that follow, each once.
LEMMA NumberingKeeps ==
    ASSUME RestTypes, NumbersSound, NEW found \in SUBSET Ports, number' \in FirstFound(found)
    PROVE  /\ number' \in [Ports -> Nat] /\ NumbersSound'
           /\ \A p \in NamedPorts : number'[p] = number[p]
           /\ \A p \in NamedPorts : \A q \in Ports \ {p} : number'[q] # number[p]
<1> DEFINE new == {p \in found : ~Named(p)}
           old == Cardinality(NamedPorts)
           more == Cardinality(new)
<1>1. /\ IsFiniteSet(Ports) /\ IsFiniteSet(NamedPorts) /\ IsFiniteSet(new)
      /\ old \in Nat /\ more \in Nat /\ Cardinality(Ports) \in Nat
  <2>1. IsFiniteSet(Ports) /\ NamedPorts \in SUBSET Ports /\ new \in SUBSET Ports
    <3>1. Ports \in SUBSET Clients
      BY DEF Clients
    <3>2. IsFiniteSet(Ports)
      BY <3>1, HubAssumption, FS_Subset
    <3> QED  BY <3>2 DEF NamedPorts
  <2> HIDE DEF new
  <2>2. IsFiniteSet(NamedPorts) /\ IsFiniteSet(new)
    BY <2>1, FS_Subset
  <2> QED  BY <2>1, <2>2, FS_CardinalityType
<1>2. /\ number' \in [Ports -> 0..Cardinality(Ports)]
      /\ \A p \in Ports : Named(p) \/ p \notin found => number'[p] = number[p]
      /\ {number'[p] : p \in new} = (old + 1)..(old + more)
  BY DEF FirstFound, NamedPorts
<1>3. /\ new \subseteq Ports /\ new \cap NamedPorts = {}
      /\ \A p \in Ports : p \notin NamedPorts => number[p] = 0
      /\ \A p \in NamedPorts : number[p] # 0 /\ p \in Ports
      /\ \A p \in Ports : number[p] \in Nat
      /\ \A p \in Ports : p \notin new => number'[p] = number[p]
  BY <1>2 DEF NamedPorts, Named, RestTypes
<1> HIDE DEF new, old, more
<1>4. \A p \in new : number'[p] \in (old + 1)..(old + more)
  BY <1>2
<1>5. number' \in [Ports -> Nat]
  BY <1>1, <1>2
<1>6. NamedPorts' = NamedPorts \cup new
  <2>1. ASSUME NEW p \in Ports
        PROVE  number'[p] # 0 <=> p \in NamedPorts \cup new
    BY <1>1, <1>3, <1>4
  <2>2. NamedPorts \subseteq Ports /\ NamedPorts' = {p \in Ports : number'[p] # 0}
    BY DEF NamedPorts, Named
  <2> QED  BY <1>3, <2>1, <2>2
<1>7. Cardinality(NamedPorts') = old + more
  <2>1. Cardinality(NamedPorts \cup new) =
           Cardinality(NamedPorts) + Cardinality(new) - Cardinality(NamedPorts \cap new)
    BY <1>1, FS_Union
  <2>2. Cardinality(NamedPorts \cap new) = 0
    BY <1>3, FS_EmptySet
  <2> QED  BY <1>1, <1>6, <2>1, <2>2 DEF old, more
<1>8. \A p \in NamedPorts : number'[p] = number[p] /\ number[p] \in Nat /\ number[p] <= old
  BY <1>3 DEF NumbersSound, old
<1>9. \A p, q \in new : p # q => number'[p] # number'[q]
  <2> DEFINE f == [p \in new |-> number'[p]]
             T == (old + 1)..(old + more)
  <2>1. f \in [new -> T] /\ \A t \in T : \E p \in new : f[p] = t
    BY <1>2, <1>4
  <2>2. f \in Surjection(new, T)
    <3> HIDE DEF f, T
    <3> QED  BY <2>1, Fun_IsSurj
  <2>3. Cardinality(T) = more
    <3>1. old + 1 \in Int /\ old + more \in Int
      BY <1>1
    <3>2. \A a, b \in Int : Cardinality(a..b) = IF a > b THEN 0 ELSE b - a + 1
      BY FS_Interval
    <3>3. Cardinality(T) = IF old + 1 > old + more THEN 0 ELSE (old + more) - (old + 1) + 1
      BY <3>1, <3>2
    <3> HIDE DEF T
    <3> QED  BY <1>1, <3>3
  <2>4. f \in Injection(new, T)
    <3> HIDE DEF f, T
    <3> QED  BY <1>1, <2>2, <2>3, FS_SurjSameCardinalityImpliesInj DEF more
  <2>5. \A p, q \in new : f[p] = f[q] => p = q
    <3> HIDE DEF f, T
    <3> QED  BY <2>4, Fun_InjectionProperties
  <2> QED  BY <2>5
<1>10. ASSUME NEW p \in NamedPorts', NEW q \in NamedPorts', p # q  PROVE number'[p] # number'[q]
  <2>1. CASE p \in NamedPorts /\ q \in NamedPorts
    BY <1>8, <1>10, <2>1 DEF NumbersSound
  <2>2. CASE p \in new /\ q \in new
    BY <1>9, <1>10, <2>2
  <2>3. CASE p \in NamedPorts /\ q \in new
    BY <1>1, <1>4, <1>8, <2>3
  <2>4. CASE p \in new /\ q \in NamedPorts
    BY <1>1, <1>4, <1>8, <2>4
  <2> QED  BY <1>6, <1>10, <2>1, <2>2, <2>3, <2>4
<1>11. \A p \in NamedPorts' : number'[p] <= Cardinality(NamedPorts')
  BY <1>1, <1>4, <1>6, <1>7, <1>8
<1>12. ASSUME NEW p \in NamedPorts, NEW q \in Ports \ {p}  PROVE number'[q] # number[p]
  <2>1. CASE q \in NamedPorts
    BY <1>8, <1>12, <2>1 DEF NumbersSound
  <2>2. CASE q \in new
    BY <1>1, <1>4, <1>8, <1>12, <2>2
  <2>3. CASE q \notin NamedPorts \cup new
    BY <1>3, <1>12, <2>3
  <2> QED  BY <2>1, <2>2, <2>3
<1> QED  BY <1>5, <1>8, <1>10, <1>11, <1>12 DEF NumbersSound

LEMMA NumbersStill ==
    ASSUME NumbersSound, number' = number
    PROVE  NumbersSound'
BY DEF NumbersSound, NamedPorts, Named

-----------------------------------------------------------------------------
(* The scripts the hub counts                                               *)

\* Every handler that was counted is a script's or a window's, and the open windows are among
\* the latter: what the hub takes away is no script.
LEMMA CountSeesScripts ==
    ASSUME BrokerSound, WindowsCounted
    PROVE  Cardinality(CountedScripts) <= ScriptCount + Cardinality(Counted \ tally)
<1> DEFINE windows == Counted \cap Ports
           missing == Counted \ tally
<1>1. IsFiniteSet(Clients) /\ Counted \in SUBSET Clients
  BY HubAssumption DEF Counted
<1>2. /\ IsFiniteSet(Counted) /\ IsFiniteSet(CountedScripts) /\ IsFiniteSet(windows)
      /\ IsFiniteSet(missing) /\ IsFiniteSet(tally)
  <2>1. /\ CountedScripts \in SUBSET Clients /\ windows \in SUBSET Clients
        /\ missing \in SUBSET Clients /\ tally \in SUBSET Clients
    BY <1>1 DEF CountedScripts, BrokerSound, BrokerTypes
  <2> HIDE DEF windows, missing
  <2> QED  BY <1>1, <2>1, FS_Subset
<1>3. CountedScripts \cup windows = Counted /\ CountedScripts \cap windows = {}
  BY <1>1, ClientParts DEF CountedScripts, Clients
<1>4. tally \cup missing = Counted /\ tally \cap missing = {}
  BY DEF BrokerSound, HandlersSound
<1>5. OpenConnections \subseteq windows
  BY DEF OpenConnections, WindowsCounted, Heard
<1> HIDE DEF windows, missing
<1>6. Cardinality(CountedScripts) + Cardinality(windows) = Cardinality(Counted)
  <2>1. Cardinality(CountedScripts \cup windows) = Cardinality(CountedScripts)
           + Cardinality(windows) - Cardinality(CountedScripts \cap windows)
    BY <1>2, FS_Union
  <2>2. Cardinality(CountedScripts \cap windows) = 0
    BY <1>3, FS_EmptySet
  <2>3. Cardinality(CountedScripts) \in Nat /\ Cardinality(windows) \in Nat
    BY <1>2, FS_CardinalityType
  <2>4. Cardinality(CountedScripts \cup windows) = Cardinality(Counted)
    BY <1>3
  <2> QED  BY <2>1, <2>2, <2>3, <2>4
<1>7. Cardinality(tally) + Cardinality(missing) = Cardinality(Counted)
  <2>1. Cardinality(tally \cup missing) = Cardinality(tally)
           + Cardinality(missing) - Cardinality(tally \cap missing)
    BY <1>2, FS_Union
  <2>2. Cardinality(tally \cap missing) = 0
    BY <1>4, FS_EmptySet
  <2>3. Cardinality(tally) \in Nat /\ Cardinality(missing) \in Nat
    BY <1>2, FS_CardinalityType
  <2> QED  BY <1>4, <2>1, <2>2, <2>3
<1>8. IsFiniteSet(OpenConnections) /\ Cardinality(OpenConnections) <= Cardinality(windows)
  BY <1>2, <1>5, FS_Subset
<1>9. /\ Cardinality(CountedScripts) \in Nat /\ Cardinality(windows) \in Nat
      /\ Cardinality(tally) \in Nat /\ Cardinality(missing) \in Nat
      /\ Cardinality(OpenConnections) \in Nat
  BY <1>2, <1>8, FS_CardinalityType
<1>10. ScriptCount \in Nat /\ ScriptCount >= Cardinality(tally) - Cardinality(OpenConnections)
  BY <1>9 DEF ScriptCount, ClientCount
<1>11. Cardinality(CountedScripts) <= ScriptCount + Cardinality(missing)
  BY <1>6, <1>7, <1>8, <1>9, <1>10
<1> QED  BY <1>11 DEF missing

-----------------------------------------------------------------------------
(* Every step keeps the invariant                                           *)

LEMMA Parts ==
    ASSUME IInv
    PROVE  /\ ScanTypes /\ RestTypes /\ OneWorker /\ ScansSound /\ BrokerSound /\ WindowsCounted
           /\ TagTrue /\ NumbersSound /\ claimed \subseteq Ports
           /\ asked \in Nat /\ shown \in Nat
<1>1. ScanTypes /\ RestTypes /\ BrokerTypes
  BY DEF IInv, TypeOK, ScanTypes, RestTypes, ScanType, BrokerTypes, HandlerType
<1>2. asked \in 1..MaxAsked /\ shown \in 0..asked /\ claimed \subseteq Ports
  BY <1>1 DEF ScanTypes, RestTypes
<1>3. asked \in Nat /\ shown \in Nat
  BY <1>2, Bound
<1> QED  BY <1>1, <1>2, <1>3 DEF IInv, BrokerSound

LEMMA Joined ==
    ASSUME ScanTypes', RestTypes', OneWorker', ScansSound', BrokerSound', WindowsCounted',
           TagTrue', NumbersSound'
    PROVE  IInv'
<1>1. TypeOK'
  BY DEF BrokerSound, TypeOK, ScanTypes, RestTypes, ScanType, BrokerTypes, HandlerType
<1> QED  BY <1>1 DEF IInv, BrokerSound

LEMMA InitHolds ==
    ASSUME Init
    PROVE  IInv
<1>1. worker \in Workers
  BY HubAssumption DEF Init
<1> DEFINE first == [NoScan EXCEPT !.pc = "probing", !.todo = Ports, !.for = 1]
<1>2. first \in ScanType /\ first.pc = "probing" /\ first.at = None /\ first.for = 1
  <2>1. 1 \in 0..MaxAsked
    BY Bound
  <2> QED  BY <2>1 DEF ScanType, NoScan
<1> HIDE DEF first
<1>3. scan = [w \in Workers |-> IF w = worker THEN first ELSE NoScan]
  BY DEF Init, first
<1>4. asked = 1 /\ shown = 0 /\ claimed = {} /\ attached = {} /\ outside \subseteq Ports
  BY DEF Init
<1>5. ScanTypes /\ ScansSound
  BY <1>1, <1>2, <1>3, <1>4, ScanConstants, Bound DEF ScanTypes, ScansSound
<1>6. Running = {worker}
  BY <1>1, <1>2, <1>3, ScanConstants DEF Running
<1>7. OneWorker /\ Probed = {}
  BY <1>1, <1>2, <1>3, <1>6, NoneElsewhere DEF OneWorker, Probed
<1>8. RestTypes
  <2>1. /\ rows = [p \in Ports |-> None] /\ number = [p \in Ports |-> 0]
        /\ panels = [p \in Ports |-> None] /\ rescan = FALSE /\ quit = FALSE /\ unasked = {}
    BY DEF Init
  <2>2. number \in [Ports -> Nat] /\ shown \in 0..asked
    BY <1>4, <2>1
  <2> QED  BY <2>1, <2>2 DEF RestTypes
<1>9. BrokerTypes /\ HandlersSound /\ ClaimsHeld /\ Attended
  <2>1. handler = [c \in Clients |-> NoHandler] /\ tally = {}
    BY DEF Init
  <2>2. Dropped = {}
    BY <2>1, NoHandlerType DEF Dropped
  <2>3. HandlersSound
    BY <2>1, NoHandlerType DEF HandlersSound
  <2> QED  BY <1>4, <1>7, <2>1, <2>2, <2>3, NoHandlerType DEF BrokerTypes, ClaimsHeld, Devices, Attended
<1>10. WindowsCounted /\ TagTrue
  BY HubAssumption DEF Init, WindowsCounted, TagTrue
<1>11. NamedPorts = {}
  BY DEF Init, NamedPorts, Named
<1>12. NumbersSound
  BY <1>11 DEF NumbersSound
<1>13. TypeOK
  BY <1>5, <1>8, <1>9 DEF TypeOK, ScanTypes, RestTypes, ScanType, BrokerTypes, HandlerType
<1> QED  BY <1>5, <1>7, <1>9, <1>10, <1>12, <1>13 DEF IInv

\* A discovery thread at work changes the claims only.
LEMMA ScanStepKeeps ==
    ASSUME IInv, NEW w \in Workers, ScanStep(w)
    PROVE  IInv'
<1>1. UNCHANGED <<attached, outside, worker, rescan, rows, number, asked, shown, panels, handler,
                  tally, quit, unasked>>
  BY DEF ScanStep, ProbeOpens, ProbeEnds, ScanEnds, brokerVars, quitVars
<1>2. /\ ScanTypes' /\ OneWorker' /\ ScansSound'
      /\ \/ claimed' = claimed /\ Probed' = Probed
         \/ \E p \in Ports : /\ Free(p)
                             /\ claimed' = claimed \cup {p} /\ Probed' = Probed \cup {p}
         \/ claimed' = claimed \ Probed /\ Probed' = {}
  <2>1. ASSUME NEW p \in Ports, ProbeOpens(w, p)  PROVE <1>2!:
    BY <2>1, ProbeOpensScan, Parts
  <2>2. CASE ProbeEnds(w)
    BY <2>2, ProbeEndsScan, Parts
  <2>3. CASE ScanEnds(w)
    BY <2>3, ScanEndsScan, Parts DEF ScanEnds, brokerVars
  <2> QED  BY <2>1, <2>2, <2>3 DEF ScanStep
<1>3. BrokerSound'
  <2>1. claimed' \subseteq Ports
    BY <1>2 DEF ScanTypes
  <2> QED  BY <1>1, <1>2, <2>1, ProbesKeep, Parts
<1>4. RestTypes' /\ WindowsCounted' /\ TagTrue' /\ NumbersSound'
  BY <1>1, Parts, NumbersStill DEF RestTypes, WindowsCounted, Heard, Counted, TagTrue
<1> QED  BY <1>2, <1>3, <1>4, Joined

LEMMA ShowResultsKeeps ==
    ASSUME IInv, NEW w \in Workers, ShowResults(w)
    PROVE  /\ IInv'
           /\ \A p \in NamedPorts : number'[p] = number[p]
           /\ \A p \in NamedPorts : \A q \in Ports \ {p} : number'[q] # number[p]
<1>1. UNCHANGED <<claimed, attached, outside, asked, panels, handler, tally, quit, unasked>>
  BY DEF ShowResults, brokerVars, quitVars
<1>2. ScanTypes' /\ OneWorker' /\ ScansSound' /\ Probed' = Probed
  BY ShowResultsScan, Parts
<1>3. BrokerSound'
  BY <1>1, <1>2, ProbesKeep, Parts
<1>4. WindowsCounted'
  BY <1>1, Parts DEF WindowsCounted, Heard, Counted
<1>5. CASE Superseded(w)
  <2>1. UNCHANGED <<rows, number, shown>> /\ rescan' = FALSE
    BY <1>5 DEF ShowResults
  <2>2. NumbersSound' /\ RestTypes' /\ TagTrue'
    BY <1>1, <2>1, Parts, NumbersStill DEF RestTypes, TagTrue
  <2>3. ASSUME NEW p \in NamedPorts, NEW q \in Ports \ {p}  PROVE number[q] # number[p]
    BY Parts DEF NumbersSound, NamedPorts, Named
  <2> QED  BY <1>2, <1>3, <1>4, <2>1, <2>2, <2>3, Joined
<1>6. CASE ~Superseded(w)
  <2>1. /\ rescan' = rescan /\ number' \in FirstFound(scan[w].found) /\ shown' = scan[w].for
        /\ rows' = [p \in Ports |-> IF p \in scan[w].found THEN Tag(p) ELSE None]
    BY <1>6 DEF ShowResults
  <2>2. scan[w] \in ScanType /\ scan[w].for <= asked
    BY Parts DEF ScanTypes, ScansSound
  <2>3. scan[w].found \in SUBSET Ports /\ scan[w].for \in 0..asked
    <3>1. scan[w].found \in SUBSET Ports
      BY <2>2, HubAssumption DEF ScanType
    <3>2. scan[w].for \in Nat
      BY <2>2, Bound DEF ScanType
    <3> QED  BY <2>2, <3>1, <3>2, Parts
  <2>4. /\ number' \in [Ports -> Nat] /\ NumbersSound'
        /\ \A p \in NamedPorts : number'[p] = number[p]
        /\ \A p \in NamedPorts : \A q \in Ports \ {p} : number'[q] # number[p]
    BY <2>1, <2>3, NumberingKeeps, Parts
  <2>5. \A p \in Ports : /\ Tag(p) \in {"free", "panel open", "in use elsewhere"}
                         /\ Tag(p) = "panel open" => panels[p] # None
    BY DEF Tag
  <2>6. /\ rows' \in [Ports -> {None, "free", "panel open", "in use elsewhere"}]
        /\ \A p \in Ports : rows'[p] = "panel open" => panels[p] # None
    BY <2>1, <2>5, HubAssumption
  <2>7. RestTypes'
    BY <1>1, <2>1, <2>3, <2>4, <2>6, Parts DEF RestTypes
  <2>8. TagTrue'
    BY <1>1, <2>6 DEF TagTrue
  <2> QED  BY <1>2, <1>3, <1>4, <2>4, <2>7, <2>8, Joined
<1> QED  BY <1>5, <1>6

\* The list is emptied when it is to be read again.
LEMMA RefreshedRest ==
    ASSUME IInv, Refreshed, quit' = quit
    PROVE  /\ TagTrue' /\ NumbersSound' /\ rescan' \in BOOLEAN /\ shown' \in 0..asked'
           /\ number' \in [Ports -> Nat]
           /\ rows' \in [Ports -> {None, "free", "panel open", "in use elsewhere"}]
<1>1. /\ number' = number /\ shown' = shown /\ asked' = asked + 1
      /\ \A p \in Ports : rows'[p] = None
      /\ rows' \in [Ports -> {None, "free", "panel open", "in use elsewhere"}]
      /\ rescan' \in {rescan, TRUE}
  BY DEF Refreshed, RowsCleared, OneAtATime
<1>2. TagTrue'
  BY <1>1, HubAssumption DEF TagTrue
<1>3. shown' \in 0..asked'
  <2>1. shown \in 0..asked /\ asked \in Nat
    BY Parts DEF RestTypes
  <2>2. shown' = shown /\ asked' = asked + 1
    BY <1>1
  <2> QED  BY <2>1, <2>2
<1> QED  BY <1>1, <1>2, <1>3, Parts, NumbersStill DEF RestTypes

LEMMA RefreshKeeps ==
    ASSUME IInv, Refresh
    PROVE  IInv'
<1>1. UNCHANGED <<claimed, attached, outside, panels, handler, tally, quit, unasked>> /\ Refreshed
  BY DEF Refresh, brokerVars, quitVars
<1>2. ScanTypes' /\ OneWorker' /\ ScansSound' /\ Probed' = Probed
  BY <1>1, RefreshedScans, Parts
<1>3. BrokerSound'
  BY <1>1, <1>2, ProbesKeep, Parts
<1>4. RestTypes' /\ TagTrue' /\ NumbersSound'
  BY <1>1, RefreshedRest, Parts DEF RestTypes
<1>5. WindowsCounted'
  BY <1>1, Parts DEF WindowsCounted, Heard, Counted
<1> QED  BY <1>2, <1>3, <1>4, <1>5, Joined

LEMMA ClosePanelKeeps ==
    ASSUME IInv, NEW p \in Ports, ClosePanel(p)
    PROVE  IInv'
<1>1. /\ UNCHANGED <<claimed, attached, tally, outside, quit, unasked>> /\ Refreshed
      /\ panels' = [panels EXCEPT ![p] = None] /\ handler' = Hangs({p})
  BY DEF ClosePanel, ListRefreshed, quitVars
<1>2. ScanTypes' /\ OneWorker' /\ ScansSound' /\ Probed' = Probed
  BY <1>1, RefreshedScans, Parts
<1>3. BrokerSound' /\ \A c \in Clients \ {p} : handler'[c] = handler[c]
  BY <1>1, <1>2, HangsKeeps, Parts, ClientParts
<1>4. panels \in [Ports -> {None, "open", "lost"}]
  BY Parts DEF RestTypes
<1>5. RestTypes' /\ TagTrue' /\ NumbersSound'
  <2>1. panels' \in [Ports -> {None, "open", "lost"}]
    BY <1>1, <1>4
  <2> QED  BY <1>1, <2>1, RefreshedRest, Parts DEF RestTypes
<1>6. WindowsCounted'
  BY <1>1, <1>3, <1>4, Parts, ClientParts, HubAssumption DEF WindowsCounted, Heard, Counted
<1> QED  BY <1>2, <1>3, <1>5, <1>6, Joined

LEMMA QuitKeeps ==
    ASSUME IInv, Quit
    PROVE  IInv'
<1>1. /\ UNCHANGED <<outside, rescan, rows, number, asked, shown>> /\ quit' = TRUE
      /\ panels' = [p \in Ports |-> None] /\ handler' = [c \in Clients |-> NoHandler]
      /\ claimed' = {} /\ attached' = {} /\ tally' = {} /\ unasked' \in {{}, Accepted}
  BY DEF Quit
<1>2. ScanTypes' /\ OneWorker' /\ ScansSound' /\ Probed' = {}
  BY QuitScan, Parts
<1>3. BrokerSound'
  <2>1. Dropped' = {}
    BY <1>1, NoHandlerType DEF Dropped
  <2>2. BrokerTypes' /\ HandlersSound'
    BY <1>1, NoHandlerType, Parts DEF BrokerSound, BrokerTypes, HandlersSound
  <2>3. ClaimsHeld' /\ Attended'
    BY <1>1, <1>2, <2>1 DEF ClaimsHeld, Devices, Attended
  <2> QED  BY <2>2, <2>3 DEF BrokerSound
<1>4. RestTypes'
  BY <1>1, Parts DEF RestTypes, Accepted
<1>5. NumbersSound'
  BY <1>1, NumbersStill, Parts
<1>6. WindowsCounted' /\ TagTrue'
  BY <1>1, HubAssumption DEF WindowsCounted, TagTrue
<1> QED  BY <1>2, <1>3, <1>4, <1>5, <1>6, Joined

\* A step of the connections, the windows or the other programs leaves scans, list and
\* numbers alone.
LEMMA StillKeeps ==
    ASSUME IInv, UNCHANGED <<scanVars, quit, unasked>>,
           panels' \in [Ports -> {None, "open", "lost"}],
           BrokerSound', WindowsCounted',
           \A p \in Ports : panels[p] # None => panels'[p] # None
    PROVE  IInv'
<1>1. claimed' \subseteq Ports
  BY DEF BrokerSound, BrokerTypes
<1>2. ScanTypes' /\ OneWorker' /\ ScansSound'
  BY <1>1, ScansStill, Parts
<1>3. UNCHANGED <<rescan, rows, number, asked, shown>>
  BY DEF scanVars
<1>4. RestTypes' /\ TagTrue' /\ NumbersSound'
  BY <1>3, Parts, NumbersStill DEF RestTypes, TagTrue
<1> QED  BY <1>2, <1>4, Joined

\* The ports that are probed stay the same with the scans.
LEMMA ProbedStill ==
    ASSUME UNCHANGED scanVars
    PROVE  Probed' = Probed
BY DEF scanVars, Probed, Running

LEMMA ScriptKeeps ==
    ASSUME IInv, NEW s \in Scripts, ScriptConnects(s) \/ ScriptLeaves(s)
    PROVE  IInv'
<1>1. /\ UNCHANGED <<outside, scanVars, panels, quit, unasked>> /\ tally' = tally
      /\ BrokerSound /\ Probed' = Probed /\ s \in Clients
      /\ panels \in [Ports -> {None, "open", "lost"}]
  BY Parts, ClientParts, ProbedStill DEF ScriptConnects, ScriptLeaves, RestTypes, quitVars
<1>2. BrokerSound' /\ \A c \in Clients \ {s} : handler'[c] = handler[c]
  <2>1. CASE ScriptConnects(s)
    <3>1. PICK p \in Ports : Attached(s, p, "attached", TRUE)
      BY <2>1 DEF ScriptConnects
    <3>2. handler[s] = NoHandler
      BY <2>1 DEF ScriptConnects
    <3> QED  BY <1>1, <3>1, <3>2, AttachedKeeps
  <2>2. CASE ScriptLeaves(s)
    BY <1>1, <2>2, HangsKeeps DEF ScriptLeaves
  <2> QED  BY <2>1, <2>2
<1>3. WindowsCounted'
  BY <1>1, <1>2, Parts, ClientParts DEF WindowsCounted, Heard, Counted
<1> QED  BY <1>1, <1>2, <1>3, StillKeeps

LEMMA HandlerStepKeeps ==
    ASSUME IInv, NEW c \in Clients, HandlerStep(c)
    PROVE  IInv'
<1>1. /\ UNCHANGED <<outside, scanVars, panels, quit, unasked>>
      /\ BrokerSound /\ Probed' = Probed /\ panels \in [Ports -> {None, "open", "lost"}]
  BY Parts, ProbedStill
     DEF HandlerStep, Reply, ReplyFails, Count, RequestFails, Release, Close, RestTypes, quitVars
<1>2. BrokerSound' /\ HeardKeeps
  BY <1>1, ReplyKeeps, LeavesKeep, RequestFailsKeeps, CloseKeeps DEF HandlerStep
<1>3. WindowsCounted'
  BY <1>1, <1>2, Parts, ClientParts DEF WindowsCounted, HeardKeeps
<1> QED  BY <1>1, <1>2, <1>3, StillKeeps

\* The connection of a window is opened and counted before the window goes on; or it has none.
LEMMA ConnectsKeeps ==
    ASSUME IInv, NEW p \in Ports, Connects(p), UNCHANGED <<outside, scanVars, quitVars>>
    PROVE  IInv'
<1>1. /\ UNCHANGED <<outside, scanVars, quit, unasked>> /\ handler[p] = NoHandler
      /\ BrokerSound /\ Probed' = Probed /\ p \in Clients
      /\ panels \in [Ports -> {None, "open", "lost"}]
  BY Parts, ClientParts, ProbedStill DEF RestTypes, quitVars, Connects
<1>2. PICK to \in {"open", "lost"} :
         /\ panels' = [panels EXCEPT ![p] = to]
         /\ BrokerSound' /\ \A d \in Clients \ {p} : handler'[d] = handler[d]
         /\ to = "open" => Heard(p)'
  <2>1. CASE /\ Attached(p, p, "counted", TRUE) /\ tally' = tally \cup {p}
             /\ panels' = [panels EXCEPT ![p] = "open"]
    <3>1. /\ BrokerSound' /\ \A d \in Clients \ {p} : handler'[d] = handler[d]
          /\ handler'[p].pc = "counted" /\ handler'[p].here = TRUE
      BY <1>1, <2>1, AttachedKeeps
    <3> QED  BY <1>1, <2>1, <3>1 DEF Heard, Counted
  <2>2. CASE /\ Attached(p, p, "attached", FALSE) /\ UNCHANGED tally
             /\ panels' = [panels EXCEPT ![p] = "lost"]
    <3>1. BrokerSound' /\ \A d \in Clients \ {p} : handler'[d] = handler[d]
      BY <1>1, <2>2, AttachedKeeps
    <3> QED  BY <2>2, <3>1
  <2>3. CASE panels' = [panels EXCEPT ![p] = "lost"] /\ UNCHANGED brokerVars
    <3>1. BrokerSound'
      <4>1. claimed' \subseteq Ports /\ UNCHANGED <<claimed, attached, handler, tally>>
        BY <1>1, <2>3 DEF BrokerSound, BrokerTypes, brokerVars
      <4> QED  BY <1>1, <4>1, ProbesKeep
    <3> QED  BY <2>3, <3>1 DEF brokerVars
  <2> QED  BY <2>1, <2>2, <2>3 DEF Connects
<1>3. /\ panels' \in [Ports -> {None, "open", "lost"}] /\ panels'[p] = to
      /\ \A q \in Ports \ {p} : panels'[q] = panels[q]
  BY <1>1, <1>2
<1>4. WindowsCounted'
  BY <1>2, <1>3, Parts, ClientParts DEF WindowsCounted, Heard, Counted
<1>5. \A q \in Ports : panels[q] # None => panels'[q] # None
  BY <1>3, HubAssumption
<1> QED  BY <1>1, <1>2, <1>3, <1>4, <1>5, StillKeeps

\* A window stays open without its connection.
LEMMA LosesKeeps ==
    ASSUME IInv, NEW p \in Ports, LosesConnection(p)
    PROVE  IInv'
<1>1. /\ UNCHANGED <<claimed, attached, tally, outside, scanVars, quit, unasked>>
      /\ panels' = [panels EXCEPT ![p] = "lost"] /\ handler' = Hangs({p})
      /\ BrokerSound /\ Probed' = Probed /\ panels \in [Ports -> {None, "open", "lost"}]
  BY Parts, ProbedStill DEF LosesConnection, RestTypes, quitVars
<1>2. BrokerSound' /\ \A c \in Clients \ {p} : handler'[c] = handler[c]
  BY <1>1, HangsKeeps, ClientParts
<1>3. /\ panels' \in [Ports -> {None, "open", "lost"}] /\ panels'[p] = "lost"
      /\ \A q \in Ports \ {p} : panels'[q] = panels[q]
  BY <1>1
<1>4. WindowsCounted'
  BY <1>2, <1>3, Parts, ClientParts DEF WindowsCounted, Heard, Counted
<1>5. \A q \in Ports : panels[q] # None => panels'[q] # None
  BY <1>3, HubAssumption
<1> QED  BY <1>1, <1>2, <1>3, <1>4, <1>5, StillKeeps

LEMMA WindowKeeps ==
    ASSUME IInv, NEW p \in Ports, Window(p)
    PROVE  IInv'
<1>1. CASE OpenPanel(p) \/ Reconnect(p)
  BY <1>1, ConnectsKeeps DEF OpenPanel, Reconnect
<1> QED  BY <1>1, LosesKeeps, ClosePanelKeeps DEF Window

\* Other programs open and close their ports.
LEMMA PortKeeps ==
    ASSUME IInv, NEW p \in Ports, OutsideOpens(p) \/ OutsideCloses(p)
    PROVE  IInv'
<1>1. /\ UNCHANGED <<brokerVars, panels, scanVars, quit, unasked>>
      /\ BrokerSound /\ Probed' = Probed /\ panels \in [Ports -> {None, "open", "lost"}]
  BY Parts, ProbedStill DEF RestTypes, OutsideOpens, OutsideCloses, quitVars
<1>2. outside' \subseteq Ports /\ outside' \cap Devices = {}
  BY <1>1 DEF BrokerSound, BrokerTypes, ClaimsHeld, OutsideOpens, OutsideCloses
<1>3. BrokerSound'
  BY <1>1, <1>2, OutsideKeeps
<1>4. WindowsCounted'
  BY <1>1, Parts DEF WindowsCounted, Heard, Counted, brokerVars
<1> QED  BY <1>1, <1>3, <1>4, StillKeeps

LEMMA UnchangedKeeps ==
    ASSUME IInv, UNCHANGED vars
    PROVE  IInv'
<1>1. /\ UNCHANGED <<claimed, attached, handler, tally, outside, scanVars, panels, quit, unasked>>
      /\ BrokerSound /\ Probed' = Probed /\ panels \in [Ports -> {None, "open", "lost"}]
      /\ claimed \subseteq Ports
  BY Parts, ProbedStill DEF vars, brokerVars, quitVars, RestTypes
<1>2. BrokerSound'
  BY <1>1, ProbesKeep
<1>3. WindowsCounted'
  BY <1>1, Parts DEF WindowsCounted, Heard, Counted
<1> QED  BY <1>1, <1>2, <1>3, StillKeeps

LEMMA NextKeeps ==
    ASSUME IInv, [Next]_vars
    PROVE  IInv'
<1>1. ASSUME NEW w \in Workers, ScanStep(w) \/ ShowResults(w)  PROVE IInv'
  BY <1>1, ScanStepKeeps, ShowResultsKeeps
<1>2. ASSUME NEW c \in Clients, HandlerStep(c)  PROVE IInv'
  BY <1>2, HandlerStepKeeps
<1>3. ASSUME NEW s \in Scripts, ScriptConnects(s) \/ ScriptLeaves(s)  PROVE IInv'
  BY <1>3, ScriptKeeps
<1>4. ASSUME NEW p \in Ports, Window(p) \/ OutsideOpens(p) \/ OutsideCloses(p)
      PROVE  IInv'
  BY <1>4, WindowKeeps, PortKeeps
<1> QED  BY <1>1, <1>2, <1>3, <1>4, RefreshKeeps, QuitKeeps, UnchangedKeeps DEF Next

LEMMA HubInductive == Spec => []IInv
<1>1. IInv /\ [Next]_vars => IInv'
  BY NextKeeps
<1> QED  BY <1>1, InitHolds, PTL DEF Spec

-----------------------------------------------------------------------------
(* Theorems                                                                 *)

\* hub.py, discovery.py, broker.py and transport.py: one scan runs at a time; a port is opened
\* once, by the scan, by the broker or by another program; no claim outlives its device, also
\* when a transport is closed after another has taken its place; and no device is left open
\* with nobody to close it, also when the count of its clients is too low.
THEOREM ScansAndClaims == Spec => []HubInvariant
<1>1. IInv => HubInvariant
  BY DEF IInv, HubInvariant, OneWorker, OneScan
<1> QED  BY <1>1, HubInductive, PTL

\* show_discovery_results and remove_panel of hub.py: a row that says "panel open" has a
\* window, however many windows are opened and closed while a scan runs.
THEOREM RowsAreTrue == Spec => []TagTrue
<1>1. IInv => TagTrue
  BY DEF IInv
<1> QED  BY <1>1, HubInductive, PTL

\* script_count of hub.py: the scripts that are counted are among those the hub asks about,
\* whatever the windows' connections have been through, but for one for each count that the
\* release of an uncounted client has taken away.
THEOREM HubSeesScripts == Spec => []ScriptsSeen
<1>1. ASSUME IInv  PROVE ScriptsSeen
  BY <1>1, CountSeesScripts, Parts DEF ScriptsSeen
<1> QED  BY <1>1, HubInductive, PTL

\* device_name of hub.py: an arm keeps its number whatever later scans find, and no other
\* arm gets it.
THEOREM ArmsKeepTheirNames == Spec => NamesKept
<1> DEFINE Kept == \A p \in Ports : Named(p) =>
                      /\ number'[p] = number[p]
                      /\ \A q \in Ports \ {p} : number'[q] # number[p]
<1>1. ASSUME IInv, [Next]_vars  PROVE Kept
  <2>1. CASE number' = number
    <3>1. NumbersSound
      BY <1>1 DEF IInv
    <3> QED  BY <2>1, <3>1 DEF NumbersSound, NamedPorts, Named
  <2>2. ASSUME NEW w \in Workers, ShowResults(w)  PROVE Kept
    BY <1>1, <2>2, ShowResultsKeeps DEF NamedPorts
  <2>3. number' = number \/ \E w \in Workers : ShowResults(w)
    BY <1>1 DEF Next, ScanStep, HandlerStep, Window, ProbeOpens, ProbeEnds, ScanEnds, Reply,
       ReplyFails, Count, RequestFails, Release, Close, ScriptConnects, ScriptLeaves, OpenPanel,
       LosesConnection, Reconnect, ClosePanel, ListRefreshed, Refreshed, OutsideOpens, OutsideCloses,
       Refresh, Quit, vars, scanVars
  <2> QED  BY <2>1, <2>2, <2>3
<1>2. IInv /\ [Next]_vars => [Kept]_vars
  BY <1>1
<1> HIDE DEF Kept
<1>3. Spec => [][Kept]_vars
  BY <1>2, HubInductive, PTL DEF Spec
<1> QED  BY <1>3 DEF NamesKept, Kept
=============================================================================
