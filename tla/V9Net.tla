-------------------------------- MODULE V9Net --------------------------------
(***************************************************************************)
(* v9-net, the Go proxy on the user's machine: a library that an app       *)
(* starts and stops, and a command that runs until it is interrupted. Each *)
(* start makes a virtual network, whose forwarder holds ports of the host, *)
(* and an HTTP server with a WebSocket for the network and one for asking  *)
(* for ports. Serving, and closing after a stop, run in goroutines that    *)
(* read the package's variable 'server' when they get to it.               *)
(***************************************************************************)
EXTENDS Naturals, Sequences, FiniteSets

CONSTANTS
  Addr,      \* addresses to listen on
  Port,      \* ports of the host
  Page,      \* control connections
  MaxStart   \* starts in all

VARIABLES
  running,   \* the package's flag
  current,   \* the start that made 'server', 0 before any
  started,   \* starts so far: how many networks there are
  addrOf,    \* the address of each start's listener
  bound,     \* the start whose listener has an address, 0 for none
  closed,    \* whether the server of a start was closed
  serving,   \* a start's Serve goroutine: "none", "due", "on" or "ended"
  server,    \* the start whose server serves a start's listener, 0 for none
  cancelled, \* a start's other goroutine: "none", "waits", "due" or "ended"
  host,      \* the start whose network holds a port, 0 for none
  page,      \* the start a page's control connection is to, 0 for none
  told,      \* the ports a page was told are forwarded
  taken,     \* ports that some page gave back (history)
  moved      \* whether two starts had different addresses (history)

netVars == <<running, current, started, addrOf, bound, closed, serving, server,
            cancelled, moved>>
portVars == <<host, told, taken>>
vars == <<netVars, portVars, page>>

Start_ == 1 .. MaxStart

Init ==
  /\ running = FALSE /\ current = 0 /\ started = 0 /\ moved = FALSE
  /\ addrOf = [g \in Start_ |-> CHOOSE a \in Addr : TRUE]
  /\ bound = [a \in Addr |-> 0]
  /\ closed = [g \in Start_ |-> FALSE]
  /\ serving = [g \in Start_ |-> "none"]
  /\ server = [g \in Start_ |-> 0]
  /\ cancelled = [g \in Start_ |-> "none"]
  /\ host = [p \in Port |-> 0]
  /\ page = [c \in Page |-> 0]
  /\ told = [c \in Page |-> {}]
  /\ taken = {}

TypeOK ==
  /\ running \in BOOLEAN /\ moved \in BOOLEAN
  /\ current \in 0 .. MaxStart /\ started \in 0 .. MaxStart
  /\ addrOf \in [Start_ -> Addr]
  /\ bound \in [Addr -> 0 .. MaxStart]
  /\ closed \in [Start_ -> BOOLEAN]
  /\ serving \in [Start_ -> {"none", "due", "on", "ended"}]
  /\ server \in [Start_ -> 0 .. MaxStart]
  /\ cancelled \in [Start_ -> {"none", "waits", "due", "ended"}]
  /\ host \in [Port -> 0 .. MaxStart]
  /\ page \in [Page -> 0 .. MaxStart]
  /\ told \in [Page -> SUBSET Port]
  /\ taken \subseteq Port

-----------------------------------------------------------------------------
(* A mapping names two or three parts; the command takes one part as well.  *)
Parsed(parts, ofCommand) == parts \in {2, 3} \/ (ofCommand /\ parts = 1)

(* virtualnetwork.New opens the ports it is given, and fails if one is held.*)
Forwards(ports, g) == [p \in Port |-> IF p \in ports THEN g ELSE host[p]]

\* Mutant: the flag is set before the address is listened on.
FlagAfter(listens) == TRUE

(* Only a Start that listens sets the flag.                                 *)
Flag(listens) == listens

(* Start, and main: a network with its ports, a listener, two goroutines.   *)
(* When the address is in use the network that was made stays.              *)
Launch(a, ports) ==
  LET g == started + 1
      listens == bound[a] = 0
  IN /\ started < MaxStart
     /\ started' = g
     /\ running' = Flag(listens)
     /\ addrOf' = [addrOf EXCEPT ![g] = a]
     /\ moved' = (moved \/ \E h \in 1 .. started : addrOf[h] # a)
     /\ host' = Forwards(ports, g)
     /\ IF listens
        THEN /\ bound' = [bound EXCEPT ![a] = g]
             /\ current' = g
             /\ serving' = [serving EXCEPT ![g] = "due"]
             /\ cancelled' = [cancelled EXCEPT ![g] = "waits"]
        ELSE UNCHANGED <<bound, current, serving, cancelled>>
     /\ UNCHANGED <<closed, server, page, told, taken>>

Start(a, parts, ports) ==
  /\ ~running
  /\ ports # {} => \A p \in ports : host[p] = 0
  /\ Launch(a, IF Parsed(parts, FALSE) THEN ports ELSE {})

Main(a, parts, ports) ==
  /\ started = 0
  /\ Launch(a, IF Parsed(parts, TRUE) THEN ports ELSE {})

(* The Serve goroutine hands its listener to the server there is now; one   *)
(* that is closed already closes the listener.                              *)
Serve(g) ==
  /\ serving[g] = "due"
  /\ IF closed[current]
     THEN /\ serving' = [serving EXCEPT ![g] = "ended"]
          /\ bound' = [bound EXCEPT ![addrOf[g]] = 0]
     ELSE serving' = [serving EXCEPT ![g] = "on"] /\ UNCHANGED bound
  /\ server' = [server EXCEPT ![g] = current]
  /\ UNCHANGED <<running, current, started, addrOf, closed, cancelled, moved, portVars, page>>

(* Stop cancels the context and sets the flag; nothing is closed yet, the   *)
(* network and its ports never are.                                         *)
Stop ==
  /\ running
  /\ running' = FALSE
  /\ cancelled' = [cancelled EXCEPT ![current] = "due"]
  /\ UNCHANGED <<current, started, addrOf, bound, closed, serving, server, moved, portVars, page>>

(* The goroutine that waits for the context, or for the signal in main,     *)
(* closes the server there is now, with the listeners it serves. Pages'     *)
(* WebSockets are hijacked connections, which Close does not know.          *)
Closer(g) ==
  /\ cancelled[g] = "due"
  /\ cancelled' = [cancelled EXCEPT ![g] = "ended"]
  /\ closed' = [closed EXCEPT ![current] = TRUE]
  /\ LET mine == {h \in Start_ : serving[h] = "on" /\ server[h] = current}
     IN /\ bound' = [a \in Addr |-> IF bound[a] \in mine THEN 0 ELSE bound[a]]
        /\ serving' = [h \in Start_ |-> IF h \in mine THEN "ended" ELSE serving[h]]
  /\ UNCHANGED <<running, current, started, addrOf, server, moved, portVars, page>>

Interrupt ==
  /\ running
  /\ cancelled' = [cancelled EXCEPT ![current] = "due"]
  /\ running' = FALSE
  /\ UNCHANGED <<current, started, addrOf, bound, closed, serving, server, moved, portVars, page>>

-----------------------------------------------------------------------------
(* A page opens its control connection to whoever has the address.          *)
Dial(c, a) ==
  /\ page[c] = 0
  /\ bound[a] # 0 /\ serving[bound[a]] = "on"
  /\ page' = [page EXCEPT ![c] = bound[a]]
  /\ UNCHANGED <<netVars, portVars>>

\* Mutant: whatever the forwarder answers, the page is told ok.
ForwardSaysOk(c, p) ==
  /\ page[c] # 0
  /\ host' = IF host[p] = 0 THEN [host EXCEPT ![p] = page[c]] ELSE host
  /\ told' = [told EXCEPT ![c] = @ \cup {p}]
  /\ UNCHANGED <<netVars, page, taken>>

(* "forward": the forwarder opens the port; "already running" is an answer  *)
(* of ok, a port that someone else holds is an error.                       *)
Forward(c, p) ==
  /\ page[c] # 0
  /\ host' = IF host[p] = 0 THEN [host EXCEPT ![p] = page[c]] ELSE host
  /\ told' = IF host[p] \in {0, page[c]} THEN [told EXCEPT ![c] = @ \cup {p}] ELSE told
  /\ UNCHANGED <<netVars, page, taken>>

(* "unforward" closes the port whoever asked for it, and says ok always.    *)
Unforward(c, p) ==
  /\ page[c] # 0
  /\ host' = IF host[p] = page[c] THEN [host EXCEPT ![p] = 0] ELSE host
  /\ told' = [told EXCEPT ![c] = @ \ {p}]
  /\ taken' = taken \cup {p}
  /\ UNCHANGED <<netVars, page>>

(* The connection ends; what it asked for stays open.                       *)
Hangup(c) ==
  /\ page[c] # 0
  /\ page' = [page EXCEPT ![c] = 0]
  /\ told' = [told EXCEPT ![c] = {}]
  /\ UNCHANGED <<netVars, host, taken>>

Next ==
  \/ \E a \in Addr, parts \in 1 .. 3, ports \in SUBSET Port :
       Start(a, parts, ports) \/ Main(a, parts, ports)
  \/ \E g \in Start_ : Serve(g) \/ Closer(g)
  \/ Stop \/ Interrupt
  \/ \E c \in Page : \/ \E a \in Addr : Dial(c, a)
                     \/ \E p \in Port : Forward(c, p) \/ Unforward(c, p)
                     \/ Hangup(c)

Spec == Init /\ [][Next]_vars

-----------------------------------------------------------------------------
(* While the flag says so, the server that was made last is open and its    *)
(* listener has the address, as long as every start asks for one address:   *)
(* then it fails until the goroutines of the one before are through         *)
(* (v9net.go, lines 163 to 178). With another address they close the new    *)
(* server.                                                                  *)
RunningIsServed ==
  (running /\ ~moved) =>
    /\ current = bound[addrOf[current]]
    /\ ~closed[current]
    /\ serving[current] \in {"due", "on"}

(* A port that a page was told is forwarded leads to the network the page   *)
(* is on, over stops and starts, unless a page gave that port back.         *)
ForwardIsOpen ==
  \A c \in Page : \A p \in told[c] : p \notin taken => host[p] = page[c]
=============================================================================
