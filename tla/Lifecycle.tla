----------------------------- MODULE Lifecycle -----------------------------
(***************************************************************************)
(* The life of the process: main starts the HTTP server in a goroutine,    *)
(* waits for SIGTERM or SIGINT, and shuts the server down within 30        *)
(* seconds.  Two goroutines can end the process: main, and the one that    *)
(* runs Server.Start, which calls os.Exit(1) when Start returns an error.  *)
(*                                                                         *)
(* net/http is external.  Its Serve accepts connections until the listener *)
(* is closed and then returns ErrServerClosed at once.  A connection may   *)
(* carry one request after another, also while the server shuts down.      *)
(* Shutdown closes the listener, waits for Serve to leave, and closes      *)
(* connections as they become idle until there are none.                   *)
(***************************************************************************)
EXTENDS Integers, TLAPS

CONSTANT Connections  \* TCP connections that clients may make

VARIABLES
    main,      \* "waiting" (on sigChan), "draining" (in Shutdown), "over"
    serve,     \* the goroutine: "starting", "serving", "returned"
    listener,  \* "none", "open", "closed"
    signals,   \* what sigChan, of capacity one, holds: 0 or 1
    conn,      \* by connection, see ConnStates
    status,    \* exit status, -1 while the process runs
    timedOut   \* the 30 seconds of the shutdown context are over

vars == <<main, serve, listener, signals, conn, status, timedOut>>

\* "new" has not sent a request yet, "active" has a handler running, "idle"
\* has been answered and kept alive.  "cut" lost a handler to the end of the
\* process, "closed" ended in any other way.
ConnStates == {"none", "new", "active", "idle", "closed", "cut"}

Alive == status = -1
Open == {c \in Connections : conn[c] \in {"new", "active", "idle"}}

\* The process has ended exactly when it has a status, and only main ends
\* it with 0.
TypeOK ==
    /\ main \in {"waiting", "draining", "over"}
    /\ serve \in {"starting", "serving", "returned"}
    /\ listener \in {"none", "open", "closed"}
    /\ signals \in {0, 1}
    /\ conn \in [Connections -> ConnStates]
    /\ status \in {-1, 0, 1}
    /\ timedOut \in BOOLEAN
    /\ status = 0 => main = "over"

Init ==
    /\ main = "waiting" /\ serve = "starting" /\ listener = "none"
    /\ signals = 0 /\ status = -1 /\ timedOut = FALSE
    /\ conn = [c \in Connections |-> "none"]

\* The process ends, by os.Exit or by the return of main; handlers with it.
Exit(code) ==
    /\ status' = code
    /\ conn' = [c \in Connections |->
                   CASE conn[c] = "active" -> "cut"
                     [] conn[c] \in {"new", "idle"} -> "closed"
                     [] OTHER -> conn[c]]

----------------------------------------------------------------------------
\* Start: net.Listen, which fails when the address is taken; the error goes
\* back to main's goroutine.
Listen ==
    /\ Alive /\ serve = "starting" /\ listener = "none"
    /\ \/ listener' = "open" /\ serve' = serve
       \/ listener' = "none" /\ serve' = "returned"
    /\ UNCHANGED <<main, signals, conn, status, timedOut>>

\* Serve begins although Shutdown was called (a mutant).
Serve_Regardless ==
    /\ Alive /\ serve = "starting" /\ listener # "none"
    /\ serve' = "serving"
    /\ UNCHANGED <<main, listener, signals, conn, status, timedOut>>

\* Serve refuses to begin once Shutdown was called.
Serve ==
    /\ Alive /\ serve = "starting" /\ listener # "none"
    /\ \/ main = "waiting" /\ serve' = "serving" /\ listener' = listener
       \/ main = "draining" /\ serve' = "returned" /\ listener' = "closed"
    /\ UNCHANGED <<main, signals, conn, status, timedOut>>

\* Accept fails on the closed listener: Serve returns ErrServerClosed.
ServeReturns ==
    /\ Alive /\ serve = "serving" /\ listener = "closed"
    /\ serve' = "returned"
    /\ UNCHANGED <<main, listener, signals, conn, status, timedOut>>

\* The goroutine of main takes any error for a failure.
ServeFailed ==
    /\ Alive /\ serve = "returned"
    /\ Exit(1)
    /\ UNCHANGED <<main, serve, listener, signals, timedOut>>

----------------------------------------------------------------------------
(***************************************************************************)
(* Connections, which net/http serves in goroutines of their own.          *)
(***************************************************************************)
Turn(c, from, into) ==
    /\ Alive /\ conn[c] \in from
    /\ \E s \in into : conn' = [conn EXCEPT ![c] = s]
    /\ UNCHANGED <<main, serve, listener, signals, status, timedOut>>

Accept(c) == serve = "serving" /\ listener = "open" /\ Turn(c, {"none"}, {"new"})

\* A request comes in, the first one of the connection or a later one.
Receive(c) == Turn(c, {"new", "idle"}, {"active"})

\* The handler returns.  A server that shuts down keeps no connection alive.
Answer(c) ==
    Turn(c, {"active"}, IF main = "waiting" THEN {"idle", "closed"} ELSE {"closed"})

\* The client closes the connection.
HangUp(c) == Turn(c, {"new", "idle"}, {"closed"})

\* Shutdown closes idle connections, and after 5 seconds new ones as well.
CloseIdle(c) == main = "draining" /\ Turn(c, {"new", "idle"}, {"closed"})

----------------------------------------------------------------------------
\* A channel without a bound (a mutant).
Signal_Unbounded ==
    /\ Alive /\ signals < 3
    /\ signals' = signals + 1
    /\ UNCHANGED <<main, serve, listener, conn, status, timedOut>>

\* SIGTERM or SIGINT; signal.Notify drops it when the channel is full.
Signal ==
    /\ Alive /\ signals = 0
    /\ signals' = 1
    /\ UNCHANGED <<main, serve, listener, conn, status, timedOut>>

\* A signal that comes before the server serves is lost (a mutant).
BeginShutdown_LosesEarly ==
    /\ Alive /\ main = "waiting" /\ signals = 1
    /\ signals' = 0
    /\ main' = IF serve = "serving" THEN "draining" ELSE main
    /\ listener' = IF serve = "serving" THEN "closed" ELSE listener
    /\ UNCHANGED <<serve, conn, status, timedOut>>

\* Shutdown closes a listener that Serve has registered.
BeginShutdown ==
    /\ Alive /\ main = "waiting" /\ signals = 1
    /\ main' = "draining" /\ signals' = 0
    /\ listener' = IF serve = "serving" THEN "closed" ELSE listener
    /\ UNCHANGED <<serve, conn, status, timedOut>>

\* Not waiting for the handlers (a mutant).
ShutdownDone_NoWait ==
    /\ Alive /\ main = "draining" /\ serve # "serving"
    /\ main' = "over"
    /\ Exit(0)
    /\ UNCHANGED <<serve, listener, signals, timedOut>>

\* Serve has left and no connection is open: Shutdown returns nil, main returns.
ShutdownDone ==
    /\ Alive /\ main = "draining" /\ serve # "serving" /\ Open = {}
    /\ main' = "over"
    /\ Exit(0)
    /\ UNCHANGED <<serve, listener, signals, timedOut>>

\* The context expires while connections are open: main reports it and exits with 1.
ShutdownTimeout ==
    /\ Alive /\ main = "draining" /\ serve # "serving" /\ Open # {}
    /\ timedOut' = TRUE /\ main' = "over"
    /\ Exit(1)
    /\ UNCHANGED <<serve, listener, signals>>

Next ==
    \/ Listen \/ Serve \/ ServeReturns \/ ServeFailed
    \/ \E c \in Connections :
           Accept(c) \/ Receive(c) \/ Answer(c) \/ HangUp(c) \/ CloseIdle(c)
    \/ Signal \/ BeginShutdown \/ ShutdownDone \/ ShutdownTimeout

\* Both goroutines run and the timer fires.  Handlers need not return, clients
\* need not hang up, and no signal need ever come.
Fairness ==
    /\ WF_vars(Listen \/ Serve \/ ServeReturns \/ ServeFailed)
    /\ WF_vars(BeginShutdown \/ ShutdownDone \/ ShutdownTimeout)

Spec == Init /\ [][Next]_vars /\ Fairness

----------------------------------------------------------------------------
\* Exit status 0 tells the supervisor that no handler was cut off, be its
\* request the first of a connection or one that came in during the shutdown.
ZeroMeansAllAnswered ==
    status = 0 => \A c \in Connections : conn[c] \in {"none", "closed"}

\* A signal ends the process, even when a handler never returns and whatever
\* moment of the start it falls into; so does a listener that cannot open.
SignalEndsProcess == signals = 1 ~> ~Alive

\* Once main has begun the shutdown, also before the server serves, no
\* connection is opened: what Shutdown waits for can only become less.  The
\* connections it has may still bring requests.
DrainOnlyShrinks == [][main # "waiting" => Open' \subseteq Open]_vars

\* "Shutdown gracefully shuts down the server": once main has begun it and
\* before its 30 seconds are over, no request is cut off.
ShutdownIsGraceful ==
    main = "draining" /\ ~timedOut => \A c \in Connections : conn[c] # "cut"

----------------------------------------------------------------------------
(***************************************************************************)
(* Proofs of the safety properties, for any number of connections.         *)
(***************************************************************************)
\* Handlers are only cut off by an exit with another status than 0, and none
\* runs on when main has returned.
HandlersOK ==
    /\ Alive => \A c \in Connections : conn[c] # "cut"
    /\ status = 0 => \A c \in Connections : conn[c] \in {"none", "closed"}

\* Once main has begun the shutdown, a server that serves has lost its
\* listener, and one that has not begun to serve never will.
ListenerOK == main # "waiting" /\ serve = "serving" => listener = "closed"

LifeInv == TypeOK /\ HandlersOK /\ ListenerOK

\* The process starts with nothing running.
LEMMA InitLife ==
    ASSUME Init
    PROVE  LifeInv
<1>1. timedOut \in BOOLEAN
  BY Zenon DEF Init
<1>2. status = -1 /\ status \in {-1, 0, 1}
  BY DEF Init
<1>3. conn \in [Connections -> ConnStates]
  BY DEF Init, ConnStates
<1>4. TypeOK
  BY <1>1, <1>2, <1>3 DEF Init, TypeOK
<1>5. HandlersOK /\ ListenerOK
  BY DEF Init, HandlersOK, ListenerOK
<1>. QED
  BY <1>4, <1>5 DEF LifeInv

\* Exit is the only way to lose a handler, and the end of the process.
LEMMA ExitLife ==
    ASSUME LifeInv, Alive, NEW code \in {0, 1}, Exit(code),
           code = 0 => Open = {} /\ main' = "over",
           main' \in {main, "over"}, UNCHANGED <<serve, listener, signals>>,
           main' # "waiting" => main # "waiting",
           timedOut' \in BOOLEAN
    PROVE  LifeInv'
<1>1. conn \in [Connections -> ConnStates]
  BY DEF LifeInv, TypeOK
<1>2. conn' \in [Connections -> ConnStates]
  BY <1>1 DEF Exit, ConnStates
<1>3. TypeOK'
  BY <1>2 DEF LifeInv, TypeOK, Exit
<1>4. HandlersOK'
  BY <1>1 DEF LifeInv, HandlersOK, Exit, Alive, Open, ConnStates
<1>. QED
  BY <1>3, <1>4 DEF LifeInv, ListenerOK

\* A turn of one connection cuts nothing off.
LEMMA TurnLife ==
    ASSUME LifeInv, NEW c \in Connections, NEW from, NEW into,
           into \subseteq {"new", "active", "idle", "closed"}, Turn(c, from, into)
    PROVE  LifeInv'
<1>1. PICK s \in into : conn' = [conn EXCEPT ![c] = s]
  BY DEF Turn
<1>2. s \in ConnStates /\ s # "cut"
  BY <1>1 DEF ConnStates
<1>3. TypeOK'
  BY <1>1, <1>2 DEF LifeInv, TypeOK, Turn
<1>4. HandlersOK'
  BY <1>1, <1>2 DEF LifeInv, TypeOK, HandlersOK, Turn, Alive
<1>. QED
  BY <1>3, <1>4 DEF LifeInv, ListenerOK, Turn

\* Every step keeps the invariant.
LEMMA NextLife ==
    ASSUME LifeInv, [Next]_vars
    PROVE  LifeInv'
<1> USE DEF LifeInv, TypeOK, HandlersOK, ListenerOK, Alive
<1>1. CASE Listen
  BY <1>1 DEF Listen
<1>2. CASE Serve
  BY <1>2 DEF Serve
<1>3. CASE ServeReturns
  BY <1>3 DEF ServeReturns
<1>4. CASE ServeFailed
  BY <1>4, ExitLife DEF ServeFailed
<1>5. ASSUME NEW c \in Connections,
             Accept(c) \/ Receive(c) \/ Answer(c) \/ HangUp(c) \/ CloseIdle(c)
      PROVE  LifeInv'
  BY <1>5, TurnLife DEF Accept, Receive, Answer, HangUp, CloseIdle
<1>6. CASE Signal
  BY <1>6 DEF Signal
<1>7. CASE BeginShutdown
  BY <1>7 DEF BeginShutdown
<1>8. CASE ShutdownDone
  BY <1>8, ExitLife DEF ShutdownDone
<1>9. CASE ShutdownTimeout
  BY <1>9, ExitLife DEF ShutdownTimeout
<1>10. CASE UNCHANGED vars
  BY <1>10 DEF vars
<1>. QED
  BY <1>1, <1>2, <1>3, <1>4, <1>5, <1>6, <1>7, <1>8, <1>9, <1>10 DEF Next

\* Behind the three properties: handlers are cut off only by an exit that is not
\* the return of main, and a server that serves loses its listener to Shutdown.
THEOREM LifeInvariant == Spec => []LifeInv
BY InitLife, NextLife, PTL DEF Spec

\* The variables of the life cycle keep their kinds, and only main ends the
\* process with status 0.
THEOREM TypeOKCorrect == Spec => []TypeOK
<1>1. LifeInv => TypeOK
  BY DEF LifeInv
<1>. QED
  BY <1>1, LifeInvariant, PTL

\* A process that exits with 0 has cut off no request: main returns only when
\* Shutdown has seen Serve leave and every connection end.
THEOREM ZeroMeansAllAnsweredCorrect == Spec => []ZeroMeansAllAnswered
<1>1. LifeInv => ZeroMeansAllAnswered
  BY DEF LifeInv, HandlersOK, ZeroMeansAllAnswered
<1>. QED
  BY <1>1, LifeInvariant, PTL

\* Only Accept opens a connection, and not once main is in Shutdown: Shutdown
\* closes the listener of a server that serves, Serve refuses to begin after it.
THEOREM DrainOnlyShrinksCorrect == Spec => DrainOnlyShrinks
<1> DEFINE A == main # "waiting" => Open' \subseteq Open
<1>1. ASSUME LifeInv, [Next]_vars
      PROVE  [A]_vars
  <2>1. ASSUME main # "waiting", Next, NEW c \in Connections,
               conn'[c] \in {"new", "active", "idle"}
        PROVE  conn[c] \in {"new", "active", "idle"}
    <3>1. conn \in [Connections -> ConnStates]
      BY <1>1 DEF LifeInv, TypeOK
    <3>2. ASSUME NEW d \in Connections, NEW from, NEW into, Turn(d, from, into),
                 from \subseteq {"new", "active", "idle"}
          PROVE  conn[c] \in {"new", "active", "idle"}
      BY <2>1, <3>1, <3>2 DEF Turn
    <3>3. ASSUME NEW d \in Connections, Accept(d)
          PROVE  FALSE
      BY <1>1, <2>1, <3>3 DEF Accept, LifeInv, ListenerOK
    <3>4. ASSUME NEW d \in Connections,
                 Accept(d) \/ Receive(d) \/ Answer(d) \/ HangUp(d) \/ CloseIdle(d)
          PROVE  conn[c] \in {"new", "active", "idle"}
      BY <3>2, <3>3, <3>4 DEF Receive, Answer, HangUp, CloseIdle
    <3>5. ASSUME NEW code, Exit(code)
          PROVE  conn[c] \in {"new", "active", "idle"}
      BY <2>1, <3>1, <3>5 DEF Exit
    <3>. QED
      BY <2>1, <3>4, <3>5 DEF Next, Listen, Serve, ServeReturns, ServeFailed, Signal,
         BeginShutdown, ShutdownDone, ShutdownTimeout
  <2>. QED
    BY <1>1, <2>1 DEF Open
<1>. QED
  BY <1>1, LifeInvariant, PTL DEF Spec, DrainOnlyShrinks

=============================================================================
