------------------------------- MODULE Lifecycle -------------------------------
(***************************************************************************)
(* The life of the server process: the accept loop with its limit on the    *)
(* number of clients, the start and end of the connection handlers, the     *)
(* signals, and the shutdown (internal/nntp/server.go, cmd/gonewsd/main.go, *)
(* internal/logging/log.go).                                                *)
(*                                                                         *)
(* The accept loop, the main goroutine and one goroutine per connection     *)
(* share the counter clients, the registry conns, the listener and the log. *)
(***************************************************************************)
EXTENDS Integers, FiniteSets

CONSTANTS
  Client,          \* clients, each of which connects once
  MaxClients,      \* the directive MaxClients; 0 means no limit
  MaxAcceptErrors, \* bound: accepts that fail while the listener is open
  None

ASSUME LifecycleAssumption ==
  MaxClients \in Nat /\ MaxAcceptErrors \in Nat /\ None \notin Client

VARIABLES
  sock,      \* the server's end of each client's connection
  hungup,    \* clients that closed their end and of which nothing is left to read
  accepter,  \* where the accept loop is
  acc,       \* the connection it has accepted
  handler,   \* where each connection's handler is
  clients,   \* Server.clients
  conns,     \* Server.conns
  listening, \* Server.ln is open
  logging,   \* Logger.writer is set
  main,      \* where the main goroutine is
  sigCh,     \* its signal channel, of capacity 1
  notified,  \* signals go to the channel; otherwise they kill
  asked,     \* history: SIGTERM or SIGINT was sent while notified
  exit,      \* how the process ended
  errors

network == <<sock, hungup>>
accepting == <<accepter, acc>>
serving == <<handler, clients, conns>>
mainvars == <<listening, logging, main, exit>>
signals == <<sigCh, notified, asked>>
vars == <<network, accepting, serving, mainvars, signals, errors>>

Init ==
  /\ sock = [c \in Client |-> "none"]
  /\ hungup = {}
  /\ accepter = "accept"
  /\ acc = None
  /\ handler = [c \in Client |-> "none"]
  /\ clients = 0
  /\ conns = {}
  /\ listening = TRUE
  /\ logging = TRUE
  /\ main = "wait"
  /\ sigCh = None
  /\ notified = TRUE
  /\ asked = FALSE
  /\ exit = "running"
  /\ errors = 0

Running == exit = "running"

-----------------------------------------------------------------------------
(* Clients.                                                                *)

Connect(c) ==
  /\ Running /\ listening
  /\ sock[c] = "none"
  /\ sock' = [sock EXCEPT ![c] = "queued"]
  /\ UNCHANGED <<hungup, accepting, serving, mainvars, signals, errors>>

HangUp(c) ==
  /\ Running
  /\ sock[c] # "none" /\ c \notin hungup
  /\ hungup' = hungup \cup {c}
  /\ UNCHANGED <<sock, accepting, serving, mainvars, signals, errors>>

-----------------------------------------------------------------------------
(* The accept loop.                                                        *)

AcceptConn(c) ==
  /\ Running /\ accepter = "accept" /\ listening
  /\ sock[c] = "queued"
  /\ sock' = [sock EXCEPT ![c] = "open"]
  /\ acc' = c
  /\ accepter' = "check"
  /\ UNCHANGED <<hungup, serving, mainvars, signals, errors>>

\* Variant: the loop goes on when Accept fails.
AcceptRetried ==
  /\ Running /\ accepter = "accept" /\ ~ listening
  /\ UNCHANGED vars

\* The listener is closed: Accept fails and the loop returns.
AcceptClosed ==
  /\ Running /\ accepter = "accept" /\ ~ listening
  /\ accepter' = "ended"
  /\ UNCHANGED <<network, acc, serving, mainvars, signals, errors>>

\* Any other failure of Accept, as for want of a file descriptor, ends the loop
\* as well.
AcceptFail ==
  /\ Running /\ accepter = "accept" /\ listening
  /\ errors < MaxAcceptErrors
  /\ errors' = errors + 1
  /\ accepter' = "ended"
  /\ UNCHANGED <<network, acc, serving, mainvars, signals>>

\* Variant: one client too many.
OverLimit == MaxClients > 0 /\ clients > MaxClients
AtLimit == MaxClients > 0 /\ clients >= MaxClients

\* "400 Server has too many connections open".
Refuse ==
  /\ Running /\ accepter = "check"
  /\ AtLimit
  /\ sock' = [sock EXCEPT ![acc] = "closed"]
  /\ acc' = None
  /\ accepter' = "accept"
  /\ UNCHANGED <<hungup, serving, mainvars, signals, errors>>

Count ==
  /\ Running /\ accepter = "check"
  /\ ~ AtLimit
  /\ clients' = clients + 1
  /\ accepter' = "register"
  /\ UNCHANGED <<network, acc, handler, conns, mainvars, signals, errors>>

\* The connection enters the registry, then its handler is started.
Register ==
  /\ Running /\ accepter = "register"
  /\ conns' = conns \cup {acc}
  /\ handler' = [handler EXCEPT ![acc] = "greet"]
  /\ acc' = None
  /\ accepter' = "accept"
  /\ UNCHANGED <<network, clients, mainvars, signals, errors>>

Accepter ==
  \/ \E c \in Client : AcceptConn(c)
  \/ AcceptClosed \/ Refuse \/ Count \/ Register

-----------------------------------------------------------------------------
(* The handler of a connection.                                            *)

Advance(c, from, to) ==
  /\ Running
  /\ handler[c] = from
  /\ handler' = [handler EXCEPT ![c] = to]

\* The connection is logged and greeted.
Greet(c) ==
  /\ logging
  /\ Advance(c, "greet", "serve")
  /\ UNCHANGED <<network, accepting, clients, conns, mainvars, signals, errors>>

\* A command is read.
Command(c) ==
  /\ sock[c] = "open" /\ c \notin hungup
  /\ Advance(c, "serve", "busy")
  /\ UNCHANGED <<network, accepting, clients, conns, mainvars, signals, errors>>

\* It has been answered, and the handler is back at the read.
Answered(c) ==
  /\ Advance(c, "busy", "serve")
  /\ UNCHANGED <<network, accepting, clients, conns, mainvars, signals, errors>>

\* It never ends: a search by Message-ID in a group that is empty counts down past 0
\* (group.go:448, from server.go:557, 626, 824 and 1136), and Post waits for a spam filter
\* that hangs (group.go:505), as everyone does who then needs the lock of the group.
\* Nothing looks at the connection meanwhile.
NeverAnswered(c) ==
  /\ Advance(c, "busy", "stuck")
  /\ UNCHANGED <<network, accepting, clients, conns, mainvars, signals, errors>>

\* QUIT, a failed STARTTLS, or no command within Timeout.
Leave(c) ==
  /\ logging
  /\ Advance(c, "serve", "leaving")
  /\ UNCHANGED <<network, accepting, clients, conns, mainvars, signals, errors>>

\* Variant: the end of the input is taken for an empty line.
ReadAgain(c) ==
  /\ sock[c] = "closed" /\ logging
  /\ Advance(c, "serve", "leaving")
  /\ UNCHANGED <<network, accepting, clients, conns, mainvars, signals, errors>>

\* A read fails: at the end of the input silently, else with a line in the log.
ReadFail(c) ==
  /\ c \in hungup \/ (sock[c] = "closed" /\ logging)
  /\ Advance(c, "serve", "leaving")
  /\ UNCHANGED <<network, accepting, clients, conns, mainvars, signals, errors>>

LogClosed(c) ==
  /\ logging
  /\ Advance(c, "leaving", "deregister")
  /\ UNCHANGED <<network, accepting, clients, conns, mainvars, signals, errors>>

Deregister(c) ==
  /\ Advance(c, "deregister", "decrement")
  /\ conns' = conns \ {c}
  /\ UNCHANGED <<network, accepting, clients, mainvars, signals, errors>>

\* Variant: the count is left as it is.
DecrementNot(c) ==
  /\ Advance(c, "decrement", "close")
  /\ UNCHANGED <<network, accepting, clients, conns, mainvars, signals, errors>>

Decrement(c) ==
  /\ Advance(c, "decrement", "close")
  /\ clients' = clients - 1
  /\ UNCHANGED <<network, accepting, conns, mainvars, signals, errors>>

\* Variant: the count is decremented here too.
CloseDecrements(c) ==
  /\ Advance(c, "close", "done")
  /\ sock' = [sock EXCEPT ![c] = "closed"]
  /\ clients' = clients - 1
  /\ UNCHANGED <<hungup, accepting, conns, mainvars, signals, errors>>

CloseConn(c) ==
  /\ Advance(c, "close", "done")
  /\ sock' = [sock EXCEPT ![c] = "closed"]
  /\ UNCHANGED <<hungup, accepting, clients, conns, mainvars, signals, errors>>

\* Log writes to Logger.writer, which is nil once the log is closed: whatever
\* a handler logs then, the process panics.
LogAfterClose(c) ==
  /\ Running /\ ~ logging
  /\ handler[c] \in {"greet", "serve", "busy", "leaving"}
  /\ exit' = "panic"
  /\ UNCHANGED <<network, accepting, serving, listening, logging, main, signals, errors>>

Handler(c) ==
  \/ Greet(c) \/ Answered(c) \/ ReadFail(c) \/ LogClosed(c) \/ Deregister(c) \/ Decrement(c)
  \/ CloseConn(c) \/ LogAfterClose(c)

-----------------------------------------------------------------------------
(* Signals and the main goroutine.                                         *)

\* A signal is dropped when the channel is full, and kills the process once
\* signal.Stop has run.
Signal(s) ==
  /\ Running
  /\ sigCh' = IF notified /\ sigCh = None THEN s ELSE sigCh
  /\ asked' = (asked \/ (notified /\ s = "TERM"))
  /\ exit' = IF notified THEN exit ELSE "killed"
  /\ UNCHANGED <<network, accepting, serving, listening, logging, main, notified, errors>>

Goto(from, to) ==
  /\ Running
  /\ main = from
  /\ main' = to

ReceiveReload ==
  /\ sigCh = "HUP"
  /\ Goto("wait", "reload")
  /\ sigCh' = None
  /\ UNCHANGED <<network, accepting, serving, listening, logging, exit, notified, asked, errors>>

Reloaded ==
  /\ Goto("reload", "wait")
  /\ UNCHANGED <<network, accepting, serving, listening, logging, exit, signals, errors>>

ReceiveTerm ==
  /\ sigCh = "TERM"
  /\ Goto("wait", "stop")
  /\ sigCh' = None
  /\ UNCHANGED <<network, accepting, serving, listening, logging, exit, notified, asked, errors>>

StopSignals ==
  /\ Goto("stop", "unlisten")
  /\ notified' = FALSE
  /\ UNCHANGED <<network, accepting, serving, listening, logging, exit, sigCh, asked, errors>>

\* Connections that wait to be accepted are reset.
CloseListener ==
  /\ Goto("unlisten", "closeconns")
  /\ listening' = FALSE
  /\ sock' = [c \in Client |-> IF sock[c] = "queued" THEN "closed" ELSE sock[c]]
  /\ UNCHANGED <<hungup, accepting, serving, logging, exit, signals, errors>>

CloseAllConns ==
  /\ Goto("closeconns", "join")
  /\ sock' = [c \in Client |-> IF c \in conns THEN "closed" ELSE sock[c]]
  /\ UNCHANGED <<hungup, accepting, serving, listening, logging, exit, signals, errors>>

\* <-done
Join ==
  /\ accepter = "ended"
  /\ Goto("join", "closelog")
  /\ UNCHANGED <<network, accepting, serving, listening, logging, exit, signals, errors>>

CloseLog ==
  /\ Goto("closelog", "exit")
  /\ logging' = FALSE
  /\ UNCHANGED <<network, accepting, serving, listening, exit, signals, errors>>

Exit ==
  /\ Goto("exit", "exit")
  /\ exit' = "clean"
  /\ UNCHANGED <<network, accepting, serving, listening, logging, signals, errors>>

Main ==
  \/ ReceiveReload \/ Reloaded \/ ReceiveTerm \/ StopSignals \/ CloseListener
  \/ CloseAllConns \/ Join \/ CloseLog \/ Exit

-----------------------------------------------------------------------------

\* The process is gone.
Stopped == ~ Running /\ UNCHANGED vars

Next ==
  \/ \E c \in Client :
       Connect(c) \/ HangUp(c) \/ Command(c) \/ NeverAnswered(c) \/ Leave(c) \/ Handler(c)
  \/ Accepter \/ AcceptFail \/ Main
  \/ \E s \in {"HUP", "TERM"} : Signal(s)
  \/ Stopped

Spec == Init /\ [][Next]_vars

\* Every goroutine that can go on does.  A handler that waits for its client
\* does not, nor one whose command never ends, nor do clients or signals have to
\* come.
FairSpec ==
  /\ Spec
  /\ WF_vars(Main)
  /\ WF_vars(Accepter)
  /\ \A c \in Client : WF_vars(Handler(c))

-----------------------------------------------------------------------------
(* Properties.                                                             *)

\* Type correctness of the process and its connections.
TypeOK ==
  /\ sock \in [Client -> {"none", "queued", "open", "closed"}]
  /\ hungup \subseteq Client
  /\ accepter \in {"accept", "check", "register", "ended"}
  /\ acc \in Client \cup {None}
  /\ handler \in [Client -> {"none", "greet", "serve", "busy", "stuck", "leaving",
                             "deregister", "decrement", "close", "done"}]
  /\ clients \in Nat
  /\ conns \subseteq Client
  /\ listening \in BOOLEAN /\ logging \in BOOLEAN
  /\ main \in {"wait", "reload", "stop", "unlisten", "closeconns", "join",
               "closelog", "exit"}
  /\ sigCh \in {None, "HUP", "TERM"}
  /\ notified \in BOOLEAN /\ asked \in BOOLEAN
  /\ exit \in {"running", "clean", "panic", "killed"}
  /\ errors \in Nat

\* The connections that count: their handler has not given its place back.
Counted ==
  {c \in Client :
     handler[c] \in {"greet", "serve", "busy", "stuck", "leaving", "deregister", "decrement"}}

\* Although the counter is read and incremented in two steps (server.go:187-194)
\* while handlers decrement it, never more than MaxClients are served: only one
\* goroutine accepts.
WithinLimit == MaxClients > 0 => Cardinality(Counted) <= MaxClients

\* No place is lost when a handler ends, however it does: a client is refused only
\* when all the places are taken by others, those whose command never ends included.
RefusedOnlyWhenFull ==
  [][\A c \in Client :
       accepter = "check" /\ acc = c /\ sock'[c] = "closed" /\ c \notin conns
         => Cardinality(Counted) >= MaxClients]_vars

\* The place of a client that hung up is given back (handleConn's deferred
\* function), unless a command of his never ends, which keeps the place for good, or
\* the process ends first.
PlaceReturned ==
  \A c \in Client :
    c \in hungup /\ handler[c] \in {"greet", "serve", "busy"}
      ~> handler[c] \in {"done", "stuck"} \/ exit # "running"

\* A shutdown that has begun ends: closing the listener ends the accept loop,
\* for which main waits, and no handler is waited for.
ShutdownEnds == main = "stop" ~> exit # "running"

-----------------------------------------------------------------------------
(* The inductive invariant of LifecycleProofs.                             *)

\* What the accept loop has in hand is new: no handler, not registered.
AcceptedNew ==
  accepter \in {"check", "register"} =>
    /\ acc \in Client
    /\ sock[acc] = "open" /\ handler[acc] = "none" /\ acc \notin conns

QueuedNew ==
  \A c \in Client :
    sock[c] \in {"none", "queued"} => handler[c] = "none" /\ c \notin conns

\* The counter is exact, one client between Count and Register included.
ClientsExact ==
  /\ IsFiniteSet(Counted)
  /\ clients = Cardinality(Counted) + (IF accepter = "register" THEN 1 ELSE 0)

CounterWithinLimit == MaxClients > 0 => clients <= MaxClients

IndInv == TypeOK /\ AcceptedNew /\ QueuedNew /\ ClientsExact /\ CounterWithinLimit

-----------------------------------------------------------------------------
(* What the documentation says and the code does not do.                   *)

\* "SIGINT / SIGTERM -- graceful shutdown" (manuals/USAGE.md:58): a SIGTERM that
\* is sent while the server handles signals makes it exit.
TermHonoured == asked ~> exit # "running"

=============================================================================
