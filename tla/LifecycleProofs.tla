---------------------------- MODULE LifecycleProofs ----------------------------
(***************************************************************************)
(* The counter of clients is exact and within the limit, for any set of     *)
(* clients, finite or not, and any limit.                                  *)
(***************************************************************************)
EXTENDS Lifecycle, FiniteSetTheorems, TLAPS

\* Steps that keep handlers, accept loop and registry keep all but the type of
\* the rest: the shape of most actions of the main goroutine.
LEMMA SameServing ==
  ASSUME IndInv, TypeOK', UNCHANGED <<sock, accepting, serving>>
  PROVE  IndInv'
BY DEF IndInv, AcceptedNew, QueuedNew, ClientsExact, CounterWithinLimit, Counted,
       accepting, serving

\* A handler that goes on from one counted label to another changes no count.
LEMMA CountedKept ==
  ASSUME TypeOK, NEW c \in Client,
         NEW from \in {"greet", "serve", "busy", "leaving", "deregister"},
         NEW to \in {"serve", "busy", "stuck", "leaving", "deregister", "decrement"},
         Advance(c, from, to)
  PROVE  Counted' = Counted
BY DEF TypeOK, Advance, Counted

\* Such a step of a handler that does not touch the registry keeps IndInv.
LEMMA AdvanceKeeps ==
  ASSUME IndInv, NEW c \in Client,
         NEW from \in {"greet", "serve", "busy", "leaving"},
         NEW to \in {"serve", "busy", "stuck", "leaving", "deregister"},
         Advance(c, from, to),
         UNCHANGED <<network, accepting, clients, conns, mainvars, signals, errors>>
  PROVE  IndInv'
<1> USE DEF network, accepting, mainvars, signals
<1>1. TypeOK'
  BY DEF IndInv, TypeOK, Advance
<1>2. AcceptedNew' /\ QueuedNew'
  BY DEF IndInv, TypeOK, AcceptedNew, QueuedNew, Advance
<1>3. Counted' = Counted
  BY CountedKept DEF IndInv
<1>4. ClientsExact' /\ CounterWithinLimit'
  BY <1>3 DEF IndInv, ClientsExact, CounterWithinLimit
<1> QED BY <1>1, <1>2, <1>4 DEF IndInv

\* The invariant holds in the beginning: nobody is counted.
LEMMA InitInd == Init => IndInv
<1> SUFFICES ASSUME Init PROVE IndInv
  OBVIOUS
<1>1. TypeOK
  BY DEF Init, TypeOK
<1>0. AcceptedNew /\ QueuedNew /\ CounterWithinLimit
  BY LifecycleAssumption DEF Init, AcceptedNew, QueuedNew, CounterWithinLimit
<1>2. Counted = {}
  BY DEF Init, Counted
<1>3. ClientsExact
  BY <1>2, FS_EmptySet DEF Init, ClientsExact
<1> QED BY <1>0, <1>1, <1>3 DEF IndInv

\* Clients and the accept loop keep the invariant.
LEMMA AcceptStep ==
  ASSUME IndInv,
         \/ \E c \in Client : Connect(c) \/ HangUp(c)
         \/ Accepter \/ AcceptFail
  PROVE  IndInv'
<1> USE LifecycleAssumption DEF IndInv, network, accepting, serving, mainvars, signals
<1>1. ASSUME NEW c \in Client, Connect(c)
      PROVE  IndInv'
  <2>1. TypeOK' /\ AcceptedNew' /\ QueuedNew'
    BY <1>1 DEF Connect, TypeOK, AcceptedNew, QueuedNew
  <2>2. ClientsExact' /\ CounterWithinLimit'
    BY <1>1 DEF Connect, ClientsExact, CounterWithinLimit, Counted
  <2> QED BY <2>1, <2>2
<1>2. ASSUME NEW c \in Client, HangUp(c)
      PROVE  IndInv'
  <2>1. TypeOK'
    BY <1>2 DEF HangUp, TypeOK
  <2> QED BY <1>2, <2>1, SameServing DEF HangUp
<1>3. ASSUME NEW c \in Client, AcceptConn(c)
      PROVE  IndInv'
  <2>1. TypeOK' /\ AcceptedNew' /\ QueuedNew'
    BY <1>3 DEF AcceptConn, TypeOK, AcceptedNew, QueuedNew
  <2>2. ClientsExact' /\ CounterWithinLimit'
    BY <1>3 DEF AcceptConn, ClientsExact, CounterWithinLimit, Counted
  <2> QED BY <2>1, <2>2
<1>4. CASE AcceptClosed \/ AcceptFail
  <2>1. TypeOK' /\ AcceptedNew' /\ QueuedNew'
    BY <1>4 DEF AcceptClosed, AcceptFail, TypeOK, AcceptedNew, QueuedNew
  <2>2. ClientsExact' /\ CounterWithinLimit'
    BY <1>4 DEF AcceptClosed, AcceptFail, ClientsExact, CounterWithinLimit, Counted
  <2> QED BY <2>1, <2>2
<1>5. CASE Refuse
  <2>1. TypeOK' /\ AcceptedNew' /\ QueuedNew'
    BY <1>5 DEF Refuse, TypeOK, AcceptedNew, QueuedNew
  <2>2. ClientsExact' /\ CounterWithinLimit'
    BY <1>5 DEF Refuse, ClientsExact, CounterWithinLimit, Counted
  <2> QED BY <2>1, <2>2
<1>6. CASE Count
  <2>1. TypeOK' /\ AcceptedNew' /\ QueuedNew'
    BY <1>6 DEF Count, TypeOK, AcceptedNew, QueuedNew
  <2>2. Counted' = Counted /\ clients' = clients + 1 /\ accepter' = "register"
    BY <1>6 DEF Count, Counted
  <2>3. ClientsExact'
    BY <1>6, <2>2, FS_CardinalityType DEF Count, ClientsExact
  <2>4. CounterWithinLimit'
    BY <1>6, <2>2 DEF Count, AtLimit, CounterWithinLimit, TypeOK
  <2> QED BY <2>1, <2>3, <2>4
<1>7. CASE Register
  <2>1. TypeOK' /\ AcceptedNew' /\ QueuedNew'
    BY <1>7 DEF Register, TypeOK, AcceptedNew, QueuedNew
  <2>2. Counted' = Counted \cup {acc} /\ acc \notin Counted
    BY <1>7 DEF Register, Counted, AcceptedNew, TypeOK
  <2>3. /\ IsFiniteSet(Counted')
        /\ Cardinality(Counted') = Cardinality(Counted) + 1
    BY <2>2, FS_AddElement DEF ClientsExact
  <2>4. ClientsExact' /\ CounterWithinLimit'
    BY <1>7, <2>3, FS_CardinalityType DEF Register, ClientsExact, CounterWithinLimit
  <2> QED BY <2>1, <2>4
<1> QED BY <1>1, <1>2, <1>3, <1>4, <1>5, <1>6, <1>7 DEF Accepter

\* Every step of a handler keeps the invariant; Decrement takes from the counter
\* the one that its connection added.
LEMMA HandlerStep ==
  ASSUME IndInv, NEW c \in Client,
         Command(c) \/ NeverAnswered(c) \/ Leave(c) \/ Handler(c)
  PROVE  IndInv'
<1> USE DEF IndInv, network, accepting, serving, mainvars, signals
<1>1. CASE \/ Greet(c) \/ Command(c) \/ Answered(c) \/ NeverAnswered(c)
           \/ Leave(c) \/ ReadFail(c) \/ LogClosed(c)
  BY <1>1, AdvanceKeeps
     DEF Greet, Command, Answered, NeverAnswered, Leave, ReadFail, LogClosed
<1>2. CASE Deregister(c)
  <2>1. TypeOK' /\ AcceptedNew' /\ QueuedNew'
    BY <1>2 DEF Deregister, Advance, TypeOK, AcceptedNew, QueuedNew
  <2>2. Counted' = Counted
    BY <1>2, CountedKept DEF Deregister
  <2>3. ClientsExact' /\ CounterWithinLimit'
    BY <1>2, <2>2 DEF Deregister, ClientsExact, CounterWithinLimit
  <2> QED BY <2>1, <2>3
<1>3. CASE Decrement(c)
  <2>1. c \in Counted /\ Counted' = Counted \ {c}
    BY <1>3 DEF Decrement, Advance, Counted, TypeOK
  <2>2. /\ IsFiniteSet(Counted')
        /\ Cardinality(Counted') = Cardinality(Counted) - 1
    BY <2>1, FS_RemoveElement DEF ClientsExact
  <2>3. Cardinality(Counted') \in Nat /\ Cardinality(Counted) \in Nat
    BY <2>2, FS_CardinalityType DEF ClientsExact
  <2>4. clients' = clients - 1 /\ accepter' = accepter
    BY <1>3 DEF Decrement
  <2>5. clients' \in Nat
    BY <2>2, <2>3, <2>4 DEF ClientsExact
  <2>6. TypeOK' /\ AcceptedNew' /\ QueuedNew'
    BY <1>3, <2>5 DEF Decrement, Advance, TypeOK, AcceptedNew, QueuedNew
  <2>7. ClientsExact'
    BY <2>2, <2>3, <2>4 DEF ClientsExact
  <2>8. CounterWithinLimit'
    BY <2>4, LifecycleAssumption DEF CounterWithinLimit, TypeOK
  <2> QED BY <2>6, <2>7, <2>8
<1>4. CASE CloseConn(c)
  <2>1. TypeOK' /\ AcceptedNew' /\ QueuedNew'
    BY <1>4 DEF CloseConn, Advance, TypeOK, AcceptedNew, QueuedNew
  <2>2. Counted' = Counted
    BY <1>4 DEF CloseConn, Advance, Counted, TypeOK
  <2>3. ClientsExact' /\ CounterWithinLimit'
    BY <1>4, <2>2 DEF CloseConn, ClientsExact, CounterWithinLimit
  <2> QED BY <2>1, <2>3
<1>5. CASE LogAfterClose(c)
  <2>1. TypeOK'
    BY <1>5 DEF LogAfterClose, TypeOK
  <2> QED BY <1>5, <2>1, SameServing DEF LogAfterClose
<1> QED BY <1>1, <1>2, <1>3, <1>4, <1>5 DEF Handler

\* Signals and the main goroutine keep the invariant: they count nobody.
LEMMA MainStep ==
  ASSUME IndInv,
         Main \/ (\E s \in {"HUP", "TERM"} : Signal(s)) \/ Stopped \/ UNCHANGED vars
  PROVE  IndInv'
<1> USE DEF IndInv, network, accepting, serving, mainvars, signals
<1>1. CASE Stopped \/ UNCHANGED vars
  <2>1. TypeOK'
    BY <1>1 DEF Stopped, vars, TypeOK
  <2> QED BY <1>1, <2>1, SameServing DEF Stopped, vars
<1>2. ASSUME NEW s \in {"HUP", "TERM"}, Signal(s)
      PROVE  IndInv'
  <2>1. TypeOK'
    BY <1>2 DEF Signal, TypeOK
  <2> QED BY <1>2, <2>1, SameServing DEF Signal
<1>3. CASE ReceiveReload \/ Reloaded \/ ReceiveTerm \/ StopSignals \/ Join
           \/ CloseLog \/ Exit
  <2>1. TypeOK'
    <3> USE DEF TypeOK, Goto
    <3>1. CASE ReceiveReload \/ ReceiveTerm
      BY <3>1 DEF ReceiveReload, ReceiveTerm
    <3>2. CASE Reloaded \/ StopSignals
      BY ZenonT(40), <3>2 DEF Reloaded, StopSignals
    <3>3. CASE Join \/ CloseLog \/ Exit
      BY ZenonT(40), <3>3 DEF Join, CloseLog, Exit
    <3> QED BY <1>3, <3>1, <3>2, <3>3
  <2>2. UNCHANGED <<sock, accepting, serving>>
    BY <1>3 DEF ReceiveReload, Reloaded, ReceiveTerm, StopSignals, Join, CloseLog, Exit
  <2> QED BY <2>1, <2>2, SameServing
<1>4. CASE CloseListener \/ CloseAllConns
  <2>1. TypeOK'
    <3> USE DEF TypeOK, Goto
    <3>1. CASE CloseListener
      <4>1. sock' \in [Client -> {"none", "queued", "open", "closed"}]
        BY <3>1 DEF CloseListener
      <4> QED BY ZenonT(40), <3>1, <4>1 DEF CloseListener
    <3>2. CASE CloseAllConns
      <4>1. sock' \in [Client -> {"none", "queued", "open", "closed"}]
        BY <3>2 DEF CloseAllConns
      <4> QED BY ZenonT(40), <3>2, <4>1 DEF CloseAllConns
    <3> QED BY <1>4, <3>1, <3>2
  <2>3. AcceptedNew' /\ QueuedNew'
    BY <1>4 DEF CloseListener, CloseAllConns, TypeOK, AcceptedNew, QueuedNew
  <2>2. ClientsExact' /\ CounterWithinLimit'
    BY <1>4 DEF CloseListener, CloseAllConns, ClientsExact, CounterWithinLimit, Counted
  <2> QED BY <2>1, <2>2, <2>3
<1> QED BY <1>1, <1>2, <1>3, <1>4 DEF Main

\* Every step keeps the invariant.
LEMMA NextInd == IndInv /\ [Next]_vars => IndInv'
BY AcceptStep, HandlerStep, MainStep DEF Next

\* The invariant holds always: the counter is exact at every moment.
THEOREM Inductive == Spec => []IndInv
BY InitInd, NextInd, PTL DEF Spec

\* Type correctness; that the counter never goes below zero is a part of it.
THEOREM TypeCorrect == Spec => []TypeOK
<1>1. IndInv => TypeOK
  BY DEF IndInv
<1> QED BY Inductive, <1>1, PTL

\* Never more than MaxClients connections are served (server.go:187-194).
THEOREM LimitKept == Spec => []WithinLimit
<1>1. IndInv => WithinLimit
  <2> SUFFICES ASSUME IndInv, MaxClients > 0 PROVE Cardinality(Counted) <= MaxClients
    BY DEF WithinLimit
  <2>1. Cardinality(Counted) \in Nat
    BY FS_CardinalityType DEF IndInv, ClientsExact
  <2>2. Cardinality(Counted) <= clients /\ clients <= MaxClients
    BY <2>1 DEF IndInv, ClientsExact, CounterWithinLimit
  <2> QED BY <2>1, <2>2, LifecycleAssumption DEF IndInv, TypeOK
<1> QED BY Inductive, <1>1, PTL

\* A client is refused only when all places are taken (server.go:188-192).
THEOREM RefusedWhenFull == Spec => RefusedOnlyWhenFull
<1> DEFINE Step == \A c \in Client :
                     accepter = "check" /\ acc = c /\ sock'[c] = "closed" /\ c \notin conns
                       => Cardinality(Counted) >= MaxClients
<1>1. IndInv /\ [Next]_vars => [Step]_vars
  <2> SUFFICES ASSUME IndInv, Next, NEW c \in Client, accepter = "check", acc = c,
                      sock'[c] = "closed"
               PROVE  Cardinality(Counted) >= MaxClients
    OBVIOUS
  <2>1. sock[c] = "open" /\ handler[c] = "none" /\ c \notin conns
    BY DEF IndInv, AcceptedNew
  <2>2. CASE Refuse
    <3>1. clients = Cardinality(Counted) /\ Cardinality(Counted) \in Nat
      BY FS_CardinalityType DEF IndInv, ClientsExact
    <3> QED BY <2>2, <3>1, LifecycleAssumption DEF Refuse, AtLimit
  <2>3. CASE ~ Refuse
    <3>1. sock'[c] # "closed"
      BY <2>1, <2>3
         DEF Next, Connect, HangUp, Command, Answered, NeverAnswered, Leave, Handler, Greet,
             ReadFail, LogClosed,
             Deregister, Decrement, CloseConn, LogAfterClose, Advance, Accepter,
             AcceptConn, AcceptClosed, Count, Register, AcceptFail, Main,
             ReceiveReload, Reloaded, ReceiveTerm, StopSignals, CloseListener,
             CloseAllConns, Join, CloseLog, Exit, Signal, Stopped, vars, network,
             IndInv, TypeOK
    <3> QED BY <3>1
  <2> QED BY <2>2, <2>3
<1> QED BY Inductive, <1>1, PTL DEF Spec, RefusedOnlyWhenFull

=============================================================================
