------------------------------- MODULE Routes -------------------------------
(***************************************************************************)
(* Which local conversation asked on a thread                              *)
(* (integrations/dsh-link-bridge/lib/routes.js).  A table has a route for  *)
(* each thread a session sent on: the session, the ids it sent, oldest     *)
(* first, and when it was last used.                                       *)
(***************************************************************************)
EXTENDS Integers, Sequences, FiniteSets, SequencesExt

CONSTANTS
  Thread,
  NoThread,          \* a message without a thread, or without replyTo
  routingEnabled,
  ttl,
  maxRoutes,
  MAX_IDS_PER_ROUTE

ASSUME RouteAssumption ==
  /\ IsFiniteSet(Thread) /\ NoThread \notin Thread /\ routingEnabled \in BOOLEAN
  /\ ttl \in Nat /\ {maxRoutes, MAX_IDS_PER_ROUTE} \subseteq Nat \ {0}

NoRoute == [ids |-> <<>>]

NoRoutes == [t \in Thread |-> NoRoute]

Live(table) == {t \in Thread : table[t] # NoRoute}

expired(route, now) == route.lastAt + ttl < now

Drop(table, T) == [t \in Thread |-> IF t \in T THEN NoRoute ELSE table[t]]

\* The tables the cap may leave: the least recently used routes go, in any order
\* among equals.
enforceCap(table) ==
  LET excess == Cardinality(Live(table)) - maxRoutes
  IN IF excess <= 0 THEN {table}
     ELSE {Drop(table, D) : D \in {D \in SUBSET Live(table) :
             /\ Cardinality(D) = excess
             /\ \A d \in D, e \in Live(table) \ D : table[d].lastAt <= table[e].lastAt}}

Remembered(ids, id) ==
  IF Contains(ids, id) THEN ids
  ELSE IF Len(ids) < MAX_IDS_PER_ROUTE THEN Append(ids, id)
  ELSE Append(Tail(ids), id)

\* Mutant: the session that asked first keeps the thread.
registerRouteFirst(table, t, id, session, now) ==
  IF ~routingEnabled THEN {table}
  ELSE LET kept == IF table[t] # NoRoute THEN table[t].ids ELSE <<>>
           owner == IF table[t] # NoRoute THEN table[t].session ELSE session
       IN enforceCap([table EXCEPT ![t] =
            [session |-> owner, ids |-> Remembered(kept, id), lastAt |-> now]])

\* The newest asker owns a thread; one that takes it over starts a new list of ids.
registerRoute(table, t, id, session, now) ==
  IF ~routingEnabled THEN {table}
  ELSE LET own == table[t] # NoRoute /\ table[t].session = session
           kept == IF own THEN table[t].ids ELSE <<>>
       IN enforceCap([table EXCEPT ![t] =
            [session |-> session, ids |-> Remembered(kept, id), lastAt |-> now]])

\* The threads whose route may take a message: its own, if that is live, else any
\* on which the message it answers was sent.
routeFor(table, message, now) ==
  LET live == {t \in Live(table) : ~expired(table[t], now)}
  IN IF ~routingEnabled THEN {}
     ELSE IF message.thread \in live THEN {message.thread}
     ELSE {t \in live : message.replyTo # NoThread /\ Contains(table[t].ids, message.replyTo)}

\* A hit refreshes its route.
Hit(table, t, now) == [table EXCEPT ![t].lastAt = now]

sweepRoutes(table, now) ==
  enforceCap(Drop(table, {t \in Live(table) : expired(table[t], now)}))

forgetRoutesForSession(table, session) ==
  Drop(table, {t \in Live(table) : table[t].session = session})
=============================================================================
