------------------------------ MODULE TopicPool ------------------------------
(***************************************************************************)
(* Which conversation a batch of messages goes to: the decisions of        *)
(* integrations/dsh-link-bridge/lib/topics.js.  A pool has an entry for    *)
(* each topic it knows: the session that serves the topic, the messages    *)
(* it was woken for, its clocks, and whether it was retired.               *)
(***************************************************************************)
EXTENDS Integers, FiniteSets

CONSTANTS
  None,            \* no session, no thread, no subject
  Topic,           \* the topic keys in use
  strategy,        \* "auto", "thread" or "subject"
  maxSessionWakes, maxSessionAge, topicIdleReset, archiveIdle, maxPoolSize

ASSUME PolicyAssumption ==
  /\ strategy \in {"auto", "thread", "subject"}
  /\ {maxSessionWakes, maxSessionAge, topicIdleReset, archiveIdle, maxPoolSize} \subseteq Nat
  /\ IsFiniteSet(Topic)

\* archivedAt is None in an entry that was read back from the state file.
Entry(Session, Time) ==
  [session : Session, wakes : Nat, created : Time, used : Time,
   archived : BOOLEAN, archivedAt : Time \cup {None}]

NoEntry == [session |-> None]

Known(pool) == {k \in Topic : pool[k] # NoEntry}

\* A thread names its topic (unless the strategy is by subject), else the peer and
\* the subject without its Re: prefixes do, else the message is a topic alone.
topicKeyFor(message) ==
  IF message.thread # None /\ strategy # "subject" THEN <<"thread", message.thread>>
  ELSE IF message.subject # None THEN <<"topic", message.peer, message.subject>>
  ELSE <<"msg", message.id>>

-----------------------------------------------------------------------------
(* The session of one topic.                                               *)

\* Mutant: a retired topic keeps its session.
StartsOverUnlessKnown(pool, k, dead) ==
  pool[k] = NoEntry \/ pool[k].session \in dead

\* Nothing to retire: a new topic, a retired one, or a session known to be gone.
StartsOver(pool, k, dead) ==
  \/ pool[k] = NoEntry
  \/ pool[k].archived
  \/ pool[k].session \in dead

\* The topic slept too long, or its session is used up.
Spent(entry, now) ==
  \/ now - entry.used > topicIdleReset
  \/ entry.wakes >= maxSessionWakes
  \/ now - entry.created > maxSessionAge

planSession(pool, k, now, dead) ==
  IF StartsOver(pool, k, dead) THEN [session |-> None, archive |-> {}]
  ELSE IF Spent(pool[k], now) THEN [session |-> None, archive |-> {pool[k].session}]
  ELSE [session |-> pool[k].session, archive |-> {}]

\* The clocks of a session go on while the topic keeps it.
recordUse(pool, k, session, now, messages) ==
  LET continuing == pool[k] # NoEntry /\ pool[k].session = session
  IN [pool EXCEPT ![k] =
       [session |-> session, used |-> now, archived |-> FALSE, archivedAt |-> None,
        wakes |-> messages + IF continuing THEN @.wakes ELSE 0,
        created |-> IF continuing THEN @.created ELSE now]]

-----------------------------------------------------------------------------
(* Retiring topics.  A topic used at this very instant is left alone.      *)

InUse(pool, now) == {k \in Known(pool) : pool[k].used = now}

Quiet(pool, now) ==
  {k \in Known(pool) \ InUse(pool, now) :
     ~pool[k].archived /\ now - pool[k].used >= archiveIdle}

Retired(pool, now) ==
  [k \in Topic |-> IF k \in Quiet(pool, now)
                   THEN [pool[k] EXCEPT !.archived = TRUE, !.archivedAt = now]
                   ELSE pool[k]]

\* Retired for two more windows; after a restart this counts from the last use.
Forgotten(pool, now) ==
  {k \in Known(pool) : pool[k].archived /\
     now - (IF pool[k].archivedAt = None THEN pool[k].used ELSE pool[k].archivedAt)
       >= 2 * archiveIdle}

Without(pool, K) == [k \in Topic |-> IF k \in K THEN NoEntry ELSE pool[k]]

\* The sets of topics the cap may evict: as many as there are too many, the
\* longest unused first, in any order among equals.
Evictions(pool, now) ==
  LET candidates == Known(pool) \ InUse(pool, now)
      excess == Cardinality(Known(pool)) - maxPoolSize
  IN IF excess <= 0 THEN {{}}
     ELSE {D \in SUBSET candidates :
        /\ Cardinality(D) <= excess
        /\ Cardinality(D) = excess \/ D = candidates
        /\ \A d \in D, e \in candidates \ D : pool[d].used <= pool[e].used}

\* What a sweep may come to: the pool after it and the sessions to archive.
sweepPool(pool, now) ==
  LET retired == Retired(pool, now)
      rest == Without(retired, Forgotten(retired, now))
  IN {[pool |-> Without(rest, D),
       archive |-> {pool[k].session : k \in Quiet(pool, now)} \cup {rest[k].session : k \in D}] :
        D \in Evictions(rest, now)}

\* What of the pool is written to the state file: not when it was archived.
poolSummary(pool) ==
  [k \in Topic |-> IF pool[k] = NoEntry THEN NoEntry
                   ELSE [pool[k] EXCEPT !.archivedAt = None]]
=============================================================================
