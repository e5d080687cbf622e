----------------------------- MODULE BridgeWake -----------------------------
(***************************************************************************)
(* The wake tick of the bridge plugin inside a DSH host (install in        *)
(* integrations/dsh-link-bridge/lib/index.js): it lists the unread         *)
(* messages of its node, decides whether and where to wake a conversation, *)
(* and keeps what it must remember in a state file.                        *)
(*                                                                         *)
(* A tick is cut at its awaits.  Meanwhile messages arrive and are read,   *)
(* sessions send, users delete sessions, and the host may end.             *)
(***************************************************************************)
EXTENDS TopicPool, Routes, Lists

CONSTANTS
  Msg,             \* message ids; their order is the order of the list
  mail,            \* what each says: id, ts, thread, subject, peer, replyTo
  Local,           \* sessions that users opened, and that may send
  Opened,          \* names of the sessions the bridge opens (bound), in order
  Sends,           \* what Local sessions send, each once, in order (bound)
  batchLimit, cooldown, threadCooldown, maxThreadWakes, threadWindow,
  wakeHour,        \* the rolling hour of maxWakesPerHour
  maxWakesPerHour,
  ArchivesPerTick, \* archiving calls in one sweep: 3
  MaxTime,         \* bound of the clock
  MaxFaults        \* errors, timeouts, unreadable files and crashes (bound)

ASSUME BridgeAssumption ==
  /\ Msg \subseteq Nat /\ Opened \subseteq Nat
  /\ {cooldown, threadCooldown, threadWindow, wakeHour, MaxTime, MaxFaults} \subseteq Nat
  /\ {batchLimit, maxThreadWakes, maxWakesPerHour, ArchivesPerTick} \subseteq Nat \ {0}

\* The list is in the order of the ids, the watermark in that of the timestamps.  An id
\* of this program begins with its time, any other id is accepted too.
ASSUME MailAssumption == \A m \in Msg : mail[m].ts \in Nat \ {0}

VARIABLES
  clock,
  inbox,     \* the messages the node has
  read,      \* those that have been marked read
  memory,    \* what the plugin holds in memory
  disk,      \* its state file
  tick,      \* the tick in progress
  sessions,  \* what the host has: sessions opened, archived, and gone
  history,   \* the wakes, those on record, what was dropped, what arrived too late
  faults

vars == <<clock, inbox, read, memory, disk, tick, sessions, history, faults>>

-----------------------------------------------------------------------------
Fresh ==
  [mark |-> [ts |-> 0, id |-> 0], lastNotifyAt |-> None,
   threads |-> [k \in Topic |-> None], wakeTimes |-> <<>>,
   pool |-> [k \in Topic |-> NoEntry]]

\* Mutant: a start begins the budgets anew.
StartedAnew(saved) ==
  [mark |-> saved.mark, lastNotifyAt |-> saved.lastNotifyAt,
   threads |-> [k \in Topic |-> None], wakeTimes |-> <<>>, pool |-> saved.pool,
   routes |-> NoRoutes, dead |-> {}, loaded |-> TRUE]

\* Not in the state file: the routes (routesSummary is, under the name the table
\* is read back by, and no entry of it is live) and the sessions known to be gone.
Started(saved) ==
  [mark |-> saved.mark, lastNotifyAt |-> saved.lastNotifyAt, threads |-> saved.threads,
   wakeTimes |-> saved.wakeTimes, pool |-> saved.pool,
   routes |-> NoRoutes, dead |-> {}, loaded |-> TRUE]

Ended == [Started(Fresh) EXCEPT !.loaded = FALSE]

Saved(m) ==
  [mark |-> m.mark, lastNotifyAt |-> m.lastNotifyAt, threads |-> m.threads,
   wakeTimes |-> m.wakeTimes, pool |-> poolSummary(m.pool)]

Idle == [pc |-> "idle", now |-> 0, page |-> {}, session |-> None, via |-> None]

Key(m) == topicKeyFor(mail[m])

\* Topic and Thread are the topics and threads of the messages; None is none of them,
\* no session and no window.
ASSUME KeysAssumption ==
  /\ \A m \in Msg : Key(m) \in Topic /\ mail[m].thread \in Thread \cup {None}
  /\ \A x \in Sends : x.thread \in Thread /\ x.session \in Local /\ x.id \in Nat
  /\ None \notin Opened \cup Local \cup Thread
  /\ None \notin [wakes : Nat, windowStart : Nat, lastAt : Nat]

Newest(S) == CHOOSE m \in S : \A n \in S : n <= m

Mark(m) == [ts |-> mail[m].ts, id |-> m]

isNewerThan(m, mark) ==
  mail[m].ts > mark.ts \/ (mail[m].ts = mark.ts /\ m > mark.id)

Unread == inbox \ read

\* GET /messages?unread=1&order=asc&limit=
Listed ==
  {m \in Unread : Cardinality({n \in Unread : n < m}) < batchLimit}

Fault == faults < MaxFaults /\ faults' = faults + 1

\* Who sent last on a thread, and when it was last sent on or answered, since the host
\* was started.
NoAsker == [t \in Thread |-> None]
Unused == [t \in Thread |-> -1]

Init ==
  /\ clock = 0
  /\ inbox = {} /\ read = {}
  /\ memory = Ended /\ disk = Fresh
  /\ tick = Idle
  /\ sessions = [opened |-> {}, archived |-> {}, gone |-> {}]
  /\ history = [woken |-> {}, counted |-> {}, filed |-> {}, dropped |-> {}, late |-> {},
                left |-> {}, sent |-> {}, asker |-> NoAsker, used |-> Unused]
  /\ faults = 0

-----------------------------------------------------------------------------
(* wakeGate and recordWake.                                                *)

\* The window of a thread begins with its first wake and is not rolled on.
Window(k, now) ==
  IF memory.threads[k] # None /\ now - memory.threads[k].windowStart > threadWindow THEN None
  ELSE memory.threads[k]

LastHour(now) ==
  Filter(memory.wakeTimes, {at \in ToSet(memory.wakeTimes) : now - at < wakeHour})

softHold(k, now) == Window(k, now) # None /\ now - Window(k, now).lastAt < threadCooldown

hardHold(k, now) ==
  /\ ~softHold(k, now)
  /\ \/ Window(k, now) # None /\ Window(k, now).wakes >= maxThreadWakes
     \/ Len(LastHour(now)) >= maxWakesPerHour

recordWake(k, now) ==
  LET w == IF Window(k, now) = None THEN [wakes |-> 0, windowStart |-> now] ELSE Window(k, now)
  IN [memory EXCEPT
       !.threads[k] = [wakes |-> w.wakes + 1, windowStart |-> w.windowStart, lastAt |-> now],
       !.wakeTimes = Append(LastHour(now), now)]

-----------------------------------------------------------------------------
(* One tick.                                                               *)

\* The state file is read once; one that cannot be read counts as none, and the
\* sessions and wakes it names are lost sight of.
loadStateOnce ==
  \/ memory.loaded /\ UNCHANGED <<memory, history, faults>>
  \/ ~memory.loaded /\ memory' = Started(disk) /\ UNCHANGED <<history, faults>>
  \/ /\ ~memory.loaded /\ disk # Fresh /\ memory' = Started(Fresh) /\ Fault
     /\ history' = [history EXCEPT
          !.left = @ \cup {disk.pool[k].session : k \in Known(disk.pool)}, !.counted = {}]

\* Mutant: the watermark is not looked at.
listAll ==
  /\ tick.pc = "idle"
  /\ loadStateOnce
  /\ tick' = [Idle EXCEPT !.pc = "sweep", !.page = Listed]
  /\ UNCHANGED <<clock, inbox, read, disk, sessions>>

list ==
  /\ tick.pc = "idle"
  /\ loadStateOnce
  /\ tick' = [Idle EXCEPT !.pc = "sweep",
                          !.page = {m \in Listed : isNewerThan(m, memory'.mark)}]
  /\ UNCHANGED <<clock, inbox, read, disk, sessions>>

\* Archiving never throws: a session whose archiving fails is left as it is, and
\* so are those a sweep has no call left for.
archive(S, D) ==
  /\ sessions' = [sessions EXCEPT !.archived = @ \cup D]
  /\ history' = [history EXCEPT !.left = @ \cup (S \ D)]

\* Quiet topics are retired and old routes dropped, also when nothing arrived.
sweep ==
  /\ tick.pc = "sweep"
  /\ \E s \in sweepPool(memory.pool, clock), r \in sweepRoutes(memory.routes, clock) :
     \E D \in SUBSET s.archive :
       /\ Cardinality(D) <= ArchivesPerTick
       /\ IF Cardinality(D) < ArchivesPerTick /\ D # s.archive THEN Fault ELSE UNCHANGED faults
       /\ archive(s.archive, D)
       /\ memory' = [memory EXCEPT !.pool = s.pool, !.routes = r]
  /\ tick' = [tick EXCEPT !.pc = "gate", !.now = clock]
  /\ UNCHANGED <<clock, inbox, read, disk>>

topic == Key(Newest(tick.page))

Held ==
  \/ memory.lastNotifyAt # None /\ tick.now - memory.lastNotifyAt < cooldown
  \/ softHold(topic, tick.now)

Deciding == tick.pc = "gate" /\ tick.page # {} /\ ~Held

\* Nothing to do, or not yet: the watermark stays.
hold ==
  /\ tick.pc = "gate" /\ ~Deciding
  /\ tick' = [tick EXCEPT !.pc = "save"]
  /\ UNCHANGED <<clock, inbox, read, memory, disk, sessions, history, faults>>

\* The loop guard: the watermark passes the whole page.
drop ==
  /\ Deciding /\ hardHold(topic, tick.now)
  /\ memory' = [memory EXCEPT !.mark = Mark(Newest(tick.page)),
                              !.threads[topic] = Window(topic, tick.now),
                              !.wakeTimes = LastHour(tick.now)]
  /\ history' = [history EXCEPT !.dropped = @ \cup tick.page]
  /\ tick' = [tick EXCEPT !.pc = "save"]
  /\ UNCHANGED <<clock, inbox, read, disk, sessions, faults>>

Waking == Deciding /\ ~hardHold(topic, tick.now)

Routed ==
  {t \in routeFor(memory.routes, mail[Newest(tick.page)], tick.now) :
     memory.routes[t].session \notin memory.dead}

\* An answer goes back to the session that asked.
route(t) ==
  /\ Waking /\ t \in Routed
  /\ memory' = [memory EXCEPT !.routes = Hit(@, t, tick.now)]
  /\ history' = [history EXCEPT !.used[t] = tick.now]
  /\ tick' = [tick EXCEPT !.pc = "prompt", !.session = memory.routes[t].session, !.via = t]
  /\ UNCHANGED <<clock, inbox, read, disk, sessions, faults>>

Plan == planSession(memory.pool, topic, tick.now, memory.dead)

\* Mutant: the topic is recorded before there is a session.
UseEarly(session) ==
  /\ memory' = [memory EXCEPT !.pool =
       recordUse(@, topic, tick.session, tick.now, Cardinality(tick.page))]
  /\ tick' = [tick EXCEPT !.pc = "prompt", !.session = session]

Use(session) ==
  /\ memory' = [memory EXCEPT !.pool =
       recordUse(@, topic, session, tick.now, Cardinality(tick.page))]
  /\ tick' = [tick EXCEPT !.pc = "prompt", !.session = session]

reuse ==
  /\ Waking /\ Routed = {} /\ Plan.session # None
  /\ Use(Plan.session)
  /\ UNCHANGED <<clock, inbox, read, disk, sessions, history, faults>>

\* Mutant: the session that is used up is forgotten.
retireNothing ==
  /\ Waking /\ Routed = {} /\ Plan.session = None
  /\ tick' = [tick EXCEPT !.pc = "open"]
  /\ UNCHANGED <<clock, inbox, read, memory, disk, sessions, history, faults>>

\* The session that is used up is archived before there is another one ...
retire ==
  /\ Waking /\ Routed = {} /\ Plan.session = None
  /\ \E D \in SUBSET Plan.archive :
       /\ IF D # Plan.archive THEN Fault ELSE UNCHANGED faults
       /\ archive(Plan.archive, D)
  /\ tick' = [tick EXCEPT !.pc = "open"]
  /\ UNCHANGED <<clock, inbox, read, memory, disk>>

\* ... which the host opens, unless it fails.
openSession(s) ==
  /\ tick.pc = "open"
  /\ s \in Opened \ sessions.opened /\ \A r \in Opened \ sessions.opened : s <= r
  /\ sessions' = [sessions EXCEPT !.opened = @ \cup {s}]
  /\ Use(s)
  /\ UNCHANGED <<clock, inbox, read, disk, history, faults>>

openFails ==
  /\ tick.pc = "open"
  /\ IF Opened = sessions.opened THEN UNCHANGED faults ELSE Fault
  /\ tick' = [tick EXCEPT !.pc = "save"]
  /\ UNCHANGED <<clock, inbox, read, memory, disk, sessions, history>>

-----------------------------------------------------------------------------
(* The prompt.  The host takes one requestId once.                         *)

Wake == [id |-> Newest(tick.page), page |-> tick.page, session |-> tick.session,
         topic |-> topic, at |-> tick.now]

Woken == history' = [history EXCEPT !.woken = @ \cup {Wake}]

Counted == history' = [history EXCEPT !.woken = @ \cup {Wake}, !.counted = @ \cup {Wake}]

\* Mutant: the watermark goes to the newest message there is.
promptedAhead ==
  /\ tick.pc = "prompt" /\ tick.session \notin sessions.gone
  /\ Counted
  /\ memory' = [recordWake(topic, tick.now) EXCEPT
                  !.mark = Mark(Newest(inbox)), !.lastNotifyAt = tick.now]
  /\ tick' = [tick EXCEPT !.pc = "save"]
  /\ UNCHANGED <<clock, inbox, read, disk, sessions, faults>>

prompted ==
  /\ tick.pc = "prompt" /\ tick.session \notin sessions.gone
  /\ Counted
  /\ memory' = [recordWake(topic, tick.now) EXCEPT
                  !.mark = Mark(Newest(tick.page)), !.lastNotifyAt = tick.now]
  /\ tick' = [tick EXCEPT !.pc = "save"]
  /\ UNCHANGED <<clock, inbox, read, disk, sessions, faults>>

\* The session is gone: it is not tried again.
promptNotFound ==
  /\ tick.pc = "prompt" /\ tick.session \in sessions.gone
  /\ memory' = [memory EXCEPT !.dead = @ \cup {tick.session},
                              !.routes = forgetRoutesForSession(@, tick.session)]
  /\ tick' = [tick EXCEPT !.pc = "save"]
  /\ UNCHANGED <<clock, inbox, read, disk, sessions, history, faults>>

\* An error or a timeout, before or after the host took the prompt.
promptFails ==
  /\ tick.pc = "prompt" /\ Fault
  /\ Woken \/ UNCHANGED history
  /\ tick' = [tick EXCEPT !.pc = "save"]
  /\ UNCHANGED <<clock, inbox, read, memory, disk, sessions>>

save ==
  /\ tick.pc = "save"
  /\ disk' = Saved(memory)
  /\ history' = [history EXCEPT !.filed = history.counted]
  /\ tick' = Idle
  /\ UNCHANGED <<clock, inbox, read, memory, sessions, faults>>

-----------------------------------------------------------------------------
(* Everybody else.  Their steps commute with those of a tick but for its    *)
(* requests, so it is enough to let them happen there.                     *)

Requesting == tick.pc \in {"idle", "sweep", "prompt"}

\* A message that overtakes an older one counts as a fault.  Late: the watermark is above
\* the message already, or will be.
arrive(m) ==
  /\ Requesting /\ m \notin inbox
  /\ IF \E n \in Msg \ inbox : mail[n].ts < mail[m].ts THEN Fault ELSE UNCHANGED faults
  /\ inbox' = inbox \cup {m}
  /\ history' = [history EXCEPT !.late = @ \cup
       {n \in {m} : \/ ~isNewerThan(m, memory.mark) \/ ~isNewerThan(m, disk.mark)
                    \/ tick.page # {} /\ ~isNewerThan(m, Mark(Newest(tick.page)))}]
  /\ UNCHANGED <<clock, read, memory, disk, tick, sessions>>

\* A conversation marks what it was given.
markRead(m) ==
  /\ Requesting /\ m \in Unread
  /\ \E w \in history.woken : m \in w.page
  /\ read' = read \cup {m}
  /\ UNCHANGED <<clock, inbox, memory, disk, tick, sessions, history, faults>>

\* A session sends on a thread: the event of the host registers the route.
recordOutbound(x) ==
  /\ Requesting /\ x \in Sends \ history.sent /\ memory.loaded /\ x.session \notin sessions.gone
  /\ \A y \in Sends \ history.sent : x.id <= y.id
  /\ \E r \in registerRoute(memory.routes, x.thread, x.id, x.session, clock) :
       memory' = [memory EXCEPT !.routes = r]
  /\ history' = [history EXCEPT !.asker[x.thread] = x.session, !.used[x.thread] = clock,
                                 !.sent = @ \cup {x}]
  /\ UNCHANGED <<clock, inbox, read, disk, tick, sessions, faults>>

\* A user deletes a session.
vanish(s) ==
  /\ Requesting /\ s \in (Local \cup sessions.opened) \ sessions.gone /\ Fault
  /\ sessions' = [sessions EXCEPT !.gone = @ \cup {s}]
  /\ UNCHANGED <<clock, inbox, read, memory, disk, tick, history>>

\* The host ends and is started again.
Crash ==
  /\ memory.loaded /\ Fault
  /\ memory' = Ended /\ tick' = Idle
  /\ history' = [history EXCEPT
       !.left = @ \cup (sessions.opened \ {disk.pool[k].session : k \in Topic}),
       !.counted = history.filed, !.asker = NoAsker, !.used = Unused]
  /\ UNCHANGED <<clock, inbox, read, disk, sessions>>

\* What a tick does between its requests takes less than a unit of the clock.
pass ==
  /\ Requesting /\ clock < MaxTime
  /\ clock' = clock + 1
  /\ UNCHANGED <<inbox, read, memory, disk, tick, sessions, history, faults>>

Next ==
  \/ list \/ sweep \/ hold \/ drop \/ reuse \/ retire \/ openFails \/ prompted \/ promptNotFound
  \/ promptFails \/ save \/ Crash \/ pass
  \/ \E t \in Thread : route(t)
  \/ \E s \in Opened : openSession(s)
  \/ \E m \in Msg : arrive(m) \/ markRead(m)
  \/ \E x \in Sends : recordOutbound(x)
  \/ \E s \in Local \cup Opened : vanish(s)

Spec == Init /\ [][Next]_vars

-----------------------------------------------------------------------------
(* What must hold.                                                         *)

LiveSessions(pool) == {pool[k].session : k \in {j \in Known(pool) : ~pool[j].archived}}

\* The plugin's memory and its file have their form.
TypeOK ==
  /\ clock \in 0..MaxTime /\ faults \in 0..MaxFaults
  /\ read \subseteq inbox /\ inbox \subseteq Msg
  /\ \A k \in Known(memory.pool) : memory.pool[k] \in Entry(Opened, 0..MaxTime)
  /\ \A k \in Known(disk.pool) : disk.pool[k] \in Entry(Opened, 0..MaxTime)
  /\ tick.page \subseteq Msg
  /\ tick.pc \in {"idle", "sweep", "gate", "open", "prompt", "save"}

\* The watermark stood on a message that sorts before m and is younger: the list was cut
\* in the order of the ids, and the watermark passed m without its being listed.
Overtaken(m) ==
  \E n \in history.dropped \cup {w.id : w \in history.woken} :
    n < m /\ mail[n].ts > mail[m].ts

\* No message is passed over in silence: what the watermark has passed was given
\* to a conversation, counted as dropped, or arrived behind the watermark.  The one
\* exception is a foreign id whose timestamp does not sort as it does.
NothingSkipped ==
  \A m \in Unread : \/ isNewerThan(m, memory.mark)
                    \/ m \in history.dropped \cup history.late
                    \/ \E w \in history.woken : m \in w.page
                    \/ Overtaken(m)

\* No wake repeats a message of a wake on record (the README of the bridge), also one
\* nobody marked read: through errors, timeouts and restarts.  The one exception is a
\* message younger than the one its page ended with, which left the watermark behind it.
\* Not on record are a prompt in doubt, a wake the host died on before it was saved,
\* and all that was in a file which could not be read.
WokenOnce ==
  [][\A w \in history'.woken \ history.woken, v \in history.counted :
       \A m \in v.page \cap w.page : mail[v.id].ts < mail[m].ts]_vars

\* The loop guard, over the wakes on record, which a restart keeps: the window of a
\* thread is not rolled on, so a span as long as a window can meet the end of one and
\* the beginning of the next; the hour is rolled on.
LoopGuard ==
  \A v \in history.counted :
    /\ Cardinality({w \in history.counted :
                      w.topic = v.topic /\ w.at \in v.at .. v.at + threadWindow})
         <= 2 * maxThreadWakes - 1
    /\ Cardinality({w \in history.counted : w.at >= v.at /\ w.at < v.at + wakeHour})
         <= maxWakesPerHour

\* A session the bridge opened serves a topic, or is archived, or was left open
\* knowingly: archiving failed, the sweep had no call left, or the host died
\* before it had saved, or could not read what it had.
SessionsAccounted ==
  sessions.opened \subseteq
    sessions.archived \cup sessions.gone \cup history.left \cup
    LiveSessions(IF memory.loaded THEN memory.pool ELSE disk.pool)

\* A topic is never continued in a session that the bridge has archived.
RetiredStaysRetired ==
  tick.pc = "prompt" /\ tick.via = None /\ faults = 0 => tick.session \notin sessions.archived

\* Who asked last on the thread of m gets it, while the route is young, the session is
\* there, and fewer threads were used since than the table of routes has room for.
AskerGets(m) ==
  LET t == mail[m].thread
  IN /\ t \in Thread /\ routingEnabled
     /\ history.asker[t] # None /\ tick.now - history.used[t] <= ttl
     /\ Cardinality({u \in Thread \ {t} : history.used[u] >= history.used[t]}) < maxRoutes
     => tick'.session = history.asker[t] \/ history.asker[t] \in sessions.gone

Choosing == tick.pc # "prompt" /\ tick'.pc = "prompt"

\* The newest message of a page goes to the session that asked on its thread, however
\* sends, answers, evictions and deleted sessions come in between.
AnswerReachesAsker == [][Choosing => AskerGets(Newest(tick.page))]_vars

\* The comment at the choice: a thread a local conversation asked on is answered back into
\* that conversation; every other message keeps the one-session-per-topic behaviour.
AnswersReachAskers == [][Choosing => \A m \in tick.page : AskerGets(m)]_vars

=============================================================================
