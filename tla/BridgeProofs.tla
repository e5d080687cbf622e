---------------------------- MODULE BridgeProofs ----------------------------
(***************************************************************************)
(* Theorems about BridgeWake, for every policy, every number of messages,  *)
(* sessions and topics, any ids and timestamps and any bound: the          *)
(* watermark passes no message in silence, no wake repeats what a wake on  *)
(* record has given, no session is lost sight of, an answer reaches who    *)
(* asked, and nobody is woken more often than the loop guard allows.       *)
(***************************************************************************)
EXTENDS BridgeWake, ListProofs, FiniteSetTheorems, SequenceTheorems, WellFoundedInduction, TLAPS

\* The one sorts before the other, and is younger.
Outruns(n, m) == n < m /\ mail[n].ts > mail[m].ts

\* Given to a conversation, dropped by the loop guard, too late for the mark, or outrun
\* by a message the mark stood on.
Covered(m) ==
  \/ m \in history.dropped \cup history.late
  \/ \E w \in history.woken : m \in w.page
  \/ \E n \in history.dropped : Outruns(n, m)
  \/ \E w \in history.woken : Outruns(w.id, m)

\* Of the messages of S, the mark has passed only covered ones.
PassedBy(mark, S) == \A m \in S : isNewerThan(m, mark) \/ Covered(m)

\* No mark of a wake of W is before the mark.
Behind(W, mark) == \A w \in W : ~isNewerThan(w.id, mark)

HistoryForm(h) ==
  h = [woken |-> h.woken, counted |-> h.counted, filed |-> h.filed, dropped |-> h.dropped,
       late |-> h.late, left |-> h.left, sent |-> h.sent, asker |-> h.asker, used |-> h.used]

Marks == [ts : Nat, id : Nat]

Shape ==
  /\ memory = [mark |-> memory.mark, lastNotifyAt |-> memory.lastNotifyAt,
               threads |-> memory.threads, wakeTimes |-> memory.wakeTimes,
               pool |-> memory.pool, routes |-> memory.routes,
               dead |-> memory.dead, loaded |-> memory.loaded]
  /\ tick = [pc |-> tick.pc, now |-> tick.now, page |-> tick.page,
             session |-> tick.session, via |-> tick.via]
  /\ HistoryForm(history)
  /\ memory.mark \in Marks /\ disk.mark \in Marks
  /\ faults \in Nat

\* Ids are natural numbers, and there are finitely many messages so far.
Mailed ==
  /\ inbox \subseteq Msg /\ IsFiniteSet(inbox)
  /\ \E k \in Nat : \A m \in inbox : m <= k
  /\ tick.page \subseteq inbox
  /\ tick.pc \in {"open", "prompt"} => tick.page # {}

\* Behind each mark, the one in memory, the one on disk and the one the tick is
\* about to set, there is nothing but what is covered, or will be when the mark is set.
MarksAreRight ==
  /\ PassedBy(memory.mark, Unread)
  /\ PassedBy(disk.mark, Unread)
  /\ tick.page # {} =>
       \A m \in Unread \ tick.page : \/ isNewerThan(m, Mark(Newest(tick.page))) \/ Covered(m)
                                    \/ Outruns(Newest(tick.page), m)

Ticking == tick.pc \in {"sweep", "gate", "open", "prompt"}

\* A wake is known by the last message of its page.
WakeForm == \A w \in history.woken : w.id \in Msg /\ \A m \in w.page : m \in Msg /\ m <= w.id

\* What is on record, in memory and on disk, is behind the mark beside it, and what a
\* tick has in hand is before the mark.
Recorded ==
  /\ WakeForm
  /\ history.counted \subseteq history.woken /\ history.filed \subseteq history.woken
  /\ memory.loaded => Behind(history.counted, memory.mark)
  /\ Behind(history.filed, disk.mark)
  /\ ~memory.loaded => tick.pc = "idle" /\ history.counted = history.filed
  /\ Ticking => \A m \in tick.page : isNewerThan(m, memory.mark)

BridgeInvariant == Shape /\ Mailed /\ MarksAreRight /\ Recorded

-----------------------------------------------------------------------------
(* The order of marks.                                                     *)

\* A bounded set of ids has a newest one.
LEMMA NewestIs ==
  ASSUME NEW S \in SUBSET Nat, S # {}, NEW k \in Nat, \A m \in S : m <= k
  PROVE  Newest(S) \in S /\ \A n \in S : n <= Newest(S)
<1> DEFINE T == {k - m : m \in S}
<1>1. \A m \in S : m \in Nat /\ k - m \in Nat /\ k - m \in T
  OBVIOUS
<1>2. \A y \in T : \E m \in S : y = k - m
  OBVIOUS
<1> HIDE DEF T
<1>3. T \subseteq Nat /\ T # {}
  BY <1>1, <1>2
<1>4. PICK x \in T : \A y \in T : ~(<<y, x>> \in OpToRel(<, Nat))
  BY <1>3, WFMin, NatLessThanWellFounded
<1>5. \A y \in T : ~(y < x)
  BY <1>3, <1>4 DEF OpToRel
<1>6. PICK m \in S : x = k - m
  BY <1>2
<1>7. ASSUME NEW n \in S PROVE n <= m
  <2>1. ~(k - n < k - m)
    BY <1>1, <1>5, <1>6
  <2>2. QED BY <2>1, <1>1
<1>8. QED BY <1>7 DEF Newest

\* The mark of a message is a mark.
LEMMA MarkType == ASSUME NEW m \in Msg PROVE Mark(m) \in Marks
BY BridgeAssumption, MailAssumption DEF Mark, Marks

\* A message that sorts behind another is newer than its mark, or was outrun by it.
LEMMA NewerIsAhead ==
  ASSUME NEW m \in Msg, NEW n \in Msg, n < m
  PROVE  isNewerThan(m, Mark(n)) \/ Outruns(n, m)
<1>1. m \in Nat /\ n \in Nat /\ mail[m].ts \in Nat /\ mail[n].ts \in Nat
  BY BridgeAssumption, MailAssumption
<1>2. QED BY <1>1 DEF isNewerThan, Mark, Outruns

\* No message is newer than its own mark.
LEMMA OwnMark == ASSUME NEW m \in Msg PROVE ~isNewerThan(m, Mark(m))
<1>1. m \in Nat /\ mail[m].ts \in Nat
  BY BridgeAssumption, MailAssumption
<1>2. QED BY <1>1 DEF isNewerThan, Mark

\* A message newer than a mark that another has reached, and not behind it in the list,
\* has a later timestamp.
LEMMA YoungerThanMark ==
  ASSUME NEW m \in Msg, NEW n \in Msg, NEW mark \in Marks, m <= n,
         isNewerThan(m, mark), ~isNewerThan(n, mark)
  PROVE  mail[n].ts < mail[m].ts
<1>1. m \in Nat /\ n \in Nat /\ mail[m].ts \in Nat /\ mail[n].ts \in Nat
      /\ mark.ts \in Nat /\ mark.id \in Nat
  BY BridgeAssumption, MailAssumption DEF Marks
<1>2. QED BY <1>1 DEF isNewerThan

\* What is behind a mark is behind that of every message before it.
LEMMA BehindStays ==
  ASSUME NEW m \in Msg, NEW n \in Msg, NEW mark \in Marks,
         ~isNewerThan(m, mark), isNewerThan(n, mark)
  PROVE  ~isNewerThan(m, Mark(n))
<1>1. m \in Nat /\ n \in Nat /\ mail[m].ts \in Nat /\ mail[n].ts \in Nat
      /\ mark.ts \in Nat /\ mark.id \in Nat
  BY BridgeAssumption, MailAssumption DEF Marks
<1>2. QED BY <1>1 DEF isNewerThan, Mark

\* Every message is newer than the mark a bridge starts with.
LEMMA FreshMark ==
  /\ Fresh.mark \in Marks
  /\ \A m \in Msg : isNewerThan(m, Fresh.mark)
<1>1. Fresh.mark = [ts |-> 0, id |-> 0]
  BY DEF Fresh
<1>2. ASSUME NEW m \in Msg PROVE isNewerThan(m, Fresh.mark)
  <2>1. mail[m].ts \in Nat \ {0}
    BY MailAssumption
  <2>2. QED BY <1>1, <2>1 DEF isNewerThan
<1>3. QED BY <1>1, <1>2 DEF Marks

\* The newest message of a page, and the page behind it.
LEMMA PageNewest ==
  ASSUME Mailed, tick.page # {}
  PROVE  /\ Newest(tick.page) \in tick.page /\ Newest(tick.page) \in Msg
         /\ \A m \in tick.page : m \in Msg /\ m <= Newest(tick.page)
<1>1. PICK k \in Nat : \A m \in inbox : m <= k
  BY DEF Mailed
<1>2. tick.page \in SUBSET Nat /\ tick.page \subseteq Msg /\ \A m \in tick.page : m <= k
  BY <1>1, BridgeAssumption DEF Mailed
<1>3. Newest(tick.page) \in tick.page /\ \A n \in tick.page : n <= Newest(tick.page)
  BY <1>2, NewestIs
<1>4. QED BY <1>2, <1>3

\* The same of the page a step leaves behind.
LEMMA PageNewestNext ==
  ASSUME Mailed', tick'.page # {}
  PROVE  Newest(tick.page)' \in tick'.page
<1>1. PICK k \in Nat : \A m \in inbox' : m <= k
  BY DEF Mailed
<1>2. tick'.page \in SUBSET Nat /\ \A m \in tick'.page : m <= k
  BY <1>1, BridgeAssumption DEF Mailed
<1>3. Newest(tick'.page) \in tick'.page
  BY <1>2, NewestIs
<1>4. QED BY <1>3 DEF Newest

-----------------------------------------------------------------------------
(* Steps.                                                                  *)

\* A fault is counted.
LEMMA FaultCounts ==
  ASSUME Shape, Fault \/ UNCHANGED faults
  PROVE  faults' \in Nat /\ (faults' = 0 => faults = 0) /\ (Fault => faults' # 0)
BY DEF Shape, Fault

\* A step that moves no mark but that of the file, to the one in memory.
LEMMA QuietStep ==
  ASSUME BridgeInvariant, Shape', WakeForm',
         UNCHANGED inbox, read \subseteq read',
         memory'.mark = memory.mark, memory'.loaded = memory.loaded,
         history.woken \subseteq history'.woken, history'.dropped = history.dropped,
         history'.late = history.late, history'.counted = history.counted,
         \/ disk'.mark = disk.mark /\ history'.filed = history.filed
         \/ disk'.mark = memory.mark /\ history'.filed = history.counted /\ tick.pc # "idle",
         tick'.page = tick.page \/ (tick'.page = {} /\ tick'.pc = "idle"),
         Ticking' => Ticking, tick.pc = "idle" => tick'.pc = "idle",
         tick'.pc \in {"open", "prompt"} => tick'.page # {}
  PROVE  BridgeInvariant'
<1>0. Shape /\ Mailed /\ MarksAreRight /\ Recorded
  BY DEF BridgeInvariant
<1>1. \A m \in Msg : Covered(m) => Covered(m)'
  BY DEF Covered, Outruns
<1>2. Unread' \subseteq Unread /\ Unread \subseteq Msg
  BY <1>0 DEF Unread, Mailed
<1>3. Mailed'
  BY <1>0 DEF Mailed
<1>4. MarksAreRight'
  <2>1. PassedBy(memory.mark, Unread)'
    BY <1>0, <1>1, <1>2 DEF MarksAreRight, PassedBy, isNewerThan
  <2>2. PassedBy(disk.mark, Unread)'
    BY <1>0, <1>1, <1>2 DEF MarksAreRight, PassedBy, isNewerThan
  <2>3. ASSUME tick'.page # {}, NEW m \in Unread' \ tick'.page
        PROVE  (\/ isNewerThan(m, Mark(Newest(tick.page))) \/ Covered(m)
                \/ Outruns(Newest(tick.page), m))'
    <3>1. tick'.page = tick.page /\ tick.page # {}
      BY <2>3
    <3>2. m \in Unread \ tick.page /\ m \in Msg
      BY <1>2, <2>3, <3>1
    <3>3. \/ isNewerThan(m, Mark(Newest(tick.page))) \/ Covered(m)'
          \/ Outruns(Newest(tick.page), m)
      BY <1>0, <1>1, <3>1, <3>2 DEF MarksAreRight
    <3>4. QED BY <3>1, <3>3 DEF isNewerThan, Mark, Newest, Outruns
  <2>4. QED BY <2>1, <2>2, <2>3 DEF MarksAreRight
<1>5. Recorded'
  <2>1. memory'.loaded => Behind(history'.counted, memory'.mark)
    BY <1>0 DEF Recorded
  <2>2. Behind(history'.filed, disk'.mark)
    BY <1>0 DEF Recorded
  <2>3. ~memory'.loaded => tick'.pc = "idle" /\ history'.counted = history'.filed
    BY <1>0 DEF Recorded
  <2>4. Ticking' => \A m \in tick'.page : isNewerThan(m, memory'.mark)
    BY <1>0 DEF Recorded, Ticking
  <2>5. history'.counted \subseteq history'.woken /\ history'.filed \subseteq history'.woken
    BY <1>0 DEF Recorded
  <2>6. QED BY <2>1, <2>2, <2>3, <2>4, <2>5 DEF Recorded, Behind, isNewerThan
<1>6. QED BY <1>3, <1>4, <1>5 DEF BridgeInvariant

\* A step that adds no wake.
LEMMA SameWakes ==
  ASSUME BridgeInvariant, history'.woken = history.woken PROVE WakeForm'
BY DEF BridgeInvariant, Recorded, WakeForm

-----------------------------------------------------------------------------
(* The steps that set no mark.                                             *)

\* What a step leaves of the tick when it only goes on.
LEMMA TickGoesOn ==
  ASSUME Shape, NEW pc, tick' = [tick EXCEPT !.pc = pc]
  PROVE  /\ tick' = [pc |-> tick'.pc, now |-> tick'.now, page |-> tick'.page,
                     session |-> tick'.session, via |-> tick'.via]
         /\ tick'.pc = pc /\ tick'.page = tick.page
BY DEF Shape

\* A tick that has ended.
LEMMA TickEnds ==
  ASSUME tick' = Idle
  PROVE  /\ tick' = [pc |-> tick'.pc, now |-> tick'.now, page |-> tick'.page,
                     session |-> tick'.session, via |-> tick'.via]
         /\ tick'.pc = "idle" /\ tick'.page = {}
BY DEF Idle

\* Nothing to do, or not yet.
LEMMA HoldKeeps == ASSUME BridgeInvariant, hold PROVE BridgeInvariant'
<1>1. Shape /\ tick.pc = "gate" /\ tick' = [tick EXCEPT !.pc = "save"]
      /\ UNCHANGED <<inbox, read, memory, disk, history, faults>>
  BY DEF hold, BridgeInvariant
<1>2. Shape' /\ tick'.pc = "save" /\ tick'.page = tick.page
  BY <1>1, TickGoesOn DEF Shape
<1>3. QED BY <1>1, <1>2, QuietStep, SameWakes DEF Ticking

\* Time passes.
LEMMA PassKeeps == ASSUME BridgeInvariant, pass PROVE BridgeInvariant'
<1>1. Shape /\ UNCHANGED <<inbox, read, memory, disk, tick, history, faults>>
  BY DEF pass, BridgeInvariant
<1>2. Shape'
  BY <1>1 DEF Shape
<1>3. QED BY <1>1, <1>2, QuietStep, SameWakes DEF Ticking, BridgeInvariant, Mailed

\* A session goes.
LEMMA VanishKeeps == ASSUME BridgeInvariant, NEW s, vanish(s) PROVE BridgeInvariant'
<1>1. Shape /\ Fault /\ UNCHANGED <<inbox, read, memory, disk, tick, history>>
  BY DEF vanish, BridgeInvariant
<1>2. Shape' /\ faults' # 0
  BY <1>1, FaultCounts DEF Shape
<1>3. QED BY <1>1, <1>2, QuietStep, SameWakes DEF Ticking, BridgeInvariant, Mailed

\* A message is marked read.
LEMMA ReadKeeps == ASSUME BridgeInvariant, NEW m, markRead(m) PROVE BridgeInvariant'
<1>1. Shape /\ read \subseteq read' /\ UNCHANGED <<inbox, memory, disk, tick, history, faults>>
  BY DEF markRead, BridgeInvariant
<1>2. Shape'
  BY <1>1 DEF Shape
<1>3. QED BY <1>1, <1>2, QuietStep, SameWakes DEF Ticking, BridgeInvariant, Mailed

\* The state file is written: its mark is the one in memory.
LEMMA SaveKeeps == ASSUME BridgeInvariant, save PROVE BridgeInvariant'
<1>1. Shape /\ tick.pc = "save" /\ disk' = Saved(memory) /\ tick' = Idle
      /\ history' = [history EXCEPT !.filed = history.counted]
      /\ UNCHANGED <<inbox, read, memory, faults>>
  BY DEF save, BridgeInvariant
<1>2. disk'.mark = memory.mark
  BY <1>1 DEF Saved
<1>0. /\ HistoryForm(history') /\ history'.woken = history.woken
      /\ history'.counted = history.counted /\ history'.filed = history.counted
      /\ history'.dropped = history.dropped /\ history'.late = history.late
  BY <1>1 DEF Shape, HistoryForm
<1>3. Shape' /\ tick'.page = {} /\ tick'.pc = "idle"
  BY <1>0, <1>1, <1>2, TickEnds DEF Shape
<1>4. QED BY <1>0, <1>1, <1>2, <1>3, QuietStep, SameWakes DEF Ticking

\* The host opens no session.
LEMMA OpenFailsKeeps == ASSUME BridgeInvariant, openFails PROVE BridgeInvariant'
<1>1. Shape /\ tick.pc = "open" /\ tick' = [tick EXCEPT !.pc = "save"] /\ (Fault \/ UNCHANGED faults)
      /\ UNCHANGED <<inbox, read, memory, disk, history>>
  BY DEF openFails, BridgeInvariant
<1>2. Shape' /\ tick'.pc = "save" /\ tick'.page = tick.page /\ (faults' = 0 => faults = 0)
  BY <1>1, TickGoesOn, FaultCounts DEF Shape
<1>3. QED BY <1>1, <1>2, QuietStep, SameWakes DEF Ticking

\* What the plugin holds keeps its form, and its mark, when other fields change.
LEMMA MemoryForm ==
  ASSUME Shape, NEW pool, NEW routes, NEW dead,
         memory' = [memory EXCEPT !.pool = pool, !.routes = routes, !.dead = dead]
  PROVE  /\ memory' = [mark |-> memory'.mark, lastNotifyAt |-> memory'.lastNotifyAt,
                       threads |-> memory'.threads, wakeTimes |-> memory'.wakeTimes,
                       pool |-> memory'.pool, routes |-> memory'.routes,
                       dead |-> memory'.dead, loaded |-> memory'.loaded]
         /\ memory'.mark = memory.mark /\ memory'.loaded = memory.loaded
BY DEF Shape

\* Quiet topics are retired and old routes dropped.
LEMMA SweepKeeps == ASSUME BridgeInvariant, sweep PROVE BridgeInvariant'
<1>1. PICK s \in sweepPool(memory.pool, clock), r \in sweepRoutes(memory.routes, clock) :
        \E D \in SUBSET s.archive :
          /\ Fault \/ UNCHANGED faults
          /\ archive(s.archive, D)
          /\ memory' = [memory EXCEPT !.pool = s.pool, !.routes = r]
  BY DEF sweep
<1>2. PICK D \in SUBSET s.archive :
          /\ Fault \/ UNCHANGED faults
          /\ archive(s.archive, D)
          /\ memory' = [memory EXCEPT !.pool = s.pool, !.routes = r]
  BY <1>1
<1>3. Shape /\ tick.pc = "sweep" /\ tick' = [tick EXCEPT !.pc = "gate", !.now = clock]
      /\ UNCHANGED <<inbox, read, disk>>
  BY DEF sweep, BridgeInvariant
<1>4. memory' = [memory EXCEPT !.pool = s.pool, !.routes = r, !.dead = memory.dead]
  BY <1>2, <1>3 DEF Shape
<1> DEFINE gone == s.archive \ D
<1> HIDE DEF gone
<1>5. history' = [history EXCEPT !.left = history.left \cup gone]
  BY <1>2 DEF archive, gone
<1>6. Shape' /\ history'.woken = history.woken /\ history'.dropped = history.dropped
      /\ history'.late = history.late /\ history'.counted = history.counted
      /\ history'.filed = history.filed
  <2>1. HistoryForm(history')
        /\ history'.woken = history.woken /\ history'.dropped = history.dropped
        /\ history'.late = history.late /\ history'.counted = history.counted
        /\ history'.filed = history.filed
    BY <1>3, <1>5 DEF Shape, HistoryForm
  <2>2. tick' = [pc |-> tick'.pc, now |-> tick'.now, page |-> tick'.page,
                 session |-> tick'.session, via |-> tick'.via]
    BY <1>3 DEF Shape
  <2>3. faults' \in Nat
    BY <1>2, <1>3, FaultCounts
  <2>4. QED BY <1>3, <1>4, <2>1, <2>2, <2>3, MemoryForm DEF Shape
<1>7. tick'.pc = "gate" /\ tick'.page = tick.page /\ (faults' = 0 => faults = 0)
  BY <1>2, <1>3, FaultCounts DEF Shape
<1>8. memory'.mark = memory.mark /\ memory'.loaded = memory.loaded
  BY <1>3, <1>4, MemoryForm
<1>9. QED BY <1>3, <1>6, <1>7, <1>8, QuietStep, SameWakes DEF Ticking

\* What a tick decides for a session leaves the tick in hand as it is.
LEMMA TickTurns ==
  ASSUME Shape, NEW session, NEW via,
         tick' = [tick EXCEPT !.pc = "prompt", !.session = session, !.via = via]
  PROVE  /\ tick' = [pc |-> tick'.pc, now |-> tick'.now, page |-> tick'.page,
                     session |-> tick'.session, via |-> tick'.via]
         /\ tick'.pc = "prompt" /\ tick'.page = tick.page
BY DEF Shape

\* An answer goes back to the session that asked.
LEMMA RouteKeeps == ASSUME BridgeInvariant, NEW t, route(t) PROVE BridgeInvariant'
<1> DEFINE hit == Hit(memory.routes, t, tick.now)
           asker == memory.routes[t].session
<1> HIDE DEF hit, asker
<1>1. Shape /\ tick.pc = "gate" /\ tick.page # {}
      /\ memory' = [memory EXCEPT !.routes = hit]
      /\ tick' = [tick EXCEPT !.pc = "prompt", !.session = asker, !.via = t]
      /\ history' = [history EXCEPT !.used[t] = tick.now]
      /\ UNCHANGED <<inbox, read, disk, faults>>
  BY DEF route, Waking, Deciding, BridgeInvariant, hit, asker
<1>2. memory' = [memory EXCEPT !.pool = memory.pool, !.routes = hit, !.dead = memory.dead]
  BY <1>1 DEF Shape
<1>0. /\ HistoryForm(history') /\ history'.woken = history.woken
      /\ history'.counted = history.counted /\ history'.filed = history.filed
      /\ history'.dropped = history.dropped /\ history'.late = history.late
  BY <1>1 DEF Shape, HistoryForm
<1>3. Shape' /\ memory'.mark = memory.mark /\ memory'.loaded = memory.loaded
      /\ tick'.pc = "prompt" /\ tick'.page = tick.page
  BY <1>0, <1>1, <1>2, MemoryForm, TickTurns DEF Shape
<1>4. QED BY <1>0, <1>1, <1>3, QuietStep, SameWakes DEF Ticking

\* A session is used for a topic.
LEMMA UseKeeps ==
  ASSUME BridgeInvariant, NEW s, Use(s), tick.pc \in {"gate", "open"}, tick.page # {},
         UNCHANGED <<inbox, read, disk, history, faults>>
  PROVE  BridgeInvariant'
<1> DEFINE used == recordUse(memory.pool, topic, s, tick.now, Cardinality(tick.page))
<1> HIDE DEF used
<1>1. Shape /\ memory' = [memory EXCEPT !.pool = used]
      /\ tick' = [tick EXCEPT !.pc = "prompt", !.session = s]
  BY DEF Use, BridgeInvariant, used
<1>2. memory' = [memory EXCEPT !.pool = used, !.routes = memory.routes, !.dead = memory.dead]
      /\ tick' = [tick EXCEPT !.pc = "prompt", !.session = s, !.via = tick.via]
  BY <1>1 DEF Shape
<1>3. Shape' /\ memory'.mark = memory.mark /\ memory'.loaded = memory.loaded
      /\ tick'.pc = "prompt" /\ tick'.page = tick.page
  BY <1>1, <1>2, MemoryForm, TickTurns DEF Shape
<1>4. QED BY <1>3, QuietStep, SameWakes DEF Ticking

\* A topic goes on in the session it has.
LEMMA ReuseKeeps == ASSUME BridgeInvariant, reuse PROVE BridgeInvariant'
BY UseKeeps DEF reuse, Waking, Deciding

\* The host opens a session for it.
LEMMA OpenKeeps == ASSUME BridgeInvariant, NEW s, openSession(s) PROVE BridgeInvariant'
<1>1. tick.page # {}
  BY DEF openSession, BridgeInvariant, Mailed
<1>2. QED BY <1>1, UseKeeps DEF openSession

\* The session that is used up is archived.
LEMMA RetireKeeps == ASSUME BridgeInvariant, retire PROVE BridgeInvariant'
<1>1. PICK D \in SUBSET Plan.archive : (Fault \/ UNCHANGED faults) /\ archive(Plan.archive, D)
  BY DEF retire
<1>2. Shape /\ tick.pc = "gate" /\ tick.page # {} /\ tick' = [tick EXCEPT !.pc = "open"]
      /\ UNCHANGED <<inbox, read, memory, disk>>
  BY DEF retire, Waking, Deciding, BridgeInvariant
<1> DEFINE gone == Plan.archive \ D
<1> HIDE DEF gone
<1>3. history' = [history EXCEPT !.left = history.left \cup gone]
  BY <1>1 DEF archive, gone
<1>4. Shape' /\ history'.woken = history.woken /\ history'.dropped = history.dropped
      /\ history'.late = history.late /\ history'.counted = history.counted
      /\ history'.filed = history.filed
  <2>1. HistoryForm(history')
        /\ history'.woken = history.woken /\ history'.dropped = history.dropped
        /\ history'.late = history.late /\ history'.counted = history.counted
        /\ history'.filed = history.filed
    BY <1>2, <1>3 DEF Shape, HistoryForm
  <2>2. QED BY <1>1, <1>2, <2>1, FaultCounts, TickGoesOn DEF Shape
<1>5. tick'.pc = "open" /\ tick'.page = tick.page /\ (faults' = 0 => faults = 0)
  BY <1>1, <1>2, FaultCounts, TickGoesOn
<1>6. QED BY <1>2, <1>4, <1>5, QuietStep, SameWakes DEF Ticking

\* The session is gone.
LEMMA NotFoundKeeps == ASSUME BridgeInvariant, promptNotFound PROVE BridgeInvariant'
<1> DEFINE dead == memory.dead \cup {tick.session}
           routes == forgetRoutesForSession(memory.routes, tick.session)
<1> HIDE DEF dead, routes
<1>1. Shape /\ tick.pc = "prompt" /\ tick' = [tick EXCEPT !.pc = "save"]
      /\ memory' = [memory EXCEPT !.dead = dead, !.routes = routes]
      /\ UNCHANGED <<inbox, read, disk, history, faults>>
  BY DEF promptNotFound, BridgeInvariant, dead, routes
<1>2. memory' = [memory EXCEPT !.pool = memory.pool, !.routes = routes, !.dead = dead]
  BY <1>1 DEF Shape
<1>3. Shape' /\ memory'.mark = memory.mark /\ memory'.loaded = memory.loaded
      /\ tick'.pc = "save" /\ tick'.page = tick.page
  BY <1>1, <1>2, MemoryForm, TickGoesOn DEF Shape
<1>4. QED BY <1>1, <1>3, QuietStep, SameWakes DEF Ticking

\* The wake of a tick has the form of a wake.
LEMMA WakeHasForm ==
  ASSUME BridgeInvariant, tick.page # {},
         history'.woken \in {history.woken, history.woken \cup {Wake}}
  PROVE  WakeForm'
<1>1. Wake.id = Newest(tick.page) /\ Wake.page = tick.page
  BY DEF Wake
<1>2. Wake.id \in Msg /\ \A m \in Wake.page : m \in Msg /\ m <= Wake.id
  BY <1>1, PageNewest DEF BridgeInvariant
<1>3. QED BY <1>2 DEF BridgeInvariant, Recorded, WakeForm

\* An error or a timeout, whether or not the host took the prompt.
LEMMA FailsKeeps == ASSUME BridgeInvariant, promptFails PROVE BridgeInvariant'
<1>1. Shape /\ Fault /\ tick.pc = "prompt" /\ tick' = [tick EXCEPT !.pc = "save"]
      /\ (Woken \/ UNCHANGED history) /\ UNCHANGED <<inbox, read, memory, disk>>
  BY DEF promptFails, BridgeInvariant
<1> DEFINE wake == Wake
<1> HIDE DEF wake
<1>2. history' = [history EXCEPT !.woken = history.woken \cup {wake}] \/ UNCHANGED history
  BY <1>1 DEF Woken, wake
<1>3. /\ HistoryForm(history')
      /\ history'.woken \in {history.woken, history.woken \cup {wake}}
      /\ history'.counted = history.counted /\ history'.filed = history.filed
      /\ history'.dropped = history.dropped /\ history'.late = history.late
  BY <1>1, <1>2 DEF Shape, HistoryForm
<1>6. WakeForm'
  BY <1>1, <1>3, WakeHasForm DEF BridgeInvariant, Mailed, wake
<1>4. Shape' /\ tick'.pc = "save" /\ tick'.page = tick.page
  BY <1>1, <1>3, FaultCounts, TickGoesOn DEF Shape
<1>5. QED BY <1>1, <1>3, <1>4, <1>6, QuietStep DEF Ticking

\* A session sends: its route is registered.
LEMMA OutboundKeeps == ASSUME BridgeInvariant, NEW x, recordOutbound(x) PROVE BridgeInvariant'
<1>1. PICK r \in registerRoute(memory.routes, x.thread, x.id, x.session, clock) :
        memory' = [memory EXCEPT !.routes = r]
  BY DEF recordOutbound
<1>2. Shape /\ UNCHANGED <<inbox, read, disk, tick, faults>>
      /\ history' = [history EXCEPT
           !.asker[x.thread] = x.session, !.used[x.thread] = clock,
           !.sent = history.sent \cup {x}]
  BY DEF recordOutbound, BridgeInvariant
<1>3. memory' = [memory EXCEPT !.pool = memory.pool, !.routes = r, !.dead = memory.dead]
  BY <1>1, <1>2 DEF Shape
<1>4. /\ HistoryForm(history')
      /\ history'.woken = history.woken
      /\ history'.counted = history.counted /\ history'.filed = history.filed
      /\ history'.dropped = history.dropped /\ history'.late = history.late
  BY <1>2 DEF Shape, HistoryForm
<1>5. Shape' /\ memory'.mark = memory.mark /\ memory'.loaded = memory.loaded
  BY <1>2, <1>3, <1>4, MemoryForm DEF Shape
<1>6. QED BY <1>2, <1>4, <1>5, QuietStep, SameWakes DEF Ticking, BridgeInvariant, Mailed

-----------------------------------------------------------------------------
(* The steps that set a mark, and those that put a message before one.     *)

\* A history that grows covers what it covered.
LEMMA CoverGrows ==
  ASSUME history.woken \subseteq history'.woken, history.dropped \subseteq history'.dropped,
         history.late \subseteq history'.late, NEW S, NEW mark, NEW T \in SUBSET S,
         PassedBy(mark, S)
  PROVE  \A m \in T : isNewerThan(m, mark) \/ Covered(m)'
BY DEF PassedBy, Covered, Outruns

\* A plugin that has read a state file.
LEMMA StartedForm ==
  ASSUME NEW saved, memory' = Started(saved)
  PROVE  /\ memory' = [mark |-> memory'.mark, lastNotifyAt |-> memory'.lastNotifyAt,
                       threads |-> memory'.threads, wakeTimes |-> memory'.wakeTimes,
                       pool |-> memory'.pool, routes |-> memory'.routes,
                       dead |-> memory'.dead, loaded |-> memory'.loaded]
         /\ memory'.mark = saved.mark /\ memory'.loaded = TRUE
BY DEF Started

\* The state file is read, and the page is what is newer than its mark.
LEMMA ListKeeps == ASSUME BridgeInvariant, list PROVE BridgeInvariant'
<1> DEFINE lost == history.left \cup {disk.pool[k].session : k \in Known(disk.pool)}
<1>1. /\ Shape /\ Mailed /\ MarksAreRight /\ Recorded
      /\ \/ memory.loaded /\ UNCHANGED <<memory, history, faults>>
         \/ ~memory.loaded /\ memory' = Started(disk) /\ UNCHANGED <<history, faults>>
         \/ /\ ~memory.loaded /\ memory' = Started(Fresh) /\ Fault
            /\ history' = [history EXCEPT !.left = lost, !.counted = {}]
      /\ UNCHANGED <<inbox, read, disk>>
  BY DEF list, loadStateOnce, BridgeInvariant
<1> HIDE DEF lost
<1>0. /\ HistoryForm(history')
      /\ history'.woken = history.woken /\ history'.late = history.late
      /\ history'.dropped = history.dropped /\ history'.filed = history.filed
      /\ history'.counted = history.counted \/ history'.counted = {}
  BY <1>1 DEF Shape, HistoryForm
<1> DEFINE page == {m \in Listed : isNewerThan(m, memory'.mark)}
<1>2. tick' = [pc |-> "sweep", now |-> 0, page |-> page, session |-> None, via |-> None]
  BY DEF list, Idle
<1>3. /\ \A m \in page : m \in Unread /\ m \in inbox /\ m \in Msg /\ isNewerThan(m, memory'.mark)
           /\ Cardinality({n \in Unread : n < m}) < batchLimit
      /\ \A m \in Unread : isNewerThan(m, memory'.mark) /\ m \notin page
           => ~(Cardinality({n \in Unread : n < m}) < batchLimit)
  BY <1>1 DEF Listed, Unread, Mailed
<1> HIDE DEF page
<1>4. Shape'
  <2>1. tick' = [pc |-> tick'.pc, now |-> tick'.now, page |-> tick'.page,
                 session |-> tick'.session, via |-> tick'.via]
    BY <1>2
  <2>2. memory'.mark \in Marks /\ faults' \in Nat
    BY <1>1, FreshMark, FaultCounts, StartedForm DEF Shape
  <2>3. QED BY <1>0, <1>1, <2>1, <2>2, StartedForm DEF Shape
<1>5. tick'.page = page /\ tick'.pc = "sweep"
  BY <1>2
<1>6. Mailed'
  BY <1>1, <1>3, <1>5 DEF Mailed
<1>7. Unread' = Unread /\ \A m : Covered(m)' <=> Covered(m)
  BY <1>0, <1>1 DEF Unread, Covered, Outruns
<1>8. \A m \in Unread : isNewerThan(m, memory'.mark) \/ Covered(m)
  <2>1. CASE memory' = memory
    BY <1>1, <2>1 DEF MarksAreRight, PassedBy
  <2>2. CASE memory' = Started(disk)
    <3>1. memory'.mark = disk.mark
      BY <2>2, StartedForm
    <3>2. QED BY <1>1, <3>1 DEF MarksAreRight, PassedBy
  <2>3. CASE memory' = Started(Fresh)
    <3>1. memory'.mark = Fresh.mark
      BY <2>3, StartedForm
    <3>2. Unread \subseteq Msg
      BY <1>1 DEF Unread, Mailed
    <3>3. QED BY <3>1, <3>2, FreshMark
  <2>4. QED BY <1>1, <2>1, <2>2, <2>3
<1>9. MarksAreRight'
  <2>1. PassedBy(memory.mark, Unread)'
    BY <1>7, <1>8 DEF PassedBy, isNewerThan
  <2>2. PassedBy(disk.mark, Unread)'
    BY <1>1, <1>7 DEF MarksAreRight, PassedBy, isNewerThan
  <2>3. ASSUME page # {}, NEW n \in Unread', n \notin page
        PROVE  (\/ isNewerThan(n, Mark(Newest(tick.page))) \/ Covered(n)
                \/ Outruns(Newest(tick.page), n))'
    <3>1. PICK q \in page : q = Newest(tick.page)'
      BY <2>3, <1>6, <1>5, PageNewestNext
    <3>2. ASSUME NEW m \in Unread, m \notin page, ~Covered(m)
          PROVE  isNewerThan(m, Mark(q)) \/ Outruns(q, m)
      <4>1. m \in Msg /\ q \in Msg /\ m \in Nat /\ q \in Nat
        BY <1>1, <1>3, BridgeAssumption DEF Unread, Mailed
      <4>2. ~(Cardinality({l \in Unread : l < m}) < batchLimit)
            /\ Cardinality({l \in Unread : l < q}) < batchLimit
        BY <1>3, <1>8, <3>2
      <4>3. ASSUME m <= q PROVE FALSE
        <5>1. {l \in Unread : l < m} \subseteq {l \in Unread : l < q}
          <6>1. Unread \subseteq Nat
            BY <1>1, BridgeAssumption DEF Unread, Mailed
          <6>2. ASSUME NEW l \in Unread, l < m PROVE l < q
            BY <6>1, <6>2, <4>1, <4>3
          <6>3. QED BY <6>2
        <5>2. IsFiniteSet({l \in Unread : l < q})
          <6>1. IsFiniteSet(inbox) /\ {l \in Unread : l < q} \subseteq inbox
            BY <1>1 DEF Unread, Mailed
          <6>2. QED BY <6>1, FS_Subset
        <5>3. /\ IsFiniteSet({l \in Unread : l < m})
              /\ Cardinality({l \in Unread : l < m}) <= Cardinality({l \in Unread : l < q})
          BY <5>1, <5>2, FS_Subset
        <5>4. Cardinality({l \in Unread : l < m}) \in Nat
              /\ Cardinality({l \in Unread : l < q}) \in Nat /\ batchLimit \in Nat
          BY <5>2, <5>3, FS_CardinalityType, BridgeAssumption
        <5>5. QED BY <4>2, <5>3, <5>4
      <4>4. QED BY <4>1, <4>3, NewerIsAhead
    <3>3. n \in Unread /\ (isNewerThan(n, Mark(q)) \/ Covered(n)' \/ Outruns(q, n))
      BY <1>7, <2>3, <3>2
    <3>4. QED BY <3>1, <3>3 DEF isNewerThan, Mark, Outruns
  <2>4. QED BY <1>5, <2>1, <2>2, <2>3 DEF MarksAreRight
<1>10. Recorded'
  <2>1. memory'.loaded /\ Behind(history'.counted, memory'.mark)
    <3>1. CASE memory.loaded /\ memory' = memory
      BY <1>0, <1>1, <3>1 DEF Recorded, Behind
    <3>2. CASE ~memory.loaded /\ memory' = Started(disk) /\ history' = history
      BY <1>1, <3>2, StartedForm DEF Recorded
    <3>3. CASE memory' = Started(Fresh) /\ history'.counted = {}
      BY <3>3, StartedForm DEF Behind
    <3>4. history' = [history EXCEPT !.left = lost, !.counted = {}] => history'.counted = {}
      BY <1>1 DEF Shape, HistoryForm
    <3>5. QED BY <1>1, <3>1, <3>2, <3>3, <3>4
  <2>2. WakeForm' /\ history'.counted \subseteq history'.woken
        /\ history'.filed \subseteq history'.woken
    BY <1>0, <1>1, SameWakes DEF Recorded, BridgeInvariant
  <2>3. Behind(history'.filed, disk'.mark)
    BY <1>0, <1>1 DEF Recorded
  <2>4. \A m \in tick'.page : isNewerThan(m, memory'.mark)
    BY <1>3, <1>5
  <2>5. QED BY <2>1, <2>2, <2>3, <2>4 DEF Recorded, Behind, isNewerThan
<1>11. QED BY <1>4, <1>6, <1>9, <1>10 DEF BridgeInvariant

\* The mark is set behind a page that is now covered.
LEMMA MarkMoves ==
  ASSUME BridgeInvariant, Shape', Ticking, tick.page # {},
         UNCHANGED <<inbox, read, disk, faults>>,
         memory'.mark = Mark(Newest(tick.page)), memory'.loaded = memory.loaded,
         history.woken \subseteq history'.woken, history.dropped \subseteq history'.dropped,
         history.late \subseteq history'.late,
         tick'.page = tick.page, tick'.pc = "save",
         \A m \in tick.page : Covered(m)',
         \/ Newest(tick.page) \in history'.dropped
         \/ \E w \in history'.woken : w.id = Newest(tick.page),
         WakeForm', history'.counted \subseteq history'.woken, history'.filed = history.filed,
         \A w \in history'.counted : w \in history.counted \/ w.id = Newest(tick.page)
  PROVE  BridgeInvariant'
<1>1. Shape /\ Mailed /\ MarksAreRight /\ Recorded /\ Mailed' /\ Unread' = Unread
  BY DEF BridgeInvariant, Mailed, Unread
<1>2. PICK q \in tick.page : q = Newest(tick.page)
  BY <1>1, PageNewest
<1>3. q \in Msg
  BY <1>1, <1>2, PageNewest
<1>4. \A m \in Unread : isNewerThan(m, Mark(q)) \/ Covered(m)'
  <2>1. \A m : Outruns(q, m) => Covered(m)'
    BY <1>2 DEF Covered, Outruns
  <2>2. \A m \in Unread \ tick.page :
          isNewerThan(m, Mark(q)) \/ Covered(m) \/ Outruns(q, m)
    BY <1>1, <1>2 DEF MarksAreRight
  <2>3. \A m : Covered(m) => Covered(m)'
    BY DEF Covered, Outruns
  <2>4. QED BY <2>1, <2>2, <2>3
<1>5. MarksAreRight'
  <2>1. PassedBy(memory.mark, Unread)'
    BY <1>1, <1>2, <1>4 DEF PassedBy, isNewerThan
  <2>2. PassedBy(disk.mark, Unread)'
    <3>1. \A m \in Unread : isNewerThan(m, disk.mark) \/ Covered(m)'
      BY <1>1, CoverGrows DEF MarksAreRight
    <3>2. QED BY <1>1, <3>1 DEF PassedBy, isNewerThan
  <2>3. ASSUME NEW m \in Unread' \ tick'.page
        PROVE  (isNewerThan(m, Mark(Newest(tick.page))) \/ Covered(m))'
    <3>1. q = Newest(tick'.page)
      BY <1>2
    <3>2. QED BY <1>1, <1>4, <3>1 DEF isNewerThan, Mark, Newest
  <2>4. QED BY <2>1, <2>2, <2>3 DEF MarksAreRight
<1>6. Recorded'
  <2>1. memory.loaded /\ Behind(history.counted, memory.mark) /\ memory.mark \in Marks
        /\ isNewerThan(q, memory.mark)
    BY <1>1, <1>2 DEF Recorded, Ticking, Shape
  <2>2. ASSUME NEW w \in history'.counted PROVE ~isNewerThan(w.id, Mark(q))
    <3>1. CASE w \in history.counted
      <4>1. w.id \in Msg /\ ~isNewerThan(w.id, memory.mark)
        BY <1>1, <2>1, <3>1 DEF Recorded, WakeForm, Behind
      <4>2. QED BY <1>3, <2>1, <4>1, BehindStays
    <3>2. CASE w.id = q
      BY <1>3, <3>2, OwnMark
    <3>3. QED BY <1>2, <3>1, <3>2
  <2>3. Behind(history'.counted, memory'.mark)
    BY <1>2, <2>2 DEF Behind
  <2>4. Behind(history'.filed, disk'.mark) /\ history'.filed \subseteq history'.woken
    BY <1>1 DEF Recorded
  <2>5. ~Ticking' /\ memory'.loaded
    BY <2>1 DEF Ticking
  <2>6. QED BY <2>3, <2>4, <2>5 DEF Recorded, Behind, isNewerThan
<1>7. QED BY <1>1, <1>5, <1>6 DEF BridgeInvariant

\* The loop guard drops the page.
LEMMA DropKeeps == ASSUME BridgeInvariant, drop PROVE BridgeInvariant'
<1> DEFINE window == Window(topic, tick.now)
           hour == LastHour(tick.now)
           mark == Mark(Newest(tick.page))
<1>0. topic = topic /\ mark = mark
  OBVIOUS
<1> HIDE DEF window, hour, mark
<1>1. /\ Shape /\ Mailed /\ tick.pc = "gate" /\ tick.page # {}
      /\ memory' = [memory EXCEPT !.mark = mark, !.threads[topic] = window, !.wakeTimes = hour]
      /\ history' = [history EXCEPT !.dropped = history.dropped \cup tick.page]
      /\ tick' = [tick EXCEPT !.pc = "save"]
      /\ UNCHANGED <<inbox, read, disk, faults>>
  BY DEF drop, Deciding, BridgeInvariant, window, hour, mark
<1>2. /\ memory' = [mark |-> memory'.mark, lastNotifyAt |-> memory'.lastNotifyAt,
                    threads |-> memory'.threads, wakeTimes |-> memory'.wakeTimes,
                    pool |-> memory'.pool, routes |-> memory'.routes,
                    dead |-> memory'.dead, loaded |-> memory'.loaded]
      /\ memory'.mark = mark /\ memory'.loaded = memory.loaded
  BY <1>1 DEF Shape
<1>3. /\ HistoryForm(history')
      /\ history'.woken = history.woken /\ history'.late = history.late
      /\ history'.counted = history.counted /\ history'.filed = history.filed
      /\ history'.dropped = history.dropped \cup tick.page
  BY <1>1 DEF Shape, HistoryForm
<1>4. mark \in Marks
  BY <1>1, PageNewest, MarkType DEF mark
<1>5. Shape' /\ tick'.pc = "save" /\ tick'.page = tick.page
  BY <1>1, <1>2, <1>3, <1>4, TickGoesOn DEF Shape
<1>6. \A m \in tick.page : Covered(m)'
  BY <1>3 DEF Covered
<1>7. /\ Newest(tick.page) \in history'.dropped
      /\ WakeForm' /\ history'.counted \subseteq history'.woken
  BY <1>1, <1>3, PageNewest, SameWakes DEF BridgeInvariant, Recorded
<1>8. QED BY <1>1, <1>2, <1>3, <1>5, <1>6, <1>7, MarkMoves DEF Ticking, mark

\* The host takes the prompt.
LEMMA PromptedKeeps == ASSUME BridgeInvariant, prompted PROVE BridgeInvariant'
<1> DEFINE mark == Mark(Newest(tick.page))
           wake == Wake
           counted == recordWake(topic, tick.now)
           started == IF Window(topic, tick.now) = None
                      THEN [wakes |-> 0, windowStart |-> tick.now] ELSE Window(topic, tick.now)
           count == [wakes |-> started.wakes + 1, windowStart |-> started.windowStart,
                     lastAt |-> tick.now]
           hour == Append(LastHour(tick.now), tick.now)
<1>1. /\ Shape /\ Mailed /\ tick.pc = "prompt" /\ tick.page # {}
      /\ wake.page = tick.page /\ wake.id = Newest(tick.page)
      /\ history' = [history EXCEPT !.woken = history.woken \cup {wake},
                                    !.counted = history.counted \cup {wake}]
      /\ tick' = [tick EXCEPT !.pc = "save"]
      /\ UNCHANGED <<inbox, read, disk, faults>>
  BY DEF prompted, Counted, Wake, BridgeInvariant, Mailed
<1>2. /\ counted = [memory EXCEPT !.threads[topic] = count, !.wakeTimes = hour]
      /\ memory' = [counted EXCEPT !.mark = mark, !.lastNotifyAt = tick.now]
  BY DEF prompted, recordWake
<1>3. mark \in Marks
  BY <1>1, PageNewest, MarkType
<1> HIDE DEF mark, wake, counted, started, count, hour
<1>4. /\ memory' = [mark |-> memory'.mark, lastNotifyAt |-> memory'.lastNotifyAt,
                    threads |-> memory'.threads, wakeTimes |-> memory'.wakeTimes,
                    pool |-> memory'.pool, routes |-> memory'.routes,
                    dead |-> memory'.dead, loaded |-> memory'.loaded]
      /\ memory'.mark = mark /\ memory'.loaded = memory.loaded
  <2>1. counted = [mark |-> memory.mark, lastNotifyAt |-> memory.lastNotifyAt,
                   threads |-> counted.threads, wakeTimes |-> hour,
                   pool |-> memory.pool, routes |-> memory.routes,
                   dead |-> memory.dead, loaded |-> memory.loaded]
    BY <1>1, <1>2 DEF Shape
  <2>2. QED BY <1>2, <2>1
<1>5. /\ HistoryForm(history')
      /\ history'.woken = history.woken \cup {wake} /\ history'.late = history.late
      /\ history'.counted = history.counted \cup {wake} /\ history'.filed = history.filed
      /\ history'.dropped = history.dropped
  BY <1>1 DEF Shape, HistoryForm
<1>6. Shape' /\ tick'.pc = "save" /\ tick'.page = tick.page
  BY <1>1, <1>3, <1>4, <1>5, TickGoesOn DEF Shape
<1>7. \A m \in tick.page : Covered(m)'
  BY <1>1, <1>5 DEF Covered
<1>8. WakeForm'
  BY <1>1, <1>5, WakeHasForm DEF wake
<1>9. /\ history'.counted \subseteq history'.woken
      /\ \A w \in history'.counted : w \in history.counted \/ w.id = Newest(tick.page)
      /\ \E w \in history'.woken : w.id = Newest(tick.page)
  BY <1>1, <1>5 DEF BridgeInvariant, Recorded
<1>10. QED BY <1>1, <1>4, <1>5, <1>6, <1>7, <1>8, <1>9, MarkMoves DEF Ticking, mark

\* A message arrives: behind a mark it is late.
LEMMA ArriveKeeps == ASSUME BridgeInvariant, NEW m \in Msg, arrive(m) PROVE BridgeInvariant'
<1> DEFINE behind == \/ ~isNewerThan(m, memory.mark) \/ ~isNewerThan(m, disk.mark)
                     \/ tick.page # {} /\ ~isNewerThan(m, Mark(Newest(tick.page)))
           late == {n \in {m} : \/ ~isNewerThan(n, memory.mark) \/ ~isNewerThan(n, disk.mark)
                                \/ tick.page # {} /\ ~isNewerThan(n, Mark(Newest(tick.page)))}
<1>1. /\ Shape /\ Mailed /\ MarksAreRight /\ Recorded /\ (Fault \/ UNCHANGED faults)
      /\ inbox' = inbox \cup {m}
      /\ history' = [history EXCEPT !.late = history.late \cup late]
      /\ UNCHANGED <<read, memory, disk, tick>>
  BY DEF arrive, BridgeInvariant
<1>2. behind => m \in late
  OBVIOUS
<1> HIDE DEF late
<1>3. /\ HistoryForm(history')
      /\ history'.woken = history.woken /\ history'.late = history.late \cup late
      /\ history'.counted = history.counted /\ history'.filed = history.filed
      /\ history'.dropped = history.dropped
  BY <1>1 DEF Shape, HistoryForm
<1>4. Shape'
  BY <1>1, <1>3, FaultCounts DEF Shape
<1>5. Mailed'
  <2>1. IsFiniteSet(inbox')
    BY <1>1, FS_AddElement DEF Mailed
  <2>2. \E k \in Nat : \A n \in inbox' : n <= k
    <3>1. PICK k \in Nat : \A n \in inbox : n <= k
      BY <1>1 DEF Mailed
    <3>2. m \in Nat /\ inbox \subseteq Nat
      BY <1>1, BridgeAssumption DEF Mailed
    <3>3. k + m \in Nat /\ \A n \in inbox' : n <= k + m
      BY <1>1, <3>1, <3>2
    <3>4. QED BY <3>3
  <2>3. QED BY <1>1, <2>1, <2>2 DEF Mailed
<1>6. Unread' \subseteq Unread \cup {m}
  BY <1>1 DEF Unread
<1>7. behind => Covered(m)'
  BY <1>2, <1>3 DEF Covered
<1>8. MarksAreRight'
  <2>1. PassedBy(memory.mark, Unread)'
    <3>1. \A n \in Unread : isNewerThan(n, memory.mark) \/ Covered(n)'
      BY <1>1, <1>3, CoverGrows DEF MarksAreRight
    <3>2. QED BY <1>1, <1>6, <1>7, <3>1 DEF PassedBy, isNewerThan
  <2>2. PassedBy(disk.mark, Unread)'
    <3>1. \A n \in Unread : isNewerThan(n, disk.mark) \/ Covered(n)'
      BY <1>1, <1>3, CoverGrows DEF MarksAreRight
    <3>2. QED BY <1>1, <1>6, <1>7, <3>1 DEF PassedBy, isNewerThan
  <2>3. ASSUME tick'.page # {}, NEW n \in Unread' \ tick'.page
        PROVE  (\/ isNewerThan(n, Mark(Newest(tick.page))) \/ Covered(n)
                \/ Outruns(Newest(tick.page), n))'
    <3>1. tick.page # {} /\ Covered(n) => Covered(n)'
      BY <1>1, <1>3, <2>3 DEF Covered, Outruns
    <3>2. \/ isNewerThan(n, Mark(Newest(tick.page))) \/ Covered(n)'
          \/ Outruns(Newest(tick.page), n)
      <4>1. CASE n = m
        BY <1>1, <1>7, <2>3, <4>1
      <4>2. CASE n \in Unread \ tick.page
        BY <1>1, <2>3, <3>1, <4>2 DEF MarksAreRight
      <4>3. QED BY <1>1, <1>6, <2>3, <4>1, <4>2
    <3>3. QED BY <1>1, <3>2 DEF isNewerThan, Mark, Newest, Outruns
  <2>4. QED BY <2>1, <2>2, <2>3 DEF MarksAreRight
<1>9. Recorded'
  <2>1. WakeForm'
    BY <1>3, SameWakes
  <2>2. QED BY <1>1, <1>3, <2>1 DEF Recorded, Behind, Ticking, isNewerThan
<1>10. QED BY <1>4, <1>5, <1>8, <1>9 DEF BridgeInvariant

\* The host ends: the mark in memory is that of a bridge that starts.
LEMMA EndedForm ==
  /\ Ended = [mark |-> Ended.mark, lastNotifyAt |-> Ended.lastNotifyAt,
              threads |-> Ended.threads, wakeTimes |-> Ended.wakeTimes,
              pool |-> Ended.pool, routes |-> Ended.routes,
              dead |-> Ended.dead, loaded |-> Ended.loaded]
  /\ Ended.mark = Fresh.mark /\ Ended.loaded = FALSE
<1> DEFINE started == Started(Fresh)
<1>1. /\ started = [mark |-> started.mark, lastNotifyAt |-> started.lastNotifyAt,
                    threads |-> started.threads, wakeTimes |-> started.wakeTimes,
                    pool |-> started.pool, routes |-> started.routes,
                    dead |-> started.dead, loaded |-> started.loaded]
      /\ started.mark = Fresh.mark
  BY DEF Started
<1>2. Ended = [started EXCEPT !.loaded = FALSE]
  BY DEF Ended
<1> HIDE DEF started
<1>3. QED BY <1>1, <1>2

\* The host ends and is started again.
LEMMA CrashKeeps == ASSUME BridgeInvariant, Crash PROVE BridgeInvariant'
<1> DEFINE left == sessions.opened \ {disk.pool[k].session : k \in Topic}
<1> HIDE DEF left
<1>1. /\ Shape /\ Mailed /\ MarksAreRight /\ Recorded /\ Fault
      /\ memory' = Ended /\ tick' = Idle
      /\ history' = [history EXCEPT !.left = history.left \cup left,
                       !.counted = history.filed, !.asker = NoAsker, !.used = Unused]
      /\ UNCHANGED <<inbox, read, disk>>
  BY DEF Crash, BridgeInvariant, left
<1>2. /\ HistoryForm(history')
      /\ history'.woken = history.woken /\ history'.late = history.late
      /\ history'.counted = history.filed /\ history'.filed = history.filed
      /\ history'.dropped = history.dropped
  BY <1>1 DEF Shape, HistoryForm
<1>3. memory'.mark = Fresh.mark /\ ~memory'.loaded /\ tick'.page = {} /\ tick'.pc = "idle"
  BY <1>1, EndedForm, TickEnds
<1>4. Shape'
  BY <1>1, <1>2, EndedForm, TickEnds, FreshMark, FaultCounts DEF Shape
<1>5. Mailed'
  BY <1>1, <1>3 DEF Mailed
<1>6. Unread' = Unread /\ Unread \subseteq Msg /\ \A m : Covered(m)' <=> Covered(m)
  BY <1>1, <1>2 DEF Unread, Mailed, Covered, Outruns
<1>7. MarksAreRight'
  <2>1. PassedBy(memory.mark, Unread)'
    BY <1>3, <1>6, FreshMark DEF PassedBy, isNewerThan
  <2>2. PassedBy(disk.mark, Unread)'
    BY <1>1, <1>6 DEF MarksAreRight, PassedBy, isNewerThan
  <2>3. QED BY <1>3, <2>1, <2>2 DEF MarksAreRight
<1>8. Recorded'
  <2>1. WakeForm'
    BY <1>2, SameWakes
  <2>2. QED BY <1>1, <1>2, <1>3, <2>1 DEF Recorded, Behind, Ticking, isNewerThan
<1>9. QED BY <1>4, <1>5, <1>7, <1>8 DEF BridgeInvariant

-----------------------------------------------------------------------------
(* The invariant, and what it says.                                        *)

\* A bridge that has not started has passed nothing.
LEMMA InitGives == Init => BridgeInvariant
<1> SUFFICES ASSUME Init PROVE BridgeInvariant
  OBVIOUS
<1>1. Shape
  BY EndedForm, FreshMark DEF Init, Shape, Idle, HistoryForm
<1>2. Mailed
  BY FS_EmptySet DEF Init, Mailed, Idle
<1>3. MarksAreRight
  BY DEF Init, MarksAreRight, PassedBy, Unread, Idle
<1>4. Recorded
  BY EndedForm DEF Init, Recorded, WakeForm, Behind, Ticking, Idle
<1>5. QED BY <1>1, <1>2, <1>3, <1>4 DEF BridgeInvariant

\* A step of anyone keeps the invariant.
LEMMA StepKeeps == BridgeInvariant /\ [Next]_vars => BridgeInvariant'
<1> SUFFICES ASSUME BridgeInvariant, [Next]_vars PROVE BridgeInvariant'
  OBVIOUS
<1>1. CASE list BY <1>1, ListKeeps
<1>2. CASE sweep BY <1>2, SweepKeeps
<1>3. CASE hold BY <1>3, HoldKeeps
<1>4. CASE drop BY <1>4, DropKeeps
<1>5. CASE reuse BY <1>5, ReuseKeeps
<1>6. CASE retire BY <1>6, RetireKeeps
<1>7. CASE openFails BY <1>7, OpenFailsKeeps
<1>8. CASE prompted BY <1>8, PromptedKeeps
<1>9. CASE promptNotFound BY <1>9, NotFoundKeeps
<1>10. CASE promptFails BY <1>10, FailsKeeps
<1>11. CASE save BY <1>11, SaveKeeps
<1>12. CASE Crash BY <1>12, CrashKeeps
<1>13. CASE pass BY <1>13, PassKeeps
<1>14. CASE \E t \in Thread : route(t) BY <1>14, RouteKeeps
<1>15. CASE \E s \in Opened : openSession(s) BY <1>15, OpenKeeps
<1>16. CASE \E m \in Msg : arrive(m) BY <1>16, ArriveKeeps
<1>17. CASE \E m \in Msg : markRead(m) BY <1>17, ReadKeeps
<1>18. CASE \E x \in Sends : recordOutbound(x) BY <1>18, OutboundKeeps
<1>19. CASE \E s \in Local \cup Opened : vanish(s) BY <1>19, VanishKeeps
<1>20. CASE UNCHANGED vars
  <2>1. Shape /\ UNCHANGED <<inbox, read, memory, disk, tick, history, faults>>
    BY <1>20 DEF vars, BridgeInvariant
  <2>2. Shape'
    BY <2>1 DEF Shape
  <2>3. QED BY <2>1, <2>2, QuietStep, SameWakes DEF Ticking, BridgeInvariant, Mailed
<1>21. QED BY <1>1, <1>2, <1>3, <1>4, <1>5, <1>6, <1>7, <1>8, <1>9, <1>10, <1>11, <1>12,
              <1>13, <1>14, <1>15, <1>16, <1>17, <1>18, <1>19, <1>20 DEF Next

\* The invariant holds whatever fails and in whatever order the steps are taken.
LEMMA BridgeInvariantHolds == Spec => []BridgeInvariant
BY InitGives, StepKeeps, PTL DEF Spec

\* What is done to other fields leaves the wakes.
LEMMA WakesStay ==
  ASSUME HistoryForm(history), NEW x, NEW y, NEW z,
         \/ history' = [history EXCEPT !.left = x]
         \/ history' = [history EXCEPT !.left = x, !.counted = y]
         \/ history' = [history EXCEPT !.left = x, !.counted = history.filed,
                          !.asker = NoAsker, !.used = Unused]
         \/ history' = [history EXCEPT !.dropped = x]
         \/ history' = [history EXCEPT !.filed = x]
         \/ history' = [history EXCEPT !.late = x]
         \/ \E t \in Thread : history' = [history EXCEPT !.used[t] = x]
         \/ \E t \in Thread :
              history' = [history EXCEPT !.asker[t] = x, !.used[t] = y, !.sent = z]
  PROVE  history'.woken = history.woken
BY DEF HistoryForm

\* Only a prompt wakes anybody.
LEMMA OnlyPromptsWake ==
  ASSUME Shape, [Next]_vars, NEW w \in history'.woken \ history.woken
  PROVE  tick.pc = "prompt" /\ w = Wake
<1>0. HistoryForm(history)
  BY DEF Shape
<1>1. CASE prompted \/ promptFails
  <2> DEFINE wake == Wake
  <2> HIDE DEF wake
  <2>1. \/ history' = [history EXCEPT !.woken = history.woken \cup {wake}]
        \/ history' = [history EXCEPT !.woken = history.woken \cup {wake},
                                      !.counted = history.counted \cup {wake}]
    BY <1>1 DEF prompted, promptFails, Woken, Counted, wake
  <2>2. w = wake
    BY <1>0, <2>1 DEF HistoryForm
  <2>3. QED BY <1>1, <2>2 DEF prompted, promptFails, wake
<1>2. CASE list
  <2> DEFINE lost == history.left \cup {disk.pool[k].session : k \in Known(disk.pool)}
  <2>1. history' = history \/ history' = [history EXCEPT !.left = lost, !.counted = {}]
    BY <1>2 DEF list, loadStateOnce
  <2> HIDE DEF lost
  <2>2. QED BY <1>0, <2>1, WakesStay
<1>3. CASE sweep \/ retire
  <2>1. PICK S, D : archive(S, D)
    BY <1>3 DEF sweep, retire
  <2> DEFINE left == history.left \cup (S \ D)
  <2>2. history' = [history EXCEPT !.left = left]
    BY <2>1 DEF archive
  <2> HIDE DEF left
  <2>3. QED BY <1>0, <2>2, WakesStay
<1>4. CASE drop
  <2>1. history' = [history EXCEPT !.dropped = history.dropped \cup tick.page]
    BY <1>4 DEF drop
  <2>2. QED BY <1>0, <2>1, WakesStay
<1>5. CASE save
  <2>1. history' = [history EXCEPT !.filed = history.counted]
    BY <1>5 DEF save
  <2>2. QED BY <1>0, <2>1, WakesStay
<1>6. CASE Crash
  <2> DEFINE left == history.left \cup
                       (sessions.opened \ {disk.pool[k].session : k \in Topic})
  <2>1. history' = [history EXCEPT !.left = left, !.counted = history.filed,
                     !.asker = NoAsker, !.used = Unused]
    BY <1>6 DEF Crash
  <2> HIDE DEF left
  <2>2. QED BY <1>0, <2>1, WakesStay
<1>7. CASE \E t \in Thread : route(t)
  <2>1. \E t \in Thread : history' = [history EXCEPT !.used[t] = tick.now]
    BY <1>7 DEF route
  <2>2. QED BY <1>0, <2>1, WakesStay
<1>8. CASE \E m \in Msg : arrive(m)
  <2>1. PICK m \in Msg : arrive(m)
    BY <1>8
  <2> DEFINE late == history.late \cup
       {n \in {m} : \/ ~isNewerThan(m, memory.mark) \/ ~isNewerThan(m, disk.mark)
                    \/ tick.page # {} /\ ~isNewerThan(m, Mark(Newest(tick.page)))}
  <2>2. history' = [history EXCEPT !.late = late]
    BY <2>1 DEF arrive
  <2> HIDE DEF late
  <2>3. QED BY <1>0, <2>2, WakesStay
<1>9. CASE \E x \in Sends : recordOutbound(x)
  <2>1. PICK x \in Sends : recordOutbound(x)
    BY <1>9
  <2>2. x.thread \in Thread /\
        history' = [history EXCEPT !.asker[x.thread] = x.session, !.used[x.thread] = clock,
                                   !.sent = history.sent \cup {x}]
    BY <2>1, KeysAssumption DEF recordOutbound
  <2> DEFINE sent == history.sent \cup {x}
  <2>3. \E t \in Thread :
          history' = [history EXCEPT !.asker[t] = x.session, !.used[t] = clock, !.sent = sent]
    BY <2>2
  <2> HIDE DEF sent
  <2>4. QED BY <1>0, <2>3, WakesStay
<1>10. CASE UNCHANGED history
  BY <1>10
<1>11. CASE hold \/ reuse \/ openFails \/ promptNotFound \/ pass
  BY <1>10, <1>11 DEF hold, reuse, openFails, promptNotFound, pass
<1>12. CASE \/ \E s \in Opened : openSession(s)
            \/ \E m \in Msg : markRead(m)
            \/ \E s \in Local \cup Opened : vanish(s)
  BY <1>10, <1>12 DEF openSession, markRead, vanish
<1>13. CASE UNCHANGED vars
  BY <1>10, <1>13 DEF vars
<1>14. QED BY <1>1, <1>2, <1>3, <1>4, <1>5, <1>6, <1>7, <1>8, <1>9, <1>11, <1>12, <1>13 DEF Next

\* No message is passed over in silence: what the watermark of the bridge has
\* passed was given to a conversation, was dropped by the loop guard, arrived late, or
\* was outrun by a message that sorts before it and is younger.
THEOREM NothingIsSkipped == Spec => []NothingSkipped
<1>1. BridgeInvariant => NothingSkipped
  <2> SUFFICES ASSUME BridgeInvariant, NEW m \in Unread, ~isNewerThan(m, memory.mark)
               PROVE  \/ m \in history.dropped \cup history.late
                      \/ \E w \in history.woken : m \in w.page
                      \/ Overtaken(m)
    BY DEF NothingSkipped
  <2>1. Covered(m)
    BY DEF BridgeInvariant, MarksAreRight, PassedBy
  <2>2. QED BY <2>1 DEF Covered, Outruns, Overtaken
<1>2. QED BY <1>1, BridgeInvariantHolds, PTL

\* No wake repeats a message of a wake on record, also one that nobody marks read and
\* whatever fails, but for one younger than the message its page ended with.
THEOREM WokenOnlyOnce == Spec => WokenOnce
<1>1. ASSUME BridgeInvariant, [Next]_vars, NEW w \in history'.woken \ history.woken,
             NEW v \in history.counted, NEW m \in v.page \cap w.page
      PROVE  mail[v.id].ts < mail[m].ts
  <2>0. Shape /\ Mailed /\ Recorded
    BY <1>1 DEF BridgeInvariant
  <2>1. tick.pc = "prompt" /\ w = Wake
    BY <1>1, <2>0, OnlyPromptsWake
  <2>2. tick.page # {} /\ w.page = tick.page
    BY <2>0, <2>1 DEF Mailed, Wake
  <2>3. m \in Msg /\ isNewerThan(m, memory.mark) /\ memory.loaded
    BY <1>1, <2>0, <2>1, <2>2, PageNewest DEF Recorded, Ticking
  <2>4. v.id \in Msg /\ m <= v.id /\ ~isNewerThan(v.id, memory.mark)
    BY <1>1, <2>0, <2>3 DEF Recorded, WakeForm, Behind
  <2>5. memory.mark \in Marks
    BY <2>0 DEF Shape
  <2>6. QED BY <2>3, <2>4, <2>5, YoungerThanMark
<1>2. BridgeInvariant /\ [Next]_vars =>
        [\A w \in history'.woken \ history.woken, v \in history.counted :
           \A m \in v.page \cap w.page : mail[v.id].ts < mail[m].ts]_vars
  BY <1>1
<1>3. QED BY <1>2, BridgeInvariantHolds, PTL DEF Spec, WokenOnce

-----------------------------------------------------------------------------
(* The sessions: what becomes of those the bridge opens.                   *)

TickPc == {"idle", "sweep", "gate", "open", "prompt", "save"}

Time == 0 .. MaxTime

PoolOK(pool) == pool \in [Topic -> Entry(Opened, Time) \cup {NoEntry}]

\* Archived, gone, or left open knowingly.
Settled == sessions.archived \cup sessions.gone \cup history.left

\* The sessions a pool has given up are settled.
RetiredSettled(pool) == \A k \in Known(pool) : pool[k].archived => pool[k].session \in Settled

SessionsOf(pool) == {pool[k].session : k \in Known(pool)}

\* What the variables hold, and where the clocks stand.
PoolTypeOK ==
  /\ clock \in Time /\ faults \in 0 .. MaxFaults /\ read \subseteq inbox
  /\ tick.pc \in TickPc /\ tick.now \in 0 .. clock
  /\ tick.pc \in {"gate", "open"} => tick.now = clock
  /\ tick.pc # "idle" => memory.loaded
  /\ PoolOK(memory.pool) /\ PoolOK(disk.pool)
  /\ sessions = [opened |-> sessions.opened, archived |-> sessions.archived,
                 gone |-> sessions.gone]

\* The bridge archives and remembers only what it has opened.
Ownership ==
  /\ SessionsOf(memory.pool) \cup SessionsOf(disk.pool) \subseteq sessions.opened
  /\ sessions.archived \subseteq sessions.opened /\ sessions.opened \subseteq Opened
  /\ memory.dead \subseteq sessions.gone

\* The inductive form of SessionsAccounted: a topic gives its session up only when that
\* is settled.
Accounted ==
  /\ RetiredSettled(memory.pool) /\ RetiredSettled(disk.pool)
  /\ tick.pc = "open" /\ memory.pool[topic] # NoEntry => memory.pool[topic].session \in Settled
  /\ SessionsAccounted

\* The inductive form of RetiredStaysRetired: no two topics share a session, and one that
\* has been archived and not been replaced is still used up.
NoRevival ==
  /\ ~memory.loaded => disk.pool = Fresh.pool
  /\ \A j, k \in Known(memory.pool) : memory.pool[j].session = memory.pool[k].session => j = k
  /\ \A k \in Known(memory.pool) :
       ~memory.pool[k].archived /\ memory.pool[k].session \in sessions.archived =>
         Spent(memory.pool[k], clock)
  /\ RetiredStaysRetired

PoolInvariant == PoolTypeOK /\ Ownership /\ Accounted /\ (faults = 0 => NoRevival)

\* An entry is not the absence of one.
LEMMA EntryIsKnown ==
  ASSUME NEW e \in Entry(Opened, Time)
  PROVE  e # NoEntry /\ e.session \in Opened
<1>1. e.session \in Opened
  BY DEF Entry
<1>2. NoEntry.session = None
  BY DEF NoEntry
<1>3. QED BY <1>1, <1>2, KeysAssumption

\* The entries of a pool.
LEMMA KnownEntry ==
  ASSUME NEW pool, PoolOK(pool)
  PROVE  /\ \A k \in Topic : k \in Known(pool) <=> pool[k] # NoEntry
         /\ \A k \in Known(pool) : k \in Topic /\ pool[k] \in Entry(Opened, Time)
         /\ \A k \in Topic : pool[k] \in Entry(Opened, Time) => k \in Known(pool)
BY EntryIsKnown DEF Known, PoolOK

\* What a sweep leaves of a pool, and what it archives.
LEMMA SweepOfPool ==
  ASSUME NEW pool, PoolOK(pool), NEW now \in Time, NEW s \in sweepPool(pool, now)
  PROVE  /\ PoolOK(s.pool)
         /\ \A k \in Known(s.pool) : /\ k \in Known(pool) /\ s.pool[k].session = pool[k].session
                                     /\ s.pool[k].archived => pool[k].archived \/ pool[k].session \in s.archive
                                     /\ ~s.pool[k].archived => s.pool[k] = pool[k]
         /\ \A k \in Known(pool) : ~pool[k].archived =>
              pool[k].session \in s.archive \/ (k \in Known(s.pool) /\ s.pool[k] = pool[k])
         /\ \A x \in s.archive : \E j \in Known(pool) :
              x = pool[j].session /\ (j \in Known(s.pool) => s.pool[j].archived)
<1> DEFINE retired == Retired(pool, now)
           rest == Without(retired, Forgotten(retired, now))
<1>1. PICK D \in Evictions(rest, now) :
        s = [pool |-> Without(rest, D),
             archive |-> {pool[k].session : k \in Quiet(pool, now)} \cup {rest[k].session : k \in D}]
  BY DEF sweepPool
<1>2. D \subseteq Known(rest)
  BY <1>1 DEF Evictions
<1>3. \A k \in Topic : pool[k] \in Entry(Opened, Time) \cup {NoEntry}
  BY DEF PoolOK
<1>4. \A k \in Quiet(pool, now) : k \in Known(pool) /\ k \in Topic /\ pool[k] \in Entry(Opened, Time)
  BY <1>3 DEF Quiet, Known
<1>5. retired \in [Topic -> Entry(Opened, Time) \cup {NoEntry}]
  <2>1. ASSUME NEW k \in Quiet(pool, now)
        PROVE  [pool[k] EXCEPT !.archived = TRUE, !.archivedAt = now] \in Entry(Opened, Time)
    BY <1>4 DEF Entry
  <2>2. QED BY <1>3, <2>1 DEF Retired
<1>6. \A k \in Topic : /\ k \notin Quiet(pool, now) => retired[k] = pool[k]
                       /\ k \in Quiet(pool, now) =>
                            /\ retired[k] = [pool[k] EXCEPT !.archived = TRUE, !.archivedAt = now]
                            /\ retired[k].session = pool[k].session /\ retired[k].archived
                            /\ retired[k] # NoEntry
  <2>1. ASSUME NEW k \in Quiet(pool, now)
        PROVE  /\ [pool[k] EXCEPT !.archived = TRUE, !.archivedAt = now] \in Entry(Opened, Time)
               /\ [pool[k] EXCEPT !.archived = TRUE, !.archivedAt = now].session = pool[k].session
               /\ [pool[k] EXCEPT !.archived = TRUE, !.archivedAt = now].archived
    BY <1>4 DEF Entry
  <2>2. QED BY <2>1, EntryIsKnown DEF Retired
<1> HIDE DEF retired
<1>7. \A k \in Topic : rest[k] = NoEntry \/ rest[k] = retired[k]
  BY DEF Without
<1>8. \A k \in Topic : ~retired[k].archived /\ retired[k] # NoEntry => rest[k] = retired[k]
  BY DEF Without, Forgotten
<1>9. rest \in [Topic -> Entry(Opened, Time) \cup {NoEntry}]
  BY <1>5 DEF Without
<1> HIDE DEF rest
<1>10. /\ s.pool = Without(rest, D)
       /\ s.archive = {pool[k].session : k \in Quiet(pool, now)} \cup {rest[k].session : k \in D}
  BY <1>1
<1>11. \A k \in Topic : s.pool[k] = IF k \in D THEN NoEntry ELSE rest[k]
  BY <1>10 DEF Without
<1>12. PoolOK(s.pool)
  BY <1>9, <1>10 DEF Without, PoolOK
<1>13. ASSUME NEW k \in Known(s.pool)
       PROVE  /\ k \in Known(pool) /\ s.pool[k].session = pool[k].session
              /\ s.pool[k].archived => pool[k].archived \/ pool[k].session \in s.archive
              /\ ~s.pool[k].archived => s.pool[k] = pool[k]
  <2>1. k \in Topic /\ s.pool[k] = retired[k] /\ retired[k] # NoEntry
    BY <1>7, <1>11, <1>13 DEF Known
  <2>2. QED BY <1>4, <1>6, <1>10, <2>1 DEF Known
<1>14. ASSUME NEW k \in Known(pool), ~pool[k].archived
       PROVE  pool[k].session \in s.archive \/ (k \in Known(s.pool) /\ s.pool[k] = pool[k])
  <2>1. CASE k \in Quiet(pool, now)
    BY <1>10, <2>1
  <2>2. CASE k \notin Quiet(pool, now)
    <3>1. k \in Topic /\ rest[k] = pool[k] /\ pool[k] # NoEntry
      BY <1>6, <1>8, <1>14, <2>2 DEF Known
    <3>2. QED BY <1>10, <1>11, <3>1 DEF Known
  <2>3. QED BY <2>1, <2>2
<1>15. ASSUME NEW x \in s.archive
       PROVE  \E j \in Known(pool) :
                x = pool[j].session /\ (j \in Known(s.pool) => s.pool[j].archived)
  <2>1. CASE \E k \in Quiet(pool, now) : x = pool[k].session
    <3>1. PICK k \in Quiet(pool, now) : x = pool[k].session
      BY <2>1
    <3>2. k \in Known(s.pool) => s.pool[k].archived
      BY <1>4, <1>6, <1>7, <1>11, <3>1 DEF Known
    <3>3. QED BY <1>4, <3>1, <3>2
  <2>2. CASE \E k \in D : x = rest[k].session
    <3>1. PICK k \in D : x = rest[k].session
      BY <2>2
    <3>2. k \in Topic /\ rest[k] # NoEntry /\ rest[k] = retired[k]
      BY <1>2, <1>7 DEF Known
    <3>3. rest[k].session = pool[k].session /\ k \in Known(pool)
      BY <1>4, <1>6, <3>2 DEF Known
    <3>4. k \notin Known(s.pool)
      BY <1>11, <3>1, <3>2 DEF Known
    <3>5. QED BY <3>1, <3>3, <3>4
  <2>3. QED BY <1>10, <2>1, <2>2
<1>16. QED BY <1>12, <1>13, <1>14, <1>15

\* What is written to the state file of a pool.
LEMMA SummaryOfPool ==
  ASSUME NEW pool, PoolOK(pool)
  PROVE  /\ PoolOK(poolSummary(pool)) /\ Known(poolSummary(pool)) = Known(pool)
         /\ \A k \in Known(pool) : /\ poolSummary(pool)[k].session = pool[k].session
                                   /\ poolSummary(pool)[k].archived = pool[k].archived
<1>1. ASSUME NEW k \in Known(pool)
      PROVE  LET e == [pool[k] EXCEPT !.archivedAt = None] IN
             /\ e \in Entry(Opened, Time) /\ e # NoEntry
             /\ e.session = pool[k].session /\ e.archived = pool[k].archived
  <2> DEFINE e == [pool[k] EXCEPT !.archivedAt = None]
  <2>1. pool[k] \in Entry(Opened, Time)
    BY KnownEntry
  <2>2. e \in Entry(Opened, Time) /\ e.session = pool[k].session /\ e.archived = pool[k].archived
    BY <2>1 DEF Entry
  <2>3. QED BY <2>2, EntryIsKnown
<1>2. \A k \in Topic : /\ k \in Known(pool) => poolSummary(pool)[k] = [pool[k] EXCEPT !.archivedAt = None]
                       /\ k \notin Known(pool) => poolSummary(pool)[k] = NoEntry
  BY DEF poolSummary, Known
<1>3. Known(pool) \subseteq Topic
  BY DEF Known
<1>4. poolSummary(pool) = [k \in Topic |-> poolSummary(pool)[k]]
  BY DEF poolSummary
<1>5. PoolOK(poolSummary(pool))
  BY <1>1, <1>2, <1>4 DEF PoolOK
<1>6. Known(poolSummary(pool)) = Known(pool)
  <2>1. ASSUME NEW k \in Topic PROVE poolSummary(pool)[k] = NoEntry <=> pool[k] = NoEntry
    BY <1>1, <1>2 DEF Known
  <2>2. QED BY <2>1 DEF Known
<1>7. QED BY <1>1, <1>2, <1>3, <1>5, <1>6

\* What is used up stays so.
LEMMA SpentStays ==
  ASSUME NEW e \in Entry(Opened, Time), NEW s \in Nat, NEW t \in Nat, s <= t, Spent(e, s)
  PROVE  Spent(e, t)
<1>1. e.used \in Int /\ e.created \in Int /\ topicIdleReset \in Nat /\ maxSessionAge \in Nat
  BY BridgeAssumption, PolicyAssumption DEF Entry, Time
<1>2. QED BY <1>1 DEF Spent

\* The topic of the page in hand is one that is in use.
LEMMA TopicInUse ==
  ASSUME Mailed, tick.page # {}
  PROVE  topic \in Topic
BY PageNewest, KeysAssumption DEF topic

\* A step that changes no pool, opens and archives no session.
LEMMA PoolSame ==
  ASSUME PoolInvariant, PoolTypeOK',
         memory'.pool = memory.pool, memory'.loaded = memory.loaded, disk'.pool = disk.pool,
         sessions'.opened = sessions.opened, sessions'.archived = sessions.archived,
         sessions.gone \subseteq sessions'.gone, history.left \subseteq history'.left,
         memory'.dead \subseteq sessions'.gone, tick'.pc # "open", clock <= clock',
         faults' = 0 => faults = 0,
         tick'.pc = "prompt" /\ tick'.via = None /\ faults' = 0
           => tick'.session \notin sessions.archived
  PROVE  PoolInvariant'
<1>1. PoolTypeOK /\ Ownership /\ Accounted
  BY DEF PoolInvariant
<1>2. Ownership'
  BY <1>1 DEF Ownership, SessionsOf
<1>3. Settled \subseteq Settled'
  BY DEF Settled
<1>4. Accounted'
  <2>1. RetiredSettled(memory.pool)' /\ RetiredSettled(disk.pool)'
    BY <1>1, <1>3 DEF Accounted, RetiredSettled
  <2>2. SessionsAccounted'
    BY <1>1 DEF Accounted, SessionsAccounted
  <2>3. QED BY <2>1, <2>2 DEF Accounted
<1>5. ASSUME faults' = 0 PROVE NoRevival'
  <2>1. NoRevival
    BY <1>5 DEF PoolInvariant
  <2>2. ASSUME NEW k \in Known(memory.pool), ~memory.pool[k].archived,
               memory.pool[k].session \in sessions.archived
        PROVE  Spent(memory.pool[k], clock')
    <3>1. Spent(memory.pool[k], clock)
      BY <2>1, <2>2 DEF NoRevival
    <3>2. memory.pool[k] \in Entry(Opened, Time) /\ clock \in Nat /\ clock' \in Nat
      BY <1>1, KnownEntry DEF PoolTypeOK, Time
    <3>3. QED BY <3>1, <3>2, SpentStays
  <2>3. RetiredStaysRetired'
    BY <1>5 DEF RetiredStaysRetired
  <2>4. QED BY <2>1, <2>2, <2>3 DEF NoRevival
<1>6. QED BY <1>2, <1>4, <1>5 DEF PoolInvariant

\* A fault leaves the count of faults in its bound.
LEMMA FaultsBounded ==
  ASSUME faults \in 0 .. MaxFaults, Fault \/ UNCHANGED faults
  PROVE  faults' \in 0 .. MaxFaults /\ (faults' = 0 => faults = 0) /\ (Fault => faults' # 0)
BY BridgeAssumption DEF Fault

\* Where a tick is after a step that only goes on with it.
LEMMA TickOn ==
  ASSUME Shape, NEW pc, tick' = [tick EXCEPT !.pc = pc]
  PROVE  /\ tick'.pc = pc /\ tick'.now = tick.now /\ tick'.page = tick.page
         /\ tick'.session = tick.session /\ tick'.via = tick.via
BY DEF Shape

\* The steps within a tick that concern no session.
LEMMA TurnKeepsPool ==
  ASSUME BridgeInvariant, PoolInvariant, hold \/ drop \/ openFails \/ prompted \/ promptFails
  PROVE  PoolInvariant'
<1>1. Shape /\ PoolTypeOK /\ Ownership
  BY DEF BridgeInvariant, PoolInvariant
<1>2. /\ tick' = [tick EXCEPT !.pc = "save"] /\ tick.pc \in {"gate", "open", "prompt"}
      /\ (Fault \/ UNCHANGED faults) /\ UNCHANGED <<clock, inbox, read, disk, sessions>>
  BY DEF hold, drop, openFails, prompted, promptFails, Deciding
<1>3. /\ memory'.pool = memory.pool /\ memory'.loaded = memory.loaded /\ memory'.dead = memory.dead
  <2>1. CASE drop
    <3> DEFINE mark == Mark(Newest(tick.page))
               window == Window(topic, tick.now)
               hour == LastHour(tick.now)
    <3>1. memory' = [memory EXCEPT !.mark = mark, !.threads[topic] = window, !.wakeTimes = hour]
      BY <2>1 DEF drop
    <3> HIDE DEF mark, window, hour
    <3>2. QED BY <1>1, <3>1 DEF Shape
  <2>2. CASE prompted
    <3> DEFINE w == IF Window(topic, tick.now) = None
                    THEN [wakes |-> 0, windowStart |-> tick.now] ELSE Window(topic, tick.now)
               count == [wakes |-> w.wakes + 1, windowStart |-> w.windowStart, lastAt |-> tick.now]
               hour == Append(LastHour(tick.now), tick.now)
               counted == [memory EXCEPT !.threads[topic] = count, !.wakeTimes = hour]
               mark == Mark(Newest(tick.page))
    <3>1. memory' = [counted EXCEPT !.mark = mark, !.lastNotifyAt = tick.now]
      BY <2>2 DEF prompted, recordWake
    <3> HIDE DEF w, count, hour, mark
    <3>2. QED BY <1>1, <3>1 DEF Shape
  <2>3. CASE hold \/ openFails \/ promptFails
    BY <2>3 DEF hold, openFails, promptFails
  <2>4. QED BY <2>1, <2>2, <2>3
<1>4. history'.left = history.left
  <2> DEFINE wake == Wake
  <2> HIDE DEF wake
  <2>1. \/ history' = history
        \/ history' = [history EXCEPT !.woken = history.woken \cup {wake}]
        \/ history' = [history EXCEPT !.woken = history.woken \cup {wake},
                                      !.counted = history.counted \cup {wake}]
        \/ history' = [history EXCEPT !.dropped = history.dropped \cup tick.page]
    BY DEF hold, drop, openFails, prompted, promptFails, Woken, Counted, wake
  <2>2. QED BY <1>1, <2>1 DEF Shape, HistoryForm
<1>5. tick'.pc = "save" /\ tick'.now = tick.now
  BY <1>1, <1>2, TickOn
<1>6. faults' \in 0 .. MaxFaults /\ (faults' = 0 => faults = 0)
  BY <1>1, <1>2, FaultsBounded DEF PoolTypeOK
<1>7. PoolTypeOK'
  BY <1>1, <1>2, <1>3, <1>5, <1>6 DEF PoolTypeOK, TickPc
<1>8. clock <= clock'
  BY <1>1, <1>2, BridgeAssumption DEF PoolTypeOK, Time
<1>9. QED BY <1>1, <1>2, <1>3, <1>4, <1>5, <1>6, <1>7, <1>8, PoolSame DEF Ownership

\* An answer goes to the session that asked; no topic is concerned.
LEMMA RouteKeepsPool ==
  ASSUME BridgeInvariant, PoolInvariant, NEW t \in Thread, route(t)
  PROVE  PoolInvariant'
<1> DEFINE hit == Hit(memory.routes, t, tick.now)
           asker == memory.routes[t].session
<1> HIDE DEF hit, asker
<1>1. Shape /\ PoolTypeOK /\ Ownership /\ tick.pc = "gate"
      /\ memory' = [memory EXCEPT !.routes = hit]
      /\ tick' = [tick EXCEPT !.pc = "prompt", !.session = asker, !.via = t]
      /\ history' = [history EXCEPT !.used[t] = tick.now]
      /\ UNCHANGED <<clock, inbox, read, disk, sessions, faults>>
  BY DEF route, Waking, Deciding, BridgeInvariant, PoolInvariant, hit, asker
<1>2. /\ memory'.pool = memory.pool /\ memory'.loaded = memory.loaded /\ memory'.dead = memory.dead
      /\ tick'.pc = "prompt" /\ tick'.now = tick.now /\ tick'.via = t
      /\ history'.left = history.left
  BY <1>1 DEF Shape, HistoryForm
<1>3. PoolTypeOK'
  BY <1>1, <1>2 DEF PoolTypeOK, TickPc
<1>4. t # None /\ clock <= clock'
  BY <1>1, KeysAssumption, BridgeAssumption DEF PoolTypeOK, Time
<1>5. QED BY <1>1, <1>2, <1>3, <1>4, PoolSame DEF Ownership

\* The session is gone: it is remembered as such.
LEMMA NotFoundKeepsPool ==
  ASSUME BridgeInvariant, PoolInvariant, promptNotFound
  PROVE  PoolInvariant'
<1> DEFINE dead == memory.dead \cup {tick.session}
           routes == forgetRoutesForSession(memory.routes, tick.session)
<1>1. dead \subseteq sessions.gone
  BY DEF promptNotFound, PoolInvariant, Ownership
<1> HIDE DEF dead, routes
<1>2. Shape /\ PoolTypeOK /\ tick' = [tick EXCEPT !.pc = "save"] /\ tick.pc = "prompt"
      /\ memory' = [memory EXCEPT !.dead = dead, !.routes = routes]
      /\ UNCHANGED <<clock, inbox, read, disk, sessions, history, faults>>
  BY DEF promptNotFound, BridgeInvariant, PoolInvariant, dead, routes
<1>3. memory'.pool = memory.pool /\ memory'.loaded = memory.loaded /\ memory'.dead = dead
  BY <1>2 DEF Shape
<1>4. tick'.pc = "save" /\ tick'.now = tick.now
  BY <1>2, TickOn
<1>5. PoolTypeOK'
  BY <1>2, <1>3, <1>4 DEF PoolTypeOK, TickPc
<1>6. clock <= clock'
  BY <1>2, BridgeAssumption DEF PoolTypeOK, Time
<1>7. QED BY <1>1, <1>2, <1>3, <1>4, <1>5, <1>6, PoolSame

\* The steps of everybody else.
LEMMA OthersKeepPool ==
  ASSUME BridgeInvariant, PoolInvariant,
         \/ pass
         \/ \E m \in Msg : arrive(m) \/ markRead(m)
         \/ \E x \in Sends : recordOutbound(x)
         \/ \E s \in Local \cup Opened : vanish(s)
  PROVE  PoolInvariant'
<1>1. Shape /\ PoolTypeOK /\ Ownership /\ read \subseteq inbox
  BY DEF BridgeInvariant, PoolInvariant, PoolTypeOK
<1>2. /\ tick' = tick /\ disk' = disk /\ tick.pc \in {"idle", "sweep", "prompt"}
      /\ (Fault \/ UNCHANGED faults)
      /\ clock' \in {clock, clock + 1} /\ (clock' # clock => clock < MaxTime)
  BY DEF pass, arrive, markRead, recordOutbound, vanish, Requesting
<1>3. memory'.pool = memory.pool /\ memory'.loaded = memory.loaded /\ memory'.dead = memory.dead
  <2>1. CASE memory' = memory
    BY <2>1
  <2>2. CASE \E x \in Sends : recordOutbound(x)
    <3>1. PICK x \in Sends : recordOutbound(x)
      BY <2>2
    <3>2. PICK r \in registerRoute(memory.routes, x.thread, x.id, x.session, clock) :
            memory' = [memory EXCEPT !.routes = r]
      BY <3>1 DEF recordOutbound
    <3>3. QED BY <1>1, <3>2 DEF Shape
  <2>3. QED BY <2>1, <2>2 DEF pass, arrive, markRead, vanish
<1>4. history'.left = history.left
  <2>1. CASE history' = history
    BY <2>1
  <2>2. CASE \E m \in Msg : arrive(m)
    <3>1. PICK m \in Msg : arrive(m)
      BY <2>2
    <3> DEFINE late == {n \in {m} : \/ ~isNewerThan(n, memory.mark) \/ ~isNewerThan(n, disk.mark)
                                    \/ tick.page # {} /\ ~isNewerThan(n, Mark(Newest(tick.page)))}
    <3>2. history' = [history EXCEPT !.late = history.late \cup late]
      BY <3>1 DEF arrive
    <3> HIDE DEF late
    <3>3. QED BY <1>1, <3>2 DEF Shape, HistoryForm
  <2>3. CASE \E x \in Sends : recordOutbound(x)
    <3>1. PICK x \in Sends : recordOutbound(x)
      BY <2>3
    <3>2. history' = [history EXCEPT
             !.asker[x.thread] = x.session, !.used[x.thread] = clock,
             !.sent = history.sent \cup {x}]
      BY <3>1 DEF recordOutbound
    <3>3. QED BY <1>1, <3>2 DEF Shape, HistoryForm
  <2>4. QED BY <2>1, <2>2, <2>3 DEF pass, markRead, vanish
<1>5. /\ sessions'.opened = sessions.opened /\ sessions'.archived = sessions.archived
      /\ sessions.gone \subseteq sessions'.gone
      /\ sessions' = [opened |-> sessions'.opened, archived |-> sessions'.archived,
                      gone |-> sessions'.gone]
  <2>1. \/ sessions' = sessions
        \/ \E s \in Local \cup Opened : sessions' = [sessions EXCEPT !.gone = sessions.gone \cup {s}]
    BY DEF pass, arrive, markRead, recordOutbound, vanish
  <2>2. QED BY <1>1, <2>1 DEF PoolTypeOK
<1>6. read' \subseteq inbox'
  BY <1>1 DEF pass, arrive, markRead, recordOutbound, vanish, Unread
<1>7. faults' \in 0 .. MaxFaults /\ (faults' = 0 => faults = 0)
  BY <1>1, <1>2, FaultsBounded DEF PoolTypeOK
<1>8. clock' \in Time /\ tick'.now \in 0 .. clock' /\ clock <= clock'
  BY <1>1, <1>2, BridgeAssumption DEF PoolTypeOK, Time
<1>9. PoolTypeOK'
  BY <1>1, <1>2, <1>3, <1>5, <1>6, <1>7, <1>8 DEF PoolTypeOK
<1>10. tick'.pc = "prompt" /\ tick'.via = None /\ faults' = 0 => tick'.session \notin sessions.archived
  BY <1>2, <1>7 DEF PoolInvariant, NoRevival, RetiredStaysRetired
<1>11. QED BY <1>1, <1>2, <1>3, <1>4, <1>5, <1>7, <1>8, <1>9, <1>10, PoolSame DEF Ownership

\* The pool a bridge begins with is empty.
LEMMA FreshPool ==
  /\ PoolOK(Fresh.pool) /\ Known(Fresh.pool) = {} /\ Known(Ended.pool) = {} /\ Ended.pool = Fresh.pool
  /\ Ended.dead = {} /\ Ended.loaded = FALSE
<1> DEFINE started == Started(Fresh)
<1>1. Fresh.pool = [k \in Topic |-> NoEntry]
  BY DEF Fresh
<1>2. started.pool = Fresh.pool /\ started.dead = {} /\ "loaded" \in DOMAIN started
  BY DEF Started
<1>3. Ended = [started EXCEPT !.loaded = FALSE]
  BY DEF Ended
<1>4. Ended.pool = started.pool /\ Ended.dead = started.dead /\ Ended.loaded = FALSE
  BY <1>3 DEF Started
<1> HIDE DEF started
<1>5. QED BY <1>1, <1>2, <1>4 DEF PoolOK, Known

\* What a bridge knows that has read a state file.
LEMMA StartedPool ==
  ASSUME NEW saved, memory' = Started(saved)
  PROVE  memory'.pool = saved.pool /\ memory'.dead = {} /\ memory'.loaded = TRUE
BY DEF Started

\* A bridge that starts knows the sessions of its state file, or loses sight of them.
LEMMA ListKeepsPool ==
  ASSUME BridgeInvariant, PoolInvariant, list
  PROVE  PoolInvariant'
<1> DEFINE lost == {disk.pool[k].session : k \in Known(disk.pool)}
<1>1. Shape /\ PoolTypeOK /\ Ownership /\ Accounted
  BY DEF BridgeInvariant, PoolInvariant
<1>2. /\ tick.pc = "idle" /\ UNCHANGED <<clock, inbox, read, disk, sessions>>
      /\ \/ memory.loaded /\ UNCHANGED <<memory, history, faults>>
         \/ ~memory.loaded /\ memory' = Started(disk) /\ UNCHANGED <<history, faults>>
         \/ ~memory.loaded /\ memory' = Started(Fresh) /\ Fault
              /\ history' = [history EXCEPT !.left = @ \cup lost, !.counted = {}]
  BY DEF list, loadStateOnce
<1>3. tick'.pc = "sweep" /\ tick'.now = 0
  BY DEF list, Idle
<1>4. memory'.loaded
  BY <1>2, StartedPool
<1>5. faults' \in 0 .. MaxFaults /\ (faults' = 0 => faults = 0)
  BY <1>1, <1>2, FaultsBounded DEF PoolTypeOK
<1>6. 0 \in 0 .. clock
  BY <1>1, BridgeAssumption DEF PoolTypeOK, Time
<1> HIDE DEF lost
<1>7. CASE memory.loaded /\ UNCHANGED <<memory, history, faults>>
  <2>1. PoolTypeOK'
    BY <1>1, <1>2, <1>3, <1>6, <1>7 DEF PoolTypeOK, TickPc
  <2>2. clock <= clock'
    BY <1>1, <1>2, BridgeAssumption DEF PoolTypeOK, Time
  <2>3. QED BY <1>1, <1>2, <1>3, <1>7, <2>1, <2>2, PoolSame DEF Ownership
<1>8. CASE ~memory.loaded /\ memory' = Started(disk) /\ UNCHANGED <<history, faults>>
  <2>1. memory'.pool = disk.pool /\ memory'.dead = {}
    BY <1>8, StartedPool
  <2>2. PoolTypeOK'
    BY <1>1, <1>2, <1>3, <1>4, <1>6, <1>8, <2>1 DEF PoolTypeOK, TickPc
  <2>3. Ownership'
    BY <1>1, <1>2, <2>1 DEF Ownership, SessionsOf
  <2>4. Settled' = Settled
    BY <1>2, <1>8 DEF Settled
  <2>5. Accounted'
    <3>1. RetiredSettled(memory.pool)' /\ RetiredSettled(disk.pool)'
      BY <1>1, <1>2, <2>1, <2>4 DEF Accounted, RetiredSettled
    <3>2. SessionsAccounted'
      BY <1>1, <1>2, <1>4, <1>8, <2>1 DEF Accounted, SessionsAccounted
    <3>3. QED BY <1>3, <3>1, <3>2 DEF Accounted
  <2>6. ASSUME faults' = 0 PROVE NoRevival'
    <3>1. NoRevival
      BY <1>5, <2>6 DEF PoolInvariant
    <3>2. memory'.pool = Fresh.pool
      BY <1>8, <2>1, <3>1 DEF NoRevival
    <3>3. Known(memory'.pool) = {}
      BY <3>2, FreshPool
    <3>4. QED BY <1>3, <1>4, <3>3 DEF NoRevival, RetiredStaysRetired
  <2>7. QED BY <2>2, <2>3, <2>5, <2>6 DEF PoolInvariant
<1>9. CASE ~memory.loaded /\ memory' = Started(Fresh) /\ Fault
             /\ history' = [history EXCEPT !.left = @ \cup lost, !.counted = {}]
  <2>1. memory'.pool = Fresh.pool /\ memory'.dead = {} /\ Known(memory'.pool) = {}
        /\ history'.left = history.left \cup lost
    BY <1>1, <1>9, StartedPool, FreshPool DEF Shape, HistoryForm
  <2>2. PoolTypeOK'
    BY <1>1, <1>2, <1>3, <1>4, <1>5, <1>6, <2>1, FreshPool DEF PoolTypeOK, TickPc
  <2>3. Ownership'
    BY <1>1, <1>2, <2>1 DEF Ownership, SessionsOf
  <2>4. Settled \subseteq Settled'
    BY <1>2, <2>1 DEF Settled
  <2>5. Accounted'
    <3>1. RetiredSettled(memory.pool)' /\ RetiredSettled(disk.pool)'
      BY <1>1, <1>2, <2>1, <2>4 DEF Accounted, RetiredSettled
    <3>2. LiveSessions(disk.pool) \subseteq lost
      BY DEF LiveSessions, lost
    <3>3. SessionsAccounted'
      BY <1>1, <1>2, <1>9, <2>1, <3>2 DEF Accounted, SessionsAccounted
    <3>4. QED BY <1>3, <3>1, <3>3 DEF Accounted
  <2>6. faults' # 0
    BY <1>1, <1>9, FaultsBounded DEF PoolTypeOK
  <2>7. QED BY <2>2, <2>3, <2>5, <2>6 DEF PoolInvariant
<1>10. QED BY <1>2, <1>7, <1>8, <1>9

\* A sweep settles the sessions of the topics it retires.
LEMMA SweepKeepsPool ==
  ASSUME BridgeInvariant, PoolInvariant, sweep
  PROVE  PoolInvariant'
<1>1. Shape /\ PoolTypeOK /\ Ownership /\ Accounted /\ PoolOK(memory.pool) /\ clock \in Time
  BY DEF BridgeInvariant, PoolInvariant, PoolTypeOK
<1>2. PICK s \in sweepPool(memory.pool, clock), r \in sweepRoutes(memory.routes, clock) :
        \E D \in SUBSET s.archive :
          /\ Fault \/ UNCHANGED faults
          /\ archive(s.archive, D)
          /\ memory' = [memory EXCEPT !.pool = s.pool, !.routes = r]
  BY DEF sweep
<1>3. PICK D \in SUBSET s.archive :
          /\ Fault \/ UNCHANGED faults
          /\ archive(s.archive, D)
          /\ memory' = [memory EXCEPT !.pool = s.pool, !.routes = r]
  BY <1>2
<1>4. /\ tick.pc = "sweep" /\ tick' = [tick EXCEPT !.pc = "gate", !.now = clock]
      /\ UNCHANGED <<clock, inbox, read, disk>>
  BY DEF sweep
<1>5. /\ PoolOK(s.pool)
      /\ \A k \in Known(s.pool) :
           /\ k \in Known(memory.pool) /\ s.pool[k].session = memory.pool[k].session
           /\ s.pool[k].archived => memory.pool[k].archived \/ memory.pool[k].session \in s.archive
           /\ ~s.pool[k].archived => s.pool[k] = memory.pool[k]
      /\ \A k \in Known(memory.pool) : ~memory.pool[k].archived =>
           memory.pool[k].session \in s.archive \/ (k \in Known(s.pool) /\ s.pool[k] = memory.pool[k])
      /\ \A x \in s.archive : \E j \in Known(memory.pool) :
           x = memory.pool[j].session /\ (j \in Known(s.pool) => s.pool[j].archived)
  BY <1>1, SweepOfPool
<1>6. memory'.pool = s.pool /\ memory'.loaded = memory.loaded /\ memory'.dead = memory.dead
  BY <1>1, <1>3 DEF Shape
<1>7. /\ sessions' = [opened |-> sessions.opened, archived |-> sessions.archived \cup D,
                      gone |-> sessions.gone]
      /\ history'.left = history.left \cup (s.archive \ D)
  <2> DEFINE gone == s.archive \ D
  <2> HIDE DEF gone
  <2>1. /\ sessions' = [sessions EXCEPT !.archived = sessions.archived \cup D]
        /\ history' = [history EXCEPT !.left = history.left \cup gone]
    BY <1>3 DEF archive, gone
  <2>2. QED BY <1>1, <2>1 DEF PoolTypeOK, Shape, HistoryForm, gone
<1>8. tick'.pc = "gate" /\ tick'.now = clock
  BY <1>1, <1>4 DEF Shape
<1>9. faults' \in 0 .. MaxFaults /\ (faults' = 0 => faults = 0)
  BY <1>1, <1>3, FaultsBounded DEF PoolTypeOK
<1>10. PoolTypeOK'
  <2>1. clock \in 0 .. clock
    BY <1>1, BridgeAssumption DEF Time
  <2>2. QED BY <1>1, <1>4, <1>5, <1>6, <1>7, <1>8, <1>9, <2>1 DEF PoolTypeOK, TickPc
<1>11. s.archive \subseteq Settled' /\ Settled \subseteq Settled'
  BY <1>7 DEF Settled
<1>12. s.archive \subseteq sessions.opened
  BY <1>1, <1>5 DEF Ownership, SessionsOf
<1>13. Ownership'
  BY <1>1, <1>4, <1>5, <1>6, <1>7, <1>12 DEF Ownership, SessionsOf
<1>14. Accounted'
  <2>1. RetiredSettled(memory.pool)'
    BY <1>1, <1>5, <1>6, <1>11 DEF Accounted, RetiredSettled
  <2>2. RetiredSettled(disk.pool)'
    BY <1>1, <1>4, <1>11 DEF Accounted, RetiredSettled
  <2>3. memory.loaded
    BY <1>1, <1>4 DEF PoolTypeOK
  <2>4. LiveSessions(memory.pool) \subseteq s.archive \cup LiveSessions(s.pool)
    BY <1>5 DEF LiveSessions
  <2>5. SessionsAccounted'
    BY <1>1, <1>6, <1>7, <2>3, <2>4 DEF Accounted, SessionsAccounted
  <2>6. QED BY <1>8, <2>1, <2>2, <2>5 DEF Accounted
<1>15. ASSUME faults' = 0 PROVE NoRevival'
  <2>1. NoRevival
    BY <1>9, <1>15 DEF PoolInvariant
  <2>2. \A j, k \in Known(s.pool) : s.pool[j].session = s.pool[k].session => j = k
    BY <1>5, <2>1 DEF NoRevival
  <2>3. ASSUME NEW k \in Known(s.pool), ~s.pool[k].archived,
               s.pool[k].session \in sessions.archived \cup D
        PROVE  Spent(s.pool[k], clock)
    <3>1. k \in Known(memory.pool) /\ s.pool[k] = memory.pool[k]
      BY <1>5, <2>3
    <3>2. s.pool[k].session \notin s.archive
      <4>1. ASSUME NEW j \in Known(memory.pool), s.pool[k].session = memory.pool[j].session,
                   j \in Known(s.pool) => s.pool[j].archived
            PROVE  FALSE
        BY <2>1, <2>3, <3>1, <4>1 DEF NoRevival
      <4>2. QED BY <1>5, <4>1
    <3>3. QED BY <2>1, <2>3, <3>1, <3>2 DEF NoRevival
  <2>4. QED BY <1>4, <1>6, <1>7, <1>8, <2>1, <2>2, <2>3 DEF NoRevival, RetiredStaysRetired
<1>16. QED BY <1>10, <1>13, <1>14, <1>15 DEF PoolInvariant

\* What is recorded of the use of a session for a topic.
LEMMA UseOfPool ==
  ASSUME NEW pool, PoolOK(pool), NEW k \in Topic, NEW session \in Opened, NEW now \in Time,
         NEW messages \in Nat
  PROVE  LET used == recordUse(pool, k, session, now, messages) IN
         /\ PoolOK(used) /\ Known(used) = Known(pool) \cup {k}
         /\ used[k].session = session /\ ~used[k].archived
         /\ \A j \in Topic : j # k => used[j] = pool[j]
<1> DEFINE used == recordUse(pool, k, session, now, messages)
           continuing == pool[k] # NoEntry /\ pool[k].session = session
           e == [session |-> session, used |-> now, archived |-> FALSE, archivedAt |-> None,
                 wakes |-> messages + IF continuing THEN pool[k].wakes ELSE 0,
                 created |-> IF continuing THEN pool[k].created ELSE now]
<1>1. used = [pool EXCEPT ![k] = e]
  BY DEF recordUse
<1>2. continuing => pool[k] \in Entry(Opened, Time)
  BY DEF PoolOK
<1>3. (IF continuing THEN pool[k].wakes ELSE 0) \in Nat /\ (IF continuing THEN pool[k].created ELSE now) \in Time
  BY <1>2 DEF Entry
<1>4. messages + (IF continuing THEN pool[k].wakes ELSE 0) \in Nat
  BY <1>3
<1>5. e \in Entry(Opened, Time) /\ e.session = session /\ ~e.archived
  BY <1>3, <1>4 DEF Entry
<1> HIDE DEF e
<1>6. e # NoEntry
  BY <1>5, EntryIsKnown
<1>7. /\ used \in [Topic -> Entry(Opened, Time) \cup {NoEntry}] /\ used[k] = e
      /\ \A j \in Topic : j # k => used[j] = pool[j]
  BY <1>1, <1>5 DEF PoolOK
<1> HIDE DEF used
<1>8. Known(used) = Known(pool) \cup {k}
  BY <1>6, <1>7 DEF Known
<1>9. QED BY <1>5, <1>7, <1>8 DEF PoolOK, used

\* The plan for a topic: no session, a session that is used up, or one to go on with.
LEMMA PlanOfTopic ==
  ASSUME Shape, PoolTypeOK, topic \in Topic
  PROVE  /\ Plan.session # None =>
              /\ topic \in Known(memory.pool) /\ Plan.session = memory.pool[topic].session
              /\ ~memory.pool[topic].archived /\ ~Spent(memory.pool[topic], tick.now)
         /\ Plan.session = None =>
              \/ memory.pool[topic] = NoEntry /\ Plan.archive = {}
              \/ topic \in Known(memory.pool) /\ memory.pool[topic].archived /\ Plan.archive = {}
              \/ /\ topic \in Known(memory.pool) /\ memory.pool[topic].session \in memory.dead
                 /\ Plan.archive = {}
              \/ /\ topic \in Known(memory.pool) /\ Plan.archive = {memory.pool[topic].session}
                 /\ Spent(memory.pool[topic], tick.now)
<1>1. topic \in Known(memory.pool) => memory.pool[topic].session # None
  BY KnownEntry, EntryIsKnown, KeysAssumption DEF PoolTypeOK
<1>2. topic \in Known(memory.pool) <=> memory.pool[topic] # NoEntry
  BY DEF Known
<1>3. CASE StartsOver(memory.pool, topic, memory.dead)
  BY <1>2, <1>3 DEF Plan, planSession, StartsOver
<1>4. CASE ~StartsOver(memory.pool, topic, memory.dead) /\ Spent(memory.pool[topic], tick.now)
  BY <1>2, <1>4 DEF Plan, planSession, StartsOver
<1>5. CASE ~StartsOver(memory.pool, topic, memory.dead) /\ ~Spent(memory.pool[topic], tick.now)
  BY <1>1, <1>2, <1>5 DEF Plan, planSession, StartsOver
<1>6. QED BY <1>3, <1>4, <1>5

\* A topic goes on in a session that is its own already, or in a new one.
LEMMA UseKeepsPool ==
  ASSUME BridgeInvariant, PoolInvariant, NEW s \in Opened, Use(s),
         tick.pc \in {"gate", "open"}, tick.page # {},
         UNCHANGED <<clock, inbox, read, disk, history, faults>>,
         sessions' = [sessions EXCEPT !.opened = sessions.opened \cup {s}],
         memory.pool[topic] # NoEntry =>
           memory.pool[topic].session = s \/ memory.pool[topic].session \in Settled,
         faults = 0 => /\ s \notin sessions.archived
                       /\ \A k \in Known(memory.pool) : memory.pool[k].session = s => k = topic
  PROVE  PoolInvariant'
<1> DEFINE used == recordUse(memory.pool, topic, s, tick.now, Cardinality(tick.page))
<1>1. Shape /\ PoolTypeOK /\ Ownership /\ Accounted /\ topic \in Topic
  BY TopicInUse DEF BridgeInvariant, PoolInvariant
<1>2. Cardinality(tick.page) \in Nat
  BY FS_Subset, FS_CardinalityType DEF BridgeInvariant, Mailed
<1>3. tick.now \in Time /\ PoolOK(memory.pool)
  BY <1>1, BridgeAssumption DEF PoolTypeOK, Time
<1>4. /\ PoolOK(used) /\ Known(used) = Known(memory.pool) \cup {topic}
      /\ used[topic].session = s /\ ~used[topic].archived
      /\ \A j \in Topic : j # topic => used[j] = memory.pool[j]
  BY <1>1, <1>2, <1>3, UseOfPool
<1>5. /\ memory' = [memory EXCEPT !.pool = used]
      /\ tick' = [tick EXCEPT !.pc = "prompt", !.session = s]
  BY DEF Use
<1> HIDE DEF used
<1>6. /\ memory'.pool = used /\ memory'.loaded = memory.loaded /\ memory'.dead = memory.dead
      /\ tick'.pc = "prompt" /\ tick'.now = tick.now /\ tick'.session = s
  BY <1>1, <1>5 DEF Shape
<1>7. /\ sessions' = [opened |-> sessions.opened \cup {s}, archived |-> sessions.archived,
                      gone |-> sessions.gone]
  BY <1>1 DEF PoolTypeOK
<1>8. PoolTypeOK' /\ memory.loaded
  BY <1>1, <1>4, <1>6, <1>7 DEF PoolTypeOK, TickPc
<1>9. Settled' = Settled
  BY <1>7 DEF Settled
<1>10. Known(memory.pool) \subseteq Topic
  BY DEF Known
<1>11. Ownership'
  BY <1>1, <1>4, <1>6, <1>7, <1>10 DEF Ownership, SessionsOf
<1>12. Accounted'
  <2>1. RetiredSettled(memory.pool)'
    BY <1>1, <1>4, <1>6, <1>9, <1>10 DEF Accounted, RetiredSettled
  <2>2. RetiredSettled(disk.pool)'
    BY <1>1, <1>9 DEF Accounted, RetiredSettled
  <2>3. LiveSessions(memory.pool) \subseteq Settled \cup LiveSessions(used)
    <3>1. ASSUME NEW k \in Known(memory.pool), ~memory.pool[k].archived
          PROVE  memory.pool[k].session \in Settled \cup LiveSessions(used)
      <4>1. CASE k = topic
        BY <1>4, <4>1, <3>1 DEF LiveSessions, Known
      <4>2. CASE k # topic
        BY <1>4, <1>10, <4>2, <3>1 DEF LiveSessions
      <4>3. QED BY <4>1, <4>2
    <3>2. QED BY <3>1 DEF LiveSessions
  <2>4. s \in LiveSessions(used)
    BY <1>4 DEF LiveSessions
  <2>5. SessionsAccounted'
    <3>1. sessions.opened \subseteq Settled \cup LiveSessions(memory.pool)
      BY <1>1, <1>8 DEF Accounted, SessionsAccounted, Settled
    <3>2. sessions.opened \cup {s} \subseteq Settled \cup LiveSessions(used)
      BY <2>3, <2>4, <3>1
    <3>3. QED BY <1>6, <1>7, <1>8, <3>2 DEF SessionsAccounted, Settled
  <2>6. QED BY <1>6, <2>1, <2>2, <2>5 DEF Accounted
<1>13. ASSUME faults' = 0 PROVE NoRevival'
  <2>1. /\ NoRevival /\ s \notin sessions.archived
        /\ \A k \in Known(memory.pool) : memory.pool[k].session = s => k = topic
    BY <1>13 DEF PoolInvariant
  <2>2. \A j, k \in Known(used) : used[j].session = used[k].session => j = k
    BY <1>4, <1>10, <2>1 DEF NoRevival
  <2>3. \A k \in Known(used) : ~used[k].archived /\ used[k].session \in sessions.archived =>
          Spent(used[k], clock)
    BY <1>4, <1>10, <2>1 DEF NoRevival
  <2>4. QED BY <1>6, <1>7, <1>8, <2>1, <2>2, <2>3 DEF NoRevival, RetiredStaysRetired
<1>14. QED BY <1>8, <1>11, <1>12, <1>13 DEF PoolInvariant

\* A topic goes on in its session, which is not used up, and so has not been archived.
LEMMA ReuseKeepsPool ==
  ASSUME BridgeInvariant, PoolInvariant, reuse
  PROVE  PoolInvariant'
<1>1. Shape /\ PoolTypeOK /\ Ownership /\ topic \in Topic /\ tick.page # {} /\ tick.pc = "gate"
  BY TopicInUse DEF BridgeInvariant, PoolInvariant, reuse, Waking, Deciding
<1>2. PICK s : s = Plan.session
  OBVIOUS
<1>3. /\ topic \in Known(memory.pool) /\ s = memory.pool[topic].session
      /\ ~memory.pool[topic].archived /\ ~Spent(memory.pool[topic], clock)
  BY <1>1, <1>2, PlanOfTopic DEF reuse, PoolTypeOK
<1>4. s \in sessions.opened /\ s \in Opened
  BY <1>1, <1>3 DEF Ownership, SessionsOf
<1>5. sessions' = [sessions EXCEPT !.opened = sessions.opened \cup {s}]
  BY <1>1, <1>4 DEF reuse, PoolTypeOK
<1>6. ASSUME faults = 0
      PROVE  s \notin sessions.archived
  BY <1>3, <1>6 DEF PoolInvariant, NoRevival
<1>7. Use(s) /\ UNCHANGED <<clock, inbox, read, disk, history, faults>>
  BY <1>2 DEF reuse
<1>8. ASSUME NEW k \in Known(memory.pool), memory.pool[k].session = s, faults = 0 PROVE k = topic
  BY <1>3, <1>8 DEF PoolInvariant, NoRevival
<1>9. QED BY <1>1, <1>3, <1>4, <1>5, <1>6, <1>7, <1>8, UseKeepsPool

\* The session that is used up is archived, or left, before there is another one.
LEMMA RetireKeepsPool ==
  ASSUME BridgeInvariant, PoolInvariant, retire
  PROVE  PoolInvariant'
<1>1. /\ Shape /\ PoolTypeOK /\ Ownership /\ Accounted /\ topic \in Topic
      /\ tick.pc = "gate" /\ Plan.session = None
      /\ tick' = [tick EXCEPT !.pc = "open"] /\ UNCHANGED <<clock, inbox, read, memory, disk>>
  BY TopicInUse DEF BridgeInvariant, PoolInvariant, retire, Waking, Deciding
<1>2. PICK D \in SUBSET Plan.archive : (Fault \/ UNCHANGED faults) /\ archive(Plan.archive, D)
  BY DEF retire
<1>3. PICK A : A = Plan.archive
  OBVIOUS
<1>4. /\ sessions' = [opened |-> sessions.opened, archived |-> sessions.archived \cup D,
                      gone |-> sessions.gone]
      /\ history'.left = history.left \cup (A \ D) /\ D \subseteq A
  <2> DEFINE left == A \ D
  <2> HIDE DEF left
  <2>1. /\ sessions' = [sessions EXCEPT !.archived = sessions.archived \cup D]
        /\ history' = [history EXCEPT !.left = history.left \cup left]
    BY <1>2, <1>3 DEF archive, left
  <2>2. QED BY <1>1, <1>3, <2>1 DEF PoolTypeOK, Shape, HistoryForm, left
<1>5. \/ memory.pool[topic] = NoEntry /\ A = {}
      \/ topic \in Known(memory.pool) /\ memory.pool[topic].archived /\ A = {}
      \/ topic \in Known(memory.pool) /\ memory.pool[topic].session \in memory.dead /\ A = {}
      \/ /\ topic \in Known(memory.pool) /\ A = {memory.pool[topic].session}
         /\ Spent(memory.pool[topic], tick.now)
  BY <1>1, <1>3, PlanOfTopic
<1>6. tick'.pc = "open" /\ tick'.now = tick.now /\ tick'.page = tick.page
  BY <1>1, TickOn
<1>7. faults' \in 0 .. MaxFaults /\ (faults' = 0 => faults = 0)
  BY <1>1, <1>2, FaultsBounded DEF PoolTypeOK
<1>8. PoolTypeOK'
  BY <1>1, <1>4, <1>6, <1>7 DEF PoolTypeOK, TickPc
<1>9. A \subseteq sessions.opened
  BY <1>1, <1>5 DEF Ownership, SessionsOf
<1>10. Ownership'
  BY <1>1, <1>4, <1>9 DEF Ownership, SessionsOf
<1>11. Settled \subseteq Settled' /\ A \subseteq Settled'
  BY <1>4 DEF Settled
<1>12. topic' = topic
  BY <1>6 DEF topic
<1>13. Accounted'
  <2>1. RetiredSettled(memory.pool)' /\ RetiredSettled(disk.pool)'
    BY <1>1, <1>11 DEF Accounted, RetiredSettled
  <2>2. ASSUME memory.pool[topic] # NoEntry PROVE memory.pool[topic].session \in Settled'
    <3>1. memory.pool[topic].session \in Settled \cup A
      BY <1>1, <1>5, <2>2 DEF Accounted, RetiredSettled, Ownership, Settled
    <3>2. QED BY <1>11, <3>1
  <2>3. SessionsAccounted'
    BY <1>1, <1>4 DEF Accounted, SessionsAccounted
  <2>4. QED BY <1>1, <1>12, <2>1, <2>2, <2>3 DEF Accounted
<1>14. ASSUME faults' = 0 PROVE NoRevival'
  <2>1. NoRevival
    BY <1>7, <1>14 DEF PoolInvariant
  <2>2. ASSUME NEW k \in Known(memory.pool), ~memory.pool[k].archived,
               memory.pool[k].session \in sessions.archived \cup D
        PROVE  Spent(memory.pool[k], clock)
    <3>1. CASE memory.pool[k].session \in sessions.archived
      BY <2>1, <2>2, <3>1 DEF NoRevival
    <3>2. CASE memory.pool[k].session \in A
      <4>1. topic \in Known(memory.pool) /\ memory.pool[k].session = memory.pool[topic].session
            /\ Spent(memory.pool[topic], tick.now)
        BY <1>5, <3>2
      <4>2. k = topic
        BY <2>1, <4>1 DEF NoRevival
      <4>3. QED BY <1>1, <4>1, <4>2 DEF PoolTypeOK
    <3>3. QED BY <1>4, <2>2, <3>1, <3>2
  <2>3. QED BY <1>1, <1>4, <1>6, <2>1, <2>2 DEF NoRevival, RetiredStaysRetired
<1>15. QED BY <1>8, <1>10, <1>13, <1>14 DEF PoolInvariant

\* A new session is nobody's yet.
LEMMA OpenKeepsPool ==
  ASSUME BridgeInvariant, PoolInvariant, NEW s \in Opened, openSession(s)
  PROVE  PoolInvariant'
<1>1. Shape /\ PoolTypeOK /\ Ownership /\ Accounted /\ tick.page # {} /\ tick.pc = "open"
  BY DEF BridgeInvariant, Mailed, PoolInvariant, openSession
<1>2. s \notin sessions.opened /\ Use(s) /\ UNCHANGED <<clock, inbox, read, disk, history, faults>>
      /\ sessions' = [sessions EXCEPT !.opened = sessions.opened \cup {s}]
  BY DEF openSession
<1>3. \A k \in Known(memory.pool) : memory.pool[k].session # s
  BY <1>1, <1>2 DEF Ownership, SessionsOf
<1>4. s \notin sessions.archived
  BY <1>1, <1>2 DEF Ownership
<1>5. memory.pool[topic] # NoEntry => memory.pool[topic].session \in Settled
  BY <1>1 DEF Accounted
<1>6. QED BY <1>1, <1>2, <1>3, <1>4, <1>5, UseKeepsPool

\* What the state file keeps of the pool names the same sessions.
LEMMA SaveKeepsPool ==
  ASSUME BridgeInvariant, PoolInvariant, save
  PROVE  PoolInvariant'
<1>1. /\ Shape /\ PoolTypeOK /\ Ownership /\ Accounted /\ tick.pc = "save"
      /\ disk' = Saved(memory) /\ tick' = Idle
      /\ history' = [history EXCEPT !.filed = history.counted]
      /\ UNCHANGED <<clock, inbox, read, memory, sessions, faults>>
  BY DEF save, BridgeInvariant, PoolInvariant
<1>0. history'.left = history.left
  BY <1>1 DEF Shape, HistoryForm
<1>2. disk'.pool = poolSummary(memory.pool) /\ tick'.pc = "idle" /\ tick'.now = 0
  BY <1>1 DEF Saved, Idle
<1>3. /\ PoolOK(disk'.pool) /\ Known(disk'.pool) = Known(memory.pool)
      /\ \A k \in Known(memory.pool) : /\ disk'.pool[k].session = memory.pool[k].session
                                       /\ disk'.pool[k].archived = memory.pool[k].archived
  BY <1>1, <1>2, SummaryOfPool DEF PoolTypeOK
<1>4. 0 \in 0 .. clock /\ memory.loaded
  BY <1>1, BridgeAssumption DEF PoolTypeOK, Time
<1>5. PoolTypeOK'
  BY <1>1, <1>2, <1>3, <1>4 DEF PoolTypeOK, TickPc
<1>6. Ownership'
  BY <1>1, <1>3 DEF Ownership, SessionsOf
<1>7. Accounted'
  <2>1. RetiredSettled(memory.pool)' /\ RetiredSettled(disk.pool)'
    BY <1>0, <1>1, <1>3 DEF Accounted, RetiredSettled, Settled
  <2>2. SessionsAccounted'
    BY <1>0, <1>1, <1>4 DEF Accounted, SessionsAccounted
  <2>3. QED BY <1>2, <2>1, <2>2 DEF Accounted
<1>8. ASSUME faults' = 0 PROVE NoRevival'
  <2>1. NoRevival
    BY <1>1, <1>8 DEF PoolInvariant
  <2>2. QED BY <1>1, <1>2, <1>4, <2>1 DEF NoRevival, RetiredStaysRetired
<1>9. QED BY <1>5, <1>6, <1>7, <1>8 DEF PoolInvariant

\* When the host ends, the sessions that the state file does not name are left.
LEMMA CrashKeepsPool ==
  ASSUME BridgeInvariant, PoolInvariant, Crash
  PROVE  PoolInvariant'
<1> DEFINE named == {disk.pool[k].session : k \in Topic}
           left == sessions.opened \ named
<1>1. /\ left = sessions.opened \ named
      /\ \A k \in Topic : disk.pool[k].session \in named
      /\ \A x \in named : \E k \in Topic : x = disk.pool[k].session
  OBVIOUS
<1> HIDE DEF left, named
<1>2. /\ Shape /\ PoolTypeOK /\ Ownership /\ Accounted /\ Fault
      /\ memory' = Ended /\ tick' = Idle
      /\ history' = [history EXCEPT !.left = history.left \cup left,
                       !.counted = history.filed, !.asker = NoAsker, !.used = Unused]
      /\ UNCHANGED <<clock, inbox, read, disk, sessions>>
  BY DEF Crash, BridgeInvariant, PoolInvariant, left, named
<1>3. /\ memory'.pool = Fresh.pool /\ memory'.dead = {} /\ ~memory'.loaded
      /\ Known(memory'.pool) = {} /\ PoolOK(memory'.pool)
  BY <1>2, FreshPool
<1>4. tick'.pc = "idle" /\ tick'.now = 0 /\ 0 \in 0 .. clock
  BY <1>2, BridgeAssumption DEF Idle, PoolTypeOK, Time
<1>5. history'.left = history.left \cup left
  BY <1>2 DEF Shape, HistoryForm
<1>6. faults' \in 0 .. MaxFaults /\ faults' # 0
  BY <1>2, FaultsBounded DEF PoolTypeOK
<1>7. PoolTypeOK'
  BY <1>2, <1>3, <1>4, <1>6 DEF PoolTypeOK, TickPc
<1>8. Ownership'
  BY <1>2, <1>3 DEF Ownership, SessionsOf
<1>9. Settled' = Settled \cup left
  BY <1>2, <1>5 DEF Settled
<1>10. Accounted'
  <2>1. RetiredSettled(memory.pool)' /\ RetiredSettled(disk.pool)'
    BY <1>2, <1>3, <1>9 DEF Accounted, RetiredSettled
  <2>2. ASSUME NEW x \in sessions.opened, x \notin left
        PROVE  x \in Settled \cup LiveSessions(disk.pool)
    <3>1. PICK k \in Topic : x = disk.pool[k].session
      BY <1>1, <2>2
    <3>2. x # None
      BY <1>2, KeysAssumption DEF Ownership
    <3>3. k \in Known(disk.pool)
      BY <3>1, <3>2 DEF Known, NoEntry
    <3>4. QED BY <1>2, <3>1, <3>3 DEF Accounted, RetiredSettled, LiveSessions
  <2>3. SessionsAccounted'
    BY <1>2, <1>3, <1>9, <2>2 DEF SessionsAccounted, Settled
  <2>4. QED BY <1>4, <2>1, <2>3 DEF Accounted
<1>11. QED BY <1>6, <1>7, <1>8, <1>10 DEF PoolInvariant

\* The bridge begins without sessions.
LEMMA InitGivesPool == Init => PoolInvariant
<1> SUFFICES ASSUME Init PROVE PoolInvariant
  OBVIOUS
<1>1. /\ clock = 0 /\ inbox = {} /\ read = {} /\ memory = Ended /\ disk = Fresh /\ faults = 0
      /\ sessions = [opened |-> {}, archived |-> {}, gone |-> {}]
      /\ tick.pc = "idle" /\ tick.now = 0
  BY DEF Init, Idle
<1>2. PoolTypeOK
  BY <1>1, FreshPool, BridgeAssumption DEF PoolTypeOK, TickPc, Time
<1>3. Ownership
  BY <1>1, FreshPool DEF Ownership, SessionsOf
<1>4. Accounted
  BY <1>1, FreshPool DEF Accounted, RetiredSettled, SessionsAccounted
<1>5. NoRevival
  BY <1>1, FreshPool DEF NoRevival, RetiredStaysRetired
<1>6. QED BY <1>2, <1>3, <1>4, <1>5 DEF PoolInvariant

\* A step of anyone keeps what is known of the sessions.
LEMMA StepKeepsPool == BridgeInvariant /\ PoolInvariant /\ [Next]_vars => PoolInvariant'
<1> SUFFICES ASSUME BridgeInvariant, PoolInvariant, [Next]_vars PROVE PoolInvariant'
  OBVIOUS
<1>1. CASE list BY <1>1, ListKeepsPool
<1>2. CASE sweep BY <1>2, SweepKeepsPool
<1>3. CASE hold \/ drop \/ openFails \/ prompted \/ promptFails BY <1>3, TurnKeepsPool
<1>4. CASE reuse BY <1>4, ReuseKeepsPool
<1>5. CASE retire BY <1>5, RetireKeepsPool
<1>6. CASE promptNotFound BY <1>6, NotFoundKeepsPool
<1>7. CASE save BY <1>7, SaveKeepsPool
<1>8. CASE Crash BY <1>8, CrashKeepsPool
<1>9. CASE \E t \in Thread : route(t) BY <1>9, RouteKeepsPool
<1>10. CASE \E s \in Opened : openSession(s) BY <1>10, OpenKeepsPool
<1>11. CASE \/ pass
            \/ \E m \in Msg : arrive(m) \/ markRead(m)
            \/ \E x \in Sends : recordOutbound(x)
            \/ \E s \in Local \cup Opened : vanish(s)
  BY <1>11, OthersKeepPool
<1>12. CASE UNCHANGED vars
  BY <1>12 DEF vars, PoolInvariant, PoolTypeOK, Ownership, SessionsOf, Accounted, RetiredSettled,
               Settled, SessionsAccounted, topic, NoRevival, RetiredStaysRetired
<1>13. QED BY <1>1, <1>2, <1>3, <1>4, <1>5, <1>6, <1>7, <1>8, <1>9, <1>10, <1>11, <1>12 DEF Next

\* It holds whatever fails and in whatever order the steps are taken.
LEMMA PoolInvariantHolds == Spec => []PoolInvariant
BY BridgeInvariantHolds, InitGivesPool, StepKeepsPool, PTL DEF Spec

\* What the variables of the bridge hold.
THEOREM BridgeTypeOK == Spec => []TypeOK
<1>1. BridgeInvariant /\ PoolInvariant => TypeOK
  <2> SUFFICES ASSUME BridgeInvariant, PoolInvariant PROVE TypeOK
    OBVIOUS
  <2>1. PoolTypeOK /\ Mailed
    BY DEF BridgeInvariant, PoolInvariant
  <2>2. /\ \A k \in Known(memory.pool) : memory.pool[k] \in Entry(Opened, Time)
        /\ \A k \in Known(disk.pool) : disk.pool[k] \in Entry(Opened, Time)
    BY <2>1, KnownEntry DEF PoolTypeOK
  <2>3. tick.page \subseteq Msg
    BY <2>1 DEF Mailed
  <2>4. QED BY <2>1, <2>2, <2>3 DEF TypeOK, PoolTypeOK, Mailed, Time, TickPc
<1>2. QED BY <1>1, BridgeInvariantHolds, PoolInvariantHolds, PTL

\* No session of the bridge is lost sight of: it serves a topic, is archived or gone, or
\* was left open knowingly (sweepPool, planSession, archiveSession).
THEOREM SessionsAccountedHolds == Spec => []SessionsAccounted
<1>1. PoolInvariant => SessionsAccounted
  BY DEF PoolInvariant, Accounted
<1>2. QED BY <1>1, PoolInvariantHolds, PTL

\* While nothing fails, no topic goes on in a session that has been archived.
THEOREM RetiredStaysRetiredHolds == Spec => []RetiredStaysRetired
<1>1. PoolInvariant => RetiredStaysRetired
  BY DEF PoolInvariant, NoRevival, RetiredStaysRetired
<1>2. QED BY <1>1, PoolInvariantHolds, PTL

-----------------------------------------------------------------------------
(* The routes: an answer finds whoever asked, until the table of routes is  *)
(* full of threads that were used since.                                   *)

\* The routes of threads used since are enough to fill the table.
Crowded(t, used) == Cardinality({u \in Thread \ {t} : used[u] >= used[t]}) >= maxRoutes

\* Who asked on t is gone, or asked too long ago, or had to make room.
Missed(t, asker, used, gone, now) ==
  asker[t] \in gone \/ used[t] + ttl < now \/ Crowded(t, used)

\* A route is that of the one who asked last on its thread, as old as its last use.
RouteIs(t, table, asker, used) ==
  /\ routingEnabled /\ asker[t] # None
  /\ table[t] = [session |-> asker[t], ids |-> table[t].ids, lastAt |-> used[t]]

\* Whoever asked has a route, but for those who are missed.
RoutesOK(table, asker, used, gone, now) ==
  /\ used \in [Thread -> Int] /\ \A t \in Thread : used[t] <= now
  /\ asker = [t \in Thread |-> asker[t]]
  /\ table = [t \in Thread |-> table[t]]
  /\ \A t \in Thread : table[t] = NoRoute \/ RouteIs(t, table, asker, used)
  /\ \A t \in Thread : routingEnabled /\ asker[t] # None =>
       table[t] # NoRoute \/ Missed(t, asker, used, gone, now)

\* The thread of the message in hand, if it is on one.
Asked == {mail[Newest(tick.page)].thread} \ {None}

\* The inductive form of AnswerReachesAsker: once a tick has found no route to follow,
\* nobody is left who has asked.
AskersKnown ==
  /\ RoutesOK(memory.routes, history.asker, history.used, sessions.gone, clock)
  /\ ~memory.loaded => history.asker = NoAsker
  /\ tick.pc = "open" => \A t \in Asked : routingEnabled /\ history.asker[t] # None =>
       Missed(t, history.asker, history.used, sessions.gone, clock)

\* A route is not the absence of one.
LEMMA RouteIsKnown ==
  ASSUME NEW session, NEW ids, NEW at
  PROVE  [session |-> session, ids |-> ids, lastAt |-> at] # NoRoute
<1>1. "lastAt" \in DOMAIN [session |-> session, ids |-> ids, lastAt |-> at]
  OBVIOUS
<1>2. "lastAt" \notin DOMAIN NoRoute
  BY DEF NoRoute
<1>3. QED BY <1>1, <1>2

\* A set of threads has a number, which its subsets do not exceed.
LEMMA ThreadsCounted ==
  ASSUME NEW S \in SUBSET Thread, NEW T \in SUBSET S
  PROVE  /\ IsFiniteSet(S) /\ IsFiniteSet(T) /\ Cardinality(S) \in Nat /\ Cardinality(T) \in Nat
         /\ Cardinality(T) <= Cardinality(S) /\ Cardinality(S \ T) = Cardinality(S) - Cardinality(T)
<1>1. IsFiniteSet(S)
  BY FS_Subset, RouteAssumption
<1>2. IsFiniteSet(T) /\ Cardinality(T) <= Cardinality(S)
  BY <1>1, FS_Subset
<1>3. Cardinality(S \ T) = Cardinality(S) - Cardinality(S \cap T)
  BY <1>1, FS_Difference
<1>4. S \cap T = T
  OBVIOUS
<1>5. QED BY <1>1, <1>2, <1>3, <1>4, FS_CardinalityType

\* A thread that had to make room has to as the others are used.
LEMMA CrowdedGrows ==
  ASSUME NEW t \in Thread, NEW used \in [Thread -> Int], NEW usedNow \in [Thread -> Int],
         \A u \in Thread : used[u] <= usedNow[u], usedNow[t] = used[t], Crowded(t, used)
  PROVE  Crowded(t, usedNow)
<1> DEFINE S == {u \in Thread \ {t} : usedNow[u] >= usedNow[t]}
           T == {u \in Thread \ {t} : used[u] >= used[t]}
<1>1. S \subseteq Thread /\ T \subseteq S
  OBVIOUS
<1>2. Cardinality(S) \in Nat /\ Cardinality(T) \in Nat /\ Cardinality(T) <= Cardinality(S)
  BY <1>1, ThreadsCounted
<1>3. Cardinality(T) >= maxRoutes /\ maxRoutes \in Nat
  BY RouteAssumption DEF Crowded
<1> HIDE DEF S, T
<1>4. Cardinality(S) >= maxRoutes
  BY <1>2, <1>3
<1>5. QED BY <1>4 DEF Crowded, S

\* As time passes and sessions go, more are missed and no route is wrong.
LEMMA RoutesLater ==
  ASSUME NEW table, NEW asker, NEW used, NEW gone, NEW more, NEW now \in Int, NEW next \in Int,
         RoutesOK(table, asker, used, gone, now), gone \subseteq more, now <= next
  PROVE  RoutesOK(table, asker, used, more, next)
<1>1. ttl \in Nat
  BY RouteAssumption
<1>2. used \in [Thread -> Int]
  BY DEF RoutesOK
<1>3. ASSUME NEW t \in Thread, Missed(t, asker, used, gone, now)
      PROVE  Missed(t, asker, used, more, next)
  BY <1>1, <1>2, <1>3 DEF Missed
<1>4. \A t \in Thread : used[t] <= next
  BY <1>2 DEF RoutesOK
<1>5. QED BY <1>3, <1>4 DEF RoutesOK

\* Routes may go whose askers are missed.
LEMMA RoutesDropped ==
  ASSUME NEW table, NEW asker, NEW used, NEW gone, NEW now, NEW T,
         RoutesOK(table, asker, used, gone, now),
         \A t \in T \cap Thread : Missed(t, asker, used, gone, now)
  PROVE  RoutesOK(Drop(table, T), asker, used, gone, now)
<1> DEFINE kept == Drop(table, T)
<1>1. kept = [t \in Thread |-> kept[t]]
  BY DEF Drop
<1>2. \A t \in Thread : kept[t] = IF t \in T THEN NoRoute ELSE table[t]
  BY DEF Drop
<1> HIDE DEF kept
<1>3. \A t \in Thread : kept[t] = NoRoute \/ RouteIs(t, kept, asker, used)
  BY <1>2 DEF RoutesOK, RouteIs
<1>4. \A t \in Thread : routingEnabled /\ asker[t] # None =>
        kept[t] # NoRoute \/ Missed(t, asker, used, gone, now)
  BY <1>2 DEF RoutesOK
<1>5. RoutesOK(kept, asker, used, gone, now)
  BY <1>1, <1>3, <1>4 DEF RoutesOK
<1>6. QED BY <1>5 DEF kept

\* The cap takes the routes of threads that have to make room.
LEMMA RoutesCapped ==
  ASSUME NEW table, NEW asker, NEW used, NEW gone, NEW now,
         RoutesOK(table, asker, used, gone, now), NEW r \in enforceCap(table)
  PROVE  RoutesOK(r, asker, used, gone, now)
<1> DEFINE live == Live(table)
           excess == Cardinality(live) - maxRoutes
<1>1. live \subseteq Thread /\ Cardinality(live) \in Nat /\ maxRoutes \in Nat
  BY ThreadsCounted, RouteAssumption DEF Live
<1>2. CASE excess <= 0
  BY <1>2 DEF enforceCap
<1>3. CASE ~(excess <= 0)
  <2>1. PICK D \in SUBSET live :
          /\ r = Drop(table, D) /\ Cardinality(D) = excess
          /\ \A d \in D, e \in live \ D : table[d].lastAt <= table[e].lastAt
    BY <1>3 DEF enforceCap
  <2>2. ASSUME NEW t \in D PROVE Crowded(t, used)
    <3> DEFINE S == {u \in Thread \ {t} : used[u] >= used[t]}
               kept == live \ D
    <3>1. \A u \in live : used[u] = table[u].lastAt /\ used[u] \in Int
      BY <1>1 DEF RoutesOK, RouteIs, Live
    <3>2. \A u \in kept : u \in Thread \ {t} /\ used[u] >= used[t]
      BY <1>1, <2>1, <2>2, <3>1
    <3>3. S \subseteq Thread /\ kept \subseteq S
      BY <3>2
    <3>4. Cardinality(kept) = Cardinality(live) - Cardinality(D) /\ Cardinality(D) \in Nat
      BY <1>1, ThreadsCounted
    <3>5. Cardinality(kept) = maxRoutes
      BY <1>1, <2>1, <3>4
    <3>6. Cardinality(kept) <= Cardinality(S) /\ Cardinality(S) \in Nat
      BY <3>3, ThreadsCounted
    <3> HIDE DEF S, kept
    <3>7. Cardinality(S) >= maxRoutes
      BY <1>1, <3>5, <3>6
    <3>8. QED BY <3>7 DEF Crowded, S
  <2>3. \A t \in D \cap Thread : Missed(t, asker, used, gone, now)
    BY <2>2 DEF Missed
  <2>4. QED BY <2>1, <2>3, RoutesDropped
<1>4. QED BY <1>2, <1>3

\* Whoever asks, or is answered, has the route of the thread.
LEMMA AskKeeps ==
  ASSUME NEW table, NEW asker, NEW used, NEW gone, NEW now \in Int,
         RoutesOK(table, asker, used, gone, now), routingEnabled,
         NEW t \in Thread, NEW s, s # None, NEW ids
  PROVE  RoutesOK([table EXCEPT ![t] = [session |-> s, ids |-> ids, lastAt |-> now]],
                  [asker EXCEPT ![t] = s], [used EXCEPT ![t] = now], gone, now)
<1> DEFINE entry == [session |-> s, ids |-> ids, lastAt |-> now]
           tableNow == [table EXCEPT ![t] = entry]
           askerNow == [asker EXCEPT ![t] = s]
           usedNow == [used EXCEPT ![t] = now]
<1>1. used \in [Thread -> Int] /\ \A u \in Thread : used[u] <= now
  BY DEF RoutesOK
<1>2. /\ usedNow \in [Thread -> Int] /\ usedNow[t] = now
      /\ \A u \in Thread \ {t} : usedNow[u] = used[u]
  BY <1>1
<1>3. \A u \in Thread : used[u] <= usedNow[u] /\ usedNow[u] <= now
  BY <1>1, <1>2
<1>4. /\ tableNow = [u \in Thread |-> tableNow[u]] /\ tableNow[t] = entry
      /\ askerNow = [u \in Thread |-> askerNow[u]] /\ askerNow[t] = s
      /\ \A u \in Thread \ {t} : tableNow[u] = table[u] /\ askerNow[u] = asker[u]
  BY DEF RoutesOK
<1>5. entry = [session |-> s, ids |-> entry.ids, lastAt |-> now] /\ entry # NoRoute
  BY RouteIsKnown
<1> HIDE DEF entry, tableNow, askerNow, usedNow
<1>6. ASSUME NEW u \in Thread
      PROVE  /\ tableNow[u] = NoRoute \/ RouteIs(u, tableNow, askerNow, usedNow)
             /\ routingEnabled /\ askerNow[u] # None =>
                  tableNow[u] # NoRoute \/ Missed(u, askerNow, usedNow, gone, now)
  <2>1. CASE u = t
    BY <1>2, <1>4, <1>5, <2>1 DEF RouteIs
  <2>2. CASE u # t
    <3>1. usedNow[u] = used[u] /\ tableNow[u] = table[u] /\ askerNow[u] = asker[u]
      BY <1>2, <1>4, <2>2
    <3>2. Crowded(u, used) => Crowded(u, usedNow)
      BY <1>1, <1>2, <1>3, <3>1, CrowdedGrows
    <3>3. Missed(u, asker, used, gone, now) => Missed(u, askerNow, usedNow, gone, now)
      BY <3>1, <3>2 DEF Missed
    <3>4. QED BY <3>1, <3>3 DEF RoutesOK, RouteIs
  <2>3. QED BY <2>1, <2>2
<1>7. RoutesOK(tableNow, askerNow, usedNow, gone, now)
  BY <1>2, <1>3, <1>4, <1>6 DEF RoutesOK
<1>8. QED BY <1>7 DEF entry, tableNow, askerNow, usedNow

\* The thread of the message in hand is one of the threads.
LEMMA AskedInUse ==
  ASSUME Mailed, tick.page # {} PROVE Asked \subseteq Thread
BY PageNewest, KeysAssumption DEF Asked

\* The clock is a number, and a tick is not ahead of it.
LEMMA ClockType ==
  ASSUME PoolInvariant
  PROVE  clock \in Nat /\ tick.now \in Nat /\ tick.now <= clock /\ ttl \in Nat
BY RouteAssumption, BridgeAssumption DEF PoolInvariant, PoolTypeOK, Time

\* A step that changes no route and nobody who has asked.
LEMMA RoutesSame ==
  ASSUME PoolInvariant, PoolInvariant', AskersKnown,
         memory'.routes = memory.routes, memory'.loaded = memory.loaded,
         history'.asker = history.asker, history'.used = history.used,
         sessions.gone \subseteq sessions'.gone, clock <= clock', tick'.pc # "open"
  PROVE  AskersKnown'
<1>1. clock \in Int /\ clock' \in Int
  BY ClockType DEF PoolInvariant, PoolTypeOK, Time
<1>2. RoutesOK(memory.routes, history.asker, history.used, sessions'.gone, clock')
  BY <1>1, RoutesLater DEF AskersKnown
<1>3. QED BY <1>2 DEF AskersKnown

\* A turn of the tick that follows no route changes none.
LEMMA TurnKeepsRoutes ==
  ASSUME BridgeInvariant, PoolInvariant, PoolInvariant', AskersKnown,
         hold \/ drop \/ openFails \/ prompted \/ promptFails
  PROVE  AskersKnown'
<1>1. Shape
  BY DEF BridgeInvariant
<1>2. tick' = [tick EXCEPT !.pc = "save"] /\ UNCHANGED <<clock, sessions>>
  BY DEF hold, drop, openFails, prompted, promptFails
<1>3. memory'.routes = memory.routes /\ memory'.loaded = memory.loaded
  <2>1. CASE drop
    <3> DEFINE mark == Mark(Newest(tick.page))
               window == Window(topic, tick.now)
               hour == LastHour(tick.now)
    <3>1. memory' = [memory EXCEPT !.mark = mark, !.threads[topic] = window, !.wakeTimes = hour]
      BY <2>1 DEF drop
    <3> HIDE DEF mark, window, hour
    <3>2. QED BY <1>1, <3>1 DEF Shape
  <2>2. CASE prompted
    <3> DEFINE w == IF Window(topic, tick.now) = None
                    THEN [wakes |-> 0, windowStart |-> tick.now] ELSE Window(topic, tick.now)
               count == [wakes |-> w.wakes + 1, windowStart |-> w.windowStart, lastAt |-> tick.now]
               hour == Append(LastHour(tick.now), tick.now)
               counted == [memory EXCEPT !.threads[topic] = count, !.wakeTimes = hour]
               mark == Mark(Newest(tick.page))
    <3>1. memory' = [counted EXCEPT !.mark = mark, !.lastNotifyAt = tick.now]
      BY <2>2 DEF prompted, recordWake
    <3> HIDE DEF w, count, hour, mark
    <3>2. QED BY <1>1, <3>1 DEF Shape
  <2>3. CASE hold \/ openFails \/ promptFails
    BY <2>3 DEF hold, openFails, promptFails
  <2>4. QED BY <2>1, <2>2, <2>3
<1>4. history'.asker = history.asker /\ history'.used = history.used
  <2> DEFINE wake == Wake
  <2> HIDE DEF wake
  <2>1. \/ history' = history
        \/ history' = [history EXCEPT !.woken = history.woken \cup {wake}]
        \/ history' = [history EXCEPT !.woken = history.woken \cup {wake},
                                      !.counted = history.counted \cup {wake}]
        \/ history' = [history EXCEPT !.dropped = history.dropped \cup tick.page]
    BY DEF hold, drop, openFails, prompted, promptFails, Woken, Counted, wake
  <2>2. QED BY <1>1, <2>1 DEF Shape, HistoryForm
<1>5. tick'.pc = "save"
  BY <1>1, <1>2, TickOn
<1>6. clock <= clock'
  BY <1>2, ClockType
<1>7. QED BY <1>2, <1>3, <1>4, <1>5, <1>6, RoutesSame

\* Nor does the step that saves, or one of the others that sends nothing.
LEMMA OthersKeepRoutes ==
  ASSUME BridgeInvariant, PoolInvariant, PoolInvariant', AskersKnown,
         \/ save \/ pass
         \/ \E m \in Msg : arrive(m) \/ markRead(m)
         \/ \E s \in Local \cup Opened : vanish(s)
  PROVE  AskersKnown'
<1>1. Shape /\ PoolTypeOK
  BY DEF BridgeInvariant, PoolInvariant
<1>2. /\ memory' = memory /\ clock' \in {clock, clock + 1}
      /\ tick' = Idle \/ (tick' = tick /\ tick.pc \in {"idle", "sweep", "prompt"})
  BY DEF save, pass, arrive, markRead, vanish, Requesting
<1>3. history'.asker = history.asker /\ history'.used = history.used
  <2>1. CASE \E m \in Msg : arrive(m)
    <3>1. PICK m \in Msg : arrive(m)
      BY <2>1
    <3> DEFINE late == {n \in {m} : \/ ~isNewerThan(m, memory.mark) \/ ~isNewerThan(m, disk.mark)
                                    \/ tick.page # {} /\ ~isNewerThan(m, Mark(Newest(tick.page)))}
    <3>2. history' = [history EXCEPT !.late = history.late \cup late]
      BY <3>1 DEF arrive
    <3> HIDE DEF late
    <3>3. QED BY <1>1, <3>2 DEF Shape, HistoryForm
  <2>2. CASE save
    <3>1. history' = [history EXCEPT !.filed = history.counted]
      BY <2>2 DEF save
    <3>2. QED BY <1>1, <3>1 DEF Shape, HistoryForm
  <2>3. QED BY <2>1, <2>2 DEF pass, markRead, vanish
<1>4. sessions.gone \subseteq sessions'.gone
  <2>1. \/ sessions' = sessions
        \/ \E s \in Local \cup Opened : sessions' = [sessions EXCEPT !.gone = sessions.gone \cup {s}]
    BY DEF save, pass, arrive, markRead, vanish
  <2>2. QED BY <1>1, <2>1 DEF PoolTypeOK
<1>5. clock <= clock'
  BY <1>2, ClockType
<1>6. tick'.pc # "open"
  BY <1>2 DEF Idle
<1>7. QED BY <1>2, <1>3, <1>4, <1>5, <1>6, RoutesSame

\* Routes that a bridge begins with: none.
LEMMA RoutesBegin ==
  /\ \A saved : Started(saved).routes = NoRoutes
  /\ Ended.routes = NoRoutes
<1>1. \A saved : Started(saved).routes = NoRoutes
  BY DEF Started
<1> DEFINE started == Started(Fresh)
<1>2. started.routes = NoRoutes /\ Ended = [started EXCEPT !.loaded = FALSE]
  BY <1>1 DEF Ended
<1>3. Ended.routes = started.routes
  BY <1>2 DEF Started
<1>4. QED BY <1>1, <1>2, <1>3

\* A bridge that has lost its routes has nobody who waits for one.
LEMMA NobodyAsked ==
  ASSUME NEW used \in [Thread -> Int], NEW gone, NEW now, \A t \in Thread : used[t] <= now
  PROVE  RoutesOK(NoRoutes, NoAsker, used, gone, now)
BY DEF RoutesOK, NoRoutes, NoAsker

\* A bridge that starts has no route, and nobody has asked.
LEMMA ListKeepsRoutes ==
  ASSUME BridgeInvariant, PoolInvariant, PoolInvariant', AskersKnown, list
  PROVE  AskersKnown'
<1> DEFINE lost == {disk.pool[k].session : k \in Known(disk.pool)}
<1>1. Shape
  BY DEF BridgeInvariant
<1>2. /\ UNCHANGED <<clock, sessions>>
      /\ \/ memory.loaded /\ UNCHANGED <<memory, history, faults>>
         \/ ~memory.loaded /\ memory' = Started(disk) /\ UNCHANGED <<history, faults>>
         \/ ~memory.loaded /\ memory' = Started(Fresh)
              /\ history' = [history EXCEPT !.left = @ \cup lost, !.counted = {}]
  BY DEF list, loadStateOnce
<1>3. tick'.pc = "sweep"
  BY DEF list, Idle
<1>4. clock <= clock'
  BY <1>2, ClockType
<1> HIDE DEF lost
<1>5. history'.asker = history.asker /\ history'.used = history.used
  BY <1>1, <1>2 DEF Shape, HistoryForm
<1>6. CASE memory.loaded
  BY <1>2, <1>3, <1>4, <1>5, <1>6, RoutesSame
<1>7. CASE ~memory.loaded
  <2>1. memory'.routes = NoRoutes
    BY <1>2, <1>7, RoutesBegin
  <2>2. history'.asker = NoAsker
    BY <1>5, <1>7 DEF AskersKnown
  <2>3. history'.used \in [Thread -> Int] /\ \A t \in Thread : history'.used[t] <= clock'
    BY <1>2, <1>5 DEF AskersKnown, RoutesOK
  <2>4. RoutesOK(NoRoutes, NoAsker, history'.used, sessions'.gone, clock')
    BY <2>3, NobodyAsked
  <2>5. QED BY <1>3, <2>1, <2>2, <2>4 DEF AskersKnown
<1>8. QED BY <1>6, <1>7

\* With the host its routes go, and whoever has asked.
LEMMA CrashKeepsRoutes ==
  ASSUME BridgeInvariant, PoolInvariant, Crash
  PROVE  AskersKnown'
<1> DEFINE left == history.left \cup (sessions.opened \ {disk.pool[k].session : k \in Topic})
<1> HIDE DEF left
<1>1. /\ Shape /\ memory' = Ended /\ tick' = Idle /\ clock' = clock
      /\ history' = [history EXCEPT !.left = left, !.counted = history.filed,
                                    !.asker = NoAsker, !.used = Unused]
  BY DEF BridgeInvariant, Crash, left
<1>2. history'.asker = NoAsker /\ history'.used = Unused /\ memory'.routes = NoRoutes
  BY <1>1, RoutesBegin DEF Shape, HistoryForm
<1>3. Unused \in [Thread -> Int] /\ \A t \in Thread : Unused[t] <= clock'
  BY <1>1, ClockType DEF Unused
<1>4. RoutesOK(NoRoutes, NoAsker, Unused, sessions'.gone, clock')
  BY <1>3, NobodyAsked
<1>5. QED BY <1>1, <1>2, <1>4 DEF AskersKnown, Idle

\* A sweep drops the routes that are too old.
LEMMA SweepKeepsRoutes ==
  ASSUME BridgeInvariant, PoolInvariant, AskersKnown, sweep
  PROVE  AskersKnown'
<1> DEFINE old == {t \in Live(memory.routes) : expired(memory.routes[t], clock)}
<1>1. Shape
  BY DEF BridgeInvariant
<1>2. PICK s \in sweepPool(memory.pool, clock), r \in sweepRoutes(memory.routes, clock) :
        \E D \in SUBSET s.archive :
          /\ archive(s.archive, D)
          /\ memory' = [memory EXCEPT !.pool = s.pool, !.routes = r]
  BY DEF sweep
<1>3. \A t \in old \cap Thread : Missed(t, history.asker, history.used, sessions.gone, clock)
  <2>1. ASSUME NEW t \in old \cap Thread PROVE history.used[t] + ttl < clock
    <3>1. memory.routes[t] # NoRoute /\ memory.routes[t].lastAt + ttl < clock
      BY DEF Live, expired
    <3>2. RouteIs(t, memory.routes, history.asker, history.used)
      BY <3>1 DEF AskersKnown, RoutesOK
    <3>3. QED BY <3>1, <3>2 DEF RouteIs
  <2>2. QED BY <2>1 DEF Missed
<1>4. RoutesOK(Drop(memory.routes, old), history.asker, history.used, sessions.gone, clock)
  BY <1>3, RoutesDropped DEF AskersKnown
<1>5. RoutesOK(r, history.asker, history.used, sessions.gone, clock)
  BY <1>2, <1>4, RoutesCapped DEF sweepRoutes
<1> HIDE DEF old
<1>6. PICK D : archive(s.archive, D) /\ memory' = [memory EXCEPT !.pool = s.pool, !.routes = r]
  BY <1>2
<1>7. memory'.routes = r /\ memory'.loaded = memory.loaded
  BY <1>1, <1>6 DEF Shape
<1>8. history'.asker = history.asker /\ history'.used = history.used
  <2> DEFINE left == history.left \cup (s.archive \ D)
  <2> HIDE DEF left
  <2>1. history' = [history EXCEPT !.left = left]
    BY <1>6 DEF archive, left
  <2>2. QED BY <1>1, <2>1 DEF Shape, HistoryForm
<1>9. sessions'.gone = sessions.gone
  <2> DEFINE archived == sessions.archived \cup D
  <2> HIDE DEF archived
  <2>1. sessions' = [sessions EXCEPT !.archived = archived]
    BY <1>6 DEF archive, archived
  <2>2. QED BY <2>1 DEF PoolInvariant, PoolTypeOK
<1>10. tick'.pc = "gate" /\ clock' = clock
  BY <1>1 DEF sweep, Shape
<1>11. QED BY <1>5, <1>7, <1>8, <1>9, <1>10 DEF AskersKnown

\* Whoever has asked and is not missed has the route that is followed.
LEMMA RouteOfAsker ==
  ASSUME BridgeInvariant, PoolInvariant, AskersKnown, Waking,
         NEW t \in Asked, routingEnabled, history.asker[t] # None,
         ~Missed(t, history.asker, history.used, sessions.gone, clock)
  PROVE  Routed = {t} /\ memory.routes[t].session = history.asker[t]
<1>1. /\ tick.pc = "gate" /\ tick.page # {} /\ PoolTypeOK /\ Mailed /\ Ownership
  BY DEF Waking, Deciding, PoolInvariant, BridgeInvariant
<1>2. tick.now = clock
  BY <1>1 DEF PoolTypeOK
<1>3. t \in Thread /\ t = mail[Newest(tick.page)].thread
  BY <1>1, AskedInUse DEF Asked
<1>4. memory.routes[t] # NoRoute /\ RouteIs(t, memory.routes, history.asker, history.used)
  BY <1>3 DEF AskersKnown, RoutesOK
<1>5. memory.routes[t].session = history.asker[t] /\ memory.routes[t].lastAt = history.used[t]
  BY <1>4 DEF RouteIs
<1>6. ~(memory.routes[t].lastAt + ttl < clock) /\ history.asker[t] \notin sessions.gone
  BY <1>5 DEF Missed
<1>7. t \in {u \in Live(memory.routes) : ~expired(memory.routes[u], tick.now)}
  BY <1>2, <1>3, <1>4, <1>6 DEF Live, expired
<1>8. routeFor(memory.routes, mail[Newest(tick.page)], tick.now) = {t}
  BY <1>3, <1>7 DEF routeFor
<1>9. memory.routes[t].session \notin memory.dead
  BY <1>1, <1>5, <1>6 DEF Ownership
<1>10. QED BY <1>5, <1>8, <1>9 DEF Routed

\* An answer refreshes the route it takes.
LEMMA RouteKeepsRoutes ==
  ASSUME BridgeInvariant, PoolInvariant, AskersKnown, NEW t \in Thread, route(t)
  PROVE  AskersKnown'
<1> DEFINE hit == Hit(memory.routes, t, tick.now)
           asker == memory.routes[t].session
           used == [history.used EXCEPT ![t] = tick.now]
           ids == memory.routes[t].ids
<1>1. /\ Shape /\ tick.pc = "gate" /\ Waking /\ t \in Routed
      /\ memory' = [memory EXCEPT !.routes = hit]
      /\ history' = [history EXCEPT !.used = used]
      /\ tick' = [tick EXCEPT !.pc = "prompt", !.session = asker, !.via = t]
      /\ UNCHANGED <<clock, sessions>>
  BY DEF route, Waking, Deciding, BridgeInvariant
<1>2. tick.now = clock /\ clock \in Int
  BY <1>1, ClockType DEF PoolInvariant, PoolTypeOK
<1>3. memory.routes[t] # NoRoute
  BY <1>1 DEF Routed, routeFor, Live
<1>4. /\ RouteIs(t, memory.routes, history.asker, history.used)
      /\ memory.routes = [u \in Thread |-> memory.routes[u]]
      /\ history.asker = [u \in Thread |-> history.asker[u]]
  BY <1>3 DEF AskersKnown, RoutesOK
<1>5. hit = [memory.routes EXCEPT ![t] = [session |-> history.asker[t], ids |-> ids, lastAt |-> clock]]
  <2> DEFINE entry == [session |-> history.asker[t], ids |-> ids, lastAt |-> history.used[t]]
  <2>1. hit = [memory.routes EXCEPT ![t] = [memory.routes[t] EXCEPT !.lastAt = clock]]
    BY <1>2 DEF Hit
  <2>2. memory.routes[t] = entry
    BY <1>4 DEF RouteIs
  <2>3. [entry EXCEPT !.lastAt = clock] =
          [session |-> history.asker[t], ids |-> ids, lastAt |-> clock]
    OBVIOUS
  <2> HIDE DEF hit, entry, ids
  <2>4. QED BY <2>1, <2>2, <2>3
<1>6. [history.asker EXCEPT ![t] = history.asker[t]] = history.asker
  BY <1>4
<1>7. RoutesOK([memory.routes EXCEPT ![t] = [session |-> history.asker[t], ids |-> ids, lastAt |-> clock]],
               [history.asker EXCEPT ![t] = history.asker[t]],
               [history.used EXCEPT ![t] = clock], sessions.gone, clock)
  <2> HIDE DEF ids
  <2>1. history.asker[t] # None /\ routingEnabled
    BY <1>4 DEF RouteIs
  <2>2. RoutesOK(memory.routes, history.asker, history.used, sessions.gone, clock)
    BY DEF AskersKnown
  <2>3. QED BY <1>2, <2>1, <2>2, AskKeeps
<1>8. RoutesOK(hit, history.asker, used, sessions.gone, clock)
  <2> HIDE DEF hit, ids
  <2>1. QED BY <1>2, <1>5, <1>6, <1>7
<1> HIDE DEF hit, asker, used, ids
<1>9. /\ memory'.routes = hit /\ memory'.loaded = memory.loaded /\ tick'.pc = "prompt"
      /\ history'.used = used /\ history'.asker = history.asker
  BY <1>1 DEF Shape, HistoryForm
<1>10. QED BY <1>1, <1>8, <1>9 DEF AskersKnown

\* A session that is taken up again, or opened, changes no route.
LEMMA UseKeepsRoutes ==
  ASSUME BridgeInvariant, PoolInvariant, PoolInvariant', AskersKnown, NEW s, Use(s),
         UNCHANGED <<clock, history>>, sessions'.gone = sessions.gone
  PROVE  AskersKnown'
<1> DEFINE used == recordUse(memory.pool, topic, s, tick.now, Cardinality(tick.page))
<1> HIDE DEF used
<1>1. /\ Shape /\ memory' = [memory EXCEPT !.pool = used]
      /\ tick' = [tick EXCEPT !.pc = "prompt", !.session = s]
  BY DEF Use, BridgeInvariant, used
<1>2. memory'.routes = memory.routes /\ memory'.loaded = memory.loaded /\ tick'.pc = "prompt"
  BY <1>1 DEF Shape
<1>3. clock <= clock'
  BY ClockType
<1>4. QED BY <1>2, <1>3, RoutesSame

\* Nobody who is not missed has asked when there is no route: another session is opened.
LEMMA RetireKeepsRoutes ==
  ASSUME BridgeInvariant, PoolInvariant, AskersKnown, retire
  PROVE  AskersKnown'
<1>1. /\ Shape /\ Waking /\ Routed = {}
      /\ tick' = [tick EXCEPT !.pc = "open"] /\ UNCHANGED <<clock, inbox, read, memory, disk>>
  BY DEF retire, BridgeInvariant
<1>2. PICK D : archive(Plan.archive, D)
  BY DEF retire
<1>3. history'.asker = history.asker /\ history'.used = history.used
  <2> DEFINE left == history.left \cup (Plan.archive \ D)
  <2> HIDE DEF left
  <2>1. history' = [history EXCEPT !.left = left]
    BY <1>2 DEF archive, left
  <2>2. QED BY <1>1, <2>1 DEF Shape, HistoryForm
<1>4. sessions'.gone = sessions.gone
  <2> DEFINE archived == sessions.archived \cup D
  <2> HIDE DEF archived
  <2>1. sessions' = [sessions EXCEPT !.archived = archived]
    BY <1>2 DEF archive, archived
  <2>2. QED BY <2>1 DEF PoolInvariant, PoolTypeOK
<1>5. tick'.page = tick.page
  BY <1>1 DEF Shape
<1>6. \A u \in Asked : routingEnabled /\ history.asker[u] # None =>
        Missed(u, history.asker, history.used, sessions.gone, clock)
  BY <1>1, RouteOfAsker
<1>7. QED BY <1>1, <1>3, <1>4, <1>5, <1>6 DEF AskersKnown, Asked

\* The routes that are forgotten are those of a session that is gone.
LEMMA NotFoundKeepsRoutes ==
  ASSUME BridgeInvariant, AskersKnown, promptNotFound
  PROVE  AskersKnown'
<1> DEFINE dead == memory.dead \cup {tick.session}
           own == {t \in Live(memory.routes) : memory.routes[t].session = tick.session}
           routes == forgetRoutesForSession(memory.routes, tick.session)
<1>1. /\ Shape /\ tick' = [tick EXCEPT !.pc = "save"] /\ tick.session \in sessions.gone
      /\ memory' = [memory EXCEPT !.dead = dead, !.routes = routes]
      /\ UNCHANGED <<clock, sessions, history>>
  BY DEF promptNotFound, BridgeInvariant
<1>2. \A t \in own \cap Thread : Missed(t, history.asker, history.used, sessions.gone, clock)
  <2>1. ASSUME NEW t \in own \cap Thread PROVE history.asker[t] = tick.session
    <3>1. memory.routes[t] # NoRoute /\ memory.routes[t].session = tick.session
      BY DEF Live
    <3>2. RouteIs(t, memory.routes, history.asker, history.used)
      BY <3>1 DEF AskersKnown, RoutesOK
    <3>3. QED BY <3>1, <3>2 DEF RouteIs
  <2>2. QED BY <1>1, <2>1 DEF Missed
<1>3. RoutesOK(routes, history.asker, history.used, sessions.gone, clock)
  BY <1>2, RoutesDropped DEF AskersKnown, forgetRoutesForSession
<1> HIDE DEF dead, own, routes
<1>4. memory'.routes = routes /\ memory'.loaded = memory.loaded /\ tick'.pc = "save"
  BY <1>1 DEF Shape
<1>5. QED BY <1>1, <1>3, <1>4 DEF AskersKnown

\* Whoever sends has the route of the thread.
LEMMA OutboundKeepsRoutes ==
  ASSUME BridgeInvariant, PoolInvariant, AskersKnown, NEW x \in Sends, recordOutbound(x)
  PROVE  AskersKnown'
<1> DEFINE asker == [history.asker EXCEPT ![x.thread] = x.session]
           used == [history.used EXCEPT ![x.thread] = clock]
<1>1. /\ Shape /\ clock \in Int /\ x.thread \in Thread /\ x.session # None
      /\ memory.loaded /\ UNCHANGED <<clock, tick, sessions>> /\ tick.pc # "open"
  BY ClockType, KeysAssumption DEF recordOutbound, Requesting, BridgeInvariant
<1>2. PICK r \in registerRoute(memory.routes, x.thread, x.id, x.session, clock) :
        memory' = [memory EXCEPT !.routes = r]
  BY DEF recordOutbound
<1>3. RoutesOK(memory.routes, history.asker, history.used, sessions.gone, clock)
  BY DEF AskersKnown
<1>4. RoutesOK(r, asker, used, sessions.gone, clock)
  <2>1. CASE ~routingEnabled
    <3>1. r = memory.routes /\ \A t \in Thread : memory.routes[t] = NoRoute
      BY <1>2, <1>3, <2>1 DEF registerRoute, RoutesOK, RouteIs
    <3>2. used \in [Thread -> Int] /\ \A t \in Thread : used[t] <= clock
      BY <1>1, <1>3 DEF RoutesOK
    <3>3. asker = [t \in Thread |-> asker[t]] /\ memory.routes = [t \in Thread |-> memory.routes[t]]
      BY <1>3 DEF RoutesOK
    <3> HIDE DEF asker, used
    <3>4. QED BY <2>1, <3>1, <3>2, <3>3 DEF RoutesOK
  <2>2. CASE routingEnabled
    <3> DEFINE own == memory.routes[x.thread] # NoRoute /\ memory.routes[x.thread].session = x.session
               kept == IF own THEN memory.routes[x.thread].ids ELSE <<>>
               ids == Remembered(kept, x.id)
    <3>1. r \in enforceCap([memory.routes EXCEPT ![x.thread] =
                              [session |-> x.session, ids |-> ids, lastAt |-> clock]])
      BY <1>2, <2>2 DEF registerRoute
    <3> HIDE DEF own, kept, ids
    <3>2. RoutesOK([memory.routes EXCEPT ![x.thread] =
                      [session |-> x.session, ids |-> ids, lastAt |-> clock]],
                   asker, used, sessions.gone, clock)
      BY <1>1, <1>3, <2>2, AskKeeps
    <3>3. QED BY <3>1, <3>2, RoutesCapped
  <2>3. QED BY <2>1, <2>2
<1>5. history' = [history EXCEPT !.asker = asker, !.used = used, !.sent = history.sent \cup {x}]
  <2>1. history' = [history EXCEPT !.asker[x.thread] = x.session, !.used[x.thread] = clock,
                                    !.sent = @ \cup {x}]
    BY DEF recordOutbound
  <2>2. QED BY <1>1, <2>1 DEF Shape, HistoryForm
<1> HIDE DEF asker, used
<1>6. /\ memory'.routes = r /\ memory'.loaded /\ history'.asker = asker /\ history'.used = used
  BY <1>1, <1>2, <1>5 DEF Shape, HistoryForm
<1>7. QED BY <1>1, <1>4, <1>6 DEF AskersKnown

\* Nobody has asked at first.
LEMMA InitGivesRoutes == Init => AskersKnown
<1> SUFFICES ASSUME Init PROVE AskersKnown
  OBVIOUS
<1>1. /\ memory.routes = NoRoutes /\ history.asker = NoAsker /\ history.used = Unused
      /\ tick.pc = "idle" /\ clock = 0
  BY RoutesBegin DEF Init, Idle
<1>2. Unused \in [Thread -> Int] /\ \A t \in Thread : Unused[t] <= clock
  BY <1>1 DEF Unused
<1>3. QED BY <1>1, <1>2, NobodyAsked DEF AskersKnown

\* A step of anyone keeps what is known of those who have asked.
LEMMA StepKeepsRoutes ==
  ASSUME BridgeInvariant, PoolInvariant, PoolInvariant', AskersKnown, [Next]_vars
  PROVE  AskersKnown'
<1>1. CASE list BY <1>1, ListKeepsRoutes
<1>2. CASE sweep BY <1>2, SweepKeepsRoutes
<1>3. CASE hold \/ drop \/ openFails \/ prompted \/ promptFails BY <1>3, TurnKeepsRoutes
<1>4. CASE reuse BY <1>4, UseKeepsRoutes DEF reuse
<1>5. CASE retire BY <1>5, RetireKeepsRoutes
<1>6. CASE promptNotFound BY <1>6, NotFoundKeepsRoutes
<1>7. CASE Crash BY <1>7, CrashKeepsRoutes
<1>8. CASE \E t \in Thread : route(t) BY <1>8, RouteKeepsRoutes
<1>9. CASE \E s \in Opened : openSession(s)
  <2>1. PICK s \in Opened : openSession(s)
    BY <1>9
  <2>2. sessions' = [sessions EXCEPT !.opened = sessions.opened \cup {s}]
    BY <2>1 DEF openSession
  <2>3. sessions'.gone = sessions.gone
    BY <2>2 DEF PoolInvariant, PoolTypeOK
  <2>4. QED BY <2>1, <2>3, UseKeepsRoutes DEF openSession
<1>10. CASE \E x \in Sends : recordOutbound(x) BY <1>10, OutboundKeepsRoutes
<1>11. CASE \/ save \/ pass
            \/ \E m \in Msg : arrive(m) \/ markRead(m)
            \/ \E s \in Local \cup Opened : vanish(s)
  BY <1>11, OthersKeepRoutes
<1>12. CASE UNCHANGED vars
  BY <1>12 DEF vars, AskersKnown, Asked
<1>13. QED BY <1>1, <1>2, <1>3, <1>4, <1>5, <1>6, <1>7, <1>8, <1>9, <1>10, <1>11, <1>12 DEF Next

\* The session a step chooses is that of whoever asked on the thread of the newest message,
\* unless that one is missed.
LEMMA ChoiceReachesAsker ==
  ASSUME BridgeInvariant, PoolInvariant, AskersKnown, [Next]_vars, Choosing
  PROVE  AskerGets(Newest(tick.page))
<1> DEFINE t == mail[Newest(tick.page)].thread
<1>1. SUFFICES ASSUME /\ t \in Thread /\ routingEnabled /\ history.asker[t] # None
                      /\ tick.now - history.used[t] <= ttl
                      /\ ~(Cardinality({u \in Thread \ {t} : history.used[u] >= history.used[t]})
                             >= maxRoutes)
                      /\ history.asker[t] \notin sessions.gone
               PROVE  tick'.session = history.asker[t]
  <2> DEFINE S == {u \in Thread \ {t} : history.used[u] >= history.used[t]}
  <2>1. S \subseteq Thread
    OBVIOUS
  <2>2. Cardinality(S) \in Nat /\ maxRoutes \in Nat
    BY <2>1, ThreadsCounted, RouteAssumption
  <2>3. Cardinality(S) < maxRoutes => ~(Cardinality(S) >= maxRoutes)
    <3> HIDE DEF S
    <3>1. QED BY <2>2
  <2>4. QED BY <1>1, <2>3 DEF AskerGets
<1>2. Shape /\ tick.pc # "prompt" /\ tick'.pc = "prompt"
  BY DEF Choosing, BridgeInvariant
<1>3. \/ \E u \in Thread : route(u)
      \/ reuse
      \/ \E s \in Opened : openSession(s)
  <2>1. CASE list \/ save \/ Crash
    <3>1. list => tick'.pc = "sweep"
      <4> DEFINE page == {m \in Listed : isNewerThan(m, memory'.mark)}
      <4>1. list => tick' = [Idle EXCEPT !.pc = "sweep", !.page = page]
        BY DEF list
      <4> HIDE DEF page
      <4>2. QED BY <4>1 DEF Idle
    <3>2. save \/ Crash => tick'.pc = "idle"
      BY DEF save, Crash, Idle
    <3>3. QED BY <1>2, <2>1, <3>1, <3>2
  <2>2. CASE sweep \/ hold \/ drop \/ retire \/ openFails \/ prompted \/ promptNotFound \/ promptFails
    BY <1>2, <2>2 DEF sweep, hold, drop, retire, openFails, prompted, promptNotFound, promptFails, Shape
  <2>3. CASE \/ pass \/ UNCHANGED vars
             \/ \E m \in Msg : arrive(m) \/ markRead(m)
             \/ \E x \in Sends : recordOutbound(x)
             \/ \E s \in Local \cup Opened : vanish(s)
    BY <1>2, <2>3 DEF pass, vars, arrive, markRead, recordOutbound, vanish
  <2>4. QED BY <2>1, <2>2, <2>3 DEF Next
<1>4. tick.now = clock /\ clock \in Int /\ ttl \in Int
  <2>1. tick.pc \in {"gate", "open"}
    BY <1>3 DEF route, reuse, openSession, Waking, Deciding
  <2>2. QED BY <2>1, ClockType DEF PoolInvariant, PoolTypeOK
<1>5. ~Missed(t, history.asker, history.used, sessions.gone, clock)
  <2>1. history.used[t] \in Int
    BY <1>1 DEF AskersKnown, RoutesOK
  <2>2. QED BY <1>1, <1>4, <2>1 DEF Missed, Crowded
<1>6. t \in Asked
  BY <1>1, KeysAssumption DEF Asked
<1> HIDE DEF t
<1>7. CASE \E u \in Thread : route(u)
  <2>1. PICK u \in Thread : route(u)
    BY <1>7
  <2>2. Routed = {t} /\ memory.routes[t].session = history.asker[t]
    BY <1>1, <1>5, <1>6, <2>1, RouteOfAsker DEF route
  <2>3. tick'.session = memory.routes[u].session /\ u \in Routed
    BY <1>2, <2>1 DEF route, Shape
  <2>4. QED BY <2>2, <2>3
<1>8. CASE reuse
  BY <1>1, <1>5, <1>6, <1>8, RouteOfAsker DEF reuse
<1>9. CASE \E s \in Opened : openSession(s)
  BY <1>1, <1>5, <1>6, <1>9 DEF openSession, AskersKnown
<1>10. QED BY <1>3, <1>7, <1>8, <1>9

\* The bridge gives the newest message of a page to the session that asked last on its
\* thread, while the route is young, the session is there, and the table has had room for
\* the threads used since (routeFor, registerRoute, enforceCap).
THEOREM AnswerReachesAskerHolds == Spec => AnswerReachesAsker
<1>1. BridgeInvariant /\ PoolInvariant /\ PoolInvariant' /\ AskersKnown /\ [Next]_vars => AskersKnown'
  BY StepKeepsRoutes
<1>2. BridgeInvariant /\ PoolInvariant /\ AskersKnown /\ [Next]_vars
        => [Choosing => AskerGets(Newest(tick.page))]_vars
  BY ChoiceReachesAsker
<1>3. QED BY <1>1, <1>2, InitGivesRoutes, BridgeInvariantHolds, PoolInvariantHolds, PTL
          DEF Spec, AnswerReachesAsker

-----------------------------------------------------------------------------
(* The loop guard: how often a thread, and the bridge, can have woken.     *)

WindowOf == [wakes : 1 .. maxThreadWakes, windowStart : Nat, lastAt : Nat]

InWindow(w, now) == w # None /\ now - w.windowStart <= threadWindow

\* What the tick in progress takes for the time, or the next one will at the earliest.
Moment == IF tick.pc \in {"gate", "open", "prompt", "save"} THEN tick.now ELSE clock

Since(W, a) == {w \in W : w.at >= a}
SinceOn(W, k, a) == {w \in W : w.topic = k /\ w.at >= a}
Counts(W, k) == [a \in Nat |-> Cardinality(SinceOn(W, k, a))]

SpanOn(W, k, a) == {w \in W : w.topic = k /\ w.at \in a .. a + threadWindow}
HourFrom(W, a) == {w \in W : w.at >= a /\ w.at < a + wakeHour}

CountFrom(times, a) == Cardinality({i \in 1 .. Len(times) : times[i] >= a})

\* The wakes c of a thread since each time, of which its window w has counted some: the
\* others, and not all of a budget, are of the window before.
Guarded(c, w, now) ==
  \A a \in Nat : a >= now - threadWindow =>
    IF InWindow(w, now)
    THEN c[a] <= w.wakes - 1 + (IF a > w.windowStart THEN 0 ELSE maxThreadWakes)
    ELSE c[a] <= maxThreadWakes - 1

\* The wakes W, of which the counters of the threads and the times of the hour know:
\* all of the last hour, and no span holds more than it may.
Budgeted(W, threads, times, now) ==
  /\ threads \in [Topic -> WindowOf \cup {None}]
  /\ times \in Seq(Nat) /\ Len(times) <= maxWakesPerHour
  /\ IsFiniteSet(W)
  /\ \A w \in W : w.topic \in Topic /\ w.at \in Nat /\ w.at <= now
  /\ \A a \in Nat : a > now - wakeHour => Cardinality(Since(W, a)) <= CountFrom(times, a)
  /\ \A k \in Topic : Guarded(Counts(W, k), threads[k], now)
  /\ \A a \in Nat : /\ Cardinality(HourFrom(W, a)) <= maxWakesPerHour
                    /\ \A k \in Topic : Cardinality(SpanOn(W, k, a)) <= 2 * maxThreadWakes - 1

\* A tick that has passed the gate may wake once.
GateOpen ==
  tick.pc \in {"open", "prompt"} =>
    /\ topic \in Topic /\ Len(LastHour(tick.now)) < maxWakesPerHour
    /\ InWindow(memory.threads[topic], tick.now) => memory.threads[topic].wakes < maxThreadWakes

\* The inductive form of LoopGuard: the counters in memory know of the wakes on record, and
\* those of the file of the wakes that were on record when it was written.
LoopInvariant ==
  /\ memory.loaded => Budgeted(history.counted, memory.threads, memory.wakeTimes, Moment)
  /\ Budgeted(history.filed, disk.threads, disk.wakeTimes, Moment)
  /\ GateOpen

-----------------------------------------------------------------------------
(* Counting.                                                               *)

\* The numbers of the policy.
LEMMA PolicyTypes ==
  /\ maxThreadWakes \in Nat \ {0} /\ maxWakesPerHour \in Nat \ {0}
  /\ threadWindow \in Nat /\ wakeHour \in Nat
BY BridgeAssumption

\* With one element more, a set counts one more at most.
LEMMA OneMore ==
  ASSUME NEW S, IsFiniteSet(S), NEW w, NEW T, NEW U, T \subseteq S, U \subseteq T \cup {w}
  PROVE  /\ IsFiniteSet(T) /\ IsFiniteSet(U) /\ Cardinality(T) \in Nat /\ Cardinality(U) \in Nat
         /\ Cardinality(U) <= Cardinality(T) + 1
<1>1. IsFiniteSet(T)
  BY FS_Subset
<1>2. /\ IsFiniteSet(T \cup {w}) /\ Cardinality(T) \in Nat
      /\ Cardinality(T \cup {w}) \in {Cardinality(T), Cardinality(T) + 1}
  BY <1>1, FS_AddElement, FS_CardinalityType
<1>3. IsFiniteSet(U) /\ Cardinality(U) <= Cardinality(T \cup {w}) /\ Cardinality(U) \in Nat
  BY <1>2, FS_Subset, FS_CardinalityType
<1>4. QED BY <1>1, <1>2, <1>3

\* Part of a finite set counts no more than all of it.
LEMMA CountedPart ==
  ASSUME NEW S, IsFiniteSet(S), NEW T, T \subseteq S
  PROVE  Cardinality(T) \in Nat /\ Cardinality(S) \in Nat /\ Cardinality(T) <= Cardinality(S)
BY FS_Subset, FS_CardinalityType

\* The places of a list, counted.
LEMMA PlacesCounted ==
  ASSUME NEW n \in Nat PROVE IsFiniteSet(1 .. n) /\ Cardinality(1 .. n) = n
<1>1. 1 \in Int /\ n \in Int
  OBVIOUS
<1>2. IsFiniteSet(1 .. n) /\ Cardinality(1 .. n) = IF 1 > n THEN 0 ELSE n - 1 + 1
  BY <1>1, FS_Interval
<1>3. QED BY <1>2

\* What a list counts from a time on is no more than its length.
LEMMA CountFromType ==
  ASSUME NEW times \in Seq(Nat), NEW a \in Nat
  PROVE  CountFrom(times, a) \in Nat /\ CountFrom(times, a) <= Len(times) /\ Len(times) \in Nat
<1>1. PICK n \in Nat : n = Len(times)
  OBVIOUS
<1>2. IsFiniteSet(1 .. n) /\ Cardinality(1 .. n) = n
  BY PlacesCounted
<1>3. {i \in 1 .. Len(times) : times[i] >= a} \subseteq 1 .. Len(times)
  OBVIOUS
<1>4. QED BY <1>1, <1>2, <1>3, CountedPart DEF CountFrom

\* A list without the times before a counts as much from a on.
LEMMA CountFromFilter ==
  ASSUME NEW times \in Seq(Nat), NEW S, NEW a \in Nat,
         \A i \in 1 .. Len(times) : times[i] >= a => times[i] \in S
  PROVE  CountFrom(times, a) <= CountFrom(Filter(times, S), a)
<1>1. PICK some \in Seq(Nat) : some = Filter(times, S)
  BY FilterIs
<1>2. PICK places : Places(places, some, times, S, Len(times))
  BY <1>1, FilterIs
<1>3. Len(some) \in Nat /\ Len(times) \in Nat
  OBVIOUS
<1> DEFINE left == {j \in 1 .. Len(some) : some[j] >= a}
           all == {i \in 1 .. Len(times) : times[i] >= a}
<1>4. IsFiniteSet(left)
  <2>1. left \subseteq 1 .. Len(some)
    OBVIOUS
  <2>2. QED BY <1>3, <2>1, PlacesCounted, FS_Subset
<1>5. \A j \in left : places[j] \in all
  <2>1. ASSUME NEW j \in left PROVE places[j] \in all
    <3>1. places[j] \in 1 .. Len(times)
      BY <1>2, <2>1 DEF Places
    <3>2. some[j] = times[places[j]]
      BY <1>2, <2>1 DEF Places
    <3>3. QED BY <3>1, <3>2
  <2>2. QED BY <2>1
<1>6. \A i \in all : \E j \in left : places[j] = i
  <2>1. ASSUME NEW i \in all PROVE \E j \in left : places[j] = i
    <3>1. PICK j \in 1 .. Len(some) : places[j] = i
      BY <1>2, <2>1 DEF Places
    <3>2. some[j] = times[i]
      BY <1>2, <3>1 DEF Places
    <3>3. QED BY <3>1, <3>2
  <2>2. QED BY <2>1
<1> DEFINE g == [j \in left |-> places[j]]
<1>7. g \in Surjection(left, all)
  <2>1. g \in [left -> all]
    BY <1>5
  <2>2. \A i \in all : \E j \in left : g[j] = i
    BY <1>6
  <2> HIDE DEF g, left, all
  <2>3. QED BY <2>1, <2>2 DEF Surjection
<1>8. Cardinality(all) <= Cardinality(left)
  <2> HIDE DEF left, all, g
  <2>1. QED BY <1>4, <1>7, FS_Surjection
<1>9. QED BY <1>1, <1>8 DEF CountFrom

\* A time more, at or behind a, is counted.
LEMMA CountFromAppend ==
  ASSUME NEW times \in Seq(Nat), NEW x \in Nat, NEW a \in Nat
  PROVE  /\ CountFrom(times, a) <= CountFrom(Append(times, x), a)
         /\ a <= x => CountFrom(Append(times, x), a) = CountFrom(times, a) + 1
<1>1. PICK more \in Seq(Nat) : more = Append(times, x)
  BY AppendProperties
<1>2. /\ Len(more) = Len(times) + 1 /\ more[Len(times) + 1] = x /\ Len(times) \in Nat
      /\ \A i \in 1 .. Len(times) : more[i] = times[i]
  BY <1>1, AppendProperties
<1> DEFINE old == {i \in 1 .. Len(times) : times[i] >= a}
           new == {i \in 1 .. Len(more) : more[i] >= a}
<1>3. IsFiniteSet(old)
  <2>1. old \subseteq 1 .. Len(times)
    OBVIOUS
  <2>2. QED BY <1>2, <2>1, PlacesCounted, FS_Subset
<1>4. Len(times) + 1 \notin old
  BY <1>2
<1>5. 1 .. Len(more) = 1 .. Len(times) \cup {Len(times) + 1}
  BY <1>2
<1>6. (a <= x => new = old \cup {Len(times) + 1}) /\ (~(a <= x) => new = old)
  <2>1. \A i \in 1 .. Len(times) : i \in new <=> i \in old
    BY <1>2, <1>5
  <2>2. Len(times) + 1 \in new <=> x >= a
    BY <1>2, <1>5
  <2>3. new \subseteq 1 .. Len(times) \cup {Len(times) + 1} /\ old \subseteq 1 .. Len(times)
    BY <1>5
  <2>4. x >= a <=> a <= x
    OBVIOUS
  <2> HIDE DEF new, old
  <2>5. QED BY <1>4, <2>1, <2>2, <2>3, <2>4
<1>7. Cardinality(old) \in Nat
  BY <1>3, FS_CardinalityType
<1>8. Cardinality(old \cup {Len(times) + 1}) = Cardinality(old) + 1
  <2> HIDE DEF old
  <2>1. PICK n : n = Len(times) + 1
    OBVIOUS
  <2>2. QED BY <1>3, <1>4, <2>1, FS_AddElement
<1>9. CountFrom(Append(times, x), a) = Cardinality(new) /\ CountFrom(times, a) = Cardinality(old)
  BY <1>1 DEF CountFrom
<1> HIDE DEF old, new
<1>10. CASE a <= x
  <2>1. new = old \cup {Len(times) + 1}
    BY <1>6, <1>10
  <2>2. Cardinality(new) = Cardinality(old) + 1
    BY <1>8, <2>1
  <2>3. QED BY <1>7, <1>9, <2>2
<1>11. CASE ~(a <= x)
  BY <1>6, <1>7, <1>9, <1>11
<1>12. QED BY <1>10, <1>11

-----------------------------------------------------------------------------
(* The window of a thread.                                                 *)

\* A window is not the absence of one.
LEMMA WindowIs ==
  ASSUME NEW w \in WindowOf
  PROVE  w # None /\ w.wakes \in 1 .. maxThreadWakes /\ w.windowStart \in Nat
<1>1. w \in [wakes : Nat, windowStart : Nat, lastAt : Nat]
  BY PolicyTypes DEF WindowOf
<1>2. QED BY <1>1, KeysAssumption DEF WindowOf

\* What is guarded stays so as time passes.
LEMMA GuardedLater ==
  ASSUME NEW c \in [Nat -> Nat], NEW w \in WindowOf \cup {None}, NEW now \in Nat,
         Guarded(c, w, now), NEW later \in Nat, now <= later
  PROVE  Guarded(c, w, later)
<1> SUFFICES ASSUME NEW a \in Nat, a >= later - threadWindow
             PROVE  IF InWindow(w, later)
                    THEN c[a] <= w.wakes - 1 + (IF a > w.windowStart THEN 0 ELSE maxThreadWakes)
                    ELSE c[a] <= maxThreadWakes - 1
  BY DEF Guarded
<1>1. a >= now - threadWindow
  BY PolicyTypes
<1>2. IF InWindow(w, now)
      THEN c[a] <= w.wakes - 1 + (IF a > w.windowStart THEN 0 ELSE maxThreadWakes)
      ELSE c[a] <= maxThreadWakes - 1
  BY <1>1 DEF Guarded
<1>3. c[a] \in Nat
  OBVIOUS
<1>4. CASE ~InWindow(w, now)
  <2>1. ~InWindow(w, later)
    BY <1>4, PolicyTypes, WindowIs DEF InWindow
  <2>2. QED BY <1>2, <1>3, <1>4, <2>1, PolicyTypes
<1>5. CASE InWindow(w, now)
  <2>1. w \in WindowOf
    BY <1>5 DEF InWindow
  <2>2. w # None /\ w.wakes \in 1 .. maxThreadWakes /\ w.windowStart \in Nat
    BY <2>1, WindowIs
  <2>3. c[a] <= w.wakes - 1 + (IF a > w.windowStart THEN 0 ELSE maxThreadWakes)
    BY <1>2, <1>5
  <2>4. CASE InWindow(w, later)
    BY <1>3, <2>2, <2>3, <2>4, PolicyTypes
  <2>5. CASE ~InWindow(w, later)
    <3>1. a > w.windowStart
      BY <2>2, <2>5, PolicyTypes DEF InWindow
    <3>2. QED BY <1>3, <2>2, <2>3, <2>5, <3>1, PolicyTypes
  <2>6. QED BY <2>4, <2>5
<1>6. QED BY <1>4, <1>5

\* A span holds less than twice the budget.
LEMMA GuardedTwice ==
  ASSUME NEW c \in [Nat -> Nat], NEW w \in WindowOf \cup {None}, NEW now \in Nat, Guarded(c, w, now),
         NEW a \in Nat, a >= now - threadWindow
  PROVE  c[a] <= 2 * maxThreadWakes - 1
<1>1. IF InWindow(w, now)
      THEN c[a] <= w.wakes - 1 + (IF a > w.windowStart THEN 0 ELSE maxThreadWakes)
      ELSE c[a] <= maxThreadWakes - 1
  BY DEF Guarded
<1>2. c[a] \in Nat
  OBVIOUS
<1>3. CASE InWindow(w, now)
  <2>1. w.wakes \in 1 .. maxThreadWakes /\ w.windowStart \in Nat
    BY <1>3, WindowIs DEF InWindow
  <2>2. QED BY <1>1, <1>2, <1>3, <2>1, PolicyTypes
<1>4. CASE ~InWindow(w, now)
  BY <1>1, <1>2, <1>4, PolicyTypes
<1>5. QED BY <1>3, <1>4

\* A wake that the gate lets pass is counted in the window, or begins one.
LEMMA GuardedWake ==
  ASSUME NEW c \in [Nat -> Nat], NEW d \in [Nat -> Nat], NEW w \in WindowOf \cup {None},
         NEW now \in Nat, Guarded(c, w, now),
         \A a \in Nat : d[a] <= c[a] + 1, \A a \in Nat : a > now => d[a] = 0,
         InWindow(w, now) => w.wakes < maxThreadWakes, NEW new \in WindowOf,
         new.wakes = IF InWindow(w, now) THEN w.wakes + 1 ELSE 1,
         new.windowStart = IF InWindow(w, now) THEN w.windowStart ELSE now
  PROVE  Guarded(d, new, now)
<1>1. new # None /\ new.wakes \in 1 .. maxThreadWakes /\ new.windowStart \in Nat
  BY WindowIs
<1>2. InWindow(new, now)
  BY <1>1, PolicyTypes DEF InWindow
<1> SUFFICES ASSUME NEW a \in Nat, a >= now - threadWindow
             PROVE  d[a] <= new.wakes - 1 + (IF a > new.windowStart THEN 0 ELSE maxThreadWakes)
  BY <1>2 DEF Guarded
<1>3. IF InWindow(w, now)
      THEN c[a] <= w.wakes - 1 + (IF a > w.windowStart THEN 0 ELSE maxThreadWakes)
      ELSE c[a] <= maxThreadWakes - 1
  BY DEF Guarded
<1>4. c[a] \in Nat /\ d[a] \in Nat /\ d[a] <= c[a] + 1 /\ (a > now => d[a] = 0)
  OBVIOUS
<1>5. CASE InWindow(w, now)
  <2>1. w.wakes \in 1 .. maxThreadWakes /\ w.windowStart \in Nat
    BY <1>5, WindowIs DEF InWindow
  <2>2. QED BY <1>1, <1>3, <1>4, <1>5, <2>1, PolicyTypes
<1>6. CASE ~InWindow(w, now)
  BY <1>1, <1>3, <1>4, <1>6, PolicyTypes
<1>7. QED BY <1>5, <1>6

\* A filtered list is not longer.
LEMMA FilterShorter ==
  ASSUME NEW T, NEW times \in Seq(T), NEW S
  PROVE  Len(Filter(times, S)) <= Len(times) /\ Len(Filter(times, S)) \in Nat
<1>1. PICK some \in Seq(T) : some = Filter(times, S)
  BY FilterIs
<1>2. PICK places : Places(places, some, times, S, Len(times))
  BY <1>1, FilterIs
<1>3. PICK n \in Nat : n = Len(some)
  OBVIOUS
<1>4. PICK m \in Nat : m = Len(times)
  OBVIOUS
<1>5. places \in [1 .. n -> 1 .. m] /\ \A j, k \in 1 .. n : j < k => places[j] < places[k]
  BY <1>2, <1>3, <1>4 DEF Places
<1>6. ASSUME NEW j \in 1 .. n, NEW k \in 1 .. n, places[j] = places[k] PROVE j = k
  <2>1. places[j] \in Nat /\ places[k] \in Nat /\ j \in Nat /\ k \in Nat
    BY <1>5
  <2>2. ~(j < k) /\ ~(k < j)
    BY <1>5, <1>6, <2>1
  <2>3. QED BY <2>1, <2>2
<1>7. places \in Injection(1 .. n, 1 .. m)
  BY <1>5, <1>6 DEF Injection, IsInjective
<1>8. Cardinality(1 .. n) <= Cardinality(1 .. m)
  BY <1>7, PlacesCounted, FS_Injection
<1>9. n <= m
  BY <1>8, PlacesCounted
<1>10. QED BY <1>1, <1>3, <1>4, <1>9

-----------------------------------------------------------------------------

-----------------------------------------------------------------------------
(* The budgets.                                                            *)

\* Wakes that are finitely many are counted by numbers.
LEMMA CountsType ==
  ASSUME NEW W, IsFiniteSet(W)
  PROVE  \A k \in Topic, a \in Nat :
           /\ Counts(W, k) \in [Nat -> Nat] /\ Cardinality(Since(W, a)) \in Nat
           /\ Cardinality(HourFrom(W, a)) \in Nat /\ Cardinality(SpanOn(W, k, a)) \in Nat
<1>1. ASSUME NEW k \in Topic, NEW a \in Nat
      PROVE  /\ Cardinality(SinceOn(W, k, a)) \in Nat /\ Cardinality(Since(W, a)) \in Nat
             /\ Cardinality(HourFrom(W, a)) \in Nat /\ Cardinality(SpanOn(W, k, a)) \in Nat
  <2>1. /\ SinceOn(W, k, a) \subseteq W /\ Since(W, a) \subseteq W
        /\ HourFrom(W, a) \subseteq W /\ SpanOn(W, k, a) \subseteq W
    BY DEF SinceOn, Since, HourFrom, SpanOn
  <2>2. QED BY <2>1, CountedPart
<1>2. QED BY <1>1 DEF Counts

\* What is in budget stays so as time passes.
LEMMA BudgetLater ==
  ASSUME NEW W, NEW threads, NEW times, NEW now \in Nat, NEW later \in Nat, now <= later,
         Budgeted(W, threads, times, now)
  PROVE  Budgeted(W, threads, times, later)
<1>1. IsFiniteSet(W) /\ threads \in [Topic -> WindowOf \cup {None}]
  BY DEF Budgeted
<1>2. ASSUME NEW k \in Topic PROVE Guarded(Counts(W, k), threads[k], later)
  <2>1. Counts(W, k) \in [Nat -> Nat] /\ threads[k] \in WindowOf \cup {None}
    <3>1. 0 \in Nat
      OBVIOUS
    <3>2. QED BY <1>1, <3>1, CountsType
  <2>2. Guarded(Counts(W, k), threads[k], now)
    BY DEF Budgeted
  <2>3. QED BY <2>1, <2>2, GuardedLater
<1>3. ASSUME NEW a \in Nat, a > later - wakeHour
      PROVE  Cardinality(Since(W, a)) <= CountFrom(times, a)
  <2>1. a > now - wakeHour
    BY <1>3, PolicyTypes
  <2>2. QED BY <2>1 DEF Budgeted
<1>4. ASSUME NEW w \in W PROVE w.topic \in Topic /\ w.at \in Nat /\ w.at <= later
  <2>1. w.topic \in Topic /\ w.at \in Nat /\ w.at <= now
    BY DEF Budgeted
  <2>2. QED BY <2>1
<1>5. QED BY <1>2, <1>3, <1>4 DEF Budgeted

\* A bridge that has woken nobody is in budget.
LEMMA BudgetBegins ==
  ASSUME NEW now \in Nat PROVE Budgeted({}, [k \in Topic |-> None], <<>>, now)
<1>1. \A a, k : /\ Cardinality(Since({}, a)) = 0 /\ Cardinality(HourFrom({}, a)) = 0
                /\ Cardinality(SpanOn({}, k, a)) = 0 /\ Cardinality(SinceOn({}, k, a)) = 0
  BY FS_EmptySet DEF Since, HourFrom, SpanOn, SinceOn
<1>2. \A k \in Topic, a \in Nat : Counts({}, k)[a] = 0
  BY <1>1 DEF Counts
<1>3. \A k \in Topic : Guarded(Counts({}, k), None, now)
  BY <1>2, PolicyTypes DEF Guarded, InWindow
<1>4. ASSUME NEW a \in Nat PROVE Cardinality(Since({}, a)) <= CountFrom(<<>>, a)
  <2>1. <<>> \in Seq(Nat)
    OBVIOUS
  <2>2. CountFrom(<<>>, a) \in Nat
    BY <2>1, CountFromType
  <2>3. QED BY <1>1, <2>2
<1>5. <<>> \in Seq(Nat) /\ Len(<<>>) <= maxWakesPerHour
  BY PolicyTypes
<1>6. IsFiniteSet({})
  BY FS_EmptySet
<1>7. 0 <= maxWakesPerHour /\ 0 <= 2 * maxThreadWakes - 1
  BY PolicyTypes
<1>8. QED BY <1>1, <1>3, <1>4, <1>5, <1>6, <1>7 DEF Budgeted

\* Counters may forget a window that is over, and times behind the hour.
LEMMA BudgetRolls ==
  ASSUME NEW W, NEW threads, NEW times, NEW now \in Nat, Budgeted(W, threads, times, now),
         NEW rolled \in [Topic -> WindowOf \cup {None}], NEW last \in Seq(Nat),
         Len(last) <= maxWakesPerHour,
         \A k \in Topic : \/ rolled[k] = threads[k]
                          \/ rolled[k] = None /\ ~InWindow(threads[k], now),
         \A a \in Nat : a > now - wakeHour => CountFrom(times, a) <= CountFrom(last, a)
  PROVE  Budgeted(W, rolled, last, now)
<1>1. IsFiniteSet(W) /\ times \in Seq(Nat)
  BY DEF Budgeted
<1>2. ASSUME NEW k \in Topic PROVE Guarded(Counts(W, k), rolled[k], now)
  <2>1. Guarded(Counts(W, k), threads[k], now)
    BY DEF Budgeted
  <2>2. ~InWindow(threads[k], now) => Guarded(Counts(W, k), None, now)
    BY <2>1 DEF Guarded, InWindow
  <2>3. QED BY <2>1, <2>2
<1>3. ASSUME NEW a \in Nat, a > now - wakeHour
      PROVE  Cardinality(Since(W, a)) <= CountFrom(last, a)
  <2>1. Cardinality(Since(W, a)) <= CountFrom(times, a) /\ CountFrom(times, a) <= CountFrom(last, a)
    BY <1>3 DEF Budgeted
  <2>2. /\ Cardinality(Since(W, a)) \in Nat
        /\ CountFrom(times, a) \in Nat /\ CountFrom(last, a) \in Nat
    <3>1. Since(W, a) \subseteq W
      BY DEF Since
    <3>2. QED BY <1>1, <3>1, CountedPart, CountFromType
  <2>3. QED BY <2>1, <2>2
<1>4. QED BY <1>2, <1>3 DEF Budgeted

\* What V has more than W: one wake, that of w, on its thread and from its moment back.
OneWakeMore(W, V, w) ==
  /\ IsFiniteSet(V)
  /\ \A k \in Topic :
       /\ Counts(W, k) \in [Nat -> Nat] /\ Counts(V, k) \in [Nat -> Nat]
       /\ \A a \in Nat : Counts(V, k)[a] <= Counts(W, k)[a] + 1
       /\ k # w.topic => Counts(V, k) = Counts(W, k)
  /\ \A a \in Nat :
       /\ Cardinality(Since(W, a)) \in Nat /\ Cardinality(Since(V, a)) \in Nat
       /\ Cardinality(Since(V, a)) <= Cardinality(Since(W, a)) + 1
       /\ a > w.at => Since(V, a) = Since(W, a)

\* What a wake adds to the wakes of its thread, and of all.
LEMMA WokenMore ==
  ASSUME NEW W, IsFiniteSet(W), NEW w, w.at \in Nat
  PROVE  OneWakeMore(W, W \cup {w}, w)
<1> DEFINE V == W \cup {w}
<1>1. IsFiniteSet(V)
  BY FS_AddElement
<1>2. ASSUME NEW k \in Topic, NEW a \in Nat
      PROVE  /\ Cardinality(SinceOn(W, k, a)) \in Nat /\ Cardinality(SinceOn(V, k, a)) \in Nat
             /\ Cardinality(SinceOn(V, k, a)) <= Cardinality(SinceOn(W, k, a)) + 1
  <2>1. SinceOn(W, k, a) \subseteq W /\ SinceOn(V, k, a) \subseteq SinceOn(W, k, a) \cup {w}
    BY DEF SinceOn
  <2>2. QED BY <2>1, OneMore
<1>3. ASSUME NEW k \in Topic
      PROVE  /\ Counts(W, k) \in [Nat -> Nat] /\ Counts(V, k) \in [Nat -> Nat]
             /\ \A a \in Nat : Counts(V, k)[a] <= Counts(W, k)[a] + 1
  BY <1>2 DEF Counts
<1>4. ASSUME NEW k \in Topic, k # w.topic PROVE Counts(V, k) = Counts(W, k)
  <2>1. \A a \in Nat : SinceOn(V, k, a) = SinceOn(W, k, a)
    BY <1>4 DEF SinceOn
  <2>2. QED BY <2>1 DEF Counts
<1>5. ASSUME NEW a \in Nat
      PROVE  /\ Cardinality(Since(W, a)) \in Nat /\ Cardinality(Since(V, a)) \in Nat
             /\ Cardinality(Since(V, a)) <= Cardinality(Since(W, a)) + 1
             /\ a > w.at => Since(V, a) = Since(W, a)
  <2>1. Since(W, a) \subseteq W /\ Since(V, a) \subseteq Since(W, a) \cup {w}
    BY DEF Since
  <2>2. a > w.at => Since(V, a) = Since(W, a)
    BY DEF Since
  <2>3. QED BY <2>1, <2>2, OneMore
<1>6. QED BY <1>1, <1>3, <1>4, <1>5 DEF OneWakeMore

\* A wake that the gate lets pass, and the counters count, keeps them in budget.
LEMMA BudgetWakes ==
  ASSUME NEW W, NEW threads, NEW times, NEW now \in Nat, Budgeted(W, threads, times, now),
         NEW k0 \in Topic, NEW w, w.at = now, w.topic = k0,
         InWindow(threads[k0], now) => threads[k0].wakes < maxThreadWakes,
         NEW new \in WindowOf,
         new.wakes = IF InWindow(threads[k0], now) THEN threads[k0].wakes + 1 ELSE 1,
         new.windowStart = IF InWindow(threads[k0], now) THEN threads[k0].windowStart ELSE now,
         NEW last \in Seq(Nat), Len(last) < maxWakesPerHour,
         \A a \in Nat : a > now - wakeHour => CountFrom(times, a) <= CountFrom(last, a)
  PROVE  Budgeted(W \cup {w}, [threads EXCEPT ![k0] = new], Append(last, now), now)
<1> DEFINE V == W \cup {w}
           counted == [threads EXCEPT ![k0] = new]
           hour == Append(last, now)
<1> HIDE DEF V, counted, hour
<1>1. /\ IsFiniteSet(W) /\ times \in Seq(Nat)
      /\ threads \in [Topic -> WindowOf \cup {None}]
      /\ \A v \in W : v.topic \in Topic /\ v.at \in Nat /\ v.at <= now
  BY DEF Budgeted
<1>2. /\ IsFiniteSet(V)
      /\ \A k \in Topic :
           /\ Counts(W, k) \in [Nat -> Nat] /\ Counts(V, k) \in [Nat -> Nat]
           /\ \A a \in Nat : Counts(V, k)[a] <= Counts(W, k)[a] + 1
           /\ k # k0 => Counts(V, k) = Counts(W, k)
      /\ \A a \in Nat :
           /\ Cardinality(Since(W, a)) \in Nat /\ Cardinality(Since(V, a)) \in Nat
           /\ Cardinality(Since(V, a)) <= Cardinality(Since(W, a)) + 1
           /\ a > now => Since(V, a) = Since(W, a)
  <2>1. w.at \in Nat /\ V = W \cup {w}
    BY DEF V
  <2>2. OneWakeMore(W, V, w)
    BY <1>1, <2>1, WokenMore
  <2>3. QED BY <2>1, <2>2 DEF OneWakeMore
<1>3. \A v \in V : v.topic \in Topic /\ v.at \in Nat /\ v.at <= now
  BY <1>1 DEF V
<1>4. /\ counted \in [Topic -> WindowOf \cup {None}] /\ counted[k0] = new
      /\ \A k \in Topic \ {k0} : counted[k] = threads[k]
  BY <1>1 DEF counted
<1>5. hour \in Seq(Nat) /\ Len(hour) <= maxWakesPerHour
  BY AppendProperties, PolicyTypes DEF hour
<1>6. ASSUME NEW k \in Topic PROVE Guarded(Counts(V, k), counted[k], now)
  <2>1. Guarded(Counts(W, k), threads[k], now)
    BY DEF Budgeted
  <2>2. CASE k # k0
    BY <1>2, <1>4, <2>1, <2>2
  <2>3. CASE k = k0
    <3>1. ASSUME NEW a \in Nat, a > now PROVE Counts(V, k)[a] = 0
      <4>1. SinceOn(V, k, a) = {}
        BY <1>3, <3>1 DEF SinceOn
      <4>2. QED BY <4>1, FS_EmptySet DEF Counts
    <3>2. PICK c \in [Nat -> Nat], d \in [Nat -> Nat] :
            c = Counts(W, k) /\ d = Counts(V, k) /\ \A a \in Nat : d[a] <= c[a] + 1
      BY <1>2
    <3>3. PICK v \in WindowOf \cup {None} : v = threads[k0]
      BY <1>1
    <3>4. Guarded(d, new, now)
      BY <2>1, <2>3, <3>1, <3>2, <3>3, GuardedWake
    <3>5. QED BY <1>4, <2>3, <3>2, <3>4
  <2>4. QED BY <2>2, <2>3
<1>7. ASSUME NEW a \in Nat, a > now - wakeHour
      PROVE  Cardinality(Since(V, a)) <= CountFrom(hour, a)
  <2>1. Cardinality(Since(W, a)) <= CountFrom(times, a)
    BY <1>7 DEF Budgeted
  <2>2. /\ CountFrom(times, a) \in Nat /\ CountFrom(last, a) \in Nat /\ CountFrom(hour, a) \in Nat
        /\ CountFrom(times, a) <= CountFrom(last, a)
    BY <1>1, <1>5, <1>7, CountFromType
  <2>3. /\ CountFrom(last, a) <= CountFrom(hour, a)
        /\ a <= now => CountFrom(hour, a) = CountFrom(last, a) + 1
    BY CountFromAppend DEF hour
  <2>4. PICK x \in Nat, y \in Nat : x = Cardinality(Since(V, a)) /\ y = Cardinality(Since(W, a))
    BY <1>2
  <2>5. x <= y + 1 /\ (a > now => x = y)
    BY <1>2, <2>4
  <2>6. QED BY <2>1, <2>2, <2>3, <2>4, <2>5
<1>8. ASSUME NEW a \in Nat PROVE Cardinality(HourFrom(V, a)) <= maxWakesPerHour
  <2>1. CASE now >= a /\ now < a + wakeHour
    <3>1. a > now - wakeHour
      BY <2>1, PolicyTypes
    <3>2. Cardinality(Since(V, a)) <= CountFrom(hour, a)
      BY <1>7, <3>1
    <3>3. CountFrom(hour, a) \in Nat /\ CountFrom(hour, a) <= Len(hour) /\ Len(hour) \in Nat
      BY <1>5, CountFromType
    <3>4. HourFrom(V, a) \subseteq Since(V, a) /\ Since(V, a) \subseteq V
      BY DEF HourFrom, Since
    <3>5. IsFiniteSet(Since(V, a))
      BY <1>2, <3>4, FS_Subset
    <3>6. /\ Cardinality(HourFrom(V, a)) \in Nat /\ Cardinality(Since(V, a)) \in Nat
          /\ Cardinality(HourFrom(V, a)) <= Cardinality(Since(V, a))
      BY <3>4, <3>5, CountedPart
    <3>7. QED BY <1>5, <3>2, <3>3, <3>6, PolicyTypes
  <2>2. CASE ~(now >= a /\ now < a + wakeHour)
    <3>1. HourFrom(V, a) = HourFrom(W, a)
      BY <2>2 DEF HourFrom, V
    <3>2. QED BY <3>1 DEF Budgeted
  <2>3. QED BY <2>1, <2>2
<1>9. ASSUME NEW a \in Nat, NEW k \in Topic
      PROVE  Cardinality(SpanOn(V, k, a)) <= 2 * maxThreadWakes - 1
  <2>1. CASE now \in a .. a + threadWindow
    <3>1. a >= now - threadWindow
      BY <2>1, PolicyTypes
    <3>2. PICK d \in [Nat -> Nat], v \in WindowOf \cup {None} : d = Counts(V, k) /\ v = counted[k]
      BY <1>2, <1>4
    <3>3. d[a] <= 2 * maxThreadWakes - 1
      BY <1>6, <3>1, <3>2, GuardedTwice
    <3>4. d[a] = Cardinality(SinceOn(V, k, a))
      BY <3>2 DEF Counts
    <3>5. SpanOn(V, k, a) \subseteq SinceOn(V, k, a) /\ SinceOn(V, k, a) \subseteq V
      <4>1. \A at \in Nat : at \in a .. a + threadWindow => at >= a
        BY PolicyTypes
      <4>2. \A u \in V : u.at \in a .. a + threadWindow => u.at >= a
        BY <1>3, <4>1
      <4>3. QED BY <4>2 DEF SpanOn, SinceOn
    <3>6. IsFiniteSet(SinceOn(V, k, a))
      BY <1>2, <3>5, FS_Subset
    <3>7. /\ Cardinality(SpanOn(V, k, a)) \in Nat /\ Cardinality(SinceOn(V, k, a)) \in Nat
          /\ Cardinality(SpanOn(V, k, a)) <= Cardinality(SinceOn(V, k, a))
      BY <3>5, <3>6, CountedPart
    <3>8. QED BY <3>3, <3>4, <3>7, PolicyTypes
  <2>2. CASE now \notin a .. a + threadWindow
    <3>1. SpanOn(V, k, a) = SpanOn(W, k, a)
      BY <2>2 DEF SpanOn, V
    <3>2. QED BY <3>1 DEF Budgeted
  <2>3. QED BY <2>1, <2>2
<1>10. Budgeted(V, counted, hour, now)
  BY <1>2, <1>3, <1>4, <1>5, <1>6, <1>7, <1>8, <1>9 DEF Budgeted
<1>11. QED BY <1>10 DEF V, counted, hour
\* What the gate sees of a thread is its window, unless that is over.
LEMMA WindowGives ==
  ASSUME NEW k, NEW now \in Nat, memory.threads[k] \in WindowOf \cup {None}
  PROVE  /\ InWindow(memory.threads[k], now) => Window(k, now) = memory.threads[k]
         /\ ~InWindow(memory.threads[k], now) => Window(k, now) = None
<1>1. PICK w \in WindowOf \cup {None} : w = memory.threads[k]
  OBVIOUS
<1>2. CASE w = None
  BY <1>1, <1>2 DEF Window, InWindow
<1>3. CASE w # None
  <2>1. w.windowStart \in Nat
    BY <1>3, WindowIs
  <2>2. QED BY <1>1, <2>1, PolicyTypes DEF Window, InWindow
<1>4. QED BY <1>2, <1>3

\* What the gate sees of the hour are the times it counts.
LEMMA LastHourIs ==
  ASSUME memory.wakeTimes \in Seq(Nat), NEW now \in Nat
  PROVE  /\ LastHour(now) \in Seq(Nat) /\ Len(LastHour(now)) <= Len(memory.wakeTimes)
         /\ Len(LastHour(now)) \in Nat /\ Len(memory.wakeTimes) \in Nat
         /\ \A a \in Nat : a > now - wakeHour =>
              CountFrom(memory.wakeTimes, a) <= CountFrom(LastHour(now), a)
<1>1. PICK times \in Seq(Nat) : times = memory.wakeTimes
  OBVIOUS
<1>2. PICK S : S = {at \in ToSet(times) : now - at < wakeHour}
  OBVIOUS
<1>3. LastHour(now) = Filter(times, S)
  BY <1>1, <1>2 DEF LastHour
<1>4. Filter(times, S) \in Seq(Nat)
  BY FilterType
<1>5. Len(Filter(times, S)) <= Len(times) /\ Len(Filter(times, S)) \in Nat /\ Len(times) \in Nat
  BY FilterShorter
<1>6. ASSUME NEW a \in Nat, a > now - wakeHour PROVE CountFrom(times, a) <= CountFrom(Filter(times, S), a)
  <2>1. ASSUME NEW i \in 1 .. Len(times), times[i] >= a PROVE times[i] \in S
    <3>1. times[i] \in Nat /\ times[i] \in ToSet(times)
      BY DEF ToSet
    <3>2. now - times[i] < wakeHour
      BY <1>6, <2>1, <3>1, PolicyTypes
    <3>3. QED BY <1>2, <3>1, <3>2
  <2>2. QED BY <2>1, CountFromFilter
<1>7. QED BY <1>1, <1>3, <1>4, <1>5, <1>6

-----------------------------------------------------------------------------
(* The steps.                                                              *)

\* The numbers a step counts with.
LEMMA LoopTypes ==
  ASSUME PoolInvariant
  PROVE  /\ clock \in Nat /\ tick.now \in Nat /\ tick.now <= clock /\ Moment \in Nat
         /\ (tick.pc # "idle" => memory.loaded)
         /\ (tick.pc \in {"gate", "open"} => tick.now = clock)
BY ClockType DEF PoolInvariant, PoolTypeOK, Moment

\* So do those after it.
LEMMA LoopTypesNext ==
  ASSUME PoolInvariant' PROVE clock' \in Nat /\ Moment' \in Nat
<1>1. clock' \in 0 .. MaxTime /\ tick'.now \in 0 .. clock' /\ MaxTime \in Nat
  BY BridgeAssumption DEF PoolInvariant, PoolTypeOK, Time
<1>2. clock' \in Nat /\ tick'.now \in Nat
  BY <1>1
<1>3. QED BY <1>2 DEF Moment

\* A step after which the tick is as far as before leaves the gate as it was.
LEMMA GateStays ==
  ASSUME LoopInvariant, tick'.page = tick.page, tick'.now = tick.now,
         memory'.threads = memory.threads, memory'.wakeTimes = memory.wakeTimes,
         tick'.pc \in {"open", "prompt"} => tick.pc \in {"open", "prompt"}
  PROVE  GateOpen'
<1>1. GateOpen
  BY DEF LoopInvariant
<1>2. topic' = topic /\ LastHour(tick.now)' = LastHour(tick.now)
  BY DEF topic, Key, Newest, LastHour
<1>3. QED BY <1>1, <1>2 DEF GateOpen, InWindow

\* What the counters have to be for the invariant to hold after a step.
LEMMA BudgetNext ==
  ASSUME memory'.loaded =>
           Budgeted(history'.counted, memory'.threads, memory'.wakeTimes, Moment'),
         Budgeted(history'.filed, disk'.threads, disk'.wakeTimes, Moment'), GateOpen'
  PROVE  LoopInvariant'
BY DEF LoopInvariant, Budgeted, Guarded, InWindow, Since, SinceOn, Counts, SpanOn, HourFrom, CountFrom

\* A step that leaves the counters, and the wakes they count, alone.
LEMMA LoopSame ==
  ASSUME LoopInvariant, PoolInvariant, PoolInvariant',
         history'.counted = history.counted, history'.filed = history.filed, Moment <= Moment',
         memory'.threads = memory.threads, memory'.wakeTimes = memory.wakeTimes,
         memory'.loaded = memory.loaded, disk' = disk, GateOpen'
  PROVE  LoopInvariant'
<1>1. Moment \in Nat /\ Moment' \in Nat
  BY LoopTypes, LoopTypesNext
<1>2. memory.loaded => Budgeted(history.counted, memory.threads, memory.wakeTimes, Moment')
  BY <1>1, BudgetLater DEF LoopInvariant
<1>3. Budgeted(history.filed, disk.threads, disk.wakeTimes, Moment')
  BY <1>1, BudgetLater DEF LoopInvariant
<1>4. /\ memory'.loaded => Budgeted(history'.counted, memory'.threads, memory'.wakeTimes, Moment')
      /\ Budgeted(history'.filed, disk'.threads, disk'.wakeTimes, Moment')
  BY <1>2, <1>3
<1>5. QED BY <1>4, BudgetNext

\* The host takes the prompt: the wake is counted.
LEMMA PromptedKeepsLoop ==
  ASSUME LoopInvariant, BridgeInvariant, PoolInvariant, PoolInvariant', prompted
  PROVE  LoopInvariant'
<1> DEFINE wake == Wake
           counted == recordWake(topic, tick.now)
           started == IF Window(topic, tick.now) = None
                      THEN [wakes |-> 0, windowStart |-> tick.now] ELSE Window(topic, tick.now)
           count == [wakes |-> started.wakes + 1, windowStart |-> started.windowStart,
                     lastAt |-> tick.now]
           hour == Append(LastHour(tick.now), tick.now)
<1>1. /\ Shape /\ tick.pc = "prompt" /\ memory.loaded
      /\ wake.at = tick.now /\ wake.topic = topic
      /\ history' = [history EXCEPT !.woken = history.woken \cup {wake},
                                    !.counted = history.counted \cup {wake}]
      /\ tick' = [tick EXCEPT !.pc = "save"] /\ UNCHANGED disk
  BY LoopTypes DEF prompted, Counted, Wake, BridgeInvariant
<1>2. /\ counted = [memory EXCEPT !.threads[topic] = count, !.wakeTimes = hour]
      /\ memory' = [counted EXCEPT !.mark = Mark(Newest(tick.page)), !.lastNotifyAt = tick.now]
  BY DEF prompted, recordWake
<1>3. count = [wakes |-> started.wakes + 1, windowStart |-> started.windowStart, lastAt |-> tick.now]
  OBVIOUS
<1>4. /\ Window(topic, tick.now) = None => started = [wakes |-> 0, windowStart |-> tick.now]
      /\ Window(topic, tick.now) # None => started = Window(topic, tick.now)
  OBVIOUS
<1> HIDE DEF wake, counted, started, count
<1>5. /\ memory'.threads = [memory.threads EXCEPT ![topic] = count] /\ memory'.wakeTimes = hour
      /\ memory'.loaded = memory.loaded
  <2> HIDE DEF hour
  <2>1. /\ counted.threads = [memory.threads EXCEPT ![topic] = count] /\ counted.wakeTimes = hour
        /\ counted.loaded = memory.loaded
        /\ counted = [mark |-> memory.mark, lastNotifyAt |-> memory.lastNotifyAt,
                      threads |-> counted.threads, wakeTimes |-> hour,
                      pool |-> memory.pool, routes |-> memory.routes,
                      dead |-> memory.dead, loaded |-> memory.loaded]
    BY <1>1, <1>2 DEF Shape
  <2>2. QED BY <1>2, <2>1
<1>6. history'.counted = history.counted \cup {wake} /\ history'.filed = history.filed
  BY <1>1 DEF Shape, HistoryForm
<1>7. tick'.pc = "save" /\ tick'.now = tick.now
  BY <1>1, TickOn DEF Shape
<1>8. PICK now \in Nat : now = tick.now
  BY LoopTypes
<1>9. Moment = now /\ Moment' = now
  BY <1>1, <1>7, <1>8 DEF Moment
<1>10. /\ Budgeted(history.counted, memory.threads, memory.wakeTimes, now)
       /\ Budgeted(history.filed, disk.threads, disk.wakeTimes, now) /\ GateOpen
  BY <1>1, <1>9 DEF LoopInvariant
<1>11. memory.threads \in [Topic -> WindowOf \cup {None}] /\ memory.wakeTimes \in Seq(Nat)
  BY <1>10 DEF Budgeted
<1>12. PICK k0 \in Topic : k0 = topic /\ Len(LastHour(now)) < maxWakesPerHour
         /\ (InWindow(memory.threads[k0], now) => memory.threads[k0].wakes < maxThreadWakes)
  BY <1>1, <1>8, <1>10 DEF GateOpen
<1>13. PICK w \in WindowOf \cup {None} : w = memory.threads[k0]
  BY <1>11
<1>14. /\ count \in WindowOf
       /\ count.wakes = IF InWindow(w, now) THEN w.wakes + 1 ELSE 1
       /\ count.windowStart = IF InWindow(w, now) THEN w.windowStart ELSE now
  <2>1. CASE InWindow(w, now)
    <3>1. w # None /\ w.wakes \in 1 .. maxThreadWakes /\ w.windowStart \in Nat
      BY <2>1, WindowIs DEF InWindow
    <3>2. started = w
      BY <1>4, <1>8, <1>12, <1>13, <2>1, <3>1, WindowGives
    <3>3. w.wakes < maxThreadWakes
      BY <1>12, <1>13, <2>1
    <3>4. w.wakes + 1 \in 1 .. maxThreadWakes
      BY <3>1, <3>3, PolicyTypes
    <3>5. QED BY <1>3, <1>8, <2>1, <3>1, <3>2, <3>4 DEF WindowOf
  <2>2. CASE ~InWindow(w, now)
    <3>1. started = [wakes |-> 0, windowStart |-> now]
      BY <1>4, <1>8, <1>12, <1>13, <2>2, WindowGives
    <3>2. count = [wakes |-> 0 + 1, windowStart |-> now, lastAt |-> now]
      BY <1>3, <1>8, <3>1
    <3>3. 0 + 1 = 1 /\ 1 \in 1 .. maxThreadWakes
      BY PolicyTypes
    <3>4. QED BY <1>8, <2>2, <3>2, <3>3 DEF WindowOf
  <2>3. QED BY <2>1, <2>2
<1>15. PICK last \in Seq(Nat) : last = LastHour(now)
  BY <1>11, LastHourIs
<1>16. \A a \in Nat : a > now - wakeHour => CountFrom(memory.wakeTimes, a) <= CountFrom(last, a)
  BY <1>11, <1>15, LastHourIs
<1>17. Budgeted(history.counted \cup {wake}, [memory.threads EXCEPT ![k0] = count],
                Append(last, now), now)
  <2>1. wake.at = now /\ wake.topic = k0 /\ Len(last) < maxWakesPerHour
    BY <1>1, <1>8, <1>12, <1>15
  <2>2. QED BY <1>10, <1>12, <1>13, <1>14, <1>16, <2>1, BudgetWakes
<1>18. /\ Budgeted(history'.counted, memory'.threads, memory'.wakeTimes, Moment')
       /\ Budgeted(history'.filed, disk'.threads, disk'.wakeTimes, Moment')
  BY <1>1, <1>5, <1>6, <1>8, <1>9, <1>10, <1>12, <1>15, <1>17
<1>19. GateOpen'
  BY <1>7 DEF GateOpen
<1>20. QED BY <1>18, <1>19, BudgetNext

\* The gate lets a tick pass only while there is budget left.
LEMMA GateOpens ==
  ASSUME LoopInvariant, BridgeInvariant, PoolInvariant, Waking,
         tick'.page = tick.page, tick'.now = tick.now,
         memory'.threads = memory.threads, memory'.wakeTimes = memory.wakeTimes
  PROVE  GateOpen'
<1>0. PICK k : k = topic
  OBVIOUS
<1>1. PICK now \in Nat : k = topic /\ now = tick.now
  BY <1>0, LoopTypes
<1>2. /\ tick.page # {} /\ ~softHold(k, now)
      /\ ~(Window(k, now) # None /\ Window(k, now).wakes >= maxThreadWakes)
      /\ ~(Len(LastHour(now)) >= maxWakesPerHour)
  BY <1>1 DEF Waking, Deciding, Held, hardHold
<1>3. k \in Topic
  BY <1>1, <1>2, PageNewest, KeysAssumption DEF topic, BridgeInvariant
<1>4. memory.threads \in [Topic -> WindowOf \cup {None}] /\ memory.wakeTimes \in Seq(Nat)
  <2>1. memory.loaded
    BY LoopTypes DEF Waking, Deciding
  <2>2. QED BY <2>1 DEF LoopInvariant, Budgeted
<1>5. Len(LastHour(now)) < maxWakesPerHour
  <2>1. Len(LastHour(now)) \in Nat
    BY <1>4, LastHourIs
  <2>2. QED BY <1>2, <2>1, PolicyTypes
<1>6. PICK w \in WindowOf \cup {None} : w = memory.threads[k]
  BY <1>3, <1>4
<1>7. InWindow(w, now) => w.wakes < maxThreadWakes
  <2>1. ASSUME InWindow(w, now) PROVE w.wakes < maxThreadWakes
    <3>1. Window(k, now) = w
      BY <1>6, <2>1, WindowGives
    <3>2. w # None /\ w.wakes \in 1 .. maxThreadWakes
      BY <2>1, WindowIs DEF InWindow
    <3>3. ~(w.wakes >= maxThreadWakes)
      BY <1>2, <3>1, <3>2
    <3>4. QED BY <3>2, <3>3, PolicyTypes
  <2>2. QED BY <2>1
<1>8. topic' = k /\ LastHour(tick.now)' = LastHour(now) /\ memory'.threads[k] = w
  BY <1>1, <1>6 DEF topic, Key, Newest, LastHour
<1>9. QED BY <1>1, <1>3, <1>5, <1>7, <1>8 DEF GateOpen

\* The steps that end a tick without a wake.
LEMMA EndKeepsLoop ==
  ASSUME LoopInvariant, BridgeInvariant, PoolInvariant, PoolInvariant',
         hold \/ openFails \/ promptNotFound
  PROVE  LoopInvariant'
<1> DEFINE dead == memory.dead \cup {tick.session}
           routes == forgetRoutesForSession(memory.routes, tick.session)
<1>1. /\ Shape /\ tick' = [tick EXCEPT !.pc = "save"] /\ tick.pc \in {"gate", "open", "prompt"}
      /\ UNCHANGED <<clock, disk, history>>
      /\ memory' = memory \/ memory' = [memory EXCEPT !.dead = dead, !.routes = routes]
  BY DEF hold, openFails, promptNotFound, BridgeInvariant
<1> HIDE DEF dead, routes
<1>2. /\ memory'.threads = memory.threads /\ memory'.wakeTimes = memory.wakeTimes
      /\ memory'.loaded = memory.loaded
  BY <1>1 DEF Shape, HistoryForm
<1>3. tick'.pc = "save" /\ tick'.now = tick.now
  BY <1>1, TickOn
<1>4. Moment <= Moment'
  BY <1>1, <1>3, LoopTypes DEF Moment
<1>5. GateOpen'
  BY <1>3 DEF GateOpen
<1>6. QED BY <1>1, <1>2, <1>3, <1>4, <1>5, LoopSame

\* An answer goes back, or the topic goes on in its session, or needs another one.
LEMMA TurnKeepsLoop ==
  ASSUME LoopInvariant, BridgeInvariant, PoolInvariant, PoolInvariant',
         (\E t \in Thread : route(t)) \/ reuse \/ retire
  PROVE  LoopInvariant'
<1>1. Shape /\ Waking /\ tick.pc = "gate"
  BY DEF route, reuse, retire, Waking, Deciding, BridgeInvariant
<1> DEFINE Kept ==
         /\ memory'.threads = memory.threads /\ memory'.wakeTimes = memory.wakeTimes
         /\ memory'.loaded = memory.loaded
         /\ tick'.now = tick.now /\ tick'.page = tick.page /\ tick'.pc \in {"prompt", "open"}
         /\ UNCHANGED <<clock, disk>>
         /\ history'.counted = history.counted /\ history'.filed = history.filed
<1>2. Kept
  <2>1. ASSUME NEW t \in Thread, route(t) PROVE Kept
    <3> DEFINE hit == Hit(memory.routes, t, tick.now)
               asker == memory.routes[t].session
    <3> DEFINE used == [history.used EXCEPT ![t] = tick.now]
    <3>1. /\ memory' = [memory EXCEPT !.routes = hit]
          /\ tick' = [tick EXCEPT !.pc = "prompt", !.session = asker, !.via = t]
          /\ history' = [history EXCEPT !.used = used] /\ UNCHANGED <<clock, disk>>
      BY <2>1 DEF route
    <3> HIDE DEF hit, asker, used
    <3>2. QED BY <1>1, <3>1 DEF Shape, HistoryForm
  <2>2. ASSUME reuse PROVE Kept
    <3> DEFINE session == Plan.session
               pool == recordUse(memory.pool, topic, session, tick.now, Cardinality(tick.page))
    <3>1. /\ memory' = [memory EXCEPT !.pool = pool]
          /\ tick' = [tick EXCEPT !.pc = "prompt", !.session = session]
          /\ UNCHANGED <<clock, disk, history>>
      BY <2>2 DEF reuse, Use
    <3> HIDE DEF session, pool
    <3>2. QED BY <1>1, <3>1 DEF Shape, HistoryForm
  <2>3. ASSUME retire PROVE Kept
    <3>1. PICK D : archive(Plan.archive, D)
      BY <2>3 DEF retire
    <3> DEFINE left == history.left \cup (Plan.archive \ D)
    <3>2. /\ history' = [history EXCEPT !.left = left] /\ tick' = [tick EXCEPT !.pc = "open"]
          /\ UNCHANGED <<clock, memory, disk>>
      BY <2>3, <3>1 DEF retire, archive
    <3> HIDE DEF left
    <3>3. QED BY <1>1, <3>2 DEF Shape, HistoryForm
  <2>4. QED BY <2>1, <2>2, <2>3
<1>3. Moment <= Moment'
  BY <1>1, <1>2, LoopTypes DEF Moment
<1>4. GateOpen'
  BY <1>1, <1>2, GateOpens
<1>5. QED BY <1>1, <1>2, <1>3, <1>4, LoopSame

\* The host opens a session.
LEMMA OpenKeepsLoop ==
  ASSUME LoopInvariant, BridgeInvariant, PoolInvariant, PoolInvariant',
         NEW s, openSession(s)
  PROVE  LoopInvariant'
<1> DEFINE pool == recordUse(memory.pool, topic, s, tick.now, Cardinality(tick.page))
<1>1. /\ Shape /\ tick.pc = "open" /\ memory' = [memory EXCEPT !.pool = pool]
      /\ tick' = [tick EXCEPT !.pc = "prompt", !.session = s]
      /\ UNCHANGED <<clock, disk, history>>
  BY DEF openSession, Use, BridgeInvariant
<1> HIDE DEF pool
<1>2. /\ memory'.threads = memory.threads /\ memory'.wakeTimes = memory.wakeTimes
      /\ memory'.loaded = memory.loaded
      /\ tick'.now = tick.now /\ tick'.page = tick.page /\ tick'.pc = "prompt"
  BY <1>1 DEF Shape, HistoryForm
<1>3. Moment <= Moment'
  BY <1>1, <1>2, LoopTypes DEF Moment
<1>4. GateOpen'
  BY <1>1, <1>2, GateStays
<1>5. QED BY <1>1, <1>2, <1>3, <1>4, LoopSame

\* The steps of everybody else, and no step at all.
LEMMA OthersKeepLoop ==
  ASSUME LoopInvariant, BridgeInvariant, PoolInvariant, PoolInvariant',
         \/ pass \/ UNCHANGED vars
         \/ \E m \in Msg : arrive(m) \/ markRead(m)
         \/ \E x \in Sends : recordOutbound(x)
         \/ \E s \in Local \cup Opened : vanish(s)
  PROVE  LoopInvariant'
<1>1. Shape
  BY DEF BridgeInvariant
<1> DEFINE Kept ==
         /\ memory'.threads = memory.threads /\ memory'.wakeTimes = memory.wakeTimes
         /\ memory'.loaded = memory.loaded
         /\ history'.counted = history.counted /\ history'.filed = history.filed
         /\ UNCHANGED <<disk, tick>> /\ clock' \in {clock, clock + 1}
<1>2. Kept
  <2>1. ASSUME NEW m \in Msg, arrive(m) PROVE Kept
    <3> DEFINE late == history.late \cup
          {n \in {m} : \/ ~isNewerThan(m, memory.mark) \/ ~isNewerThan(m, disk.mark)
                       \/ tick.page # {} /\ ~isNewerThan(m, Mark(Newest(tick.page)))}
    <3>1. /\ history' = [history EXCEPT !.late = late]
          /\ UNCHANGED <<memory, disk, tick, clock>>
      BY <2>1 DEF arrive
    <3> HIDE DEF late
    <3>2. QED BY <1>1, <3>1 DEF Shape, HistoryForm
  <2>2. ASSUME NEW x \in Sends, recordOutbound(x) PROVE Kept
    <3>1. PICK r : memory' = [memory EXCEPT !.routes = r]
      BY <2>2 DEF recordOutbound
    <3> DEFINE asker == [history.asker EXCEPT ![x.thread] = x.session]
               used == [history.used EXCEPT ![x.thread] = clock]
               sent == history.sent \cup {x}
    <3>2. /\ history' = [history EXCEPT !.asker = asker, !.used = used, !.sent = sent]
          /\ UNCHANGED <<disk, tick, clock>>
      BY <2>2 DEF recordOutbound
    <3> HIDE DEF asker, used, sent
    <3>3. QED BY <1>1, <3>1, <3>2 DEF Shape, HistoryForm
  <2>3. ASSUME \/ pass \/ UNCHANGED vars \/ \E m \in Msg : markRead(m)
               \/ \E s \in Local \cup Opened : vanish(s)
        PROVE  Kept
    BY <2>3 DEF pass, markRead, vanish, vars
  <2>4. QED BY <2>1, <2>2, <2>3
<1>3. Moment <= Moment'
  BY <1>2, LoopTypes DEF Moment
<1>4. GateOpen'
  BY <1>2, GateStays
<1>5. QED BY <1>2, <1>3, <1>4, LoopSame

\* The sweep touches no counter.
LEMMA SweepKeepsLoop ==
  ASSUME LoopInvariant, BridgeInvariant, PoolInvariant, PoolInvariant', sweep
  PROVE  LoopInvariant'
<1>0. PICK s \in sweepPool(memory.pool, clock), r \in sweepRoutes(memory.routes, clock) :
        /\ memory' = [memory EXCEPT !.pool = s.pool, !.routes = r]
        /\ \E D \in SUBSET s.archive : archive(s.archive, D)
  BY DEF sweep
<1>1. PICK D \in SUBSET s.archive :
        /\ memory' = [memory EXCEPT !.pool = s.pool, !.routes = r]
        /\ archive(s.archive, D)
  BY <1>0
<1> DEFINE left == history.left \cup (s.archive \ D)
<1>2. /\ Shape /\ tick.pc = "sweep" /\ tick' = [tick EXCEPT !.pc = "gate", !.now = clock]
      /\ history' = [history EXCEPT !.left = left] /\ UNCHANGED <<clock, disk>>
  BY <1>1 DEF sweep, archive, BridgeInvariant
<1> HIDE DEF left
<1>3. /\ memory'.threads = memory.threads /\ memory'.wakeTimes = memory.wakeTimes
      /\ memory'.loaded = memory.loaded
      /\ history'.counted = history.counted /\ history'.filed = history.filed
      /\ tick'.pc = "gate" /\ tick'.now = clock
  BY <1>1, <1>2 DEF Shape, HistoryForm
<1>4. Moment <= Moment'
  BY <1>1, <1>2, <1>3, LoopTypes DEF Moment
<1>5. GateOpen'
  BY <1>3 DEF GateOpen
<1>6. QED BY <1>2, <1>3, <1>4, <1>5, LoopSame


\* The state file is read, or cannot be.
LEMMA ListKeepsLoop ==
  ASSUME LoopInvariant, BridgeInvariant, PoolInvariant, PoolInvariant', list
  PROVE  LoopInvariant'
<1> DEFINE lost == history.left \cup {disk.pool[k].session : k \in Known(disk.pool)}
<1>1. /\ Shape /\ Recorded /\ tick.pc = "idle" /\ UNCHANGED <<clock, disk>>
      /\ \/ memory.loaded /\ memory' = memory /\ history' = history
         \/ ~memory.loaded /\ memory' = Started(disk) /\ history' = history
         \/ ~memory.loaded /\ memory' = Started(Fresh)
              /\ history' = [history EXCEPT !.left = lost, !.counted = {}]
  BY DEF list, loadStateOnce, BridgeInvariant
<1> HIDE DEF lost
<1>2. tick'.pc = "sweep"
  <2> DEFINE page == {m \in Listed : isNewerThan(m, memory'.mark)}
  <2>1. tick' = [pc |-> "sweep", now |-> 0, page |-> page, session |-> None, via |-> None]
    BY DEF list, Idle
  <2> HIDE DEF page
  <2>2. QED BY <2>1
<1>3. Moment' = Moment /\ Moment \in Nat
  BY <1>1, <1>2, LoopTypes DEF Moment
<1>4. GateOpen'
  BY <1>2 DEF GateOpen
<1>5. Budgeted(history.filed, disk.threads, disk.wakeTimes, Moment)
  BY DEF LoopInvariant
<1>6. history'.filed = history.filed
  BY <1>1 DEF Shape, HistoryForm
<1>7. CASE memory.loaded /\ memory' = memory /\ history' = history
  <2>1. /\ memory'.threads = memory.threads /\ memory'.wakeTimes = memory.wakeTimes
        /\ memory'.loaded = memory.loaded /\ history'.counted = history.counted
    BY <1>7
  <2>2. disk' = disk
    BY <1>1
  <2>3. Moment <= Moment'
    BY <1>3
  <2>4. QED BY <1>4, <1>6, <2>1, <2>2, <2>3, LoopSame
<1>8. CASE ~memory.loaded /\ memory' = Started(disk) /\ history' = history
  <2>1. memory'.threads = disk.threads /\ memory'.wakeTimes = disk.wakeTimes
    BY <1>8 DEF Started
  <2>2. history'.counted = history.filed
    BY <1>1, <1>8 DEF Recorded
  <2>3. QED BY <1>1, <1>3, <1>4, <1>5, <1>6, <2>1, <2>2, BudgetNext
<1>9. CASE /\ ~memory.loaded /\ memory' = Started(Fresh)
           /\ history' = [history EXCEPT !.left = lost, !.counted = {}]
  <2>1. memory'.threads = [k \in Topic |-> None] /\ memory'.wakeTimes = <<>>
    BY <1>9 DEF Started, Fresh
  <2>2. history'.counted = {}
    BY <1>1, <1>9 DEF Shape, HistoryForm
  <2>3. Budgeted({}, [k \in Topic |-> None], <<>>, Moment)
    BY <1>3, BudgetBegins
  <2>4. QED BY <1>1, <1>3, <1>4, <1>5, <1>6, <2>1, <2>2, <2>3, BudgetNext
<1>10. QED BY <1>1, <1>7, <1>8, <1>9

\* The state file is written, with all that is on record.
LEMMA SaveKeepsLoop ==
  ASSUME LoopInvariant, BridgeInvariant, PoolInvariant, PoolInvariant', save
  PROVE  LoopInvariant'
<1>1. /\ Shape /\ memory.loaded /\ disk' = Saved(memory) /\ tick' = Idle /\ tick.pc = "save"
      /\ history' = [history EXCEPT !.filed = history.counted]
      /\ UNCHANGED <<clock, memory>>
  BY LoopTypes DEF save, BridgeInvariant
<1>2. disk'.threads = memory.threads /\ disk'.wakeTimes = memory.wakeTimes /\ tick'.pc = "idle"
  BY <1>1 DEF Saved, Idle
<1>3. history'.counted = history.counted /\ history'.filed = history.counted
  BY <1>1 DEF Shape, HistoryForm
<1>4. Moment \in Nat /\ Moment' \in Nat /\ Moment <= Moment'
  BY <1>1, <1>2, LoopTypes DEF Moment
<1>5. Budgeted(history.counted, memory.threads, memory.wakeTimes, Moment')
  BY <1>1, <1>4, BudgetLater DEF LoopInvariant
<1>6. GateOpen'
  BY <1>2 DEF GateOpen
<1>7. QED BY <1>1, <1>2, <1>3, <1>5, <1>6, BudgetNext

\* A bridge that is not running.
LEMMA NotRunning == ~Ended.loaded
<1> DEFINE started == Started(Fresh)
<1>1. started = [mark |-> started.mark, lastNotifyAt |-> started.lastNotifyAt,
                 threads |-> started.threads, wakeTimes |-> started.wakeTimes,
                 pool |-> started.pool, routes |-> started.routes,
                 dead |-> started.dead, loaded |-> started.loaded]
  BY DEF Started
<1>2. Ended = [started EXCEPT !.loaded = FALSE]
  BY DEF Ended
<1> HIDE DEF started
<1>3. QED BY <1>1, <1>2

\* The host ends: what the file has not is not on record.
LEMMA CrashKeepsLoop ==
  ASSUME LoopInvariant, BridgeInvariant, PoolInvariant, PoolInvariant', Crash
  PROVE  LoopInvariant'
<1> DEFINE left == history.left \cup (sessions.opened \ {disk.pool[k].session : k \in Topic})
<1>1. /\ Shape /\ memory' = Ended /\ tick' = Idle /\ UNCHANGED <<clock, disk>>
      /\ history' = [history EXCEPT !.left = left, !.counted = history.filed,
                                    !.asker = NoAsker, !.used = Unused]
  BY DEF Crash, BridgeInvariant
<1> HIDE DEF left
<1>2. history'.filed = history.filed /\ tick'.pc = "idle" /\ ~memory'.loaded
  BY <1>1, NotRunning DEF Shape, HistoryForm, Idle
<1>3. Moment \in Nat /\ Moment' \in Nat /\ Moment <= Moment'
  BY <1>1, <1>2, LoopTypes DEF Moment
<1>4. Budgeted(history.filed, disk.threads, disk.wakeTimes, Moment')
  BY <1>3, BudgetLater DEF LoopInvariant
<1>5. GateOpen'
  BY <1>2 DEF GateOpen
<1>6. QED BY <1>1, <1>2, <1>4, <1>5, BudgetNext

\* The loop guard drops a page: the counters forget what is over.
LEMMA DropKeepsLoop ==
  ASSUME LoopInvariant, BridgeInvariant, PoolInvariant, PoolInvariant', drop
  PROVE  LoopInvariant'
<1> DEFINE mark == Mark(Newest(tick.page))
           window == Window(topic, tick.now)
           hour == LastHour(tick.now)
           dropped == history.dropped \cup tick.page
<1>1. /\ Shape /\ tick.pc = "gate" /\ tick.page # {} /\ tick' = [tick EXCEPT !.pc = "save"]
      /\ memory' = [memory EXCEPT !.mark = mark, !.threads[topic] = window, !.wakeTimes = hour]
      /\ history' = [history EXCEPT !.dropped = dropped] /\ UNCHANGED <<clock, disk>>
  BY DEF drop, Deciding, BridgeInvariant
<1>2. memory.loaded
  BY <1>1, LoopTypes
<1> HIDE DEF mark, window, hour, dropped
<1>3. /\ memory'.threads = [memory.threads EXCEPT ![topic] = window] /\ memory'.wakeTimes = hour
      /\ memory'.loaded = memory.loaded
      /\ history'.counted = history.counted /\ history'.filed = history.filed
      /\ tick'.pc = "save" /\ tick'.now = tick.now
  BY <1>1 DEF Shape, HistoryForm
<1>4. PICK k0 : k0 = topic
  OBVIOUS
<1>5. PICK now \in Nat : now = tick.now
  BY LoopTypes
<1>6. Moment = now /\ Moment' = now
  BY <1>1, <1>3, <1>5 DEF Moment
<1>7. Budgeted(history.counted, memory.threads, memory.wakeTimes, now)
  BY <1>2, <1>6 DEF LoopInvariant
<1>8. /\ memory.threads \in [Topic -> WindowOf \cup {None}] /\ memory.wakeTimes \in Seq(Nat)
      /\ Len(memory.wakeTimes) <= maxWakesPerHour
  BY <1>7 DEF Budgeted
<1>9. k0 \in Topic
  BY <1>1, <1>4, PageNewest, KeysAssumption DEF topic, BridgeInvariant
<1>10. PICK w \in WindowOf \cup {None} : w = memory.threads[k0]
  BY <1>8, <1>9
<1>11. window = (IF InWindow(w, now) THEN w ELSE None)
  BY <1>4, <1>5, <1>10, WindowGives DEF window
<1>12. /\ memory'.threads \in [Topic -> WindowOf \cup {None}]
       /\ memory'.threads[k0] = window
       /\ \A k \in Topic \ {k0} : memory'.threads[k] = memory.threads[k]
  BY <1>3, <1>4, <1>8, <1>9, <1>11
<1>13. PICK last \in Seq(Nat) : last = LastHour(now)
  BY <1>8, LastHourIs
<1>14. /\ Len(last) <= maxWakesPerHour
       /\ \A a \in Nat : a > now - wakeHour => CountFrom(memory.wakeTimes, a) <= CountFrom(last, a)
  <2>1. /\ Len(last) <= Len(memory.wakeTimes) /\ Len(last) \in Nat /\ Len(memory.wakeTimes) \in Nat
        /\ \A a \in Nat : a > now - wakeHour => CountFrom(memory.wakeTimes, a) <= CountFrom(last, a)
    BY <1>8, <1>13, LastHourIs
  <2>2. QED BY <1>8, <2>1, PolicyTypes
<1>15. memory'.wakeTimes = last
  BY <1>3, <1>5, <1>13 DEF hour
<1>16. \A k \in Topic : \/ memory'.threads[k] = memory.threads[k]
                        \/ memory'.threads[k] = None /\ ~InWindow(memory.threads[k], now)
  BY <1>10, <1>11, <1>12
<1>17. Budgeted(history.counted, memory'.threads, last, now)
  BY <1>7, <1>12, <1>14, <1>16, BudgetRolls
<1>18. GateOpen'
  BY <1>3 DEF GateOpen
<1>19. Budgeted(history.filed, disk.threads, disk.wakeTimes, now)
  BY <1>6 DEF LoopInvariant
<1>20. QED BY <1>1, <1>3, <1>6, <1>15, <1>17, <1>18, <1>19, BudgetNext

\* The prompt fails: if the host took it nevertheless, that wake is not on record.
LEMMA FailsKeepsLoop ==
  ASSUME LoopInvariant, BridgeInvariant, PoolInvariant, PoolInvariant', promptFails
  PROVE  LoopInvariant'
<1> DEFINE wake == Wake
<1> HIDE DEF wake
<1>1. /\ Shape /\ tick.pc = "prompt" /\ tick' = [tick EXCEPT !.pc = "save"]
      /\ history' = history \/ history' = [history EXCEPT !.woken = history.woken \cup {wake}]
      /\ UNCHANGED <<clock, memory, disk>>
  BY DEF promptFails, Woken, BridgeInvariant, wake
<1>2. /\ tick'.pc = "save" /\ tick'.now = tick.now
      /\ history'.counted = history.counted /\ history'.filed = history.filed
  BY <1>1 DEF Shape, HistoryForm
<1>3. Moment <= Moment'
  BY <1>1, <1>2, LoopTypes DEF Moment
<1>4. GateOpen'
  BY <1>2 DEF GateOpen
<1>5. QED BY <1>1, <1>2, <1>3, <1>4, LoopSame

\* A bridge that has not started has not woken anyone.
LEMMA InitGivesLoop == Init => LoopInvariant
<1> SUFFICES ASSUME Init PROVE LoopInvariant
  OBVIOUS
<1>1. /\ memory = Ended /\ disk = Fresh /\ history.filed = {} /\ tick.pc = "idle" /\ clock = 0
  BY DEF Init, Idle
<1>2. disk.threads = [k \in Topic |-> None] /\ disk.wakeTimes = <<>>
  BY <1>1 DEF Fresh
<1>3. Moment \in Nat
  BY <1>1 DEF Moment
<1>4. Budgeted({}, [k \in Topic |-> None], <<>>, Moment)
  BY <1>3, BudgetBegins
<1>5. Budgeted(history.filed, disk.threads, disk.wakeTimes, Moment)
  BY <1>1, <1>2, <1>4
<1>6. QED BY <1>1, <1>5, NotRunning DEF LoopInvariant, GateOpen

\* A step of anyone keeps the counters right.
LEMMA StepKeepsLoop ==
  BridgeInvariant /\ PoolInvariant /\ LoopInvariant /\ [Next]_vars => LoopInvariant'
<1> SUFFICES ASSUME BridgeInvariant, PoolInvariant, LoopInvariant, [Next]_vars PROVE LoopInvariant'
  OBVIOUS
<1>1. PoolInvariant'
  BY StepKeepsPool
<1>2. CASE list BY <1>1, <1>2, ListKeepsLoop
<1>3. CASE sweep BY <1>1, <1>3, SweepKeepsLoop
<1>4. CASE hold \/ openFails \/ promptNotFound BY <1>1, <1>4, EndKeepsLoop
<1>5. CASE (\E t \in Thread : route(t)) \/ reuse \/ retire BY <1>1, <1>5, TurnKeepsLoop
<1>6. CASE drop BY <1>1, <1>6, DropKeepsLoop
<1>7. CASE prompted BY <1>1, <1>7, PromptedKeepsLoop
<1>8. CASE promptFails BY <1>1, <1>8, FailsKeepsLoop
<1>9. CASE save BY <1>1, <1>9, SaveKeepsLoop
<1>10. CASE Crash BY <1>1, <1>10, CrashKeepsLoop
<1>11. CASE \E s \in Opened : openSession(s) BY <1>1, <1>11, OpenKeepsLoop
<1>12. CASE \/ pass \/ UNCHANGED vars
            \/ \E m \in Msg : arrive(m) \/ markRead(m)
            \/ \E x \in Sends : recordOutbound(x)
            \/ \E s \in Local \cup Opened : vanish(s)
  BY <1>1, <1>12, OthersKeepLoop
<1>13. QED BY <1>2, <1>3, <1>4, <1>5, <1>6, <1>7, <1>8, <1>9, <1>10, <1>11, <1>12 DEF Next

\* Of the wakes on record, also across restarts, no thread has had twice its budget in a
\* span as long as its window, wherever a window ends, nor the bridge more than its own in
\* an hour (wakeGate, recordWake, loadStateOnce).
THEOREM LoopGuardHolds == Spec => []LoopGuard
<1>1. BridgeInvariant /\ LoopInvariant => LoopGuard
  <2> SUFFICES ASSUME BridgeInvariant, LoopInvariant, NEW v \in history.counted
               PROVE  /\ Cardinality({w \in history.counted :
                                        w.topic = v.topic /\ w.at \in v.at .. v.at + threadWindow})
                           <= 2 * maxThreadWakes - 1
                      /\ Cardinality({w \in history.counted : w.at >= v.at /\ w.at < v.at + wakeHour})
                           <= maxWakesPerHour
    BY DEF LoopGuard
  <2>1. PICK threads, times : Budgeted(history.counted, threads, times, Moment)
    BY DEF LoopInvariant, BridgeInvariant, Recorded
  <2>2. v.topic \in Topic /\ v.at \in Nat
    BY <2>1 DEF Budgeted
  <2>3. /\ Cardinality(SpanOn(history.counted, v.topic, v.at)) <= 2 * maxThreadWakes - 1
        /\ Cardinality(HourFrom(history.counted, v.at)) <= maxWakesPerHour
    BY <2>1, <2>2 DEF Budgeted
  <2>4. QED BY <2>3 DEF SpanOn, HourFrom
<1>2. Spec => []LoopInvariant
  BY BridgeInvariantHolds, PoolInvariantHolds, InitGivesLoop, StepKeepsLoop, PTL DEF Spec
<1>3. QED BY <1>1, <1>2, BridgeInvariantHolds, PTL
=============================================================================
