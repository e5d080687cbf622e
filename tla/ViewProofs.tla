------------------------------ MODULE ViewProofs ------------------------------
(***************************************************************************)
(* Proofs about what a session shows of itself: ViewIndex, HostOps and     *)
(* Transcript, for any number of homes, workspaces, sessions, logs and     *)
(* requests.                                                               *)
(***************************************************************************)
EXTENDS ViewIndex, HostOps, Transcript, ListProofs, SequenceTheorems, FiniteSetTheorems, TLAPS

Homes == Home \cup {NoHome}

\* An index, complete or in the making.
Indexing == [pc : {"idle", "registry", "logs"}, home : Homes, logs : Homes, excluded : SUBSET Workspace]

Reading ==
  [waits : Scan \cup {NoScan}, at : Nat, got : Seq(Indexing), allowed : SUBSET (Homes \X Workspace),
   done : BOOLEAN]

\* What the variables hold, but for the requests.
ViewTypeOK ==
  /\ config \in [home : Home, excluded : SUBSET Workspace]
  /\ registry \in Seq(Home) /\ index \in Seq(Indexing) /\ inflight \in Scan \cup {NoScan}
  /\ scan \in [Scan -> Indexing] /\ \A s \in Scan : scan[s].pc # "idle" => scan[s].home \in Home
  /\ reloads \in Nat /\ scanRaced \in BOOLEAN

\* An index of the config of now.
Current(i) == i.home = config.home /\ i.logs = config.home /\ i.excluded = config.excluded

\* What a request of this config may show has passed the filter of this config.
Filtered(q) ==
  q.at = reloads /\ q.got # <<>> => \A x \in q.allowed : x[2] \notin config.excluded \ Titled

\* A request that has received indexes of this config only.
Fed(q) ==
  q.at = reloads => /\ \A k \in DOMAIN q.got : Current(q.got[k])
                    /\ q.got # <<>> => q.allowed = Allowed

Proper(q) ==
  q \in Reading /\ q.at <= reloads /\ Filtered(q) /\ (~scanRaced => Fed(q))

\* Unless the last reload fell into a scan, whatever is cached or scanned has been read
\* under the config of now.
CachesCurrent ==
  /\ \A k \in DOMAIN registry : registry[k] = config.home
  /\ \A k \in DOMAIN index : Current(index[k])
  /\ \A s \in Scan : /\ scan[s].pc # "idle" => scan[s].home = config.home
                     /\ scan[s].pc = "logs" => Current(scan[s])

\* Requests of an earlier config may have received anything; no request receives what
\* was read under an earlier config than its own, unless a scan was raced.
ViewInvariant ==
  /\ ViewTypeOK /\ (~scanRaced => CachesCurrent)
  /\ reader = [r \in Reader |-> reader[r]] /\ \A r \in Reader : Proper(reader[r])

-----------------------------------------------------------------------------
\* A sequence of two is not empty.
LEMMA OfTwo ==
  ASSUME NEW S, NEW q \in Seq(S), Len(q) = 2 PROVE q # <<>> /\ 2 \in DOMAIN q
OBVIOUS

\* A sequence that is added to is not empty, and holds what it held and the new one.
LEMMA OfOneMore ==
  ASSUME NEW S, NEW q \in Seq(S), NEW x \in S
  PROVE  /\ Append(q, x) \in Seq(S) /\ Append(q, x) # <<>>
         /\ \A k \in DOMAIN Append(q, x) :
              Append(q, x)[k] = x \/ (k \in DOMAIN q /\ Append(q, x)[k] = q[k])
<1>1. Append(q, x) \in Seq(S) /\ Len(Append(q, x)) = Len(q) + 1 /\ Len(q) \in Nat
  OBVIOUS
<1>2. Append(q, x) # <<>>
  BY <1>1
<1>3. QED BY <1>1, <1>2

\* No session of a workspace that is excluded by id or path is in an answer.
LEMMA FilteredHides ==
  ASSUME ViewInvariant PROVE ExcludedStaysHidden
<1> SUFFICES ASSUME NEW r \in Answered, NEW x \in AnswerTo(reader[r])
             PROVE  x[2] \notin config.excluded \ Titled
  BY DEF ExcludedStaysHidden
<1>1. r \in Reader /\ reader[r].at = reloads /\ Len(reader[r].got) = 2
  BY DEF Answered
<1>2. reader[r].got \in Seq(Indexing)
  BY <1>1 DEF ViewInvariant, Proper, Reading
<1>3. reader[r].got # <<>>
  BY <1>1, <1>2, OfTwo
<1>4. x \in reader[r].allowed
  BY DEF AnswerTo
<1>5. QED BY <1>1, <1>3, <1>4 DEF ViewInvariant, Proper, Filtered

\* What an index of this config shows, filtered, is what the config allows.
LEMMA CurrentIsAllowed ==
  ASSUME ViewTypeOK, NEW i, Current(i)
  PROVE  visibleWorkspaces(i) = Allowed /\ sessions(i) = Allowed
<1>1. visibleWorkspaces(i) = Allowed
  BY DEF Current, visibleWorkspaces, workspaces, Allowed
<1>2. sessions(i) = Allowed
  BY DEF Current, sessions, Indexed, listSessionLogs, Allowed
<1>3. QED BY <1>1, <1>2

\* An answer put together from indexes of this config is what the config allows.
LEMMA CurrentAnswers ==
  ASSUME ViewInvariant PROVE AnsweredFromConfig
<1> SUFFICES ASSUME ~scanRaced, NEW r \in Answered
             PROVE  AnswerTo(reader[r]) = Allowed
  BY DEF AnsweredFromConfig
<1>1. r \in Reader /\ reader[r].at = reloads /\ Len(reader[r].got) = 2
  BY DEF Answered
<1>2. ViewTypeOK /\ reader[r].got \in Seq(Indexing)
  BY <1>1 DEF ViewInvariant, Proper, Reading
<1>3. reader[r].got # <<>> /\ 2 \in DOMAIN reader[r].got
  BY <1>1, <1>2, OfTwo
<1>4. Current(reader[r].got[2]) /\ reader[r].allowed = Allowed
  BY <1>1, <1>3 DEF ViewInvariant, Proper, Fed
<1>5. sessions(reader[r].got[2]) = Allowed
  BY <1>2, <1>4, CurrentIsAllowed
<1>6. QED BY <1>4, <1>5 DEF AnswerTo

-----------------------------------------------------------------------------
(* A request receives an index: what it may show is filtered at the first. *)

\* What an index shows is within the homes and workspaces there are, and filtered.
LEMMA VisibleType ==
  ASSUME NEW i \in Indexing
  PROVE  /\ visibleWorkspaces(i) \subseteq Homes \X Workspace
         /\ \A x \in visibleWorkspaces(i) : x[2] \notin config.excluded \ Titled
BY DEF visibleWorkspaces, workspaces, Indexing

\* A request that has received an index waits for none, and has it behind the others.
LEMMA ReceiveSpec ==
  ASSUME NEW i \in Indexing, NEW q \in Reading
  PROVE  /\ Receive(i, q) \in Reading
         /\ Receive(i, q).at = q.at /\ Receive(i, q).got = Append(q.got, i)
         /\ Receive(i, q).got # <<>>
         /\ Receive(i, q).allowed = IF q.got = <<>> THEN visibleWorkspaces(i) ELSE q.allowed
<1>1. Append(q.got, i) \in Seq(Indexing) /\ Append(q.got, i) # <<>>
  BY OfOneMore DEF Reading
<1>2. visibleWorkspaces(i) \in SUBSET (Homes \X Workspace)
  BY VisibleType
<1>3. QED BY <1>1, <1>2 DEF Receive, Reading

\* A request that receives an index stays proper, if the index is of this config or a
\* scan was raced.
LEMMA ReceiveKeeps ==
  ASSUME ViewTypeOK, NEW i \in Indexing, NEW q, Proper(q), ~scanRaced => Current(i)
  PROVE  Proper(Receive(i, q))
<1>1. q \in Reading /\ q.at <= reloads /\ q.got \in Seq(Indexing)
  BY DEF Proper, Reading
<1>2. /\ Receive(i, q) \in Reading /\ Receive(i, q).at = q.at /\ Receive(i, q).got = Append(q.got, i)
      /\ Receive(i, q).allowed = IF q.got = <<>> THEN visibleWorkspaces(i) ELSE q.allowed
  BY <1>1, ReceiveSpec
<1>3. Filtered(Receive(i, q))
  BY <1>2, VisibleType DEF Proper, Filtered
<1>4. ASSUME ~scanRaced PROVE Fed(Receive(i, q))
  <2>1. \A k \in DOMAIN Append(q.got, i) :
          Append(q.got, i)[k] = i \/ (k \in DOMAIN q.got /\ Append(q.got, i)[k] = q.got[k])
    BY <1>1, OfOneMore
  <2>2. visibleWorkspaces(i) = Allowed
    BY <1>4, CurrentIsAllowed
  <2>3. QED BY <1>2, <1>4, <2>1, <2>2 DEF Proper, Fed
<1>5. QED BY <1>1, <1>2, <1>3, <1>4 DEF Proper

\* A request that begins is of this config; one that goes on is as it was.
LEMMA AskingProper ==
  ASSUME ViewInvariant, NEW r \in Reader
  PROVE  Proper(Asking(r)) /\ \A s \in Scan : Proper([Asking(r) EXCEPT !.waits = s])
<1>1. Proper(Asking(r))
  <2>1. CASE reader[r].done
    <3> DEFINE q == [IdleReader EXCEPT !.at = reloads, !.done = FALSE]
    <3>1. q \in Reading /\ q.at = reloads /\ q.got = <<>> /\ reloads \in Nat
      <4>1. <<>> \in Seq(Indexing) /\ reloads \in Nat
        BY DEF ViewInvariant, ViewTypeOK
      <4>2. QED BY <4>1 DEF IdleReader, Reading
    <3>2. Asking(r) = q
      BY <2>1 DEF Asking
    <3>3. QED BY <3>1, <3>2 DEF Proper, Filtered, Fed
  <2>2. CASE ~reader[r].done
    BY <2>2 DEF Asking, ViewInvariant
  <2>3. QED BY <2>1, <2>2
<1>2. ASSUME NEW s \in Scan PROVE Proper([Asking(r) EXCEPT !.waits = s])
  BY <1>1 DEF Proper, Reading, Filtered, Fed
<1>3. QED BY <1>1, <1>2

-----------------------------------------------------------------------------
(* One lemma for each action.                                              *)

\* Requests stay proper while the config is the same.
LEMMA RequestsKeep ==
  ASSUME \A r \in Reader : Proper(reader'[r]), UNCHANGED <<config, reloads, scanRaced>>
  PROVE  \A r \in Reader : Proper(reader[r])'
<1> SUFFICES ASSUME NEW r \in Reader PROVE Proper(reader[r])'
  OBVIOUS
<1>1. Proper(reader'[r])
  OBVIOUS
<1>2. QED BY <1>1 DEF Proper, Filtered, Fed, Current, Allowed

\* A new scan reads the home of the cached registry, or of the config.
LEMMA BeginScanKeeps ==
  ASSUME ViewInvariant, NEW s \in Scan, beginScan(s),
         UNCHANGED <<config, registry, index, reloads, scanRaced>>
  PROVE  ViewTypeOK' /\ (~scanRaced' => CachesCurrent')
<1> DEFINE home == IF registry = <<>> THEN config.home ELSE registry[1]
           new == [IdleScan EXCEPT !.pc = "registry", !.home = home]
<1>1. ViewTypeOK /\ registry \in Seq(Home)
  BY DEF ViewInvariant, ViewTypeOK
<1>2. registry # <<>> => 1 \in DOMAIN registry /\ registry[1] \in Home
  BY <1>1
<1>3. home \in Home
  BY <1>1, <1>2 DEF ViewTypeOK
<1>4. new \in Indexing /\ new.pc = "registry" /\ new.home = home
  BY <1>3 DEF IdleScan, Indexing, Homes
<1>5. ~scanRaced => home = config.home
  BY <1>2 DEF ViewInvariant, CachesCurrent
<1>6. scan' = [scan EXCEPT ![s] = new] /\ inflight' = s
  BY DEF beginScan
<1> HIDE DEF new, home
<1>7. ViewTypeOK'
  BY <1>1, <1>3, <1>4, <1>6 DEF ViewTypeOK
<1>8. ~scanRaced' => CachesCurrent'
  BY <1>1, <1>4, <1>5, <1>6 DEF ViewInvariant, ViewTypeOK, CachesCurrent, Current
<1>9. QED BY <1>7, <1>8

\* A request is given the cached index, or waits for a scan.
LEMMA GetIndexKeeps ==
  ASSUME ViewInvariant, NEW r \in Reader, getIndex(r) PROVE ViewInvariant'
<1>1. UNCHANGED <<config, registry, index, reloads, scanRaced>>
  BY DEF getIndex
<1>2. ViewTypeOK /\ Proper(Asking(r)) /\ \A s \in Scan : Proper([Asking(r) EXCEPT !.waits = s])
  BY AskingProper DEF ViewInvariant
<1>3. ASSUME NEW new, Proper(new), reader' = [reader EXCEPT ![r] = new]
      PROVE  /\ reader' = [q \in Reader |-> reader'[q]]
             /\ \A q \in Reader : Proper(reader[q])'
  <2>1. reader' = [q \in Reader |-> IF q = r THEN new ELSE reader[q]]
    BY <1>3 DEF ViewInvariant
  <2>2. \A q \in Reader : Proper(reader'[q])
    BY <1>3, <2>1 DEF ViewInvariant
  <2>3. QED BY <1>1, <2>1, <2>2, RequestsKeep
<1>4. ASSUME UNCHANGED <<scan, inflight>>
      PROVE  ViewTypeOK' /\ (~scanRaced' => CachesCurrent')
  BY <1>1, <1>4 DEF ViewInvariant, ViewTypeOK, CachesCurrent, Current
<1>5. CASE index # <<>> /\ Ask(r, Receive(index[1], Asking(r))) /\ UNCHANGED <<scan, inflight>>
  <2>1. index \in Seq(Indexing) /\ 1 \in DOMAIN index /\ index[1] \in Indexing
    BY <1>2, <1>5 DEF ViewTypeOK
  <2>2. ~scanRaced => Current(index[1])
    BY <2>1 DEF ViewInvariant, CachesCurrent
  <2>3. Proper(Receive(index[1], Asking(r)))
    BY <1>2, <2>1, <2>2, ReceiveKeeps
  <2>4. QED BY <1>3, <1>4, <1>5, <2>3 DEF Ask, ViewInvariant
<1>6. CASE inflight # NoScan /\ Ask(r, [Asking(r) EXCEPT !.waits = inflight]) /\ UNCHANGED <<scan, inflight>>
  <2>1. Proper([Asking(r) EXCEPT !.waits = inflight])
    BY <1>2, <1>6 DEF ViewTypeOK
  <2>2. QED BY <1>3, <1>4, <1>6, <2>1 DEF Ask, ViewInvariant
<1>7. CASE \E s \in Scan : Ask(r, [Asking(r) EXCEPT !.waits = s]) /\ beginScan(s)
  <2>1. PICK s \in Scan : Ask(r, [Asking(r) EXCEPT !.waits = s]) /\ beginScan(s)
    BY <1>7
  <2>2. QED BY <1>1, <1>2, <1>3, <2>1, BeginScanKeeps DEF Ask, ViewInvariant
<1>8. QED BY <1>5, <1>6, <1>7 DEF getIndex

\* A scan that has read its registry caches it, and takes what is excluded, and where
\* the logs are, from the config of now.
LEMMA BuildIndexKeeps ==
  ASSUME ViewInvariant, NEW s \in Scan, buildIndex(s) PROVE ViewInvariant'
<1> DEFINE new == [scan[s] EXCEPT !.pc = "logs", !.excluded = config.excluded, !.logs = config.home]
<1>1. /\ ViewTypeOK /\ scan[s] \in Indexing /\ scan[s].pc = "registry" /\ scan[s].home \in Home
      /\ UNCHANGED <<config, index, inflight, reader, reloads, scanRaced>>
      /\ registry' = <<scan[s].home>>
  BY DEF ViewInvariant, ViewTypeOK, buildIndex
<1>2. scan' = [scan EXCEPT ![s] = new]
  BY <1>1 DEF buildIndex, ViewTypeOK, Indexing
<1>3. /\ new \in Indexing /\ new.home = scan[s].home /\ new.logs = config.home
      /\ new.excluded = config.excluded
  BY <1>1 DEF Indexing, ViewTypeOK, Homes
<1> HIDE DEF new
<1>4. ViewTypeOK'
  BY <1>1, <1>2, <1>3 DEF ViewTypeOK
<1>5. ASSUME ~scanRaced PROVE CachesCurrent'
  <2>1. scan[s].home = config.home
    BY <1>1, <1>5 DEF ViewInvariant, CachesCurrent
  <2>2. \A k \in DOMAIN registry' : registry'[k] = config.home
    BY <1>1, <2>1
  <2>3. QED BY <1>1, <1>2, <1>3, <1>5, <2>1, <2>2 DEF ViewInvariant, ViewTypeOK, CachesCurrent, Current
<1>6. \A r \in Reader : Proper(reader[r])'
  BY <1>1, RequestsKeep DEF ViewInvariant
<1>7. QED BY <1>1, <1>4, <1>5, <1>6 DEF ViewInvariant

\* A scan that ends is cached, and given to all that wait for it.
LEMMA EndScanKeeps ==
  ASSUME ViewInvariant, NEW s \in Scan, endScan(s) PROVE ViewInvariant'
<1>1. /\ ViewTypeOK /\ scan[s] \in Indexing /\ scan[s].pc = "logs"
      /\ UNCHANGED <<config, registry, reloads, scanRaced>>
      /\ index' = <<scan[s]>> /\ inflight' = NoScan /\ scan' = [scan EXCEPT ![s] = IdleScan]
  BY DEF ViewInvariant, ViewTypeOK, endScan
<1>2. IdleScan \in Indexing /\ IdleScan.pc = "idle"
  BY DEF IdleScan, Indexing, Homes
<1>3. index' \in Seq(Indexing) /\ \A k \in DOMAIN index' : index'[k] = scan[s]
  BY <1>1
<1>4. ~scanRaced => Current(scan[s])
  BY <1>1 DEF ViewInvariant, CachesCurrent
<1>5. ViewTypeOK'
  BY <1>1, <1>2, <1>3 DEF ViewTypeOK
<1>6. ~scanRaced => CachesCurrent'
  BY <1>1, <1>2, <1>3, <1>4 DEF ViewInvariant, ViewTypeOK, CachesCurrent, Current
<1>7. \A r \in Reader : Proper(reader'[r])
  <2>1. \A r \in Reader : Proper(reader[r]) /\ Proper(Receive(scan[s], reader[r]))
    BY <1>1, <1>4, ReceiveKeeps DEF ViewInvariant
  <2>2. QED BY <2>1 DEF endScan
<1>8. reader' = [r \in Reader |-> reader'[r]]
  BY DEF endScan
<1>9. QED BY <1>1, <1>5, <1>6, <1>7, <1>8, RequestsKeep DEF ViewInvariant

\* What expires is not current and not old.
LEMMA AgesOutKeeps ==
  ASSUME ViewInvariant, agesOut PROVE ViewInvariant'
<1>1. /\ UNCHANGED <<config, inflight, scan, reader, reloads, scanRaced>>
      /\ index' \in {index, <<>>} /\ registry' \in {registry, <<>>}
  BY DEF agesOut, expireCache
<1>2. <<>> \in Seq(Indexing) /\ <<>> \in Seq(Home) /\ DOMAIN <<>> = {}
  OBVIOUS
<1>3. ViewTypeOK'
  BY <1>1, <1>2 DEF ViewInvariant, ViewTypeOK
<1>4. ~scanRaced => CachesCurrent'
  BY <1>1, <1>2 DEF ViewInvariant, CachesCurrent, Current
<1>5. \A r \in Reader : Proper(reader[r])'
  BY <1>1, RequestsKeep DEF ViewInvariant
<1>6. QED BY <1>1, <1>3, <1>4, <1>5 DEF ViewInvariant

\* A reload empties the cache, and no request has begun under the new config yet.
LEMMA ReconfigureViewKeeps ==
  ASSUME ViewInvariant, NEW c \in [home : Home, excluded : SUBSET Workspace], reconfigureView(c)
  PROVE  ViewInvariant'
<1>1. /\ config' = c /\ registry' = <<>> /\ index' = <<>> /\ inflight' = NoScan
      /\ UNCHANGED <<scan, reader>> /\ reloads' = reloads + 1 /\ scanRaced' = (Scanning # {})
  BY DEF reconfigureView, dropCache, refresh
<1>2. <<>> \in Seq(Indexing) /\ <<>> \in Seq(Home) /\ DOMAIN <<>> = {}
  OBVIOUS
<1>3. ViewTypeOK'
  BY <1>1, <1>2 DEF ViewInvariant, ViewTypeOK
<1>4. ~scanRaced' => CachesCurrent'
  BY <1>1, <1>2 DEF CachesCurrent, Scanning
<1>5. ASSUME NEW r \in Reader PROVE Proper(reader[r])'
  <2>1. reader[r] \in Reading /\ reader[r].at <= reloads /\ reader[r].at \in Nat /\ reloads \in Nat
    BY DEF ViewInvariant, ViewTypeOK, Proper, Reading
  <2>2. reader[r].at <= reloads' /\ reader[r].at # reloads'
    BY <1>1, <2>1
  <2>3. QED BY <1>1, <2>1, <2>2 DEF Proper, Filtered, Fed
<1>6. QED BY <1>1, <1>3, <1>4, <1>5 DEF ViewInvariant

-----------------------------------------------------------------------------
\* At first nothing is excluded, cached or asked for.
LEMMA ViewInitInvariant == ViewInit => ViewInvariant
<1> SUFFICES ASSUME ViewInit PROVE ViewInvariant
  OBVIOUS
<1>1. <<>> \in Seq(Indexing) /\ <<>> \in Seq(Home) /\ DOMAIN <<>> = {}
  OBVIOUS
<1>2. config \in [home : Home, excluded : SUBSET Workspace]
  BY ViewAssumption DEF ViewInit
<1>3. ViewTypeOK
  BY <1>1, <1>2 DEF ViewInit, ViewTypeOK, IdleScan, Indexing, Homes
<1>4. CachesCurrent
  BY <1>1 DEF ViewInit, CachesCurrent, IdleScan
<1>5. \A r \in Reader : Proper(reader[r])
  BY <1>1 DEF ViewInit, Proper, Filtered, Fed, IdleReader, Reading
<1>6. QED BY <1>3, <1>4, <1>5 DEF ViewInvariant, ViewInit

\* The invariant holds whatever requests, scans and reloads follow each other.
THEOREM ViewInvariantHolds == ViewSpec => []ViewInvariant
<1>1. ASSUME ViewInvariant, ViewNext PROVE ViewInvariant'
  BY <1>1, GetIndexKeeps, BuildIndexKeeps, EndScanKeeps, AgesOutKeeps, ReconfigureViewKeeps DEF ViewNext
<1>2. ASSUME ViewInvariant, UNCHANGED viewVars PROVE ViewInvariant'
  <2>1. \A r \in Reader : Proper(reader[r])'
    BY <1>2, RequestsKeep DEF viewVars, ViewInvariant
  <2>2. QED BY <1>2, <2>1 DEF viewVars, ViewInvariant, ViewTypeOK, CachesCurrent, Current
<1>3. ViewInvariant /\ [ViewNext]_viewVars => ViewInvariant'
  BY <1>1, <1>2
<1>4. QED BY <1>3, ViewInitInvariant, PTL DEF ViewSpec

\* Unless the last reload fell into a scan, a request is answered with the sessions that
\* the config it began under allows, whatever is cached, shared or expires (getIndex).
THEOREM AnsweredFromConfigHolds == ViewSpec => []AnsweredFromConfig
<1>1. ViewInvariant => AnsweredFromConfig
  BY CurrentAnswers
<1>2. QED BY <1>1, ViewInvariantHolds, PTL

\* And even when it did, no session of a workspace that is excluded by id or path is in
\* an answer to a request that began under this config (visibleWorkspaces).
THEOREM ExcludedStaysHiddenHolds == ViewSpec => []ExcludedStaysHidden
<1>1. ViewInvariant => ExcludedStaysHidden
  BY FilteredHides
<1>2. QED BY <1>1, ViewInvariantHolds, PTL

-----------------------------------------------------------------------------
(***************************************************************************)
(* Proofs about HostOps, for any commands, workspaces, limits and bounds.  *)
(***************************************************************************)
-----------------------------------------------------------------------------
(* The commands in the Host.                                               *)

HostSession ==
  [space : {args[c].space : c \in Cmd} \cup Space \cup {NoSpace}, by : Cmd \cup {"user"},
   archived : BOOLEAN, titled : BOOLEAN, turns : Nat]

Wishes == {Wish(c) : c \in Cmd}

\* The command that is executed.
RunForm ==
  /\ run = [pc |-> run.pc, cmd |-> run.cmd, owners |-> run.owners, archived |-> run.archived,
            rows |-> run.rows, total |-> run.total, truncated |-> run.truncated, all |-> run.all]
  /\ run.pc \in {"idle", "begin", "list", "rename", "done", "failed"}
  /\ run.pc \in {"begin", "list", "rename", "done"} => run.cmd \in Cmd

HostTypeOK ==
  /\ hosted \in Seq(HostSession) /\ recent \in Seq(Nat)
  /\ RunForm /\ runs \in Nat /\ due \subseteq Cmd
  /\ turns \in [Wishes -> Nat] /\ cut \in [Cmd -> Nat]

\* A wish that has had its turn has been admitted.
TurnsAdmitted == \A w \in Wishes : turns[w] <= 1 /\ (turns[w] = 1 => <<w, 0>> \in admitted)

\* A command that has yet to be executed, or to do its work.
Pending(c) == c \in due \/ (run.cmd = c /\ run.pc \in {"begin", "list"})

\* A command that is due has not created a session more than its lost answers.
CreatedBefore ==
  /\ \A c \in Cmd : Cardinality(Mine(c)) <= cut[c] + (IF Pending(c) THEN 0 ELSE 1)
  /\ run.pc \in {"begin", "list", "rename", "done"} => run.cmd \notin due

\* The Host's order has every session, and what a list has read of the owners and the
\* archive still holds.
ListedAll ==
  /\ \A s \in DOMAIN hosted : \E i \in DOMAIN recent : recent[i] = s
  /\ run.pc = "list" => /\ ~args[run.cmd].tail
                        /\ DOMAIN run.owners \subseteq DOMAIN hosted
                        /\ run.archived \subseteq archivedSet

HostInvariant ==
  HostTypeOK /\ TurnsAdmitted /\ CreatedBefore /\ ListedAll /\ AnswerTellsWhatItOmits

-----------------------------------------------------------------------------
\* The function by which a list is halved until it fits.
Halves(kept, n) == kept = [k \in 0 .. n |-> IF k <= MaxResult THEN k ELSE kept[k \div 2]]

\* There is one.
LEMMA HalvesExist ==
  ASSUME NEW n \in Nat PROVE \E kept : Halves(kept, n)
<1> DEFINE Bad == {m \in Nat : ~ \E kept : Halves(kept, m)}
<1>1. 0 \notin Bad
  <2> DEFINE kept == [k \in 0 .. 0 |-> k]
  <2>1. kept = [k \in 0 .. 0 |-> IF k <= MaxResult THEN k ELSE kept[k \div 2]]
    BY HostAssumption
  <2> HIDE DEF kept
  <2>2. Halves(kept, 0)
    BY <2>1 DEF Halves
  <2>3. QED BY <2>2
<1>2. ASSUME NEW m \in Nat, m \notin Bad PROVE m + 1 \notin Bad
  <2>1. PICK kept : Halves(kept, m)
    BY <1>2
  <2>2. MaxResult \in Nat \ {0}
    BY HostAssumption
  <2> DEFINE next == IF m + 1 <= MaxResult THEN m + 1 ELSE kept[(m + 1) \div 2]
             more == [k \in 0 .. m + 1 |-> IF k <= m THEN kept[k] ELSE next]
  <2>3. ASSUME NEW k \in 0 .. m + 1
        PROVE  more[k] = IF k <= MaxResult THEN k ELSE more[k \div 2]
    <3>1. k \div 2 \in 0 .. m + 1 /\ (k # 0 => k \div 2 <= k - 1)
      OBVIOUS
    <3>2. CASE k <= m
      <4>1. more[k] = kept[k] /\ more[k \div 2] = kept[k \div 2]
        BY <3>1, <3>2
      <4>2. kept[k] = IF k <= MaxResult THEN k ELSE kept[k \div 2]
        BY <2>1, <3>2 DEF Halves
      <4>3. QED BY <4>1, <4>2
    <3>3. CASE k = m + 1
      <4>1. more[k] = next /\ more[k \div 2] = kept[k \div 2]
        BY <3>1, <3>3
      <4>2. QED BY <3>3, <4>1
    <3>4. QED BY <3>2, <3>3
  <2>4. more = [k \in 0 .. m + 1 |-> more[k]]
    OBVIOUS
  <2> HIDE DEF more
  <2>5. Halves(more, m + 1)
    BY <2>3, <2>4 DEF Halves
  <2>6. QED BY <2>5
<1>3. Bad = {}
  <2> HIDE DEF Bad
  <2>1. Bad \in SUBSET Nat
    BY DEF Bad
  <2>2. QED BY <1>1, <1>2, <2>1, NoFirst
<1>4. QED BY <1>3

\* What is halved fits, and what fits is not halved.
LEMMA HalvesFit ==
  ASSUME NEW n \in Nat, NEW kept, Halves(kept, n)
  PROVE  kept[n] \in 0 .. n /\ kept[n] <= MaxResult /\ (n <= MaxResult => kept[n] = n)
<1> DEFINE Bad == {m \in Nat : m <= n /\ ~(kept[m] \in 0 .. m /\ kept[m] <= MaxResult)}
<1>1. MaxResult \in Nat \ {0}
  BY HostAssumption
<1>2. \A m \in 0 .. n : kept[m] = IF m <= MaxResult THEN m ELSE kept[m \div 2]
  BY DEF Halves
<1>3. ASSUME NEW m \in Nat, \A k \in 0 .. m - 1 : k \notin Bad PROVE m \notin Bad
  <2> SUFFICES ASSUME m <= n PROVE kept[m] \in 0 .. m /\ kept[m] <= MaxResult
    OBVIOUS
  <2>1. CASE m <= MaxResult
    BY <1>1, <1>2, <2>1
  <2>2. CASE ~(m <= MaxResult)
    <3>1. m \div 2 \in 0 .. m - 1 /\ m \div 2 \in Nat /\ m \div 2 <= n
      BY <1>1, <2>2
    <3>2. kept[m] = kept[m \div 2] /\ kept[m \div 2] \in 0 .. m \div 2
          /\ kept[m \div 2] <= MaxResult
      BY <1>2, <1>3, <2>2, <3>1
    <3>3. QED BY <3>1, <3>2
  <2>3. QED BY <2>1, <2>2
<1>4. Bad = {}
  <2> HIDE DEF Bad
  <2>1. Bad \in SUBSET Nat
    BY DEF Bad
  <2>2. QED BY <1>3, <2>1, NoLeast
<1>5. QED BY <1>2, <1>4

\* The first elements of a list.
LEMMA FirstIs ==
  ASSUME NEW T, NEW list \in Seq(T), NEW n \in Nat
  PROVE  /\ First(list, n) \in Seq(T) /\ Len(First(list, n)) = (IF Len(list) < n THEN Len(list) ELSE n)
         /\ Len(list) <= n => First(list, n) = list
<1>1. PICK m \in 0 .. Len(list) : m = IF Len(list) < n THEN Len(list) ELSE n
  OBVIOUS
<1>2. First(list, n) = SubSeq(list, 1, m)
  BY <1>1 DEF First
<1>3. \A i \in 1 .. m : list[i] \in T
  OBVIOUS
<1>4. /\ SubSeq(list, 1, m) \in Seq(T)
      /\ Len(SubSeq(list, 1, m)) = IF 1 <= m THEN m - 1 + 1 ELSE 0
  BY <1>3, SubSeqProperties
<1>5. Len(list) <= n => m = Len(list)
  BY <1>1
<1>6. QED BY <1>1, <1>2, <1>4, <1>5, SubSeqFull

\* An answer fits, and is the whole list when it is not truncated.
LEMMA CapIs ==
  ASSUME NEW T, NEW list \in Seq(T)
  PROVE  /\ Len(cap(list).rows) <= MaxResult
         /\ ~cap(list).truncated => cap(list).rows = list
<1> DEFINE kept == CHOOSE f : Halves(f, Len(list))
<1>1. Len(list) \in Nat /\ MaxResult \in Nat \ {0}
  BY HostAssumption
<1>2. Halves(kept, Len(list))
  BY <1>1, HalvesExist
<1>3. cap(list) = [rows |-> First(list, kept[Len(list)]), truncated |-> Len(list) > MaxResult]
  BY DEF cap, Halves
<1> HIDE DEF kept
<1>4. /\ kept[Len(list)] \in 0 .. Len(list) /\ kept[Len(list)] <= MaxResult
      /\ Len(list) <= MaxResult => kept[Len(list)] = Len(list)
  BY <1>1, <1>2, HalvesFit
<1>5. PICK n \in Nat : n = kept[Len(list)]
  BY <1>4
<1>6. /\ Len(First(list, n)) = (IF Len(list) < n THEN Len(list) ELSE n)
      /\ Len(list) <= n => First(list, n) = list
  BY <1>5, FirstIs
<1>7. cap(list).rows = First(list, n) /\ cap(list).truncated = (Len(list) > MaxResult)
  BY <1>3, <1>5
<1>8. Len(First(list, n)) <= MaxResult
  BY <1>1, <1>4, <1>5, <1>6
<1>9. ~(Len(list) > MaxResult) => First(list, n) = list
  BY <1>1, <1>4, <1>5, <1>6
<1>10. QED BY <1>7, <1>8, <1>9

-----------------------------------------------------------------------------
(* What a step leaves of the Host.                                         *)

\* The Host has every session in its order.
Ordered == \A s \in DOMAIN hosted : \E i \in DOMAIN recent : recent[i] = s

\* A step that opens no session, and takes none out of the archive.
HostSteady ==
  /\ hosted' \in Seq(HostSession) /\ recent' \in Seq(Nat) /\ Ordered'
  /\ DOMAIN hosted' = DOMAIN hosted
  /\ \A s \in DOMAIN hosted : /\ hosted'[s].by = hosted[s].by
                              /\ hosted[s].archived => hosted'[s].archived

\* Nothing is done.
LEMMA UnchangedIsSteady ==
  ASSUME HostInvariant, UNCHANGED <<hosted, recent>> PROVE HostSteady
BY DEF HostSteady, HostInvariant, HostTypeOK, ListedAll, Ordered

\* A session is changed, but for its creator.
LEMMA SetIsSteady ==
  ASSUME HostInvariant, NEW s \in DOMAIN hosted, NEW new \in HostSession,
         new.by = hosted[s].by, hosted[s].archived => new.archived,
         hosted' = [hosted EXCEPT ![s] = new], recent' = recent
  PROVE  HostSteady
<1>1. hosted \in Seq(HostSession) /\ recent \in Seq(Nat) /\ Ordered
  BY DEF HostInvariant, HostTypeOK, ListedAll, Ordered
<1>2. s \in 1 .. Len(hosted)
  BY <1>1
<1>3. /\ hosted' \in Seq(HostSession) /\ DOMAIN hosted' = DOMAIN hosted
      /\ \A k \in DOMAIN hosted : hosted'[k] = IF k = s THEN new ELSE hosted[k]
  BY <1>1, <1>2, ExceptSeq
<1>4. QED BY <1>1, <1>3 DEF HostSteady, Ordered

\* A session with a turn more comes first.
LEMMA TouchIsSteady ==
  ASSUME HostInvariant, NEW s \in DOMAIN hosted, Touch(s) PROVE HostSteady
<1>1. hosted \in Seq(HostSession) /\ recent \in Seq(Nat) /\ Ordered /\ s \in Nat
  BY DEF HostInvariant, HostTypeOK, ListedAll, Ordered
<1>2. hosted[s] \in HostSession
  BY <1>1
<1> DEFINE new == [hosted[s] EXCEPT !.turns = @ + 1]
           others == Filter(recent, DOMAIN hosted \ {s})
<1>3. new \in HostSession /\ new.by = hosted[s].by /\ new.archived = hosted[s].archived
  BY <1>2 DEF HostSession
<1>4. hosted' = [hosted EXCEPT ![s] = new] /\ recent' = <<s>> \o others
  BY DEF Touch
<1>5. /\ others \in Seq(Nat)
      /\ \A i \in 1 .. Len(recent) :
           recent[i] \in DOMAIN hosted \ {s} => \E j \in 1 .. Len(others) : others[j] = recent[i]
  <2>1. PICK rest : rest = DOMAIN hosted \ {s}
    OBVIOUS
  <2>2. PICK list \in Seq(Nat) : list = recent
    BY <1>1
  <2>3. Filter(list, rest) \in Seq(Nat)
    BY FilterType
  <2>4. ASSUME NEW i \in 1 .. Len(list), list[i] \in rest
        PROVE  \E j \in 1 .. Len(Filter(list, rest)) : Filter(list, rest)[j] = list[i]
    BY <2>4, FilterKeeps
  <2>5. QED BY <2>1, <2>2, <2>3, <2>4
<1> HIDE DEF new, others
<1>6. s \in 1 .. Len(hosted)
  BY <1>1
<1>7. /\ hosted' \in Seq(HostSession) /\ DOMAIN hosted' = DOMAIN hosted
      /\ \A k \in DOMAIN hosted : hosted'[k] = IF k = s THEN new ELSE hosted[k]
  BY <1>1, <1>3, <1>4, <1>6, ExceptSeq
<1>8. /\ recent' \in Seq(Nat) /\ Len(recent') = Len(others) + 1 /\ recent'[1] = s
      /\ \A j \in 1 .. Len(others) : recent'[j + 1] = others[j]
  BY <1>1, <1>4, <1>5
<1>9. ASSUME NEW k \in DOMAIN hosted PROVE \E i \in DOMAIN recent' : recent'[i] = k
  <2>1. CASE k = s
    BY <1>5, <1>8, <2>1
  <2>2. CASE k # s
    <3>1. PICK i \in 1 .. Len(recent) : recent[i] = k
      BY <1>1 DEF Ordered
    <3>2. PICK j \in 1 .. Len(others) : others[j] = k
      BY <1>5, <2>2, <3>1
    <3>3. j + 1 \in DOMAIN recent' /\ recent'[j + 1] = k
      BY <1>5, <1>8, <3>2
    <3>4. QED BY <3>3
  <2>3. QED BY <2>1, <2>2
<1>10. QED BY <1>3, <1>7, <1>8, <1>9 DEF HostSteady, Ordered

\* A session is opened: it is its creator's.
LEMMA OpenIs ==
  ASSUME HostInvariant, NEW space, NEW by, Open(space, by), by \in Cmd \cup {"user"},
         space \in {args[c].space : c \in Cmd} \cup Space \cup {NoSpace}
  PROVE  /\ hosted' \in Seq(HostSession) /\ recent' \in Seq(Nat) /\ Ordered'
         /\ DOMAIN hosted' = DOMAIN hosted \cup {Len(hosted) + 1} /\ Len(hosted) \in Nat
         /\ Len(hosted) + 1 \notin DOMAIN hosted
         /\ hosted'[Len(hosted) + 1].by = by
         /\ \A s \in DOMAIN hosted : hosted'[s] = hosted[s]
<1>1. hosted \in Seq(HostSession) /\ recent \in Seq(Nat) /\ Ordered
  BY DEF HostInvariant, HostTypeOK, ListedAll, Ordered
<1> DEFINE new == [space |-> space, by |-> by, archived |-> FALSE, titled |-> FALSE, turns |-> 0]
<1>2. new \in HostSession /\ new.by = by
  BY DEF HostSession
<1>3. hosted' = Append(hosted, new) /\ recent' = <<Len(hosted')>> \o recent
  BY DEF Open
<1> HIDE DEF new
<1>4. /\ hosted' \in Seq(HostSession) /\ Len(hosted') = Len(hosted) + 1 /\ Len(hosted) \in Nat
      /\ hosted'[Len(hosted) + 1] = new
      /\ \A s \in 1 .. Len(hosted) : hosted'[s] = hosted[s]
  BY <1>1, <1>2, <1>3
<1>5. /\ recent' \in Seq(Nat) /\ Len(recent') = Len(recent) + 1 /\ recent'[1] = Len(hosted')
      /\ Len(recent) \in Nat /\ \A i \in 1 .. Len(recent) : recent'[i + 1] = recent[i]
  BY <1>1, <1>3, <1>4
<1>6. ASSUME NEW s \in 1 .. Len(hosted) + 1 PROVE \E i \in 1 .. Len(recent) + 1 : recent'[i] = s
  <2>1. CASE s = Len(hosted) + 1
    BY <1>4, <1>5, <2>1
  <2>2. CASE s \in 1 .. Len(hosted)
    <3>1. PICK i \in 1 .. Len(recent) : recent[i] = s
      <4>1. DOMAIN hosted = 1 .. Len(hosted) /\ DOMAIN recent = 1 .. Len(recent)
        BY <1>1
      <4>2. QED BY <1>1, <2>2, <4>1 DEF Ordered
    <3>2. i + 1 \in 1 .. Len(recent) + 1 /\ recent'[i + 1] = s
      BY <1>5, <3>1
    <3>3. QED BY <3>2
  <2>3. QED BY <1>4, <2>1, <2>2
<1>7. /\ DOMAIN hosted = 1 .. Len(hosted) /\ DOMAIN hosted' = 1 .. Len(hosted) + 1
      /\ DOMAIN recent' = 1 .. Len(recent) + 1
  BY <1>1, <1>4, <1>5
<1>8. Ordered'
  BY <1>6, <1>7 DEF Ordered
<1>9. DOMAIN hosted' = DOMAIN hosted \cup {Len(hosted) + 1} /\ Len(hosted) + 1 \notin DOMAIN hosted
  BY <1>4, <1>7
<1>10. QED BY <1>2, <1>4, <1>5, <1>7, <1>8, <1>9

\* There are finitely many sessions.
LEMMA MineFinite ==
  ASSUME HostInvariant, NEW c PROVE IsFiniteSet(Mine(c)) /\ Cardinality(Mine(c)) \in Nat
<1>1. hosted \in Seq(HostSession)
  BY DEF HostInvariant, HostTypeOK
<1>2. IsFiniteSet(1 .. Len(hosted)) /\ Mine(c) \subseteq 1 .. Len(hosted)
  BY <1>1, FS_Interval DEF Mine
<1>3. QED BY <1>2, FS_Subset, FS_CardinalityType

\* What a steady step keeps of what commands have created.
LEMMA CreatedSame ==
  ASSUME HostInvariant, HostSteady, cut' \in [Cmd -> Nat],
         \A c \in Cmd : /\ cut[c] <= cut'[c]
                        /\ Pending(c)' => Pending(c) \/ cut[c] < cut'[c],
         run'.pc \in {"begin", "list", "rename", "done"} => run'.cmd \notin due'
  PROVE  CreatedBefore'
<1>1. \A c : Mine(c)' = Mine(c)
  BY DEF HostSteady, Mine
<1>2. ASSUME NEW c \in Cmd
      PROVE  Cardinality(Mine(c)) <= cut'[c] + (IF Pending(c)' THEN 0 ELSE 1)
  <2>1. Cardinality(Mine(c)) <= cut[c] + (IF Pending(c) THEN 0 ELSE 1)
    BY DEF HostInvariant, CreatedBefore
  <2>2. Cardinality(Mine(c)) \in Nat /\ cut[c] \in Nat /\ cut'[c] \in Nat
    BY MineFinite DEF HostInvariant, HostTypeOK
  <2>3. QED BY <2>1, <2>2
<1>3. QED BY <1>1, <1>2 DEF CreatedBefore

\* The archive of a steady step.
LEMMA ArchiveGrows == ASSUME HostSteady PROVE archivedSet \subseteq archivedSet'
BY DEF HostSteady, archivedSet

\* What a command answers, and when an answer is given.
LEMMA AnswerKeeps ==
  ASSUME HostInvariant, HostSteady, run.pc \in {"begin", "list", "rename"},
         turns' \in [Wishes -> Nat], TurnsAdmitted',
         NEW T, NEW list \in Seq(T), NEW total, NEW all, Answer(list, total, all),
         Len(list) = total => all \subseteq ToSet(list),
         args[run.cmd].tail /\ total > 0 => total \in ToSet(list)
  PROVE  HostInvariant'
<1>1. HostTypeOK /\ run.cmd \in Cmd
  BY DEF HostInvariant, HostTypeOK, RunForm
<1> DEFINE rows == cap(list).rows
           truncated == cap(list).truncated
<1>2. Len(rows) <= MaxResult /\ (~truncated => rows = list)
  BY CapIs
<1>3. run' = [NoRun EXCEPT !.pc = "done", !.cmd = run.cmd, !.rows = rows,
                           !.truncated = truncated, !.total = total, !.all = all]
      /\ UNCHANGED <<runs, due, cut>>
  BY DEF Answer
<1> HIDE DEF rows, truncated
<1>4. /\ RunForm' /\ run'.pc = "done" /\ run'.cmd = run.cmd /\ run'.rows = rows
      /\ run'.truncated = truncated /\ run'.total = total /\ run'.all = all
  BY <1>1, <1>3 DEF NoRun, RunForm
<1>5. HostTypeOK'
  BY <1>1, <1>3, <1>4 DEF HostTypeOK, HostSteady
<1>6. CreatedBefore'
  <2>1. \A c \in Cmd : cut[c] <= cut'[c] /\ (Pending(c)' => Pending(c))
    BY <1>1, <1>3, <1>4 DEF Pending, HostTypeOK
  <2>2. run'.cmd \notin due'
    BY <1>3, <1>4 DEF HostInvariant, CreatedBefore
  <2>3. QED BY <1>1, <1>3, <2>1, <2>2, CreatedSame DEF HostTypeOK
<1>7. ListedAll'
  BY <1>4 DEF ListedAll, HostSteady, Ordered
<1>8. AnswerTellsWhatItOmits'
  BY <1>2, <1>4 DEF AnswerTellsWhatItOmits
<1>9. QED BY <1>5, <1>6, <1>7, <1>8 DEF HostInvariant

\* A command that fails is due again.
LEMMA FailKeeps ==
  ASSUME HostInvariant, HostSteady, run.pc = "begin", turns' \in [Wishes -> Nat], TurnsAdmitted', Fail
  PROVE  HostInvariant'
<1>1. HostTypeOK /\ run.cmd \in Cmd
  BY DEF HostInvariant, HostTypeOK, RunForm
<1>2. /\ run' = [NoRun EXCEPT !.pc = "failed"] /\ due' = due \cup {run.cmd}
      /\ UNCHANGED <<runs, cut>>
  BY DEF Fail
<1>3. RunForm' /\ run'.pc = "failed"
  BY <1>2 DEF NoRun, RunForm
<1>4. HostTypeOK'
  BY <1>1, <1>2, <1>3 DEF HostTypeOK, HostSteady
<1>5. CreatedBefore'
  <2>1. \A c \in Cmd : cut[c] <= cut'[c] /\ (Pending(c)' => Pending(c))
    BY <1>1, <1>2, <1>3 DEF Pending, HostTypeOK
  <2>2. QED BY <1>1, <1>2, <1>3, <2>1, CreatedSame DEF HostTypeOK
<1>6. ListedAll'
  BY <1>3 DEF ListedAll, HostSteady, Ordered
<1>7. QED BY <1>3, <1>4, <1>5, <1>6 DEF HostInvariant, AnswerTellsWhatItOmits

-----------------------------------------------------------------------------
(* The steps.                                                              *)

\* A command that asks for the tail is a read.
LEMMA TailOfRead ==
  ASSUME HostInvariant, NEW method, Begun(method), method # "read"
  PROVE  run.cmd \in Cmd /\ ~args[run.cmd].tail /\ run.pc = "begin"
BY ArgsAssumption DEF HostInvariant, HostTypeOK, RunForm, Begun

\* The Host has admitted no prompt.
LEMMA TurnsSame ==
  ASSUME HostInvariant, UNCHANGED <<admitted, turns>>
  PROVE  turns' \in [Wishes -> Nat] /\ TurnsAdmitted'
BY DEF HostInvariant, HostTypeOK, TurnsAdmitted

\* An answer without rows.
LEMMA NothingToAnswer ==
  /\ <<>> \in Seq(Nat) /\ {} \subseteq ToSet(<<>>) /\ ~(0 > 0)
OBVIOUS

\* The worker runs a command.
LEMMA DeliverKeeps == ASSUME HostInvariant, NEW c \in Cmd, deliver(c) PROVE HostInvariant'
<1>1. /\ HostTypeOK /\ c \in due /\ run' = [NoRun EXCEPT !.pc = "begin", !.cmd = c]
      /\ runs' = runs + 1 /\ due' = due \ {c}
      /\ UNCHANGED <<hosted, recent, admitted, turns, cut>>
  BY DEF deliver, UnchangedHost, HostInvariant
<1>2. HostSteady /\ turns' \in [Wishes -> Nat] /\ TurnsAdmitted'
  BY <1>1, UnchangedIsSteady, TurnsSame
<1>3. RunForm' /\ run'.pc = "begin" /\ run'.cmd = c
  BY <1>1 DEF NoRun, RunForm
<1>4. HostTypeOK'
  BY <1>1, <1>2, <1>3 DEF HostTypeOK
<1>5. CreatedBefore'
  <2>1. \A d \in Cmd : cut[d] <= cut'[d] /\ (Pending(d)' => Pending(d))
    BY <1>1, <1>3 DEF Pending, HostTypeOK
  <2>2. QED BY <1>1, <1>2, <1>3, <1>4, <2>1, CreatedSame DEF HostTypeOK
<1>6. QED BY <1>2, <1>3, <1>4, <1>5
          DEF HostInvariant, ListedAll, HostSteady, Ordered, AnswerTellsWhatItOmits

\* The owners and the archive are read.
LEMMA ListBeginKeeps == ASSUME HostInvariant, listBegin PROVE HostInvariant'
<1>1. /\ HostTypeOK /\ run.cmd \in Cmd /\ ~args[run.cmd].tail /\ run.pc = "begin"
      /\ run' = [run EXCEPT !.pc = "list", !.owners = ownerIndex, !.archived = archivedSet]
      /\ UNCHANGED <<hosted, recent, admitted, turns, runs, due, cut>>
  BY TailOfRead DEF listBegin, UnchangedHost, HostInvariant
<1>2. HostSteady /\ turns' \in [Wishes -> Nat] /\ TurnsAdmitted'
  BY <1>1, UnchangedIsSteady, TurnsSame
<1>3. /\ RunForm' /\ run'.pc = "list" /\ run'.cmd = run.cmd
      /\ run'.owners = ownerIndex /\ run'.archived = archivedSet
  BY <1>1 DEF RunForm, HostTypeOK
<1>4. HostTypeOK'
  BY <1>1, <1>2, <1>3 DEF HostTypeOK
<1>5. CreatedBefore'
  <2>1. \A d \in Cmd : cut[d] <= cut'[d] /\ (Pending(d)' => Pending(d))
    BY <1>1, <1>3 DEF Pending, HostTypeOK
  <2>2. run'.cmd \notin due'
    BY <1>1, <1>3 DEF HostInvariant, CreatedBefore
  <2>3. QED BY <1>1, <1>2, <1>4, <2>1, <2>2, CreatedSame DEF HostTypeOK
<1>6. ListedAll'
  <2>1. archivedSet' = archivedSet /\ DOMAIN ownerIndex = DOMAIN hosted
    BY <1>1 DEF archivedSet, ownerIndex
  <2>2. QED BY <1>1, <1>2, <1>3, <2>1 DEF ListedAll, HostSteady, Ordered
<1>7. QED BY <1>2, <1>3, <1>4, <1>5, <1>6 DEF HostInvariant, AnswerTellsWhatItOmits

\* What is left of the Host's order.
LEMMA RecentHas ==
  ASSUME HostInvariant, NEW keep
  PROVE  /\ Filter(recent, keep) \in Seq(Nat)
         /\ \A i \in 1 .. Len(recent) : recent[i] \in keep =>
              \E j \in 1 .. Len(Filter(recent, keep)) : Filter(recent, keep)[j] = recent[i]
<1>1. PICK list \in Seq(Nat) : list = recent
  BY DEF HostInvariant, HostTypeOK
<1>2. Filter(list, keep) \in Seq(Nat)
  BY FilterType
<1>3. ASSUME NEW i \in 1 .. Len(list), list[i] \in keep
      PROVE  \E j \in 1 .. Len(Filter(list, keep)) : Filter(list, keep)[j] = list[i]
  BY <1>3, FilterKeeps
<1>4. QED BY <1>1, <1>2, <1>3

\* A list answers with all sessions that were there, and are still not archived.
LEMMA ListAnswerKeeps == ASSUME HostInvariant, listAnswer PROVE HostInvariant'
<1> DEFINE a == args[run.cmd]
           all == {s \in DOMAIN run.owners :
                     a.space \in {NoSpace, run.owners[s]} /\ (a.archived \/ ~hosted[s].archived)}
           shown == {s \in DOMAIN hosted : Listed(s)}
           list == First(rowsOf, rowLimit(a.limit))
<1>1. /\ HostTypeOK /\ run.pc = "list" /\ run.cmd \in Cmd /\ ~a.tail
      /\ Answer(list, Len(rowsOf), all)
      /\ UNCHANGED <<hosted, recent, admitted, turns>>
  BY DEF listAnswer, UnchangedHost, HostInvariant, HostTypeOK, RunForm, ListedAll
<1>2. HostSteady /\ turns' \in [Wishes -> Nat] /\ TurnsAdmitted'
  BY <1>1, UnchangedIsSteady, TurnsSame
<1>3. all \subseteq shown
  <2>1. ASSUME NEW s \in all PROVE s \in DOMAIN hosted /\ Listed(s)
    <3>1. s \in DOMAIN hosted /\ (s \in run.archived => hosted[s].archived)
      BY <1>1 DEF HostInvariant, ListedAll, archivedSet
    <3>2. QED BY <3>1 DEF Listed
  <2>2. QED BY <2>1
<1>4. PICK keep : keep = shown
  OBVIOUS
<1>5. rowsOf = Filter(recent, keep)
  BY <1>4 DEF rowsOf
<1>6. /\ rowsOf \in Seq(Nat)
      /\ \A i \in 1 .. Len(recent) : recent[i] \in keep =>
           \E j \in 1 .. Len(rowsOf) : rowsOf[j] = recent[i]
  BY <1>5, RecentHas
<1>7. keep \subseteq ToSet(rowsOf)
  <2>1. ASSUME NEW s \in keep PROVE s \in ToSet(rowsOf)
    <3>1. PICK i \in 1 .. Len(recent) : recent[i] = s
      BY <1>1, <1>4 DEF HostInvariant, ListedAll, HostTypeOK
    <3>2. PICK j \in 1 .. Len(rowsOf) : rowsOf[j] = s
      BY <1>6, <3>1
    <3>3. j \in DOMAIN rowsOf
      BY <1>6
    <3>4. QED BY <3>2, <3>3 DEF ToSet
  <2>2. QED BY <2>1
<1>8. PICK n \in Nat : n = rowLimit(a.limit)
  BY <1>1, HostAssumption, ArgsAssumption DEF rowLimit
<1>9. /\ list \in Seq(Nat)
      /\ Len(list) = (IF Len(rowsOf) < n THEN Len(rowsOf) ELSE n)
      /\ Len(rowsOf) <= n => list = rowsOf
  BY <1>6, <1>8, FirstIs
<1>10. Len(list) = Len(rowsOf) => list = rowsOf
  BY <1>6, <1>9
<1>11. Len(list) = Len(rowsOf) => all \subseteq ToSet(list)
  BY <1>3, <1>4, <1>7, <1>10
<1> HIDE DEF all, list, shown
<1>12. QED BY <1>1, <1>2, <1>9, <1>11, AnswerKeeps

\* The workspaces are listed.
LEMMA WorkspacesKeeps == ASSUME HostInvariant, workspacesList PROVE HostInvariant'
<1> DEFINE list == SetToSeq(Space)
<1>1. /\ run.pc = "begin" /\ ~args[run.cmd].tail /\ Answer(list, Cardinality(Space), Space)
      /\ UNCHANGED <<hosted, recent, admitted, turns>>
  BY TailOfRead DEF workspacesList, UnchangedHost
<1>2. HostSteady /\ turns' \in [Wishes -> Nat] /\ TurnsAdmitted'
  BY <1>1, UnchangedIsSteady, TurnsSame
<1>3. IsFiniteSet(Space)
  BY HostAssumption
<1>4. PICK n \in Nat : n = Cardinality(Space)
  BY <1>3, FS_CardinalityType
<1>5. PICK f : f \in Bijection(1 .. n, Space)
  BY <1>3, <1>4, FS_CardinalityType DEF ExistsBijection
<1>6. f \in [1 .. n -> Space] /\ IsInjective(f)
  BY <1>5 DEF Bijection, Injection, IsInjective
<1>7. list \in [1 .. n -> Space] /\ IsInjective(list)
  BY <1>4, <1>6 DEF SetToSeq
<1>8. list \in Injection(1 .. n, Space)
  BY <1>7 DEF Injection, IsInjective
<1>9. Cardinality(1 .. n) = n
  BY FS_Interval
<1>10. list \in Surjection(1 .. n, Space)
  BY <1>3, <1>4, <1>8, <1>9, FS_Injection
<1>11. Space \subseteq ToSet(list) /\ list \in Seq(Space)
  BY <1>7, <1>10 DEF Surjection, ToSet
<1> HIDE DEF list
<1>12. QED BY <1>1, <1>2, <1>11, AnswerKeeps

\* A session is read: from its first message, or the tail with its last one.
LEMMA ReadKeeps == ASSUME HostInvariant, read PROVE HostInvariant'
<1> DEFINE n == hosted[1].turns
           size == rowLimit(args[run.cmd].limit)
           all == [i \in 1 .. n |-> i]
           from == IF n > size THEN n - size + 1 ELSE 1
           list == IF args[run.cmd].tail THEN SubSeq(all, from, n) ELSE First(all, size)
<1>1. /\ HostTypeOK /\ run.pc = "begin" /\ run.cmd \in Cmd /\ hosted # <<>>
      /\ Answer(list, n, 1 .. n)
      /\ UNCHANGED <<hosted, recent, admitted, turns>>
  BY DEF read, Begun, UnchangedHost, HostInvariant, HostTypeOK, RunForm
<1>2. HostSteady /\ turns' \in [Wishes -> Nat] /\ TurnsAdmitted'
  BY <1>1, UnchangedIsSteady, TurnsSame
<1>3. n \in Nat /\ size \in Nat \ {0}
  <2>1. hosted[1] \in HostSession
    BY <1>1 DEF HostTypeOK
  <2>2. QED BY <1>1, <2>1, HostAssumption, ArgsAssumption DEF HostSession, rowLimit
<1> HIDE DEF n, size
<1>4. all \in Seq(Nat) /\ Len(all) = n /\ \A i \in 1 .. n : all[i] = i
  BY <1>3
<1> HIDE DEF all
<1>5. list \in Seq(Nat) /\ (Len(list) = n => 1 .. n \subseteq ToSet(list))
      /\ (args[run.cmd].tail /\ n > 0 => n \in ToSet(list))
  <2>1. CASE args[run.cmd].tail
    <3>1. from \in Int /\ 1 <= from /\ (n > 0 => from <= n) /\ (n = 0 => from = 1)
          /\ (n - from + 1 = n => from = 1)
      BY <1>3
    <3> HIDE DEF from
    <3>2. \A i \in from .. n : all[i] \in Nat
      BY <1>3, <1>4, <3>1
    <3>3. /\ list \in Seq(Nat) /\ Len(list) = (IF from <= n THEN n - from + 1 ELSE 0)
          /\ \A i \in 1 .. n - from + 1 : list[i] = all[from + i - 1]
      BY <1>3, <2>1, <3>1, <3>2, SubSeqProperties
    <3> HIDE DEF list
    <3>4. ASSUME n > 0 PROVE n \in ToSet(list)
      <4>1. n - from + 1 \in 1 .. n - from + 1 /\ from + (n - from + 1) - 1 = n
        BY <1>3, <3>1, <3>4
      <4>2. list[n - from + 1] = n
        BY <1>3, <1>4, <3>1, <3>3, <3>4, <4>1
      <4>3. n - from + 1 \in DOMAIN list
        BY <1>3, <3>1, <3>3, <3>4
      <4>4. QED BY <4>2, <4>3 DEF ToSet
    <3>5. ASSUME Len(list) = n, NEW k \in 1 .. n PROVE k \in ToSet(list)
      <4>1. from = 1 /\ k \in 1 .. n - from + 1 /\ from + k - 1 = k
        BY <1>3, <3>1, <3>3, <3>5
      <4>2. list[k] = k /\ k \in DOMAIN list
        BY <1>3, <1>4, <3>3, <3>5, <4>1
      <4>3. QED BY <4>2 DEF ToSet
    <3>6. QED BY <3>3, <3>4, <3>5
  <2>2. CASE ~args[run.cmd].tail
    <3>1. /\ list \in Seq(Nat) /\ Len(list) = (IF n < size THEN n ELSE size)
          /\ n <= size => list = all
      BY <1>3, <1>4, <2>2, FirstIs
    <3> HIDE DEF list
    <3>2. ASSUME Len(list) = n PROVE 1 .. n \subseteq ToSet(list)
      <4>1. list = all /\ DOMAIN all = 1 .. n
        BY <1>3, <1>4, <3>1, <3>2
      <4>2. QED BY <1>4, <4>1 DEF ToSet
    <3>3. QED BY <2>2, <3>1, <3>2
  <2>3. QED BY <2>1, <2>2
<1> HIDE DEF list
<1>6. QED BY <1>1, <1>2, <1>5, AnswerKeeps

\* A session is created for the command, which had none that nobody was told of.
LEMMA CreateKeeps == ASSUME HostInvariant, create PROVE HostInvariant'
<1> DEFINE new == Len(hosted) + 1
           space == args[run.cmd].space
<1>1. /\ HostTypeOK /\ run.pc = "begin" /\ run.cmd \in Cmd /\ Open(space, run.cmd)
      /\ run' = [run EXCEPT !.pc = "rename"] /\ UNCHANGED <<admitted, turns, runs, due, cut>>
  BY TailOfRead DEF create, HostInvariant
<1>2. /\ hosted' \in Seq(HostSession) /\ recent' \in Seq(Nat) /\ Ordered'
      /\ DOMAIN hosted' = DOMAIN hosted \cup {new} /\ new \notin DOMAIN hosted
      /\ hosted'[new].by = run.cmd
      /\ \A s \in DOMAIN hosted : hosted'[s] = hosted[s]
  <2>1. space \in {args[c].space : c \in Cmd} \cup Space \cup {NoSpace}
    BY <1>1
  <2> HIDE DEF space
  <2>2. QED BY <1>1, <2>1, OpenIs
<1>3. turns' \in [Wishes -> Nat] /\ TurnsAdmitted'
  BY <1>1, TurnsSame
<1>4. RunForm' /\ run'.pc = "rename" /\ run'.cmd = run.cmd
  BY <1>1 DEF RunForm, HostTypeOK
<1>5. HostTypeOK'
  BY <1>1, <1>2, <1>3, <1>4 DEF HostTypeOK
<1> HIDE DEF new
<1>6. CreatedBefore'
  <2>1. ASSUME NEW c \in Cmd
        PROVE  Cardinality(Mine(c)') <= cut'[c] + (IF Pending(c)' THEN 0 ELSE 1)
    <3>1. /\ Cardinality(Mine(c)) <= cut[c] + (IF Pending(c) THEN 0 ELSE 1)
          /\ run.cmd \notin due
      BY <1>1 DEF HostInvariant, CreatedBefore
    <3>2. IsFiniteSet(Mine(c)) /\ Cardinality(Mine(c)) \in Nat /\ cut[c] \in Nat /\ cut' = cut
      BY <1>1, MineFinite DEF HostTypeOK
    <3>3. CASE c = run.cmd
      <4>1. Mine(c)' = Mine(c) \cup {new}
        BY <1>2, <3>3 DEF Mine
      <4>2. PICK before : before = Mine(c)
        OBVIOUS
      <4>3. Pending(c) /\ ~Pending(c)'
        BY <1>1, <1>4, <3>1, <3>3 DEF Pending
      <4>4. Cardinality(before \cup {new})
              = IF new \in before THEN Cardinality(before) ELSE Cardinality(before) + 1
        BY <3>2, <4>2, FS_AddElement
      <4>5. QED BY <3>1, <3>2, <4>1, <4>2, <4>3, <4>4
    <3>4. CASE c # run.cmd
      <4>1. Mine(c)' = Mine(c)
        BY <1>2, <3>4 DEF Mine
      <4>2. Pending(c)' => Pending(c)
        BY <1>1, <1>4, <3>4 DEF Pending
      <4>3. QED BY <3>1, <3>2, <4>1, <4>2
    <3>5. QED BY <3>3, <3>4
  <2>2. run'.cmd \notin due'
    BY <1>1, <1>4 DEF HostInvariant, CreatedBefore
  <2>3. QED BY <2>1, <2>2 DEF CreatedBefore
<1>7. QED BY <1>2, <1>3, <1>4, <1>5, <1>6
          DEF HostInvariant, ListedAll, Ordered, AnswerTellsWhatItOmits

\* A session that gets a title, or is archived.
LEMMA FieldIsSteady ==
  ASSUME HostInvariant, NEW s,
         \/ Set(s, [hosted[s] EXCEPT !.titled = TRUE])
         \/ Set(s, [hosted[s] EXCEPT !.archived = TRUE])
         \/ UnchangedHost
  PROVE  HostSteady /\ turns' \in [Wishes -> Nat] /\ TurnsAdmitted'
<1>1. turns' \in [Wishes -> Nat] /\ TurnsAdmitted'
  BY TurnsSame DEF Set, UnchangedHost
<1>2. HostSteady
  <2>1. CASE UNCHANGED <<hosted, recent>>
    BY <2>1, UnchangedIsSteady
  <2>2. CASE s \notin DOMAIN hosted
    <3>1. hosted' = hosted /\ recent' = recent
      <4>1. hosted \in Seq(HostSession)
        BY DEF HostInvariant, HostTypeOK
      <4>2. \A new : [hosted EXCEPT ![s] = new] = hosted
        BY <2>2, <4>1
      <4>3. QED BY <4>2 DEF Set, UnchangedHost
    <3>2. QED BY <3>1, UnchangedIsSteady
  <2>3. CASE s \in DOMAIN hosted
    <3>1. hosted[s] \in HostSession
      BY <2>3 DEF HostInvariant, HostTypeOK
    <3> DEFINE titled == [hosted[s] EXCEPT !.titled = TRUE]
               archived == [hosted[s] EXCEPT !.archived = TRUE]
    <3>2. /\ titled \in HostSession /\ titled.by = hosted[s].by
          /\ titled.archived = hosted[s].archived
          /\ archived \in HostSession /\ archived.by = hosted[s].by /\ archived.archived
      BY <3>1 DEF HostSession
    <3>3. \/ Set(s, titled) \/ Set(s, archived) \/ UNCHANGED <<hosted, recent>>
      BY DEF UnchangedHost
    <3> HIDE DEF titled, archived
    <3>4. QED BY <2>3, <3>2, <3>3, SetIsSteady, UnchangedIsSteady DEF Set
  <2>4. QED BY <2>2, <2>3
<1>3. QED BY <1>1, <1>2

\* What is created is given its title, or is not.
LEMMA RenamedKeeps == ASSUME HostInvariant, renamed PROVE HostInvariant'
<1> DEFINE s == CHOOSE m \in Mine(run.cmd) : \A o \in Mine(run.cmd) : o <= m
<1> HIDE DEF s
<1>1. /\ run.pc = "rename" /\ Answer(<<>>, 0, {})
      /\ Set(s, [hosted[s] EXCEPT !.titled = TRUE]) \/ UnchangedHost
  BY DEF renamed, s
<1>2. HostSteady /\ turns' \in [Wishes -> Nat] /\ TurnsAdmitted'
  BY <1>1, FieldIsSteady
<1>3. QED BY <1>1, <1>2, NothingToAnswer, AnswerKeeps

\* A session is renamed, or archived; the answer may fail.
LEMMA ChangeKeeps == ASSUME HostInvariant, rename \/ archive PROVE HostInvariant'
<1>1. /\ run.pc = "begin"
      /\ Answer(<<>>, 0, {}) \/ Fail
      /\ \/ Set(1, [hosted[1] EXCEPT !.titled = TRUE])
         \/ Set(1, [hosted[1] EXCEPT !.archived = TRUE])
  BY DEF rename, archive, Begun
<1>2. HostSteady /\ turns' \in [Wishes -> Nat] /\ TurnsAdmitted'
  BY <1>1, FieldIsSteady
<1>3. CASE Answer(<<>>, 0, {}) BY <1>1, <1>2, <1>3, NothingToAnswer, AnswerKeeps
<1>4. CASE Fail BY <1>1, <1>2, <1>4, FailKeeps
<1>5. QED BY <1>1, <1>3, <1>4

\* The service is not there.
LEMMA ServiceKeeps == ASSUME HostInvariant, requireService PROVE HostInvariant'
BY UnchangedIsSteady, TurnsSame, FailKeeps DEF requireService, UnchangedHost

\* A prompt is a turn if its request has not been admitted.
LEMMA PromptKeeps == ASSUME HostInvariant, prompt PROVE HostInvariant'
<1> DEFINE id == requestId(run.cmd)
           wish == Wish(run.cmd)
<1>1. /\ HostTypeOK /\ TurnsAdmitted /\ run.pc = "begin" /\ run.cmd \in Cmd /\ hosted # <<>>
      /\ Answer(<<>>, 0, {}) \/ Fail
      /\ \/ UnchangedHost
         \/ /\ id \notin admitted /\ admitted' = admitted \cup {id}
            /\ Touch(1) /\ turns' = [turns EXCEPT ![wish] = @ + 1]
  BY DEF prompt, Begun, HostInvariant, HostTypeOK, RunForm
<1>2. id = <<wish, 0>> /\ wish \in Wishes
  BY <1>1 DEF requestId, Wishes
<1> HIDE DEF id, wish
<1>3. HostSteady /\ turns' \in [Wishes -> Nat] /\ TurnsAdmitted'
  <2>1. CASE UnchangedHost
    BY <2>1, UnchangedIsSteady, TurnsSame DEF UnchangedHost
  <2>2. CASE ~UnchangedHost
    <3>1. 1 \in DOMAIN hosted
      BY <1>1 DEF HostTypeOK
    <3>2. HostSteady
      BY <1>1, <2>2, <3>1, TouchIsSteady
    <3>3. turns \in [Wishes -> Nat] /\ turns[wish] = 0
      <4>1. turns \in [Wishes -> Nat] /\ turns[wish] <= 1 /\ turns[wish] # 1
        BY <1>1, <1>2, <2>2 DEF HostTypeOK, TurnsAdmitted
      <4>2. turns[wish] \in Nat
        BY <1>2, <4>1
      <4>3. QED BY <4>1, <4>2
    <3>4. turns' = [turns EXCEPT ![wish] = turns[wish] + 1] /\ admitted' = admitted \cup {id}
      BY <1>1, <2>2
    <3>5. /\ turns' \in [Wishes -> Nat] /\ turns'[wish] = 1
          /\ \A w \in Wishes \ {wish} : turns'[w] = turns[w]
      BY <1>2, <3>3, <3>4
    <3>6. turns'[wish] <= 1 /\ <<wish, 0>> \in admitted'
      BY <1>2, <3>4, <3>5
    <3>7. \A w \in Wishes \ {wish} : turns'[w] <= 1 /\ (turns'[w] = 1 => <<w, 0>> \in admitted')
      BY <1>1, <3>4, <3>5 DEF TurnsAdmitted
    <3>8. TurnsAdmitted'
      BY <3>6, <3>7 DEF TurnsAdmitted
    <3>9. QED BY <3>2, <3>5, <3>8
  <2>3. QED BY <2>1, <2>2
<1>4. QED BY <1>1, <1>3, NothingToAnswer, AnswerKeeps, FailKeeps

\* An answer that is lost is counted.
LEMMA LoseKeeps == ASSUME HostInvariant, loseAnswer PROVE HostInvariant'
<1>1. /\ HostTypeOK /\ run.cmd \in Cmd
      /\ run' = [NoRun EXCEPT !.pc = "failed"] /\ due' = due \cup {run.cmd}
      /\ cut' = [cut EXCEPT ![run.cmd] = @ + 1]
      /\ UNCHANGED <<hosted, recent, admitted, turns, runs>>
  BY DEF loseAnswer, UnchangedHost, HostInvariant, HostTypeOK, RunForm
<1>2. HostSteady /\ turns' \in [Wishes -> Nat] /\ TurnsAdmitted'
  BY <1>1, UnchangedIsSteady, TurnsSame
<1>3. RunForm' /\ run'.pc = "failed"
  BY <1>1 DEF NoRun, RunForm
<1>4. /\ cut' \in [Cmd -> Nat] /\ cut'[run.cmd] = cut[run.cmd] + 1
      /\ \A c \in Cmd : cut[c] <= cut'[c] /\ cut[c] \in Nat
  BY <1>1 DEF HostTypeOK
<1>5. HostTypeOK'
  BY <1>1, <1>2, <1>3, <1>4 DEF HostTypeOK
<1>6. CreatedBefore'
  <2>1. ASSUME NEW c \in Cmd, Pending(c)' PROVE Pending(c) \/ cut[c] < cut'[c]
    BY <1>1, <1>3, <1>4, <2>1 DEF Pending
  <2>2. QED BY <1>2, <1>3, <1>4, <2>1, CreatedSame
<1>7. QED BY <1>2, <1>3, <1>5, <1>6
          DEF HostInvariant, ListedAll, HostSteady, Ordered, AnswerTellsWhatItOmits

\* The users of the Host go on.
LEMMA UsersKeep ==
  ASSUME HostInvariant, NEW s \in DOMAIN hosted, userArchives(s) \/ userWrites(s)
  PROVE  HostInvariant'
<1>1. /\ HostTypeOK /\ UNCHANGED <<admitted, run, runs, due, turns, cut>>
      /\ Set(s, [hosted[s] EXCEPT !.archived = TRUE]) \/ Touch(s)
  BY DEF userArchives, userWrites, HostInvariant, Set
<1>2. HostSteady /\ turns' \in [Wishes -> Nat] /\ TurnsAdmitted'
  BY <1>1, FieldIsSteady, TouchIsSteady, TurnsSame
<1>3. RunForm'
  BY <1>1 DEF HostTypeOK, RunForm
<1>4. HostTypeOK'
  BY <1>1, <1>2, <1>3 DEF HostTypeOK, HostSteady
<1>5. CreatedBefore'
  <2>1. \A c \in Cmd : cut[c] <= cut'[c] /\ (Pending(c)' => Pending(c))
    BY <1>1 DEF Pending, HostTypeOK
  <2>2. QED BY <1>1, <1>2, <1>4, <2>1, CreatedSame DEF HostInvariant, CreatedBefore, HostTypeOK
<1>6. ListedAll'
  BY <1>1, <1>2, ArchiveGrows DEF HostInvariant, ListedAll, HostSteady, Ordered
<1>7. QED BY <1>1, <1>2, <1>4, <1>5, <1>6 DEF HostInvariant, AnswerTellsWhatItOmits

\* A user opens a session, which is no command's.
LEMMA UserOpensKeeps ==
  ASSUME HostInvariant, NEW w \in Space \cup {NoSpace}, userOpens(w) PROVE HostInvariant'
<1> DEFINE new == Len(hosted) + 1
<1>1. HostTypeOK /\ UNCHANGED <<admitted, run, runs, due, turns, cut>> /\ Open(w, "user")
  BY DEF userOpens, HostInvariant
<1>2. /\ hosted' \in Seq(HostSession) /\ recent' \in Seq(Nat) /\ Ordered'
      /\ DOMAIN hosted' = DOMAIN hosted \cup {new} /\ new \notin DOMAIN hosted
      /\ hosted'[new].by = "user"
      /\ \A s \in DOMAIN hosted : hosted'[s] = hosted[s]
  BY <1>1, OpenIs
<1> HIDE DEF new
<1>3. turns' \in [Wishes -> Nat] /\ TurnsAdmitted' /\ RunForm'
  BY <1>1, TurnsSame DEF HostTypeOK, RunForm
<1>4. HostTypeOK'
  BY <1>1, <1>2, <1>3 DEF HostTypeOK
<1>5. CreatedBefore'
  <2>1. \A c \in Cmd : Mine(c)' = Mine(c)
    BY <1>2, ArgsAssumption DEF Mine
  <2>2. QED BY <1>1, <2>1 DEF HostInvariant, CreatedBefore, Pending
<1>6. archivedSet \subseteq archivedSet'
  BY <1>2 DEF archivedSet
<1>7. QED BY <1>1, <1>2, <1>3, <1>4, <1>5, <1>6
          DEF HostInvariant, ListedAll, Ordered, AnswerTellsWhatItOmits

\* At first the Host has no session and every command is due.
LEMMA HostInitGives == HostInit => HostInvariant
<1> SUFFICES ASSUME HostInit PROVE HostInvariant
  OBVIOUS
<1>1. /\ hosted = <<>> /\ recent = <<>> /\ run = NoRun /\ runs = 0 /\ due = Cmd
      /\ turns = [w \in Wishes |-> 0] /\ cut = [c \in Cmd |-> 0]
  BY DEF HostInit, Wishes
<1>2. RunForm /\ run.pc = "idle"
  BY <1>1 DEF NoRun, RunForm
<1>3. HostTypeOK
  BY <1>1, <1>2 DEF HostTypeOK
<1>4. \A c \in Cmd : Mine(c) = {} /\ Pending(c)
  BY <1>1 DEF Mine, Pending
<1>5. CreatedBefore
  <2>1. \A c \in Cmd : Cardinality(Mine(c)) = 0 /\ cut[c] = 0
    BY <1>1, <1>4, FS_EmptySet
  <2>2. QED BY <1>2, <1>4, <2>1 DEF CreatedBefore
<1>6. QED BY <1>1, <1>2, <1>3, <1>5 DEF HostInvariant, TurnsAdmitted, ListedAll, AnswerTellsWhatItOmits

\* A step of the worker or of a user keeps what is known of the Host.
LEMMA HostStepKeeps == HostInvariant /\ [HostNext]_hostVars => HostInvariant'
<1> SUFFICES ASSUME HostInvariant, [HostNext]_hostVars PROVE HostInvariant'
  OBVIOUS
<1>1. CASE \E c \in Cmd : deliver(c) BY <1>1, DeliverKeeps
<1>2. CASE requireService BY <1>2, ServiceKeeps
<1>3. CASE workspacesList BY <1>3, WorkspacesKeeps
<1>4. CASE listBegin BY <1>4, ListBeginKeeps
<1>5. CASE listAnswer BY <1>5, ListAnswerKeeps
<1>6. CASE read BY <1>6, ReadKeeps
<1>7. CASE create BY <1>7, CreateKeeps
<1>8. CASE renamed BY <1>8, RenamedKeeps
<1>9. CASE rename \/ archive BY <1>9, ChangeKeeps
<1>10. CASE prompt BY <1>10, PromptKeeps
<1>11. CASE loseAnswer BY <1>11, LoseKeeps
<1>12. CASE \E s \in DOMAIN hosted : userArchives(s) \/ userWrites(s) BY <1>12, UsersKeep
<1>13. CASE \E w \in Space \cup {NoSpace} : userOpens(w) BY <1>13, UserOpensKeeps
<1>14. CASE UNCHANGED hostVars
  BY <1>14 DEF hostVars, HostInvariant, HostTypeOK, RunForm, TurnsAdmitted, CreatedBefore, Mine,
               Pending, ListedAll, archivedSet, AnswerTellsWhatItOmits
<1>15. QED BY <1>1, <1>2, <1>3, <1>4, <1>5, <1>6, <1>7, <1>8, <1>9, <1>10, <1>11, <1>12, <1>13, <1>14
           DEF HostNext

\* It holds however often commands fail, are delivered again and lose their answers.
THEOREM HostInvariantHolds == HostSpec => []HostInvariant
BY HostInitGives, HostStepKeeps, PTL DEF HostSpec

\* A prompt that is delivered again is one turn of its session (sessions.prompt).
THEOREM PromptedOnceHolds == HostSpec => []PromptedOnce
<1>1. HostInvariant => PromptedOnce
  BY DEF HostInvariant, HostTypeOK, TurnsAdmitted, PromptedOnce
<1>2. QED BY <1>1, HostInvariantHolds, PTL

\* A create that is sent again makes no second session, but for each answer that was lost
\* (sessions.create).
THEOREM CreatedOnceHolds == HostSpec => []CreatedOnce
<1>1. ASSUME HostInvariant PROVE CreatedOnce
  <2>1. ASSUME NEW c \in Cmd PROVE Cardinality(Mine(c)) <= 1 + cut[c]
    <3>1. /\ Cardinality(Mine(c)) <= cut[c] + (IF Pending(c) THEN 0 ELSE 1)
          /\ cut[c] \in Nat /\ Cardinality(Mine(c)) \in Nat
      BY <1>1, MineFinite DEF HostInvariant, HostTypeOK, CreatedBefore
    <3>2. QED BY <3>1
  <2>2. QED BY <2>1 DEF CreatedOnce
<1>2. QED BY <1>1, HostInvariantHolds, PTL

\* An answer that does not say that it leaves something out has all (sessions.list,
\* sessions.read, cap).
THEOREM AnswerTellsHolds == HostSpec => []AnswerTellsWhatItOmits
<1>1. HostInvariant => AnswerTellsWhatItOmits
  BY DEF HostInvariant
<1>2. QED BY <1>1, HostInvariantHolds, PTL

-----------------------------------------------------------------------------
(* Lists that rise.                                                        *)

Rising(q) == \A i, j \in 1 .. Len(q) : i < j => q[i] < q[j]

\* The elements of a list, by their places.
LEMMA ToSetIs ==
  ASSUME NEW T, NEW q \in Seq(T) PROVE ToSet(q) = {q[i] : i \in 1 .. Len(q)}
<1>1. DOMAIN q = 1 .. Len(q)
  OBVIOUS
<1>2. QED BY <1>1 DEF ToSet

\* A list that rises is the beginning of another, if that has its elements and the others
\* come after all of them.
LEMMA RisingExtends ==
  ASSUME NEW p \in Seq(Nat), NEW q \in Seq(Nat), Rising(p), Rising(q), ToSet(p) \subseteq ToSet(q),
         \A y \in ToSet(q) \ ToSet(p) : \A x \in ToSet(p) : x < y
  PROVE  Len(p) <= Len(q) /\ \A i \in 1 .. Len(p) : q[i] = p[i]
<1>1. PICK n \in Nat, m \in Nat : n = Len(p) /\ m = Len(q)
  OBVIOUS
<1>2. /\ \A i \in 1 .. n : p[i] \in Nat /\ p[i] \in ToSet(p)
      /\ \A i \in 1 .. m : q[i] \in Nat /\ q[i] \in ToSet(q)
      /\ \A x \in ToSet(p) : \E i \in 1 .. n : x = p[i]
      /\ \A x \in ToSet(q) : \E i \in 1 .. m : x = q[i]
  <2>1. ToSet(p) = {p[i] : i \in 1 .. n} /\ ToSet(q) = {q[i] : i \in 1 .. m}
    BY <1>1, ToSetIs
  <2>2. QED BY <1>1, <2>1
<1>3. /\ \A i, j \in 1 .. n : i < j => p[i] < p[j]
      /\ \A i, j \in 1 .. m : i < j => q[i] < q[j]
  BY <1>1 DEF Rising
<1> DEFINE Bad == {i \in Nat : i \in 1 .. n /\ ~(i <= m /\ q[i] = p[i])}
<1>4. ASSUME NEW i \in Nat, \A k \in 0 .. i - 1 : k \notin Bad PROVE i \notin Bad
  <2> SUFFICES ASSUME i \in 1 .. n PROVE i <= m /\ q[i] = p[i]
    OBVIOUS
  <2>1. ASSUME NEW k \in 1 .. n, k < i PROVE k <= m /\ q[k] = p[k]
    BY <1>4, <2>1
  <2>2. p[i] \in ToSet(q) /\ p[i] \in ToSet(p)
    BY <1>2
  <2>3. PICK j \in 1 .. m : p[i] = q[j]
    BY <1>2, <2>2
  <2>4. ~(j < i)
    <3>1. ASSUME j < i PROVE FALSE
      <4>1. j \in 1 .. n /\ q[j] = p[j]
        BY <2>1, <3>1
      <4>2. p[j] < p[i] /\ p[j] \in Nat
        BY <1>2, <1>3, <3>1, <4>1
      <4>3. QED BY <2>3, <4>1, <4>2
    <3>2. QED BY <3>1
  <2>5. i <= j /\ i \in 1 .. m
    BY <2>4
  <2>6. CASE i = j
    BY <2>3, <2>5, <2>6
  <2>7. CASE i < j
    <3>1. q[i] < p[i] /\ q[i] \in Nat /\ q[i] \in ToSet(q) /\ p[i] \in Nat
      BY <1>2, <1>3, <2>3, <2>5, <2>7
    <3>2. q[i] \in ToSet(p)
      <4>1. ~(p[i] < q[i])
        BY <3>1
      <4>2. QED BY <2>2, <3>1, <4>1
    <3>3. PICK k \in 1 .. n : q[i] = p[k]
      BY <1>2, <3>2
    <3>4. k < i
      <4>1. ASSUME ~(k < i) PROVE FALSE
        <5>1. k = i \/ i < k
          BY <4>1
        <5>2. p[i] <= p[k]
          BY <1>2, <1>3, <5>1
        <5>3. QED BY <1>2, <3>1, <3>3, <5>2
      <4>2. QED BY <4>1
    <3>5. q[k] = q[i] /\ k \in 1 .. m
      BY <2>1, <3>3, <3>4
    <3>6. q[k] < q[i] /\ q[k] \in Nat
      BY <1>2, <1>3, <2>5, <3>4, <3>5
    <3>7. QED BY <3>5, <3>6
  <2>8. QED BY <2>5, <2>6, <2>7
<1>5. Bad = {}
  <2> HIDE DEF Bad
  <2>1. Bad \in SUBSET Nat
    BY DEF Bad
  <2>2. QED BY <1>4, <2>1, NoLeast
<1>6. ASSUME NEW i \in 1 .. n PROVE i <= m /\ q[i] = p[i]
  <2>1. i \in Nat
    OBVIOUS
  <2>2. i \notin Bad
    <3> HIDE DEF Bad
    <3>1. QED BY <1>5
  <2>3. QED BY <2>1, <2>2
<1>7. n <= m
  <2>1. CASE n = 0
    BY <2>1
  <2>2. CASE n # 0
    <3>1. n \in 1 .. n
      BY <2>2
    <3>2. QED BY <1>6, <3>1
  <2>3. QED BY <2>1, <2>2
<1>8. QED BY <1>1, <1>6, <1>7

\* In a list that rises no element occurs twice.
LEMMA RisingOnce ==
  ASSUME NEW q \in Seq(Nat), Rising(q), NEW i \in 1 .. Len(q), NEW j \in 1 .. Len(q), q[i] = q[j]
  PROVE  i = j
<1>1. i \in Nat /\ j \in Nat /\ q[i] \in Nat /\ q[j] \in Nat
  OBVIOUS
<1>2. ~(i < j) /\ ~(j < i)
  BY <1>1 DEF Rising
<1>3. QED BY <1>1, <1>2

\* What is left of a list that rises, rises.
LEMMA FilterRises ==
  ASSUME NEW q \in Seq(Nat), Rising(q), NEW S
  PROVE  /\ Filter(q, S) \in Seq(Nat) /\ Rising(Filter(q, S))
         /\ ToSet(Filter(q, S)) = ToSet(q) \cap S
<1>1. PICK some \in Seq(Nat) : some = Filter(q, S)
  BY FilterIs
<1>2. PICK places : Places(places, some, q, S, Len(q))
  BY <1>1, FilterIs
<1>3. PICK n \in Nat, m \in Nat : n = Len(q) /\ m = Len(some)
  OBVIOUS
<1>4. /\ \A j \in 1 .. m : places[j] \in 1 .. n /\ some[j] = q[places[j]] /\ some[j] \in S
      /\ \A j, k \in 1 .. m : j < k => places[j] < places[k]
      /\ \A i \in 1 .. n : q[i] \in S => \E j \in 1 .. m : places[j] = i
  BY <1>2, <1>3 DEF Places
<1>5. \A i, j \in 1 .. n : i < j => q[i] < q[j]
  BY <1>3 DEF Rising
<1>6. \A j, k \in 1 .. m : j < k => some[j] < some[k]
  BY <1>4, <1>5
<1>7. ToSet(some) = {some[j] : j \in 1 .. m} /\ ToSet(q) = {q[i] : i \in 1 .. n}
  BY <1>3, ToSetIs
<1>8. ToSet(some) = ToSet(q) \cap S
  <2>1. ASSUME NEW x \in ToSet(some) PROVE x \in ToSet(q) \cap S
    <3>1. PICK j \in 1 .. m : x = some[j]
      BY <1>7
    <3>2. QED BY <1>4, <1>7, <3>1
  <2>2. ASSUME NEW x \in ToSet(q), x \in S PROVE x \in ToSet(some)
    <3>1. PICK i \in 1 .. n : x = q[i]
      BY <1>7
    <3>2. PICK j \in 1 .. m : places[j] = i
      BY <1>4, <2>2, <3>1
    <3>3. some[j] = x
      BY <1>4, <3>1, <3>2
    <3>4. QED BY <1>7, <3>3
  <2>3. QED BY <2>1, <2>2
<1>9. QED BY <1>1, <1>3, <1>6, <1>8 DEF Rising

-----------------------------------------------------------------------------
(* What is decoded from the beginning of a log.                            *)

Piece == [frame : Nat \ {0}, at : Nat \ {0}, last : BOOLEAN]

\* Frame after frame, and of each the pieces from the first on.
InOrder(log) ==
  /\ log \in Seq(Piece)
  /\ \A i, j \in 1 .. Len(log) : i < j =>
       /\ log[i].frame <= log[j].frame
       /\ log[i].frame = log[j].frame => log[j].at = log[i].at + (j - i)
  /\ \A i \in 1 .. Len(log) :
       /\ log[i].at <= i
       /\ log[i - log[i].at + 1].frame = log[i].frame /\ log[i - log[i].at + 1].at = 1

Ends(data, i) == {j \in i .. AtMost(Len(data), i + Retries - 1) : IsFrame(SubSeq(data, i, j))}

EndOf(data, i) == CHOOSE k \in Ends(data, i) : \A l \in Ends(data, i) : k <= l

\* The function by which a log is decoded, from some piece on.
Decodes(from, data, low) ==
  from = [i \in low .. Len(data) + 1 |->
            IF i > Len(data) THEN [frames |-> <<>>, corrupt |-> 0]
            ELSE IF Ends(data, i) = {} THEN [from[i + 1] EXCEPT !.corrupt = @ + 1]
            ELSE [from[EndOf(data, i) + 1] EXCEPT !.frames = <<data[i].frame>> \o @]]

\* The frames that begin at piece i or later.
FramesFrom(data, i) == {data[k].frame : k \in {l \in i .. Len(data) : Ends(data, l) # {}}}

\* A set of numbers has a least one.
LEMMA LeastIs ==
  ASSUME NEW S \in SUBSET Nat, S # {} PROVE \E k \in S : \A l \in S : k <= l
<1> SUFFICES ASSUME \A k \in S : \E l \in S : ~(k <= l) PROVE FALSE
  OBVIOUS
<1>1. ASSUME NEW n \in Nat, \A m \in 0 .. n - 1 : m \notin S PROVE n \notin S
  <2>1. ASSUME n \in S PROVE FALSE
    <3>1. PICK l \in S : ~(n <= l)
      BY <2>1
    <3>2. l \in 0 .. n - 1
      BY <3>1
    <3>3. QED BY <1>1, <3>2
  <2>2. QED BY <2>1
<1>2. QED BY <1>1, NoLeast

\* Where a frame that begins at a piece can end.
LEMMA EndsAre ==
  ASSUME NEW data \in Seq(Piece), NEW i \in 1 .. Len(data), NEW j
  PROVE  j \in Ends(data, i) <=>
           /\ j \in i .. Len(data) /\ j <= i + Retries - 1
           /\ data[i].frame = data[j].frame /\ data[i].at = 1 /\ data[j].last
<1>1. PICK n \in Nat : n = Len(data)
  OBVIOUS
<1>2. Retries \in Nat /\ i \in 1 .. n
  BY <1>1, TranscriptAssumption
<1>3. j \in i .. AtMost(n, i + Retries - 1) <=> j \in i .. n /\ j <= i + Retries - 1
  BY <1>2 DEF AtMost
<1>4. ASSUME j \in i .. n
      PROVE  IsFrame(SubSeq(data, i, j)) <=>
               data[i].frame = data[j].frame /\ data[i].at = 1 /\ data[j].last
  <2>1. PICK q : q = SubSeq(data, i, j)
    OBVIOUS
  <2>2. j - i + 1 \in Nat /\ j - i + 1 >= 1 /\ i + (j - i + 1) - 1 = j /\ i + 1 - 1 = i
        /\ 1 \in 1 .. j - i + 1 /\ j - i + 1 \in 1 .. j - i + 1
    BY <1>2, <1>4
  <2>3. /\ Len(q) = j - i + 1
        /\ \A k \in 1 .. j - i + 1 : q[k] = data[i + k - 1]
    BY <1>1, <1>2, <1>4, <2>1, SubSeqProperties
  <2>4. q[1] = data[i] /\ q[Len(q)] = data[j]
    BY <2>2, <2>3
  <2>5. QED BY <2>1, <2>4 DEF IsFrame
<1>5. QED BY <1>1, <1>3, <1>4 DEF Ends

\* The end that is taken is one of them.
LEMMA EndOfIs ==
  ASSUME NEW data \in Seq(Piece), NEW i \in 1 .. Len(data), Ends(data, i) # {}
  PROVE  EndOf(data, i) \in Ends(data, i)
<1>1. Ends(data, i) \in SUBSET Nat
  <2>1. ASSUME NEW j \in Ends(data, i) PROVE j \in Nat
    <3>1. j \in i .. Len(data)
      BY <2>1, EndsAre
    <3>2. QED BY <3>1
  <2>2. QED BY <2>1
<1>2. \E k \in Ends(data, i) : \A l \in Ends(data, i) : k <= l
  BY <1>1, LeastIs
<1>3. QED BY <1>2 DEF EndOf

\* There is such a function.
LEMMA DecodesExist ==
  ASSUME NEW data \in Seq(Piece) PROVE \E from : Decodes(from, data, 1)
<1>1. PICK n \in Nat : n = Len(data)
  OBVIOUS
<1> DEFINE Bad == {m \in Nat : m <= n /\ ~ \E from : Decodes(from, data, n + 1 - m)}
<1>2. 0 \notin Bad
  <2> DEFINE from == [i \in n + 1 .. n + 1 |-> [frames |-> <<>>, corrupt |-> 0]]
  <2>1. \A i \in n + 1 .. n + 1 : i > n
    OBVIOUS
  <2>2. Decodes(from, data, n + 1 - 0)
    BY <1>1, <2>1 DEF Decodes
  <2>3. QED BY <2>2
<1>3. ASSUME NEW m \in Nat, m \notin Bad PROVE m + 1 \notin Bad
  <2> SUFFICES ASSUME m + 1 <= n PROVE \E from : Decodes(from, data, n + 1 - (m + 1))
    OBVIOUS
  <2>1. PICK low \in 1 .. n : low = n + 1 - (m + 1) /\ low + 1 = n + 1 - m
    OBVIOUS
  <2>2. PICK old : Decodes(old, data, low + 1)
    BY <1>3, <2>1
  <2> DEFINE first == IF Ends(data, low) = {} THEN [old[low + 1] EXCEPT !.corrupt = @ + 1]
                      ELSE [old[EndOf(data, low) + 1] EXCEPT !.frames = <<data[low].frame>> \o @]
             new == [i \in low .. n + 1 |-> IF i = low THEN first ELSE old[i]]
  <2>3. \A i \in low + 1 .. n + 1 :
          old[i] = IF i > n THEN [frames |-> <<>>, corrupt |-> 0]
                   ELSE IF Ends(data, i) = {} THEN [old[i + 1] EXCEPT !.corrupt = @ + 1]
                   ELSE [old[EndOf(data, i) + 1] EXCEPT !.frames = <<data[i].frame>> \o @]
    BY <1>1, <2>2 DEF Decodes
  <2>4. new[low] = first /\ \A i \in low + 1 .. n + 1 : new[i] = old[i]
    <3>1. low \in low .. n + 1
      BY <2>1
    <3>2. \A i \in low + 1 .. n + 1 : i \in low .. n + 1 /\ i # low
      BY <2>1
    <3> HIDE DEF first
    <3>3. QED BY <3>1, <3>2
  <2>5. new = [i \in low .. n + 1 |-> new[i]]
    OBVIOUS
  <2>6. ASSUME NEW i \in low .. n, Ends(data, i) # {} PROVE EndOf(data, i) + 1 \in i + 1 .. n + 1
    <3>1. i \in 1 .. Len(data)
      BY <1>1, <2>1
    <3>2. EndOf(data, i) \in i .. n
      BY <1>1, <2>6, <3>1, EndOfIs, EndsAre
    <3>3. QED BY <3>1, <3>2
  <2>7. ASSUME NEW i \in low .. n + 1
        PROVE  new[i] = IF i > n THEN [frames |-> <<>>, corrupt |-> 0]
                        ELSE IF Ends(data, i) = {} THEN [new[i + 1] EXCEPT !.corrupt = @ + 1]
                        ELSE [new[EndOf(data, i) + 1] EXCEPT !.frames = <<data[i].frame>> \o @]
    <3> HIDE DEF new
    <3>1. CASE i = low
      <4>1. ~(i > n) /\ i \in low .. n /\ low + 1 \in low + 1 .. n + 1
        BY <2>1, <3>1
      <4>2. new[low + 1] = old[low + 1]
        BY <2>4, <4>1
      <4>3. Ends(data, low) # {} => new[EndOf(data, low) + 1] = old[EndOf(data, low) + 1]
        BY <2>4, <2>6, <3>1, <4>1
      <4>4. QED BY <2>4, <3>1, <4>1, <4>2, <4>3
    <3>2. CASE i # low
      <4>1. i \in low + 1 .. n + 1
        BY <3>2
      <4>2. new[i] = old[i]
        BY <2>4, <4>1
      <4>3. CASE i > n
        BY <2>3, <4>1, <4>2, <4>3
      <4>4. CASE ~(i > n)
        <5>1. i \in low .. n /\ i + 1 \in low + 1 .. n + 1
          BY <4>1, <4>4
        <5>2. new[i + 1] = old[i + 1]
          BY <2>4, <5>1
        <5>3. Ends(data, i) # {} => new[EndOf(data, i) + 1] = old[EndOf(data, i) + 1]
          <6>1. ASSUME Ends(data, i) # {} PROVE EndOf(data, i) + 1 \in low + 1 .. n + 1
            <7>1. EndOf(data, i) + 1 \in i + 1 .. n + 1
              BY <2>6, <5>1, <6>1
            <7>2. QED BY <4>1, <7>1
          <6>2. QED BY <2>4, <6>1
        <5>4. QED BY <2>3, <4>1, <4>2, <4>4, <5>2, <5>3
      <4>5. QED BY <4>3, <4>4
    <3>3. QED BY <3>1, <3>2
  <2> HIDE DEF new, first
  <2>8. Decodes(new, data, low)
    BY <1>1, <2>5, <2>7 DEF Decodes
  <2>9. QED BY <2>1, <2>8
<1>4. Bad = {}
  <2> HIDE DEF Bad
  <2>1. Bad \in SUBSET Nat
    BY DEF Bad
  <2>2. QED BY <1>2, <1>3, <2>1, NoFirst
<1>5. n \notin Bad
  <2> HIDE DEF Bad
  <2>1. QED BY <1>4
<1>6. n + 1 - n = 1 /\ n <= n
  OBVIOUS
<1>7. QED BY <1>5, <1>6

\* A piece that ends none is passed over; a frame that is found is followed by those that
\* begin behind it, and they are later ones.
LEMMA FramesStep ==
  ASSUME NEW data, InOrder(data), NEW i \in 1 .. Len(data)
  PROVE  /\ Ends(data, i) = {} => FramesFrom(data, i) = FramesFrom(data, i + 1)
         /\ \A j \in Ends(data, i) :
              /\ FramesFrom(data, i) = {data[i].frame} \cup FramesFrom(data, j + 1)
              /\ \A x \in FramesFrom(data, j + 1) : data[i].frame < x
<1>1. data \in Seq(Piece)
  BY DEF InOrder
<1>2. PICK n \in Nat : n = Len(data)
  BY <1>1
<1>3. i \in 1 .. n /\ \A k \in 1 .. n : data[k].frame \in Nat /\ data[k].at \in Nat
  <2>1. \A k \in 1 .. n : data[k] \in Piece
    BY <1>1, <1>2
  <2>2. QED BY <1>2, <2>1 DEF Piece
<1>4. ASSUME Ends(data, i) = {} PROVE FramesFrom(data, i) = FramesFrom(data, i + 1)
  <2>1. \A l \in i .. n : l = i \/ l \in i + 1 .. n
    BY <1>3
  <2>2. \A l \in i + 1 .. n : l \in i .. n
    BY <1>3
  <2>3. {l \in i .. n : Ends(data, l) # {}} = {l \in i + 1 .. n : Ends(data, l) # {}}
    BY <1>4, <2>1, <2>2
  <2>4. QED BY <1>2, <2>3 DEF FramesFrom
<1>5. ASSUME NEW j \in Ends(data, i)
      PROVE  /\ FramesFrom(data, i) = {data[i].frame} \cup FramesFrom(data, j + 1)
             /\ \A x \in FramesFrom(data, j + 1) : data[i].frame < x
  <2>1. j \in i .. n /\ data[i].frame = data[j].frame /\ data[i].at = 1
    BY <1>1, <1>2, <1>5, EndsAre
  <2>2. ASSUME NEW l \in i .. n, Ends(data, l) # {} PROVE l = i \/ l \in j + 1 .. n
    <3>1. data[l].at = 1
      BY <1>1, <1>2, <1>3, <2>2, EndsAre
    <3>2. ASSUME i < l, l <= j PROVE FALSE
      <4>1. l \in 1 .. n /\ j \in 1 .. n /\ i \in 1 .. n
        BY <1>3, <2>1, <3>2
      <4>2. data[i].frame <= data[l].frame /\ data[l].frame <= data[j].frame
        <5>1. data[i].frame <= data[l].frame
          BY <1>2, <3>2, <4>1 DEF InOrder
        <5>2. CASE l < j
          BY <1>2, <4>1, <5>1, <5>2 DEF InOrder
        <5>3. CASE l = j
          BY <1>3, <4>1, <5>1, <5>3
        <5>4. QED BY <3>2, <4>1, <5>2, <5>3
      <4>3. data[i].frame = data[l].frame
        BY <1>3, <2>1, <4>1, <4>2
      <4>4. data[l].at = data[i].at + (l - i)
        BY <1>2, <3>2, <4>1, <4>3 DEF InOrder
      <4>5. QED BY <2>1, <3>1, <3>2, <4>1, <4>4
    <3>3. QED BY <1>3, <2>1, <3>2
  <2>3. \A l \in j + 1 .. n : l \in i .. n
    BY <1>3, <2>1
  <2>4. i \in i .. n /\ Ends(data, i) # {}
    BY <1>3
  <2>5. FramesFrom(data, i) = {data[i].frame} \cup FramesFrom(data, j + 1)
    <3>1. /\ FramesFrom(data, i) = {data[k].frame : k \in {l \in i .. n : Ends(data, l) # {}}}
          /\ FramesFrom(data, j + 1) =
               {data[k].frame : k \in {l \in j + 1 .. n : Ends(data, l) # {}}}
      BY <1>2 DEF FramesFrom
    <3>2. {l \in i .. n : Ends(data, l) # {}} = {i} \cup {l \in j + 1 .. n : Ends(data, l) # {}}
      BY <2>2, <2>3, <2>4
    <3>3. QED BY <3>1, <3>2
  <2>6. ASSUME NEW x \in FramesFrom(data, j + 1) PROVE data[i].frame < x
    <3>1. PICK k \in j + 1 .. n : Ends(data, k) # {} /\ x = data[k].frame
      BY <1>2 DEF FramesFrom
    <3>2. k \in 1 .. n /\ i < k
      BY <1>3, <2>1
    <3>3. data[k].at = 1
      BY <1>1, <1>2, <3>1, <3>2, EndsAre
    <3>4. data[i].frame <= x
      BY <1>2, <1>3, <3>1, <3>2 DEF InOrder
    <3>5. data[i].frame # x
      <4>1. ASSUME data[i].frame = x PROVE FALSE
        <5>1. data[k].at = data[i].at + (k - i)
          BY <1>2, <1>3, <3>1, <3>2, <4>1 DEF InOrder
        <5>2. QED BY <1>3, <2>1, <3>2, <3>3, <5>1
      <4>2. QED BY <4>1
    <3>6. QED BY <1>3, <3>1, <3>2, <3>4, <3>5
  <2>7. QED BY <2>5, <2>6
<1>6. QED BY <1>4, <1>5

\* One element before a list that rises, and that it is before.
LEMMA RisingWith ==
  ASSUME NEW q \in Seq(Nat), Rising(q), NEW x \in Nat, \A y \in ToSet(q) : x < y
  PROVE  /\ <<x>> \o q \in Seq(Nat) /\ Rising(<<x>> \o q)
         /\ ToSet(<<x>> \o q) = {x} \cup ToSet(q)
<1>1. PICK n \in Nat : n = Len(q)
  OBVIOUS
<1>2. PICK p \in Seq(Nat) : p = <<x>> \o q
  <2>1. <<x>> \in Seq(Nat)
    OBVIOUS
  <2>2. QED BY <2>1, ConcatProperties
<1>3. Len(p) = n + 1 /\ p[1] = x /\ \A i \in 2 .. n + 1 : p[i] = q[i - 1]
  BY <1>1, <1>2
<1>4. \A i \in 1 .. n : q[i] \in Nat /\ q[i] \in ToSet(q) /\ x < q[i]
  BY <1>1, ToSetIs
<1>5. ASSUME NEW i \in 1 .. n + 1, NEW j \in 1 .. n + 1, i < j PROVE p[i] < p[j]
  <2>1. j \in 2 .. n + 1 /\ j - 1 \in 1 .. n /\ p[j] = q[j - 1]
    BY <1>3, <1>5
  <2>2. CASE i = 1
    BY <1>3, <1>4, <2>1, <2>2
  <2>3. CASE i # 1
    <3>1. i \in 2 .. n + 1 /\ i - 1 \in 1 .. n /\ i - 1 < j - 1 /\ p[i] = q[i - 1]
      BY <1>3, <1>5, <2>3
    <3>2. QED BY <1>1, <2>1, <3>1 DEF Rising
  <2>4. QED BY <2>2, <2>3
<1>6. ToSet(p) = {p[i] : i \in 1 .. n + 1} /\ ToSet(q) = {q[i] : i \in 1 .. n}
  BY <1>1, <1>3, ToSetIs
<1>7. ToSet(p) = {x} \cup ToSet(q)
  <2>1. ASSUME NEW y \in ToSet(p) PROVE y \in {x} \cup ToSet(q)
    <3>1. PICK i \in 1 .. n + 1 : y = p[i]
      BY <1>6
    <3>2. CASE i = 1
      BY <1>3, <3>1, <3>2
    <3>3. CASE i # 1
      <4>1. i \in 2 .. n + 1 /\ i - 1 \in 1 .. n
        BY <3>3
      <4>2. y = q[i - 1]
        BY <1>3, <3>1, <4>1
      <4>3. QED BY <1>4, <4>1, <4>2
    <3>4. QED BY <3>2, <3>3
  <2>2. x \in ToSet(p)
    <3>1. 1 \in 1 .. n + 1
      OBVIOUS
    <3>2. QED BY <1>3, <1>6, <3>1
  <2>3. ASSUME NEW y \in ToSet(q) PROVE y \in ToSet(p)
    <3>1. PICK i \in 1 .. n : y = q[i]
      BY <1>6
    <3>2. i + 1 \in 2 .. n + 1 /\ i + 1 \in 1 .. n + 1 /\ (i + 1) - 1 = i
      OBVIOUS
    <3>3. p[i + 1] = y
      BY <1>3, <3>1, <3>2
    <3>4. QED BY <1>6, <3>2, <3>3
  <2>4. QED BY <2>1, <2>2, <2>3
<1>8. QED BY <1>2, <1>3, <1>5, <1>7 DEF Rising

\* What is decoded: the frames that begin somewhere and end near enough, in their order.
LEMMA DecodedIs ==
  ASSUME NEW data, InOrder(data)
  PROVE  LET d == decodeFrames(data) IN
         /\ d.frames \in Seq(Nat) /\ Rising(d.frames) /\ ToSet(d.frames) = FramesFrom(data, 1)
         /\ d.corrupt \in Nat
<1>0. data \in Seq(Piece)
  BY DEF InOrder
<1>1. PICK from : Decodes(from, data, 1) /\ decodeFrames(data) = from[1]
  <2> DEFINE from == CHOOSE f : Decodes(f, data, 1)
  <2>1. Decodes(from, data, 1)
    BY <1>0, DecodesExist
  <2>2. decodeFrames(data) = from[1]
    BY DEF decodeFrames, Decodes, EndOf, Ends
  <2>3. QED BY <2>1, <2>2
<1>2. PICK n \in Nat : n = Len(data)
  BY <1>0
<1> DEFINE Good(i) == /\ from[i] \in [frames : Seq(Nat), corrupt : Nat]
                      /\ Rising(from[i].frames) /\ ToSet(from[i].frames) = FramesFrom(data, i)
           Bad == {m \in Nat : m <= n /\ ~Good(n + 1 - m)}
<1>3. ASSUME NEW i \in 1 .. n + 1
      PROVE  from[i] = IF i > n THEN [frames |-> <<>>, corrupt |-> 0]
                       ELSE IF Ends(data, i) = {} THEN [from[i + 1] EXCEPT !.corrupt = @ + 1]
                       ELSE [from[EndOf(data, i) + 1] EXCEPT !.frames = <<data[i].frame>> \o @]
  BY <1>1, <1>2 DEF Decodes
<1>4. Good(n + 1)
  <2>1. from[n + 1] = [frames |-> <<>>, corrupt |-> 0]
    <3>1. n + 1 \in 1 .. n + 1 /\ n + 1 > n
      OBVIOUS
    <3>2. QED BY <1>3, <3>1
  <2>2. <<>> \in Seq(Nat) /\ Rising(<<>>) /\ ToSet(<<>>) = {}
    BY DEF Rising, ToSet
  <2>3. FramesFrom(data, n + 1) = {}
    <3>1. n + 1 .. n = {}
      OBVIOUS
    <3>2. QED BY <1>2, <3>1 DEF FramesFrom
  <2>4. from[n + 1] \in [frames : Seq(Nat), corrupt : Nat]
    <3>1. 0 \in Nat
      OBVIOUS
    <3>2. QED BY <2>1, <2>2, <3>1
  <2>5. from[n + 1].frames = <<>>
    BY <2>1
  <2>6. QED BY <2>2, <2>3, <2>4, <2>5
<1>5. ASSUME NEW i \in 1 .. n, \A j \in i + 1 .. n + 1 : Good(j) PROVE Good(i)
  <2>1. /\ i \in 1 .. n + 1 /\ ~(i > n) /\ i + 1 \in i + 1 .. n + 1 /\ i \in 1 .. Len(data)
        /\ data[i].frame \in Nat
    <3>1. data[i] \in Piece
      BY <1>0, <1>2
    <3>2. QED BY <1>2, <3>1 DEF Piece
  <2>2. CASE Ends(data, i) = {}
    <3>1. PICK next \in [frames : Seq(Nat), corrupt : Nat] : next = from[i + 1]
      BY <1>5, <2>1
    <3>2. from[i] = [next EXCEPT !.corrupt = next.corrupt + 1]
      BY <1>3, <2>1, <2>2, <3>1
    <3>3. from[i] \in [frames : Seq(Nat), corrupt : Nat] /\ from[i].frames = next.frames
      BY <3>2
    <3>4. FramesFrom(data, i) = FramesFrom(data, i + 1)
      BY <2>1, <2>2, FramesStep
    <3>5. QED BY <1>5, <2>1, <3>1, <3>3, <3>4
  <2>3. CASE Ends(data, i) # {}
    <3>1. PICK j \in Ends(data, i) : j = EndOf(data, i)
      BY <1>0, <2>1, <2>3, EndOfIs
    <3>2. j + 1 \in i + 1 .. n + 1
      <4>1. j \in i .. n
        BY <1>0, <1>2, <2>1, <3>1, EndsAre
      <4>2. QED BY <4>1
    <3>3. PICK next \in [frames : Seq(Nat), corrupt : Nat] : next = from[j + 1]
      BY <1>5, <3>2
    <3>4. PICK x \in Nat : x = data[i].frame
      BY <2>1
    <3>5. from[i] = [next EXCEPT !.frames = <<x>> \o next.frames]
      BY <1>3, <2>1, <2>3, <3>1, <3>3, <3>4
    <3>6. PICK q \in Seq(Nat) : q = next.frames
      OBVIOUS
    <3>7. Rising(q) /\ ToSet(q) = FramesFrom(data, j + 1)
      BY <1>5, <3>2, <3>3, <3>6
    <3>8. FramesFrom(data, i) = {x} \cup ToSet(q) /\ \A y \in ToSet(q) : x < y
      BY <2>1, <3>1, <3>4, <3>7, FramesStep
    <3>9. <<x>> \o q \in Seq(Nat) /\ Rising(<<x>> \o q) /\ ToSet(<<x>> \o q) = {x} \cup ToSet(q)
      BY <3>7, <3>8, RisingWith
    <3>10. from[i] \in [frames : Seq(Nat), corrupt : Nat] /\ from[i].frames = <<x>> \o q
      BY <3>5, <3>6, <3>9
    <3>11. QED BY <3>8, <3>9, <3>10
  <2>4. QED BY <2>2, <2>3
<1>6. ASSUME NEW m \in Nat, \A k \in 0 .. m - 1 : k \notin Bad PROVE m \notin Bad
  <2> SUFFICES ASSUME m <= n PROVE Good(n + 1 - m)
    OBVIOUS
  <2> HIDE DEF Good
  <2>1. CASE m = 0
    <3>1. n + 1 - m = n + 1
      BY <2>1
    <3>2. QED BY <1>4, <3>1
  <2>2. CASE m # 0
    <3>1. PICK i \in 1 .. n : i = n + 1 - m
      BY <2>2
    <3>2. ASSUME NEW j \in i + 1 .. n + 1 PROVE Good(j)
      <4>1. PICK k \in 0 .. m - 1 : k = n + 1 - j
        BY <3>1
      <4>2. k \in Nat /\ k <= n /\ n + 1 - k = j
        BY <3>1, <4>1
      <4>3. k \notin Bad
        BY <1>6, <4>1
      <4>4. QED BY <4>2, <4>3
    <3>3. QED BY <1>5, <3>1, <3>2
  <2>3. QED BY <2>1, <2>2
<1>7. Bad = {}
  <2> HIDE DEF Bad
  <2>1. Bad \in SUBSET Nat
    BY DEF Bad
  <2>2. QED BY <1>6, <2>1, NoLeast
<1>8. Good(1)
  <2>1. n \in Nat /\ n <= n /\ n + 1 - n = 1
    OBVIOUS
  <2>2. n \notin Bad
    <3> HIDE DEF Bad
    <3>1. QED BY <1>7
  <2> HIDE DEF Good
  <2>3. QED BY <2>1, <2>2
<1>9. /\ decodeFrames(data).frames \in Seq(Nat) /\ Rising(decodeFrames(data).frames)
      /\ ToSet(decodeFrames(data).frames) = FramesFrom(data, 1)
      /\ decodeFrames(data).corrupt \in Nat
  BY <1>1, <1>8
<1>10. QED BY <1>9

\* Frame n has all its pieces in what is read, and not too many.
FrameIn(log, n) ==
  \E i, j \in 1 .. AtMost(Len(log), ReadCap) :
    /\ i <= j /\ j <= i + Retries - 1
    /\ log[i].frame = n /\ log[i].at = 1 /\ log[j].frame = n /\ log[j].last

\* What a log shows.
ShotsOf(log, evs) == renderMessages(evs, decodeFrames(readFilePrefix(log)).frames)

Appears(log, evs, n) ==
  /\ FrameIn(log, n)
  /\ \/ evs[n].kind \in {"message", "call"}
     \/ evs[n].kind = "part" /\ \A k : FrameIn(log, k) => evs[k].of # n

\* A sequence that begins with another.
Begins(new, old) == Len(old) <= Len(new) /\ \A i \in 1 .. Len(old) : new[i] = old[i]

\* What is read is the beginning of the log, and in order.
LEMMA PrefixIs ==
  ASSUME NEW log, InOrder(log), NEW n \in Nat, n = AtMost(Len(log), ReadCap)
  PROVE  /\ InOrder(readFilePrefix(log)) /\ Len(readFilePrefix(log)) = n /\ n <= Len(log)
         /\ \A i \in 1 .. n : readFilePrefix(log)[i] = log[i]
<1>1. log \in Seq(Piece) /\ Len(log) \in Nat
  BY DEF InOrder
<1>2. n <= Len(log) /\ ReadCap \in Nat
  BY <1>1, TranscriptAssumption DEF AtMost
<1>3. PICK q : q = readFilePrefix(log)
  OBVIOUS
<1>4. q = SubSeq(log, 1, n)
  BY <1>3 DEF readFilePrefix
<1>5. q \in Seq(Piece) /\ Len(q) = n /\ \A i \in 1 .. n : q[i] = log[i]
  <2>1. CASE n = 0
    <3>1. SubSeq(log, 1, 0) = <<>>
      BY <1>1, SubSeqProperties
    <3>2. QED BY <1>4, <2>1, <3>1
  <2>2. CASE n # 0
    <3>1. 1 \in 1 .. Len(log) + 1 /\ n \in 0 .. Len(log) /\ n - 1 + 1 = n /\ 1 <= n
      BY <1>1, <1>2, <2>2
    <3>2. /\ q \in Seq(Piece) /\ Len(q) = n
          /\ \A i \in 1 .. n : q[i] = log[1 + i - 1]
      BY <1>1, <1>4, <3>1, SubSeqProperties
    <3>3. \A i \in 1 .. n : 1 + i - 1 = i
      OBVIOUS
    <3>4. QED BY <3>2, <3>3
  <2>3. QED BY <2>1, <2>2
<1>6. \A i \in 1 .. n : i \in 1 .. Len(log)
  BY <1>1, <1>2
<1>7. ASSUME NEW i \in 1 .. n, NEW j \in 1 .. n, i < j
      PROVE  /\ q[i].frame <= q[j].frame
             /\ q[i].frame = q[j].frame => q[j].at = q[i].at + (j - i)
  BY <1>5, <1>6, <1>7 DEF InOrder
<1>8. ASSUME NEW i \in 1 .. n
      PROVE  /\ q[i].at <= i
             /\ q[i - q[i].at + 1].frame = q[i].frame /\ q[i - q[i].at + 1].at = 1
  <2>1. /\ log[i].at <= i
        /\ log[i - log[i].at + 1].frame = log[i].frame /\ log[i - log[i].at + 1].at = 1
    BY <1>6 DEF InOrder
  <2>2. log[i].at \in Nat \ {0}
    <3>1. log[i] \in Piece
      BY <1>1, <1>6
    <3>2. QED BY <3>1 DEF Piece
  <2>3. i - log[i].at + 1 \in 1 .. n
    BY <2>1, <2>2
  <2>4. QED BY <1>5, <2>1, <2>3
<1>9. QED BY <1>2, <1>3, <1>5, <1>7, <1>8 DEF InOrder

\* What is decoded of a log.
LEMMA FramesAre ==
  ASSUME NEW log, InOrder(log)
  PROVE  LET d == decodeFrames(readFilePrefix(log)) IN
         /\ d.frames \in Seq(Nat) /\ Rising(d.frames) /\ d.corrupt \in Nat
         /\ \A n : n \in ToSet(d.frames) <=> FrameIn(log, n)
<1>0. PICK data : data = readFilePrefix(log)
  OBVIOUS
<1>1. PICK m \in Nat : m = AtMost(Len(log), ReadCap)
  <2>1. PICK k \in Nat, c \in Nat : k = Len(log) /\ c = ReadCap
    BY TranscriptAssumption DEF InOrder
  <2>2. AtMost(k, c) \in Nat
    BY DEF AtMost
  <2>3. QED BY <2>1, <2>2
<1>2. InOrder(data) /\ Len(data) = m /\ \A i \in 1 .. m : data[i] = log[i]
  BY <1>0, <1>1, PrefixIs
<1>3. PICK d : d = decodeFrames(data)
  OBVIOUS
<1>4. /\ d.frames \in Seq(Nat) /\ Rising(d.frames) /\ d.corrupt \in Nat
      /\ ToSet(d.frames) = FramesFrom(data, 1)
  BY <1>2, <1>3, DecodedIs
<1>5. data \in Seq(Piece)
  BY <1>2 DEF InOrder
<1>6. ASSUME NEW n PROVE n \in ToSet(d.frames) <=> FrameIn(log, n)
  <2>1. n \in ToSet(d.frames) <=> \E i \in 1 .. m : Ends(data, i) # {} /\ n = data[i].frame
    BY <1>2, <1>4 DEF FramesFrom
  <2>2. ASSUME NEW i \in 1 .. m, Ends(data, i) # {}, n = data[i].frame PROVE FrameIn(log, n)
    <3>1. PICK j : j \in Ends(data, i)
      BY <2>2
    <3>2. /\ j \in i .. m /\ j <= i + Retries - 1
          /\ data[i].frame = data[j].frame /\ data[i].at = 1 /\ data[j].last
      BY <1>2, <1>5, <3>1, EndsAre
    <3>3. j \in 1 .. m /\ i <= j
      BY <3>2
    <3>4. log[i] = data[i] /\ log[j] = data[j]
      BY <1>2, <3>3
    <3>5. QED BY <1>1, <2>2, <3>2, <3>3, <3>4 DEF FrameIn
  <2>3. ASSUME FrameIn(log, n) PROVE \E i \in 1 .. m : Ends(data, i) # {} /\ n = data[i].frame
    <3>1. PICK i \in 1 .. m, j \in 1 .. m :
            /\ i <= j /\ j <= i + Retries - 1
            /\ log[i].frame = n /\ log[i].at = 1 /\ log[j].frame = n /\ log[j].last
      BY <1>1, <2>3 DEF FrameIn
    <3>2. j \in i .. m
      BY <3>1
    <3>3. log[i] = data[i] /\ log[j] = data[j]
      BY <1>2
    <3>4. j \in Ends(data, i)
      BY <1>2, <1>5, <3>1, <3>2, <3>3, EndsAre
    <3>5. QED BY <3>1, <3>3, <3>4
  <2>4. QED BY <2>1, <2>2, <2>3
<1>7. QED BY <1>0, <1>3, <1>4, <1>6

\* What is shown of a log.
LEMMA ShotsAre ==
  ASSUME NEW log, InOrder(log), NEW evs
  PROVE  /\ ShotsOf(log, evs) \in Seq(Nat) /\ Rising(ShotsOf(log, evs))
         /\ \A n : n \in ToSet(ShotsOf(log, evs)) <=> Appears(log, evs, n)
<1>1. PICK frames : frames = decodeFrames(readFilePrefix(log)).frames
  OBVIOUS
<1>2. frames \in Seq(Nat) /\ Rising(frames) /\ \A n : n \in ToSet(frames) <=> FrameIn(log, n)
  BY <1>1, FramesAre
<1>3. PICK S : S = {n \in ToSet(frames) : Shown(evs, frames, n)}
  OBVIOUS
<1>4. ShotsOf(log, evs) = Filter(frames, S)
  BY <1>1, <1>3 DEF ShotsOf, renderMessages
<1>5. /\ Filter(frames, S) \in Seq(Nat) /\ Rising(Filter(frames, S))
      /\ ToSet(Filter(frames, S)) = ToSet(frames) \cap S
  BY <1>2, FilterRises
<1>6. \A n : n \in ToSet(frames) \cap S <=> n \in ToSet(frames) /\ Shown(evs, frames, n)
  BY <1>3
<1>7. \A n : Shown(evs, frames, n) <=>
               \/ evs[n].kind \in {"message", "call"}
               \/ evs[n].kind = "part" /\ \A k : FrameIn(log, k) => evs[k].of # n
  BY <1>2 DEF Shown
<1>8. \A n : n \in ToSet(frames) \cap S <=> Appears(log, evs, n)
  BY <1>2, <1>6, <1>7 DEF Appears
<1>9. QED BY <1>4, <1>5, <1>8

\* A log that is written on keeps its frames, and those it gets come after them.
LEMMA FramesGrow ==
  ASSUME NEW log, NEW more, InOrder(log), InOrder(more), Begins(more, log)
  PROVE  \A n : /\ FrameIn(log, n) => FrameIn(more, n)
                /\ FrameIn(more, n) /\ ~FrameIn(log, n) => \A m : FrameIn(log, m) => m < n
<1>1. PICK k \in Nat, l \in Nat : k = Len(log) /\ l = Len(more)
  BY DEF InOrder
<1>2. PICK a \in Nat, b \in Nat : a = AtMost(k, ReadCap) /\ b = AtMost(l, ReadCap)
  BY TranscriptAssumption DEF AtMost
<1>3. k <= l /\ \A i \in 1 .. k : more[i] = log[i]
  BY <1>1 DEF Begins
<1>4. a <= k /\ a <= b /\ b <= l /\ (a < b => a = k)
  <2>1. ReadCap \in Nat
    BY TranscriptAssumption
  <2>2. QED BY <1>2, <1>3, <2>1 DEF AtMost
<1>5. \A i \in 1 .. a : i \in 1 .. b /\ more[i] = log[i]
  <2>1. \A i \in 1 .. a : i \in 1 .. b /\ i \in 1 .. k
    BY <1>4
  <2>2. QED BY <1>3, <2>1
<1>6. ASSUME NEW n, FrameIn(log, n) PROVE FrameIn(more, n)
  <2>1. PICK i \in 1 .. a, j \in 1 .. a :
          /\ i <= j /\ j <= i + Retries - 1
          /\ log[i].frame = n /\ log[i].at = 1 /\ log[j].frame = n /\ log[j].last
    BY <1>1, <1>2, <1>6 DEF FrameIn
  <2>2. i \in 1 .. b /\ j \in 1 .. b /\ more[i] = log[i] /\ more[j] = log[j]
    BY <1>5
  <2>3. QED BY <1>1, <1>2, <2>1, <2>2 DEF FrameIn
<1>7. ASSUME NEW n, FrameIn(more, n), ~FrameIn(log, n), NEW m, FrameIn(log, m) PROVE m < n
  <2>1. PICK i \in 1 .. b, j \in 1 .. b :
          /\ i <= j /\ j <= i + Retries - 1
          /\ more[i].frame = n /\ more[i].at = 1 /\ more[j].frame = n /\ more[j].last
    BY <1>1, <1>2, <1>7 DEF FrameIn
  <2>2. j \notin 1 .. a
    <3>1. ASSUME j \in 1 .. a PROVE FALSE
      <4>1. i \in 1 .. a
        BY <2>1, <3>1
      <4>2. more[i] = log[i] /\ more[j] = log[j]
        BY <1>5, <3>1, <4>1
      <4>3. FrameIn(log, n)
        BY <1>1, <1>2, <2>1, <3>1, <4>1, <4>2 DEF FrameIn
      <4>4. QED BY <1>7, <4>3
    <3>2. QED BY <3>1
  <2>3. PICK x \in 1 .. a : log[x].frame = m
    BY <1>1, <1>2, <1>7 DEF FrameIn
  <2>4. x < j /\ x \in 1 .. l /\ j \in 1 .. l /\ more[x].frame = m
    BY <1>4, <1>5, <2>2, <2>3
  <2>5. m <= n
    BY <1>1, <2>1, <2>4 DEF InOrder
  <2>6. m # n
    BY <1>7
  <2>7. m \in Nat /\ n \in Nat
    <3>1. more[x] \in Piece /\ more[j] \in Piece
      BY <1>1, <2>4 DEF InOrder
    <3>2. more[x].frame \in Nat /\ more[j].frame \in Nat
      BY <3>1 DEF Piece
    <3>3. QED BY <2>1, <2>4, <3>2
  <2>8. QED BY <2>5, <2>6, <2>7
<1>8. QED BY <1>6, <1>7

\* Where no call takes the place of a part, what a log shows only grows at its end.
LEMMA ShotsGrow ==
  ASSUME NEW log, NEW more, InOrder(log), InOrder(more), Begins(more, log),
         NEW evs, NEW later, Begins(later, evs), Len(evs) \in Nat, Len(later) \in Nat,
         \A i \in 1 .. Len(log) : log[i].frame \in 1 .. Len(evs),
         \A i \in 1 .. Len(more) : more[i].frame \in 1 .. Len(later),
         \A n \in 1 .. Len(later) : later[n].of = 0
  PROVE  Begins(ShotsOf(more, later), ShotsOf(log, evs))
<1>1. ASSUME NEW n, FrameIn(log, n) PROVE n \in 1 .. Len(evs) /\ n \in 1 .. Len(later)
  <2>1. PICK i \in 1 .. AtMost(Len(log), ReadCap) : log[i].frame = n
    BY <1>1 DEF FrameIn
  <2>2. i \in 1 .. Len(log)
    <3>1. Len(log) \in Nat
      BY DEF InOrder
    <3>2. QED BY <3>1, TranscriptAssumption DEF AtMost
  <2>3. n \in 1 .. Len(evs) /\ Len(evs) <= Len(later)
    BY <2>1, <2>2 DEF Begins
  <2>4. QED BY <2>3
<1>2. ASSUME NEW n, FrameIn(more, n) PROVE n \in 1 .. Len(later)
  <2>1. PICK i \in 1 .. AtMost(Len(more), ReadCap) : more[i].frame = n
    BY <1>2 DEF FrameIn
  <2>2. i \in 1 .. Len(more)
    <3>1. Len(more) \in Nat
      BY DEF InOrder
    <3>2. QED BY <3>1, TranscriptAssumption DEF AtMost
  <2>3. QED BY <2>1, <2>2
<1>3. ASSUME NEW n, FrameIn(log, n) PROVE evs[n] = later[n] /\ evs[n].of = 0
  BY <1>1, <1>3 DEF Begins
<1>4. PICK p \in Seq(Nat), q \in Seq(Nat) : p = ShotsOf(log, evs) /\ q = ShotsOf(more, later)
  <2>1. ShotsOf(log, evs) \in Seq(Nat)
    BY ShotsAre
  <2>2. ShotsOf(more, later) \in Seq(Nat)
    BY ShotsAre
  <2>3. QED BY <2>1, <2>2
<1>5. Rising(p) /\ Rising(q)
  <2>1. Rising(p)
    BY <1>4, ShotsAre
  <2>2. Rising(q)
    BY <1>4, ShotsAre
  <2>3. QED BY <2>1, <2>2
<1>6. \A n : n \in ToSet(p) <=> FrameIn(log, n) /\ evs[n].kind \in {"message", "call", "part"}
  <2>1. \A n : n \in ToSet(p) <=> Appears(log, evs, n)
    BY <1>4, ShotsAre
  <2>2. ASSUME NEW n, FrameIn(log, n) PROVE \A k : FrameIn(log, k) => evs[k].of # n
    <3>1. n # 0
      BY <1>1, <2>2
    <3>2. QED BY <1>3, <3>1
  <2>3. QED BY <2>1, <2>2 DEF Appears
<1>7. \A n : n \in ToSet(q) <=> FrameIn(more, n) /\ later[n].kind \in {"message", "call", "part"}
  <2>1. \A n : n \in ToSet(q) <=> Appears(more, later, n)
    BY <1>4, ShotsAre
  <2>2. ASSUME NEW n, FrameIn(more, n) PROVE \A k : FrameIn(more, k) => later[k].of # n
    <3>1. n # 0
      BY <1>2, <2>2
    <3>2. QED BY <1>2, <3>1
  <2>3. QED BY <2>1, <2>2 DEF Appears
<1>8. ToSet(p) \subseteq ToSet(q)
  <2>1. \A n : FrameIn(log, n) => FrameIn(more, n)
    BY FramesGrow
  <2>2. QED BY <1>3, <1>6, <1>7, <2>1
<1>9. \A y \in ToSet(q) \ ToSet(p) : \A x \in ToSet(p) : x < y
  <2>1. \A n : FrameIn(more, n) /\ ~FrameIn(log, n) => \A m : FrameIn(log, m) => m < n
    BY FramesGrow
  <2>2. \A y \in ToSet(q) \ ToSet(p) : FrameIn(more, y) /\ ~FrameIn(log, y)
    BY <1>3, <1>6, <1>7
  <2>3. QED BY <1>6, <2>1, <2>2
<1>10. Len(p) <= Len(q) /\ \A i \in 1 .. Len(p) : q[i] = p[i]
  BY <1>5, <1>8, <1>9, RisingExtends
<1>11. QED BY <1>4, <1>10 DEF Begins

-----------------------------------------------------------------------------
(* The logs, the cache and the pages.                                      *)

Event == [kind : {"message", "part", "none", "call"}, of : Nat]
Out == [shots : Seq(Nat), corrupt : Nat, limited : BOOLEAN]
Entry == [session : Logged, chars : Chars \cup {0}, size : Nat, out : Out]
Pages == [pc : {"idle", "stat", "read", "page", "done"}, session : Logged, limit : Nat,
          chars : Chars \cup {0}, tail : BOOLEAN, offset : Nat, got : SUBSET Nat,
          first : SUBSET Nat, since : SUBSET Nat, cut : Chars \cup {0}, whole : BOOLEAN, out : Out]

\* What a read of a log gives, and what is whole in it.
ReadOf(log, evs) ==
  [shots |-> ShotsOf(log, evs), corrupt |-> decodeFrames(readFilePrefix(log)).corrupt,
   limited |-> Len(log) > ReadCap]

WholeOf(log, evs) ==
  {n \in 1 .. Len(evs) : /\ evs[n].kind \in {"message", "call"}
                         /\ \E i \in 1 .. Len(readFilePrefix(log)) :
                              log[i].frame = n /\ log[i].last /\ log[i].at <= Retries}

\* A log holds the events written so far, each in a frame of its own, in order.
LogFits(log, evs, moved) ==
  /\ InOrder(log) /\ evs \in Seq(Event)
  /\ \A i \in 1 .. Len(log) : log[i].frame \in 1 .. Len(evs)
  /\ ~moved => \A n \in 1 .. Len(evs) : evs[n].of = 0

\* An entry as long as the log has what a read of it gives.
EntryFits(e, log, evs) ==
  e.size <= Len(log) /\ (e.size = Len(log) => e.out = ReadOf(log, evs))

\* A page has what was whole at its stat.
PageFits(p, whole) ==
  /\ p.since \cup p.first \subseteq whole
  /\ p.pc # "idle" => p.limit # 0
  /\ p.pc = "page" =>
       /\ p.since \subseteq ToSet(p.out.shots) /\ p.cut = p.chars
       /\ p.whole => p.since \subseteq p.got

\* Where no call takes the place of a part, the pages so far are the beginning of what
\* the log shows; or all that was whole at the first stat and comes after the rest.
GapFree(p, q) ==
  /\ p.offset <= Len(p.out.shots) /\ Len(p.out.shots) <= Len(q)
  /\ ~p.tail => p.got = {q[i] : i \in 1 .. p.offset}
  /\ p.tail /\ (p.offset # 0 \/ p.pc \in {"page", "done"}) =>
       \A i \in 1 .. Len(q) : i + p.offset > Len(p.out.shots) /\ q[i] \in p.first => q[i] \in p.got
  /\ p.pc = "page" /\ p.offset = 0 => Len(p.out.shots) = 0
  /\ p.pc = "done" => p.offset = Len(p.out.shots)

PagesInvariant ==
  /\ pieces = [s \in Logged |-> pieces[s]] /\ events = [s \in Logged |-> events[s]]
  /\ \A s \in Logged : LogFits(pieces[s], events[s], s \in partMoved)
  /\ decoded \in Seq(Entry)
  /\ \A i \in 1 .. Len(decoded) :
       EntryFits(decoded[i], pieces[decoded[i].session], events[decoded[i].session])
  /\ page \in [PageReader -> Pages]
  /\ \A r \in PageReader : LET s == page[r].session IN
       /\ PageFits(page[r], WholeOf(pieces[s], events[s]))
       /\ s \notin partMoved => GapFree(page[r], ShotsOf(pieces[s], events[s]))

-----------------------------------------------------------------------------
\* What a read gives.
LEMMA ReadOfIs ==
  ASSUME NEW log, NEW evs, InOrder(log)
  PROVE  ReadOf(log, evs) \in Out /\ ReadOf(log, evs).shots = ShotsOf(log, evs)
<1>1. ShotsOf(log, evs) \in Seq(Nat)
  BY ShotsAre
<1>2. decodeFrames(readFilePrefix(log)).corrupt \in Nat
  BY FramesAre
<1>3. (Len(log) > ReadCap) \in BOOLEAN
  OBVIOUS
<1>4. QED BY <1>1, <1>2, <1>3 DEF ReadOf, Out

\* What is whole in the part that is read is shown.
LEMMA WholeShown ==
  ASSUME NEW log, NEW evs, NEW moved, LogFits(log, evs, moved)
  PROVE  WholeOf(log, evs) \subseteq ToSet(ShotsOf(log, evs))
<1>1. PICK m \in Nat : m = AtMost(Len(log), ReadCap)
  <2>1. PICK k \in Nat, c \in Nat : k = Len(log) /\ c = ReadCap
    BY TranscriptAssumption DEF LogFits, InOrder
  <2>2. AtMost(k, c) \in Nat
    BY DEF AtMost
  <2>3. QED BY <2>1, <2>2
<1>2. InOrder(log)
  BY DEF LogFits
<1>3. Len(readFilePrefix(log)) = m /\ m <= Len(log)
  BY <1>1, <1>2, PrefixIs
<1>4. ASSUME NEW n \in WholeOf(log, evs) PROVE Appears(log, evs, n)
  <2>1. PICK i \in 1 .. m : log[i].frame = n /\ log[i].last /\ log[i].at <= Retries
    BY <1>3, <1>4 DEF WholeOf
  <2>2. i \in 1 .. Len(log) /\ Len(log) \in Nat /\ Retries \in Nat
    BY <1>2, <1>3, TranscriptAssumption DEF InOrder
  <2>3. log[i] \in Piece
    BY <1>2, <2>2 DEF InOrder
  <2>4. log[i].at \in Nat \ {0}
    BY <2>3 DEF Piece
  <2>5. PICK a \in Nat \ {0} : a = log[i].at
    BY <2>4
  <2>6. a <= i /\ log[i - a + 1].frame = n /\ log[i - a + 1].at = 1
    BY <1>2, <2>1, <2>2, <2>5 DEF InOrder
  <2>7. i - a + 1 \in 1 .. m /\ i - a + 1 <= i /\ i <= i - a + 1 + Retries - 1
    BY <2>1, <2>2, <2>5, <2>6
  <2>8. FrameIn(log, n)
    BY <1>1, <2>1, <2>6, <2>7 DEF FrameIn
  <2>9. evs[n].kind \in {"message", "call"}
    BY <1>4 DEF WholeOf
  <2>10. QED BY <2>8, <2>9 DEF Appears
<1>5. QED BY <1>2, <1>4, ShotsAre

\* What is whole stays whole.
LEMMA WholeGrows ==
  ASSUME NEW log, NEW more, InOrder(log), InOrder(more), Begins(more, log),
         NEW evs, NEW later, Begins(later, evs), Len(evs) \in Nat, Len(later) \in Nat
  PROVE  WholeOf(log, evs) \subseteq WholeOf(more, later)
<1>1. PICK k \in Nat, l \in Nat, c \in Nat : k = Len(log) /\ l = Len(more) /\ c = ReadCap
  BY TranscriptAssumption DEF InOrder
<1>2. AtMost(k, c) \in Nat /\ AtMost(l, c) \in Nat
  BY DEF AtMost
<1>3. PICK a \in Nat, b \in Nat : a = AtMost(k, c) /\ b = AtMost(l, c)
  BY <1>2
<1>4. k <= l /\ \A i \in 1 .. k : more[i] = log[i]
  BY <1>1 DEF Begins
<1>5. a <= k /\ a <= b
  BY <1>3, <1>4 DEF AtMost
<1>6. Len(readFilePrefix(log)) = a /\ Len(readFilePrefix(more)) = b
  <2>1. Len(readFilePrefix(log)) = a
    BY <1>1, <1>3, PrefixIs
  <2>2. Len(readFilePrefix(more)) = b
    BY <1>1, <1>3, PrefixIs
  <2>3. QED BY <2>1, <2>2
<1>7. ASSUME NEW n \in WholeOf(log, evs) PROVE n \in WholeOf(more, later)
  <2>1. /\ n \in 1 .. Len(evs) /\ evs[n].kind \in {"message", "call"}
        /\ \E i \in 1 .. a : log[i].frame = n /\ log[i].last /\ log[i].at <= Retries
    BY <1>6, <1>7 DEF WholeOf
  <2>2. n \in 1 .. Len(later) /\ later[n] = evs[n]
    BY <2>1 DEF Begins
  <2>3. PICK i \in 1 .. a : log[i].frame = n /\ log[i].last /\ log[i].at <= Retries
    BY <2>1
  <2>4. i \in 1 .. b /\ more[i] = log[i]
    BY <1>4, <1>5
  <2>5. QED BY <1>6, <2>1, <2>2, <2>3, <2>4 DEF WholeOf
<1>8. QED BY <1>7

\* A stretch of numbers has as many as it is long.
LEMMA Stretch ==
  ASSUME NEW a \in Nat, NEW b \in Nat
  PROVE  Cardinality(a + 1 .. b) \in Nat /\ (a <= b => Cardinality(a + 1 .. b) = b - a)
<1>1. Cardinality(a + 1 .. b) = IF a + 1 > b THEN 0 ELSE b - (a + 1) + 1
  BY FS_Interval
<1>2. QED BY <1>1

\* The window of a page.
LEMMA WindowIs ==
  ASSUME NEW total \in Nat, NEW p \in Pages, p.limit # 0
  PROVE  \E a, b \in Nat :
           /\ window(total, p.limit, p.offset, p.tail) = a + 1 .. b /\ b <= total
           /\ p.offset <= total =>
                /\ a <= b /\ (p.offset < total => a < b)
                /\ p.tail => b = total - p.offset
                /\ ~p.tail => a = p.offset
<1>0. PICK limit \in Nat \ {0}, offset \in Nat : limit = p.limit /\ offset = p.offset
  BY DEF Pages
<1>1. PICK most \in Nat \ {0} : most = AtMost(limit, MaxMessages)
  <2>1. MaxMessages \in Nat \ {0}
    BY TranscriptAssumption
  <2>2. AtMost(limit, MaxMessages) \in Nat \ {0}
    BY <2>1 DEF AtMost
  <2>3. QED BY <2>2
<1>2. CASE p.tail
  <2>0. \A x \in Int : AtLeast0(x) \in Nat
    BY DEF AtLeast0
  <2>1. PICK b \in Nat : b = AtLeast0(total - offset)
    BY <2>0
  <2>2. PICK a \in Nat : a = AtLeast0(b - most)
    BY <2>0
  <2>3. window(total, limit, offset, p.tail) = a + 1 .. b
    BY <1>1, <1>2, <2>1, <2>2 DEF window
  <2>4. b <= total /\ (offset <= total => b = total - offset)
    BY <2>1 DEF AtLeast0
  <2>5. a <= b /\ (b # 0 => a < b)
    BY <2>2 DEF AtLeast0
  <2>6. offset < total => b # 0
    BY <2>4
  <2>7. QED BY <1>0, <1>2, <2>3, <2>4, <2>5, <2>6
<1>3. CASE ~p.tail
  <2>1. PICK a \in Nat : a = AtMost(offset, total)
    BY DEF AtMost
  <2>2. PICK b \in Nat : b = AtMost(total, a + most)
    BY DEF AtMost
  <2>3. window(total, limit, offset, p.tail) = a + 1 .. b
    BY <1>1, <1>3, <2>1, <2>2 DEF window
  <2>4. b <= total /\ a <= b /\ (offset <= total => a = offset) /\ (offset < total => a < b)
    BY <2>1, <2>2 DEF AtMost
  <2>5. QED BY <1>0, <1>3, <2>3, <2>4
<1>4. QED BY <1>2, <1>3

\* A page that is given fits, if what it is given is what the log has.
LEMMA GivenFits ==
  ASSUME NEW log, NEW evs, NEW moved \in BOOLEAN, LogFits(log, evs, moved),
         NEW p \in Pages, p.limit # 0, p.since \cup p.first \subseteq WholeOf(log, evs),
         NEW out, out = ReadOf(log, evs), ~moved => GapFree(p, ShotsOf(log, evs))
  PROVE  LET g == Given(p, p.chars, out) IN
         /\ g \in Pages /\ g.session = p.session
         /\ PageFits(g, WholeOf(log, evs))
         /\ ~moved => GapFree(g, ShotsOf(log, evs))
<1>1. PICK q \in Seq(Nat) : q = ShotsOf(log, evs) /\ q = out.shots
  BY ReadOfIs DEF LogFits, Out
<1>2. out \in Out
  BY ReadOfIs DEF LogFits
<1>3. PICK total \in Nat : total = Len(q)
  OBVIOUS
<1>4. PICK limit \in Nat \ {0}, offset \in Nat : limit = p.limit /\ offset = p.offset
  BY DEF Pages
<1>5. PICK a \in Nat, b \in Nat :
        /\ window(total, p.limit, p.offset, p.tail) = a + 1 .. b /\ b <= total
        /\ offset <= total =>
             /\ a <= b /\ (offset < total => a < b)
             /\ p.tail => b = total - offset
             /\ ~p.tail => a = offset
  <2>1. \E a, b \in Nat :
           /\ window(total, p.limit, p.offset, p.tail) = a + 1 .. b /\ b <= total
           /\ p.offset <= total =>
                /\ a <= b /\ (p.offset < total => a < b)
                /\ p.tail => b = total - p.offset
                /\ ~p.tail => a = p.offset
    BY WindowIs
  <2>2. QED BY <1>4, <2>1
<1>6. PICK c \in Nat : c = Cardinality(a + 1 .. b) /\ (a <= b => c = b - a)
  BY Stretch
<1>7. PICK whole \in BOOLEAN : whole <=> (a + 1 .. b = 1 .. total /\ ~out.limited)
  OBVIOUS
<1>8. PICK got : got = p.got \cup {q[i] : i \in a + 1 .. b}
  OBVIOUS
<1>9. PICK g : g = Given(p, p.chars, out)
  OBVIOUS
<1>10. g = [p EXCEPT !.pc = "page", !.got = got, !.offset = offset + c, !.cut = p.chars,
                     !.out = out, !.whole = whole]
  <2>1. PICK w : w = window(Len(out.shots), p.limit, p.offset, p.tail)
    OBVIOUS
  <2>2. w = a + 1 .. b
    BY <1>1, <1>3, <1>4, <1>5, <2>1
  <2>3. p.got \cup {out.shots[i] : i \in w} = got
    BY <1>1, <1>8, <2>2
  <2>4. p.offset + Cardinality(w) = offset + c
    BY <1>4, <1>6, <2>2
  <2>5. (w = 1 .. Len(out.shots) /\ ~out.limited) = whole
    BY <1>1, <1>3, <1>7, <2>2
  <2>6. QED BY <1>9, <2>1, <2>3, <2>4, <2>5 DEF Given
<1>11. \A i \in a + 1 .. b : i \in 1 .. total /\ q[i] \in Nat
  BY <1>3, <1>5
<1>12. got \in SUBSET Nat
  <2>1. p.got \in SUBSET Nat
    BY DEF Pages
  <2>2. QED BY <1>8, <1>11, <2>1
<1>13. g \in Pages
  <2>1. offset + c \in Nat
    OBVIOUS
  <2>2. QED BY <1>2, <1>10, <1>12, <2>1 DEF Pages
<1>14. /\ g.pc = "page" /\ g.got = got /\ g.offset = offset + c /\ g.cut = p.chars /\ g.out = out
       /\ g.whole = whole /\ g.session = p.session /\ g.limit = p.limit /\ g.tail = p.tail
       /\ g.first = p.first /\ g.since = p.since /\ g.chars = p.chars
  BY <1>4, <1>10 DEF Pages
<1>15. ToSet(q) = {q[i] : i \in 1 .. total}
  BY <1>3, ToSetIs
<1>16. p.since \subseteq ToSet(q)
  BY <1>1, WholeShown
<1>17. whole => p.since \subseteq got
  <2>1. whole => {q[i] : i \in a + 1 .. b} = ToSet(q)
    BY <1>7, <1>15
  <2>2. QED BY <1>8, <1>16, <2>1
<1>18. PageFits(g, WholeOf(log, evs))
  BY <1>1, <1>14, <1>16, <1>17 DEF PageFits
<1>19. ASSUME ~moved PROVE GapFree(g, q)
  <2>1. GapFree(p, q)
    BY <1>1, <1>19
  <2>2. PICK old \in Nat : old = Len(p.out.shots)
    <3>1. p.out \in Out
      BY DEF Pages
    <3>2. p.out.shots \in Seq(Nat)
      BY <3>1 DEF Out
    <3>3. QED BY <3>2
  <2>3. offset <= old /\ old <= total
    BY <1>3, <1>4, <2>1, <2>2 DEF GapFree
  <2>4. a <= b /\ c = b - a /\ (offset < total => a < b) /\ (p.tail => b = total - offset)
        /\ (~p.tail => a = offset)
    BY <1>5, <1>6, <2>3
  <2>5. offset + c <= total /\ (offset + c = 0 => total = 0)
    <3>1. b <= total /\ (a < b => c # 0)
      BY <1>5, <2>4
    <3>2. offset + c <= total
      <4>1. offset + c = total - a \/ offset + c = b
        BY <2>4
      <4>2. QED BY <3>1, <4>1
    <3>3. ASSUME offset + c = 0 PROVE total = 0
      <4>1. c = 0 /\ offset = 0
        BY <3>3
      <4>2. ~(offset < total)
        BY <2>4, <3>1, <4>1
      <4>3. QED BY <4>1, <4>2
    <3>4. QED BY <3>2, <3>3
  <2>6. ASSUME ~p.tail PROVE got = {q[i] : i \in 1 .. offset + c}
    <3>1. a = offset /\ b = offset + c
      BY <2>4, <2>6
    <3>2. p.got = {q[i] : i \in 1 .. a}
      BY <1>4, <2>1, <2>6, <3>1 DEF GapFree
    <3>3. \A i : i \in 1 .. b <=> i \in 1 .. a \/ i \in a + 1 .. b
      BY <2>4
    <3>4. QED BY <1>8, <3>1, <3>2, <3>3
  <2>7. ASSUME p.tail, NEW i \in 1 .. total, i + (offset + c) > total, q[i] \in p.first
        PROVE  q[i] \in got
    <3>1. b = total - offset /\ i > a
      BY <2>4, <2>7
    <3>2. CASE i <= b
      <4>1. i \in a + 1 .. b
        BY <3>1, <3>2
      <4>2. QED BY <1>8, <4>1
    <3>3. CASE i > b
      <4>1. offset # 0 /\ i + offset > old
        BY <2>3, <3>1, <3>3
      <4>2. q[i] \in p.got
        BY <1>3, <1>4, <2>1, <2>2, <2>7, <4>1 DEF GapFree
      <4>3. QED BY <1>8, <4>2
    <3>4. QED BY <3>2, <3>3
  <2>8. Len(g.out.shots) = total
    BY <1>1, <1>3, <1>14
  <2>9. QED BY <1>3, <1>14, <2>5, <2>6, <2>7, <2>8 DEF GapFree
<1>20. QED BY <1>1, <1>9, <1>13, <1>14, <1>18, <1>19

\* What has been received of a log stays without a gap when the log is written on.
LEMMA GapFreeStays ==
  ASSUME NEW p \in Pages, NEW q \in Seq(Nat), NEW more \in Seq(Nat), Rising(more), Begins(more, q),
         p.first \subseteq ToSet(q), GapFree(p, q)
  PROVE  GapFree(p, more)
<1>1. PICK n \in Nat, m \in Nat, old \in Nat, offset \in Nat :
        n = Len(q) /\ m = Len(more) /\ old = Len(p.out.shots) /\ offset = p.offset
  <2>1. p.out \in Out /\ p.offset \in Nat
    BY DEF Pages
  <2>2. p.out.shots \in Seq(Nat)
    BY <2>1 DEF Out
  <2>3. QED BY <2>1, <2>2
<1>2. n <= m /\ \A i \in 1 .. n : more[i] = q[i]
  BY <1>1 DEF Begins
<1>3. offset <= old /\ old <= n
  BY <1>1 DEF GapFree
<1>4. ASSUME ~p.tail PROVE p.got = {more[i] : i \in 1 .. offset}
  <2>1. p.got = {q[i] : i \in 1 .. offset}
    BY <1>1, <1>4 DEF GapFree
  <2>2. \A i \in 1 .. offset : more[i] = q[i]
    BY <1>2, <1>3
  <2>3. QED BY <2>1, <2>2
<1>5. ASSUME p.tail, p.offset # 0 \/ p.pc \in {"page", "done"}, NEW i \in 1 .. m,
             i + offset > old, more[i] \in p.first
      PROVE  more[i] \in p.got
  <2>1. ToSet(q) = {q[j] : j \in 1 .. n}
    BY <1>1, ToSetIs
  <2>2. PICK j \in 1 .. n : more[i] = q[j]
    BY <1>5, <2>1
  <2>3. j \in 1 .. m /\ more[j] = more[i]
    <3>1. more[j] = q[j]
      BY <1>2, <2>2
    <3>2. j \in 1 .. m
      BY <1>2
    <3>3. QED BY <2>2, <3>1, <3>2
  <2>4. i = j
    BY <1>1, <2>3, RisingOnce
  <2>5. q[i] \in p.first /\ i \in 1 .. n /\ q[i] = more[i]
    BY <1>5, <2>2, <2>4
  <2>6. QED BY <1>1, <1>5, <2>5 DEF GapFree
<1>6. p.pc = "page" /\ p.offset = 0 => Len(p.out.shots) = 0
  BY DEF GapFree
<1>7. p.pc = "done" => p.offset = Len(p.out.shots)
  BY DEF GapFree
<1>8. offset <= old /\ old <= m
  BY <1>2, <1>3
<1>9. QED BY <1>1, <1>4, <1>5, <1>6, <1>7, <1>8 DEF GapFree

\* A frame that is begun is the newest of its log.
LEMMA AppendFits ==
  ASSUME NEW log, NEW evs, NEW moved \in BOOLEAN, LogFits(log, evs, moved), NEW event \in Event,
         NEW last \in BOOLEAN, NEW n, n = Len(evs) + 1, NEW after \in BOOLEAN,
         ~after => ~moved /\ event.of = 0
  PROVE  LET more == Append(log, [frame |-> n, at |-> 1, last |-> last])
             later == Append(evs, event)
         IN LogFits(more, later, after) /\ Begins(more, log) /\ Begins(later, evs)
            /\ Len(more) = Len(log) + 1
<1>1. log \in Seq(Piece) /\ evs \in Seq(Event)
  BY DEF LogFits, InOrder
<1>2. PICK k \in Nat, m \in Nat : k = Len(log) /\ m = Len(evs)
  BY <1>1
<1>3. PICK piece : piece = [frame |-> n, at |-> 1, last |-> last]
  OBVIOUS
<1>4. piece \in Piece /\ piece.frame = n /\ piece.at = 1 /\ n = m + 1
  BY <1>2, <1>3 DEF Piece
<1>5. PICK more : more = Append(log, piece)
  OBVIOUS
<1>6. PICK later : later = Append(evs, event)
  OBVIOUS
<1>7. /\ more \in Seq(Piece) /\ Len(more) = k + 1
      /\ \A i \in 1 .. k : more[i] = log[i]
      /\ more[k + 1] = piece
  BY <1>1, <1>2, <1>4, <1>5, AppendProperties
<1>8. /\ later \in Seq(Event) /\ Len(later) = m + 1
      /\ \A i \in 1 .. m : later[i] = evs[i]
      /\ later[m + 1] = event
  BY <1>1, <1>2, <1>6, AppendProperties
<1>9. \A i \in 1 .. k : log[i].frame \in 1 .. m /\ log[i].at \in Nat \ {0}
  <2>1. \A i \in 1 .. k : log[i] \in Piece
    BY <1>1, <1>2
  <2>2. QED BY <1>2, <2>1 DEF LogFits, Piece
<1>10. ASSUME NEW i \in 1 .. k + 1, NEW j \in 1 .. k + 1, i < j
       PROVE  /\ more[i].frame <= more[j].frame
              /\ more[i].frame = more[j].frame => more[j].at = more[i].at + (j - i)
  <2>1. i \in 1 .. k /\ more[i] = log[i]
    BY <1>7, <1>10
  <2>2. CASE j \in 1 .. k
    BY <1>2, <1>7, <1>10, <2>1, <2>2 DEF LogFits, InOrder
  <2>3. CASE j = k + 1
    BY <1>4, <1>7, <1>9, <2>1, <2>3
  <2>4. QED BY <2>2, <2>3
<1>11. ASSUME NEW i \in 1 .. k + 1
       PROVE  /\ more[i].at <= i
              /\ more[i - more[i].at + 1].frame = more[i].frame
              /\ more[i - more[i].at + 1].at = 1
  <2>1. CASE i \in 1 .. k
    <3>1. /\ log[i].at <= i
          /\ log[i - log[i].at + 1].frame = log[i].frame /\ log[i - log[i].at + 1].at = 1
      BY <1>2, <2>1 DEF LogFits, InOrder
    <3>2. i - log[i].at + 1 \in 1 .. k
      BY <1>9, <2>1, <3>1
    <3>3. QED BY <1>7, <2>1, <3>1, <3>2
  <2>2. CASE i = k + 1
    <3>1. i - 1 + 1 = i
      OBVIOUS
    <3>2. QED BY <1>4, <1>7, <2>2, <3>1
  <2>3. QED BY <2>1, <2>2
<1>12. InOrder(more)
  BY <1>7, <1>10, <1>11 DEF InOrder
<1>13. \A i \in 1 .. k + 1 : more[i].frame \in 1 .. m + 1
  <2>1. \A i \in 1 .. k : more[i].frame \in 1 .. m + 1
    BY <1>7, <1>9
  <2>2. more[k + 1].frame \in 1 .. m + 1
    BY <1>4, <1>7
  <2>3. QED BY <2>1, <2>2
<1>14. ASSUME ~after, NEW i \in 1 .. m + 1 PROVE later[i].of = 0
  <2>1. CASE i \in 1 .. m
    BY <1>2, <1>8, <1>14, <2>1 DEF LogFits
  <2>2. CASE i = m + 1
    BY <1>8, <1>14, <2>2
  <2>3. QED BY <2>1, <2>2
<1>15. LogFits(more, later, after)
  BY <1>7, <1>8, <1>12, <1>13, <1>14 DEF LogFits
<1>16. Begins(more, log)
  BY <1>2, <1>7 DEF Begins
<1>17. Begins(later, evs)
  BY <1>2, <1>8 DEF Begins
<1>18. QED BY <1>2, <1>3, <1>5, <1>6, <1>7, <1>15, <1>16, <1>17

\* So is one that is written on.
LEMMA AppendMoreFits ==
  ASSUME NEW log, NEW evs, NEW moved \in BOOLEAN, LogFits(log, evs, moved), log # <<>>,
         NEW last \in BOOLEAN, NEW p, p = Last(log)
  PROVE  LET more == Append(log, [p EXCEPT !.at = @ + 1, !.last = last])
         IN LogFits(more, evs, moved) /\ Begins(more, log) /\ Len(more) = Len(log) + 1
<1>1. log \in Seq(Piece) /\ evs \in Seq(Event)
  BY DEF LogFits, InOrder
<1>2. PICK k \in Nat, m \in Nat : k = Len(log) /\ m = Len(evs)
  BY <1>1
<1>3. k # 0 /\ p = log[k]
  <2>1. k # 0
    BY <1>1, <1>2
  <2>2. QED BY <1>2, <2>1 DEF Last
<1>4. PICK piece : piece = [p EXCEPT !.at = @ + 1, !.last = last]
  OBVIOUS
<1>5. p \in Piece
  BY <1>1, <1>2, <1>3
<1>6. /\ piece \in Piece /\ piece.frame = p.frame /\ piece.at = p.at + 1
      /\ p.at \in Nat \ {0} /\ p.frame \in Nat
  <2>1. p = [frame |-> p.frame, at |-> p.at, last |-> p.last]
    BY <1>5 DEF Piece
  <2>2. p.at \in Nat \ {0} /\ p.frame \in Nat \ {0}
    BY <1>5 DEF Piece
  <2>3. piece = [frame |-> p.frame, at |-> p.at + 1, last |-> last]
    BY <1>4, <2>1
  <2>4. p.at + 1 \in Nat \ {0}
    BY <2>2
  <2>5. QED BY <2>2, <2>3, <2>4 DEF Piece
<1>7. PICK more : more = Append(log, piece)
  OBVIOUS
<1>8. /\ more \in Seq(Piece) /\ Len(more) = k + 1
      /\ \A i \in 1 .. k : more[i] = log[i]
      /\ more[k + 1] = piece
  BY <1>1, <1>2, <1>6, <1>7, AppendProperties
<1>9. \A i \in 1 .. k : log[i].frame \in 1 .. m /\ log[i].at \in Nat \ {0}
  <2>1. \A i \in 1 .. k : log[i] \in Piece
    BY <1>1, <1>2
  <2>2. QED BY <1>2, <2>1 DEF LogFits, Piece
<1>10. ASSUME NEW i \in 1 .. k + 1, NEW j \in 1 .. k + 1, i < j
       PROVE  /\ more[i].frame <= more[j].frame
              /\ more[i].frame = more[j].frame => more[j].at = more[i].at + (j - i)
  <2>1. i \in 1 .. k /\ more[i] = log[i]
    BY <1>8, <1>10
  <2>2. CASE j \in 1 .. k
    BY <1>2, <1>8, <1>10, <2>1, <2>2 DEF LogFits, InOrder
  <2>3. CASE j = k + 1
    <3>1. more[j].frame = p.frame /\ more[j].at = p.at + 1
      BY <1>6, <1>8, <2>3
    <3>2. CASE i = k
      BY <1>3, <1>6, <2>1, <2>3, <3>1, <3>2
    <3>3. CASE i < k
      <4>1. k \in 1 .. k
        BY <1>3
      <4>2. /\ log[i].frame <= p.frame
            /\ log[i].frame = p.frame => p.at = log[i].at + (k - i)
        <5>1. InOrder(log)
          BY DEF LogFits
        <5>2. /\ log[i].frame <= log[k].frame
              /\ log[i].frame = log[k].frame => log[k].at = log[i].at + (k - i)
          BY <1>2, <2>1, <3>3, <4>1, <5>1 DEF InOrder
        <5>3. QED BY <1>3, <5>2
      <4>3. PICK x \in Nat, f \in Nat, y \in Nat, g \in Nat :
              x = log[i].at /\ f = log[i].frame /\ y = p.at /\ g = p.frame
        BY <1>6, <1>9, <2>1
      <4>4. f <= g /\ (f = g => y + 1 = x + (j - i))
        BY <2>3, <4>2, <4>3
      <4>5. QED BY <2>1, <3>1, <4>3, <4>4
    <3>4. QED BY <2>1, <3>2, <3>3
  <2>4. QED BY <2>2, <2>3
<1>11. ASSUME NEW i \in 1 .. k + 1
       PROVE  /\ more[i].at <= i
              /\ more[i - more[i].at + 1].frame = more[i].frame
              /\ more[i - more[i].at + 1].at = 1
  <2>0. ASSUME NEW x \in 1 .. k
        PROVE  /\ log[x].at <= x /\ x - log[x].at + 1 \in 1 .. k
               /\ log[x - log[x].at + 1].frame = log[x].frame /\ log[x - log[x].at + 1].at = 1
    <3>1. /\ log[x].at <= x
          /\ log[x - log[x].at + 1].frame = log[x].frame /\ log[x - log[x].at + 1].at = 1
      BY <1>2 DEF LogFits, InOrder
    <3>2. x - log[x].at + 1 \in 1 .. k
      BY <1>9, <3>1
    <3>3. QED BY <3>1, <3>2
  <2>1. CASE i \in 1 .. k
    BY <1>8, <2>0, <2>1
  <2>2. CASE i = k + 1
    <3>1. k \in 1 .. k
      BY <1>3
    <3>2. p.at <= k /\ k - p.at + 1 \in 1 .. k
          /\ log[k - p.at + 1].frame = p.frame /\ log[k - p.at + 1].at = 1
      BY <1>3, <2>0, <3>1
    <3>3. i - piece.at + 1 = k - p.at + 1 /\ piece.at <= i
      BY <1>6, <2>2, <3>2
    <3>4. more[k - p.at + 1] = log[k - p.at + 1] /\ more[i] = piece
      BY <1>8, <2>2, <3>2
    <3>5. QED BY <1>6, <3>2, <3>3, <3>4
  <2>3. QED BY <2>1, <2>2
<1>12. InOrder(more)
  BY <1>8, <1>10, <1>11 DEF InOrder
<1>13. \A i \in 1 .. k + 1 : more[i].frame \in 1 .. m
  <2>1. \A i \in 1 .. k : more[i].frame \in 1 .. m
    BY <1>8, <1>9
  <2>2. more[k + 1].frame \in 1 .. m
    BY <1>3, <1>6, <1>8, <1>9
  <2>3. QED BY <2>1, <2>2
<1>14. LogFits(more, evs, moved)
  BY <1>2, <1>8, <1>12, <1>13 DEF LogFits
<1>15. Begins(more, log)
  BY <1>2, <1>8 DEF Begins
<1>16. QED BY <1>2, <1>4, <1>7, <1>8, <1>14, <1>15

\* What is written to a log leaves the cache and the pages right.
LEMMA GrowKeeps ==
  ASSUME PagesInvariant, NEW s \in Logged, NEW more, NEW later, NEW moved,
         pieces' = [pieces EXCEPT ![s] = more], events' = [events EXCEPT ![s] = later],
         partMoved' = moved, partMoved \subseteq moved, \A t \in moved : t \in partMoved \/ t = s,
         LogFits(more, later, s \in moved), Begins(more, pieces[s]), Begins(later, events[s]),
         Len(more) = Len(pieces[s]) + 1, UNCHANGED <<decoded, page>>
  PROVE  PagesInvariant'
<1>1. /\ pieces' = [t \in Logged |-> pieces'[t]] /\ events' = [t \in Logged |-> events'[t]]
      /\ \A t \in Logged : t # s => pieces'[t] = pieces[t] /\ events'[t] = events[t]
      /\ pieces'[s] = more /\ events'[s] = later
  BY DEF PagesInvariant
<1>2. \A t \in Logged : LogFits(pieces[t], events[t], t \in partMoved)
  BY DEF PagesInvariant
<1>3. ASSUME NEW t \in Logged PROVE LogFits(pieces'[t], events'[t], t \in partMoved')
  <2>1. CASE t = s
    BY <1>1, <2>1
  <2>2. CASE t # s
    <3>1. t \in moved <=> t \in partMoved
      BY <2>2
    <3>2. QED BY <1>1, <1>2, <2>2, <3>1 DEF LogFits
  <2>3. QED BY <2>1, <2>2
<1>4. decoded' \in Seq(Entry)
  BY DEF PagesInvariant
<1>5. ASSUME NEW i \in 1 .. Len(decoded')
      PROVE  EntryFits(decoded'[i], pieces'[decoded'[i].session], events'[decoded'[i].session])
  <2>1. PICK e \in Entry : e = decoded[i]
    BY DEF PagesInvariant
  <2>2. EntryFits(e, pieces[e.session], events[e.session])
    BY <2>1 DEF PagesInvariant
  <2>3. e.session \in Logged /\ e.size \in Nat
    BY DEF Entry
  <2>4. CASE e.session = s
    <3>1. e.size <= Len(pieces[s]) /\ Len(pieces[s]) \in Nat
      BY <1>2, <2>2, <2>4 DEF EntryFits, LogFits, InOrder
    <3>2. e.size <= Len(more) /\ e.size # Len(more)
      BY <2>3, <3>1
    <3>3. QED BY <1>1, <2>1, <2>4, <3>2 DEF EntryFits
  <2>5. CASE e.session # s
    BY <1>1, <2>1, <2>2, <2>3, <2>5
  <2>6. QED BY <2>4, <2>5
<1>6. page' \in [PageReader -> Pages]
  BY DEF PagesInvariant
<1>7. ASSUME NEW r \in PageReader
      PROVE  LET t == page'[r].session IN
             /\ PageFits(page'[r], WholeOf(pieces'[t], events'[t]))
             /\ t \notin partMoved' => GapFree(page'[r], ShotsOf(pieces'[t], events'[t]))
  <2>1. PICK p \in Pages : p = page[r] /\ p = page'[r]
    BY DEF PagesInvariant
  <2>2. PICK t \in Logged : t = p.session
    BY DEF Pages
  <2>3. /\ PageFits(p, WholeOf(pieces[t], events[t]))
        /\ t \notin partMoved => GapFree(p, ShotsOf(pieces[t], events[t]))
    BY <2>1, <2>2 DEF PagesInvariant
  <2>4. CASE t # s
    BY <1>1, <2>1, <2>2, <2>3, <2>4
  <2>5. CASE t = s
    <3>1. PICK log, evs : log = pieces[s] /\ evs = events[s]
      OBVIOUS
    <3>2. /\ LogFits(log, evs, s \in partMoved) /\ InOrder(log) /\ InOrder(more)
          /\ Begins(more, log) /\ Begins(later, evs) /\ Len(evs) \in Nat /\ Len(later) \in Nat
          /\ \A i \in 1 .. Len(log) : log[i].frame \in 1 .. Len(evs)
          /\ \A i \in 1 .. Len(more) : more[i].frame \in 1 .. Len(later)
      BY <1>2, <3>1 DEF LogFits
    <3>3. WholeOf(log, evs) \subseteq WholeOf(more, later)
      BY <3>2, WholeGrows
    <3>4. PageFits(p, WholeOf(more, later))
      BY <2>3, <2>5, <3>1, <3>3 DEF PageFits
    <3>5. ASSUME s \notin moved PROVE GapFree(p, ShotsOf(more, later))
      <4>1. \A n \in 1 .. Len(later) : later[n].of = 0
        BY <3>5 DEF LogFits
      <4>2. Begins(ShotsOf(more, later), ShotsOf(log, evs))
        BY <3>2, <4>1, ShotsGrow
      <4>3. GapFree(p, ShotsOf(log, evs))
        BY <2>3, <2>5, <3>1, <3>5
      <4>4. PICK q \in Seq(Nat) : q = ShotsOf(log, evs)
        BY <3>2, ShotsAre
      <4>5. PICK new \in Seq(Nat) : new = ShotsOf(more, later) /\ Rising(new)
        BY <3>2, ShotsAre
      <4>6. p.first \subseteq ToSet(q)
        <5>1. WholeOf(log, evs) \subseteq ToSet(q)
          BY <3>2, <4>4, WholeShown
        <5>2. p.first \subseteq WholeOf(log, evs)
          BY <2>3, <2>5, <3>1 DEF PageFits
        <5>3. QED BY <5>1, <5>2
      <4>7. GapFree(p, new)
        BY <4>2, <4>3, <4>4, <4>5, <4>6, GapFreeStays
      <4>8. QED BY <4>5, <4>7
    <3>6. QED BY <1>1, <2>1, <2>2, <2>5, <3>4, <3>5
  <2>6. QED BY <2>4, <2>5
<1>8. QED BY <1>1, <1>3, <1>4, <1>5, <1>6, <1>7 DEF PagesInvariant

\* The host writes the first piece of a frame.
LEMMA AppendKeeps ==
  ASSUME PagesInvariant, NEW s \in Logged, NEW event \in Event, NEW last \in BOOLEAN,
         append(s, event, last)
  PROVE  PagesInvariant'
<1>1. PICK log, evs : log = pieces[s] /\ evs = events[s]
  OBVIOUS
<1>2. PICK n : n = Len(evs) + 1
  OBVIOUS
<1>3. PICK more : more = Append(log, [frame |-> n, at |-> 1, last |-> last])
  OBVIOUS
<1>4. PICK later : later = Append(evs, event)
  OBVIOUS
<1>5. PICK moved : moved = IF event.of = 0 THEN partMoved ELSE partMoved \cup {s}
  OBVIOUS
<1>6. /\ pieces' = [pieces EXCEPT ![s] = more] /\ events' = [events EXCEPT ![s] = later]
      /\ partMoved' = moved /\ UNCHANGED <<decoded, page>>
  BY <1>1, <1>2, <1>3, <1>4, <1>5 DEF append
<1>7. /\ partMoved \subseteq moved /\ \A t \in moved : t \in partMoved \/ t = s
      /\ s \notin moved => s \notin partMoved /\ event.of = 0
  BY <1>5
<1>8. LogFits(log, evs, s \in partMoved)
  BY <1>1 DEF PagesInvariant
<1>9. PICK before \in BOOLEAN, after \in BOOLEAN :
        (before <=> s \in partMoved) /\ (after <=> s \in moved)
  OBVIOUS
<1>10. LogFits(log, evs, before) /\ (~after => ~before /\ event.of = 0)
  BY <1>7, <1>8, <1>9 DEF LogFits
<1>11. /\ LogFits(more, later, after) /\ Begins(more, log) /\ Begins(later, evs)
       /\ Len(more) = Len(log) + 1
  BY <1>2, <1>3, <1>4, <1>10, AppendFits
<1>12. LogFits(more, later, s \in moved)
  BY <1>9, <1>11 DEF LogFits
<1>13. QED BY <1>1, <1>6, <1>7, <1>11, <1>12, GrowKeeps

\* The host writes another piece of it.
LEMMA AppendMoreKeeps ==
  ASSUME PagesInvariant, NEW s \in Logged, NEW last \in BOOLEAN, appendMore(s, last)
  PROVE  PagesInvariant'
<1>1. PICK log, evs : log = pieces[s] /\ evs = events[s]
  OBVIOUS
<1>2. PICK p : p = Last(log)
  OBVIOUS
<1>3. PICK more : more = Append(log, [p EXCEPT !.at = @ + 1, !.last = last])
  OBVIOUS
<1>4. /\ log # <<>> /\ pieces' = [pieces EXCEPT ![s] = more] /\ events' = events
      /\ partMoved' = partMoved /\ UNCHANGED <<decoded, page>>
  BY <1>1, <1>2, <1>3 DEF appendMore
<1>5. events' = [events EXCEPT ![s] = evs]
  BY <1>1, <1>4 DEF PagesInvariant
<1>6. PICK before \in BOOLEAN : before <=> s \in partMoved
  OBVIOUS
<1>7. LogFits(log, evs, before)
  <2>1. LogFits(log, evs, s \in partMoved)
    BY <1>1 DEF PagesInvariant
  <2>2. QED BY <1>6, <2>1 DEF LogFits
<1>8. LogFits(more, evs, before) /\ Begins(more, log) /\ Len(more) = Len(log) + 1
  BY <1>2, <1>3, <1>4, <1>7, AppendMoreFits
<1>9. LogFits(more, evs, s \in partMoved)
  BY <1>6, <1>8 DEF LogFits
<1>10. Begins(evs, events[s])
  BY <1>1, <1>7 DEF Begins, LogFits
<1>11. PICK moved : moved = partMoved
  OBVIOUS
<1>12. /\ partMoved' = moved /\ partMoved \subseteq moved
       /\ \A t \in moved : t \in partMoved \/ t = s
       /\ LogFits(more, evs, s \in moved)
  BY <1>4, <1>9, <1>11
<1>13. QED BY <1>1, <1>4, <1>5, <1>8, <1>10, <1>12, GrowKeeps

\* A step that gives one request a page that is right, and leaves the cache right.
LEMMA PageKeeps ==
  ASSUME PagesInvariant, NEW r \in PageReader, NEW p \in Pages, page' = [page EXCEPT ![r] = p],
         PageFits(p, WholeOf(pieces[p.session], events[p.session])),
         p.session \notin partMoved =>
           GapFree(p, ShotsOf(pieces[p.session], events[p.session])),
         decoded' \in Seq(Entry),
         \A i \in 1 .. Len(decoded') :
           EntryFits(decoded'[i], pieces[decoded'[i].session], events[decoded'[i].session]),
         UNCHANGED <<pieces, events, partMoved>>
  PROVE  PagesInvariant'
<1>1. /\ pieces' = [s \in Logged |-> pieces'[s]] /\ events' = [s \in Logged |-> events'[s]]
      /\ \A s \in Logged : LogFits(pieces'[s], events'[s], s \in partMoved')
  BY DEF PagesInvariant
<1>2. \A i \in 1 .. Len(decoded') :
        EntryFits(decoded'[i], pieces'[decoded'[i].session], events'[decoded'[i].session])
  OBVIOUS
<1>3. page' \in [PageReader -> Pages] /\ page'[r] = p
      /\ \A t \in PageReader : t # r => page'[t] = page[t]
  BY DEF PagesInvariant
<1>4. ASSUME NEW t \in PageReader
      PROVE  LET s == page'[t].session IN
             /\ PageFits(page'[t], WholeOf(pieces'[s], events'[s]))
             /\ s \notin partMoved' => GapFree(page'[t], ShotsOf(pieces'[s], events'[s]))
  <2>1. CASE t = r
    BY <1>3, <2>1
  <2>2. CASE t # r
    BY <1>3, <2>2 DEF PagesInvariant
  <2>3. QED BY <2>1, <2>2
<1>5. QED BY <1>1, <1>2, <1>3, <1>4 DEF PagesInvariant

\* A request begins: it has received nothing.
LEMMA TranscriptKeeps ==
  ASSUME PagesInvariant, NEW r \in PageReader, NEW s \in Logged, NEW limit \in Limit,
         NEW chars \in Chars, NEW tail \in BOOLEAN, transcript(r, s, limit, chars, tail)
  PROVE  PagesInvariant'
<1>1. PICK p : p = [IdlePage EXCEPT
         !.pc = "stat", !.session = s, !.limit = limit, !.chars = chars, !.tail = tail]
  OBVIOUS
<1>2. page' = [page EXCEPT ![r] = p] /\ UNCHANGED <<pieces, events, decoded, partMoved>>
  BY <1>1 DEF transcript
<1>3. p = [pc |-> "stat", session |-> s, limit |-> limit, chars |-> chars, tail |-> tail,
           offset |-> 0, got |-> {}, first |-> {}, since |-> {}, cut |-> 0, whole |-> FALSE,
           out |-> Nothing]
  BY <1>1 DEF IdlePage
<1>4. limit \in Nat \ {0}
  BY TranscriptAssumption
<1>5. Nothing \in Out /\ Nothing.shots = <<>>
  BY DEF Nothing, Out
<1>6. p \in Pages
  BY <1>3, <1>4, <1>5 DEF Pages
<1>7. PageFits(p, WholeOf(pieces[p.session], events[p.session]))
  BY <1>3, <1>4 DEF PageFits
<1>8. PICK q \in Seq(Nat) : q = ShotsOf(pieces[s], events[s])
  BY ShotsAre DEF PagesInvariant, LogFits
<1>9. GapFree(p, q)
  <2>1. p.offset = 0 /\ Len(p.out.shots) = 0 /\ p.got = {} /\ p.pc = "stat"
    BY <1>3, <1>5
  <2>2. {q[i] : i \in 1 .. 0} = {}
    OBVIOUS
  <2>3. QED BY <2>1, <2>2 DEF GapFree
<1>10. p.session = s
  BY <1>3
<1>11. decoded' \in Seq(Entry)
       /\ \A i \in 1 .. Len(decoded') :
            EntryFits(decoded'[i], pieces[decoded'[i].session], events[decoded'[i].session])
  BY <1>2 DEF PagesInvariant
<1>12. QED BY <1>2, <1>6, <1>7, <1>8, <1>9, <1>10, <1>11, PageKeeps

\* A request goes on while its last page said that there is more.
LEMMA NextPageKeeps ==
  ASSUME PagesInvariant, NEW r \in PageReader, nextPage(r) PROVE PagesInvariant'
<1>1. PICK old \in Pages : old = page[r]
  BY DEF PagesInvariant
<1>2. PICK pc : pc = IF old.offset < Len(old.out.shots) THEN "stat" ELSE "done"
  OBVIOUS
<1>3. PICK p : p = [old EXCEPT !.pc = pc]
  OBVIOUS
<1>4. /\ old.pc = "page" /\ page' = [page EXCEPT ![r] = p]
      /\ UNCHANGED <<pieces, events, decoded, partMoved>>
  BY <1>1, <1>2, <1>3 DEF nextPage
<1>5. /\ p \in Pages /\ p.pc = pc /\ p.session = old.session /\ p.since = old.since
      /\ p.first = old.first /\ p.limit = old.limit /\ p.offset = old.offset /\ p.out = old.out
      /\ p.got = old.got /\ p.tail = old.tail
  BY <1>2, <1>3 DEF Pages
<1>6. PICK s \in Logged : s = old.session
  BY DEF Pages
<1>7. PageFits(p, WholeOf(pieces[s], events[s]))
  <2>1. PageFits(old, WholeOf(pieces[s], events[s]))
    BY <1>1, <1>6 DEF PagesInvariant
  <2>2. QED BY <1>2, <1>4, <1>5, <2>1 DEF PageFits
<1>8. ASSUME s \notin partMoved PROVE GapFree(p, ShotsOf(pieces[s], events[s]))
  <2>1. GapFree(old, ShotsOf(pieces[s], events[s]))
    BY <1>1, <1>6, <1>8 DEF PagesInvariant
  <2>2. PICK total \in Nat, offset \in Nat : total = Len(old.out.shots) /\ offset = old.offset
    <3>1. old.out \in Out /\ old.offset \in Nat
      BY DEF Pages
    <3>2. old.out.shots \in Seq(Nat)
      BY <3>1 DEF Out
    <3>3. QED BY <3>1, <3>2
  <2>3. offset <= total
    BY <2>1, <2>2 DEF GapFree
  <2>4. pc = "done" => offset = total
    BY <1>2, <2>2, <2>3
  <2>5. pc # "page" /\ (offset # 0 \/ pc = "done" => offset # 0 \/ old.pc = "page")
    BY <1>2, <1>4
  <2>6. QED BY <1>4, <1>5, <2>1, <2>2, <2>4, <2>5 DEF GapFree
<1>9. decoded' \in Seq(Entry)
      /\ \A i \in 1 .. Len(decoded') :
           EntryFits(decoded'[i], pieces[decoded'[i].session], events[decoded'[i].session])
  BY <1>4 DEF PagesInvariant
<1>10. QED BY <1>4, <1>5, <1>6, <1>7, <1>8, <1>9, PageKeeps

\* The stat: the page is given what the cache has of this size, or waits for the read.
LEMMA StatKeeps ==
  ASSUME PagesInvariant, NEW r \in PageReader, statLog(r) PROVE PagesInvariant'
<1>1. PICK old \in Pages : old = page[r]
  BY DEF PagesInvariant
<1>2. PICK s \in Logged : s = old.session
  BY DEF Pages
<1>3. PICK log, evs : log = pieces[s] /\ evs = events[s]
  OBVIOUS
<1>4. Whole(s) = WholeOf(log, evs)
  BY <1>3 DEF Whole, WholeOf
<1>5. LogFits(log, evs, s \in partMoved)
  BY <1>3 DEF PagesInvariant
<1>6. PICK whole \in SUBSET Nat : whole = WholeOf(log, evs)
  <2>1. PICK n \in Nat : n = Len(evs)
    BY <1>5 DEF LogFits
  <2>2. WholeOf(log, evs) \subseteq 1 .. n
    BY <2>1 DEF WholeOf
  <2>3. WholeOf(log, evs) \in SUBSET Nat
    BY <2>2
  <2>4. QED BY <2>3
<1>7. PICK first : first = IF old.offset = 0 THEN whole ELSE old.first
  OBVIOUS
<1>8. PICK p : p = [old EXCEPT !.pc = "read", !.since = whole, !.first = first]
  OBVIOUS
<1>9. PICK hit : hit = readTranscriptCache(s, p.chars)
  OBVIOUS
<1>10. /\ old.pc = "stat" /\ UNCHANGED <<pieces, events, partMoved>>
       /\ \/ /\ hit # <<>> /\ page' = [page EXCEPT ![r] = Given(p, hit[1].chars, hit[1].out)]
             /\ UNCHANGED decoded
          \/ /\ page' = [page EXCEPT ![r] = p] /\ decoded' = DropEntry(s)
  BY <1>1, <1>2, <1>4, <1>6, <1>7, <1>8, <1>9 DEF statLog
<1>11. PageFits(old, whole) /\ (s \notin partMoved => GapFree(old, ShotsOf(log, evs)))
  BY <1>1, <1>2, <1>3, <1>6 DEF PagesInvariant
<1>12. first \in SUBSET Nat
  BY <1>6, <1>7 DEF Pages
<1>13. /\ p \in Pages /\ p.pc = "read" /\ p.session = s /\ p.since = whole
       /\ p.first = first /\ p.limit = old.limit /\ p.offset = old.offset /\ p.out = old.out
       /\ p.got = old.got /\ p.tail = old.tail /\ p.chars = old.chars
  BY <1>2, <1>6, <1>8, <1>12 DEF Pages
<1>14. p.limit # 0 /\ p.since \cup p.first \subseteq whole
  BY <1>7, <1>10, <1>11, <1>13 DEF PageFits
<1>15. PageFits(p, whole)
  BY <1>13, <1>14 DEF PageFits
<1>16. ASSUME s \notin partMoved PROVE GapFree(p, ShotsOf(log, evs))
  <2>1. GapFree(old, ShotsOf(log, evs))
    BY <1>11, <1>16
  <2>2. p.pc = "read" /\ (p.offset # 0 => p.first = old.first)
    BY <1>7, <1>13
  <2>3. QED BY <1>13, <2>1, <2>2 DEF GapFree
<1>17. CASE hit # <<>> /\ page' = [page EXCEPT ![r] = Given(p, hit[1].chars, hit[1].out)]
            /\ UNCHANGED decoded
  <2>1. PICK S : /\ S = {e \in ToSet(decoded) :
                           e.session = s /\ e.chars = p.chars /\ e.size = Len(pieces[s])}
                 /\ hit = Filter(decoded, S)
    BY <1>9 DEF readTranscriptCache
  <2>2. decoded \in Seq(Entry)
    BY DEF PagesInvariant
  <2>3. hit \in Seq(Entry)
    BY <2>1, <2>2, FilterType
  <2>4. 1 \in 1 .. Len(hit)
    BY <1>17, <2>3
  <2>5. PICK e : e = hit[1]
    OBVIOUS
  <2>6. e \in S /\ \E i \in 1 .. Len(decoded) : e = decoded[i]
    <3>1. 1 \in 1 .. Len(Filter(decoded, S))
      BY <2>1, <2>4
    <3>2. /\ Filter(decoded, S)[1] \in S
          /\ \E i \in 1 .. Len(decoded) : Filter(decoded, S)[1] = decoded[i]
      BY <2>2, <3>1, FilterFrom
    <3>3. QED BY <2>1, <2>5, <3>2
  <2>7. e.session = s /\ e.chars = p.chars /\ e.size = Len(log)
    BY <1>3, <2>1, <2>6
  <2>8. e.out = ReadOf(log, evs)
    <3>1. EntryFits(e, pieces[e.session], events[e.session])
      BY <2>6 DEF PagesInvariant
    <3>2. QED BY <1>3, <2>7, <3>1 DEF EntryFits
  <2>9. PICK g : g = Given(p, p.chars, e.out)
    OBVIOUS
  <2>10. PICK moved \in BOOLEAN : moved <=> s \in partMoved
    OBVIOUS
  <2>11. g \in Pages /\ g.session = p.session /\ PageFits(g, WholeOf(log, evs))
         /\ (~moved => GapFree(g, ShotsOf(log, evs)))
    <3>1. LogFits(log, evs, moved) /\ (~moved => GapFree(p, ShotsOf(log, evs)))
      BY <1>5, <1>16, <2>10 DEF LogFits
    <3>2. QED BY <1>6, <1>13, <1>14, <2>8, <2>9, <3>1, GivenFits
  <2>12. page' = [page EXCEPT ![r] = g]
    BY <1>17, <2>5, <2>7, <2>9
  <2>13. decoded' \in Seq(Entry)
         /\ \A i \in 1 .. Len(decoded') :
              EntryFits(decoded'[i], pieces[decoded'[i].session], events[decoded'[i].session])
    BY <1>17 DEF PagesInvariant
  <2>14. QED BY <1>3, <1>10, <1>13, <2>10, <2>11, <2>12, <2>13, PageKeeps
<1>18. CASE page' = [page EXCEPT ![r] = p] /\ decoded' = DropEntry(s)
  <2>1. PICK S : decoded' = Filter(decoded, S)
    BY <1>18 DEF DropEntry
  <2>2. PICK kept : kept = decoded'
    OBVIOUS
  <2>3. decoded \in Seq(Entry) /\ kept = Filter(decoded, S)
    BY <2>1, <2>2 DEF PagesInvariant
  <2>4. kept \in Seq(Entry)
    BY <2>3, FilterType
  <2>5. ASSUME NEW i \in 1 .. Len(kept)
        PROVE  EntryFits(kept[i], pieces[kept[i].session], events[kept[i].session])
    <3>1. PICK j \in 1 .. Len(decoded) : kept[i] = decoded[j]
      BY <2>3, <2>5, FilterFrom
    <3>2. QED BY <3>1 DEF PagesInvariant
  <2>6. decoded' \in Seq(Entry)
        /\ \A i \in 1 .. Len(decoded') :
             EntryFits(decoded'[i], pieces[decoded'[i].session], events[decoded'[i].session])
    BY <2>2, <2>4, <2>5
  <2>7. QED BY <1>3, <1>6, <1>10, <1>13, <1>15, <1>16, <1>18, <2>6, PageKeeps
<1>19. QED BY <1>10, <1>17, <1>18

\* What is written to the cache is an entry it had, or the one that is written.
LEMMA WriteIs ==
  ASSUME decoded \in Seq(Entry), NEW s \in Logged, NEW chars \in Chars \cup {0}, NEW out \in Out,
         NEW size \in Nat, size = Len(pieces[s]), writeTranscriptCache(s, chars, out)
  PROVE  /\ decoded' \in Seq(Entry)
         /\ \A i \in 1 .. Len(decoded') :
              \/ decoded'[i] = [session |-> s, chars |-> chars, size |-> size, out |-> out]
              \/ \E j \in 1 .. Len(decoded) : decoded'[i] = decoded[j]
<1>1. PICK entry : entry = [session |-> s, chars |-> chars, size |-> size, out |-> out]
  OBVIOUS
<1>2. entry \in Entry
  BY <1>1 DEF Entry
<1>3. PICK room : room = IF Len(decoded) >= CacheSize THEN Tail(decoded) ELSE decoded
  OBVIOUS
<1>4. \/ decoded' = [i \in 1 .. Len(room) |-> IF room[i].session = s THEN entry ELSE room[i]]
      \/ decoded' = Append(room, entry)
  BY <1>1, <1>3 DEF writeTranscriptCache
<1>5. room \in Seq(Entry) /\ \A i \in 1 .. Len(room) : \E j \in 1 .. Len(decoded) : room[i] = decoded[j]
  <2>1. CASE Len(decoded) >= CacheSize
    <3>1. CacheSize \in Nat \ {0}
      BY TranscriptAssumption
    <3>2. decoded # <<>>
      BY <2>1, <3>1
    <3>3. PICK tail : tail = Tail(decoded)
      OBVIOUS
    <3>4. /\ tail \in Seq(Entry) /\ Len(tail) = Len(decoded) - 1
          /\ \A i \in 1 .. Len(tail) : tail[i] = decoded[i + 1]
      BY <3>2, <3>3, HeadTailProperties
    <3>5. \A i \in 1 .. Len(tail) : i + 1 \in 1 .. Len(decoded)
      BY <3>4
    <3>6. QED BY <1>3, <2>1, <3>3, <3>4, <3>5
  <2>2. CASE ~(Len(decoded) >= CacheSize)
    BY <1>3, <2>2
  <2>3. QED BY <2>1, <2>2
<1>6. PICK n \in Nat : n = Len(room)
  BY <1>5
<1>7. CASE decoded' = [i \in 1 .. Len(room) |-> IF room[i].session = s THEN entry ELSE room[i]]
  <2>1. PICK new : new = decoded'
    OBVIOUS
  <2>2. \A i \in 1 .. n : new[i] = entry \/ new[i] = room[i]
    BY <1>6, <1>7, <2>1
  <2>3. \A i \in 1 .. n : new[i] \in Entry
    BY <1>2, <1>5, <1>6, <2>2
  <2>4. new = [i \in 1 .. n |-> new[i]]
    BY <1>6, <1>7, <2>1
  <2>5. new \in Seq(Entry) /\ Len(new) = n
    BY <2>3, <2>4
  <2>6. QED BY <1>1, <1>5, <1>6, <2>1, <2>2, <2>5
<1>8. CASE decoded' = Append(room, entry)
  <2>1. PICK new : new = Append(room, entry)
    OBVIOUS
  <2>2. /\ new \in Seq(Entry) /\ Len(new) = n + 1
        /\ \A i \in 1 .. n : new[i] = room[i]
        /\ new[n + 1] = entry
    BY <1>2, <1>5, <1>6, <2>1, AppendProperties
  <2>3. \A i \in 1 .. n + 1 : i \in 1 .. n \/ i = n + 1
    OBVIOUS
  <2>4. QED BY <1>1, <1>5, <1>6, <1>8, <2>1, <2>2, <2>3
<1>9. QED BY <1>4, <1>7, <1>8

\* The read: what is given, and kept, is what the log has by now.
LEMMA ReadLogKeeps ==
  ASSUME PagesInvariant, NEW r \in PageReader, readLog(r) PROVE PagesInvariant'
<1>1. PICK p \in Pages : p = page[r]
  BY DEF PagesInvariant
<1>2. PICK s \in Logged : s = p.session
  BY DEF Pages
<1>3. PICK log, evs : log = pieces[s] /\ evs = events[s]
  OBVIOUS
<1>4. PICK out : out = ReadOf(log, evs)
  OBVIOUS
<1>5. Read(s) = out
  BY <1>3, <1>4 DEF Read, ReadOf, ShotsOf
<1>6. PICK moved \in BOOLEAN : moved <=> s \in partMoved
  OBVIOUS
<1>7. LogFits(log, evs, moved)
  <2>1. LogFits(log, evs, s \in partMoved)
    BY <1>3 DEF PagesInvariant
  <2>2. QED BY <1>6, <2>1 DEF LogFits
<1>8. /\ p.pc = "read" /\ page' = [page EXCEPT ![r] = Given(p, p.chars, out)]
      /\ writeTranscriptCache(s, p.chars, out) /\ UNCHANGED <<pieces, events, partMoved>>
  BY <1>1, <1>2, <1>5 DEF readLog
<1>9. PageFits(p, WholeOf(log, evs)) /\ (~moved => GapFree(p, ShotsOf(log, evs)))
  BY <1>1, <1>2, <1>3, <1>6 DEF PagesInvariant
<1>10. p.limit # 0 /\ p.since \cup p.first \subseteq WholeOf(log, evs)
  BY <1>8, <1>9 DEF PageFits
<1>11. PICK g : g = Given(p, p.chars, out)
  OBVIOUS
<1>12. g \in Pages /\ g.session = p.session /\ PageFits(g, WholeOf(log, evs))
       /\ (~moved => GapFree(g, ShotsOf(log, evs)))
  BY <1>4, <1>7, <1>9, <1>10, <1>11, GivenFits
<1>13. PICK size \in Nat : size = Len(pieces[s])
  BY <1>3, <1>7 DEF LogFits, InOrder
<1>14. out \in Out /\ p.chars \in Chars \cup {0} /\ decoded \in Seq(Entry)
  <2>1. out \in Out
    BY <1>4, <1>7, ReadOfIs DEF LogFits
  <2>2. p.chars \in Chars \cup {0}
    BY DEF Pages
  <2>3. QED BY <2>1, <2>2 DEF PagesInvariant
<1>15. PICK entry : entry = [session |-> s, chars |-> p.chars, size |-> size, out |-> out]
  OBVIOUS
<1>16. /\ decoded' \in Seq(Entry)
       /\ \A i \in 1 .. Len(decoded') :
            decoded'[i] = entry \/ \E j \in 1 .. Len(decoded) : decoded'[i] = decoded[j]
  BY <1>8, <1>13, <1>14, <1>15, WriteIs
<1>17. EntryFits(entry, log, evs) /\ entry.session = s
  BY <1>3, <1>4, <1>13, <1>15 DEF EntryFits
<1>18. ASSUME NEW i \in 1 .. Len(decoded')
       PROVE  EntryFits(decoded'[i], pieces[decoded'[i].session], events[decoded'[i].session])
  <2>1. PICK e : e = decoded'[i]
    OBVIOUS
  <2>2. CASE e = entry
    BY <1>3, <1>17, <2>1, <2>2
  <2>3. CASE \E j \in 1 .. Len(decoded) : e = decoded[j]
    BY <2>1, <2>3 DEF PagesInvariant
  <2>4. QED BY <1>16, <2>1, <2>2, <2>3
<1>19. QED BY <1>2, <1>3, <1>6, <1>8, <1>11, <1>12, <1>16, <1>18, PageKeeps

\* At first nothing is written and nothing is asked for.
LEMMA PagesInit == TranscriptInit => PagesInvariant
<1> SUFFICES ASSUME TranscriptInit PROVE PagesInvariant
  OBVIOUS
<1>1. /\ pieces = [s \in Logged |-> <<>>] /\ events = [s \in Logged |-> <<>>] /\ decoded = <<>>
      /\ page = [r \in PageReader |-> IdlePage] /\ partMoved = {}
  BY DEF TranscriptInit
<1>2. InOrder(<<>>)
  BY DEF InOrder
<1>3. LogFits(<<>>, <<>>, FALSE)
  BY <1>2 DEF LogFits
<1>4. PICK home \in Logged : home = CHOOSE s \in Logged : TRUE
  BY TranscriptAssumption
<1>5. Nothing \in Out /\ Nothing.shots = <<>>
  BY DEF Nothing, Out
<1>6. /\ IdlePage \in Pages /\ IdlePage.session = home /\ IdlePage.pc = "idle"
      /\ IdlePage.offset = 0 /\ IdlePage.got = {} /\ IdlePage.out = Nothing
      /\ IdlePage.since = {} /\ IdlePage.first = {}
  BY <1>4, <1>5 DEF IdlePage, Pages
<1>7. PageFits(IdlePage, WholeOf(<<>>, <<>>))
  BY <1>6 DEF PageFits
<1>8. PICK q \in Seq(Nat) : q = ShotsOf(<<>>, <<>>)
  BY <1>2, ShotsAre
<1>9. GapFree(IdlePage, q)
  <2>1. {q[i] : i \in 1 .. 0} = {} /\ Len(IdlePage.out.shots) = 0
    BY <1>5, <1>6
  <2>2. QED BY <1>6, <2>1 DEF GapFree
<1>10. /\ \A s \in Logged : pieces[s] = <<>> /\ events[s] = <<>>
       /\ \A s \in Logged : LogFits(pieces[s], events[s], s \in partMoved)
  <2>1. \A s \in Logged : pieces[s] = <<>> /\ events[s] = <<>>
    BY <1>1
  <2>2. QED BY <1>1, <1>3, <2>1 DEF LogFits
<1>11. decoded \in Seq(Entry) /\ 1 .. Len(decoded) = {}
  BY <1>1
<1>12. \A r \in PageReader : page[r] = IdlePage
  BY <1>1
<1>13. page \in [PageReader -> Pages]
  BY <1>1, <1>6
<1>14. ASSUME NEW r \in PageReader
       PROVE  LET s == page[r].session IN
              /\ PageFits(page[r], WholeOf(pieces[s], events[s]))
              /\ s \notin partMoved => GapFree(page[r], ShotsOf(pieces[s], events[s]))
  BY <1>6, <1>7, <1>8, <1>9, <1>10, <1>12
<1>15. pieces = [s \in Logged |-> pieces[s]] /\ events = [s \in Logged |-> events[s]]
  BY <1>1
<1>16. QED BY <1>10, <1>11, <1>13, <1>14, <1>15 DEF PagesInvariant

\* Every step of the host and of the requests keeps it.
LEMMA PagesStepKeeps == PagesInvariant /\ [TranscriptNext]_pageVars => PagesInvariant'
<1> SUFFICES ASSUME PagesInvariant, [TranscriptNext]_pageVars PROVE PagesInvariant'
  OBVIOUS
<1>1. CASE UNCHANGED pageVars
  BY <1>1 DEF PagesInvariant, pageVars
<1>2. ASSUME NEW s \in Logged, NEW last \in BOOLEAN, appendMore(s, last) PROVE PagesInvariant'
  BY <1>2, AppendMoreKeeps
<1>3. ASSUME NEW s \in Logged, NEW last \in BOOLEAN, NEW e \in {Message, Part, NoMessage},
             append(s, e, last)
      PROVE  PagesInvariant'
  <2>1. e \in Event
    BY DEF Message, Part, NoMessage, Event
  <2>2. QED BY <1>3, <2>1, AppendKeeps
<1>4. ASSUME NEW s \in Logged, NEW last \in BOOLEAN, NEW n \in 1 .. Len(events[s]),
             append(s, [kind |-> "call", of |-> n], last)
      PROVE  PagesInvariant'
  <2>1. Len(events[s]) \in Nat
    BY DEF PagesInvariant, LogFits
  <2>2. PICK e : e = [kind |-> "call", of |-> n]
    OBVIOUS
  <2>3. e \in Event
    BY <2>1, <2>2 DEF Event
  <2>4. QED BY <1>4, <2>2, <2>3, AppendKeeps
<1>5. ASSUME NEW r \in PageReader, NEW s \in Logged, NEW l \in Limit, NEW c \in Chars,
             NEW t \in BOOLEAN, transcript(r, s, l, c, t)
      PROVE  PagesInvariant'
  BY <1>5, TranscriptKeeps
<1>6. ASSUME NEW r \in PageReader, nextPage(r) \/ statLog(r) \/ readLog(r) PROVE PagesInvariant'
  BY <1>6, NextPageKeeps, StatKeeps, ReadLogKeeps
<1>7. QED BY <1>1, <1>2, <1>3, <1>4, <1>5, <1>6 DEF TranscriptNext

\* For any logs, requests and bounds, every page has been cut from what its log held, and
\* the cache holds nothing that is taken for more than that.
THEOREM PagesInvariantHolds == TranscriptSpec => []PagesInvariant
<1>1. QED BY PagesInit, PagesStepKeeps, PTL DEF TranscriptSpec

\* A page shows all that was whole in the log at its stat, however much was written
\* between the stat and the read and whoever filled the cache (transcript in dshview.mjs).
THEOREM PageIsCurrentHolds == TranscriptSpec => []PageIsCurrent
<1>1. ASSUME PagesInvariant PROVE PageIsCurrent
  <2> SUFFICES ASSUME NEW r \in PageReader, page[r].pc = "page"
               PROVE  /\ page[r].since \subseteq ToSet(page[r].out.shots)
                      /\ page[r].cut = page[r].chars
                      /\ page[r].whole => page[r].since \subseteq page[r].got
    BY DEF PageIsCurrent
  <2>1. PICK whole : PageFits(page[r], whole)
    BY <1>1 DEF PagesInvariant
  <2>2. QED BY <2>1 DEF PageFits
<1>2. QED BY <1>1, PagesInvariantHolds, PTL

\* The pages of a request follow each other without a gap, whatever the host writes
\* between them (the window and the cursor of transcript in dshview.mjs).
THEOREM PagesLeaveNoGapHolds == TranscriptSpec => []PagesLeaveNoGap
<1>1. ASSUME PagesInvariant PROVE PagesLeaveNoGap
  <2> SUFFICES ASSUME NEW r \in PageReader, page[r].session \notin partMoved
               PROVE  LET p == page[r] IN
                      IF p.tail THEN p.pc = "done" => p.first \subseteq p.got
                      ELSE p.got = ToSet(SubSeq(Read(p.session).shots, 1, Cardinality(p.got)))
    BY DEF PagesLeaveNoGap
  <2>1. PICK p \in Pages : p = page[r]
    BY <1>1 DEF PagesInvariant
  <2>2. PICK s \in Logged : s = p.session
    BY DEF Pages
  <2>3. PICK log, evs : log = pieces[s] /\ evs = events[s]
    OBVIOUS
  <2>4. LogFits(log, evs, s \in partMoved) /\ InOrder(log)
    BY <1>1, <2>3 DEF PagesInvariant, LogFits
  <2>5. PICK q \in Seq(Nat) : q = ShotsOf(log, evs) /\ Rising(q)
    BY <2>4, ShotsAre
  <2>6. Read(s).shots = q
    BY <2>3, <2>5 DEF Read, ShotsOf
  <2>7. GapFree(p, q) /\ PageFits(p, WholeOf(log, evs))
    BY <1>1, <2>1, <2>2, <2>3, <2>5 DEF PagesInvariant
  <2>8. PICK total \in Nat, offset \in Nat, m \in Nat :
          total = Len(p.out.shots) /\ offset = p.offset /\ m = Len(q)
    <3>1. p.out \in Out /\ p.offset \in Nat
      BY DEF Pages
    <3>2. p.out.shots \in Seq(Nat)
      BY <3>1 DEF Out
    <3>3. QED BY <3>1, <3>2
  <2>9. offset <= total /\ total <= m
    BY <2>7, <2>8 DEF GapFree
  <2>10. ToSet(q) = {q[i] : i \in 1 .. m}
    BY <2>8, ToSetIs
  <2>11. ASSUME p.tail, p.pc = "done" PROVE p.first \subseteq p.got
    <3>1. p.first \subseteq ToSet(q)
      <4>1. p.first \subseteq WholeOf(log, evs)
        BY <2>7 DEF PageFits
      <4>2. WholeOf(log, evs) \subseteq ToSet(q)
        BY <2>4, <2>5, WholeShown
      <4>3. QED BY <4>1, <4>2
    <3>2. offset = total
      BY <2>7, <2>8, <2>11 DEF GapFree
    <3>3. ASSUME NEW n \in p.first PROVE n \in p.got
      <4>1. PICK i \in 1 .. m : n = q[i]
        BY <2>10, <3>1, <3>3
      <4>2. i + offset > total
        BY <3>2, <4>1
      <4>3. QED BY <2>7, <2>8, <2>11, <3>3, <4>1, <4>2 DEF GapFree
    <3>4. QED BY <3>3
  <2>12. ASSUME ~p.tail PROVE p.got = ToSet(SubSeq(q, 1, Cardinality(p.got)))
    <3>1. p.got = {q[i] : i \in 1 .. offset}
      BY <2>7, <2>8, <2>12 DEF GapFree
    <3>2. Cardinality(p.got) = offset
      <4>1. PICK f : f = [i \in 1 .. offset |-> q[i]]
        OBVIOUS
      <4>2. \A i, j \in 1 .. offset : q[i] = q[j] => i = j
        <5>1. \A i \in 1 .. offset : i \in 1 .. Len(q)
          BY <2>8, <2>9
        <5>2. QED BY <2>5, <5>1, RisingOnce
      <4>3. f \in [1 .. offset -> p.got] /\ \A x \in p.got : \E i \in 1 .. offset : f[i] = x
        BY <3>1, <4>1
      <4>4. f \in Surjection(1 .. offset, p.got)
        BY <4>3 DEF Surjection
      <4>5. f \in Injection(1 .. offset, p.got)
        BY <4>1, <4>2, <4>3 DEF Injection, IsInjective
      <4>6. IsFiniteSet(1 .. offset) /\ Cardinality(1 .. offset) = offset
        <5>1. /\ IsFiniteSet(1 .. offset)
              /\ Cardinality(1 .. offset) = IF 1 > offset THEN 0 ELSE offset - 1 + 1
          BY FS_Interval
        <5>2. QED BY <5>1
      <4>7. QED BY <4>4, <4>5, <4>6, FS_Surjection
    <3>3. PICK head : head = SubSeq(q, 1, offset)
      OBVIOUS
    <3>4. head \in Seq(Nat) /\ Len(head) = offset /\ \A i \in 1 .. offset : head[i] = q[i]
      <4>1. CASE offset = 0
        <5>1. SubSeq(q, 1, 0) = <<>>
          BY SubSeqProperties
        <5>2. QED BY <3>3, <4>1, <5>1
      <4>2. CASE offset # 0
        <5>1. 1 \in 1 .. Len(q) + 1 /\ offset \in 0 .. Len(q) /\ offset - 1 + 1 = offset
          BY <2>8, <2>9, <4>2
        <5>2. /\ head \in Seq(Nat) /\ Len(head) = offset
              /\ \A i \in 1 .. offset : head[i] = q[1 + i - 1]
          BY <3>3, <4>2, <5>1, SubSeqProperties
        <5>3. \A i \in 1 .. offset : 1 + i - 1 = i
          OBVIOUS
        <5>4. QED BY <5>2, <5>3
      <4>3. QED BY <4>1, <4>2
    <3>5. ToSet(head) = {head[i] : i \in 1 .. offset}
      BY <3>4, ToSetIs
    <3>6. ToSet(head) = p.got
      BY <3>1, <3>4, <3>5
    <3>7. QED BY <3>2, <3>3, <3>6
  <2>13. QED BY <2>1, <2>2, <2>6, <2>11, <2>12
<1>2. QED BY <1>1, PagesInvariantHolds, PTL
=============================================================================
