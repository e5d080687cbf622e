------------------------------- MODULE ViewIndex -------------------------------
(***************************************************************************)
(* The index of the sessions of a DSH home that a node shows its peers     *)
(* (src/dshview.mjs): built by a scan that several requests share, kept    *)
(* for a while, dropped when the config is reloaded.  A scan that is in    *)
(* progress then goes on, with whatever config and home it finds.          *)
(***************************************************************************)
EXTENDS Integers, Sequences

CONSTANTS
  Home,       \* DSH homes; each has a session in every workspace
  Workspace,
  Titled,     \* workspaces that the config excludes by title, not by id or path
  Reader,     \* requests in progress at once (bound)
  Scan,       \* scans in progress at once (bound)
  MaxReloads  \* reloads of the config (bound)

ASSUME ViewAssumption == Home # {} /\ Titled \subseteq Workspace /\ MaxReloads \in Nat

VARIABLES
  config,    \* the home and the excluded workspaces
  registry,  \* cache.registry: <<home>> it was read from, or <<>>
  index,     \* cache.index: <<index>>, or <<>>
  inflight,  \* cache.inflight: the scan that new requests wait for, or NoScan
  scan,      \* what each scan has read
  reader,    \* each request: the reloads before it, its scan, its indexes so far
  reloads,
  scanRaced      \* the last reload fell into a scan (history)

viewVars == <<config, registry, index, inflight, scan, reader, reloads, scanRaced>>

NoScan == "none"
NoHome == "nowhere"
IdleScan == [pc |-> "idle", home |-> NoHome, logs |-> NoHome, excluded |-> {}]
IdleReader == [waits |-> NoScan, at |-> 0, got |-> <<>>, allowed |-> {}, done |-> TRUE]
Scanning == {s \in Scan : scan[s].pc # "idle"}

ViewInit ==
  /\ config = [home |-> CHOOSE h \in Home : TRUE, excluded |-> {}]
  /\ registry = <<>> /\ index = <<>> /\ inflight = NoScan
  /\ scan = [s \in Scan |-> IdleScan]
  /\ reader = [r \in Reader |-> IdleReader]
  /\ reloads = 0 /\ scanRaced = FALSE

-----------------------------------------------------------------------------
Allowed == {<<config.home, w>> : w \in Workspace \ config.excluded}

\* One session in every workspace of a home.
listSessionLogs(home) == {<<home, w>> : w \in Workspace}

Indexed(i) == {x \in listSessionLogs(i.logs) : x[2] \notin i.excluded}

\* The workspaces of an index: of the registry it has read.
workspaces(i) == {<<i.home, w>> : w \in Workspace \ i.excluded}

\* Mutant: what the index excludes is enough.
visibleWorkspacesIndexed(i) == workspaces(i)

\* The filter of ops, which knows ids and paths only, with its own config.
visibleWorkspaces(i) == {x \in workspaces(i) : x[2] \notin config.excluded \ Titled}

\* A session of another home than the registry's is in no workspace.
sessions(i) == {x \in Indexed(i) : i.home = i.logs}

AnswerTo(r) == {x \in sessions(r.got[2]) : x \in r.allowed}

\* dshSessions: the workspaces first, then the sessions, perhaps of another index.
Receive(i, r) ==
  [r EXCEPT !.waits = NoScan, !.got = Append(@, i),
            !.allowed = IF r.got = <<>> THEN visibleWorkspaces(i) ELSE @, !.done = (r.got # <<>>)]

beginScan(s) ==
  /\ scan[s].pc = "idle"
  /\ scan' = [scan EXCEPT ![s] = [IdleScan EXCEPT
       !.pc = "registry", !.home = IF registry = <<>> THEN config.home ELSE registry[1]]]
  /\ inflight' = s

\* dshGuard, then one index after the other.
Asking(r) == IF reader[r].done THEN [IdleReader EXCEPT !.at = reloads, !.done = FALSE] ELSE reader[r]
Ask(r, ask) == reader[r].waits = NoScan /\ reader' = [reader EXCEPT ![r] = ask]

getIndex(r) ==
  /\ \/ index # <<>> /\ Ask(r, Receive(index[1], Asking(r))) /\ UNCHANGED <<scan, inflight>>
     \/ index = <<>> /\ inflight # NoScan
        /\ Ask(r, [Asking(r) EXCEPT !.waits = inflight]) /\ UNCHANGED <<scan, inflight>>
     \/ index = <<>> /\ inflight = NoScan
        /\ \E s \in Scan : Ask(r, [Asking(r) EXCEPT !.waits = s]) /\ beginScan(s)
  /\ UNCHANGED <<config, registry, index, reloads, scanRaced>>

\* buildIndex: the registry is read; the sessions are listed from here on.
buildIndex(s) ==
  /\ scan[s].pc = "registry"
  /\ scan' = [scan EXCEPT ![s].pc = "logs", ![s].excluded = config.excluded, ![s].logs = config.home]
  /\ registry' = <<scan[s].home>>
  /\ UNCHANGED <<config, index, inflight, reader, reloads, scanRaced>>

\* The index goes into the cache there is by now, and so does the end of the scan.
endScan(s) ==
  /\ scan[s].pc = "logs"
  /\ index' = <<scan[s]>>
  /\ inflight' = NoScan
  /\ reader' = [r \in Reader |->
       IF reader[r].waits = s THEN Receive(scan[s], reader[r]) ELSE reader[r]]
  /\ scan' = [scan EXCEPT ![s] = IdleScan]
  /\ UNCHANGED <<config, registry, reloads, scanRaced>>

\* DSH_VIEW_CACHE_MS have passed.
expireCache ==
  \/ index # <<>> /\ index' = <<>> /\ UNCHANGED registry
  \/ registry # <<>> /\ registry' = <<>> /\ UNCHANGED index
agesOut == expireCache /\ UNCHANGED <<config, inflight, scan, reader, reloads, scanRaced>>

refresh == registry' = <<>> /\ index' = <<>> /\ inflight' = NoScan

\* Mutant: a changed home alone drops the cache.
refreshHome(c) == IF c.home # config.home THEN refresh ELSE UNCHANGED <<registry, index, inflight>>

dropCache(c) == refresh

reconfigureView(c) ==
  /\ reloads < MaxReloads /\ c # config
  /\ reloads' = reloads + 1
  /\ config' = c
  /\ dropCache(c)
  /\ scanRaced' = (Scanning # {})
  /\ UNCHANGED <<scan, reader>>

ViewNext ==
  \/ \E r \in Reader : getIndex(r)
  \/ \E s \in Scan : buildIndex(s) \/ endScan(s)
  \/ agesOut
  \/ \E h \in Home, x \in SUBSET Workspace : reconfigureView([home |-> h, excluded |-> x])

ViewSpec == ViewInit /\ [][ViewNext]_viewVars

-----------------------------------------------------------------------------
Answered == {r \in Reader : Len(reader[r].got) = 2 /\ reader[r].at = reloads}

\* Unless the last reload fell into a scan, a request is answered with the sessions
\* that the config it began under allows, never with those of an earlier one.
AnsweredFromConfig == ~scanRaced => \A r \in Answered : AnswerTo(reader[r]) = Allowed

\* Even when it did: no session of a workspace that the config excludes by id or
\* path is in an answer to a request that began under this config.
ExcludedStaysHidden ==
  \A r \in Answered : \A x \in AnswerTo(reader[r]) : x[2] \notin config.excluded \ Titled
=============================================================================
