----------------------------- MODULE SetupProofs -----------------------------
(***************************************************************************)
(* Proofs about what sets a node up: TunnelManager, Pairing and            *)
(* DshInstall, for any number of managers, jobs, frpc processes, nodes,    *)
(* names, servers, tokens, commands, entries and edits.                    *)
(***************************************************************************)
EXTENDS TunnelManager, Pairing, DshInstall, SequenceTheorems, FiniteSetTheorems,
        WellFoundedInduction, TLAPS

-----------------------------------------------------------------------------
(* The tunnel.                                                             *)

JobPc == {"idle", "stop", "wait", "start", "spawn", "write", "settle"}

\* What the variables hold.
TunnelTypeOK ==
  /\ frpc \subseteq Nat /\ pidFile \in Nat /\ spawned \in Nat /\ jobs \in Nat
  /\ job \in [Manager -> [pc : JobPc, pid : Nat, relaunch : BOOLEAN]]
  /\ disturbed \in BOOLEAN

\* A job knows at every step what it may find at the next one.
JobKnows(m) ==
  /\ job[m].pc = "spawn" => frpc = {}
  /\ job[m].pc \in {"wait", "settle"} => pidFile = job[m].pid
  /\ job[m].pc = "write" => frpc \subseteq {job[m].pid}

Writing == \E m \in Manager : job[m].pc = "write"

\* The inductive form of OneTunnel: jobs are one at a time, and all that runs is what
\* the file names, or what the job has started and is about to write down.
FileNamesAll ==
  /\ \A m, n \in Managing : m = n
  /\ \A m \in Manager : JobKnows(m)
  /\ Writing \/ frpc \subseteq {pidFile}

TunnelInvariant == TunnelTypeOK /\ (~disturbed => FileNamesAll)

-----------------------------------------------------------------------------
\* At most one frpc runs, and it is the one the file names or is about to name.
LEMMA InvariantImpliesOneTunnel ==
  ASSUME TunnelInvariant PROVE OneTunnel
<1> SUFFICES ASSUME ~disturbed
             PROVE  /\ Cardinality(frpc) <= 1
                    /\ \A pid \in frpc :
                         pidFile = pid \/ \E m \in Manager : job[m].pc = "write" /\ job[m].pid = pid
  BY DEF OneTunnel
<1>1. FileNamesAll
  BY DEF TunnelInvariant
<1>2. PICK p : frpc \subseteq {p} /\ (p = pidFile \/ \E m \in Manager : job[m].pc = "write" /\ job[m].pid = p)
  BY <1>1 DEF FileNamesAll, Writing, JobKnows
<1>3. Cardinality(frpc) <= 1
  <2>1. IsFiniteSet({p}) /\ Cardinality({p}) = 1
    BY FS_Singleton
  <2>2. Cardinality(frpc) <= Cardinality({p})
    BY <1>2, <2>1, FS_Subset
  <2>3. Cardinality(frpc) \in Nat
    BY <1>2, <2>1, FS_Subset, FS_CardinalityType
  <2>4. QED BY <2>1, <2>2, <2>3
<1>4. QED BY <1>2, <1>3

\* A manager without a job has the form of one.
LEMMA NoJobType == NoJob \in [pc : JobPc, pid : Nat, relaunch : BOOLEAN]
BY DEF NoJob, NoPid, JobPc

\* At the beginning nothing runs.
LEMMA TunnelInitInvariant == TunnelInit => TunnelInvariant
<1> SUFFICES ASSUME TunnelInit PROVE TunnelInvariant
  OBVIOUS
<1>1. TunnelTypeOK
  BY NoJobType DEF TunnelInit, TunnelTypeOK, NoPid
<1>2. FileNamesAll
  BY DEF TunnelInit, FileNamesAll, Managing, JobKnows, Writing, NoJob
<1>3. QED BY <1>1, <1>2 DEF TunnelInvariant

\* Where the job of a manager goes next leaves the others where they are.
LEMMA GoType ==
  ASSUME TunnelTypeOK, NEW m \in Manager, NEW pc \in JobPc, NEW pid \in Nat, Go(m, pc, pid)
  PROVE  /\ job' \in [Manager -> [pc : JobPc, pid : Nat, relaunch : BOOLEAN]]
         /\ job'[m].pc = pc /\ job'[m].pid = pid
         /\ \A n \in Manager \ {m} : job'[n] = job[n]
BY DEF Go, TunnelTypeOK

\* Where a job goes after the stop leaves the types as they are.
LEMMA AfterStopType ==
  ASSUME TunnelTypeOK, NEW m \in Manager, AfterStop(m)
  PROVE  /\ job' \in [Manager -> [pc : JobPc, pid : Nat, relaunch : BOOLEAN]]
         /\ job'[m].pc \in {"start", "idle"}
         /\ \A n \in Manager \ {m} : job'[n] = job[n]
<1>1. CASE job[m].relaunch
  BY <1>1, GoType DEF AfterStop, NoPid, JobPc
<1>2. CASE ~job[m].relaunch
  <2>1. job' = [job EXCEPT ![m] = NoJob]
    BY <1>2 DEF AfterStop
  <2>2. NoJob.pc = "idle"
    BY DEF NoJob
  <2>3. QED BY <2>1, <2>2, NoJobType DEF TunnelTypeOK
<1>3. QED BY <1>1, <1>2

\* One job steps and the others do not: what is to be shown is about this job alone.
LEMMA AloneKeeps ==
  ASSUME FileNamesAll, NEW m \in Manager, job[m].pc # "idle",
         \A n \in Manager \ {m} : job'[n] = job[n],
         JobKnows(m)', job'[m].pc = "write" \/ (frpc \subseteq {pidFile})'
  PROVE  FileNamesAll'
<1>1. /\ \A n \in Manager \ {m} : job'[n].pc = "idle"
      /\ Managing' \subseteq {m}
      /\ Writing' <=> job'[m].pc = "write"
      /\ \A n \in Manager \ {m} : JobKnows(n)'
  BY DEF FileNamesAll, Managing, Writing, JobKnows
<1>2. QED BY <1>1 DEF FileNamesAll

\* While no job is about to write the pid, what runs is what the file names.
LEMMA FileNames ==
  ASSUME FileNamesAll, NEW m \in Manager, job[m].pc \notin {"idle", "write"}
  PROVE  frpc \subseteq {pidFile}
BY DEF FileNamesAll, Managing, Writing

\* Every step of a job keeps the invariant.
LEMMA JobStep ==
  ASSUME TunnelInvariant, NEW m \in Manager, ManagerStep(m) \/ abort(m)
  PROVE  TunnelInvariant'
<1> USE DEF TunnelInvariant
<1>1. ASSUME stop(m) PROVE TunnelInvariant'
  <2> USE <1>1 DEF stop
  <2>1. CASE pidAlive(pidFile)
    <3>1. Go(m, "wait", pidFile) /\ UNCHANGED <<frpc, pidFile, spawned, jobs, disturbed>>
      BY <2>1
    <3>2. TunnelTypeOK'
      BY <3>1, GoType DEF TunnelTypeOK, JobPc
    <3>3. ASSUME ~disturbed' PROVE FileNamesAll'
      BY <3>1, <3>3, GoType, AloneKeeps, FileNames DEF TunnelTypeOK, JobKnows, JobPc
    <3>4. QED BY <3>2, <3>3
  <2>2. CASE ~pidAlive(pidFile)
    <3>1. AfterStop(m) /\ pidFile' = NoPid /\ UNCHANGED <<frpc, spawned, jobs, disturbed>>
      BY <2>2
    <3>2. TunnelTypeOK'
      BY <3>1, AfterStopType DEF TunnelTypeOK, NoPid
    <3>3. ASSUME ~disturbed' PROVE FileNamesAll'
      <4>1. frpc = {}
        BY <2>2, <3>1, <3>3, FileNames DEF pidAlive
      <4>2. QED BY <3>1, <3>3, <4>1, AfterStopType, AloneKeeps DEF JobKnows
    <3>4. QED BY <3>2, <3>3
  <2>3. QED BY <2>1, <2>2
<1>2. ASSUME stopFails(m) PROVE TunnelInvariant'
  <2> USE <1>2 DEF stopFails
  <2>1. TunnelTypeOK'
    BY AfterStopType DEF TunnelTypeOK
  <2>2. ASSUME ~disturbed' PROVE FileNamesAll'
    BY <2>2, AfterStopType, AloneKeeps, FileNames DEF JobKnows
  <2>3. QED BY <2>1, <2>2
<1>3. ASSUME stopped(m) PROVE TunnelInvariant'
  <2> USE <1>3 DEF stopped
  <2>1. TunnelTypeOK'
    BY AfterStopType DEF TunnelTypeOK, NoPid
  <2>2. ASSUME ~disturbed' PROVE FileNamesAll'
    <3>1. frpc = {}
      BY <2>2, FileNames DEF pidAlive, FileNamesAll, JobKnows
    <3>2. QED BY <2>2, <3>1, AfterStopType, AloneKeeps DEF JobKnows
  <2>3. QED BY <2>1, <2>2
<1>4. ASSUME stopTimesOut(m) PROVE TunnelInvariant'
  BY <1>4, AfterStopType DEF stopTimesOut, TunnelTypeOK, NoPid
<1>5. ASSUME start(m) PROVE TunnelInvariant'
  <2> USE <1>5 DEF start
  <2>1. CASE pidAlive(pidFile)
    <3>1. TunnelTypeOK'
      BY <2>1, NoJobType DEF TunnelTypeOK
    <3>2. ASSUME ~disturbed' PROVE FileNamesAll'
      BY <2>1, <3>2, AloneKeeps, FileNames DEF TunnelTypeOK, JobKnows, NoJob
    <3>3. QED BY <3>1, <3>2
  <2>2. CASE ~pidAlive(pidFile)
    <3>1. TunnelTypeOK'
      BY <2>2, GoType DEF TunnelTypeOK, NoPid, JobPc
    <3>2. ASSUME ~disturbed' PROVE FileNamesAll'
      <4>1. frpc = {}
        BY <2>2, <3>2, FileNames DEF pidAlive
      <4>2. QED BY <2>2, <3>2, <4>1, GoType, AloneKeeps DEF JobKnows, NoPid, JobPc
    <3>3. QED BY <3>1, <3>2
  <2>3. QED BY <2>1, <2>2
<1>6. ASSUME spawn(m) PROVE TunnelInvariant'
  <2> USE <1>6 DEF spawn
  <2>1. spawned' \in Nat
    BY DEF TunnelTypeOK
  <2>2. TunnelTypeOK'
    BY <2>1, GoType DEF TunnelTypeOK, JobPc
  <2>3. ASSUME ~disturbed' PROVE FileNamesAll'
    <3>1. frpc' = {spawned'}
      BY <2>3 DEF FileNamesAll, JobKnows
    <3>2. QED BY <2>1, <2>3, <3>1, GoType, AloneKeeps DEF JobKnows, JobPc
  <2>4. QED BY <2>2, <2>3
<1>7. ASSUME writePid(m) PROVE TunnelInvariant'
  <2> USE <1>7 DEF writePid
  <2>1. job[m].pid \in Nat
    BY DEF TunnelTypeOK
  <2>2. TunnelTypeOK'
    BY <2>1, GoType DEF TunnelTypeOK, JobPc
  <2>3. ASSUME ~disturbed' PROVE FileNamesAll'
    <3>1. frpc \subseteq {job[m].pid}
      BY <2>3 DEF FileNamesAll, JobKnows
    <3>2. QED BY <2>1, <2>3, <3>1, GoType, AloneKeeps DEF JobKnows, JobPc
  <2>4. QED BY <2>2, <2>3
<1>8. ASSUME settle(m) PROVE TunnelInvariant'
  <2> USE <1>8 DEF settle
  <2>1. TunnelTypeOK'
    BY NoJobType DEF TunnelTypeOK, NoPid
  <2>2. ASSUME ~disturbed' PROVE FileNamesAll'
    <3>1. frpc \subseteq {pidFile} /\ pidFile = job[m].pid
      BY <2>2, FileNames DEF FileNamesAll, JobKnows
    <3>2. frpc' \subseteq {pidFile'}
      BY <3>1 DEF pidAlive
    <3>3. QED BY <2>2, <3>2, AloneKeeps DEF TunnelTypeOK, JobKnows, NoJob
  <2>3. QED BY <2>1, <2>2
<1>9. ASSUME abort(m) PROVE TunnelInvariant'
  <2> USE <1>9 DEF abort
  <2>1. TunnelTypeOK'
    BY NoJobType DEF TunnelTypeOK
  <2>2. ASSUME ~disturbed' PROVE FileNamesAll'
    BY <2>2, AloneKeeps, FileNames DEF TunnelTypeOK, JobKnows, NoJob
  <2>3. QED BY <2>1, <2>2
<1>10. QED BY <1>1, <1>2, <1>3, <1>4, <1>5, <1>6, <1>7, <1>8, <1>9 DEF ManagerStep

\* And so does every step of the system.
LEMMA TunnelStep ==
  ASSUME TunnelInvariant, TunnelNext
  PROVE  TunnelInvariant'
<1>1. ASSUME NEW m \in Manager, NEW relaunch \in BOOLEAN, beginJob(m, relaunch)
      PROVE  TunnelInvariant'
  <2>1. TunnelTypeOK'
    BY <1>1 DEF TunnelInvariant, beginJob, TunnelTypeOK, NoPid, JobPc
  <2>2. ASSUME ~disturbed' PROVE FileNamesAll'
    <3>1. /\ FileNamesAll /\ Managing = {} /\ job'[m].pc = "stop"
          /\ \A n \in Manager \ {m} : job'[n] = job[n]
      BY <1>1, <2>2 DEF TunnelInvariant, beginJob, TunnelTypeOK
    <3>2. \A n \in Manager \ {m} : job'[n].pc = "idle"
      BY <3>1 DEF Managing
    <3>3. frpc' = frpc /\ pidFile' = pidFile /\ ~Writing
      BY <1>1, <3>1 DEF beginJob, Managing, Writing
    <3>4. QED BY <3>1, <3>2, <3>3 DEF FileNamesAll, Managing, JobKnows, Writing
  <2>3. QED BY <2>1, <2>2 DEF TunnelInvariant
<1>2. ASSUME NEW pid \in frpc, exit(pid)
      PROVE  TunnelInvariant'
  BY <1>2 DEF TunnelInvariant, exit, TunnelTypeOK, FileNamesAll, Managing, JobKnows, Writing
<1>3. QED BY <1>1, <1>2, JobStep DEF TunnelNext

\* What a stutter leaves.
LEMMA TunnelStutter ==
  ASSUME TunnelInvariant, UNCHANGED tunnelVars
  PROVE  TunnelInvariant'
BY DEF TunnelInvariant, tunnelVars, TunnelTypeOK, FileNamesAll, Managing, JobKnows, Writing

-----------------------------------------------------------------------------
\* The invariant holds in every state that any managers, jobs and ends of processes
\* can reach.
THEOREM TunnelInvariantHolds == TunnelSpec => []TunnelInvariant
<1>1. TunnelInvariant /\ [TunnelNext]_tunnelVars => TunnelInvariant'
  BY TunnelStep, TunnelStutter
<1>2. QED BY <1>1, TunnelInitInvariant, PTL DEF TunnelSpec

\* However jobs of any number of managers follow each other and processes end: while
\* no two overlap, at most one frpc runs and the next stop will find it (start, stop).
THEOREM OneTunnelHolds == TunnelSpec => []OneTunnel
<1>1. TunnelInvariant => OneTunnel
  BY InvariantImpliesOneTunnel
<1>2. QED BY <1>1, TunnelInvariantHolds, PTL

-----------------------------------------------------------------------------
(* Pairing.                                                                *)

Entry ==
  [node : Peer, token : Nat, port : 0 .. MaxPort + 1, via : {"tunnel", "public", "local"}, at : Nat]

Code == [from : Peer, token : Nat, url : {"public", "local"}, stcp : Server \cup {NoServer}]

\* What the variables hold.
PairingTypeOK ==
  /\ tokens \in [Peer -> SUBSET Nat] /\ revoked \subseteq Nat
  /\ peers = [n \in Peer |-> peers[n]]
  /\ \A n \in Peer : peers[n] \in [DOMAIN peers[n] -> Entry]
  /\ tunnel \in [Peer -> Server \cup {NoServer}]
  /\ codes \subseteq Code /\ held \in [Peer -> SUBSET (PortBase .. MaxPort)]
  /\ minted \in Nat /\ commands \in 0 .. MaxCommands /\ portMoved \subseteq Peer

\* A command adds one peer at most.
FewPeers ==
  \A n \in Peer : IsFiniteSet(DOMAIN peers[n]) /\ Cardinality(DOMAIN peers[n]) <= commands

\* Token t is one node p accepts, or has removed, or none.
Known(p, t) == t \in tokens[p] \cup revoked \cup {NoToken}

\* A code brings a token of the node that has written it.
CodesKnown == \A c \in codes : Known(c.from, c.token)

PairingInvariant ==
  PairingTypeOK /\ FewPeers /\ CodesKnown /\ TokensAccepted /\ PortsApart /\ AddressIsVisitor

-----------------------------------------------------------------------------
(* The ports.                                                              *)

\* A set of numbers that is not empty has a least one.
LEMMA HasLeast ==
  ASSUME NEW S \in SUBSET Nat, S # {} PROVE \E x \in S : \A y \in S : x <= y
<1>1. PICK x \in S : \A y \in S : ~(<<y, x>> \in OpToRel(<, Nat))
  BY WFMin, NatLessThanWellFounded
<1>2. ASSUME NEW y \in S PROVE x <= y
  <2>1. x \in Nat /\ y \in Nat
    OBVIOUS
  <2>2. ~(y < x)
    BY <1>1, <2>1 DEF OpToRel
  <2>3. QED BY <2>1, <2>2
<1>3. QED BY <1>2

\* A set of numbers that is not empty has its minimum.
LEMMA MinIsIn ==
  ASSUME NEW S \in SUBSET Nat, S # {} PROVE Min(S) \in S
BY HasLeast DEF Min

\* The peers of a node have no more ports than there are peers.
LEMMA FewPorts ==
  ASSUME PairingInvariant, NEW n \in Peer
  PROVE  IsFiniteSet(Ports(n)) /\ Cardinality(Ports(n)) <= commands /\ Ports(n) \subseteq Nat
<1> DEFINE D == DOMAIN peers[n]
           f == [x \in D |-> peers[n][x].port]
           T == {peers[n][x].port : x \in D}
<1>1. IsFiniteSet(D) /\ Cardinality(D) <= commands /\ Cardinality(D) \in Nat /\ commands \in Nat
  BY FS_CardinalityType, PairingAssumption DEF PairingInvariant, FewPeers, PairingTypeOK
<1>2. f \in Surjection(D, T)
  BY DEF Surjection
<1>3. IsFiniteSet(T) /\ Cardinality(T) <= Cardinality(D)
  BY <1>1, <1>2, FS_Surjection
<1>4. Ports(n) \subseteq T
  BY DEF Ports
<1>5. IsFiniteSet(Ports(n)) /\ Cardinality(Ports(n)) <= Cardinality(T)
  BY <1>3, <1>4, FS_Subset
<1>6. Cardinality(Ports(n)) \in Nat /\ Cardinality(T) \in Nat
  BY <1>3, <1>5, FS_CardinalityType
<1>7. Ports(n) \subseteq Nat
  BY PairingAssumption DEF PairingInvariant, PairingTypeOK, Entry, Ports
<1>8. QED BY <1>1, <1>3, <1>5, <1>6, <1>7

\* A port is found that no peer of the node has, and that is not the node's own.
LEMMA AllocatedIsFree ==
  ASSUME PairingInvariant, NEW n \in Peer, commands < MaxCommands
  PROVE  allocateVisitorPort(n) \in (PortBase .. MaxPort + 1) \ (Ports(n) \cup {ServePort})
<1> DEFINE U == Ports(n) \cup {ServePort}
           I == PortBase .. MaxPort + 1
<1>1. /\ {ServePort, PortBase, MaxPort, MaxCommands, commands} \subseteq Nat
      /\ PortBase <= MaxPort /\ MaxCommands <= MaxPort + 1 - PortBase
  BY PairingAssumption, PortsSuffice DEF PairingInvariant, PairingTypeOK
<1>2. IsFiniteSet(U) /\ Cardinality(U) <= commands + 1
  <2>1. IsFiniteSet(Ports(n)) /\ Cardinality(Ports(n)) <= commands /\ Cardinality(Ports(n)) \in Nat
    BY FewPorts, FS_CardinalityType
  <2>2. IsFiniteSet(U) /\ Cardinality(U) <= Cardinality(Ports(n)) + 1
    <3>1. /\ IsFiniteSet(Ports(n) \cup {ServePort})
          /\ Cardinality(Ports(n) \cup {ServePort}) =
               IF ServePort \in Ports(n) THEN Cardinality(Ports(n)) ELSE Cardinality(Ports(n)) + 1
      BY <2>1, FS_AddElement
    <3>2. QED BY <2>1, <3>1
  <2>3. Cardinality(U) \in Nat
    BY <2>2, FS_CardinalityType
  <2>4. QED BY <1>1, <2>1, <2>2, <2>3
<1>3. IsFiniteSet(I) /\ Cardinality(I) \in Nat /\ Cardinality(I) > commands + 1
  <2> DEFINE last == MaxPort + 1
  <2>1. last \in Int /\ PortBase \in Int /\ ~(PortBase > last) /\ last - PortBase + 1 > commands + 1
        /\ last - PortBase + 1 \in Nat
    BY <1>1
  <2> HIDE DEF last
  <2>2. IsFiniteSet(PortBase .. last) /\ Cardinality(PortBase .. last) = last - PortBase + 1
    BY <2>1, FS_Interval
  <2>3. Cardinality(PortBase .. last) \in Nat /\ Cardinality(PortBase .. last) > commands + 1
    BY <2>1, <2>2
  <2>4. QED BY <2>2, <2>3 DEF last
<1> HIDE DEF U
<1>4. ~(I \subseteq U)
  <2>1. SUFFICES ASSUME I \subseteq U PROVE FALSE
    OBVIOUS
  <2>2. Cardinality(I) <= Cardinality(U)
    BY <1>2, <2>1, FS_Subset
  <2>3. Cardinality(U) \in Nat
    BY <1>2, FS_CardinalityType
  <2>4. QED BY <1>1, <1>2, <1>3, <2>2, <2>3
<1>5. I \ U \in SUBSET Nat /\ I \ U # {}
  BY <1>1, <1>4
<1>6. QED BY <1>5, MinIsIn DEF allocateVisitorPort, U

\* The next port nobody listens on is one there is.
LEMMA NextFreeType ==
  ASSUME PairingInvariant, NEW n \in Peer, NEW port \in 0 .. MaxPort + 1
  PROVE  NextFree(n, port) \in 0 .. MaxPort + 1
<1> DEFINE S == {q \in port .. MaxPort + 1 : q \notin held[n]}
<1>1. MaxPort \in Nat /\ PortBase \in Nat /\ held[n] \subseteq PortBase .. MaxPort
  BY PairingAssumption DEF PairingInvariant, PairingTypeOK
<1>2. MaxPort + 1 \in S /\ S \in SUBSET Nat
  BY <1>1
<1> HIDE DEF S
<1>3. Min(S) \in S
  BY <1>2, MinIsIn
<1>4. QED BY <1>1, <1>3 DEF NextFree, S

-----------------------------------------------------------------------------
(* What a step must keep.                                                  *)

\* No token is forgotten: it stays accepted, or has been removed.
Remembers == \A p \in Peer : tokens[p] \cup revoked \subseteq tokens'[p] \cup revoked'

\* A token that is known stays known.
LEMMA StaysKnown ==
  ASSUME Remembers, NEW p \in Peer, NEW t, Known(p, t) PROVE Known(p, t)'
BY DEF Remembers, Known

\* The peers of all nodes are as they are.
LEMMA PeersStay ==
  ASSUME PairingInvariant, Remembers, UNCHANGED <<peers, portMoved>>,
         commands' \in {commands, commands + 1}
  PROVE  FewPeers' /\ TokensAccepted' /\ PortsApart' /\ AddressIsVisitor'
<1>1. FewPeers'
  <2> SUFFICES ASSUME NEW n \in Peer
               PROVE  IsFiniteSet(DOMAIN peers[n]) /\ Cardinality(DOMAIN peers[n]) <= commands'
    BY DEF FewPeers
  <2>1. IsFiniteSet(DOMAIN peers[n]) /\ Cardinality(DOMAIN peers[n]) <= commands
    BY DEF PairingInvariant, FewPeers
  <2>2. Cardinality(DOMAIN peers[n]) \in Nat /\ commands \in Nat
    BY <2>1, FS_CardinalityType, PairingAssumption DEF PairingInvariant, PairingTypeOK
  <2>3. QED BY <2>1, <2>2
<1>2. TokensAccepted'
  BY DEF PairingInvariant, TokensAccepted, PairingTypeOK, Entry, Remembers
<1>3. PortsApart' /\ AddressIsVisitor'
  BY DEF PairingInvariant, PortsApart, AddressIsVisitor, Ports
<1>4. QED BY <1>1, <1>2, <1>3

\* A peer is added, or takes the place of one: with a port that is free, at the address
\* of its visitor if it is reached there, and with a token it accepts.
LEMMA UpsertKeeps ==
  ASSUME PairingInvariant, Remembers, NEW n \in Peer, NEW name, NEW entry \in Entry,
         upsertPeer(n, name, entry), commands < MaxCommands, commands' = commands + 1,
         entry.port = NoPort \/ entry.port \notin Ports(n) \cup {ServePort},
         entry.via = "tunnel" => entry.at = entry.port, Known(entry.node, entry.token)',
         UNCHANGED portMoved
  PROVE  /\ peers' = [m \in Peer |-> peers'[m]]
         /\ \A m \in Peer : peers'[m] \in [DOMAIN peers'[m] -> Entry]
         /\ FewPeers' /\ TokensAccepted' /\ PortsApart' /\ AddressIsVisitor'
<1> DEFINE D == DOMAIN peers[n]
<1>1. /\ peers' = [m \in Peer |-> peers'[m]]
      /\ peers'[n] = [x \in D \cup {name} |-> IF x = name THEN entry ELSE peers[n][x]]
      /\ \A m \in Peer \ {n} : peers'[m] = peers[m]
  BY DEF upsertPeer, PairingInvariant, PairingTypeOK
<1>2. peers[n] \in [D -> Entry] /\ commands \in Nat
  BY PairingAssumption DEF PairingInvariant, PairingTypeOK
<1>3. DOMAIN peers'[n] = D \cup {name} /\ peers'[n][name] = entry
      /\ \A x \in D \ {name} : peers'[n][x] = peers[n][x]
  BY <1>1
<1>4. \A m \in Peer : peers'[m] \in [DOMAIN peers'[m] -> Entry]
  BY <1>1, <1>2 DEF PairingInvariant, PairingTypeOK
<1>5. FewPeers'
  <2> SUFFICES ASSUME NEW m \in Peer
               PROVE  IsFiniteSet(DOMAIN peers'[m]) /\ Cardinality(DOMAIN peers'[m]) <= commands + 1
    BY DEF FewPeers
  <2>1. IsFiniteSet(DOMAIN peers[m]) /\ Cardinality(DOMAIN peers[m]) <= commands
    BY DEF PairingInvariant, FewPeers
  <2>2. Cardinality(DOMAIN peers[m]) \in Nat
    BY <2>1, FS_CardinalityType
  <2>3. CASE m # n
    BY <1>1, <1>2, <2>1, <2>2, <2>3
  <2>4. CASE m = n
    <3>1. /\ IsFiniteSet(D \cup {name})
          /\ Cardinality(D \cup {name}) = IF name \in D THEN Cardinality(D) ELSE Cardinality(D) + 1
      BY <2>1, <2>4, FS_AddElement
    <3>2. QED BY <1>2, <1>3, <2>1, <2>2, <2>4, <3>1
  <2>5. QED BY <2>3, <2>4
<1>6. TokensAccepted'
  <2> SUFFICES ASSUME NEW m \in Peer, NEW x \in DOMAIN peers'[m]
               PROVE  Known(peers[m][x].node, peers[m][x].token)'
    BY DEF TokensAccepted, Known
  <2>1. CASE m = n /\ x = name
    BY <1>3, <2>1
  <2>2. CASE ~(m = n /\ x = name)
    <3>1. x \in DOMAIN peers[m] /\ peers'[m][x] = peers[m][x]
      BY <1>1, <1>3, <2>2
    <3>2. peers[m][x].node \in Peer /\ Known(peers[m][x].node, peers[m][x].token)
      BY <3>1 DEF PairingInvariant, PairingTypeOK, Entry, TokensAccepted, Known
    <3>3. QED BY <3>1, <3>2, StaysKnown DEF Known
  <2>3. QED BY <2>1, <2>2
<1>7. PortsApart'
  <2> SUFFICES ASSUME NEW m \in Peer \ portMoved
               PROVE  /\ ServePort \notin Ports(m)'
                      /\ \A x, y \in DOMAIN peers'[m] :
                           x # y /\ peers'[m][x].port # NoPort => peers'[m][x].port # peers'[m][y].port
    BY DEF PortsApart
  <2>1. /\ ServePort \notin Ports(m)
        /\ \A x, y \in DOMAIN peers[m] :
             x # y /\ peers[m][x].port # NoPort => peers[m][x].port # peers[m][y].port
    BY DEF PairingInvariant, PortsApart
  <2>2. CASE m # n
    BY <1>1, <2>1, <2>2 DEF Ports
  <2>3. CASE m = n
    <3>1. \A x \in D : peers[n][x].port # NoPort => peers[n][x].port \in Ports(n)
      BY DEF Ports
    <3>2. ServePort \notin Ports(m)'
      BY <1>3, <2>1, <2>3 DEF Ports
    <3>3. QED BY <1>3, <2>1, <2>3, <3>1, <3>2
  <2>4. QED BY <2>2, <2>3
<1>8. AddressIsVisitor'
  <2> SUFFICES ASSUME NEW m \in Peer, NEW x \in DOMAIN peers'[m], peers'[m][x].via = "tunnel"
               PROVE  peers'[m][x].at = peers'[m][x].port
    BY DEF AddressIsVisitor
  <2>1. CASE m = n /\ x = name
    BY <1>3, <2>1
  <2>2. CASE ~(m = n /\ x = name)
    BY <1>1, <1>3, <2>2 DEF PairingInvariant, AddressIsVisitor
  <2>3. QED BY <2>1, <2>2
<1>9. QED BY <1>1, <1>4, <1>5, <1>6, <1>7, <1>8

\* The codes there are, and perhaps one more that is as good.
LEMMA CodesKeep ==
  ASSUME PairingInvariant, Remembers, NEW c \in Code, Known(c.from, c.token)',
         codes' \subseteq codes \cup {c}
  PROVE  codes' \subseteq Code /\ CodesKnown'
<1>1. \A d \in codes : d \in Code /\ d.from \in Peer /\ Known(d.from, d.token)
  BY DEF PairingInvariant, PairingTypeOK, CodesKnown, Code
<1>2. \A d \in codes : Known(d.from, d.token)'
  <2> SUFFICES ASSUME NEW d \in codes PROVE Known(d.from, d.token)'
    OBVIOUS
  <2>1. d.from \in Peer /\ Known(d.from, d.token)
    BY <1>1
  <2>2. Known(d.from, d.token)'
    BY <2>1, StaysKnown
  <2>3. QED BY <2>2
<1>3. QED BY <1>1, <1>2 DEF CodesKnown

\* Codes that are only used or expire.
LEMMA CodesStay ==
  ASSUME PairingInvariant, Remembers, codes' \subseteq codes
  PROVE  codes' \subseteq Code /\ CodesKnown'
<1> SUFFICES ASSUME NEW d \in codes' PROVE d \in Code /\ Known(d.from, d.token)'
  BY DEF CodesKnown
<1>1. d \in codes /\ d \in Code /\ d.from \in Peer /\ Known(d.from, d.token)
  BY DEF PairingInvariant, PairingTypeOK, CodesKnown, Code
<1>2. QED BY <1>1, StaysKnown

\* An invite or a code in reply names its node, with a token it accepts or none.
LEMMA InvitedKnown ==
  ASSUME PairingInvariant, NEW n \in Peer, UNCHANGED revoked,
         \/ createInboundToken(n, minted + 1) /\ codes' = codes \cup {buildInvite(n, minted + 1)}
         \/ UNCHANGED <<minted, tokens>> /\ codes' = codes \cup {buildInvite(n, NoToken)}
         \/ UNCHANGED <<minted, tokens, codes>>
  PROVE  /\ Remembers /\ tokens' \in [Peer -> SUBSET Nat] /\ minted' \in Nat
         /\ codes' \subseteq Code /\ CodesKnown'
<1>1. PairingTypeOK /\ minted \in Nat /\ tokens \in [Peer -> SUBSET Nat]
  BY DEF PairingInvariant, PairingTypeOK
<1>2. \A t \in Nat : buildInvite(n, t) \in Code /\ buildInvite(n, t).from = n /\ buildInvite(n, t).token = t
  BY <1>1 DEF buildInvite, Code, PairingTypeOK
<1>3. CASE createInboundToken(n, minted + 1) /\ codes' = codes \cup {buildInvite(n, minted + 1)}
  <2>1. PICK t \in Nat : t = minted + 1
    BY <1>1
  <2>2. minted' = t /\ tokens' = [tokens EXCEPT ![n] = @ \cup {t}]
    BY <1>3, <2>1 DEF createInboundToken
  <2>3. Remembers /\ Known(n, t)'
    BY <1>1, <2>2 DEF Remembers, Known
  <2>4. tokens' \in [Peer -> SUBSET Nat] /\ minted' \in Nat
    BY <1>1, <2>1, <2>2
  <2>5. PICK c \in Code : c.from = n /\ c.token = t /\ codes' \subseteq codes \cup {c}
    BY <1>2, <1>3, <2>1
  <2>6. Known(c.from, c.token)'
    BY <2>3, <2>5
  <2>7. QED BY <2>3, <2>4, <2>5, <2>6, CodesKeep
<1>4. CASE UNCHANGED <<minted, tokens>> /\ codes' = codes \cup {buildInvite(n, NoToken)}
  <2>1. Remembers
    BY <1>4 DEF Remembers
  <2>2. PICK c \in Code : c.from = n /\ c.token = NoToken /\ codes' \subseteq codes \cup {c}
    BY <1>2, <1>4 DEF NoToken
  <2>3. Known(c.from, c.token)'
    BY <2>2 DEF Known
  <2>4. QED BY <1>1, <1>4, <2>1, <2>2, <2>3, CodesKeep
<1>5. CASE UNCHANGED <<minted, tokens, codes>>
  <2>1. Remembers
    BY <1>5 DEF Remembers
  <2>2. QED BY <1>1, <1>5, <2>1, CodesStay
<1>6. QED BY <1>3, <1>4, <1>5

\* A command counts.
LEMMA CommandCounts ==
  ASSUME PairingInvariant, Command
  PROVE  commands < MaxCommands /\ commands' = commands + 1 /\ commands' \in 0 .. MaxCommands
BY PairingAssumption DEF PairingInvariant, PairingTypeOK, Command

\* A port of the tunnel is free.
LEMMA AllocatedPort ==
  ASSUME PairingInvariant, NEW n \in Peer, commands < MaxCommands
  PROVE  LET port == allocateVisitorPort(n) IN
         port \in 0 .. MaxPort + 1 /\ port \in Nat /\ port \notin Ports(n) \cup {ServePort}
<1>1. PortBase \in Nat /\ MaxPort \in Nat
  BY PairingAssumption
<1>2. QED BY <1>1, AllocatedIsFree

\* The entry that is made of a code is as good as the code.
LEMMA AcceptedEntry ==
  ASSUME PairingInvariant, NEW n \in Peer, NEW c \in codes, commands < MaxCommands
  PROVE  LET entry == peerEntryFromInvite(n, c) IN
         /\ entry \in Entry /\ entry.node = c.from /\ entry.token = c.token
         /\ entry.port = NoPort \/ entry.port \notin Ports(n) \cup {ServePort}
         /\ entry.via = "tunnel" => entry.at = entry.port
<1> DEFINE port == IF c.stcp = NoServer THEN NoPort ELSE allocateVisitorPort(n)
<1>1. c \in Code
  BY DEF PairingInvariant, PairingTypeOK
<1>2. /\ port \in 0 .. MaxPort + 1 /\ port \in Nat /\ NoPort \in Nat
      /\ port = NoPort \/ port \notin Ports(n) \cup {ServePort}
  <2>1. NoPort \in 0 .. MaxPort + 1 /\ NoPort \in Nat
    BY PairingAssumption DEF NoPort
  <2>2. QED BY <2>1, AllocatedPort
<1> HIDE DEF port
<1>3. peerEntryFromInvite(n, c) =
        [node |-> c.from, token |-> c.token, port |-> port,
         via |-> IF c.stcp # NoServer /\ c.stcp = tunnel[n] THEN "tunnel" ELSE c.url,
         at |-> IF c.stcp # NoServer /\ c.stcp = tunnel[n] THEN port ELSE NoPort]
  BY DEF peerEntryFromInvite, port
<1>4. QED BY <1>1, <1>2, <1>3 DEF Entry, Code

-----------------------------------------------------------------------------
(* One lemma for each action.                                              *)

\* An invite adds a token and a code.
LEMMA InviteKeeps ==
  ASSUME PairingInvariant, NEW n \in Peer, invite(n) PROVE PairingInvariant'
<1>1. /\ UNCHANGED <<peers, tunnel, held, revoked, portMoved>>
      /\ commands' = commands + 1 /\ commands' \in 0 .. MaxCommands
  BY CommandCounts DEF invite
<1>2. /\ Remembers /\ tokens' \in [Peer -> SUBSET Nat] /\ minted' \in Nat
      /\ codes' \subseteq Code /\ CodesKnown'
  BY <1>1, InvitedKnown DEF invite
<1>3. FewPeers' /\ TokensAccepted' /\ PortsApart' /\ AddressIsVisitor'
  BY <1>1, <1>2, PeersStay
<1>4. QED BY <1>1, <1>2, <1>3 DEF PairingInvariant, PairingTypeOK

\* A code is accepted, under any name, and perhaps answered with another.
LEMMA AcceptKeeps ==
  ASSUME PairingInvariant, NEW n \in Peer, NEW c \in codes, NEW name, accept(n, c, name)
  PROVE  PairingInvariant'
<1>1. /\ UNCHANGED <<tunnel, held, revoked, portMoved>>
      /\ upsertPeer(n, name, peerEntryFromInvite(n, c))
      /\ commands < MaxCommands /\ commands' = commands + 1 /\ commands' \in 0 .. MaxCommands
  BY CommandCounts DEF accept
<1>2. /\ Remembers /\ tokens' \in [Peer -> SUBSET Nat] /\ minted' \in Nat
      /\ codes' \subseteq Code /\ CodesKnown'
  BY <1>1, InvitedKnown DEF accept
<1>3. PICK entry \in Entry :
        /\ entry = peerEntryFromInvite(n, c)
        /\ entry.node = c.from /\ entry.token = c.token
        /\ entry.port = NoPort \/ entry.port \notin Ports(n) \cup {ServePort}
        /\ entry.via = "tunnel" => entry.at = entry.port
  BY <1>1, AcceptedEntry
<1>4. Known(entry.node, entry.token)'
  <2>1. c.from \in Peer /\ Known(c.from, c.token)
    BY DEF PairingInvariant, PairingTypeOK, CodesKnown, Code
  <2>2. Known(c.from, c.token)'
    BY <1>2, <2>1, StaysKnown
  <2>3. QED BY <1>3, <2>2
<1>5. upsertPeer(n, name, entry)
  BY <1>1, <1>3
<1>6. /\ peers' = [m \in Peer |-> peers'[m]]
      /\ \A m \in Peer : peers'[m] \in [DOMAIN peers'[m] -> Entry]
      /\ FewPeers' /\ TokensAccepted' /\ PortsApart' /\ AddressIsVisitor'
  BY <1>1, <1>2, <1>3, <1>4, <1>5, UpsertKeeps
<1>7. QED BY <1>1, <1>2, <1>6 DEF PairingInvariant, PairingTypeOK

\* A step that leaves tokens, peers and codes as they are, or drops codes.
LEMMA RestKeeps ==
  ASSUME PairingInvariant, UNCHANGED <<tokens, peers, minted, revoked, portMoved>>,
         codes' \subseteq codes, commands' \in {commands, commands + 1},
         commands' \in 0 .. MaxCommands, tunnel' \in [Peer -> Server \cup {NoServer}],
         held' \in [Peer -> SUBSET (PortBase .. MaxPort)]
  PROVE  PairingInvariant'
<1>1. Remembers
  BY DEF Remembers
<1>2. codes' \subseteq Code /\ CodesKnown'
  BY <1>1, CodesStay
<1>3. FewPeers' /\ TokensAccepted' /\ PortsApart' /\ AddressIsVisitor'
  BY <1>1, PeersStay
<1>4. QED BY <1>2, <1>3 DEF PairingInvariant, PairingTypeOK

\* An invite expires, a tunnel is set up, another process begins to listen.
LEMMA AroundKeeps ==
  ASSUME PairingInvariant, NEW n \in Peer,
         \/ \E c \in codes : expireInvite(c)
         \/ \E s \in Server \cup {NoServer} : setTunnel(n, s)
         \/ \E port \in PortBase .. MaxPort : listen(n, port)
  PROVE  PairingInvariant'
<1>1. /\ commands \in 0 .. MaxCommands /\ tunnel \in [Peer -> Server \cup {NoServer}]
      /\ held \in [Peer -> SUBSET (PortBase .. MaxPort)]
  BY DEF PairingInvariant, PairingTypeOK
<1>2. CASE \E c \in codes : expireInvite(c)
  BY <1>1, <1>2, RestKeeps DEF expireInvite
<1>3. CASE \E s \in Server \cup {NoServer} : setTunnel(n, s)
  BY <1>1, <1>3, RestKeeps, CommandCounts DEF setTunnel
<1>4. CASE \E port \in PortBase .. MaxPort : listen(n, port)
  BY <1>1, <1>4, RestKeeps DEF listen
<1>5. QED BY <1>2, <1>3, <1>4

\* A peer that is added by hand or imported has one of its own tokens, or none.
LEMMA AddPeerKeeps ==
  ASSUME PairingInvariant, NEW n \in Peer, NEW p \in Peer, NEW name, NEW t \in tokens[p] \cup {NoToken},
         addPeer(n, name, p, t) \/ importPeer(n, name, p, t)
  PROVE  PairingInvariant'
<1> DEFINE local == [node |-> p, token |-> t, port |-> NoPort, via |-> "local", at |-> NoPort]
<1>1. /\ UNCHANGED <<tokens, tunnel, codes, held, minted, revoked, portMoved>>
      /\ upsertPeer(n, name, ByTunnel(n, p, t)) \/ upsertPeer(n, name, local)
      /\ commands < MaxCommands /\ commands' = commands + 1 /\ commands' \in 0 .. MaxCommands
  BY CommandCounts DEF addPeer, importPeer
<1>2. t \in Nat /\ NoPort \in Nat /\ NoPort \in 0 .. MaxPort + 1
  BY PairingAssumption DEF PairingInvariant, PairingTypeOK, NoToken, NoPort
<1>3. PICK entry \in Entry :
        /\ upsertPeer(n, name, entry) /\ entry.node = p /\ entry.token = t
        /\ entry.port = NoPort \/ entry.port \notin Ports(n) \cup {ServePort}
        /\ entry.via = "tunnel" => entry.at = entry.port
  <2>1. CASE upsertPeer(n, name, local)
    BY <1>2, <2>1 DEF Entry
  <2>2. CASE upsertPeer(n, name, ByTunnel(n, p, t))
    <3>1. PICK port \in 0 .. MaxPort + 1 :
            port = allocateVisitorPort(n) /\ port \in Nat /\ port \notin Ports(n) \cup {ServePort}
      BY <1>1, AllocatedPort
    <3>2. ByTunnel(n, p, t) = [node |-> p, token |-> t, port |-> port, via |-> "tunnel", at |-> port]
      BY <3>1 DEF ByTunnel
    <3>3. QED BY <1>2, <2>2, <3>1, <3>2 DEF Entry
  <2>3. QED BY <1>1, <2>1, <2>2
<1>4. Remembers
  BY <1>1 DEF Remembers
<1>5. Known(entry.node, entry.token)'
  BY <1>1, <1>3 DEF Known
<1>6. /\ peers' = [m \in Peer |-> peers'[m]]
      /\ \A m \in Peer : peers'[m] \in [DOMAIN peers'[m] -> Entry]
      /\ FewPeers' /\ TokensAccepted' /\ PortsApart' /\ AddressIsVisitor'
  BY <1>1, <1>3, <1>4, <1>5, UpsertKeeps
<1>7. codes' \subseteq Code /\ CodesKnown'
  BY <1>1, <1>4, CodesStay
<1>8. QED BY <1>1, <1>6, <1>7 DEF PairingInvariant, PairingTypeOK

\* A peer that is removed leaves the others as they are.
LEMMA RemovePeerKeeps ==
  ASSUME PairingInvariant, NEW n \in Peer, NEW name, removePeer(n, name) PROVE PairingInvariant'
<1> DEFINE D == DOMAIN peers[n]
<1>1. /\ UNCHANGED <<tokens, tunnel, codes, held, minted, revoked, portMoved>>
      /\ commands' = commands + 1 /\ commands' \in 0 .. MaxCommands
  BY CommandCounts DEF removePeer
<1>2. /\ peers' = [m \in Peer |-> peers'[m]]
      /\ peers'[n] = [x \in D \ {name} |-> peers[n][x]]
      /\ \A m \in Peer \ {n} : peers'[m] = peers[m]
  BY DEF removePeer, PairingInvariant, PairingTypeOK
<1>3. \A m \in Peer : /\ DOMAIN peers'[m] \subseteq DOMAIN peers[m]
                      /\ \A x \in DOMAIN peers'[m] : peers'[m][x] = peers[m][x]
  BY <1>2
<1>4. \A m \in Peer : peers'[m] \in [DOMAIN peers'[m] -> Entry]
  BY <1>2 DEF PairingInvariant, PairingTypeOK
<1>5. FewPeers'
  <2> SUFFICES ASSUME NEW m \in Peer
               PROVE  IsFiniteSet(DOMAIN peers'[m]) /\ Cardinality(DOMAIN peers'[m]) <= commands + 1
    BY <1>1 DEF FewPeers
  <2>1. IsFiniteSet(DOMAIN peers[m]) /\ Cardinality(DOMAIN peers[m]) <= commands /\ commands \in Nat
    BY PairingAssumption DEF PairingInvariant, FewPeers, PairingTypeOK
  <2>2. IsFiniteSet(DOMAIN peers'[m]) /\ Cardinality(DOMAIN peers'[m]) <= Cardinality(DOMAIN peers[m])
    BY <1>3, <2>1, FS_Subset
  <2>3. Cardinality(DOMAIN peers[m]) \in Nat /\ Cardinality(DOMAIN peers'[m]) \in Nat
    BY <2>1, <2>2, FS_CardinalityType
  <2>4. QED BY <2>1, <2>2, <2>3
<1>6. TokensAccepted' /\ AddressIsVisitor'
  BY <1>1, <1>3 DEF PairingInvariant, TokensAccepted, AddressIsVisitor
<1>7. PortsApart'
  <2>1. \A m \in Peer : Ports(m)' \subseteq Ports(m)
    BY <1>3 DEF Ports
  <2>2. QED BY <1>1, <1>3, <2>1 DEF PairingInvariant, PortsApart
<1>8. CodesKnown'
  BY <1>1 DEF PairingInvariant, CodesKnown, Known
<1>9. QED BY <1>1, <1>2, <1>4, <1>5, <1>6, <1>7, <1>8 DEF PairingInvariant, PairingTypeOK

\* Tokens that are removed are remembered as removed.
LEMMA RemoveTokensKeeps ==
  ASSUME PairingInvariant, NEW n \in Peer, NEW gone \in SUBSET tokens[n], removeTokens(n, gone)
  PROVE  PairingInvariant'
<1>1. /\ UNCHANGED <<peers, tunnel, codes, held, minted, portMoved>>
      /\ commands' = commands + 1 /\ commands' \in 0 .. MaxCommands
      /\ tokens' = [tokens EXCEPT ![n] = @ \ gone] /\ revoked' = revoked \cup gone
  BY CommandCounts DEF removeTokens
<1>2. tokens \in [Peer -> SUBSET Nat] /\ revoked \subseteq Nat
  BY DEF PairingInvariant, PairingTypeOK
<1>3. Remembers
  BY <1>1, <1>2 DEF Remembers
<1>4. tokens' \in [Peer -> SUBSET Nat] /\ revoked' \subseteq Nat
  BY <1>1, <1>2
<1>5. FewPeers' /\ TokensAccepted' /\ PortsApart' /\ AddressIsVisitor'
  BY <1>1, <1>3, PeersStay
<1>6. codes' \subseteq Code /\ CodesKnown'
  BY <1>1, <1>3, CodesStay
<1>7. QED BY <1>1, <1>4, <1>5, <1>6 DEF PairingInvariant, PairingTypeOK

\* A visitor that is moved takes the address of its peer with it.
LEMMA MovedEntry ==
  ASSUME PairingInvariant, NEW n \in Peer, NEW entry \in Entry, entry.via = "tunnel" => entry.at = entry.port
  PROVE  /\ movedTo(n, entry) \in Entry
         /\ movedTo(n, entry).node = entry.node /\ movedTo(n, entry).token = entry.token
         /\ movedTo(n, entry).via = "tunnel" => movedTo(n, entry).at = movedTo(n, entry).port
<1> DEFINE port == NextFree(n, entry.port)
<1>1. port \in 0 .. MaxPort + 1 /\ port \in Nat
  <2>1. entry.port \in 0 .. MaxPort + 1 /\ MaxPort \in Nat
    BY PairingAssumption DEF Entry
  <2>2. QED BY <2>1, NextFreeType
<1> HIDE DEF port
<1>2. movedTo(n, entry) = IF entry.port \in held[n]
                          THEN [entry EXCEPT !.port = port, !.via = "tunnel", !.at = port] ELSE entry
  BY DEF movedTo, port
<1>3. QED BY <1>1, <1>2 DEF Entry

\* Ports that are moved leave the names and the tokens of the peers as they are.
LEMMA SyncKeeps ==
  ASSUME PairingInvariant, NEW n \in Peer, sync(n) PROVE PairingInvariant'
<1>1. /\ UNCHANGED <<tokens, tunnel, codes, held, minted, revoked>>
      /\ commands' = commands + 1 /\ commands' \in 0 .. MaxCommands
      /\ portMoved' = portMoved \cup {n}
  BY CommandCounts DEF sync
<1>2. /\ peers' = [m \in Peer |-> peers'[m]]
      /\ peers'[n] = [x \in DOMAIN peers[n] |-> movedTo(n, peers[n][x])]
      /\ \A m \in Peer \ {n} : peers'[m] = peers[m]
  BY DEF sync, ensureVisitorPorts, PairingInvariant, PairingTypeOK
<1>3. \A x \in DOMAIN peers[n] :
        /\ peers'[n][x] \in Entry
        /\ peers'[n][x].node = peers[n][x].node /\ peers'[n][x].token = peers[n][x].token
        /\ peers'[n][x].via = "tunnel" => peers'[n][x].at = peers'[n][x].port
  <2> SUFFICES ASSUME NEW x \in DOMAIN peers[n]
               PROVE  LET moved == movedTo(n, peers[n][x]) IN
                      /\ moved \in Entry
                      /\ moved.node = peers[n][x].node /\ moved.token = peers[n][x].token
                      /\ moved.via = "tunnel" => moved.at = moved.port
    BY <1>2
  <2>1. peers[n][x] \in Entry /\ (peers[n][x].via = "tunnel" => peers[n][x].at = peers[n][x].port)
    BY DEF PairingInvariant, PairingTypeOK, AddressIsVisitor
  <2>2. QED BY <2>1, MovedEntry
<1>4. \A m \in Peer : DOMAIN peers'[m] = DOMAIN peers[m] /\ peers'[m] \in [DOMAIN peers'[m] -> Entry]
  BY <1>2, <1>3 DEF PairingInvariant, PairingTypeOK
<1>5. FewPeers'
  <2> SUFFICES ASSUME NEW m \in Peer
               PROVE  IsFiniteSet(DOMAIN peers[m]) /\ Cardinality(DOMAIN peers[m]) <= commands + 1
    BY <1>1, <1>4 DEF FewPeers
  <2>1. IsFiniteSet(DOMAIN peers[m]) /\ Cardinality(DOMAIN peers[m]) <= commands /\ commands \in Nat
    BY PairingAssumption DEF PairingInvariant, FewPeers, PairingTypeOK
  <2>2. Cardinality(DOMAIN peers[m]) \in Nat
    BY <2>1, FS_CardinalityType
  <2>3. QED BY <2>1, <2>2
<1>6. TokensAccepted'
  <2> SUFFICES ASSUME NEW m \in Peer, NEW x \in DOMAIN peers[m]
               PROVE  peers'[m][x].token \in tokens[peers'[m][x].node] \cup revoked \cup {NoToken}
    BY <1>1, <1>4 DEF TokensAccepted
  <2>1. peers'[m][x].token = peers[m][x].token /\ peers'[m][x].node = peers[m][x].node
    BY <1>2, <1>3
  <2>2. QED BY <2>1 DEF PairingInvariant, TokensAccepted
<1>7. AddressIsVisitor'
  <2> SUFFICES ASSUME NEW m \in Peer, NEW x \in DOMAIN peers'[m], peers'[m][x].via = "tunnel"
               PROVE  peers'[m][x].at = peers'[m][x].port
    BY DEF AddressIsVisitor
  <2>1. x \in DOMAIN peers[m]
    BY <1>4
  <2>2. CASE m = n
    BY <2>1, <2>2, <1>3
  <2>3. CASE m # n
    BY <2>1, <2>3, <1>2 DEF PairingInvariant, AddressIsVisitor
  <2>4. QED BY <2>2, <2>3
<1>8. PortsApart'
  BY <1>1, <1>2 DEF PairingInvariant, PortsApart, Ports
<1>9. CodesKnown'
  BY <1>1 DEF PairingInvariant, CodesKnown, Known
<1>10. QED BY <1>1, <1>2, <1>4, <1>5, <1>6, <1>7, <1>8, <1>9 DEF PairingInvariant, PairingTypeOK

-----------------------------------------------------------------------------
\* At first nobody has a peer.
LEMMA PairingInitInvariant == PairingInit => PairingInvariant
<1> SUFFICES ASSUME PairingInit PROVE PairingInvariant
  OBVIOUS
<1>1. \A n \in Peer : peers[n] = <<>> /\ DOMAIN peers[n] = {} /\ peers[n] \in [{} -> Entry]
  BY DEF PairingInit
<1>2. PairingTypeOK
  BY <1>1, PairingAssumption DEF PairingInit, PairingTypeOK
<1>3. FewPeers
  BY <1>1, FS_EmptySet DEF PairingInit, FewPeers
<1>4. CodesKnown /\ TokensAccepted /\ PortsApart /\ AddressIsVisitor
  BY <1>1 DEF PairingInit, CodesKnown, TokensAccepted, PortsApart, AddressIsVisitor, Ports
<1>5. QED BY <1>2, <1>3, <1>4 DEF PairingInvariant

\* The invariant holds whatever commands the nodes run and whatever codes they use.
THEOREM PairingInvariantHolds == PairingSpec => []PairingInvariant
<1>1. ASSUME PairingInvariant, PairingNext PROVE PairingInvariant'
  <2>1. PICK n \in Peer :
          \/ invite(n)
          \/ \E c \in codes : accept(n, c, c.from) \/ (\E x \in Alias : accept(n, c, x)) \/ expireInvite(c)
          \/ \E p \in Peer \ {n} : \E x \in Alias \cup {p}, t \in (tokens[p] \cup {NoToken}) :
               addPeer(n, x, p, t) \/ importPeer(n, x, p, t)
          \/ \E x \in DOMAIN peers[n] : removePeer(n, x)
          \/ \E gone \in (SUBSET tokens[n]) \ {{}} : removeTokens(n, gone)
          \/ \E s \in Server \cup {NoServer} : setTunnel(n, s)
          \/ sync(n)
          \/ \E port \in PortBase .. MaxPort : listen(n, port)
    BY <1>1 DEF PairingNext
  <2>2. QED BY <1>1, <2>1, InviteKeeps, AcceptKeeps, AroundKeeps, AddPeerKeeps, RemovePeerKeeps,
               RemoveTokensKeeps, SyncKeeps
<1>2. ASSUME PairingInvariant, UNCHANGED pairingVars PROVE PairingInvariant'
  BY <1>2 DEF pairingVars, PairingInvariant, PairingTypeOK, FewPeers, CodesKnown, Known,
              TokensAccepted, PortsApart, AddressIsVisitor, Ports
<1>3. PairingInvariant /\ [PairingNext]_pairingVars => PairingInvariant'
  BY <1>1, <1>2
<1>4. QED BY <1>3, PairingInitInvariant, PTL DEF PairingSpec

\* Whatever codes are used late, twice or in the other direction: a token that is kept for
\* a peer is one the peer accepts, or has removed (createInboundToken, accept).
THEOREM TokensAcceptedHolds == PairingSpec => []TokensAccepted
BY PairingInvariantHolds, PTL DEF PairingInvariant

\* The search for a visitor port never ends at one that is taken (allocateVisitorPort).
THEOREM PortsApartHolds == PairingSpec => []PortsApart
BY PairingInvariantHolds, PTL DEF PairingInvariant

\* A peer that is reached through the tunnel is addressed where its visitor listens, also
\* after ports have been moved (ensureVisitorPorts).
THEOREM AddressIsVisitorHolds == PairingSpec => []AddressIsVisitor
BY PairingInvariantHolds, PTL DEF PairingInvariant

-----------------------------------------------------------------------------
(* The installation.                                                       *)

InstallPc == {"idle", "planned", "write", "writing", "done"}

Item == [id : {"mcp", "bridge", "other"}, with : Url \cup Settings \cup {NoUrl}, managed : BOOLEAN]

InstallState ==
  [pc : InstallPc, url : Url \cup {NoBridge}, bridge : Settings \cup {NoBridge}, exists : BOOLEAN,
   content : Seq(Item), from : Seq(Item), written : Nat, touched : BOOLEAN]

\* What the variables hold.
InstallTypeOK ==
  /\ patch = <<>> \/ (patch = <<patch[1]>> /\ patch[1] \in Seq(Item))
  /\ mine = <<>> \/ mine = <<mine[1]>>
  /\ install \in InstallState /\ (install.pc # "idle" => install.url \in Url)
  /\ editRaced \in BOOLEAN

\* The entries of the file.
Current == IF patch = <<>> THEN <<>> ELSE patch[1]

\* The inductive form of NothingLost: a command that is about to write has found no file,
\* and there was none, or has copied what is its owner's.
CopiedFirst ==
  /\ patch = <<>> => mine = <<>>
  /\ install.pc = "planned" /\ install.exists => patch # <<>>
  /\ ~editRaced =>
       /\ mine # <<>> => mine = patch \/ mine[1] \in backups
       /\ install.pc = "planned" /\ ~install.exists => mine = <<>>
       /\ install.pc \in {"write", "writing"} => mine = <<>> \/ mine[1] \in backups

\* The inductive form of InstallSettles: what is written is what was planned, and the
\* file, unless its owner has saved it meanwhile, is what the command believes it to be.
PlanFollowed ==
  /\ install.pc # "idle" => install.content = planned(install.from, install.url, install.bridge)
  /\ install.pc = "writing" => install.written <= Len(install.content)
  /\ ~install.touched =>
       /\ install.pc \in {"planned", "write"} => Current = install.from
       /\ install.pc = "writing" => Current = SubSeq(install.content, 1, install.written)
       /\ install.pc = "done" => Current = install.content
       /\ ~install.exists => install.from = <<>>
       /\ install.exists /\ install.pc \in {"write", "writing"} => install.from \in backups
       /\ install.exists /\ install.pc = "done" =>
            install.content = install.from \/ install.from \in backups

InstallInvariant == InstallTypeOK /\ CopiedFirst /\ PlanFollowed

\* The places of a list that satisfy a condition have a first one.
LEMMA FirstIsIn ==
  ASSUME NEW S \in SUBSET Nat, S # {} PROVE FirstOf(S) \in S
BY HasLeast DEF FirstOf

\* The entry of the MCP client: one is added where there is none, else the next url
\* behind it is changed or none, and all other entries stay where and as they are.
LEMMA McpPlanned ==
  ASSUME NEW b \in Seq(Item), NEW url \in Url
  PROVE  LET items == planMcp(b, url) IN
         /\ items \in Seq(Item)
         /\ DOMAIN b \subseteq DOMAIN items
         /\ \A i \in DOMAIN b :
              items[i].id = b[i].id /\ (b[i].id = "bridge" => items[i] = b[i])
         /\ \E x : \A i \in DOMAIN b : i # x => items[i] = b[i]
         /\ OwnUrl(b) => \A i \in At(b, "other") : items[i] = b[i]
         /\ \A i \in DOMAIN items : items[i].id # "mcp" => i \in DOMAIN b
         /\ At(b, "mcp") # {} => DOMAIN items = DOMAIN b
         /\ At(b, "mcp") = {} => At(items, "mcp") = {Len(b) + 1}
         /\ Unchanged(items, url) \/ Behind(items) = {}
         /\ OwnUrl(b) => \E i \in DOMAIN items : items[i].id # "bridge" /\ items[i].with = url
<1> DEFINE items == planMcp(b, url)
           next == FirstOf(Behind(b))
           first == FirstOf(At(b, "mcp"))
<1>1. b \in [1 .. Len(b) -> Item] /\ Len(b) \in Nat /\ DOMAIN b = 1 .. Len(b)
  BY LenProperties
<1>2. CASE At(b, "mcp") = {}
  <2>1. items = Append(b, Mcp(url)) /\ Mcp(url) \in Item
    BY <1>2 DEF planMcp, Mcp, Item
  <2>2. /\ items \in Seq(Item) /\ Len(items) = Len(b) + 1 /\ DOMAIN items = 1 .. Len(b) + 1
        /\ \A i \in 1 .. Len(b) : items[i] = b[i]
        /\ items[Len(b) + 1] = Mcp(url)
    BY <1>1, <2>1, AppendProperties, LenProperties
  <2>3. \A i \in 1 .. Len(b) : b[i].id # "mcp"
    BY <1>1, <1>2 DEF At
  <2>4. At(items, "mcp") = {Len(b) + 1}
    BY <1>1, <2>2, <2>3 DEF At, Mcp
  <2>5. items[Len(b) + 1].id # "bridge" /\ items[Len(b) + 1].with = url
    BY <2>2 DEF Mcp
  <2>6. \A i \in DOMAIN items : items[i].id # "mcp" => i \in DOMAIN b
    BY <1>1, <2>2 DEF Mcp
  <2>7. Len(b) + 1 \in DOMAIN items
    BY <1>1, <2>2
  <2>8. \A i \in DOMAIN b : i \in DOMAIN items /\ items[i] = b[i]
    BY <1>1, <2>2
  <2> HIDE DEF items
  <2>9. \E i \in DOMAIN items : items[i].id # "bridge" /\ items[i].with = url
    BY <2>5, <2>7
  <2>10. Unchanged(items, url)
    BY <2>4, <2>9 DEF Unchanged
  <2>11. items \in Seq(Item) /\ DOMAIN b \subseteq DOMAIN items
    BY <2>2, <2>8
  <2>12. \A i \in At(b, "other") : items[i] = b[i]
    BY <2>8 DEF At
  <2>13. \E x : \A i \in DOMAIN b : i # x => items[i] = b[i]
    BY <2>8
  <2>14. \A i \in DOMAIN b : items[i].id = b[i].id /\ (b[i].id = "bridge" => items[i] = b[i])
    BY <2>8
  <2>15. QED BY <1>2, <2>4, <2>6, <2>9, <2>10, <2>11, <2>12, <2>13, <2>14 DEF items
<1>3. CASE At(b, "mcp") # {} /\ (Unchanged(b, url) \/ Behind(b) = {})
  <2>1. items = b
    BY <1>3 DEF planMcp
  <2>2. ASSUME OwnUrl(b) PROVE \E i \in DOMAIN b : b[i].id # "bridge" /\ b[i].with = url
    BY <1>3, <2>2 DEF OwnUrl, Unchanged
  <2> HIDE DEF items
  <2>3. \A i \in At(b, "other") : items[i] = b[i]
    BY <2>1
  <2>4. \E x : \A i \in DOMAIN b : i # x => items[i] = b[i]
    BY <2>1
  <2>5. QED BY <1>1, <1>3, <2>1, <2>2, <2>3, <2>4 DEF items
<1>4. CASE At(b, "mcp") # {} /\ ~(Unchanged(b, url) \/ Behind(b) = {})
  <2>1. items = [b EXCEPT ![next].with = url]
    BY <1>4 DEF planMcp
  <2>2. At(b, "mcp") \in SUBSET Nat /\ Behind(b) \in SUBSET Nat
    BY <1>1 DEF At, Behind
  <2>3. first \in At(b, "mcp") /\ next \in Behind(b)
    BY <1>4, <2>2, FirstIsIn
  <2>4. next \in 1 .. Len(b) /\ b[next].id # "bridge" /\ b[next] \in Item
    BY <1>1, <2>3 DEF Behind, HasUrl
  <2>5. [b[next] EXCEPT !.with = url] \in Item
    BY <2>4 DEF Item
  <2>6. items = [b EXCEPT ![next] = [b[next] EXCEPT !.with = url]]
    BY <2>1
  <2>7. items \in Seq(Item) /\ DOMAIN items = DOMAIN b /\ Len(items) = Len(b)
    BY <1>1, <2>4, <2>5, <2>6, ExceptSeq
  <2>8. /\ items[next] = [b[next] EXCEPT !.with = url]
        /\ \A i \in DOMAIN b : i # next => items[i] = b[i]
    BY <1>1, <2>4, <2>6
  <2>9. items[next].id = b[next].id /\ items[next].with = url
    BY <2>4, <2>8 DEF Item
  <2>10. \A i \in DOMAIN b : items[i].id = b[i].id
    BY <2>8, <2>9
  <2>11. At(items, "mcp") = At(b, "mcp")
    BY <2>7, <2>10 DEF At
  <2>12. Unchanged(items, url)
    BY <1>1, <1>4, <2>4, <2>7, <2>9, <2>11 DEF Unchanged
  <2>13. ASSUME OwnUrl(b) PROVE b[next].id = "mcp"
    <3>1. first \in Behind(b)
      BY <1>4, <2>13 DEF OwnUrl
    <3>2. next <= first
      BY <2>2, <3>1, HasLeast DEF FirstOf
    <3>3. next >= first
      BY <1>1, <2>2, <2>3 DEF Behind
    <3>4. next = first
      BY <1>1, <2>2, <2>3, <3>2, <3>3
    <3>5. QED BY <2>3, <3>4 DEF At
  <2> HIDE DEF items, next
  <2>14. \E x : \A i \in DOMAIN b : i # x => items[i] = b[i]
    BY <2>8
  <2>15. OwnUrl(b) => \A i \in At(b, "other") : items[i] = b[i]
    BY <2>8, <2>13 DEF At
  <2>16. \A i \in DOMAIN b : b[i].id = "bridge" => items[i] = b[i]
    BY <2>4, <2>8
  <2>17. \E i \in DOMAIN items : items[i].id # "bridge" /\ items[i].with = url
    BY <1>1, <2>4, <2>7, <2>9
  <2>18. QED BY <1>4, <2>7, <2>10, <2>12, <2>14, <2>15, <2>16, <2>17 DEF items
<1>5. QED BY <1>2, <1>3, <1>4

\* The entry of the bridge: one is added where there is none, the first that is laid out
\* as written before is changed, and a second time nothing is.
LEMMA BridgePlanned ==
  ASSUME NEW b \in Seq(Item), NEW settings \in Settings \cup {NoBridge}
  PROVE  LET items == planBridge(b, settings) IN
         /\ items \in Seq(Item)
         /\ DOMAIN b \subseteq DOMAIN items
         /\ \A i \in DOMAIN b : items[i].id = b[i].id /\ (b[i].id # "bridge" => items[i] = b[i])
         /\ \A i \in DOMAIN items : items[i].id # "bridge" => i \in DOMAIN b
         /\ planBridge(items, settings) = items
         /\ settings # NoBridge /\ At(b, "bridge") = {} =>
              \E i \in At(items, "bridge") : items[i].with = settings
<1> DEFINE items == planBridge(b, settings)
           KnownAt(s) == {i \in At(s, "bridge") : s[i].managed}
           first == FirstOf(KnownAt(b))
<1>1. b \in [1 .. Len(b) -> Item] /\ Len(b) \in Nat /\ DOMAIN b = 1 .. Len(b)
  BY LenProperties
<1>2. CASE settings = NoBridge
  <2>1. items = b /\ planBridge(items, settings) = items
    BY <1>2 DEF planBridge
  <2>2. QED BY <1>1, <1>2, <2>1
<1>3. CASE settings # NoBridge /\ At(b, "bridge") = {}
  <2>1. items = Append(b, Bridge(settings)) /\ Bridge(settings) \in Item
    BY <1>3 DEF planBridge, Bridge, Item
  <2>2. /\ items \in Seq(Item) /\ Len(items) = Len(b) + 1 /\ DOMAIN items = 1 .. Len(b) + 1
        /\ \A i \in 1 .. Len(b) : items[i] = b[i]
        /\ items[Len(b) + 1] = Bridge(settings)
    BY <1>1, <2>1, AppendProperties, LenProperties
  <2>3. \A i \in 1 .. Len(b) : b[i].id # "bridge"
    BY <1>1, <1>3 DEF At
  <2>4. At(items, "bridge") = {Len(b) + 1} /\ KnownAt(items) = {Len(b) + 1}
    BY <1>1, <2>2, <2>3 DEF At, Bridge
  <2>5. FirstOf(KnownAt(items)) = Len(b) + 1
    <3>1. KnownAt(items) \in SUBSET Nat /\ KnownAt(items) # {}
      BY <1>1, <2>4
    <3>2. FirstOf(KnownAt(items)) \in KnownAt(items)
      BY <3>1, FirstIsIn
    <3>3. QED BY <2>4, <3>2
  <2>6. planBridge(items, settings) = [items EXCEPT ![Len(b) + 1] = Bridge(settings)]
    BY <1>3, <2>4, <2>5 DEF planBridge
  <2>7. planBridge(items, settings) = items
    BY <1>1, <2>2, <2>6, LenProperties
  <2>8. items[Len(b) + 1].id = "bridge" /\ items[Len(b) + 1].with = settings
    BY <2>2 DEF Bridge
  <2>9. QED BY <1>1, <2>2, <2>3, <2>4, <2>7, <2>8
<1>4. CASE settings # NoBridge /\ At(b, "bridge") # {} /\ KnownAt(b) = {}
  <2>1. items = b /\ planBridge(items, settings) = items
    BY <1>4 DEF planBridge
  <2>2. QED BY <1>1, <1>4, <2>1
<1>5. CASE settings # NoBridge /\ At(b, "bridge") # {} /\ KnownAt(b) # {}
  <2>1. items = [b EXCEPT ![first] = Bridge(settings)]
    BY <1>5 DEF planBridge
  <2>2. KnownAt(b) \in SUBSET Nat
    BY <1>1 DEF At
  <2>3. first \in KnownAt(b)
    BY <1>5, <2>2, FirstIsIn
  <2>4. first \in 1 .. Len(b) /\ b[first].id = "bridge" /\ b[first].managed
    BY <1>1, <2>3 DEF At
  <2>5. Bridge(settings) \in Item
    BY <1>5 DEF Bridge, Item
  <2>6. items \in Seq(Item) /\ DOMAIN items = DOMAIN b /\ Len(items) = Len(b)
    BY <1>1, <2>1, <2>4, <2>5, ExceptSeq
  <2>7. items[first] = Bridge(settings) /\ \A i \in DOMAIN b : i # first => items[i] = b[i]
    BY <1>1, <2>1, <2>4
  <2>8. items[first].id = "bridge" /\ items[first].managed
    BY <2>7 DEF Bridge
  <2>9. At(items, "bridge") = At(b, "bridge") /\ KnownAt(items) = KnownAt(b)
    BY <1>1, <2>4, <2>6, <2>7, <2>8 DEF At
  <2>10. planBridge(items, settings) = [items EXCEPT ![first] = Bridge(settings)]
    BY <1>5, <2>9 DEF planBridge
  <2>11. planBridge(items, settings) = items
    BY <1>1, <2>1, <2>4, <2>10
  <2>12. QED BY <1>1, <1>5, <2>4, <2>6, <2>7, <2>8, <2>11
<1>6. QED BY <1>2, <1>3, <1>4, <1>5

\* What is replaced, and whether anything is, does not depend on the bridge.
LEMMA BridgeAside ==
  ASSUME NEW a, NEW b, NEW url,
         \A i : (i \in DOMAIN a /\ a[i].id # "bridge") <=> (i \in DOMAIN b /\ b[i].id # "bridge"),
         \A i \in DOMAIN a : a[i].id # "bridge" => b[i] = a[i]
  PROVE  /\ At(b, "mcp") = At(a, "mcp") /\ At(b, "other") = At(a, "other")
         /\ Behind(b) = Behind(a) /\ (Unchanged(b, url) <=> Unchanged(a, url))
<1>1. At(b, "mcp") = At(a, "mcp") /\ At(b, "other") = At(a, "other")
  BY DEF At
<1>2. \A i : (i \in DOMAIN a /\ HasUrl(a[i])) <=> (i \in DOMAIN b /\ HasUrl(b[i]))
  BY DEF HasUrl
<1>3. Behind(b) = Behind(a)
  <2>1. \A i \in Behind(a) : i \in Behind(b)
    BY <1>1, <1>2 DEF Behind, HasUrl
  <2>2. \A i \in Behind(b) : i \in Behind(a)
    BY <1>1, <1>2 DEF Behind, HasUrl
  <2>3. QED BY <2>1, <2>2 DEF Behind
<1>4. QED BY <1>1, <1>3 DEF Unchanged

\* The entries of other programs that a plan has changed.
Rewritten(before, items) == {i \in At(before, "other") : items[i] # before[i]}

\* What the command plans settles the file, whatever is in it.
LEMMA PlanSettles ==
  ASSUME NEW before \in Seq(Item), NEW url \in Url, NEW settings \in Settings \cup {NoBridge}
  PROVE  LET items == planned(before, url, settings) IN
         /\ items \in Seq(Item)
         /\ At(items, "other") = At(before, "other")
         /\ Cardinality(Rewritten(before, items)) <= 1
         /\ Rewritten(before, items) # {} => ~OwnUrl(before)
         /\ planned(items, url, settings) = items
         /\ Cardinality(At(before, "mcp")) <= 1 => Cardinality(At(items, "mcp")) = 1
         /\ settings # NoBridge /\ At(before, "bridge") = {} =>
              \E i \in At(items, "bridge") : items[i].with = settings
         /\ OwnUrl(before) /\ (\A i \in At(items, "other") : items[i].with # url) =>
              \E i \in At(items, "mcp") : items[i].with = url
<1> DEFINE mid == planMcp(before, url)
           items == planned(before, url, settings)
<1>1. /\ mid \in Seq(Item)
      /\ DOMAIN before \subseteq DOMAIN mid
      /\ \A i \in DOMAIN before :
           mid[i].id = before[i].id /\ (before[i].id = "bridge" => mid[i] = before[i])
      /\ \E x : \A i \in DOMAIN before : i # x => mid[i] = before[i]
      /\ OwnUrl(before) => \A i \in At(before, "other") : mid[i] = before[i]
      /\ \A i \in DOMAIN mid : mid[i].id # "mcp" => i \in DOMAIN before
      /\ At(before, "mcp") # {} => DOMAIN mid = DOMAIN before
      /\ At(before, "mcp") = {} => At(mid, "mcp") = {Len(before) + 1}
      /\ Unchanged(mid, url) \/ Behind(mid) = {}
      /\ OwnUrl(before) => \E i \in DOMAIN mid : mid[i].id # "bridge" /\ mid[i].with = url
  BY McpPlanned
<1>2. items = planBridge(mid, settings)
  BY DEF planned
<1>3. /\ items \in Seq(Item)
      /\ DOMAIN mid \subseteq DOMAIN items
      /\ \A i \in DOMAIN mid : items[i].id = mid[i].id /\ (mid[i].id # "bridge" => items[i] = mid[i])
      /\ \A i \in DOMAIN items : items[i].id # "bridge" => i \in DOMAIN mid
      /\ planBridge(items, settings) = items
      /\ settings # NoBridge /\ At(mid, "bridge") = {} =>
           \E i \in At(items, "bridge") : items[i].with = settings
  BY <1>1, <1>2, BridgePlanned
<1> HIDE DEF mid, items
<1>4. /\ At(items, "mcp") = At(mid, "mcp") /\ At(items, "other") = At(mid, "other")
      /\ Behind(items) = Behind(mid) /\ (Unchanged(items, url) <=> Unchanged(mid, url))
  <2>1. \A i : (i \in DOMAIN mid /\ mid[i].id # "bridge") <=> (i \in DOMAIN items /\ items[i].id # "bridge")
    BY <1>3
  <2>2. \A i \in DOMAIN mid : mid[i].id # "bridge" => items[i] = mid[i]
    BY <1>3
  <2>3. QED BY <2>1, <2>2, BridgeAside
<1>5. At(items, "other") = At(before, "other")
  <2>1. \A i \in At(before, "other") : i \in At(mid, "other")
    BY <1>1 DEF At
  <2>2. \A i \in At(mid, "other") : i \in At(before, "other")
    BY <1>1 DEF At
  <2>3. QED BY <1>4, <2>1, <2>2
<1>6. At(mid, "bridge") = At(before, "bridge")
  <2>1. \A i \in At(before, "bridge") : i \in At(mid, "bridge")
    BY <1>1 DEF At
  <2>2. \A i \in At(mid, "bridge") : i \in At(before, "bridge")
    BY <1>1 DEF At
  <2>3. QED BY <2>1, <2>2
<1>7. \A i \in At(before, "other") : items[i] = mid[i]
  BY <1>1, <1>3 DEF At
<1>8. Cardinality(Rewritten(before, items)) <= 1
  <2>1. PICK x : \A i \in DOMAIN before : i # x => mid[i] = before[i]
    BY <1>1
  <2>2. Rewritten(before, items) \subseteq {x}
    BY <1>7, <2>1 DEF At, Rewritten
  <2>3. IsFiniteSet({x}) /\ Cardinality({x}) = 1
    BY FS_Singleton
  <2>4. Cardinality(Rewritten(before, items)) <= Cardinality({x})
    BY <2>2, <2>3, FS_Subset
  <2>5. QED BY <2>3, <2>4
<1>9. Rewritten(before, items) # {} => ~OwnUrl(before)
  BY <1>1, <1>7 DEF Rewritten
<1>10. At(mid, "mcp") # {}
  <2>1. CASE At(before, "mcp") = {}
    BY <1>1, <2>1
  <2>2. CASE At(before, "mcp") # {}
    BY <1>1, <2>2 DEF At
  <2>3. QED BY <2>1, <2>2
<1>11. planned(items, url, settings) = items
  <2>1. planMcp(items, url) = items
    BY <1>1, <1>4, <1>10 DEF planMcp
  <2>2. QED BY <1>3, <2>1 DEF planned
<1>12. ASSUME Cardinality(At(before, "mcp")) <= 1 PROVE Cardinality(At(items, "mcp")) = 1
  <2>1. CASE At(before, "mcp") = {}
    BY <1>1, <1>4, <2>1, FS_Singleton
  <2>2. CASE At(before, "mcp") # {}
    <3>1. At(mid, "mcp") = At(before, "mcp")
      <4>1. \A i \in At(before, "mcp") : i \in At(mid, "mcp")
        BY <1>1 DEF At
      <4>2. \A i \in At(mid, "mcp") : i \in At(before, "mcp")
        BY <1>1, <2>2 DEF At
      <4>3. QED BY <4>1, <4>2
    <3>2. DOMAIN before = 1 .. Len(before) /\ Len(before) \in Nat
      BY LenProperties
    <3>3. IsFiniteSet(DOMAIN before)
      BY <3>2, FS_Interval
    <3>4. At(before, "mcp") \subseteq DOMAIN before
      BY DEF At
    <3>5. IsFiniteSet(At(before, "mcp"))
      BY <3>3, <3>4, FS_Subset
    <3>6. Cardinality(At(before, "mcp")) \in Nat /\ Cardinality(At(before, "mcp")) # 0
      BY <2>2, <3>5, FS_CardinalityType, FS_EmptySet
    <3>7. QED BY <1>4, <1>12, <3>1, <3>6
  <2>3. QED BY <2>1, <2>2
<1>13. ASSUME OwnUrl(before), \A i \in At(items, "other") : items[i].with # url
       PROVE  \E i \in At(items, "mcp") : items[i].with = url
  <2>1. PICK k \in DOMAIN items : items[k].id # "bridge" /\ items[k].with = url
    BY <1>1, <1>3, <1>13
  <2>2. items[k] \in Item
    BY <1>3, <2>1, LenProperties
  <2>3. items[k].id \in {"mcp", "bridge", "other"}
    BY <2>2 DEF Item
  <2>4. QED BY <1>13, <2>1, <2>3 DEF At
<1>14. settings # NoBridge /\ At(before, "bridge") = {} =>
         \E i \in At(items, "bridge") : items[i].with = settings
  BY <1>3, <1>6
<1>15. QED BY <1>3, <1>5, <1>8, <1>9, <1>11, <1>12, <1>13, <1>14 DEF items

-----------------------------------------------------------------------------
\* planDshInstall finds a file, or finds that there is none and was none.
LEMMA PlanKeeps ==
  ASSUME InstallInvariant, NEW u \in Url, NEW s \in Settings \cup {NoBridge}, planDshInstall(u, s)
  PROVE  InstallInvariant'
<1> DEFINE content == planned(Current, u, s)
<1>1. /\ install' = [pc |-> "planned", url |-> u, bridge |-> s, exists |-> (patch # <<>>),
                     content |-> content, from |-> Current, written |-> 0, touched |-> FALSE]
      /\ UNCHANGED <<patch, backups, mine, editRaced>>
  BY DEF planDshInstall, NoInstall, Current
<1>2. Current \in Seq(Item)
  BY EmptySeq DEF InstallInvariant, InstallTypeOK, Current
<1>3. content \in Seq(Item)
  BY <1>2, PlanSettles
<1> HIDE DEF content
<1>4. InstallTypeOK'
  BY <1>1, <1>2, <1>3 DEF InstallInvariant, InstallTypeOK, InstallState, InstallPc
<1>5. CopiedFirst'
  BY <1>1 DEF InstallInvariant, CopiedFirst
<1>6. PlanFollowed'
  <2>1. Current' = Current
    BY <1>1 DEF Current
  <2>2. install'.from = Current /\ install'.content = content /\ install'.pc = "planned"
        /\ install'.url = u /\ install'.bridge = s /\ install'.exists = (patch # <<>>)
    BY <1>1
  <2>3. ~install'.exists => install'.from = <<>>
    BY <2>2 DEF Current
  <2>4. QED BY <2>1, <2>2, <2>3 DEF PlanFollowed, content
<1>7. QED BY <1>4, <1>5, <1>6 DEF InstallInvariant

\* applyDshInstall copies what is there by now.
LEMMA ApplyKeeps ==
  ASSUME InstallInvariant, applyDshInstall
  PROVE  InstallInvariant'
<1>1. /\ install.pc = "planned" /\ install \in InstallState
      /\ UNCHANGED <<patch, mine, editRaced>> /\ Current' = Current
  BY DEF applyDshInstall, InstallInvariant, InstallTypeOK, Current
<1>2. CASE Unchanged(install.from, install.url) /\ install.bridge = NoBridge
  <2>1. install' = [install EXCEPT !.pc = "done"] /\ backups' = backups
    BY <1>2 DEF applyDshInstall
  <2>2. InstallTypeOK'
    BY <1>1, <2>1 DEF InstallInvariant, InstallTypeOK, InstallState, InstallPc
  <2>3. CopiedFirst'
    BY <1>1, <2>1 DEF InstallInvariant, CopiedFirst, InstallState
  <2>4. planMcp(install.from, install.url) = install.from
    BY <1>2 DEF planMcp, Unchanged
  <2>5. install.content = install.from
    BY <1>1, <1>2, <2>4 DEF InstallInvariant, PlanFollowed, planned, planBridge
  <2>6. PlanFollowed'
    BY <1>1, <2>1, <2>5 DEF InstallInvariant, PlanFollowed, InstallState
  <2>7. QED BY <2>2, <2>3, <2>6 DEF InstallInvariant
<1>3. CASE ~(Unchanged(install.from, install.url) /\ install.bridge = NoBridge)
  <2>1. /\ install' = [install EXCEPT !.pc = "write"]
        /\ backups' = IF install.exists THEN backups \cup {patch[1]} ELSE backups
    BY <1>3 DEF applyDshInstall
  <2>2. InstallTypeOK'
    BY <1>1, <2>1 DEF InstallInvariant, InstallTypeOK, InstallState, InstallPc
  <2>3. CopiedFirst'
    BY <1>1, <2>1 DEF InstallInvariant, CopiedFirst, InstallState
  <2>4. ~install.touched /\ install.exists => install.from \in backups'
    <3>1. install.exists => patch # <<>>
      BY <1>1 DEF InstallInvariant, CopiedFirst
    <3>2. ~install.touched => Current = install.from
      BY <1>1 DEF InstallInvariant, PlanFollowed
    <3>3. QED BY <2>1, <3>1, <3>2 DEF Current
  <2>5. PlanFollowed'
    BY <1>1, <2>1, <2>4 DEF InstallInvariant, PlanFollowed, InstallState
  <2>6. QED BY <2>2, <2>3, <2>5 DEF InstallInvariant
<1>4. QED BY <1>2, <1>3

\* The file is written piece by piece, over what has been copied.
LEMMA WriteKeeps ==
  ASSUME InstallInvariant, write
  PROVE  InstallInvariant'
<1> DEFINE n == IF install.pc = "write" THEN 0 ELSE install.written + 1
<1>1. /\ install.pc \in {"write", "writing"} /\ install \in InstallState
      /\ UNCHANGED <<backups, mine, editRaced>>
  BY DEF write, InstallInvariant, InstallTypeOK
<1>2. install.content \in Seq(Item) /\ install.written \in Nat /\ Len(install.content) \in Nat
  BY <1>1, LenProperties DEF InstallState
<1>3. CASE install.pc = "writing" /\ install.written = Len(install.content)
  <2>1. install' = [install EXCEPT !.pc = "done"] /\ patch' = patch /\ Current' = Current
    BY <1>3 DEF write, Current
  <2>2. InstallTypeOK'
    BY <1>1, <2>1 DEF InstallInvariant, InstallTypeOK, InstallState, InstallPc
  <2>3. CopiedFirst'
    BY <1>1, <2>1 DEF InstallInvariant, CopiedFirst, InstallState
  <2>4. SubSeq(install.content, 1, install.written) = install.content
    BY <1>2, <1>3, SubSeqFull
  <2>5. PlanFollowed'
    BY <1>1, <1>3, <2>1, <2>4 DEF InstallInvariant, PlanFollowed, InstallState
  <2>6. QED BY <2>2, <2>3, <2>5 DEF InstallInvariant
<1>4. CASE ~(install.pc = "writing" /\ install.written = Len(install.content))
  <2>1. /\ patch' = <<SubSeq(install.content, 1, n)>>
        /\ install' = [install EXCEPT !.pc = "writing", !.written = n]
    BY <1>4 DEF write
  <2>2. n \in Nat /\ n <= Len(install.content)
    BY <1>1, <1>2, <1>4 DEF InstallInvariant, PlanFollowed
  <2>3. SubSeq(install.content, 1, n) \in Seq(Item)
    BY <1>2, <2>2, SubSeqProperties
  <2>4. Current' = SubSeq(install.content, 1, n) /\ patch' # <<>>
    BY <2>1 DEF Current
  <2> HIDE DEF n
  <2>5. InstallTypeOK'
    BY <1>1, <2>1, <2>2, <2>3 DEF InstallInvariant, InstallTypeOK, InstallState, InstallPc
  <2>6. CopiedFirst'
    BY <1>1, <2>1, <2>4 DEF InstallInvariant, CopiedFirst, InstallState
  <2>7. PlanFollowed'
    BY <1>1, <2>1, <2>2, <2>4 DEF InstallInvariant, PlanFollowed, InstallState
  <2>8. QED BY <2>5, <2>6, <2>7 DEF InstallInvariant
<1>5. QED BY <1>3, <1>4

\* A list that is cut off within an entry is a list of entries.
LEMMA CutOffType ==
  ASSUME NEW items \in Seq(Item), NEW n \in Nat, n < Len(items)
  PROVE  CutOff(items, n) \in Seq(Item)
<1> DEFINE last == [items[n + 1] EXCEPT !.with = NoUrl]
<1>1. Len(items) \in Nat /\ n + 1 \in 1 .. Len(items) /\ items[n + 1] \in Item
  BY LenProperties
<1>2. last \in Item
  BY <1>1 DEF Item
<1>3. SubSeq(items, 1, n) \in Seq(Item)
  BY <1>1, SubSeqProperties
<1> HIDE DEF last
<1>4. <<last>> \in Seq(Item)
  BY <1>2
<1>5. SubSeq(items, 1, n) \o <<last>> \in Seq(Item)
  BY <1>3, <1>4, ConcatProperties
<1>6. QED BY <1>5 DEF CutOff, last

\* The command ends: nothing is written any more, but what was being written.
LEMMA InterruptKeeps ==
  ASSUME InstallInvariant, interrupt
  PROVE  InstallInvariant'
<1>1. /\ install' = NoInstall /\ UNCHANGED <<backups, mine, editRaced>>
      /\ install \in InstallState
  BY DEF interrupt, InstallInvariant, InstallTypeOK
<1>2. \/ patch' = patch
      \/ /\ install.pc = "writing" /\ install.written < Len(install.content)
         /\ patch' = <<CutOff(install.content, install.written)>>
  BY DEF interrupt
<1>3. patch' = <<>> \/ (patch' = <<patch'[1]>> /\ patch'[1] \in Seq(Item))
  <2>1. CASE patch' = patch
    BY <2>1 DEF InstallInvariant, InstallTypeOK
  <2>2. CASE patch' # patch
    <3>1. CutOff(install.content, install.written) \in Seq(Item)
      BY <1>1, <1>2, <2>2, CutOffType DEF InstallState
    <3>2. QED BY <1>2, <2>2, <3>1
  <2>3. QED BY <2>1, <2>2
<1>4. InstallTypeOK'
  <2>1. NoInstall \in InstallState /\ NoInstall.pc = "idle"
    BY EmptySeq DEF InstallState, InstallPc, NoInstall
  <2>2. QED BY <1>1, <1>3, <2>1 DEF InstallInvariant, InstallTypeOK
<1>5. CopiedFirst'
  <2>1. patch' # patch => patch' # <<>> /\ (editRaced \/ mine = <<>> \/ mine[1] \in backups)
    BY <1>2 DEF InstallInvariant, CopiedFirst
  <2>2. patch' = <<>> => mine = <<>>
    BY <2>1 DEF InstallInvariant, CopiedFirst
  <2>3. ~editRaced /\ mine # <<>> => mine = patch' \/ mine[1] \in backups
    BY <2>1 DEF InstallInvariant, CopiedFirst
  <2>4. QED BY <1>1, <2>2, <2>3 DEF CopiedFirst, NoInstall
<1>6. PlanFollowed'
  BY <1>1 DEF PlanFollowed, NoInstall
<1>7. QED BY <1>4, <1>5, <1>6 DEF InstallInvariant

\* What the owner saves is the file, and behind a copy it is a race.
LEMMA SaveKeeps ==
  ASSUME InstallInvariant, NEW items \in Seq(Item), Save(items)
  PROVE  InstallInvariant'
<1>1. /\ patch' = <<items>> /\ mine' = <<items>> /\ backups' = backups
      /\ install' = [install EXCEPT !.touched = TRUE] /\ install \in InstallState
      /\ editRaced' = (editRaced \/ install.pc \in {"write", "writing"}
                         \/ (install.pc = "planned" /\ ~install.exists))
  BY DEF Save, InstallInvariant, InstallTypeOK
<1>2. InstallTypeOK'
  BY <1>1 DEF InstallInvariant, InstallTypeOK, InstallState
<1>3. CopiedFirst'
  BY <1>1 DEF InstallInvariant, CopiedFirst, InstallState
<1>4. PlanFollowed'
  BY <1>1 DEF InstallInvariant, PlanFollowed, InstallState
<1>5. QED BY <1>2, <1>3, <1>4 DEF InstallInvariant

\* What the owner does to a list of entries makes one.
LEMMA EditKeeps ==
  ASSUME InstallInvariant, edit
  PROVE  InstallInvariant'
<1>1. Current \in Seq(Item)
  BY EmptySeq DEF InstallInvariant, InstallTypeOK, Current
<1>2. \/ \E u \in Url : Save(Append(Current, [id |-> "other", with |-> u, managed |-> FALSE]))
      \/ \E i \in DOMAIN Current :
           \/ Save(RemoveAt(Current, i)) \/ Save([Current EXCEPT ![i].managed = FALSE])
           \/ Save([Current EXCEPT ![i].with = NoUrl])
  BY DEF edit, Current
<1>3. ASSUME NEW u \in Url, Save(Append(Current, [id |-> "other", with |-> u, managed |-> FALSE]))
      PROVE  InstallInvariant'
  <2>1. [id |-> "other", with |-> u, managed |-> FALSE] \in Item
    BY DEF Item
  <2>2. Append(Current, [id |-> "other", with |-> u, managed |-> FALSE]) \in Seq(Item)
    BY <1>1, <2>1, AppendProperties
  <2>3. QED BY <1>3, <2>2, SaveKeeps
<1>4. ASSUME NEW i \in DOMAIN Current, Save(RemoveAt(Current, i)) PROVE InstallInvariant'
  <2>1. Len(Current) \in Nat /\ i \in 1 .. Len(Current)
    BY <1>1, LenProperties
  <2>2. SubSeq(Current, 1, i - 1) \in Seq(Item) /\ SubSeq(Current, i + 1, Len(Current)) \in Seq(Item)
    BY <1>1, <2>1, SubSeqProperties
  <2>3. RemoveAt(Current, i) \in Seq(Item)
    BY <2>2, ConcatProperties DEF RemoveAt
  <2>4. QED BY <1>4, <2>3, SaveKeeps
<1>5. ASSUME NEW i \in DOMAIN Current, Save([Current EXCEPT ![i].managed = FALSE])
      PROVE  InstallInvariant'
  <2> DEFINE e == [Current[i] EXCEPT !.managed = FALSE]
  <2>1. i \in 1 .. Len(Current) /\ Current[i] \in Item
    BY <1>1, LenProperties
  <2>2. e \in Item
    BY <2>1 DEF Item
  <2>3. [Current EXCEPT ![i].managed = FALSE] = [Current EXCEPT ![i] = e]
    OBVIOUS
  <2>4. [Current EXCEPT ![i] = e] \in Seq(Item)
    BY <1>1, <2>1, <2>2, ExceptSeq
  <2>5. QED BY <1>5, <2>3, <2>4, SaveKeeps
<1>6. ASSUME NEW i \in DOMAIN Current, Save([Current EXCEPT ![i].with = NoUrl])
      PROVE  InstallInvariant'
  <2> DEFINE e == [Current[i] EXCEPT !.with = NoUrl]
  <2>1. i \in 1 .. Len(Current) /\ Current[i] \in Item
    BY <1>1, LenProperties
  <2>2. e \in Item
    BY <2>1 DEF Item
  <2>3. [Current EXCEPT ![i].with = NoUrl] = [Current EXCEPT ![i] = e]
    OBVIOUS
  <2>4. [Current EXCEPT ![i] = e] \in Seq(Item)
    BY <1>1, <2>1, <2>2, ExceptSeq
  <2>5. QED BY <1>6, <2>3, <2>4, SaveKeeps
<1>7. QED BY <1>2, <1>3, <1>4, <1>5, <1>6

\* The invariant holds wherever the command ends and whatever the owner does meanwhile.
THEOREM InstallInvariantHolds == InstallSpec => []InstallInvariant
<1>1. InstallInit => InstallInvariant
  <2>1. <<>> \in Seq(Item)
    BY EmptySeq
  <2>2. NoInstall \in InstallState
    BY <2>1 DEF NoInstall, InstallState, InstallPc
  <2>3. InstallInit => InstallTypeOK
    <3>1. NoInstall.pc = "idle"
      BY DEF NoInstall
    <3>2. QED BY <2>2, <3>1 DEF InstallInit, InstallTypeOK
  <2>4. InstallInit => CopiedFirst /\ PlanFollowed
    BY DEF InstallInit, CopiedFirst, PlanFollowed, NoInstall
  <2>5. QED BY <2>3, <2>4 DEF InstallInvariant
<1>2. InstallInvariant /\ [InstallNext]_installVars => InstallInvariant'
  <2>1. ASSUME InstallInvariant, InstallNext PROVE InstallInvariant'
    BY <2>1, PlanKeeps, ApplyKeeps, WriteKeeps, InterruptKeeps, EditKeeps DEF InstallNext
  <2>2. ASSUME InstallInvariant, UNCHANGED installVars PROVE InstallInvariant'
    BY <2>2 DEF installVars, InstallInvariant, InstallTypeOK, CopiedFirst, PlanFollowed, Current
  <2>3. QED BY <2>1, <2>2
<1>3. QED BY <1>1, <1>2, PTL DEF InstallSpec

\* Wherever the command ends, the file as its owner last left it is there or has been
\* copied, unless it was saved behind the copy (applyDshInstall).
THEOREM NothingLostHolds == InstallSpec => []NothingLost
<1>1. InstallInvariant => NothingLost
  BY DEF InstallInvariant, CopiedFirst, NothingLost
<1>2. QED BY <1>1, InstallInvariantHolds, PTL

\* An installation that has ended has nothing more to do, and has set the url of its own
\* entry, or, where that has none behind its id, at most one of another entry, in a file
\* that it has copied (planDshInstall, applyDshInstall).
THEOREM InstallSettlesHolds == InstallSpec => []InstallSettles
<1>1. InstallInvariant => InstallSettles
  <2> SUFFICES ASSUME InstallInvariant, install.pc = "done", ~install.touched
               PROVE  LET items == Current
                          before == install.from
                          changed == {i \in At(before, "other") : items[i] # before[i]}
                      IN
                      /\ At(items, "other") = At(before, "other")
                      /\ Cardinality(changed) <= 1
                      /\ changed # {} => ~OwnUrl(before) /\ before \in backups
                      /\ planned(items, install.url, install.bridge) = items
                      /\ Cardinality(At(before, "mcp")) <= 1 => Cardinality(At(items, "mcp")) = 1
                      /\ install.bridge # NoBridge /\ At(before, "bridge") = {} =>
                           \E i \in At(items, "bridge") : items[i].with = install.bridge
                      /\ OwnUrl(before) /\ (\A i \in At(items, "other") : items[i].with # install.url) =>
                           \E i \in At(items, "mcp") : items[i].with = install.url
    BY DEF InstallSettles, Current
  <2>1. Current = install.content /\ install.content = planned(install.from, install.url, install.bridge)
    BY DEF InstallInvariant, PlanFollowed
  <2>2. /\ install.from \in Seq(Item) /\ install.url \in Url
        /\ install.bridge \in Settings \cup {NoBridge}
    BY DEF InstallInvariant, InstallTypeOK, InstallState
  <2>3. ASSUME Rewritten(install.from, Current) # {} PROVE install.from \in backups
    <3>1. install.from # <<>>
      BY <2>3 DEF At, Rewritten
    <3>2. install.exists
      BY <3>1 DEF InstallInvariant, PlanFollowed
    <3>3. install.content # install.from
      BY <2>1, <2>3 DEF Rewritten
    <3>4. QED BY <3>2, <3>3 DEF InstallInvariant, PlanFollowed
  <2>4. /\ At(Current, "other") = At(install.from, "other")
        /\ Cardinality(Rewritten(install.from, Current)) <= 1
        /\ Rewritten(install.from, Current) # {} => ~OwnUrl(install.from)
        /\ planned(Current, install.url, install.bridge) = Current
        /\ Cardinality(At(install.from, "mcp")) <= 1 => Cardinality(At(Current, "mcp")) = 1
        /\ install.bridge # NoBridge /\ At(install.from, "bridge") = {} =>
             \E i \in At(Current, "bridge") : Current[i].with = install.bridge
        /\ OwnUrl(install.from) /\ (\A i \in At(Current, "other") : Current[i].with # install.url) =>
             \E i \in At(Current, "mcp") : Current[i].with = install.url
    BY <2>1, <2>2, PlanSettles
  <2>5. QED BY <2>3, <2>4 DEF Rewritten
<1>2. QED BY <1>1, InstallInvariantHolds, PTL
=============================================================================
