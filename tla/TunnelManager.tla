----------------------------- MODULE TunnelManager -----------------------------
(***************************************************************************)
(* The frpc process of a node (src/tunnel.mjs): it runs on its own, known  *)
(* by the pid in a file that serve and the CLI commands read and write     *)
(* without a lock.  A relaunch stops what the file names, then starts.     *)
(***************************************************************************)
EXTENDS Integers, FiniteSets

CONSTANTS
  Manager,   \* processes that manage the tunnel
  MaxSpawns, \* frpc processes started at all (bound)
  MaxJobs    \* stops and relaunches begun at all (bound)

ASSUME TunnelAssumption == MaxSpawns \in Nat /\ MaxJobs \in Nat

VARIABLES
  frpc,      \* the frpc processes that run
  dying,     \* those that have been sent a signal
  pidFile,   \* the pid in frpc.pid, NoPid when there is no file
  job,       \* where each manager is, and the pid it has read or started
  spawned,   \* the last pid; pids are not used again
  jobs,
  disturbed  \* two jobs have overlapped, a manager was ended between its steps, or
             \* an frpc outlived the wait for its end (history)

tunnelVars == <<frpc, dying, pidFile, job, spawned, jobs, disturbed>>

NoPid == 0
NoJob == [pc |-> "idle", pid |-> NoPid, relaunch |-> FALSE]
Managing == {m \in Manager : job[m].pc # "idle"}
pidAlive(pid) == pid \in frpc

TunnelInit ==
  /\ frpc = {} /\ dying = {} /\ pidFile = NoPid
  /\ job = [m \in Manager |-> NoJob]
  /\ spawned = 0 /\ jobs = 0 /\ disturbed = FALSE

-----------------------------------------------------------------------------
Go(m, pc, pid) == job' = [job EXCEPT ![m].pc = pc, ![m].pid = pid]

AfterStop(m) == IF job[m].relaunch THEN Go(m, "start", NoPid) ELSE job' = [job EXCEPT ![m] = NoJob]

\* tunnel stop and disable stop; tunnel sync, import, peers accept and serve relaunch.
beginJob(m, relaunch) ==
  /\ job[m].pc = "idle" /\ jobs < MaxJobs
  /\ jobs' = jobs + 1
  /\ disturbed' = (disturbed \/ Managing # {})
  /\ job' = [job EXCEPT ![m] = [pc |-> "stop", pid |-> NoPid, relaunch |-> relaunch]]
  /\ UNCHANGED <<frpc, dying, pidFile, spawned>>

\* stop: readPid; a process that runs is killed, else the file is removed.
stop(m) ==
  /\ job[m].pc = "stop"
  /\ IF pidAlive(pidFile)
     THEN dying' = dying \cup {pidFile} /\ Go(m, "wait", pidFile) /\ UNCHANGED pidFile
     ELSE pidFile' = NoPid /\ AfterStop(m) /\ UNCHANGED dying
  /\ UNCHANGED <<frpc, spawned, jobs, disturbed>>

\* The signal cannot be sent: the file stays, and a relaunch uses the process again.
stopFails(m) ==
  /\ job[m].pc = "stop" /\ pidAlive(pidFile)
  /\ AfterStop(m)
  /\ UNCHANGED <<frpc, dying, pidFile, spawned, jobs, disturbed>>

\* Mutant: the file is removed at once.
stopAtOnce(m) ==
  /\ job[m].pc = "wait"
  /\ pidFile' = NoPid
  /\ AfterStop(m)
  /\ UNCHANGED <<frpc, dying, spawned, jobs, disturbed>>

\* The end of the process is waited for, three seconds at most.
stopped(m) ==
  /\ job[m].pc = "wait" /\ ~pidAlive(job[m].pid)
  /\ pidFile' = NoPid
  /\ AfterStop(m)
  /\ UNCHANGED <<frpc, dying, spawned, jobs, disturbed>>

stopTimesOut(m) ==
  /\ job[m].pc = "wait" /\ pidAlive(job[m].pid)
  /\ pidFile' = NoPid
  /\ AfterStop(m)
  /\ disturbed' = TRUE
  /\ UNCHANGED <<frpc, dying, spawned, jobs>>

\* start: a process that runs is used again, else the ports are chosen and the
\* config is written.
start(m) ==
  /\ job[m].pc = "start"
  /\ IF pidAlive(pidFile) THEN job' = [job EXCEPT ![m] = NoJob] ELSE Go(m, "spawn", NoPid)
  /\ UNCHANGED <<frpc, dying, pidFile, spawned, jobs, disturbed>>

spawn(m) ==
  /\ job[m].pc = "spawn" /\ spawned < MaxSpawns
  /\ spawned' = spawned + 1
  /\ frpc' = frpc \cup {spawned'}
  /\ Go(m, "write", spawned')
  /\ UNCHANGED <<dying, pidFile, jobs, disturbed>>

writePid(m) ==
  /\ job[m].pc = "write"
  /\ pidFile' = job[m].pid
  /\ Go(m, "settle", job[m].pid)
  /\ UNCHANGED <<frpc, dying, spawned, jobs, disturbed>>

\* 600 ms later: the file is removed, whoever's it is by now, if the process has ended.
settle(m) ==
  /\ job[m].pc = "settle"
  /\ pidFile' = IF pidAlive(job[m].pid) THEN pidFile ELSE NoPid
  /\ job' = [job EXCEPT ![m] = NoJob]
  /\ UNCHANGED <<frpc, dying, spawned, jobs, disturbed>>

\* frpc ends: it was told to, its port is taken, or it crashes.
exit(pid) ==
  /\ frpc' = frpc \ {pid}
  /\ dying' = dying \ {pid}
  /\ UNCHANGED <<pidFile, job, spawned, jobs, disturbed>>

\* A manager is ended; or there is no frpc to start, or no port for it.
abort(m) ==
  /\ job[m].pc # "idle"
  /\ job' = [job EXCEPT ![m] = NoJob]
  /\ disturbed' = (disturbed \/ job[m].pc = "write")
  /\ UNCHANGED <<frpc, dying, pidFile, spawned, jobs>>

ManagerStep(m) ==
  stop(m) \/ stopFails(m) \/ stopped(m) \/ stopTimesOut(m) \/ start(m) \/ spawn(m) \/ writePid(m) \/ settle(m)

TunnelNext ==
  \/ \E m \in Manager : ManagerStep(m) \/ abort(m) \/ \E relaunch \in BOOLEAN : beginJob(m, relaunch)
  \/ \E pid \in frpc : exit(pid)

TunnelSpec == TunnelInit /\ [][TunnelNext]_tunnelVars

-----------------------------------------------------------------------------
\* Unless two jobs overlap, a manager is ended before it has written the pid, or an
\* frpc outlives the wait: one frpc runs at most, and the file names it, so that the
\* next stop finds it, whatever has crashed or been ended in between.
OneTunnel ==
  ~disturbed =>
    /\ Cardinality(frpc) <= 1
    /\ \A pid \in frpc : pidFile = pid \/ \E m \in Manager : job[m].pc = "write" /\ job[m].pid = pid
=============================================================================
