--------------------------- MODULE CommandChannel ---------------------------
(***************************************************************************)
(* The capability channel of a node: peers and the CLI queue commands      *)
(* (CommandQueue), and the workers inside DSH hosts claim them over        *)
(* loopback HTTP, run them and post one result each                        *)
(* (createCommandWorker in integrations/dsh-link-bridge/lib/commands.js).  *)
(* A worker polls again only when its tick is over, so it runs one command *)
(* at a time; a request it gave up on may still be served.                 *)
(***************************************************************************)
EXTENDS CommandQueue

CONSTANTS
  Worker,     \* the workers that poll
  MaxFaults   \* lost answers, timeouts, early leases and crashes (bound)

ASSUME ChannelAssumption ==
  /\ None \notin Worker \cup Result
  /\ MaxFaults \in Nat

VARIABLES
  worker,   \* what each worker is doing
  serves,   \* the worker whose claim a process runs
  reports,  \* the worker that waits for a result handler
  started,  \* how often the handler of each command was started, up to twice
            \* (history)
  succeeded,\* the commands some handler has carried out (history)
  faults

channelVars == <<worker, serves, reports, started, succeeded, faults>>
vars == <<queueVars, channelVars>>

-----------------------------------------------------------------------------
\* batch: claimed and not finished yet; ok: what is to be reported of cmd.
WorkerState ==
  [pc : {"idle", "poll", "run", "handle", "report", "wait"},
   batch : SUBSET Cmd, cmd : Cmd \cup {None}, ok : BOOLEAN]

IdleWorker == [pc |-> "idle", batch |-> {}, cmd |-> None, ok |-> FALSE]

\* Commands that somebody has just taken, is about to run, runs or reports.
InHand ==
  (UNION {worker[w].batch : w \in Worker}) \cup (UNION {op[p].got : p \in Process})
    \cup {op[p].cmd : p \in {q \in Process : op[q].pc \in {"reread", "take", "undo"}}}

Fault == faults < MaxFaults /\ faults' = faults + 1

ChannelInit ==
  /\ Init
  /\ worker = [w \in Worker |-> IdleWorker]
  /\ serves = [p \in Process |-> None]
  /\ reports = [r \in Result |-> None]
  /\ started = [c \in Cmd |-> 0]
  /\ succeeded = {}
  /\ faults = 0

-----------------------------------------------------------------------------
(* One tick of a worker.                                                   *)

\* GET /bridge/commands is sent ...
tick(w) ==
  /\ worker[w].pc = "idle"
  /\ worker' = [worker EXCEPT ![w].pc = "poll"]
  /\ UNCHANGED <<queueVars, serves, reports, started, succeeded, faults>>

\* ... a node answers it by a claim ...
serveClaim(p, w) ==
  /\ worker[w].pc = "poll" /\ \A q \in Process : serves[q] # w
  /\ claim(p)
  /\ serves' = [serves EXCEPT ![p] = w]
  /\ UNCHANGED <<worker, reports, started, succeeded, faults>>

\* ... and the worker has its commands, unless it has given up the request.
serveReturn(p) ==
  /\ claimReturn(p)
  /\ worker' = IF serves[p] = None THEN worker
               ELSE [worker EXCEPT ![serves[p]] =
                       IF op[p].got = {} THEN IdleWorker
                       ELSE [IdleWorker EXCEPT !.pc = "run", !.batch = op[p].got]]
  /\ serves' = [serves EXCEPT ![p] = None]
  /\ UNCHANGED <<reports, started, succeeded, faults>>

\* Mutant: the answer to a request it gave up on still reaches the worker.
pollTimeoutLate(w) ==
  /\ worker[w].pc = "poll" /\ Fault
  /\ worker' = [worker EXCEPT ![w] = IdleWorker]
  /\ UNCHANGED <<queueVars, serves, reports, started, succeeded>>

\* The claim is answered too late for the worker: what it took is in nobody's
\* hands.
pollTimeout(w) ==
  /\ worker[w].pc = "poll" /\ Fault
  /\ worker' = [worker EXCEPT ![w] = IdleWorker]
  /\ serves' = [p \in Process |-> IF serves[p] = w THEN None ELSE serves[p]]
  /\ UNCHANGED <<queueVars, reports, started, succeeded>>

\* run: the commands of the batch one after the other.
run(w, c) ==
  /\ worker[w].pc = "run" /\ First(worker[w].batch, c)
  /\ worker' = [worker EXCEPT ![w].pc = "handle", ![w].cmd = c]
  /\ started' = [started EXCEPT ![c] = IF @ = 2 THEN 2 ELSE @ + 1]
  /\ UNCHANGED <<queueVars, serves, reports, succeeded, faults>>

\* The handler returns, or throws.
handled(w, ok) ==
  /\ worker[w].pc = "handle"
  /\ worker' = [worker EXCEPT ![w].pc = "report", ![w].ok = ok]
  /\ succeeded' = IF ok THEN succeeded \cup {worker[w].cmd} ELSE succeeded
  /\ UNCHANGED <<queueVars, serves, reports, started, faults>>

report(w, r) ==
  /\ worker[w].pc = "report"
  /\ post(r, worker[w].cmd, worker[w].ok)
  /\ worker' = [worker EXCEPT ![w].pc = "wait"]
  /\ reports' = [reports EXCEPT ![r] = w]
  /\ UNCHANGED <<serves, started, succeeded, faults>>

NextCommand(w) ==
  worker' = [worker EXCEPT ![w] =
    IF @.batch = {@.cmd} THEN IdleWorker
    ELSE [IdleWorker EXCEPT !.pc = "run", !.batch = worker[w].batch \ {worker[w].cmd}]]

reported(w, r) ==
  /\ reports[r] = w /\ result[r].pc = "answered"
  /\ completeReturn(r)
  /\ reports' = [reports EXCEPT ![r] = None]
  /\ NextCommand(w)
  /\ UNCHANGED <<serves, started, succeeded, faults>>

\* Nobody waits any more; the request may be lost or be served all the same.
Drop(r) ==
  /\ reports' = [reports EXCEPT ![r] = None]
  /\ \/ result[r].pc \in {"sent", "answered", "lost"}
        /\ result' = [result EXCEPT ![r] = FreeHandler]
     \/ result[r].pc # "lost" /\ UNCHANGED result

\* The POST fails: a success is reported again, as a failure, and a failure
\* not at all.
reportFails(w, r) ==
  /\ reports[r] = w
  /\ IF result[r].pc = "lost" THEN UNCHANGED faults ELSE Fault
  /\ Drop(r)
  /\ IF result[r].ok THEN worker' = [worker EXCEPT ![w].pc = "report", ![w].ok = FALSE]
     ELSE NextCommand(w)
  /\ UNCHANGED <<record, lease, op, sweeping, serves, started, succeeded>>

\* The answer to a request nobody waits for.
unheard(r) ==
  /\ reports[r] = None /\ completeReturn(r)
  /\ UNCHANGED channelVars

-----------------------------------------------------------------------------
(* Failures, and time.                                                     *)

\* A DSH host ends; what it had claimed stays claimed.
CrashWorker(w) ==
  /\ worker[w] # IdleWorker /\ Fault
  /\ worker' = [worker EXCEPT ![w] = IdleWorker]
  /\ serves' = [p \in Process |-> IF serves[p] = w THEN None ELSE serves[p]]
  /\ reports' = [r \in Result |-> IF reports[r] = w THEN None ELSE reports[r]]
  /\ UNCHANGED <<queueVars, started, succeeded>>

\* A node process ends with a locked operation or results half done; its
\* clients see their connections break.
CrashNode(p) ==
  /\ p \in Serving /\ Fault
  /\ op' = [op EXCEPT ![p] = IdleOp]
  /\ serves' = [serves EXCEPT ![p] = None]
  /\ worker' = IF serves[p] = None THEN worker
               ELSE [worker EXCEPT ![serves[p]] = IdleWorker]
  /\ result' = [r \in Result |-> IF reports[r] = None THEN FreeHandler
                                 ELSE [result[r] EXCEPT !.pc = "lost"]]
  /\ UNCHANGED <<record, lease, sweeping, reports, started, succeeded>>

\* A lease nobody works under runs out; one that is too short for its command
\* counts as a fault.
expire(c) ==
  /\ leaseExpires(c)
  /\ IF c \in InHand THEN Fault ELSE UNCHANGED faults
  /\ UNCHANGED <<worker, serves, reports, started, succeeded>>

-----------------------------------------------------------------------------
Work(w) ==
  \/ tick(w)
  \/ \E c \in Cmd : run(w, c)
  \/ \E ok \in BOOLEAN : handled(w, ok)
  \/ \E r \in Result : report(w, r) \/ reported(w, r) \/ reportFails(w, r)

Serve(p) ==
  \/ Locked(p) /\ UNCHANGED channelVars
  \/ \E w \in Worker : serveClaim(p, w)
  \/ serveReturn(p)

Answer(r) == (Complete(r) /\ UNCHANGED channelVars) \/ unheard(r)

ChannelNext ==
  \/ \E p \in Process : Serve(p) \/ (enqueue(p) /\ UNCHANGED channelVars)
  \/ \E w \in Worker : Work(w) \/ pollTimeout(w) \/ CrashWorker(w)
  \/ \E r \in Result : Answer(r)
  \/ \E p \in Process : CrashNode(p)
  \/ \E c \in Cmd : expire(c)

ChannelSpec == ChannelInit /\ [][ChannelNext]_vars

\* Timers fire, handlers end, locked operations go on, the lock serves waiting
\* requests in turn, time passes.
ChannelFairness ==
  /\ \A w \in Worker : WF_vars(Work(w)) /\ SF_vars(\E p \in Process : serveClaim(p, w))
  /\ \A p \in Process : WF_vars(Serve(p))
  /\ \A r \in Result : WF_vars(Answer(r))
  /\ \A c \in Cmd : WF_vars(expire(c) /\ c \notin InHand)

FairChannelSpec == ChannelSpec /\ ChannelFairness

-----------------------------------------------------------------------------
(* What must hold.                                                         *)

\* Every worker has its form; a process serves only a worker that polls, and a
\* result handler answers only the worker that reported its command: an answer
\* that comes too late never overwrites the next tick of the worker.
ChannelTypeOK ==
  /\ worker \in [Worker -> WorkerState]
  /\ started \in [Cmd -> 0..2] /\ succeeded \subseteq Cmd /\ faults \in 0..MaxFaults
  /\ serves \in [Process -> Worker \cup {None}]
  /\ reports \in [Result -> Worker \cup {None}]
  /\ \A p \in Process : serves[p] # None => worker[serves[p]].pc = "poll"
  /\ \A p, q \in Process : serves[p] = serves[q] /\ serves[p] # None => p = q
  /\ \A r \in Result : reports[r] # None =>
       worker[reports[r]].pc = "wait" /\ worker[reports[r]].cmd = result[r].cmd
  /\ \A r, s \in Result : reports[r] = reports[s] /\ reports[r] # None => r = s
  /\ \A w \in Worker : worker[w].pc \in {"handle", "report", "wait"} =>
       worker[w].cmd \in worker[w].batch

\* A caller is told "done" only of a command some handler has carried out,
\* however often it was claimed, lost or reported twice.
DoneMeansExecuted ==
  \A c \in Cmd : record[c] = "done" => c \in succeeded

\* What a worker reports of a command, and what waits in a handler, is true.
ReportsAreTrue ==
  /\ \A r \in Result : result[r].ok => result[r].cmd \in succeeded
  /\ \A w \in Worker : worker[w].pc \in {"report", "wait"} /\ worker[w].ok =>
       worker[w].cmd \in succeeded

\* All of it, inductive: requests and answers belong together, and no handler
\* holds a success that did not happen.
ChannelInvariant ==
  /\ TypeOK
  /\ ChannelTypeOK
  /\ ReportsAreTrue
  /\ DoneMeansExecuted

\* As long as no lease is too short, no answer late and no process dies, each
\* command is run at most once, by whichever worker and node (PROTOCOL.md:
\* exactly one bridge runs a command).
ExecutedOnce ==
  faults = 0 => \A c \in Cmd : started[c] <= 1

\* Every command that is queued is finished in the end, also when the process
\* that claimed it died: a claim file never blocks its command for good.
CommandsFinish ==
  \A c \in Cmd : (record[c] # "none") ~> (record[c] \in TERMINAL_STATUS)

\* docs/PROTOCOL.md: terminal states are immutable.
TerminalImmutable ==
  [][\A c \in Cmd : record[c] \in TERMINAL_STATUS => record'[c] = record[c]]_vars
=============================================================================
