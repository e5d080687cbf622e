---------------------------- MODULE CommandQueue ----------------------------
(***************************************************************************)
(* The durable command queue of a node (createCommandQueue in              *)
(* src/capabilities.mjs): one JSON file per command and, beside it, a      *)
(* claim file created with O_EXCL that is the lease of whoever runs it.    *)
(*                                                                         *)
(* The directory is shared by processes: the serving node, and every CLI   *)
(* `dsh call`.  Inside one process lock() runs enqueue and claim one at a  *)
(* time; complete and sweep do not take the lock.  Every file operation is *)
(* a step of its own.                                                      *)
(***************************************************************************)
EXTENDS Naturals, FiniteSets

CONSTANTS
  Cmd,        \* command ids; their order is the order in which ids are made
  Process,    \* processes that open the queue directory
  Serving,    \* those that answer workers: the others, CLI calls, only enqueue
  Sweeper,    \* those that call sweep() (in the code: only the tests do)
  Result,     \* POSTs of a result in flight at once (bound)
  maxPending, \* policy.maxPending
  limit,      \* commands taken by one claim
  None        \* no command

ASSUME QueueAssumption ==
  /\ Cmd \subseteq Nat /\ IsFiniteSet(Cmd) /\ None \notin Cmd
  /\ IsFiniteSet(Process) /\ Process # {}
  /\ Serving \subseteq Process /\ Sweeper \subseteq Process
  /\ maxPending \in Nat \ {0} /\ limit \in Nat \ {0}

VARIABLES
  record,   \* status in <id>.json, "none" before there is a file
  lease,    \* <id>.claim: none, fresh, or older than claimStaleSeconds
  op,       \* what the lock of each process protects at the moment
  result,   \* the handlers of POST .../result
  sweeping  \* what a sweep of each process has left to do

queueVars == <<record, lease, op, result, sweeping>>

-----------------------------------------------------------------------------
TERMINAL_STATUS == {"done", "failed", "expired"}

Status == {"none", "pending", "claimed"} \cup TERMINAL_STATUS

\* todo: records of the listing still to look at, leased: those of them that
\* were claimed; cmd: the one in hand; got: what this claim has taken.
Op == [pc : {"idle", "write", "next", "rm", "create", "reread", "take", "undo"},
       todo : SUBSET Cmd, leased : SUBSET Cmd, cmd : Cmd \cup {None}, got : SUBSET Cmd]

IdleOp == [pc |-> "idle", todo |-> {}, leased |-> {}, cmd |-> None, got |-> {}]

Handler == [pc : {"free", "sent", "write", "rm", "answered", "lost"},
            cmd : Cmd \cup {None}, ok : BOOLEAN]

FreeHandler == [pc |-> "free", cmd |-> None, ok |-> FALSE]

WithStatus(s) == {c \in Cmd : record[c] \in s}

active == WithStatus({"pending", "claimed"})

Enqueueing == {p \in Process : op[p].pc = "write"}

\* ids are time-sortable and records are listed oldest first.
First(S, c) == c \in S /\ \A d \in S : c <= d

Init ==
  /\ record = [c \in Cmd |-> "none"]
  /\ lease = [c \in Cmd |-> "none"]
  /\ op = [p \in Process |-> IdleOp]
  /\ result = [r \in Result |-> FreeHandler]
  /\ sweeping = [p \in Process |-> [pc |-> "idle", todo |-> {}]]

-----------------------------------------------------------------------------
(* enqueue.                                                                *)

\* Mutant: one more command fits.
enqueueOneMore(p) ==
  /\ op[p].pc = "idle"
  /\ Cardinality(active) <= maxPending
  /\ Cardinality(Enqueueing) < Cardinality(WithStatus({"none"}))
  /\ op' = [op EXCEPT ![p].pc = "write"]
  /\ UNCHANGED <<record, lease, result, sweeping>>

\* The queue is counted; when it is full the call is refused (429) ...
enqueue(p) ==
  /\ op[p].pc = "idle"
  /\ Cardinality(active) < maxPending
  /\ Cardinality(Enqueueing) < Cardinality(WithStatus({"none"}))  \* Cmd is bounded
  /\ op' = [op EXCEPT ![p].pc = "write"]
  /\ UNCHANGED <<record, lease, result, sweeping>>

\* Mutant: a status no one looks for.
enqueueWriteQueued(p, c) ==
  /\ op[p].pc = "write" /\ First(WithStatus({"none"}), c)
  /\ record' = [record EXCEPT ![c] = "queued"]
  /\ op' = [op EXCEPT ![p] = IdleOp]
  /\ UNCHANGED <<lease, result, sweeping>>

\* ... else a new id is made and its file written.
enqueueWrite(p, c) ==
  /\ op[p].pc = "write" /\ First(WithStatus({"none"}), c)
  /\ record' = [record EXCEPT ![c] = "pending"]
  /\ op' = [op EXCEPT ![p] = IdleOp]
  /\ UNCHANGED <<lease, result, sweeping>>

-----------------------------------------------------------------------------
(* claim.                                                                  *)

claim(p) ==
  /\ p \in Serving /\ op[p].pc = "idle"
  /\ op' = [op EXCEPT ![p] = [IdleOp EXCEPT !.pc = "next", !.todo = active,
                                            !.leased = WithStatus({"claimed"})]]
  /\ UNCHANGED <<record, lease, result, sweeping>>

claimEnds(p) == op[p].pc = "next" /\ (op[p].todo = {} \/ Cardinality(op[p].got) = limit)

Skip(p) == op' = [op EXCEPT ![p].pc = "next", ![p].cmd = None]

\* Mutant: a claim file blocks its command, however old it is.
claimNextLeased(p, c) ==
  /\ op[p].pc = "next" /\ ~claimEnds(p) /\ First(op[p].todo, c)
  /\ op' = IF lease[c] = "none"
           THEN [op EXCEPT ![p].pc = "create", ![p].todo = @ \ {c}, ![p].cmd = c]
           ELSE [op EXCEPT ![p].todo = @ \ {c}]
  /\ UNCHANGED <<record, lease, result, sweeping>>

\* The claim file of the next record: a lease that is not stale protects a
\* claimed record, a stale one is removed first.
claimNext(p, c) ==
  /\ op[p].pc = "next" /\ ~claimEnds(p) /\ First(op[p].todo, c)
  /\ \/ /\ c \in op[p].leased /\ lease[c] = "fresh"
        /\ op' = [op EXCEPT ![p].todo = @ \ {c}]
     \/ /\ lease[c] = "stale"
        /\ op' = [op EXCEPT ![p].pc = "rm", ![p].todo = @ \ {c}, ![p].cmd = c]
     \/ /\ lease[c] = "none" \/ (c \notin op[p].leased /\ lease[c] = "fresh")
        /\ op' = [op EXCEPT ![p].pc = "create", ![p].todo = @ \ {c}, ![p].cmd = c]
  /\ UNCHANGED <<record, lease, result, sweeping>>

claimRemove(p) ==
  /\ op[p].pc = "rm"
  /\ lease' = [lease EXCEPT ![op[p].cmd] = "none"]
  /\ op' = [op EXCEPT ![p].pc = "create"]
  /\ UNCHANGED <<record, result, sweeping>>

\* Mutant: the claim file is created without O_EXCL.
claimCreateShared(p) ==
  /\ op[p].pc = "create"
  /\ lease' = [lease EXCEPT ![op[p].cmd] = "fresh"]
  /\ op' = [op EXCEPT ![p].pc = "reread"]
  /\ UNCHANGED <<record, result, sweeping>>

\* O_EXCL: only one creates it; EEXIST means on to the next record.
claimCreate(p) ==
  /\ op[p].pc = "create"
  /\ IF lease[op[p].cmd] = "none"
     THEN /\ lease' = [lease EXCEPT ![op[p].cmd] = "fresh"]
          /\ op' = [op EXCEPT ![p].pc = "reread"]
     ELSE Skip(p) /\ UNCHANGED lease
  /\ UNCHANGED <<record, result, sweeping>>

claimReread(p) ==
  /\ op[p].pc = "reread"
  /\ op' = [op EXCEPT ![p].pc =
       IF record[op[p].cmd] \in TERMINAL_STATUS THEN "undo" ELSE "take"]
  /\ UNCHANGED <<record, lease, result, sweeping>>

claimUndo(p) ==
  /\ op[p].pc = "undo"
  /\ lease' = [lease EXCEPT ![op[p].cmd] = "none"]
  /\ Skip(p)
  /\ UNCHANGED <<record, result, sweeping>>

\* The record that was re-read is written back as claimed, whatever has been
\* written since.
claimTake(p) ==
  /\ op[p].pc = "take"
  /\ record' = [record EXCEPT ![op[p].cmd] = "claimed"]
  /\ op' = [op EXCEPT ![p].pc = "next", ![p].got = @ \cup {op[p].cmd}, ![p].cmd = None]
  /\ UNCHANGED <<lease, result, sweeping>>

claimReturn(p) ==
  /\ claimEnds(p)
  /\ op' = [op EXCEPT ![p] = IdleOp]
  /\ UNCHANGED <<record, lease, result, sweeping>>

-----------------------------------------------------------------------------
(* complete.                                                               *)

\* A result arrives for a command.
post(r, c, ok) ==
  /\ result[r] = FreeHandler
  /\ result' = [result EXCEPT ![r] = [pc |-> "sent", cmd |-> c, ok |-> ok]]
  /\ UNCHANGED <<record, lease, op, sweeping>>

\* The record is read: a finished command is left as it is.
completeRead(r) ==
  /\ result[r].pc = "sent"
  /\ result' = [result EXCEPT ![r].pc =
       IF record[result[r].cmd] \in TERMINAL_STATUS THEN "answered" ELSE "write"]
  /\ UNCHANGED <<record, lease, op, sweeping>>

\* Mutant: "ok" of the body is not looked at.
completeWriteDone(r) ==
  /\ result[r].pc = "write"
  /\ record' = [record EXCEPT ![result[r].cmd] = "done"]
  /\ result' = [result EXCEPT ![r].pc = "rm"]
  /\ UNCHANGED <<lease, op, sweeping>>

completeWrite(r) ==
  /\ result[r].pc = "write"
  /\ record' = [record EXCEPT ![result[r].cmd] = IF result[r].ok THEN "done" ELSE "failed"]
  /\ result' = [result EXCEPT ![r].pc = "rm"]
  /\ UNCHANGED <<lease, op, sweeping>>

\* The claim file goes, whose ever lease it is by now.
completeRemove(r) ==
  /\ result[r].pc = "rm"
  /\ lease' = [lease EXCEPT ![result[r].cmd] = "none"]
  /\ result' = [result EXCEPT ![r].pc = "answered"]
  /\ UNCHANGED <<record, op, sweeping>>

completeReturn(r) ==
  /\ result[r].pc = "answered"
  /\ result' = [result EXCEPT ![r] = FreeHandler]
  /\ UNCHANGED <<record, lease, op, sweeping>>

-----------------------------------------------------------------------------
(* sweep, and time.                                                        *)

\* The records past commandTtlSeconds: the oldest ones, as many as may be.
sweep(p, old) ==
  /\ p \in Sweeper /\ sweeping[p].pc = "idle"
  /\ old \subseteq active /\ old # {}
  /\ \A c \in old, d \in active : d < c => d \in old
  /\ sweeping' = [sweeping EXCEPT ![p] = [pc |-> "write", todo |-> old]]
  /\ UNCHANGED <<record, lease, op, result>>

\* The record of the listing is written back as expired, without a new look.
sweepWrite(p, c) ==
  /\ sweeping[p].pc = "write" /\ First(sweeping[p].todo, c)
  /\ record' = [record EXCEPT ![c] = "expired"]
  /\ sweeping' = [sweeping EXCEPT ![p].pc = "rm"]
  /\ UNCHANGED <<lease, op, result>>

sweepRemove(p, c) ==
  /\ sweeping[p].pc = "rm" /\ First(sweeping[p].todo, c)
  /\ lease' = [lease EXCEPT ![c] = "none"]
  /\ sweeping' = [sweeping EXCEPT ![p] =
       [pc |-> IF @.todo = {c} THEN "idle" ELSE "write", todo |-> @.todo \ {c}]]
  /\ UNCHANGED <<record, op, result>>

\* claimStaleSeconds pass.
leaseExpires(c) ==
  /\ lease[c] = "fresh"
  /\ lease' = [lease EXCEPT ![c] = "stale"]
  /\ UNCHANGED <<record, op, result, sweeping>>

-----------------------------------------------------------------------------
Locked(p) ==
  \/ \E c \in Cmd : enqueueWrite(p, c) \/ claimNext(p, c)
  \/ claimRemove(p) \/ claimCreate(p) \/ claimReread(p) \/ claimUndo(p) \/ claimTake(p)

Complete(r) == completeRead(r) \/ completeWrite(r) \/ completeRemove(r)

Sweep(p) == \E c \in Cmd : sweepWrite(p, c) \/ sweepRemove(p, c)

\* Any client may claim at any time and report on what has been claimed.
Next ==
  \/ \E p \in Process : enqueue(p) \/ claim(p) \/ Locked(p) \/ claimReturn(p) \/ Sweep(p)
  \/ \E p \in Process, old \in SUBSET Cmd : sweep(p, old)
  \/ \E r \in Result : Complete(r) \/ completeReturn(r)
  \/ \E r \in Result, c \in WithStatus({"claimed"}), ok \in BOOLEAN : post(r, c, ok)
  \/ \E c \in Cmd : leaseExpires(c)

Spec == Init /\ [][Next]_queueVars

-----------------------------------------------------------------------------
(* What must hold.                                                         *)

\* Every record, claim file and operation has its form, and an operation in the
\* middle of a command knows which.
TypeOK ==
  /\ record \in [Cmd -> Status]
  /\ lease \in [Cmd -> {"none", "fresh", "stale"}]
  /\ op \in [Process -> Op]
  /\ \A p \in Process : op[p].pc \in {"rm", "create", "reread", "take", "undo"} =>
       op[p].cmd \in Cmd
  /\ result \in [Result -> Handler]
  /\ sweeping \in [Process -> [pc : {"idle", "write", "rm"}, todo : SUBSET Cmd]]

\* The check of maxPending and the write are two steps, and the lock does not
\* reach other processes: the queue may exceed maxPending, but only by one
\* command for each further process.
PendingBound ==
  Cardinality(WithStatus({"pending"})) + Cardinality(Enqueueing)
    < maxPending + Cardinality(Process)
=============================================================================
