---------------------------- MODULE CommandProofs ----------------------------
(***************************************************************************)
(* Proofs about the command queue and the channel, for every number of     *)
(* commands, processes, workers and faults.                                *)
(***************************************************************************)
EXTENDS CommandChannel, FiniteSetTheorems, TLAPS

USE DEF TERMINAL_STATUS

-----------------------------------------------------------------------------
(* The queue by itself.                                                    *)

NeedsCmd == {"rm", "create", "reread", "take", "undo"}

\* A step of one process that leaves results and sweeps alone.
LEMMA OpTyped ==
  ASSUME TypeOK, NEW p \in Process, NEW o \in Op,
         o.pc \in NeedsCmd => o.cmd \in Cmd,
         op' = [op EXCEPT ![p] = o],
         record' \in [Cmd -> Status],
         lease' \in [Cmd -> {"none", "fresh", "stale"}],
         UNCHANGED <<result, sweeping>>
  PROVE  TypeOK'
BY DEF TypeOK, NeedsCmd

\* The listing of a claim is a set of commands.
LEMMA ListingType ==
  [IdleOp EXCEPT !.pc = "next", !.todo = active, !.leased = WithStatus({"claimed"})] \in Op
BY DEF IdleOp, Op, active, WithStatus

\* enqueue and claim, step by step, keep the types.
LEMMA LockedType ==
  ASSUME TypeOK, NEW p \in Process,
         enqueue(p) \/ claim(p) \/ Locked(p) \/ claimReturn(p)
  PROVE  TypeOK'
<1>1. op[p] \in Op /\ IdleOp \in Op /\ IdleOp.pc \notin NeedsCmd
  BY DEF TypeOK, IdleOp, Op, NeedsCmd
<1>2. record \in [Cmd -> Status] /\ lease \in [Cmd -> {"none", "fresh", "stale"}]
  BY DEF TypeOK
<1>3. op \in [Process -> Op] /\ (op[p].pc \in NeedsCmd => op[p].cmd \in Cmd)
  BY DEF TypeOK, NeedsCmd
<1>4. ASSUME NEW o \in Op, o.pc \in NeedsCmd => o.cmd \in Cmd,
             op' = [op EXCEPT ![p] = o],
             record' \in [Cmd -> Status],
             lease' \in [Cmd -> {"none", "fresh", "stale"}],
             UNCHANGED <<result, sweeping>>
      PROVE  TypeOK'
  BY <1>4, OpTyped
<1>5. CASE enqueue(p)
  <2> DEFINE o == [op[p] EXCEPT !.pc = "write"]
  <2>1. o \in Op /\ o.pc \notin NeedsCmd
    BY <1>1 DEF NeedsCmd, Op
  <2>2. op' = [op EXCEPT ![p] = o]
    BY <1>5 DEF enqueue
  <2>3. QED BY <2>1, <2>2, <1>2, <1>4, <1>5 DEF enqueue
<1>6. CASE claim(p)
  <2> DEFINE o == [IdleOp EXCEPT !.pc = "next", !.todo = active,
                                 !.leased = WithStatus({"claimed"})]
  <2>1. o \in Op /\ o.pc \notin NeedsCmd
    BY ListingType DEF NeedsCmd, IdleOp
  <2>2. QED BY <2>1, <1>2, <1>4, <1>6 DEF claim
<1>7. CASE claimReturn(p)
  BY <1>1, <1>2, <1>4, <1>7 DEF claimReturn
<1>8. ASSUME NEW c \in Cmd, enqueueWrite(p, c) PROVE TypeOK'
  BY <1>1, <1>2, <1>4, <1>8 DEF enqueueWrite, Status
<1>9. ASSUME NEW c \in Cmd, claimNext(p, c) PROVE TypeOK'
  <2>1. CASE op' = [op EXCEPT ![p].todo = @ \ {c}]
    <3> DEFINE o == [op[p] EXCEPT !.todo = @ \ {c}]
    <3>1. o \in Op /\ o.pc \notin NeedsCmd
      BY <1>1, <1>9 DEF NeedsCmd, Op, claimNext
    <3>2. op' = [op EXCEPT ![p] = o]
      BY <2>1
    <3>3. QED BY <3>1, <3>2, <1>2, <1>4, <1>9 DEF claimNext
  <2>2. ASSUME NEW pc \in {"rm", "create"},
               op' = [op EXCEPT ![p].pc = pc, ![p].todo = @ \ {c}, ![p].cmd = c]
        PROVE  TypeOK'
    <3> DEFINE o == [op[p] EXCEPT !.pc = pc, !.todo = @ \ {c}, !.cmd = c]
    <3>1. o \in Op /\ o.cmd \in Cmd
      BY <1>1 DEF Op
    <3>2. op' = [op EXCEPT ![p] = o]
      BY <2>2, <1>3 DEF Op
    <3>3. QED BY <3>1, <3>2, <1>2, <1>4, <1>9 DEF claimNext
  <2>3. QED BY <2>1, <2>2, <1>9 DEF claimNext
<1>10. ASSUME NEW pc \in {"create", "reread", "undo", "take"},
              op[p].cmd \in Cmd,
              op' = [op EXCEPT ![p].pc = pc],
              record' = record,
              lease' \in [Cmd -> {"none", "fresh", "stale"}],
              UNCHANGED <<result, sweeping>>
       PROVE  TypeOK'
  <2> DEFINE o == [op[p] EXCEPT !.pc = pc]
  <2>1. o \in Op /\ o.cmd \in Cmd
    BY <1>1, <1>10 DEF Op
  <2>2. op' = [op EXCEPT ![p] = o]
    BY <1>10
  <2>3. QED BY <2>1, <2>2, <1>2, <1>4, <1>10
<1>11. ASSUME Skip(p), record' = record,
              lease' \in [Cmd -> {"none", "fresh", "stale"}],
              UNCHANGED <<result, sweeping>>
       PROVE  TypeOK'
  <2> DEFINE o == [op[p] EXCEPT !.pc = "next", !.cmd = None]
  <2>1. o \in Op /\ o.pc \notin NeedsCmd
    BY <1>1 DEF Op, NeedsCmd
  <2>2. op' = [op EXCEPT ![p] = o]
    BY <1>11, <1>3 DEF Skip, Op
  <2>3. QED BY <2>1, <2>2, <1>2, <1>4, <1>11
<1>12. CASE claimRemove(p)
  <2>1. op[p].cmd \in Cmd /\ lease' \in [Cmd -> {"none", "fresh", "stale"}]
    BY <1>2, <1>3, <1>12 DEF claimRemove, NeedsCmd
  <2>2. QED BY <2>1, <1>10, <1>12 DEF claimRemove
<1>13. CASE claimCreate(p)
  <2>1. op[p].cmd \in Cmd /\ lease' \in [Cmd -> {"none", "fresh", "stale"}]
    BY <1>2, <1>3, <1>13 DEF claimCreate, NeedsCmd
  <2>2. QED BY <2>1, <1>10, <1>11, <1>13 DEF claimCreate
<1>14. CASE claimReread(p)
  <2>1. op[p].cmd \in Cmd
    BY <1>3, <1>14 DEF claimReread, NeedsCmd
  <2>2. QED BY <2>1, <1>2, <1>10, <1>14 DEF claimReread
<1>15. CASE claimUndo(p)
  <2>1. lease' \in [Cmd -> {"none", "fresh", "stale"}]
    BY <1>2, <1>15 DEF claimUndo
  <2>2. QED BY <2>1, <1>11, <1>15 DEF claimUndo
<1>16. CASE claimTake(p)
  <2> DEFINE o == [op[p] EXCEPT !.pc = "next", !.got = @ \cup {op[p].cmd}, !.cmd = None]
  <2>1. op[p].cmd \in Cmd
    BY <1>3, <1>16 DEF claimTake, NeedsCmd
  <2>2. o \in Op /\ o.pc \notin NeedsCmd
    BY <2>1, <1>1 DEF Op, NeedsCmd
  <2>3. op' = [op EXCEPT ![p] = o]
    BY <1>16, <1>3 DEF claimTake, Op
  <2>4. record' \in [Cmd -> Status]
    BY <1>2, <1>16 DEF claimTake, Status
  <2>5. QED BY <2>2, <2>3, <2>4, <1>2, <1>4, <1>16 DEF claimTake
<1>17. QED
  BY <1>5, <1>6, <1>7, <1>8, <1>9, <1>12, <1>13, <1>14, <1>15, <1>16 DEF Locked

\* complete and its answer keep the types.
LEMMA CompleteType ==
  ASSUME TypeOK, NEW r \in Result,
         \/ Complete(r) \/ completeReturn(r)
         \/ \E c \in Cmd, ok \in BOOLEAN : post(r, c, ok)
  PROVE  TypeOK'
<1> USE DEF TypeOK, Handler, FreeHandler, Status
<1>1. CASE completeRead(r)
  BY <1>1 DEF completeRead
<1>2. CASE completeWrite(r)
  BY ZenonT(60), <1>2 DEF completeWrite
<1>3. CASE completeRemove(r)
  BY ZenonT(60), <1>3 DEF completeRemove
<1>4. CASE completeReturn(r)
  BY <1>4 DEF completeReturn
<1>5. ASSUME NEW c \in Cmd, NEW ok \in BOOLEAN, post(r, c, ok) PROVE TypeOK'
  BY <1>5 DEF post
<1>6. QED BY <1>1, <1>2, <1>3, <1>4, <1>5 DEF Complete

\* sweep, and a lease that runs out, keep the types.
LEMMA SweepType ==
  ASSUME TypeOK,
         \/ \E p \in Process : Sweep(p) \/ \E old \in SUBSET Cmd : sweep(p, old)
         \/ \E c \in Cmd : leaseExpires(c)
  PROVE  TypeOK'
<1> USE DEF TypeOK, Status
<1>1. ASSUME NEW p \in Process, NEW old \in SUBSET Cmd, sweep(p, old) PROVE TypeOK'
  BY <1>1 DEF sweep
<1>2. ASSUME NEW p \in Process, NEW c \in Cmd, sweepWrite(p, c) PROVE TypeOK'
  BY <1>2 DEF sweepWrite
<1>3. ASSUME NEW p \in Process, NEW c \in Cmd, sweepRemove(p, c) PROVE TypeOK'
  BY <1>3 DEF sweepRemove
<1>4. ASSUME NEW c \in Cmd, leaseExpires(c) PROVE TypeOK'
  BY <1>4 DEF leaseExpires
<1>5. QED BY <1>1, <1>2, <1>3, <1>4 DEF Sweep

\* The empty queue, which nobody uses.
LEMMA QueueInit == Init => TypeOK
BY DEF Init, TypeOK, Op, IdleOp, Handler, FreeHandler, Status

\* Every step of the queue keeps the types.
LEMMA QueueTypeStep == TypeOK /\ [Next]_queueVars => TypeOK'
<1> SUFFICES ASSUME TypeOK, [Next]_queueVars PROVE TypeOK'
  OBVIOUS
<1>1. CASE UNCHANGED queueVars
  BY <1>1 DEF queueVars, TypeOK
<1>2. ASSUME NEW p \in Process,
             enqueue(p) \/ claim(p) \/ Locked(p) \/ claimReturn(p)
      PROVE  TypeOK'
  BY <1>2, LockedType
<1>3. ASSUME NEW r \in Result, Complete(r) \/ completeReturn(r) PROVE TypeOK'
  BY <1>3, CompleteType
<1>4. ASSUME NEW r \in Result, NEW c \in WithStatus({"claimed"}), NEW ok \in BOOLEAN,
             post(r, c, ok)
      PROVE  TypeOK'
  <2>1. c \in Cmd
    BY DEF WithStatus
  <2>2. QED BY <2>1, <1>4, CompleteType
<1>5. ASSUME \/ \E p \in Process : Sweep(p) \/ \E old \in SUBSET Cmd : sweep(p, old)
             \/ \E c \in Cmd : leaseExpires(c)
      PROVE  TypeOK'
  BY <1>5, SweepType
<1>6. QED BY <1>1, <1>2, <1>3, <1>4, <1>5 DEF Next

\* createCommandQueue (capabilities.mjs): whatever processes do to the queue at
\* the same time, records, claim files and operations keep their form.
THEOREM QueueTypeCorrect == Spec => []TypeOK
<1>1. Init => TypeOK
  BY QueueInit
<1>2. TypeOK /\ [Next]_queueVars => TypeOK'
  BY QueueTypeStep
<1>3. QED BY <1>1, <1>2, PTL DEF Spec

-----------------------------------------------------------------------------
(* maxPending.                                                             *)

pending == WithStatus({"pending"})

\* Commands and processes are finite, so they can be counted.
LEMMA Countable ==
  /\ IsFiniteSet(pending) /\ Cardinality(pending) \in Nat
  /\ IsFiniteSet(Enqueueing) /\ Cardinality(Enqueueing) \in Nat
  /\ Cardinality(Enqueueing) <= Cardinality(Process) /\ Cardinality(Process) \in Nat
  /\ IsFiniteSet(active) /\ Cardinality(active) \in Nat
  /\ Cardinality(pending) <= Cardinality(active)
<1>1. IsFiniteSet(Cmd) /\ IsFiniteSet(Process)
  BY QueueAssumption
<1>2. active \subseteq Cmd /\ pending \subseteq active /\ Enqueueing \subseteq Process
  BY DEF active, pending, WithStatus, Enqueueing
<1>3. IsFiniteSet(active)
  BY <1>1, <1>2, FS_Subset
<1>4. IsFiniteSet(pending) /\ Cardinality(pending) <= Cardinality(active)
  BY <1>2, <1>3, FS_Subset
<1>5. IsFiniteSet(Enqueueing) /\ Cardinality(Enqueueing) <= Cardinality(Process)
  BY <1>1, <1>2, FS_Subset
<1>6. QED BY <1>1, <1>3, <1>4, <1>5, FS_CardinalityType

\* A step that neither queues a command nor begins to leaves the bound alone.
LEMMA PendingFewer ==
  ASSUME PendingBound, pending' \subseteq pending, Enqueueing' \subseteq Enqueueing
  PROVE  PendingBound'
<1>1. IsFiniteSet(pending) /\ IsFiniteSet(Enqueueing)
  BY Countable
<1>2. IsFiniteSet(pending') /\ IsFiniteSet(Enqueueing')
      /\ Cardinality(pending') <= Cardinality(pending)
      /\ Cardinality(Enqueueing') <= Cardinality(Enqueueing)
  BY <1>1, FS_Subset
<1>3. Cardinality(pending') \in Nat /\ Cardinality(Enqueueing') \in Nat
  BY <1>2, FS_CardinalityType
<1>4. maxPending \in Nat
  BY QueueAssumption
<1>5. QED BY <1>2, <1>3, <1>4, Countable DEF PendingBound, pending

\* enqueue looks at the queue before it begins to write.
LEMMA PendingEnqueue ==
  ASSUME TypeOK, NEW p \in Process, enqueue(p)
  PROVE  PendingBound'
<1>1. pending' = pending
  BY DEF enqueue, pending, WithStatus
<1>2. Enqueueing' \subseteq Process
  BY DEF Enqueueing
<1>3. Cardinality(Enqueueing') <= Cardinality(Process) /\ Cardinality(Enqueueing') \in Nat
  BY <1>2, QueueAssumption, FS_Subset, FS_CardinalityType
<1>4. Cardinality(pending) < maxPending /\ maxPending \in Nat
  BY Countable, QueueAssumption DEF enqueue
<1>5. Cardinality(pending') = Cardinality(pending)
  BY <1>1
<1>6. QED BY <1>3, <1>4, <1>5, Countable DEF PendingBound, pending

\* ... and its file takes the place its process had reserved.
LEMMA PendingWrite ==
  ASSUME TypeOK, PendingBound, NEW p \in Process, NEW c \in Cmd, enqueueWrite(p, c)
  PROVE  PendingBound'
<1>1. pending' = pending \cup {c} /\ c \notin pending
  BY DEF enqueueWrite, First, pending, WithStatus, TypeOK
<1>2. Enqueueing' = Enqueueing \ {p} /\ p \in Enqueueing
  BY DEF enqueueWrite, Enqueueing, TypeOK, IdleOp
<1>3. Cardinality(pending') = Cardinality(pending) + 1
  BY <1>1, Countable, FS_AddElement
<1>4. Cardinality(Enqueueing') = Cardinality(Enqueueing) - 1
  BY <1>2, Countable, FS_RemoveElement
<1>5. maxPending \in Nat
  BY QueueAssumption
<1>6. QED BY <1>3, <1>4, <1>5, Countable DEF PendingBound, pending

\* What claims do: a record leaves "pending" or stays.
LEMMA ClaimKeepsBound ==
  ASSUME TypeOK, PendingBound, NEW p \in Process,
         \/ claim(p) \/ claimReturn(p) \/ \E c \in Cmd : claimNext(p, c)
         \/ claimRemove(p) \/ claimCreate(p) \/ claimReread(p) \/ claimUndo(p)
         \/ claimTake(p)
  PROVE  PendingBound'
<1>1. op'[p].pc # "write" /\ \A q \in Process \ {p} : op'[q] = op[q]
  <2> USE DEF TypeOK, Op, IdleOp
  <2>1. CASE claim(p)
    BY <2>1 DEF claim
  <2>2. CASE claimReturn(p)
    BY <2>2 DEF claimReturn
  <2>3. ASSUME NEW c \in Cmd, claimNext(p, c)
        PROVE  op'[p].pc # "write" /\ \A q \in Process \ {p} : op'[q] = op[q]
    <3>1. CASE op' = [op EXCEPT ![p].todo = @ \ {c}]
      BY ZenonT(60), <2>3, <3>1 DEF claimNext
    <3>2. ASSUME NEW pc \in {"rm", "create"},
                 op' = [op EXCEPT ![p].pc = pc, ![p].todo = @ \ {c}, ![p].cmd = c]
          PROVE  op'[p].pc # "write" /\ \A q \in Process \ {p} : op'[q] = op[q]
      BY <3>2
    <3>3. QED BY <2>3, <3>1, <3>2 DEF claimNext
  <2>4. CASE claimRemove(p)
    BY <2>4 DEF claimRemove
  <2>5. CASE claimCreate(p)
    BY <2>5 DEF claimCreate, Skip
  <2>6. CASE claimReread(p)
    BY <2>6 DEF claimReread
  <2>7. CASE claimUndo(p)
    BY <2>7 DEF claimUndo, Skip
  <2>8. CASE claimTake(p)
    BY <2>8 DEF claimTake
  <2>9. QED BY <2>1, <2>2, <2>3, <2>4, <2>5, <2>6, <2>7, <2>8
<1>2. Enqueueing' \subseteq Enqueueing
  BY <1>1 DEF Enqueueing
<1>3. record' = record \/ record' = [record EXCEPT ![op[p].cmd] = "claimed"]
  BY DEF claim, claimReturn, claimNext, claimRemove, claimCreate, claimReread,
         claimUndo, claimTake
<1>4. pending' \subseteq pending
  BY <1>3 DEF pending, WithStatus, TypeOK
<1>5. QED BY <1>2, <1>4, PendingFewer

\* What complete and a posted result do.
LEMMA CompleteKeepsBound ==
  ASSUME TypeOK, PendingBound, NEW r \in Result,
         \/ Complete(r) \/ completeReturn(r)
         \/ \E c \in Cmd, ok \in BOOLEAN : post(r, c, ok)
  PROVE  PendingBound'
<1>1. op' = op
  BY DEF Complete, completeRead, completeWrite, completeRemove, completeReturn, post
<1>2. \/ record' = record
      \/ \E s \in {"done", "failed"} : record' = [record EXCEPT ![result[r].cmd] = s]
  BY DEF Complete, completeRead, completeWrite, completeRemove, completeReturn, post
<1>3. pending' \subseteq pending /\ Enqueueing' \subseteq Enqueueing
  BY <1>1, <1>2 DEF pending, WithStatus, TypeOK, Enqueueing
<1>4. QED BY <1>3, PendingFewer

\* What sweep and time do.
LEMMA SweepKeepsBound ==
  ASSUME TypeOK, PendingBound,
         \/ \E p \in Process : Sweep(p) \/ \E old \in SUBSET Cmd : sweep(p, old)
         \/ \E c \in Cmd : leaseExpires(c)
  PROVE  PendingBound'
<1>1. op' = op
  BY DEF Sweep, sweep, sweepWrite, sweepRemove, leaseExpires
<1>2. record' = record \/ \E c \in Cmd : record' = [record EXCEPT ![c] = "expired"]
  BY DEF Sweep, sweep, sweepWrite, sweepRemove, leaseExpires
<1>3. pending' \subseteq pending /\ Enqueueing' \subseteq Enqueueing
  BY <1>1, <1>2 DEF pending, WithStatus, TypeOK, Enqueueing
<1>4. QED BY <1>3, PendingFewer

\* enqueue (capabilities.mjs) checks maxPending and writes in two steps, under a
\* lock that other processes do not see: for any number of processes, fewer
\* than maxPending + |Process| commands are ever pending or about to be.
THEOREM PendingIsBounded == Spec => []PendingBound
<1>1. Init => PendingBound
  <2> SUFFICES ASSUME Init PROVE PendingBound
    OBVIOUS
  <2>1. pending = {} /\ Enqueueing = {}
    BY DEF Init, pending, WithStatus, Enqueueing, IdleOp
  <2>2. Cardinality(pending) = 0 /\ Cardinality(Enqueueing) = 0
    BY <2>1, FS_EmptySet
  <2>3. QED BY <2>2, Countable, QueueAssumption DEF PendingBound, pending
<1>2. TypeOK /\ PendingBound /\ [Next]_queueVars => PendingBound'
  <2> SUFFICES ASSUME TypeOK, PendingBound, [Next]_queueVars PROVE PendingBound'
    OBVIOUS
  <2>1. CASE UNCHANGED queueVars
    <3>1. pending' \subseteq pending /\ Enqueueing' \subseteq Enqueueing
      BY <2>1 DEF queueVars, pending, WithStatus, Enqueueing
    <3>2. QED BY <3>1, PendingFewer
  <2>2. ASSUME NEW p \in Process,
               enqueue(p) \/ claim(p) \/ Locked(p) \/ claimReturn(p)
        PROVE  PendingBound'
    BY <2>2, PendingEnqueue, PendingWrite, ClaimKeepsBound DEF Locked
  <2>3. ASSUME NEW r \in Result, Complete(r) \/ completeReturn(r) PROVE PendingBound'
    BY <2>3, CompleteKeepsBound
  <2>4. ASSUME NEW r \in Result, NEW c \in WithStatus({"claimed"}), NEW ok \in BOOLEAN,
               post(r, c, ok)
        PROVE  PendingBound'
    <3>1. c \in Cmd
      BY DEF WithStatus
    <3>2. QED BY <3>1, <2>4, CompleteKeepsBound
  <2>5. ASSUME \/ \E p \in Process : Sweep(p) \/ \E old \in SUBSET Cmd : sweep(p, old)
               \/ \E c \in Cmd : leaseExpires(c)
        PROVE  PendingBound'
    BY <2>5, SweepKeepsBound
  <2>6. QED BY <2>1, <2>2, <2>3, <2>4, <2>5 DEF Next
<1>3. QED BY <1>1, <1>2, QueueTypeCorrect, PTL DEF Spec

-----------------------------------------------------------------------------
(* The channel: what the queue's part of each step does.                   *)

\* Every step of the channel keeps the types of the queue.
LEMMA ChannelQueueStep ==
  ASSUME ChannelInvariant, [ChannelNext]_vars
  PROVE  TypeOK'
<1>1. TypeOK /\ ChannelTypeOK
  BY DEF ChannelInvariant
<1>2. ASSUME UNCHANGED queueVars PROVE TypeOK'
  BY <1>1, <1>2 DEF queueVars, TypeOK
<1>3. ASSUME NEW r \in Result,
             \/ Complete(r) \/ completeReturn(r)
             \/ \E c \in Cmd, ok \in BOOLEAN : post(r, c, ok)
      PROVE  TypeOK'
  BY <1>1, <1>3, CompleteType
<1>4. ASSUME NEW p \in Process, Serve(p) \/ enqueue(p) PROVE TypeOK'
  BY <1>1, <1>4, LockedType DEF Serve, serveClaim, serveReturn
<1>5. ASSUME NEW w \in Worker, Work(w) PROVE TypeOK'
  <2>1. ASSUME NEW r \in Result, report(w, r) PROVE TypeOK'
    <3>1. worker[w].cmd \in Cmd /\ worker[w].ok \in BOOLEAN
      BY <1>1, <2>1 DEF report, ChannelTypeOK, WorkerState
    <3>2. QED BY <3>1, <2>1, <1>3 DEF report
  <2>2. ASSUME NEW r \in Result, reported(w, r) PROVE TypeOK'
    BY <2>2, <1>3 DEF reported
  <2>3. ASSUME NEW r \in Result, reportFails(w, r) PROVE TypeOK'
    <3>1. result \in [Result -> Handler] /\ FreeHandler \in Handler
      BY <1>1 DEF TypeOK, Handler, FreeHandler
    <3>2. result' \in [Result -> Handler]
      BY <3>1, <2>3 DEF reportFails, Drop
    <3>3. QED BY <3>2, <2>3, <1>1 DEF reportFails, TypeOK
  <2>4. ASSUME tick(w) \/ (\E c \in Cmd : run(w, c)) \/ (\E ok \in BOOLEAN : handled(w, ok))
        PROVE  TypeOK'
    BY <2>4, <1>2 DEF tick, run, handled
  <2>5. QED BY <1>5, <2>1, <2>2, <2>3, <2>4 DEF Work
<1>6. ASSUME NEW w \in Worker, pollTimeout(w) \/ CrashWorker(w) PROVE TypeOK'
  BY <1>6, <1>2 DEF pollTimeout, CrashWorker
<1>7. ASSUME NEW r \in Result, Answer(r) PROVE TypeOK'
  BY <1>7, <1>3 DEF Answer, unheard
<1>8. ASSUME NEW p \in Process, CrashNode(p) PROVE TypeOK'
  <2>1. op' \in [Process -> Op] /\ \A q \in Process : op'[q] \in {op[q], IdleOp}
    BY <1>1, <1>8 DEF CrashNode, TypeOK, Op, IdleOp
  <2>2. result' \in [Result -> Handler]
    BY <1>1, <1>8 DEF CrashNode, TypeOK, Handler, FreeHandler
  <2>3. QED BY <1>1, <1>8, <2>1, <2>2 DEF CrashNode, TypeOK, IdleOp
<1>9. ASSUME NEW c \in Cmd, expire(c) PROVE TypeOK'
  BY <1>1, <1>9, SweepType DEF expire
<1>10. QED
  BY <1>2, <1>4, <1>5, <1>6, <1>7, <1>8, <1>9 DEF ChannelNext, vars

\* A step of the lock touches no result and finishes no command.
LEMMA LockedLeaves ==
  ASSUME TypeOK, NEW p \in Process,
         enqueue(p) \/ claim(p) \/ Locked(p) \/ claimReturn(p)
  PROVE  /\ result' = result
         /\ \A c \in Cmd : record'[c] = "done" => record[c] = "done"
<1> USE DEF enqueue, claim, claimReturn, enqueueWrite, claimNext, claimRemove,
            claimCreate, claimReread, claimUndo, claimTake
<1>1. result' = result
  BY DEF Locked
<1>2. record' = record \/ \E s \in {"pending", "claimed"} : \E x : record' = [record EXCEPT ![x] = s]
  BY DEF Locked
<1>3. record \in [Cmd -> Status]
  BY DEF TypeOK
<1>4. QED BY <1>1, <1>2, <1>3

-----------------------------------------------------------------------------
(* What is reported is true.                                               *)

\* A success once reported or recorded stays a success.
LEMMA TruthKept ==
  ASSUME ReportsAreTrue, DoneMeansExecuted,
         succeeded \subseteq succeeded',
         \A c \in Cmd : record'[c] = "done" => record[c] = "done",
         \A r \in Result : result'[r].ok =>
           result[r].ok /\ result'[r].cmd = result[r].cmd,
         \A w \in Worker : worker'[w].pc \in {"report", "wait"} /\ worker'[w].ok =>
           /\ worker[w].pc \in {"report", "wait"} /\ worker[w].ok
           /\ worker'[w].cmd = worker[w].cmd
  PROVE  ReportsAreTrue' /\ DoneMeansExecuted'
BY DEF ReportsAreTrue, DoneMeansExecuted

\* Every step of the channel reports, and records, only what is true.
LEMMA TruthStep ==
  ASSUME ChannelInvariant, [ChannelNext]_vars
  PROVE  ReportsAreTrue' /\ DoneMeansExecuted'
<1> DEFINE Goal == ReportsAreTrue' /\ DoneMeansExecuted'
           Kept == \A c \in Cmd : record'[c] = "done" => record[c] = "done"
<1>1. TypeOK /\ ReportsAreTrue /\ DoneMeansExecuted
  BY DEF ChannelInvariant
<1>2. result \in [Result -> Handler] /\ worker \in [Worker -> WorkerState]
      /\ record \in [Cmd -> Status] /\ op \in [Process -> Op]
  BY DEF ChannelInvariant, ChannelTypeOK, TypeOK
<1>3. ASSUME succeeded' = succeeded, Kept,
             \A r \in Result : result'[r].ok =>
               result[r].ok /\ result'[r].cmd = result[r].cmd,
             \A w \in Worker : worker'[w].pc \in {"report", "wait"} /\ worker'[w].ok =>
               /\ worker[w].pc \in {"report", "wait"} /\ worker[w].ok
               /\ worker'[w].cmd = worker[w].cmd
      PROVE  Goal
  BY <1>1, <1>3, TruthKept
<1>4. CASE UNCHANGED vars
  BY <1>3, <1>4 DEF vars, queueVars, channelVars
<1>5. ASSUME NEW p \in Process, Serve(p) PROVE Goal
  <2>1. CASE Locked(p) /\ UNCHANGED channelVars
    BY <2>1, <1>1, <1>3, LockedLeaves DEF channelVars
  <2>2. ASSUME NEW w \in Worker, serveClaim(p, w) PROVE Goal
    BY <2>2, <1>1, <1>3, LockedLeaves DEF serveClaim
  <2>3. CASE serveReturn(p)
    <3>1. result' = result /\ Kept
      BY <2>3, <1>1, LockedLeaves DEF serveReturn
    <3>2. \A w \in Worker : worker'[w] = worker[w] \/ worker'[w].pc \in {"idle", "run"}
      BY <2>3, <1>2 DEF serveReturn, IdleWorker
    <3>3. QED BY <2>3, <3>1, <3>2, <1>3 DEF serveReturn
  <2>4. QED BY <1>5, <2>1, <2>2, <2>3 DEF Serve
<1>6. ASSUME NEW p \in Process, enqueue(p), UNCHANGED channelVars PROVE Goal
  BY <1>6, <1>1, <1>3, LockedLeaves DEF channelVars
<1>7. ASSUME NEW w \in Worker, Work(w) PROVE Goal
  <2>1. CASE tick(w)
    BY <2>1, <1>2, <1>3 DEF tick, queueVars
  <2>2. ASSUME NEW c \in Cmd, run(w, c) PROVE Goal
    <3>1. \A v \in Worker : worker'[v] = worker[v] \/ worker'[v].pc = "handle"
      BY <2>2, <1>2 DEF run, WorkerState
    <3>2. QED BY <2>2, <3>1, <1>3 DEF run, queueVars
  <2>3. ASSUME NEW ok \in BOOLEAN, handled(w, ok) PROVE Goal
    <3>1. succeeded \subseteq succeeded' /\ (ok => worker[w].cmd \in succeeded')
      BY <2>3 DEF handled
    <3>2. \A v \in Worker : worker'[v].cmd = worker[v].cmd
                           /\ (v # w => worker'[v] = worker[v])
      BY <2>3, <1>2 DEF handled, WorkerState
    <3>3. worker'[w].ok = ok
      BY <2>3, <1>2 DEF handled, WorkerState
    <3>4. QED
      BY ZenonT(60), <2>3, <3>1, <3>2, <3>3, <1>1
         DEF handled, queueVars, ReportsAreTrue, DoneMeansExecuted
  <2>4. ASSUME NEW r \in Result, report(w, r) PROVE Goal
    <3>1. worker[w].ok => worker[w].cmd \in succeeded
      BY <2>4, <1>1 DEF report, ReportsAreTrue
    <3>2. \A s \in Result : s # r => result'[s] = result[s]
      BY <2>4, <1>2 DEF report, post
    <3>3. result'[r].cmd = worker[w].cmd /\ result'[r].ok = worker[w].ok
      BY <2>4, <1>2 DEF report, post
    <3>4. \A v \in Worker : worker'[v].cmd = worker[v].cmd /\ worker'[v].ok = worker[v].ok
                           /\ (v # w => worker'[v] = worker[v])
      BY <2>4, <1>2 DEF report, WorkerState
    <3>5. record' = record /\ succeeded' = succeeded /\ worker[w].pc = "report"
      BY <2>4 DEF report, post
    <3>6. QED
      BY <3>1, <3>2, <3>3, <3>4, <3>5, <1>1 DEF ReportsAreTrue, DoneMeansExecuted
  <2>5. ASSUME NextCommand(w)
        PROVE  \A v \in Worker : worker'[v] = worker[v] \/ worker'[v].pc \in {"idle", "run"}
    BY <2>5, <1>2 DEF NextCommand, IdleWorker
  <2>6. ASSUME NEW r \in Result, reported(w, r) PROVE Goal
    <3>1. \A s \in Result : result'[s] = result[s] \/ ~result'[s].ok
      BY <2>6, <1>2 DEF reported, completeReturn, FreeHandler
    <3>2. QED BY <2>6, <3>1, <2>5, <1>3 DEF reported, completeReturn
  <2>7. ASSUME NEW r \in Result, reportFails(w, r) PROVE Goal
    <3>1. \A s \in Result : result'[s] = result[s] \/ ~result'[s].ok
      BY <2>7, <1>2 DEF reportFails, Drop, FreeHandler
    <3>2. \A v \in Worker : worker'[v] = worker[v] \/ worker'[v].pc \in {"idle", "run"}
                           \/ ~worker'[v].ok
      BY <2>7, <2>5, <1>2 DEF reportFails, WorkerState
    <3>3. QED BY <2>7, <3>1, <3>2, <1>3 DEF reportFails
  <2>8. QED BY <1>7, <2>1, <2>2, <2>3, <2>4, <2>6, <2>7 DEF Work
<1>8. ASSUME NEW w \in Worker, pollTimeout(w) \/ CrashWorker(w) PROVE Goal
  <2>1. \A v \in Worker : worker'[v] = worker[v] \/ worker'[v].pc = "idle"
    BY <1>8, <1>2 DEF pollTimeout, CrashWorker, IdleWorker
  <2>2. QED BY <1>8, <2>1, <1>3 DEF pollTimeout, CrashWorker, queueVars
<1>9. ASSUME NEW r \in Result, Answer(r) PROVE Goal
  <2>1. CASE completeWrite(r) /\ UNCHANGED channelVars
    <3>1. \A s \in Result : result'[s].ok = result[s].ok /\ result'[s].cmd = result[s].cmd
      BY <2>1, <1>2 DEF completeWrite, Handler
    <3>2. \A c \in Cmd : record'[c] = "done" =>
            record[c] = "done" \/ (result[r].ok /\ c = result[r].cmd)
      BY <2>1, <1>2 DEF completeWrite
    <3>3. QED
      BY <2>1, <3>1, <3>2, <1>1 DEF channelVars, ReportsAreTrue, DoneMeansExecuted
  <2>2. CASE (completeRead(r) \/ completeRemove(r)) /\ UNCHANGED channelVars
    <3>1. \A s \in Result : result'[s].ok = result[s].ok /\ result'[s].cmd = result[s].cmd
      BY <2>2, <1>2 DEF completeRead, completeRemove, Handler
    <3>2. QED BY <2>2, <3>1, <1>3 DEF completeRead, completeRemove, channelVars
  <2>3. CASE unheard(r)
    <3>1. \A s \in Result : result'[s] = result[s] \/ ~result'[s].ok
      BY <2>3, <1>2 DEF unheard, completeReturn, FreeHandler
    <3>2. QED BY <2>3, <3>1, <1>3 DEF unheard, completeReturn, channelVars
  <2>4. QED BY <1>9, <2>1, <2>2, <2>3 DEF Answer, Complete
<1>10. ASSUME NEW p \in Process, CrashNode(p) PROVE Goal
  <2>1. \A s \in Result : result'[s].ok => result[s].ok /\ result'[s].cmd = result[s].cmd
    BY <1>10, <1>2 DEF CrashNode, FreeHandler, Handler
  <2>2. \A v \in Worker : worker'[v] = worker[v] \/ worker'[v].pc = "idle"
    BY <1>10, <1>2 DEF CrashNode, IdleWorker
  <2>3. QED BY <1>10, <2>1, <2>2, <1>3 DEF CrashNode
<1>11. ASSUME NEW c \in Cmd, expire(c) PROVE Goal
  BY <1>11, <1>3 DEF expire, leaseExpires
<1>12. QED
  BY <1>4, <1>5, <1>6, <1>7, <1>8, <1>9, <1>10, <1>11 DEF ChannelNext

-----------------------------------------------------------------------------
(* Requests and answers belong together.                                   *)

\* The states of a worker, field by field.
LEMMA WorkerFields ==
  ASSUME NEW x \in WorkerState, NEW c \in Cmd, NEW S \in SUBSET Cmd, NEW ok \in BOOLEAN
  PROVE  /\ IdleWorker \in WorkerState
         /\ [x EXCEPT !.pc = "poll"] \in WorkerState
         /\ [x EXCEPT !.pc = "wait"] \in WorkerState
         /\ [x EXCEPT !.pc = "handle", !.cmd = c] \in WorkerState
         /\ [x EXCEPT !.pc = "report", !.ok = ok] \in WorkerState
         /\ [IdleWorker EXCEPT !.pc = "run", !.batch = S] \in WorkerState
BY DEF WorkerState, IdleWorker

\* One worker moves; the requests it has open follow.
LEMMA ChannelTypeMove ==
  ASSUME ChannelTypeOK, NEW w \in Worker, NEW x \in WorkerState,
         worker' = [worker EXCEPT ![w] = x],
         x.pc \in {"handle", "report", "wait"} => x.cmd \in x.batch,
         UNCHANGED <<started, succeeded>> \/ (started' \in [Cmd -> 0..2] /\ succeeded' \subseteq Cmd),
         faults' \in 0..MaxFaults,
         serves' \in [Process -> Worker \cup {None}],
         \A p \in Process : serves'[p] = w => x.pc = "poll",
         \A p \in Process : serves'[p] \in {serves[p], None},
         reports' \in [Result -> Worker \cup {None}],
         \A r \in Result : reports'[r] \in {reports[r], None},
         \A r \in Result : reports'[r] = w => x.pc = "wait" /\ x.cmd = result'[r].cmd,
         \A r \in Result : reports'[r] # None => result'[r].cmd = result[r].cmd
  PROVE  ChannelTypeOK'
<1>1. None \notin Worker
  BY ChannelAssumption
<1>2. worker' \in [Worker -> WorkerState]
  BY DEF ChannelTypeOK
<1>3. \A p \in Process : serves'[p] # None => worker'[serves'[p]].pc = "poll"
  BY DEF ChannelTypeOK
<1>4. \A r \in Result : reports'[r] # None =>
        worker'[reports'[r]].pc = "wait" /\ worker'[reports'[r]].cmd = result'[r].cmd
  BY DEF ChannelTypeOK
<1>5. \A v \in Worker : worker'[v].pc \in {"handle", "report", "wait"} =>
        worker'[v].cmd \in worker'[v].batch
  BY DEF ChannelTypeOK
<1>6. /\ \A p, q \in Process : serves'[p] = serves'[q] /\ serves'[p] # None => p = q
      /\ \A r, s \in Result : reports'[r] = reports'[s] /\ reports'[r] # None => r = s
  BY DEF ChannelTypeOK
<1>7. QED BY <1>2, <1>3, <1>4, <1>5, <1>6 DEF ChannelTypeOK

\* Nothing of the workers moves.
LEMMA ChannelTypeQuiet ==
  ASSUME ChannelTypeOK, UNCHANGED <<worker, serves, reports, started, succeeded>>,
         faults' \in 0..MaxFaults,
         \A r \in Result : reports[r] # None => result'[r].cmd = result[r].cmd
  PROVE  ChannelTypeOK'
BY DEF ChannelTypeOK

\* A fault is counted up to its bound.
LEMMA FaultType ==
  ASSUME ChannelTypeOK, Fault \/ UNCHANGED faults
  PROVE  faults' \in 0..MaxFaults
BY ChannelAssumption DEF ChannelTypeOK, Fault

\* What the nodes do: a claim is begun for a worker that polls, and answered.
LEMMA ServeKeepsType ==
  ASSUME ChannelInvariant, NEW p \in Process, Serve(p)
  PROVE  ChannelTypeOK'
<1>1. TypeOK /\ ChannelTypeOK /\ faults \in 0..MaxFaults
  BY DEF ChannelInvariant, ChannelTypeOK
<1>2. worker \in [Worker -> WorkerState] /\ serves \in [Process -> Worker \cup {None}]
      /\ op \in [Process -> Op] /\ None \notin Worker
  BY <1>1, ChannelAssumption DEF ChannelTypeOK, TypeOK
<1>3. CASE Locked(p) /\ UNCHANGED channelVars
  BY <1>3, <1>1, LockedLeaves, ChannelTypeQuiet DEF channelVars
<1>4. ASSUME NEW w \in Worker, serveClaim(p, w) PROVE ChannelTypeOK'
  <2>1. result' = result
    BY <1>4, <1>1, LockedLeaves DEF serveClaim
  <2>2. serves' \in [Process -> Worker \cup {None}]
    BY <1>4, <1>2 DEF serveClaim
  <2>3. \A q \in Process : serves'[q] = IF q = p THEN w ELSE serves[q]
    BY <1>4, <1>2 DEF serveClaim
  <2>4. /\ worker[w].pc = "poll" /\ \A q \in Process : serves[q] # w
        /\ UNCHANGED <<worker, reports, started, succeeded, faults>>
    BY <1>4 DEF serveClaim
  <2>5. /\ \A q \in Process : serves'[q] # None => worker'[serves'[q]].pc = "poll"
        /\ \A q, s \in Process : serves'[q] = serves'[s] /\ serves'[q] # None => q = s
    BY <2>3, <2>4, <1>1 DEF ChannelTypeOK
  <2>6. QED BY <2>1, <2>2, <2>4, <2>5, <1>1 DEF ChannelTypeOK
<1>5. CASE serveReturn(p)
  <2>1. result' = result
    BY <1>5, <1>1, LockedLeaves DEF serveReturn
  <2>2. serves' \in [Process -> Worker \cup {None}] /\ serves'[p] = None
        /\ \A q \in Process : q # p => serves'[q] = serves[q]
    BY <1>5, <1>2 DEF serveReturn
  <2>3. UNCHANGED <<reports, started, succeeded, faults>>
    BY <1>5 DEF serveReturn
  <2>4. CASE serves[p] = None
    <3>1. worker' = worker /\ serves' = serves
      BY <1>5, <2>4, <1>2 DEF serveReturn
    <3>2. QED BY <3>1, <2>1, <2>3, <1>1, ChannelTypeQuiet
  <2>5. CASE serves[p] # None
    <3> DEFINE w == serves[p]
               x == IF op[p].got = {} THEN IdleWorker
                    ELSE [IdleWorker EXCEPT !.pc = "run", !.batch = op[p].got]
    <3>1. w \in Worker /\ worker[w].pc = "poll"
      BY <2>5, <1>1, <1>2 DEF ChannelTypeOK
    <3>2. x \in WorkerState /\ x.pc \in {"idle", "run"}
      BY <1>2 DEF WorkerState, IdleWorker, Op
    <3>3. worker' = [worker EXCEPT ![w] = x]
      BY <1>5, <2>5 DEF serveReturn
    <3>4. \A q \in Process : serves'[q] # w
      BY <2>2, <2>5, <1>1 DEF ChannelTypeOK
    <3>5. \A r \in Result : reports[r] # w
      BY <3>1, <1>1, <1>2 DEF ChannelTypeOK
    <3>6. reports' \in [Result -> Worker \cup {None}]
      BY <2>3, <1>1 DEF ChannelTypeOK
    <3> HIDE DEF w, x
    <3>7. /\ \A q \in Process : serves'[q] \in {serves[q], None}
          /\ \A r \in Result : reports'[r] = reports[r] /\ result'[r] = result[r]
          /\ faults' \in 0..MaxFaults
      BY <2>1, <2>2, <2>3, <1>1
    <3>8. QED
      BY ZenonT(60), <3>1, <3>2, <3>3, <3>4, <3>5, <3>6, <3>7, <2>2, <2>3, <1>1, ChannelTypeMove
  <2>6. QED BY <2>4, <2>5
<1>6. QED BY <1>3, <1>4, <1>5 DEF Serve

\* What a worker does with nobody's answer: it polls, runs, or gives up.
LEMMA WorkerKeepsType ==
  ASSUME ChannelInvariant, NEW w \in Worker,
         \/ tick(w) \/ (\E c \in Cmd : run(w, c)) \/ (\E ok \in BOOLEAN : handled(w, ok))
         \/ pollTimeout(w) \/ CrashWorker(w)
  PROVE  ChannelTypeOK'
<1>1. TypeOK /\ ChannelTypeOK
  BY DEF ChannelInvariant
<1>2. /\ worker \in [Worker -> WorkerState] /\ serves \in [Process -> Worker \cup {None}]
      /\ reports \in [Result -> Worker \cup {None}] /\ None \notin Worker
      /\ started \in [Cmd -> 0..2] /\ succeeded \subseteq Cmd /\ worker[w] \in WorkerState
  BY <1>1, ChannelAssumption DEF ChannelTypeOK
<1>3. faults' \in 0..MaxFaults
  BY <1>1, FaultType DEF tick, run, handled, pollTimeout, CrashWorker
<1>4. result' = result
  BY DEF tick, run, handled, pollTimeout, CrashWorker, queueVars
<1>5. /\ \A p \in Process : serves[p] = w => worker[w].pc = "poll"
      /\ \A r \in Result : reports[r] = w => worker[w].pc = "wait"
      /\ worker[w].pc \in {"handle", "report", "wait"} => worker[w].cmd \in worker[w].batch
  BY <1>1, <1>2 DEF ChannelTypeOK
<1>6. ASSUME NEW x \in WorkerState, worker' = [worker EXCEPT ![w] = x],
             x.pc \in {"handle", "report"} => x.cmd \in x.batch, x.pc # "wait",
             \/ UNCHANGED <<started, succeeded>>
             \/ started' \in [Cmd -> 0..2] /\ succeeded' \subseteq Cmd,
             serves' = serves, reports' = reports,
             worker[w].pc # "wait", x.pc = "poll" \/ worker[w].pc # "poll"
      PROVE  ChannelTypeOK'
  BY ZenonT(60), <1>6, <1>1, <1>2, <1>3, <1>4, <1>5, ChannelTypeMove
<1>7. CASE tick(w)
  <2> DEFINE x == [worker[w] EXCEPT !.pc = "poll"]
  <2>1. x \in WorkerState /\ x.pc = "poll"
    BY <1>2 DEF WorkerState
  <2>2. worker' = [worker EXCEPT ![w] = x]
    BY <1>7 DEF tick
  <2> HIDE DEF x
  <2>3. QED BY <1>7, <2>1, <2>2, <1>6 DEF tick
<1>8. ASSUME NEW c \in Cmd, run(w, c) PROVE ChannelTypeOK'
  <2> DEFINE x == [worker[w] EXCEPT !.pc = "handle", !.cmd = c]
  <2>1. x \in WorkerState /\ x.pc = "handle" /\ x.cmd \in x.batch
    BY <1>2, <1>8 DEF WorkerState, run, First
  <2>2. worker' = [worker EXCEPT ![w] = x]
    <3>1. worker \in [Worker -> WorkerState]
      BY <1>2
    <3>2. worker' = [worker EXCEPT ![w].pc = "handle", ![w].cmd = c]
      BY <1>8 DEF run
    <3>3. QED BY <3>1, <3>2 DEF WorkerState
  <2>3. started' \in [Cmd -> 0..2] /\ succeeded' \subseteq Cmd
    <3>1. started \in [Cmd -> 0..2] /\ succeeded \subseteq Cmd
      BY <1>2
    <3>2. /\ started' = [started EXCEPT ![c] = IF started[c] = 2 THEN 2 ELSE started[c] + 1]
          /\ succeeded' = succeeded
      BY <1>8 DEF run
    <3>3. QED BY <3>1, <3>2
  <2> HIDE DEF x
  <2>4. QED BY <1>8, <2>1, <2>2, <2>3, <1>6 DEF run
<1>9. ASSUME NEW ok \in BOOLEAN, handled(w, ok) PROVE ChannelTypeOK'
  <2> DEFINE x == [worker[w] EXCEPT !.pc = "report", !.ok = ok]
  <2>1. x \in WorkerState /\ x.pc = "report" /\ x.cmd = worker[w].cmd /\ x.batch = worker[w].batch
    BY <1>2 DEF WorkerState
  <2>2. worker' = [worker EXCEPT ![w] = x]
    BY <1>9, <1>2 DEF handled, WorkerState
  <2>3. worker[w].cmd \in worker[w].batch /\ worker[w].cmd \in Cmd
    BY <1>9, <1>5, <1>2 DEF handled, WorkerState
  <2>4. started' \in [Cmd -> 0..2] /\ succeeded' \subseteq Cmd
    BY <1>2, <1>9, <2>3 DEF handled
  <2> HIDE DEF x
  <2>5. QED BY <1>9, <2>1, <2>2, <2>3, <2>4, <1>6 DEF handled
<1>10. CASE pollTimeout(w) \/ CrashWorker(w)
  <2>1. worker' = [worker EXCEPT ![w] = IdleWorker] /\ UNCHANGED <<started, succeeded>>
    BY <1>10 DEF pollTimeout, CrashWorker
  <2>2. IdleWorker \in WorkerState /\ IdleWorker.pc = "idle"
    BY DEF IdleWorker, WorkerState
  <2>3. /\ serves' \in [Process -> Worker \cup {None}]
        /\ \A p \in Process : serves'[p] \in {serves[p], None} /\ serves'[p] # w
    BY <1>10, <1>2 DEF pollTimeout, CrashWorker
  <2>4. /\ reports' \in [Result -> Worker \cup {None}]
        /\ \A r \in Result : reports'[r] \in {reports[r], None} /\ reports'[r] # w
    BY <1>10, <1>2, <1>5 DEF pollTimeout, CrashWorker
  <2>5. QED BY <2>1, <2>2, <2>3, <2>4, <1>1, <1>3, <1>4, ChannelTypeMove
<1>11. QED BY <1>7, <1>8, <1>9, <1>10

\* A worker reports, and hears of its report or gives it up.
LEMMA ReportKeepsType ==
  ASSUME ChannelInvariant, NEW w \in Worker, NEW r \in Result,
         report(w, r) \/ reported(w, r) \/ reportFails(w, r)
  PROVE  ChannelTypeOK'
<1>1. TypeOK /\ ChannelTypeOK
  BY DEF ChannelInvariant
<1>2. /\ worker \in [Worker -> WorkerState] /\ serves \in [Process -> Worker \cup {None}]
      /\ reports \in [Result -> Worker \cup {None}] /\ None \notin Worker
      /\ worker[w] \in WorkerState /\ result \in [Result -> Handler]
  BY <1>1, ChannelAssumption DEF ChannelTypeOK, TypeOK
<1>3. /\ \A p \in Process : serves[p] = w => worker[w].pc = "poll"
      /\ \A s \in Result : reports[s] = w =>
           worker[w].pc = "wait" /\ \A q \in Result : reports[q] = w => q = s
      /\ worker[w].pc \in {"handle", "report", "wait"} => worker[w].cmd \in worker[w].batch
  BY <1>1, <1>2 DEF ChannelTypeOK
<1>4. CASE report(w, r)
  <2> DEFINE x == [worker[w] EXCEPT !.pc = "wait"]
  <2>1. x \in WorkerState /\ x.pc = "wait" /\ x.cmd = worker[w].cmd /\ x.batch = worker[w].batch
    BY <1>2 DEF WorkerState
  <2>2. worker' = [worker EXCEPT ![w] = x] /\ worker[w].pc = "report"
    BY <1>4 DEF report
  <2> HIDE DEF x
  <2>3. /\ result'[r].cmd = worker[w].cmd
        /\ \A s \in Result : s # r => result'[s] = result[s]
    BY <1>4, <1>2 DEF report, post
  <2>4. /\ reports' \in [Result -> Worker \cup {None}] /\ reports'[r] = w
        /\ \A s \in Result : s # r => reports'[s] = reports[s] /\ reports[s] # w
    BY <1>4, <1>2, <1>3, <2>2 DEF report
  <2>5. UNCHANGED <<serves, started, succeeded, faults>>
    BY <1>4 DEF report
  <2>6. \A v \in Worker : worker'[v] = IF v = w THEN x ELSE worker[v]
    BY <2>1, <2>2, <1>2
  <2>7. worker' \in [Worker -> WorkerState]
    BY <2>1, <2>2, <1>2
  <2>8. \A p \in Process : serves[p] # None => worker'[serves[p]].pc = "poll"
    BY <2>2, <2>6, <1>1, <1>2, <1>3 DEF ChannelTypeOK
  <2>9. \A s \in Result : reports'[s] # None =>
          worker'[reports'[s]].pc = "wait" /\ worker'[reports'[s]].cmd = result'[s].cmd
    BY <2>1, <2>3, <2>4, <2>6, <1>1, <1>2 DEF ChannelTypeOK
  <2>10. \A s, q \in Result : reports'[s] = reports'[q] /\ reports'[s] # None => s = q
    BY <2>4, <1>1 DEF ChannelTypeOK
  <2>11. \A v \in Worker : worker'[v].pc \in {"handle", "report", "wait"} =>
           worker'[v].cmd \in worker'[v].batch
    BY <2>1, <2>2, <2>6, <1>1, <1>3 DEF ChannelTypeOK
  <2>12. QED
    BY <2>4, <2>5, <2>7, <2>8, <2>9, <2>10, <2>11, <1>1 DEF ChannelTypeOK
<1>5. ASSUME reports[r] = w,
             UNCHANGED <<serves, started, succeeded>>, Fault \/ UNCHANGED faults,
             reports' = [reports EXCEPT ![r] = None],
             \A s \in Result : s # r => result'[s] = result[s],
             NEW x \in WorkerState, worker' = [worker EXCEPT ![w] = x],
             x.pc \in {"idle", "run"} \/ (x.pc = "report" /\ x.cmd \in x.batch)
      PROVE  ChannelTypeOK'
  <2>1. /\ reports' \in [Result -> Worker \cup {None}] /\ reports'[r] = None
        /\ \A s \in Result : reports'[s] \in {reports[s], None} /\ reports'[s] # w
    BY <1>5, <1>2, <1>3
  <2>2. \A s \in Result : reports'[s] # None => result'[s].cmd = result[s].cmd
    BY <2>1, <1>5
  <2>3. \A p \in Process : serves'[p] # w /\ serves'[p] = serves[p]
    BY <1>5, <1>3
  <2>4. faults' \in 0..MaxFaults /\ serves' \in [Process -> Worker \cup {None}]
    BY <1>5, <1>1, <1>2, FaultType
  <2>5. x.pc \in {"handle", "report", "wait"} => x.cmd \in x.batch
    BY <1>5
  <2>6. QED BY <1>5, <1>1, <2>1, <2>2, <2>3, <2>4, <2>5, ChannelTypeMove
<1>6. ASSUME NextCommand(w)
      PROVE  \E x \in WorkerState : x.pc \in {"idle", "run"} /\ worker' = [worker EXCEPT ![w] = x]
  <2> DEFINE x == IF worker[w].batch = {worker[w].cmd} THEN IdleWorker
                  ELSE [IdleWorker EXCEPT !.pc = "run",
                                          !.batch = worker[w].batch \ {worker[w].cmd}]
  <2>1. x \in WorkerState /\ x.pc \in {"idle", "run"}
    BY <1>2 DEF WorkerState, IdleWorker
  <2>2. worker' = [worker EXCEPT ![w] = x]
    BY <1>6 DEF NextCommand
  <2> HIDE DEF x
  <2>3. QED BY <2>1, <2>2
<1>7. CASE reported(w, r)
  <2>1. \A s \in Result : s # r => result'[s] = result[s]
    BY <1>7, <1>2 DEF reported, completeReturn
  <2>2. QED BY <1>7, <2>1, <1>5, <1>6 DEF reported
<1>8. CASE reportFails(w, r)
  <2>1. \A s \in Result : s # r => result'[s] = result[s]
    BY <1>8, <1>2 DEF reportFails, Drop
  <2>2. /\ reports[r] = w /\ reports' = [reports EXCEPT ![r] = None]
        /\ UNCHANGED <<serves, started, succeeded>> /\ (Fault \/ UNCHANGED faults)
    BY <1>8 DEF reportFails, Drop
  <2>3. CASE NextCommand(w)
    BY <2>1, <2>2, <2>3, <1>5, <1>6
  <2>4. CASE worker' = [worker EXCEPT ![w].pc = "report", ![w].ok = FALSE]
    <3> DEFINE x == [worker[w] EXCEPT !.pc = "report", !.ok = FALSE]
    <3>1. x \in WorkerState /\ x.pc = "report" /\ x.cmd = worker[w].cmd /\ x.batch = worker[w].batch
      BY <1>2 DEF WorkerState
    <3>2. worker' = [worker EXCEPT ![w] = x]
      BY <2>4, <1>2 DEF WorkerState
    <3>3. worker[w].cmd \in worker[w].batch
      BY <2>2, <1>3
    <3> HIDE DEF x
    <3>4. QED BY <3>1, <3>2, <3>3, <2>1, <2>2, <1>5
  <2>5. QED BY <1>8, <2>3, <2>4 DEF reportFails
<1>9. QED BY <1>4, <1>7, <1>8

\* Every step keeps requests and answers together.
LEMMA ChannelTypeStep ==
  ASSUME ChannelInvariant, [ChannelNext]_vars
  PROVE  ChannelTypeOK'
<1>1. TypeOK /\ ChannelTypeOK
  BY DEF ChannelInvariant
<1>2. /\ worker \in [Worker -> WorkerState] /\ serves \in [Process -> Worker \cup {None}]
      /\ reports \in [Result -> Worker \cup {None}] /\ None \notin Worker
      /\ result \in [Result -> Handler] /\ faults \in 0..MaxFaults
  BY <1>1, ChannelAssumption DEF ChannelTypeOK, TypeOK
<1>3. CASE UNCHANGED vars
  BY <1>3, <1>1 DEF vars, queueVars, channelVars, ChannelTypeOK
<1>4. ASSUME NEW p \in Process, enqueue(p), UNCHANGED channelVars PROVE ChannelTypeOK'
  BY <1>4, <1>1, <1>2, LockedLeaves, ChannelTypeQuiet DEF channelVars
<1>5. ASSUME NEW r \in Result, Answer(r) PROVE ChannelTypeOK'
  <2>1. \A s \in Result : reports[s] # None => result'[s].cmd = result[s].cmd
    <3>1. CASE Complete(r)
      BY <3>1, <1>2 DEF Complete, completeRead, completeWrite, completeRemove, Handler
    <3>2. CASE unheard(r)
      BY <3>2, <1>2 DEF unheard, completeReturn
    <3>3. QED BY <1>5, <3>1, <3>2 DEF Answer
  <2>2. UNCHANGED channelVars
    BY <1>5 DEF Answer, unheard
  <2>3. QED BY <2>1, <2>2, <1>1, <1>2, ChannelTypeQuiet DEF channelVars
<1>6. ASSUME NEW p \in Process, CrashNode(p) PROVE ChannelTypeOK'
  <2>1. UNCHANGED <<reports, started, succeeded>> /\ faults' \in 0..MaxFaults
    BY <1>6, <1>1, FaultType DEF CrashNode
  <2>2. \A s \in Result : reports[s] # None => result'[s].cmd = result[s].cmd
    BY <1>6, <1>2 DEF CrashNode, Handler
  <2>3. serves' \in [Process -> Worker \cup {None}] /\ serves'[p] = None
        /\ \A q \in Process : q # p => serves'[q] = serves[q]
    BY <1>6, <1>2 DEF CrashNode
  <2>4. CASE serves[p] = None
    <3>1. worker' = worker /\ serves' = serves
      BY <1>6, <2>4, <1>2 DEF CrashNode
    <3>2. QED BY <3>1, <2>1, <2>2, <1>1, ChannelTypeQuiet
  <2>5. CASE serves[p] # None
    <3> DEFINE w == serves[p]
    <3>1. w \in Worker /\ worker[w].pc = "poll"
      BY <2>5, <1>1, <1>2 DEF ChannelTypeOK
    <3>2. worker' = [worker EXCEPT ![w] = IdleWorker]
      BY <1>6, <2>5 DEF CrashNode
    <3>3. \A q \in Process : serves'[q] # w /\ serves'[q] \in {serves[q], None}
      BY <2>3, <2>5, <1>1 DEF ChannelTypeOK
    <3>4. \A r \in Result : reports'[r] # w /\ reports'[r] = reports[r]
      BY <3>1, <2>1, <1>1, <1>2 DEF ChannelTypeOK
    <3>5. IdleWorker \in WorkerState /\ IdleWorker.pc = "idle"
      BY DEF IdleWorker, WorkerState
    <3>6. reports' \in [Result -> Worker \cup {None}]
      BY <2>1, <1>2
    <3> HIDE DEF w
    <3>7. QED
      BY ZenonT(60), <3>1, <3>2, <3>3, <3>4, <3>5, <3>6, <2>1, <2>2, <2>3, <1>1, ChannelTypeMove
  <2>6. QED BY <2>4, <2>5
<1>7. ASSUME NEW c \in Cmd, expire(c) PROVE ChannelTypeOK'
  <2>1. faults' \in 0..MaxFaults
    BY <1>7, <1>1, FaultType DEF expire
  <2>2. QED BY <1>7, <2>1, <1>1, ChannelTypeQuiet DEF expire, leaseExpires
<1>8. QED
  BY <1>3, <1>4, <1>5, <1>6, <1>7, ServeKeepsType, WorkerKeepsType, ReportKeepsType
     DEF ChannelNext, Work

\* At first there is no request and no answer.
LEMMA ChannelInvariantInit == ChannelInit => ChannelInvariant
<1> SUFFICES ASSUME ChannelInit PROVE ChannelInvariant
  OBVIOUS
<1>1. TypeOK
  BY QueueInit DEF ChannelInit
<1>2. IdleWorker \in WorkerState
  BY DEF IdleWorker, WorkerState
<1>3. ChannelTypeOK
  BY <1>2, ChannelAssumption DEF ChannelInit, ChannelTypeOK, IdleWorker
<1>4. ReportsAreTrue /\ DoneMeansExecuted
  BY DEF ChannelInit, Init, ReportsAreTrue, DoneMeansExecuted, FreeHandler, IdleWorker
<1>5. QED BY <1>1, <1>3, <1>4 DEF ChannelInvariant

\* createCommandWorker against createCommandQueue: for any number of workers,
\* nodes, commands and faults, an answer reaches only the request it belongs
\* to, and what is reported is true.
THEOREM ChannelInvariantHolds == ChannelSpec => []ChannelInvariant
<1>1. ChannelInit => ChannelInvariant
  BY ChannelInvariantInit
<1>2. ChannelInvariant /\ [ChannelNext]_vars => ChannelInvariant'
  BY ChannelQueueStep, ChannelTypeStep, TruthStep DEF ChannelInvariant
<1>3. QED BY <1>1, <1>2, PTL DEF ChannelSpec

\* complete (capabilities.mjs) never records "done" for a command that no
\* handler carried out, whatever is claimed twice, lost, late or repeated.
THEOREM DoneIsTrue == ChannelSpec => []DoneMeansExecuted
<1>1. ChannelInvariant => DoneMeansExecuted
  BY DEF ChannelInvariant
<1>2. QED BY <1>1, ChannelInvariantHolds, PTL

-----------------------------------------------------------------------------
(* As long as nothing fails, a command is run once, however many workers   *)
(* and nodes share the queue directory.  The claim file does it: it exists *)
(* exactly while one operation or one worker holds the command (claim and  *)
(* complete in src/capabilities.mjs).                                      *)

\* Process p has the command in hand, between its claim file and its answer.
HoldsOp(p, c) ==
  c \in op[p].got \/ (op[p].pc \in {"reread", "take", "undo"} /\ op[p].cmd = c)

\* The result worker w waits for has been written; its claim file is gone.
Ended(w) == \E r \in Result : reports[r] = w /\ result[r].pc \in {"rm", "answered"}
Freed(w) == \E r \in Result : reports[r] = w /\ result[r].pc = "answered"

HoldsBatch(w, c) == c \in worker[w].batch /\ (worker[w].cmd = c => ~Freed(w))

\* There is a claim file exactly while somebody holds the command, and it is
\* one process or one worker; nobody works under a stale one.
OwnedOnce(c) ==
  /\ lease[c] \in {"none", "fresh"}
  /\ lease[c] = "fresh" <=>
       (\E p \in Process : HoldsOp(p, c)) \/ (\E w \in Worker : HoldsBatch(w, c))
  /\ \A p, q \in Process : HoldsOp(p, c) /\ HoldsOp(q, c) => p = q
  /\ \A w, v \in Worker : HoldsBatch(w, c) /\ HoldsBatch(v, c) => w = v
  /\ \A p \in Process, w \in Worker : ~(HoldsOp(p, c) /\ HoldsBatch(w, c))

Terminal(c) == record[c] \in TERMINAL_STATUS

\* What is held is not finished, but for the one whose result is being written.
RecordsAgree ==
  /\ \A p \in Process :
       /\ \A c \in op[p].got : ~Terminal(c)
       /\ op[p].pc = "take" => ~Terminal(op[p].cmd)
       /\ op[p].pc = "undo" => Terminal(op[p].cmd)
  /\ \A w \in Worker : \A c \in worker[w].batch :
       Terminal(c) <=> worker[w].cmd = c /\ Ended(w)

\* Every claim and every result has a worker that waits for it.
NothingStrays ==
  /\ \A p \in Process :
       /\ op[p].pc # "rm"
       /\ serves[p] = None <=> op[p].pc \in {"idle", "write"}
       /\ serves[p] = None => op[p].got = {}
  /\ \A r \in Result : result[r].pc # "lost" /\ (result[r].pc # "free" => reports[r] # None)
  /\ \A w \in Worker : worker[w].pc \in {"idle", "poll"} => worker[w].batch = {}

Busy(w, c) == worker[w].pc \in {"handle", "report", "wait"} /\ worker[w].cmd = c

StartedOnce ==
  \A c \in Cmd : started[c] <= 1 /\ (started[c] # 0 => Terminal(c) \/ \E w \in Worker : Busy(w, c))

Owned == \A c \in Cmd : OwnedOnce(c)

ClaimsHold == Owned /\ RecordsAgree /\ NothingStrays /\ StartedOnce

-----------------------------------------------------------------------------
\* Statuses a claim writes are not final, those of a result are.
LEMMA Statuses ==
  /\ {"pending", "claimed", "none"} \cap TERMINAL_STATUS = {}
  /\ {"done", "failed"} \subseteq TERMINAL_STATUS
BY DEF TERMINAL_STATUS

\* A command whose holders and claim file are the same is owned as before.
LEMMA OwnedKept ==
  ASSUME NEW c \in Cmd, OwnedOnce(c), lease'[c] = lease[c],
         \A p \in Process : HoldsOp(p, c)' <=> HoldsOp(p, c),
         \A w \in Worker : HoldsBatch(w, c)' <=> HoldsBatch(w, c)
  PROVE  OwnedOnce(c)'
BY DEF OwnedOnce

\* The one holder lets go of the command together with the claim file.
LEMMA OwnedFreed ==
  ASSUME NEW c \in Cmd, lease'[c] = "none",
         \A p \in Process : ~HoldsOp(p, c)',
         \A w \in Worker : ~HoldsBatch(w, c)'
  PROVE  OwnedOnce(c)'
BY DEF OwnedOnce

\* What the workers hold depends on them and on the results they wait for.
LEMMA WorkersStill ==
  ASSUME UNCHANGED <<worker, reports, result>>, NEW w \in Worker
  PROVE  /\ Ended(w)' <=> Ended(w)
         /\ Freed(w)' <=> Freed(w)
         /\ \A c \in Cmd : HoldsBatch(w, c)' <=> HoldsBatch(w, c)
         /\ \A c \in Cmd : Busy(w, c)' <=> Busy(w, c)
BY DEF Ended, Freed, HoldsBatch, Busy

-----------------------------------------------------------------------------
\* A step of process p that finishes nothing and leaves the workers alone.
LEMMA OpMove ==
  ASSUME ChannelInvariant, ClaimsHold, NEW p \in Process, NEW o \in Op,
         op' = [op EXCEPT ![p] = o],
         UNCHANGED <<worker, serves, reports, started, result>>,
         o.pc # "rm",
         serves[p] = None <=> o.pc \in {"idle", "write"},
         serves[p] = None => o.got = {},
         \A c \in Cmd : Terminal(c)' <=> Terminal(c),
         o.pc \in {"take", "undo"} => o.cmd \in Cmd,
         o.pc = "take" => ~Terminal(o.cmd),
         o.pc = "undo" => Terminal(o.cmd),
         \A c \in o.got : ~Terminal(c),
         Owned'
  PROVE  ClaimsHold'
<1>1. /\ op \in [Process -> Op] /\ worker \in [Worker -> WorkerState]
      /\ op'[p] = o /\ \A q \in Process \ {p} : op'[q] = op[q]
      /\ \A q \in Process : op[q].pc \in {"take", "undo"} => op[q].cmd \in Cmd
  BY DEF ChannelInvariant, TypeOK, ChannelTypeOK
<1>2. \A q \in Process : op[q].got \subseteq Cmd
  BY <1>1 DEF Op
<1>3. \A w \in Worker : worker[w].batch \subseteq Cmd
  BY <1>1 DEF WorkerState
<1>4. o.got \subseteq Cmd
  BY DEF Op
<1>5. RecordsAgree'
  <2>1. ASSUME NEW q \in Process
        PROVE  /\ \A c \in op'[q].got : ~Terminal(c)'
               /\ op'[q].pc = "take" => ~Terminal(op[q].cmd)'
               /\ op'[q].pc = "undo" => Terminal(op[q].cmd)'
    <3>1. CASE q = p
      <4>1. \A c \in o.got : ~Terminal(c)'
        BY <1>4
      <4>2. o.pc = "take" => ~Terminal(op[p].cmd)'
        BY <1>1, <1>2 DEF Terminal
      <4>3. QED BY <3>1, <4>1, <1>1 DEF Terminal
    <3>2. CASE q # p
      BY <3>2, <1>1, <1>2 DEF ClaimsHold, RecordsAgree, Terminal
    <3>3. QED BY <3>1, <3>2
  <2>2. QED BY <2>1, <1>3, WorkersStill DEF ClaimsHold, RecordsAgree
<1>6. NothingStrays'
  BY <1>1 DEF ClaimsHold, NothingStrays
<1>7. StartedOnce'
  BY WorkersStill DEF ClaimsHold, StartedOnce
<1>8. QED BY <1>5, <1>6, <1>7 DEF ClaimsHold

\* Between listing and claim file, and at the record: nothing is held or freed.
LEMMA ListingHolds ==
  ASSUME ChannelInvariant, ClaimsHold, NEW p \in Process, NEW c,
         \/ enqueue(p) \/ (c \in Cmd /\ (enqueueWrite(p, c) \/ claimNext(p, c)))
         \/ claimReread(p) \/ claimTake(p),
         UNCHANGED channelVars
  PROVE  ClaimsHold'
<1>1. /\ op \in [Process -> Op] /\ op[p] \in Op /\ lease' = lease /\ result' = result
      /\ record \in [Cmd -> Status]
      /\ op[p].pc \in {"take", "undo", "reread"} => op[p].cmd \in Cmd
  BY DEF ChannelInvariant, TypeOK, enqueue, enqueueWrite, claimNext, claimReread, claimTake
<1>2. UNCHANGED <<worker, serves, reports, started, result>>
  BY <1>1 DEF channelVars
<1>3. /\ op[p].pc # "rm" /\ (serves[p] = None <=> op[p].pc \in {"idle", "write"})
      /\ serves[p] = None => op[p].got = {}
      /\ \A d \in op[p].got : ~Terminal(d)
      /\ op[p].pc = "take" => ~Terminal(op[p].cmd)
      /\ \A d \in Cmd : lease[d] # "stale"
  BY DEF ClaimsHold, NothingStrays, RecordsAgree, Owned, OwnedOnce
<1>4. \A d \in Cmd : Terminal(d)' <=> Terminal(d)
  <2>1. CASE c \in Cmd /\ enqueueWrite(p, c)
    BY <2>1, <1>1, Statuses DEF enqueueWrite, First, WithStatus, Terminal
  <2>2. CASE claimTake(p)
    <3>1. op[p].pc = "take" /\ op[p].cmd \in Cmd /\ ~Terminal(op[p].cmd)
      BY <2>2, <1>1, <1>3 DEF claimTake
    <3>2. QED BY <2>2, <3>1, <1>1, Statuses DEF claimTake, Terminal
  <2>3. CASE enqueue(p) \/ (c \in Cmd /\ claimNext(p, c)) \/ claimReread(p)
    BY <2>3 DEF enqueue, claimNext, claimReread, Terminal
  <2>4. QED BY <2>1, <2>2, <2>3
<1>5. ASSUME NEW o \in Op, op' = [op EXCEPT ![p] = o],
             \A d \in Cmd : HoldsOp(p, d)' <=> HoldsOp(p, d)
      PROVE  Owned'
  <2>1. ASSUME NEW d \in Cmd, NEW q \in Process PROVE HoldsOp(q, d)' <=> HoldsOp(q, d)
    <3>1. CASE q = p
      BY <3>1, <1>5
    <3>2. CASE q # p
      BY <3>2, <1>1, <1>5 DEF HoldsOp
    <3>3. QED BY <3>1, <3>2
  <2>2. ASSUME NEW d \in Cmd PROVE OwnedOnce(d)'
    BY <2>1, <1>1, <1>2, WorkersStill, OwnedKept DEF ClaimsHold, Owned
  <2>3. QED BY <2>2 DEF Owned
<1>6. CASE enqueue(p)
  <2> DEFINE o == [op[p] EXCEPT !.pc = "write"]
  <2>1. o \in Op /\ op' = [op EXCEPT ![p] = o] /\ op[p].pc = "idle"
    BY <1>6, <1>1 DEF enqueue, Op
  <2>2. \A d \in Cmd : HoldsOp(p, d)' <=> HoldsOp(p, d)
    BY <2>1, <1>1 DEF HoldsOp, Op
  <2>3. QED
    BY <2>1, <2>2, <1>1, <1>2, <1>3, <1>4, <1>5, OpMove DEF Op
<1>7. CASE c \in Cmd /\ enqueueWrite(p, c)
  <2>1. IdleOp \in Op /\ op' = [op EXCEPT ![p] = IdleOp] /\ op[p].pc = "write"
    BY <1>7 DEF enqueueWrite, IdleOp, Op
  <2>2. IdleOp.pc = "idle" /\ IdleOp.got = {} /\ op[p].got = {}
    BY <2>1, <1>3 DEF IdleOp
  <2>3. \A d \in Cmd : HoldsOp(p, d)' <=> HoldsOp(p, d)
    BY <2>1, <2>2, <1>1 DEF HoldsOp
  <2>4. QED
    BY <2>1, <2>2, <2>3, <1>1, <1>2, <1>3, <1>4, <1>5, OpMove
<1>8. CASE c \in Cmd /\ claimNext(p, c)
  <2>1. PICK o \in Op :
          /\ op' = [op EXCEPT ![p] = o]
          /\ o.pc \in {"next", "create"} /\ o.got = op[p].got
    <3>1. /\ [op[p] EXCEPT !.todo = @ \ {c}] \in Op
          /\ [op[p] EXCEPT !.pc = "create", !.todo = @ \ {c}, !.cmd = c] \in Op
      BY <1>1, <1>8 DEF Op
    <3>2. lease[c] # "stale"
      BY <1>3, <1>8
    <3>3. \/ op' = [op EXCEPT ![p] = [op[p] EXCEPT !.todo = @ \ {c}]]
          \/ op' = [op EXCEPT ![p] = [op[p] EXCEPT !.pc = "create", !.todo = @ \ {c}, !.cmd = c]]
      BY <1>8, <3>2, <1>1 DEF claimNext
    <3>4. op[p].pc = "next"
      BY <1>8 DEF claimNext
    <3>5. QED BY <3>1, <3>3, <3>4, <1>1 DEF Op
  <2>2. op[p].pc = "next"
    BY <1>8 DEF claimNext
  <2>3. \A d \in Cmd : HoldsOp(p, d)' <=> HoldsOp(p, d)
    BY <2>1, <2>2, <1>1 DEF HoldsOp
  <2>4. QED
    BY <2>1, <2>2, <2>3, <1>1, <1>2, <1>3, <1>4, <1>5, OpMove
<1>9. CASE claimReread(p)
  <2> DEFINE o == [op[p] EXCEPT !.pc = IF Terminal(op[p].cmd) THEN "undo" ELSE "take"]
  <2>1. o \in Op /\ op' = [op EXCEPT ![p] = o] /\ op[p].pc = "reread"
    BY <1>9, <1>1 DEF claimReread, Op, Terminal
  <2>2. /\ o.pc = (IF Terminal(op[p].cmd) THEN "undo" ELSE "take")
        /\ o.cmd = op[p].cmd /\ o.got = op[p].got
    BY <1>1 DEF Op
  <2> HIDE DEF o
  <2>3. \A d \in Cmd : HoldsOp(p, d)' <=> HoldsOp(p, d)
    BY <2>1, <2>2, <1>1 DEF HoldsOp
  <2>4. QED
    BY <2>1, <2>2, <2>3, <1>1, <1>2, <1>3, <1>4, <1>5, OpMove
<1>10. CASE claimTake(p)
  <2> DEFINE o == [op[p] EXCEPT !.pc = "next", !.got = @ \cup {op[p].cmd}, !.cmd = None]
  <2>1. o \in Op /\ op' = [op EXCEPT ![p] = o] /\ op[p].pc = "take" /\ op[p].cmd \in Cmd
    BY <1>10, <1>1 DEF claimTake, Op
  <2>2. o.pc = "next" /\ o.got = op[p].got \cup {op[p].cmd}
    BY <1>1 DEF Op
  <2> HIDE DEF o
  <2>3. \A d \in Cmd : HoldsOp(p, d)' <=> HoldsOp(p, d)
    BY <2>1, <2>2, <1>1 DEF HoldsOp
  <2>4. QED
    BY <2>1, <2>2, <2>3, <1>1, <1>2, <1>3, <1>4, <1>5, OpMove
<1>11. QED BY <1>6, <1>7, <1>8, <1>9, <1>10

\* The claim file is created for the one that will hold the command, and goes
\* with the one that finds it finished.
LEMMA ClaimFileHolds ==
  ASSUME ChannelInvariant, ClaimsHold, NEW p \in Process,
         claimCreate(p) \/ claimUndo(p), UNCHANGED channelVars
  PROVE  ClaimsHold'
<1>0. PICK c \in Cmd : c = op[p].cmd
  BY DEF ChannelInvariant, TypeOK, claimCreate, claimUndo
<1>1. /\ op \in [Process -> Op] /\ op[p] \in Op /\ c = op[p].cmd
      /\ lease \in [Cmd -> {"none", "fresh", "stale"}]
      /\ record' = record /\ result' = result
  BY <1>0 DEF ChannelInvariant, TypeOK, claimCreate, claimUndo
<1>2. UNCHANGED <<worker, serves, reports, started, result>>
  BY <1>1 DEF channelVars
<1>3. /\ op[p].pc # "rm" /\ (serves[p] = None <=> op[p].pc \in {"idle", "write"})
      /\ serves[p] = None => op[p].got = {}
      /\ \A d \in op[p].got : ~Terminal(d)
      /\ op[p].pc = "undo" => Terminal(c)
      /\ OwnedOnce(c)
  BY <1>1 DEF ClaimsHold, NothingStrays, RecordsAgree, Owned
<1>4. \A d \in Cmd : Terminal(d)' <=> Terminal(d)
  BY <1>1 DEF Terminal
<1>5. ASSUME NEW o \in Op, op' = [op EXCEPT ![p] = o],
             \A d \in Cmd \ {c} : lease'[d] = lease[d] /\ (HoldsOp(p, d)' <=> HoldsOp(p, d)),
             OwnedOnce(c)'
      PROVE  Owned'
  <2>1. ASSUME NEW d \in Cmd \ {c}, NEW q \in Process PROVE HoldsOp(q, d)' <=> HoldsOp(q, d)
    <3>1. CASE q = p
      BY <3>1, <1>5
    <3>2. CASE q # p
      BY <3>2, <1>1, <1>5 DEF HoldsOp
    <3>3. QED BY <3>1, <3>2
  <2>2. ASSUME NEW d \in Cmd \ {c} PROVE OwnedOnce(d)'
    BY <2>1, <1>2, <1>5, WorkersStill, OwnedKept DEF ClaimsHold, Owned
  <2>3. QED BY <2>2, <1>1, <1>5 DEF Owned
<1>6. ASSUME NEW o, op' = [op EXCEPT ![p] = o]
      PROVE  \A q \in Process \ {p}, d \in Cmd : HoldsOp(q, d)' <=> HoldsOp(q, d)
  BY <1>6, <1>1 DEF HoldsOp
<1>7. \A w \in Worker : HoldsBatch(w, c)' <=> HoldsBatch(w, c)
  BY <1>1, <1>2, WorkersStill
<1>8. CASE claimUndo(p)
  <2> DEFINE o == [op[p] EXCEPT !.pc = "next", !.cmd = None]
  <2>1. o \in Op /\ op' = [op EXCEPT ![p] = o] /\ op[p].pc = "undo"
        /\ lease' = [lease EXCEPT ![c] = "none"]
    BY <1>8, <1>1 DEF claimUndo, Skip, Op
  <2>2. o.pc = "next" /\ o.got = op[p].got
    BY <1>1 DEF Op
  <2> HIDE DEF o
  <2>3. HoldsOp(p, c) /\ ~HoldsOp(p, c)'
    BY <2>1, <2>2, <1>1, <1>3 DEF HoldsOp
  <2>4. OwnedOnce(c)'
    <3>1. \A q \in Process : ~HoldsOp(q, c)'
      BY <2>1, <2>3, <1>3, <1>6, <1>1 DEF OwnedOnce
    <3>2. \A w \in Worker : ~HoldsBatch(w, c)'
      BY <2>3, <1>3, <1>7 DEF OwnedOnce
    <3>3. QED BY <3>1, <3>2, <2>1, <1>1, OwnedFreed
  <2>5. \A d \in Cmd \ {c} : lease'[d] = lease[d] /\ (HoldsOp(p, d)' <=> HoldsOp(p, d))
    BY <2>1, <2>2, <1>1 DEF HoldsOp
  <2>6. QED
    BY <2>1, <2>2, <2>4, <2>5, <1>1, <1>2, <1>3, <1>4, <1>5, OpMove
<1>9. CASE claimCreate(p) /\ lease[c] = "none"
  <2> DEFINE o == [op[p] EXCEPT !.pc = "reread"]
  <2>1. o \in Op /\ op' = [op EXCEPT ![p] = o] /\ op[p].pc = "create"
        /\ lease' = [lease EXCEPT ![c] = "fresh"]
    BY <1>9, <1>1 DEF claimCreate, Op
  <2>2. o.pc = "reread" /\ o.got = op[p].got /\ o.cmd = c
    BY <1>1 DEF Op
  <2> HIDE DEF o
  <2>3. HoldsOp(p, c)'
    BY <2>1, <2>2, <1>1 DEF HoldsOp
  <2>4. OwnedOnce(c)'
    <3>1. \A q \in Process : HoldsOp(q, c)' => q = p
      BY <2>1, <1>3, <1>9, <1>6, <1>1 DEF OwnedOnce
    <3>2. \A w \in Worker : ~HoldsBatch(w, c)'
      BY <1>3, <1>9, <1>7 DEF OwnedOnce
    <3>3. lease'[c] = "fresh"
      BY <2>1, <1>1
    <3>4. QED BY <3>1, <3>2, <3>3, <2>3 DEF OwnedOnce
  <2>5. \A d \in Cmd \ {c} : lease'[d] = lease[d] /\ (HoldsOp(p, d)' <=> HoldsOp(p, d))
    BY <2>1, <2>2, <1>1 DEF HoldsOp
  <2>6. QED
    BY <2>1, <2>2, <2>4, <2>5, <1>1, <1>2, <1>3, <1>4, <1>5, OpMove
<1>10. CASE claimCreate(p) /\ lease[c] # "none"
  <2> DEFINE o == [op[p] EXCEPT !.pc = "next", !.cmd = None]
  <2>1. o \in Op /\ op' = [op EXCEPT ![p] = o] /\ op[p].pc = "create" /\ lease' = lease
    BY <1>10, <1>1 DEF claimCreate, Skip, Op
  <2>2. o.pc = "next" /\ o.got = op[p].got
    BY <1>1 DEF Op
  <2> HIDE DEF o
  <2>3. \A d \in Cmd : HoldsOp(p, d)' <=> HoldsOp(p, d)
    BY <2>1, <2>2, <1>1 DEF HoldsOp
  <2>4. OwnedOnce(c)'
    BY <2>1, <2>3, <1>1, <1>3, <1>6, <1>7, OwnedKept
  <2>5. QED
    BY <2>1, <2>2, <2>3, <2>4, <1>1, <1>2, <1>3, <1>4, <1>5, OpMove
<1>11. QED BY <1>8, <1>9, <1>10

-----------------------------------------------------------------------------
\* A worker that waits for no result has ended none.
LEMMA NothingEnded ==
  ASSUME ChannelInvariant, NEW w \in Worker, worker[w].pc # "wait"
  PROVE  \A r \in Result : reports[r] # w
BY ChannelAssumption DEF ChannelInvariant, ChannelTypeOK

\* What is held, and by whom, depends on the operations and the batches.
LEMMA WorkerMove ==
  ASSUME ChannelInvariant, ClaimsHold, UNCHANGED <<record, lease, op>>,
         \A w \in Worker, c \in Cmd : HoldsBatch(w, c)' <=> HoldsBatch(w, c),
         \A w \in Worker, c \in Cmd : c \in worker'[w].batch =>
           /\ c \in worker[w].batch
           /\ (worker[w].cmd = c /\ Ended(w))' <=> (worker[w].cmd = c /\ Ended(w)),
         worker' \in [Worker -> WorkerState],
         NothingStrays', StartedOnce'
  PROVE  ClaimsHold'
<1>1. Owned'
  <2>1. ASSUME NEW c \in Cmd PROVE OwnedOnce(c)'
    <3>1. \A p \in Process : HoldsOp(p, c)' <=> HoldsOp(p, c)
      BY DEF HoldsOp
    <3>2. QED BY <3>1, OwnedKept DEF ClaimsHold, Owned
  <2>2. QED BY <2>1 DEF Owned
<1>2. RecordsAgree'
  <2>1. \A c \in Cmd : Terminal(c)' <=> Terminal(c)
    BY DEF Terminal
  <2>2. ASSUME NEW p \in Process
        PROVE  /\ \A c \in op'[p].got : ~Terminal(c)'
               /\ op'[p].pc = "take" => ~Terminal(op[p].cmd)'
               /\ op'[p].pc = "undo" => Terminal(op[p].cmd)'
    BY DEF Terminal, ClaimsHold, RecordsAgree
  <2>3. ASSUME NEW w \in Worker, NEW c \in worker'[w].batch
        PROVE  (Terminal(c) <=> worker[w].cmd = c /\ Ended(w))'
    <3>1. c \in Cmd
      BY <2>3 DEF WorkerState
    <3>2. Terminal(c) <=> worker[w].cmd = c /\ Ended(w)
      BY <2>3, <3>1 DEF ClaimsHold, RecordsAgree
    <3>3. QED BY <3>1, <3>2, <2>1, <2>3
  <2>4. QED BY <2>2, <2>3 DEF RecordsAgree
<1>3. QED BY <1>1, <1>2 DEF ClaimsHold

\* A poll is sent, a command is started, its handler ends.
LEMMA RunHolds ==
  ASSUME ChannelInvariant, ChannelInvariant', ClaimsHold, NEW w \in Worker,
         tick(w) \/ (\E c \in Cmd : run(w, c)) \/ (\E ok \in BOOLEAN : handled(w, ok))
  PROVE  ClaimsHold'
<1>1. /\ worker \in [Worker -> WorkerState] /\ worker' \in [Worker -> WorkerState]
      /\ started \in [Cmd -> 0..2]
  BY DEF ChannelInvariant, ChannelTypeOK
<1>2. UNCHANGED <<record, lease, op, result, serves, reports>>
  BY DEF tick, run, handled, queueVars
<1>3. worker[w].pc # "wait" /\ worker'[w].pc # "wait"
  BY <1>1 DEF tick, run, handled, WorkerState
<1>4. /\ worker'[w].batch = worker[w].batch
      /\ \A v \in Worker \ {w} : worker'[v] = worker[v]
  BY <1>1 DEF tick, run, handled, WorkerState
<1>5. ~Ended(w) /\ ~Freed(w) /\ ~Ended(w)' /\ ~Freed(w)'
  BY <1>2, <1>3, NothingEnded DEF Ended, Freed
<1>6. \A v \in Worker : (Ended(v)' <=> Ended(v)) /\ (Freed(v)' <=> Freed(v))
  BY <1>2 DEF Ended, Freed
<1>7. \A v \in Worker, c \in Cmd : HoldsBatch(v, c)' <=> HoldsBatch(v, c)
  BY <1>4, <1>5, <1>6 DEF HoldsBatch
<1>8. NothingStrays'
  <2>1. worker'[w].pc = "poll" => worker[w].batch = {}
    BY <1>1 DEF tick, run, handled, WorkerState, ClaimsHold, NothingStrays
  <2>2. worker'[w].pc # "idle"
    BY <1>1 DEF tick, run, handled, WorkerState
  <2>3. QED BY <2>1, <2>2, <1>2, <1>4 DEF ClaimsHold, NothingStrays
<1>9. \A c \in Cmd : Terminal(c)' <=> Terminal(c)
  BY <1>2 DEF Terminal
<1>10. \A v \in Worker, c \in Cmd : Busy(v, c) => Busy(v, c)'
  BY <1>1, <1>4 DEF Busy, tick, run, handled, WorkerState
<1>11. StartedOnce'
  <2>1. CASE started' = started
    BY <2>1, <1>9, <1>10 DEF ClaimsHold, StartedOnce
  <2>2. CASE \E c \in Cmd : run(w, c)
    <3>1. PICK c \in Cmd : run(w, c)
      BY <2>2
    <3>2. c \in worker[w].batch /\ worker[w].pc = "run" /\ Busy(w, c)'
          /\ \A d \in Cmd \ {c} : started'[d] = started[d]
      BY <3>1, <1>1 DEF run, First, Busy, WorkerState
    <3>3. HoldsBatch(w, c) /\ ~Terminal(c)
      BY <3>2, <1>5 DEF HoldsBatch, ClaimsHold, RecordsAgree
    <3>4. \A v \in Worker : ~Busy(v, c)
      <4>1. SUFFICES ASSUME NEW v \in Worker, Busy(v, c) PROVE FALSE
        OBVIOUS
      <4>2. v # w /\ c \in worker[v].batch /\ worker[v].cmd = c
        BY <4>1, <3>2 DEF Busy, ChannelInvariant, ChannelTypeOK
      <4>3. ~Ended(v)
        BY <4>2, <3>3 DEF ClaimsHold, RecordsAgree
      <4>4. HoldsBatch(v, c)
        BY <4>2, <4>3 DEF HoldsBatch, Ended, Freed
      <4>5. QED BY <4>2, <4>4, <3>3 DEF ClaimsHold, Owned, OwnedOnce
    <3>5. started[c] = 0
      BY <3>3, <3>4, <1>1 DEF ClaimsHold, StartedOnce
    <3>6. started'[c] = 1
      <4>1. started'[c] = (IF started[c] = 2 THEN 2 ELSE started[c] + 1)
        BY <3>1, <1>1 DEF run
      <4>2. QED BY <4>1, <3>5
    <3>7. QED BY <3>2, <3>6, <1>9, <1>10 DEF ClaimsHold, StartedOnce
  <2>3. QED BY <2>1, <2>2 DEF tick, handled
<1>12. QED
  BY <1>1, <1>2, <1>4, <1>5, <1>6, <1>7, <1>8, <1>11, WorkerMove

-----------------------------------------------------------------------------
\* A claim begins for a worker that has nothing in hand.
LEMMA ServeClaimHolds ==
  ASSUME ChannelInvariant, ClaimsHold, NEW p \in Process, NEW w \in Worker, serveClaim(p, w)
  PROVE  ClaimsHold'
<1> DEFINE o == [IdleOp EXCEPT !.pc = "next", !.todo = active, !.leased = WithStatus({"claimed"})]
<1>1. /\ op \in [Process -> Op] /\ op[p].pc = "idle" /\ op' = [op EXCEPT ![p] = o]
      /\ UNCHANGED <<record, lease, result, worker, reports, started>>
      /\ serves \in [Process -> Worker \cup {None}] /\ serves' = [serves EXCEPT ![p] = w]
      /\ None \notin Worker
  BY ChannelAssumption DEF serveClaim, claim, ChannelInvariant, TypeOK, ChannelTypeOK
<1>2. o.pc = "next" /\ o.got = {}
  BY DEF IdleOp
<1> HIDE DEF o
<1>3. op[p].got = {}
  BY <1>1 DEF ClaimsHold, NothingStrays
<1>4. \A q \in Process \ {p} : op'[q] = op[q] /\ serves'[q] = serves[q]
  BY <1>1
<1>5. op'[p] = o /\ serves'[p] = w
  BY <1>1
<1>6. \A q \in Process, c \in Cmd : HoldsOp(q, c)' <=> HoldsOp(q, c)
  <2>1. \A c \in Cmd : HoldsOp(p, c)' <=> HoldsOp(p, c)
    BY <1>1, <1>2, <1>3, <1>5 DEF HoldsOp
  <2>2. QED BY <2>1, <1>4 DEF HoldsOp
<1>7. Owned'
  BY <1>1, <1>6, WorkersStill, OwnedKept DEF ClaimsHold, Owned
<1>8. RecordsAgree'
  BY <1>1, <1>2, <1>4, <1>5, WorkersStill DEF ClaimsHold, RecordsAgree, Terminal
<1>9. NothingStrays'
  BY <1>1, <1>2, <1>4, <1>5 DEF ClaimsHold, NothingStrays
<1>10. StartedOnce'
  BY <1>1, WorkersStill DEF ClaimsHold, StartedOnce, Terminal
<1>11. QED BY <1>7, <1>8, <1>9, <1>10 DEF ClaimsHold

\* The commands go from the claim to the worker that waits for them.
LEMMA ServeReturnHolds ==
  ASSUME ChannelInvariant, ClaimsHold, NEW p \in Process, serveReturn(p)
  PROVE  ClaimsHold'
<1> DEFINE x == IF op[p].got = {} THEN IdleWorker
                ELSE [IdleWorker EXCEPT !.pc = "run", !.batch = op[p].got]
<1>1. /\ op \in [Process -> Op] /\ op[p].pc = "next" /\ op' = [op EXCEPT ![p] = IdleOp]
      /\ UNCHANGED <<record, lease, result, reports, started>>
      /\ serves \in [Process -> Worker \cup {None}] /\ serves' = [serves EXCEPT ![p] = None]
      /\ worker \in [Worker -> WorkerState]
  BY DEF serveReturn, claimReturn, claimEnds, ChannelInvariant, TypeOK, ChannelTypeOK
<1>2. serves[p] # None
  BY <1>1 DEF ClaimsHold, NothingStrays
<1>3. PICK w \in Worker : w = serves[p] /\ worker[w].pc = "poll" /\ worker' = [worker EXCEPT ![w] = x]
  BY <1>1, <1>2 DEF serveReturn, ChannelInvariant, ChannelTypeOK
<1>4. worker[w].batch = {} /\ \A r \in Result : reports[r] # w
  BY <1>3, NothingEnded DEF ClaimsHold, NothingStrays
<1>5. /\ x.batch = op[p].got /\ x.pc = (IF op[p].got = {} THEN "idle" ELSE "run")
      /\ x.cmd = None /\ IdleOp.pc = "idle" /\ IdleOp.got = {}
  BY DEF IdleWorker, IdleOp
<1> HIDE DEF x
<1>6. /\ op'[p] = IdleOp /\ worker'[w] = x /\ serves'[p] = None
      /\ \A q \in Process \ {p} : op'[q] = op[q] /\ serves'[q] = serves[q]
      /\ \A v \in Worker \ {w} : worker'[v] = worker[v]
  BY <1>1, <1>3
<1>7. \A v \in Worker : (Ended(v)' <=> Ended(v)) /\ (Freed(v)' <=> Freed(v))
  BY <1>1 DEF Ended, Freed
<1>8. ~Ended(w) /\ ~Freed(w)
  BY <1>4 DEF Ended, Freed
<1>9. Owned'
  <2>1. ASSUME NEW c \in Cmd PROVE OwnedOnce(c)'
    <3>1. OwnedOnce(c) /\ lease'[c] = lease[c]
      BY <1>1 DEF ClaimsHold, Owned
    <3>2. ~HoldsOp(p, c)' /\ (HoldsOp(p, c) <=> c \in op[p].got)
      BY <1>1, <1>5, <1>6 DEF HoldsOp
    <3>3. ~HoldsBatch(w, c) /\ (HoldsBatch(w, c)' <=> c \in op[p].got)
      BY <1>4, <1>5, <1>6, <1>7, <1>8 DEF HoldsBatch
    <3>4. \A q \in Process \ {p} : HoldsOp(q, c)' <=> HoldsOp(q, c)
      BY <1>6 DEF HoldsOp
    <3>5. \A v \in Worker \ {w} : HoldsBatch(v, c)' <=> HoldsBatch(v, c)
      BY <1>6, <1>7 DEF HoldsBatch
    <3>6. QED BY <3>1, <3>2, <3>3, <3>4, <3>5 DEF OwnedOnce
  <2>2. QED BY <2>1 DEF Owned
<1>10. \A c : Terminal(c)' <=> Terminal(c)
  BY <1>1 DEF Terminal
<1>11. RecordsAgree'
  <2>1. ASSUME NEW q \in Process
        PROVE  /\ \A c \in op'[q].got : ~Terminal(c)'
               /\ op'[q].pc = "take" => ~Terminal(op[q].cmd)'
               /\ op'[q].pc = "undo" => Terminal(op[q].cmd)'
    BY <1>1, <1>5, <1>6 DEF ClaimsHold, RecordsAgree, Terminal
  <2>2. ASSUME NEW v \in Worker, NEW c \in worker'[v].batch
        PROVE  (Terminal(c) <=> worker[v].cmd = c /\ Ended(v))'
    BY <2>2, <1>5, <1>6, <1>7, <1>8, <1>10 DEF ClaimsHold, RecordsAgree
  <2>3. QED BY <2>1, <2>2 DEF RecordsAgree
<1>12. NothingStrays'
  BY <1>1, <1>5, <1>6 DEF ClaimsHold, NothingStrays
<1>13. StartedOnce'
  <2>1. \A v \in Worker, c \in Cmd : Busy(v, c) => Busy(v, c)'
    BY <1>3, <1>6 DEF Busy
  <2>2. QED BY <2>1, <1>1, <1>10 DEF ClaimsHold, StartedOnce
<1>14. QED BY <1>9, <1>11, <1>12, <1>13 DEF ClaimsHold

-----------------------------------------------------------------------------
\* A result is sent: it is neither written nor answered yet.
LEMMA ReportHolds ==
  ASSUME ChannelInvariant, ChannelInvariant', ClaimsHold,
         NEW w \in Worker, NEW r \in Result, report(w, r)
  PROVE  ClaimsHold'
<1>1. /\ worker \in [Worker -> WorkerState] /\ worker' \in [Worker -> WorkerState]
      /\ worker[w].pc = "report" /\ worker' = [worker EXCEPT ![w].pc = "wait"]
      /\ UNCHANGED <<record, lease, op, serves, started>>
      /\ reports \in [Result -> Worker \cup {None}] /\ reports' = [reports EXCEPT ![r] = w]
      /\ result \in [Result -> Handler] /\ result[r].pc = "free"
      /\ result' = [result EXCEPT ![r] = [pc |-> "sent", cmd |-> worker[w].cmd, ok |-> worker[w].ok]]
      /\ None \notin Worker
  BY ChannelAssumption DEF report, post, FreeHandler, ChannelInvariant, TypeOK, ChannelTypeOK
<1>2. /\ worker'[w].batch = worker[w].batch /\ worker'[w].cmd = worker[w].cmd
      /\ worker'[w].pc = "wait" /\ \A v \in Worker \ {w} : worker'[v] = worker[v]
  BY <1>1 DEF WorkerState
<1>3. /\ result'[r].pc = "sent" /\ reports'[r] = w
      /\ \A s \in Result \ {r} : result'[s] = result[s] /\ reports'[s] = reports[s]
  BY <1>1
<1>4. \A v \in Worker : (Ended(v)' <=> Ended(v)) /\ (Freed(v)' <=> Freed(v))
  BY <1>1, <1>3 DEF Ended, Freed
<1>5. \A v \in Worker, c \in Cmd : HoldsBatch(v, c)' <=> HoldsBatch(v, c)
  BY <1>2, <1>4 DEF HoldsBatch
<1>6. NothingStrays'
  BY <1>1, <1>2, <1>3 DEF ClaimsHold, NothingStrays
<1>7. StartedOnce'
  <2>1. \A v \in Worker, c \in Cmd : Busy(v, c) => Busy(v, c)'
    BY <1>1, <1>2 DEF Busy
  <2>2. QED BY <2>1, <1>1 DEF ClaimsHold, StartedOnce, Terminal
<1>8. QED BY <1>1, <1>2, <1>4, <1>5, <1>6, <1>7, WorkerMove

\* The result is answered: the command is finished and its claim file gone when
\* the worker goes on.
LEMMA ReportedHolds ==
  ASSUME ChannelInvariant, ChannelInvariant', ClaimsHold,
         NEW w \in Worker, NEW r \in Result, reported(w, r)
  PROVE  ClaimsHold'
<1>1. /\ worker \in [Worker -> WorkerState] /\ worker' \in [Worker -> WorkerState]
      /\ UNCHANGED <<record, lease, op, serves, started>>
      /\ reports \in [Result -> Worker \cup {None}] /\ reports' = [reports EXCEPT ![r] = None]
      /\ result \in [Result -> Handler] /\ result[r].pc = "answered" /\ reports[r] = w
      /\ result' = [result EXCEPT ![r] = FreeHandler]
      /\ None \notin Worker
  BY ChannelAssumption DEF reported, completeReturn, ChannelInvariant, TypeOK, ChannelTypeOK
<1>2. worker[w].pc = "wait" /\ \A s \in Result \ {r} : reports[s] # w
  BY <1>1 DEF ChannelInvariant, ChannelTypeOK
<1>3. PICK c \in Cmd : c = worker[w].cmd /\ c \in worker[w].batch
  BY <1>1, <1>2 DEF ChannelInvariant, ChannelTypeOK, WorkerState
<1>4. /\ worker'[w].batch = worker[w].batch \ {c} /\ worker'[w].cmd = None
      /\ worker'[w].pc \in {"idle", "run"} /\ (worker'[w].pc = "idle" => worker'[w].batch = {})
      /\ \A v \in Worker \ {w} : worker'[v] = worker[v]
  <2>1. worker' = [worker EXCEPT ![w] =
          IF worker[w].batch = {c} THEN IdleWorker
          ELSE [IdleWorker EXCEPT !.pc = "run", !.batch = worker[w].batch \ {c}]]
    BY <1>1, <1>3 DEF reported, NextCommand
  <2>2. worker'[w] = IF worker[w].batch = {c} THEN IdleWorker
          ELSE [IdleWorker EXCEPT !.pc = "run", !.batch = worker[w].batch \ {c}]
    BY <2>1, <1>1
  <2>3. QED BY <2>1, <2>2, <1>1 DEF IdleWorker
<1>5. /\ result'[r].pc = "free" /\ reports'[r] = None
      /\ \A s \in Result \ {r} : result'[s] = result[s] /\ reports'[s] = reports[s]
  BY <1>1 DEF FreeHandler
<1>6. Ended(w) /\ Freed(w) /\ ~Ended(w)' /\ ~Freed(w)'
  BY <1>1, <1>2, <1>5 DEF Ended, Freed
<1>7. \A v \in Worker \ {w} : (Ended(v)' <=> Ended(v)) /\ (Freed(v)' <=> Freed(v))
  BY <1>1, <1>5 DEF Ended, Freed
<1>8. None \notin Cmd
  BY QueueAssumption
<1>9. \A v \in Worker, d \in Cmd : HoldsBatch(v, d)' <=> HoldsBatch(v, d)
  <2>1. \A d \in Cmd : HoldsBatch(w, d)' <=> HoldsBatch(w, d)
    BY <1>3, <1>4, <1>6, <1>8 DEF HoldsBatch
  <2>2. QED BY <2>1, <1>4, <1>7 DEF HoldsBatch
<1>10. NothingStrays'
  BY <1>1, <1>4, <1>5 DEF ClaimsHold, NothingStrays
<1>11. StartedOnce'
  <2>1. \A d \in Cmd : Terminal(d)' <=> Terminal(d)
    BY <1>1 DEF Terminal
  <2>2. Terminal(c)
    BY <1>3, <1>6 DEF ClaimsHold, RecordsAgree
  <2>3. \A v \in Worker, d \in Cmd \ {c} : Busy(v, d) => Busy(v, d)'
    BY <1>3, <1>4 DEF Busy
  <2>4. QED BY <2>1, <2>2, <2>3, <1>1 DEF ClaimsHold, StartedOnce
<1>12. \A v \in Worker, d \in Cmd : d \in worker'[v].batch =>
         /\ d \in worker[v].batch
         /\ (worker[v].cmd = d /\ Ended(v))' <=> (worker[v].cmd = d /\ Ended(v))
  BY <1>3, <1>4, <1>6, <1>7, <1>8
<1>13. QED BY <1>1, <1>9, <1>10, <1>11, <1>12, WorkerMove

\* The record is read, then written; the claim file goes last, and is the one of
\* the worker that reports.
LEMMA CompleteHolds ==
  ASSUME ChannelInvariant, ClaimsHold, NEW r \in Result, Complete(r), UNCHANGED channelVars
  PROVE  ClaimsHold'
<1>1. /\ result \in [Result -> Handler] /\ result[r].pc \in {"sent", "write", "rm"}
      /\ UNCHANGED <<op, worker, serves, reports, started>>
      /\ reports \in [Result -> Worker \cup {None}] /\ worker \in [Worker -> WorkerState]
      /\ record \in [Cmd -> Status] /\ lease \in [Cmd -> {"none", "fresh", "stale"}]
      /\ op \in [Process -> Op]
      /\ \A q \in Process : op[q].pc \in {"take", "undo"} => op[q].cmd \in Cmd
  BY DEF Complete, completeRead, completeWrite, completeRemove, channelVars,
         ChannelInvariant, TypeOK, ChannelTypeOK
<1>2. PICK w \in Worker : reports[r] = w
  BY <1>1 DEF ClaimsHold, NothingStrays
<1>3. /\ worker[w].pc = "wait" /\ worker[w].cmd = result[r].cmd
      /\ \A s \in Result \ {r} : reports[s] # w
  BY <1>2, ChannelAssumption DEF ChannelInvariant, ChannelTypeOK
<1>4. PICK c \in Cmd : c = result[r].cmd /\ c = worker[w].cmd /\ c \in worker[w].batch
  BY <1>1, <1>3 DEF ChannelInvariant, ChannelTypeOK, WorkerState
<1>5. ~Freed(w) /\ (Ended(w) <=> result[r].pc = "rm")
  BY <1>1, <1>2, <1>3 DEF Freed, Ended
<1>6. HoldsBatch(w, c) /\ (Terminal(c) <=> result[r].pc = "rm")
  BY <1>4, <1>5 DEF HoldsBatch, ClaimsHold, RecordsAgree
<1>7. /\ \A q \in Process : ~HoldsOp(q, c)
      /\ \A v \in Worker \ {w} : ~HoldsBatch(v, c)
  BY <1>6 DEF ClaimsHold, Owned, OwnedOnce
<1>8. \A q \in Process, d \in Cmd : HoldsOp(q, d)' <=> HoldsOp(q, d)
  BY <1>1 DEF HoldsOp
<1>9. PICK pc \in {"write", "rm", "answered"} : result' = [result EXCEPT ![r].pc = pc]
  BY <1>1 DEF Complete, completeRead, completeWrite, completeRemove
<1>10. /\ result'[r].pc = pc /\ result'[r].cmd = c
       /\ \A s \in Result \ {r} : result'[s] = result[s]
  BY <1>1, <1>4, <1>9 DEF Handler
<1>11. \A v \in Worker \ {w} : (Ended(v)' <=> Ended(v)) /\ (Freed(v)' <=> Freed(v))
  BY <1>1, <1>2, <1>10 DEF Ended, Freed
<1>12. (Ended(w)' <=> pc \in {"rm", "answered"}) /\ (Freed(w)' <=> pc = "answered")
  BY <1>1, <1>2, <1>3, <1>10 DEF Ended, Freed
<1>13. NothingStrays'
  BY <1>1, <1>2, <1>9, <1>10, ChannelAssumption DEF ClaimsHold, NothingStrays
<1>14. \A d \in Cmd \ {c} : \A v \in Worker : HoldsBatch(v, d)' <=> HoldsBatch(v, d)
  BY <1>1, <1>4, <1>11 DEF HoldsBatch
<1>15. \A v \in Worker \ {w} : ~HoldsBatch(v, c)'
  BY <1>1, <1>7, <1>11 DEF HoldsBatch
<1>16. HoldsBatch(w, c)' <=> pc # "answered"
  BY <1>1, <1>4, <1>12 DEF HoldsBatch
<1>17. /\ \A d \in Cmd \ {c} : (Terminal(d)' <=> Terminal(d)) /\ lease'[d] = lease[d]
       /\ Terminal(c)' <=> pc # "write"
       /\ lease'[c] = (IF pc = "answered" THEN "none" ELSE lease[c])
       /\ result[r].pc = "rm" => pc = "answered"
  <2>1. CASE completeRead(r)
    <3>1. result[r].pc = "sent" /\ pc = "write" /\ record' = record /\ lease' = lease
      BY <2>1, <1>1, <1>4, <1>6, <1>10 DEF completeRead, Terminal, Handler
    <3>2. QED BY <3>1, <1>6 DEF Terminal
  <2>2. CASE completeWrite(r)
    <3>1. result[r].pc = "write" /\ pc = "rm" /\ lease' = lease
          /\ record' = [record EXCEPT ![c] = IF result[r].ok THEN "done" ELSE "failed"]
      BY <2>2, <1>1, <1>4, <1>10 DEF completeWrite, Handler
    <3>2. QED BY <3>1, <1>1, Statuses DEF Terminal
  <2>3. CASE completeRemove(r)
    <3>1. result[r].pc = "rm" /\ pc = "answered" /\ record' = record
          /\ lease' = [lease EXCEPT ![c] = "none"]
      BY <2>3, <1>1, <1>4, <1>10 DEF completeRemove, Handler
    <3>2. QED BY <3>1, <1>1, <1>6 DEF Terminal
  <2>4. QED BY <2>1, <2>2, <2>3 DEF Complete
<1>18. Owned'
  <2>1. OwnedOnce(c)'
    <3>1. CASE pc = "answered"
      BY <3>1, <1>7, <1>8, <1>15, <1>16, <1>17, OwnedFreed
    <3>2. CASE pc # "answered"
      <4>1. \A v \in Worker : HoldsBatch(v, c)' <=> HoldsBatch(v, c)
        BY <3>2, <1>6, <1>7, <1>15, <1>16
      <4>2. QED BY <4>1, <3>2, <1>8, <1>17, OwnedKept DEF ClaimsHold, Owned
    <3>3. QED BY <3>1, <3>2
  <2>2. ASSUME NEW d \in Cmd \ {c} PROVE OwnedOnce(d)'
    BY <1>8, <1>14, <1>17, OwnedKept DEF ClaimsHold, Owned
  <2>3. QED BY <2>1, <2>2 DEF Owned
<1>19. RecordsAgree'
  <2>1. ASSUME NEW q \in Process
        PROVE  /\ \A d \in op'[q].got : ~Terminal(d)'
               /\ op'[q].pc = "take" => ~Terminal(op[q].cmd)'
               /\ op'[q].pc = "undo" => Terminal(op[q].cmd)'
    <3>1. op[q].got \subseteq Cmd \ {c} /\ (op[q].pc \in {"take", "undo"} => op[q].cmd \in Cmd \ {c})
      BY <1>1, <1>7 DEF HoldsOp, Op
    <3>2. /\ \A d \in op[q].got : ~Terminal(d)
          /\ op[q].pc = "take" => ~Terminal(op[q].cmd)
          /\ op[q].pc = "undo" => Terminal(op[q].cmd)
      BY DEF ClaimsHold, RecordsAgree
    <3>3. op'[q] = op[q]
      BY <1>1
    <3>4. \A d \in Cmd \ {c} : record'[d] \in TERMINAL_STATUS <=> record[d] \in TERMINAL_STATUS
      BY <1>17 DEF Terminal
    <3>5. QED BY <3>1, <3>2, <3>3, <3>4 DEF Terminal
  <2>2. ASSUME NEW v \in Worker, NEW d \in worker'[v].batch
        PROVE  (Terminal(d) <=> worker[v].cmd = d /\ Ended(v))'
    <3>1. d \in Cmd /\ d \in worker[v].batch
      BY <1>1, <2>2 DEF WorkerState
    <3>2. Terminal(d) <=> worker[v].cmd = d /\ Ended(v)
      BY <3>1 DEF ClaimsHold, RecordsAgree
    <3>3. CASE v = w /\ d = c
      BY <3>3, <1>1, <1>4, <1>12, <1>17
    <3>4. CASE v = w /\ d # c
      BY <3>1, <3>2, <3>4, <1>1, <1>4, <1>17
    <3>5. CASE v # w /\ d # c
      BY <3>1, <3>2, <3>5, <1>1, <1>11, <1>17
    <3>6. CASE v # w /\ d = c
      <4>1. Freed(v) /\ worker[v].cmd = c
        BY <3>1, <3>6, <1>7 DEF HoldsBatch
      <4>2. Ended(v)
        BY <4>1 DEF Freed, Ended
      <4>3. Terminal(c)
        BY <3>2, <3>6, <4>1, <4>2
      <4>4. pc = "answered"
        BY <4>3, <1>6, <1>17
      <4>5. QED BY <3>6, <4>1, <4>2, <4>4, <1>1, <1>11, <1>17
    <3>7. QED BY <3>3, <3>4, <3>5, <3>6
  <2>3. QED BY <2>1, <2>2 DEF RecordsAgree
<1>20. StartedOnce'
  <2>1. \A d \in Cmd, v \in Worker : Busy(v, d)' <=> Busy(v, d)
    BY <1>1 DEF Busy
  <2>2. Busy(w, c)
    BY <1>3, <1>4 DEF Busy
  <2>3. QED BY <2>1, <2>2, <1>1, <1>17 DEF ClaimsHold, StartedOnce
<1>21. QED BY <1>13, <1>18, <1>19, <1>20 DEF ClaimsHold

-----------------------------------------------------------------------------
\* Every step without a fault keeps the claims.
LEMMA ClaimsStep ==
  ASSUME ChannelInvariant, ChannelInvariant', faults = 0 => ClaimsHold, [ChannelNext]_vars
  PROVE  faults' = 0 => ClaimsHold'
<1>1. faults \in Nat
  BY ChannelAssumption DEF ChannelInvariant, ChannelTypeOK
<1>2. ASSUME Fault PROVE faults' # 0
  BY <1>1, <1>2 DEF Fault
<1> SUFFICES ASSUME faults' = 0 PROVE ClaimsHold'
  OBVIOUS
<1>3. ~Fault
  BY <1>2
<1>4. ASSUME UNCHANGED faults PROVE ClaimsHold
  BY <1>4
<1>5. CASE UNCHANGED vars
  BY <1>4, <1>5 DEF vars, queueVars, channelVars, ClaimsHold, Owned, OwnedOnce, HoldsOp,
     HoldsBatch, Freed, Ended, RecordsAgree, Terminal, NothingStrays, StartedOnce, Busy
<1>6. ASSUME NEW p \in Process, Serve(p) \/ (enqueue(p) /\ UNCHANGED channelVars)
      PROVE  ClaimsHold'
  <2>1. ClaimsHold
    BY <1>4, <1>6 DEF Serve, serveClaim, serveReturn, channelVars
  <2>2. CASE Locked(p) /\ UNCHANGED channelVars
    <3>1. ~claimRemove(p)
      BY <2>1 DEF ClaimsHold, NothingStrays, claimRemove
    <3>2. QED BY <2>1, <2>2, <3>1, ListingHolds, ClaimFileHolds DEF Locked
  <2>3. CASE enqueue(p) /\ UNCHANGED channelVars
    BY <2>1, <2>3, ListingHolds
  <2>4. QED BY <1>6, <2>1, <2>2, <2>3, ServeClaimHolds, ServeReturnHolds DEF Serve
<1>7. ASSUME NEW w \in Worker, Work(w) PROVE ClaimsHold'
  <2>1. ASSUME NEW r \in Result, reportFails(w, r) PROVE FALSE
    <3>1. UNCHANGED faults /\ result[r].pc = "lost"
      BY <2>1, <1>3 DEF reportFails
    <3>2. ClaimsHold
      BY <3>1, <1>4
    <3>3. QED BY <3>1, <3>2 DEF ClaimsHold, NothingStrays
  <2>2. ClaimsHold
    BY <1>4, <1>7, <2>1 DEF Work, tick, run, handled, report, reported
  <2>3. QED BY <1>7, <2>1, <2>2, RunHolds, ReportHolds, ReportedHolds DEF Work
<1>8. ASSUME NEW w \in Worker, pollTimeout(w) \/ CrashWorker(w) PROVE ClaimsHold'
  BY <1>8, <1>3 DEF pollTimeout, CrashWorker
<1>9. ASSUME NEW r \in Result, Answer(r) PROVE ClaimsHold'
  <2>1. ClaimsHold
    BY <1>4, <1>9 DEF Answer, unheard, channelVars
  <2>2. ~unheard(r)
    BY <2>1 DEF ClaimsHold, NothingStrays, unheard, completeReturn
  <2>3. QED BY <1>9, <2>1, <2>2, CompleteHolds DEF Answer
<1>10. ASSUME NEW p \in Process, CrashNode(p) PROVE ClaimsHold'
  BY <1>10, <1>3 DEF CrashNode
<1>11. ASSUME NEW c \in Cmd, expire(c) PROVE ClaimsHold'
  <2>1. c \notin InHand /\ UNCHANGED faults /\ lease[c] = "fresh"
    BY <1>11, <1>3 DEF expire, leaseExpires
  <2>2. ClaimsHold
    BY <2>1, <1>4
  <2>3. ASSUME NEW p \in Process PROVE ~HoldsOp(p, c)
    <3> DEFINE Batches == UNION {worker[w].batch : w \in Worker}
               Takes == UNION {op[q].got : q \in Process}
               Claims == {op[q].cmd : q \in {z \in Process : op[z].pc \in {"reread", "take", "undo"}}}
    <3>1. InHand = Batches \cup Takes \cup Claims
      BY DEF InHand
    <3> HIDE DEF Batches, Takes, Claims
    <3>2. c \notin Takes /\ c \notin Claims
      BY <2>1, <3>1
    <3>3. c \notin op[p].got
      BY <3>2 DEF Takes
    <3>4. ~(op[p].pc \in {"reread", "take", "undo"} /\ op[p].cmd = c)
      BY <3>2 DEF Claims
    <3>5. QED BY <3>3, <3>4 DEF HoldsOp
  <2>4. CASE \E w \in Worker : HoldsBatch(w, c)
    BY <2>4, <2>1 DEF HoldsBatch, InHand
  <2>5. QED BY <2>1, <2>2, <2>3, <2>4 DEF ClaimsHold, Owned, OwnedOnce
<1>12. QED BY <1>5, <1>6, <1>7, <1>8, <1>9, <1>10, <1>11 DEF ChannelNext

\* At first nobody holds anything.
LEMMA ClaimsInit == ChannelInit => ClaimsHold
<1> SUFFICES ASSUME ChannelInit PROVE ClaimsHold
  OBVIOUS
<1>1. /\ record = [c \in Cmd |-> "none"] /\ lease = [c \in Cmd |-> "none"]
      /\ \A p \in Process : op[p].pc = "idle" /\ op[p].got = {} /\ serves[p] = None
      /\ \A r \in Result : result[r].pc = "free"
      /\ \A w \in Worker : worker[w].pc = "idle" /\ worker[w].batch = {}
      /\ started = [c \in Cmd |-> 0]
  BY DEF ChannelInit, Init, IdleOp, FreeHandler, IdleWorker
<1>2. Owned
  BY <1>1 DEF Owned, OwnedOnce, HoldsOp, HoldsBatch
<1>3. RecordsAgree /\ NothingStrays /\ StartedOnce
  BY <1>1 DEF RecordsAgree, NothingStrays, StartedOnce
<1>4. QED BY <1>2, <1>3 DEF ClaimsHold

\* claim and complete (capabilities.mjs) over any number of nodes and workers:
\* as long as no lease is too short, no answer late and no process dies, no
\* command is run by two bridges or twice by one.
THEOREM RunOnce == ChannelSpec => []ExecutedOnce
<1> DEFINE Held == ChannelInvariant /\ (faults = 0 => ClaimsHold)
<1>1. ChannelInit => Held
  BY ChannelInvariantInit, ClaimsInit
<1>2. Held /\ [ChannelNext]_vars => Held'
  <2>1. ChannelInvariant /\ [ChannelNext]_vars => ChannelInvariant'
    BY ChannelQueueStep, ChannelTypeStep, TruthStep DEF ChannelInvariant
  <2>2. QED BY <2>1, ClaimsStep
<1>3. Held => ExecutedOnce
  BY DEF ExecutedOnce, ClaimsHold, StartedOnce
<1>4. QED BY <1>1, <1>2, <1>3, PTL DEF ChannelSpec
=============================================================================
