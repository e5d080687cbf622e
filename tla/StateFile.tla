------------------------------ MODULE StateFile ------------------------------
(***************************************************************************)
(* state.json of a node (src/store.mjs): read marks and delivery states,   *)
(* shared by the serving node and by every CLI process without a lock.     *)
(* Each change loads the file and merges it with what the process has in   *)
(* memory, changes it, loads and merges again, writes a temporary file and *)
(* renames it.  Several calls of one process share its memory and its      *)
(* temporary file.                                                         *)
(***************************************************************************)
EXTENDS Integers, FiniteSets

CONSTANTS
  Record,     \* message ids
  Opener,     \* processes that have the store open
  Call,       \* calls in progress at once (bound)
  opener,     \* [Call -> Opener]
  MaxChanges  \* calls made at all (bound); also the clock of updatedAt

ASSUME StoreAssumption ==
  /\ opener \in [Call -> Opener] /\ MaxChanges \in Nat
  /\ Record # {} /\ IsFiniteSet(Record)

VARIABLES
  stateFile,  \* state.json: <<contents>>, or <<>> when it is torn
  temp,       \* the temporary file of each process, <<>> when there is none
  loaded,     \* this._state of each process
  call,       \* what each call is doing
  truth,      \* the marks and states of the calls that have returned (history)
  time,       \* calls begun
  savesOverlapped  \* two saves have overlapped (history)

storeVars == <<stateFile, temp, loaded, call, truth, time, savesOverlapped>>

-----------------------------------------------------------------------------
\* delivery: when the state of each record was last written, 0 for never.
Empty == [read |-> {}, delivery |-> [m \in Record |-> 0]]

TornFile == <<>>

Later(x, y) == IF x >= y THEN x ELSE y

\* Mutant: what is in memory wins.
mergeStateLocal(local, disk) ==
  [read |-> disk.read \cup local.read,
   delivery |-> [m \in Record |->
     IF local.delivery[m] = 0 THEN disk.delivery[m] ELSE local.delivery[m]]]

\* Marks only grow, and the newest state of a record is kept.
mergeState(local, disk) ==
  [read |-> disk.read \cup local.read,
   delivery |-> [m \in Record |-> Later(local.delivery[m], disk.delivery[m])]]

\* A file that cannot be read counts as empty.
_loadState(p) ==
  mergeState(loaded[p], IF stateFile = TornFile THEN Empty ELSE stateFile[1])

IdleCall == [pc |-> "idle", read |-> {}, delivery |-> {}, at |-> 0]

Changed(state, c) ==
  [read |-> state.read \cup c.read,
   delivery |-> [m \in Record |-> IF m \in c.delivery THEN c.at ELSE state.delivery[m]]]

Saving == {c \in Call : call[c].pc \in {"write", "rename"}}

StoreInit ==
  /\ stateFile = <<Empty>>
  /\ temp = [p \in Opener |-> <<>>]
  /\ loaded = [p \in Opener |-> Empty]
  /\ call = [c \in Call |-> IdleCall]
  /\ truth = Empty
  /\ time = 0
  /\ savesOverlapped = FALSE

-----------------------------------------------------------------------------
\* _loadState, and the change in memory right after it.
change(c, read, delivery) ==
  /\ call[c].pc = "idle" /\ time < MaxChanges
  /\ time' = time + 1
  /\ call' = [call EXCEPT ![c] = [pc |-> "save", read |-> read, delivery |-> delivery, at |-> time']]
  /\ loaded' = [loaded EXCEPT ![opener[c]] = Changed(_loadState(opener[c]), call'[c])]
  /\ UNCHANGED <<stateFile, temp, truth, savesOverlapped>>

markRead(c, ids) == ids \ _loadState(opener[c]).read # {} /\ change(c, ids, {})

setState(c, m) == change(c, {}, {m})

\* _saveState merges once more and opens the temporary file.
_saveState(c) ==
  /\ call[c].pc = "save"
  /\ loaded' = [loaded EXCEPT ![opener[c]] = _loadState(opener[c])]
  /\ temp' = [temp EXCEPT ![opener[c]] = <<TornFile>>]
  /\ savesOverlapped' = (savesOverlapped \/ Saving # {})
  /\ call' = [call EXCEPT ![c].pc = "write"]
  /\ UNCHANGED <<stateFile, truth, time>>

\* A call of the same process may have renamed the open file: what is written is
\* then in state.json, or in a file that another rename has replaced.
saveWrite(c) ==
  LET p == opener[c] IN
  /\ call[c].pc = "write"
  /\ call' = [call EXCEPT ![c].pc = "rename"]
  /\ IF temp[p] # <<>> THEN temp' = [temp EXCEPT ![p] = <<(<<loaded[p]>>)>>] /\ UNCHANGED stateFile
     ELSE stateFile' \in {stateFile, <<loaded[p]>>} /\ UNCHANGED temp
  /\ UNCHANGED <<loaded, truth, time, savesOverlapped>>

\* The rename fails when another call of the process has renamed the file.
saveRename(c) ==
  LET p == opener[c] IN
  /\ call[c].pc = "rename"
  /\ IF temp[p] = <<>> THEN UNCHANGED <<stateFile, temp, truth>>
     ELSE /\ stateFile' = temp[p][1]
          /\ temp' = [temp EXCEPT ![p] = <<>>]
          /\ truth' = mergeState(truth, Changed(truth, call[c]))
  /\ call' = [call EXCEPT ![c] = IdleCall]
  /\ UNCHANGED <<loaded, time, savesOverlapped>>

\* A process ends: it leaves its temporary file behind.
quit(p) ==
  /\ loaded[p] # Empty
  /\ loaded' = [loaded EXCEPT ![p] = Empty]
  /\ call' = [c \in Call |-> IF opener[c] = p THEN IdleCall ELSE call[c]]
  /\ UNCHANGED <<stateFile, temp, truth, time, savesOverlapped>>

StoreNext ==
  \/ \E c \in Call : _saveState(c) \/ saveWrite(c) \/ saveRename(c)
  \/ \E c \in Call, m \in Record : markRead(c, {m}) \/ setState(c, m)
  \/ \E p \in Opener : quit(p)

StoreSpec == StoreInit /\ [][StoreNext]_storeVars

-----------------------------------------------------------------------------
\* As long as no two saves overlap, whatever the processes, the calls they have in
\* progress and their ends, a change that has been saved is in the file, whole,
\* and no older state of the record replaces it (mergeState, _saveState).
SavedIsKept ==
  ~savesOverlapped =>
    /\ stateFile # TornFile
    /\ truth.read \subseteq stateFile[1].read
    /\ \A m \in Record : truth.delivery[m] <= stateFile[1].delivery[m]
=============================================================================
