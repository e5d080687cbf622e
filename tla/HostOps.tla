-------------------------------- MODULE HostOps --------------------------------
(***************************************************************************)
(* The commands a node lets its peers run in the DSH Host of its bridge    *)
(* (integrations/dsh-link-bridge/lib/dshops.js): each looks a service up,  *)
(* calls the Host once or twice and shapes the answer.  The worker runs    *)
(* them one at a time, beside the Host's own users.  A command may come    *)
(* again: it failed, its answer was lost, or the Host ended under it.      *)
(***************************************************************************)
EXTENDS Integers, FiniteSets, Sequences, SequencesExt, Lists

CONSTANTS
  Space,        \* workspaces
  Cmd,          \* commands
  args,         \* [Cmd -> arguments]: method, space, archived, limit, tail, requestId
  MaxRows,      \* limits.maxMessages
  MaxResult,    \* limits.maxResultChars, in rows
  MaxSessions, MaxTurns, MaxRuns  \* sessions, turns of one, executions (bounds)

ASSUME HostAssumption ==
  /\ {MaxRows, MaxResult} \subseteq Nat \ {0} /\ {MaxSessions, MaxTurns, MaxRuns} \subseteq Nat
  /\ IsFiniteSet(Space)

\* Only a read asks for the tail; a limit that is missing or 0 is the default one.
ASSUME ArgsAssumption ==
  /\ \A c \in Cmd : args[c].limit \in Nat \ {0} /\ (args[c].tail => args[c].method = "read")
  /\ "user" \notin Cmd

VARIABLES
  hosted,   \* the Host's sessions, as they were created: [space, by, archived, titled, turns]
  recent,   \* their numbers, last updated first
  admitted, \* the request ids the Host has admitted
  run,      \* the command that is executed, what it has read and what it answers
  runs,     \* executions so far
  due,      \* commands to be delivered, for the first time or again
  turns,    \* prompts admitted for each wish (history)
  cut       \* executions of each command whose answer was lost (history)

hostVars == <<hosted, recent, admitted, run, runs, due, turns, cut>>

NoSpace == "-"
NoRun == [pc |-> "idle", cmd |-> "-", owners |-> <<>>, archived |-> {}, rows |-> <<>>,
          total |-> 0, truncated |-> FALSE, all |-> {}]

\* What a caller wants done once: the request it names, or else its command.
Wish(c) == IF args[c].requestId # "" THEN args[c].requestId ELSE c

HostInit ==
  /\ hosted = <<>> /\ recent = <<>> /\ admitted = {}
  /\ run = NoRun
  /\ runs = 0 /\ due = Cmd
  /\ turns = [w \in {Wish(c) : c \in Cmd} |-> 0]
  /\ cut = [c \in Cmd |-> 0]

-----------------------------------------------------------------------------
archivedSet == {s \in DOMAIN hosted : hosted[s].archived}

ownerIndex == [s \in DOMAIN hosted |-> hosted[s].space]

rowLimit(n) == IF n > MaxRows THEN MaxRows ELSE n

First(list, n) == SubSeq(list, 1, IF Len(list) < n THEN Len(list) ELSE n)

\* The list is halved, from its end, until the answer fits.
cap(list) ==
  LET kept[k \in 0 .. Len(list)] == IF k <= MaxResult THEN k ELSE kept[k \div 2] IN
  [rows |-> First(list, kept[Len(list)]), truncated |-> Len(list) > MaxResult]

Answer(list, total, all) ==
  /\ run' = [NoRun EXCEPT !.pc = "done", !.cmd = run.cmd, !.rows = cap(list).rows,
                          !.truncated = cap(list).truncated, !.total = total, !.all = all]
  /\ UNCHANGED <<runs, due, cut>>

Fail ==
  /\ run' = [NoRun EXCEPT !.pc = "failed"]
  /\ due' = due \cup {run.cmd}
  /\ UNCHANGED <<runs, cut>>

\* A turn is written to a session, which becomes the most recent one.
Touch(s) ==
  /\ hosted' = [hosted EXCEPT ![s].turns = @ + 1]
  /\ recent' = <<s>> \o Filter(recent, DOMAIN hosted \ {s})

Open(space, by) ==
  /\ Len(hosted) < MaxSessions
  /\ hosted' = Append(hosted, [space |-> space, by |-> by, archived |-> FALSE,
                              titled |-> FALSE, turns |-> 0])
  /\ recent' = <<Len(hosted')>> \o recent

Begun(method) == run.pc = "begin" /\ args[run.cmd].method = method

UnchangedHost == UNCHANGED <<hosted, recent, admitted, turns>>

-----------------------------------------------------------------------------
\* The worker runs a command.
deliver(c) ==
  /\ run.pc \in {"idle", "done", "failed"} /\ c \in due /\ runs < MaxRuns
  /\ run' = [NoRun EXCEPT !.pc = "begin", !.cmd = c]
  /\ runs' = runs + 1
  /\ due' = due \ {c}
  /\ UnchangedHost /\ UNCHANGED cut

\* requireService: the Host has not mounted the service; or its call fails, times out.
requireService == run.pc = "begin" /\ Fail /\ UnchangedHost

Listed(s) ==
  LET a == args[run.cmd] IN
  /\ a.space = NoSpace \/ (s \in DOMAIN run.owners /\ run.owners[s] = a.space)
  /\ s \notin run.archived \/ a.archived

\* The Host's sessions, last updated first, without those of another workspace or of
\* none, and without the archived ones.
rowsOf == Filter(recent, {s \in DOMAIN hosted : Listed(s)})

\* workspaces.list
workspacesList ==
  /\ Begun("workspaces")
  /\ Answer(SetToSeq(Space), Cardinality(Space), Space)
  /\ UnchangedHost

\* sessions.list: the owners and the archive are read before the Host is asked.
listBegin ==
  /\ Begun("list")
  /\ run' = [run EXCEPT !.pc = "list", !.owners = ownerIndex, !.archived = archivedSet]
  /\ UnchangedHost /\ UNCHANGED <<runs, due, cut>>

\* Mutant: the rows are counted when they have been cut.
listAnswerCounted ==
  LET a == args[run.cmd]
      rows == First(rowsOf, rowLimit(a.limit))
  IN
  /\ run.pc = "list"
  /\ Answer(rows, Len(rows),
       {s \in DOMAIN run.owners :
          a.space \in {NoSpace, run.owners[s]} /\ (a.archived \/ ~hosted[s].archived)})
  /\ UnchangedHost

listAnswer ==
  LET a == args[run.cmd] IN
  /\ run.pc = "list"
  /\ Answer(First(rowsOf, rowLimit(a.limit)), Len(rowsOf),
       {s \in DOMAIN run.owners :
          a.space \in {NoSpace, run.owners[s]} /\ (a.archived \/ ~hosted[s].archived)})
  /\ UnchangedHost

\* sessions.read of the first session: what the Host gives is shaped in one step.
read ==
  LET n == hosted[1].turns
      size == rowLimit(args[run.cmd].limit)
      all == [i \in 1 .. n |-> i]
  IN
  /\ Begun("read") /\ hosted # <<>>
  /\ Answer(IF args[run.cmd].tail THEN SubSeq(all, IF n > size THEN n - size + 1 ELSE 1, n)
            ELSE First(all, size), n, 1 .. n)
  /\ UnchangedHost

\* The sessions a command has created.
Mine(c) == {s \in DOMAIN hosted : hosted[s].by = c}

\* sessions.create, and then the rename of what has been created.
create ==
  /\ Begun("create")
  /\ Open(args[run.cmd].space, run.cmd)
  /\ run' = [run EXCEPT !.pc = "rename"]
  /\ UNCHANGED <<admitted, turns, runs, due, cut>>

Set(s, new) ==
  /\ hosted' = [hosted EXCEPT ![s] = new]
  /\ UNCHANGED <<recent, admitted, turns>>

\* Mutant: a rename that fails fails the command.
renamedOrFailed ==
  /\ run.pc = "rename"
  /\ UnchangedHost
  /\ Answer(<<>>, 0, {}) \/ Fail

\* The session that was created, the Host's newest, is given its title: what fails is
\* part of the answer.
renamed ==
  LET s == CHOOSE m \in Mine(run.cmd) : \A o \in Mine(run.cmd) : o <= m IN
  /\ run.pc = "rename"
  /\ Set(s, [hosted[s] EXCEPT !.titled = TRUE]) \/ UnchangedHost
  /\ Answer(<<>>, 0, {})

\* sessions.rename and sessions.archive of the first session.
rename ==
  /\ Begun("rename") /\ hosted # <<>>
  /\ Set(1, [hosted[1] EXCEPT !.titled = TRUE])
  /\ Answer(<<>>, 0, {}) \/ Fail

archive ==
  /\ Begun("archive") /\ hosted # <<>>
  /\ Set(1, [hosted[1] EXCEPT !.archived = TRUE])
  /\ Answer(<<>>, 0, {}) \/ Fail

\* Mutant: a request id for each execution.
requestIdRandom(c) == <<Wish(c), runs>>

requestId(c) == <<Wish(c), 0>>

\* sessions.prompt into the first session: the Host admits a request id once; it may
\* still fail, or be given up, when it has.
prompt ==
  /\ Begun("prompt") /\ hosted # <<>>
  /\ IF requestId(run.cmd) \in admitted THEN UnchangedHost
     ELSE /\ hosted[1].turns < MaxTurns
          /\ admitted' = admitted \cup {requestId(run.cmd)}
          /\ Touch(1)
          /\ turns' = [turns EXCEPT ![Wish(run.cmd)] = @ + 1]
  /\ Answer(<<>>, 0, {}) \/ Fail

\* The answer does not arrive, or the Host ends before it: the command is due again.
loseAnswer ==
  /\ run.pc \in {"begin", "list", "rename", "done"}
  /\ run' = [NoRun EXCEPT !.pc = "failed"]
  /\ due' = due \cup {run.cmd}
  /\ cut' = [cut EXCEPT ![run.cmd] = @ + 1]
  /\ UnchangedHost /\ UNCHANGED runs

-----------------------------------------------------------------------------
\* The users of the Host open sessions, write to them and archive them.
userArchives(s) ==
  /\ ~hosted[s].archived
  /\ Set(s, [hosted[s] EXCEPT !.archived = TRUE])
  /\ UNCHANGED <<run, runs, due, cut>>

userOpens(space) == Open(space, "user") /\ UNCHANGED <<admitted, run, runs, due, turns, cut>>

userWrites(s) ==
  /\ hosted[s].turns < MaxTurns
  /\ Touch(s)
  /\ UNCHANGED <<admitted, run, runs, due, turns, cut>>

HostNext ==
  \/ \E c \in Cmd : deliver(c)
  \/ requireService \/ workspacesList \/ listBegin \/ listAnswer \/ read
  \/ create \/ renamed \/ rename \/ archive \/ prompt \/ loseAnswer
  \/ \E s \in DOMAIN hosted : userArchives(s) \/ userWrites(s)
  \/ \E w \in Space \cup {NoSpace} : userOpens(w)

HostSpec == HostInit /\ [][HostNext]_hostVars

-----------------------------------------------------------------------------
\* A prompt that is delivered again, after a failure, a timeout or the end of the Host
\* between two steps, is one turn of its session (sessions.prompt).
PromptedOnce == \A w \in DOMAIN turns : turns[w] <= 1

\* A create that is sent again because it failed makes no second session, unless an
\* answer was lost behind the creation (sessions.create).
CreatedOnce ==
  \A c \in Cmd : Cardinality(Mine(c)) <= 1 + cut[c]

\* An answer fits, and one that does not say that it leaves something out has all:
\* every session that was there throughout the call, every message; the tail of a
\* session has the newest (sessions.list, sessions.read, cap).
AnswerTellsWhatItOmits ==
  run.pc = "done" =>
    /\ Len(run.rows) <= MaxResult
    /\ ~run.truncated /\ Len(run.rows) = run.total => run.all \subseteq ToSet(run.rows)
    /\ args[run.cmd].tail /\ ~run.truncated /\ run.total > 0 => run.total \in ToSet(run.rows)
=============================================================================
