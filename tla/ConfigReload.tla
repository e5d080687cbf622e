----------------------------- MODULE ConfigReload -----------------------------
(***************************************************************************)
(* The config file of a node: CLI commands load it, change a section and   *)
(* save it whole; people edit it by hand; serve saves what it loaded and   *)
(* then watches the file (src/config.mjs, src/reload.mjs, bin/dshlink.mjs) *)
(* A section is the number of the edit that wrote it last.                 *)
(***************************************************************************)
EXTENDS Integers, FiniteSets

CONSTANTS
  Tool,         \* processes that edit the file
  MaxEdits,     \* edits made at all (bound)
  MaxReadFaults,\* reads of the file that fail, at most (bound)
  MaxStarts     \* times the node is started (bound)

ASSUME ConfigAssumption ==
  IsFiniteSet(Tool) /\ MaxEdits \in Nat /\ MaxReadFaults \in Nat /\ MaxStarts \in Nat

VARIABLES
  configFile, \* the sections in the file, or Torn while it is written by hand
  mtime,      \* counts the writes: the size and mtime of the file
  tool,       \* what each tool is doing, and the config it has loaded
  node,       \* where the serving process is
  cfg,        \* its config object
  parts,      \* the sections its roots, its view and its queue were last given
  signature,  \* the signature of the file it has applied
  seen,       \* the signature and contents of the check in progress
  edits,      \* edits begun
  kept,       \* the sections as the finished edits left them (history)
  editsOverlapped, \* a load and its save have spanned another write (history)
  missed,     \* the node has missed a write, as the notes below say (history)
  starts, readFaults

configVars == <<configFile, mtime, tool, node, cfg, parts, signature, seen, edits, kept,
                editsOverlapped, missed, starts, readFaults>>

Section == {"files", "dsh", "capabilities"}
Blank == [s \in Section |-> 0]
Torn == [s \in Section |-> -1]
IdleTool == [pc |-> "idle", section |-> "files", edit |-> 0, cfg |-> Blank, at |-> 0]
NoCheck == [at |-> 0, next |-> Blank]

ConfigInit ==
  /\ configFile = Blank /\ mtime = 1
  /\ tool = [t \in Tool |-> IdleTool]
  /\ node = "down"
  /\ cfg = Blank /\ parts = Blank /\ signature = 0 /\ seen = NoCheck
  /\ edits = 0 /\ kept = Blank /\ editsOverlapped = FALSE /\ missed = FALSE
  /\ starts = 0 /\ readFaults = 0

-----------------------------------------------------------------------------
\* saveConfig: a temporary file and a rename, so that no reader sees half of it.
saveConfig(c, at) ==
  /\ configFile' = c
  /\ mtime' = mtime + 1
  /\ editsOverlapped' = (editsOverlapped \/ at # mtime)

\* Mutant: only the section that was changed is written.
editedAlone(t) == [Blank EXCEPT ![tool[t].section] = tool[t].edit]

edited(t) == [tool[t].cfg EXCEPT ![tool[t].section] = tool[t].edit]

\* peers, token, invite, dsh, tunnel ...: loadCtx, and an invalid file ends the command.
loadCtx(t, s) ==
  /\ tool[t].pc = "idle" /\ edits < MaxEdits /\ configFile # Torn
  /\ edits' = edits + 1
  /\ tool' = [tool EXCEPT ![t] =
       [pc |-> "loaded", section |-> s, edit |-> edits', cfg |-> configFile, at |-> mtime]]
  /\ UNCHANGED <<configFile, mtime, node, cfg, parts, signature, seen, kept, editsOverlapped, missed,
                 starts, readFaults>>

saveEdit(t) ==
  /\ tool[t].pc = "loaded"
  /\ saveConfig(edited(t), tool[t].at)
  /\ tool' = [tool EXCEPT ![t] = IdleTool]
  /\ kept' = [kept EXCEPT ![tool[t].section] = tool[t].edit]
  /\ missed' = (missed \/ node = "prime")
  /\ UNCHANGED <<node, cfg, parts, signature, seen, edits, starts, readFaults>>

\* An edit by hand truncates the file and then writes it.
tear(t) ==
  /\ tool[t].pc = "loaded" /\ configFile # Torn
  /\ configFile' = Torn /\ mtime' = mtime + 1
  /\ editsOverlapped' = (editsOverlapped \/ tool[t].at # mtime)
  /\ tool' = [tool EXCEPT ![t].pc = "loaded", ![t].at = mtime']
  /\ missed' = (missed \/ node = "prime")
  /\ UNCHANGED <<node, cfg, parts, signature, seen, edits, kept, starts, readFaults>>

-----------------------------------------------------------------------------
\* serve: loadCtx, and each component is given its section.
serve ==
  /\ node = "down" /\ starts < MaxStarts /\ configFile # Torn
  /\ starts' = starts + 1
  /\ cfg' = configFile /\ parts' = configFile
  /\ seen' = [NoCheck EXCEPT !.at = mtime]
  /\ node' = "save"
  /\ missed' = FALSE
  /\ UNCHANGED <<configFile, mtime, tool, signature, edits, kept, editsOverlapped, readFaults>>

\* sealTokens, and what was loaded is saved: a write in between is undone.
serveSave ==
  /\ node = "save"
  /\ saveConfig(cfg, seen.at)
  /\ node' = "prime" /\ seen' = NoCheck
  /\ UNCHANGED <<tool, cfg, parts, signature, edits, kept, missed, starts, readFaults>>

\* The file as it is now counts as applied: a write since the save is missed.
prime ==
  /\ node = "prime"
  /\ signature' = mtime
  /\ node' = "idle"
  /\ UNCHANGED <<configFile, mtime, tool, cfg, parts, seen, edits, kept, editsOverlapped, missed,
                 starts, readFaults>>

\* A request: one check at a time, and no more than one in intervalMs.
check ==
  /\ node = "idle" /\ mtime # signature
  /\ seen' = [NoCheck EXCEPT !.at = mtime]
  /\ signature' = mtime
  /\ node' = "load"
  /\ UNCHANGED <<configFile, mtime, tool, cfg, parts, edits, kept, editsOverlapped, missed, starts,
                 readFaults>>

\* A load that fails is not tried again until the file is written again.
load ==
  /\ node = "load"
  /\ IF configFile # Torn
     THEN node' = "apply" /\ seen' = [seen EXCEPT !.next = configFile]
     ELSE node' = "idle" /\ seen' = NoCheck
  /\ UNCHANGED <<configFile, mtime, tool, cfg, parts, signature, edits, kept, editsOverlapped, missed,
                 starts, readFaults>>

loadFails ==
  /\ node = "load" /\ readFaults < MaxReadFaults
  /\ readFaults' = readFaults + 1
  /\ node' = "idle" /\ seen' = NoCheck
  /\ missed' = TRUE
  /\ UNCHANGED <<configFile, mtime, tool, cfg, parts, signature, edits, kept, editsOverlapped, starts>>

\* Mutant: the folders are compared once the new config is in place.
filesChangedLate(next) == next["files"] # cfg'["files"]

filesChanged(next) == next["files"] # cfg["files"]

\* Every section of the config object is replaced, in place.
applyConfigInto(next) == cfg' = next

\* The view is given its section. commands.setConfig names a variable that is not in
\* scope: the queue keeps its policy.
onReload == [parts EXCEPT !["dsh"] = cfg'["dsh"]]

\* Mutant: the signature is stored once the config is applied.
applyThenSign ==
  /\ node = "apply"
  /\ applyConfigInto(seen.next)
  /\ parts' = [onReload EXCEPT !["files"] = cfg'["files"]]
  /\ signature' = mtime
  /\ node' = "idle" /\ seen' = NoCheck
  /\ UNCHANGED <<configFile, mtime, tool, edits, kept, editsOverlapped, missed, starts, readFaults>>

\* onChange: the roots are rebuilt when the shared folders changed.
apply ==
  /\ node = "apply"
  /\ applyConfigInto(seen.next)
  /\ parts' = [onReload EXCEPT !["files"] = IF filesChanged(seen.next) THEN cfg'["files"] ELSE @]
  /\ node' = "idle" /\ seen' = NoCheck
  /\ missed' = (missed /\ configFile # cfg')
  /\ UNCHANGED <<configFile, mtime, tool, signature, edits, kept, editsOverlapped, starts, readFaults>>

shutdown ==
  /\ node # "down"
  /\ node' = "down" /\ cfg' = Blank /\ parts' = Blank /\ signature' = 0 /\ seen' = NoCheck
  /\ UNCHANGED <<configFile, mtime, tool, edits, kept, editsOverlapped, missed, starts, readFaults>>

NodeStep == serveSave \/ prime \/ check \/ load \/ apply

ConfigNext ==
  \/ \E t \in Tool : (\E s \in Section : loadCtx(t, s)) \/ saveEdit(t) \/ tear(t)
  \/ serve \/ NodeStep \/ loadFails \/ shutdown

ConfigSpec == ConfigInit /\ [][ConfigNext]_configVars

-----------------------------------------------------------------------------
\* The roots and the view of a serving node work with the sections its config
\* object has, although they hold copies of their own (createNodeWatcher, onReload).
ComponentsAgree ==
  node # "down" => \A s \in {"files", "dsh"} : parts[s] = cfg[s]

\* As long as no load and save span another write, every finished edit is in the
\* file, whichever tools and starts of the node have saved it since (saveConfig).
EditsKept ==
  ~editsOverlapped /\ configFile # Torn => \A s \in Section : configFile[s] >= kept[s]

\* A serving node that finds nothing to do has the config of the file, however the
\* edits fell between the stat, the load and its end; unless a read failed or a write
\* fell between its own save and prime (check, load, prime).
NothingMissed ==
  node = "idle" /\ signature = mtime /\ ~missed => configFile \in {Torn, cfg}
=============================================================================
