------------------------------ MODULE ConfigProofs ------------------------------
(***************************************************************************)
(* Proofs about ConfigReload and PeerCall, for any number of tools, edits, *)
(* starts of the node and reads that fail, and for any policies.           *)
(***************************************************************************)
EXTENDS PeerCall, StateFile, TLAPS

Config == [Section -> Int]

ToolState == [pc : {"idle", "loaded"}, section : Section, edit : Nat, cfg : Config, at : Nat]

\* What the variables hold.
ConfigTypeOK ==
  /\ configFile \in Config /\ mtime \in Nat
  /\ tool \in [Tool -> ToolState]
  /\ node \in {"down", "save", "prime", "idle", "load", "apply"}
  /\ cfg \in Config /\ parts \in Config
  /\ signature \in Nat /\ signature <= mtime
  /\ seen \in [at : Nat, next : Config]
  /\ edits \in Nat /\ kept \in Config
  /\ editsOverlapped \in BOOLEAN /\ missed \in BOOLEAN
  /\ starts \in Nat /\ readFaults \in Nat

\* Nothing has been written since the time `at`, and what was loaded then has all edits.
HasAll(c, at) == at = mtime => \A s \in Section : c[s] >= kept[s]

\* What a save will write has all finished edits, unless something was written since
\* its load.
SavesKeep ==
  ~editsOverlapped =>
    /\ \A s \in Section : kept[s] <= edits
    /\ \A t \in Tool : tool[t].pc = "loaded" =>
         /\ tool[t].at <= mtime
         /\ HasAll(tool[t].cfg, tool[t].at)
         /\ tool[t].at = mtime => \A s \in Section : kept[s] <= tool[t].edit
         /\ tool[t].edit <= edits
    /\ node = "save" => seen.at <= mtime /\ HasAll(cfg, seen.at)

\* What the node is about to take for the file is the file, unless it has missed a write.
NodeKnows ==
  ~missed =>
    /\ node = "prime" => configFile = cfg
    /\ node = "apply" /\ signature = mtime => configFile \in {Torn, seen.next}

ConfigInvariant ==
  /\ ConfigTypeOK /\ SavesKeep /\ NodeKnows
  /\ ComponentsAgree /\ EditsKept /\ NothingMissed

-----------------------------------------------------------------------------
\* What the module's constants and the assumption give.
LEMMA Constants ==
  /\ Blank \in Config /\ Torn \in Config /\ IdleTool \in ToolState
  /\ NoCheck \in [at : Nat, next : Config]
  /\ \A s \in Section : Blank[s] = 0 /\ Torn[s] = -1
<1>1. Blank \in Config /\ Torn \in Config /\ \A s \in Section : Blank[s] = 0 /\ Torn[s] = -1
  BY DEF Blank, Torn, Config
<1>2. IdleTool \in ToolState
  BY <1>1 DEF IdleTool, ToolState, Section
<1>3. NoCheck \in [at : Nat, next : Config]
  BY <1>1 DEF NoCheck
<1>4. QED BY <1>1, <1>2, <1>3

\* A new store, without a node that serves, satisfies the invariant.
LEMMA ConfigInitInvariant == ConfigInit => ConfigInvariant
<1> SUFFICES ASSUME ConfigInit PROVE ConfigInvariant
  OBVIOUS
<1> USE Constants DEF ConfigInit
<1>1. ConfigTypeOK
  <2>1. tool \in [Tool -> ToolState]
    OBVIOUS
  <2>2. signature \in Nat /\ mtime \in Nat /\ signature <= mtime
    OBVIOUS
  <2>3. QED BY <2>1, <2>2 DEF ConfigTypeOK
<1>2. SavesKeep
  BY DEF SavesKeep, IdleTool
<1>3. NodeKnows /\ ComponentsAgree /\ NothingMissed
  BY DEF NodeKnows, ComponentsAgree, NothingMissed
<1>4. EditsKept
  BY DEF EditsKept
<1>5. QED BY <1>1, <1>2, <1>3, <1>4 DEF ConfigInvariant

-----------------------------------------------------------------------------
(* The steps of the tools.                                                 *)

\* A tool reads: its copy becomes what the file holds.
LEMMA LoadStep ==
  ASSUME ConfigInvariant, NEW t \in Tool, NEW s \in Section, loadCtx(t, s)
  PROVE  ConfigInvariant'
<1> USE DEF ConfigInvariant, loadCtx
<1>1. /\ tool' \in [Tool -> ToolState]
      /\ tool'[t] = [pc |-> "loaded", section |-> s, edit |-> edits', cfg |-> configFile, at |-> mtime]
      /\ \A u \in Tool \ {t} : tool'[u] = tool[u]
      /\ edits' = edits + 1 /\ edits' \in Nat
  BY DEF ConfigTypeOK, ToolState
<1>2. ConfigTypeOK'
  BY <1>1 DEF ConfigTypeOK
<1>3. SavesKeep'
  <2> SUFFICES ASSUME ~editsOverlapped PROVE SavesKeep'
    BY DEF SavesKeep
  <2>1. \A r \in Section : kept[r] \in Int /\ kept[r] <= edits /\ kept[r] <= configFile[r]
    BY DEF SavesKeep, EditsKept, ConfigTypeOK, Config
  <2>2. \A r \in Section : kept[r] <= edits'
    BY <1>1, <2>1 DEF ConfigTypeOK
  <2>3. ASSUME NEW u \in Tool \ {t}, tool[u].pc = "loaded" PROVE tool[u].edit <= edits'
    BY <1>1, <2>3 DEF SavesKeep, ConfigTypeOK, ToolState
  <2>4. mtime \in Nat
    BY DEF ConfigTypeOK
  <2>5. QED BY <1>1, <2>1, <2>2, <2>3, <2>4 DEF SavesKeep, HasAll
<1>4. NodeKnows' /\ ComponentsAgree' /\ EditsKept' /\ NothingMissed'
  BY DEF NodeKnows, ComponentsAgree, EditsKept, NothingMissed
<1>5. QED BY <1>2, <1>3, <1>4

\* A tool writes its copy back, with its own edit.
LEMMA SaveStep ==
  ASSUME ConfigInvariant, NEW t \in Tool, saveEdit(t)
  PROVE  ConfigInvariant'
<1> USE DEF ConfigInvariant, saveEdit, saveConfig
<1>a. /\ tool' \in [Tool -> ToolState] /\ tool'[t].pc = "idle"
      /\ \A u \in Tool \ {t} : tool'[u] = tool[u]
  <2>1. IdleTool.pc = "idle"
    BY DEF IdleTool
  <2>2. QED BY <2>1, Constants DEF ConfigTypeOK
<1>b. mtime' = mtime + 1 /\ mtime' \in Nat /\ signature < mtime'
  BY DEF ConfigTypeOK
<1>c. tool[t].section \in Section /\ tool[t].edit \in Nat /\ tool[t].cfg \in Config
  BY DEF ConfigTypeOK, ToolState
<1>d. edited(t) \in Config /\ kept' \in Config
  BY <1>c DEF ConfigTypeOK, edited, Config
<1>1. /\ tool' \in [Tool -> ToolState] /\ tool'[t].pc = "idle"
      /\ \A u \in Tool \ {t} : tool'[u] = tool[u]
      /\ mtime' = mtime + 1 /\ mtime' \in Nat /\ signature < mtime'
      /\ edited(t) \in Config /\ kept' \in Config
      /\ tool[t].section \in Section /\ tool[t].edit \in Nat /\ tool[t].cfg \in Config
  BY <1>a, <1>b, <1>c, <1>d
<1>2. \A s \in Section :
        /\ edited(t)[s] = IF s = tool[t].section THEN tool[t].edit ELSE tool[t].cfg[s]
        /\ kept'[s] = IF s = tool[t].section THEN tool[t].edit ELSE kept[s]
  BY <1>1 DEF ConfigTypeOK, edited, Config
<1>3. ConfigTypeOK'
  BY <1>1 DEF ConfigTypeOK
<1>4. ASSUME ~editsOverlapped' 
      PROVE  ~editsOverlapped /\ tool[t].at = mtime
  BY <1>4 DEF ConfigTypeOK
<1>5. EditsKept'
  BY <1>1, <1>2, <1>4 DEF EditsKept, SavesKeep, HasAll, ConfigTypeOK, Config
<1>6. SavesKeep'
  BY <1>1, <1>2, <1>4 DEF SavesKeep, HasAll, ConfigTypeOK, Config, ToolState
<1>7. NodeKnows' /\ NothingMissed'
  <2>1. signature' = signature /\ signature \in Nat /\ signature # mtime' /\ node' = node
    BY <1>1 DEF ConfigTypeOK
  <2>2. QED BY <2>1 DEF NodeKnows, NothingMissed
<1>8. ComponentsAgree'
  BY DEF ComponentsAgree
<1>9. QED BY <1>3, <1>5, <1>6, <1>7, <1>8

\* The file is caught in the middle of a write; what it will hold does not change.
LEMMA TearStep ==
  ASSUME ConfigInvariant, NEW t \in Tool, tear(t)
  PROVE  ConfigInvariant'
<1> USE DEF ConfigInvariant, tear
<1>1. /\ tool' \in [Tool -> ToolState]
      /\ tool'[t] = [tool[t] EXCEPT !.pc = "loaded", !.at = mtime']
      /\ \A u \in Tool \ {t} : tool'[u] = tool[u]
      /\ mtime' = mtime + 1 /\ mtime' \in Nat /\ signature < mtime'
  <2>1. mtime' = mtime + 1 /\ mtime' \in Nat /\ signature < mtime'
    BY DEF ConfigTypeOK
  <2>2. [tool[t] EXCEPT !.pc = "loaded", !.at = mtime'] \in ToolState
    BY <2>1 DEF ConfigTypeOK, ToolState
  <2>3. tool' = [tool EXCEPT ![t] = [tool[t] EXCEPT !.pc = "loaded", !.at = mtime']]
    BY DEF ConfigTypeOK, ToolState
  <2>4. QED BY <2>1, <2>2, <2>3 DEF ConfigTypeOK
<1>2. ConfigTypeOK'
  BY <1>1, Constants DEF ConfigTypeOK
<1>3. ASSUME ~editsOverlapped' PROVE ~editsOverlapped /\ tool[t].at = mtime
  BY <1>3 DEF ConfigTypeOK
<1>4. SavesKeep'
  BY <1>1, <1>3 DEF SavesKeep, HasAll, ConfigTypeOK, ToolState, Config
<1>5. EditsKept' /\ ComponentsAgree'
  BY DEF EditsKept, ComponentsAgree
<1>6. NodeKnows' /\ NothingMissed'
  <2>1. signature' = signature /\ signature \in Nat /\ signature # mtime' /\ node' = node
    BY <1>1 DEF ConfigTypeOK
  <2>2. QED BY <2>1 DEF NodeKnows, NothingMissed
<1>7. QED BY <1>2, <1>4, <1>5, <1>6

-----------------------------------------------------------------------------
(* The steps of the node.                                                  *)

\* A start gives every component the config that was read.
LEMMA ServeStep == ASSUME ConfigInvariant, serve PROVE ConfigInvariant'
<1> USE DEF ConfigInvariant, serve
<1>1. seen' \in [at : Nat, next : Config] /\ seen'.at = mtime /\ starts' \in Nat
  BY Constants DEF ConfigTypeOK, NoCheck
<1>2. ConfigTypeOK'
  <2>1. configFile \in Config /\ cfg' = configFile /\ parts' = configFile /\ missed' = FALSE
    BY DEF ConfigTypeOK
  <2>2. UNCHANGED <<configFile, mtime, tool, signature, edits, kept, editsOverlapped, readFaults>>
    OBVIOUS
  <2>3. QED BY <1>1, <2>1, <2>2 DEF ConfigTypeOK
<1>3. SavesKeep'
  BY <1>1 DEF SavesKeep, HasAll, EditsKept, ConfigTypeOK
<1>4. NodeKnows' /\ NothingMissed' /\ ComponentsAgree'
  BY DEF NodeKnows, NothingMissed, ComponentsAgree, Section
<1>5. EditsKept'
  BY DEF EditsKept
<1>6. QED BY <1>2, <1>3, <1>4, <1>5

\* The start writes back what it has read.
LEMMA ServeSaveStep == ASSUME ConfigInvariant, serveSave PROVE ConfigInvariant'
<1> USE DEF ConfigInvariant, serveSave, saveConfig
<1>1. ConfigTypeOK'
  BY Constants DEF ConfigTypeOK
<1>2. SavesKeep'
  BY DEF SavesKeep, HasAll, ConfigTypeOK, ToolState
<1>3. NodeKnows' /\ NothingMissed' /\ ComponentsAgree'
  BY DEF NodeKnows, NothingMissed, ComponentsAgree
<1>4. EditsKept'
  BY DEF EditsKept, SavesKeep, HasAll, ConfigTypeOK
<1>5. QED BY <1>1, <1>2, <1>3, <1>4

\* check: the signature is taken, the file is read or the read fails.
LEMMA CheckStep ==
  ASSUME ConfigInvariant, prime \/ check \/ load \/ loadFails \/ shutdown
  PROVE  ConfigInvariant'
<1> USE DEF ConfigInvariant
<1>1. /\ UNCHANGED <<configFile, mtime, tool, edits, kept, editsOverlapped, starts>>
      /\ node # "save" => node' # "save"
      /\ node' # "save"
  BY DEF prime, check, load, loadFails, shutdown
<1>2. ConfigTypeOK'
  <2>1. CASE prime
    BY <2>1 DEF ConfigTypeOK, prime
  <2>2. CASE check
    BY <2>2, Constants DEF ConfigTypeOK, check, NoCheck
  <2>3. CASE load
    BY <2>3, Constants DEF ConfigTypeOK, load
  <2>4. CASE loadFails
    BY <2>4, Constants DEF ConfigTypeOK, loadFails
  <2>5. CASE shutdown
    BY <2>5, Constants DEF ConfigTypeOK, shutdown
  <2>6. QED BY <2>1, <2>2, <2>3, <2>4, <2>5
<1>3. SavesKeep'
  BY <1>1 DEF SavesKeep, HasAll
<1>4. EditsKept'
  BY <1>1 DEF EditsKept
<1>5. NodeKnows' /\ NothingMissed'
  BY DEF NodeKnows, NothingMissed, ConfigTypeOK, prime, check, load, loadFails, shutdown
<1>6. ComponentsAgree'
  BY DEF ComponentsAgree, prime, check, load, loadFails, shutdown
<1>7. QED BY <1>2, <1>3, <1>4, <1>5, <1>6

\* onReload: the components get the fields they are given.
LEMMA ApplyStep == ASSUME ConfigInvariant, apply PROVE ConfigInvariant'
<1> USE DEF ConfigInvariant, apply, applyConfigInto
<1>1. /\ parts' \in Config
      /\ parts'["dsh"] = cfg'["dsh"]
      /\ parts'["files"] = IF filesChanged(seen.next) THEN cfg'["files"] ELSE parts["files"]
  BY DEF onReload, ConfigTypeOK, Config, Section
<1>2. ConfigTypeOK'
  BY <1>1, Constants DEF ConfigTypeOK
<1>3. SavesKeep' /\ EditsKept'
  BY DEF SavesKeep, HasAll, EditsKept
<1>4. NodeKnows' /\ NothingMissed'
  BY DEF NodeKnows, NothingMissed, ConfigTypeOK
<1>5. ComponentsAgree'
  BY <1>1 DEF ComponentsAgree, filesChanged, Section
<1>6. QED BY <1>2, <1>3, <1>4, <1>5

\* What a stutter leaves.
LEMMA ConfigStutter == ASSUME ConfigInvariant, UNCHANGED configVars PROVE ConfigInvariant'
BY DEF ConfigInvariant, configVars, ConfigTypeOK, SavesKeep, HasAll, NodeKnows, ComponentsAgree,
       EditsKept, NothingMissed

-----------------------------------------------------------------------------
\* And so does every step.
LEMMA ConfigStep == ConfigInvariant /\ [ConfigNext]_configVars => ConfigInvariant'
BY LoadStep, SaveStep, TearStep, ServeStep, ServeSaveStep, CheckStep, ApplyStep, ConfigStutter
   DEF ConfigNext, NodeStep

\* The invariant holds however edits, starts, checks and failed reads are interleaved.
THEOREM ConfigInvariantHolds == ConfigSpec => []ConfigInvariant
BY ConfigStep, ConfigInitInvariant, PTL DEF ConfigSpec

\* The copies the roots and the view hold are those of the config object (onReload).
THEOREM ComponentsAlwaysAgree == ConfigSpec => []ComponentsAgree
<1>1. ConfigInvariant => ComponentsAgree
  BY DEF ConfigInvariant
<1>2. QED BY <1>1, ConfigInvariantHolds, PTL

\* While no load and save span another write, no finished edit is undone (saveConfig).
THEOREM EditsAreKept == ConfigSpec => []EditsKept
<1>1. ConfigInvariant => EditsKept
  BY DEF ConfigInvariant
<1>2. QED BY <1>1, ConfigInvariantHolds, PTL

\* A node that has nothing to do works with the config of the file (check, load).
THEOREM NothingIsMissed == ConfigSpec => []NothingMissed
<1>1. ConfigInvariant => NothingMissed
  BY DEF ConfigInvariant
<1>2. QED BY <1>1, ConfigInvariantHolds, PTL
-----------------------------------------------------------------------------
(* PeerCall.                                                               *)

CallState == [pc : {"none", "refresh", "body", "enqueue", "queued", "refused"},
              label : Label \cup {"-"}, method : Asked \cup {"-"},
              may : SUBSET Int, queue : SUBSET Int]

InFlight == peerCall.pc \in {"refresh", "body", "enqueue"}

\* What the node has or is about to have is among what the call may be judged by.
CallKnows ==
  InFlight =>
    /\ node \in {"idle", "load", "apply"}
    /\ InFile \subseteq peerCall.may
    /\ node = "apply" => seen.next["capabilities"] \in peerCall.may
    /\ peerCall.pc = "refresh" /\ node = "idle" => Now \in peerCall.may
    /\ peerCall.pc = "body" => Now \in peerCall.may
    /\ peerCall.pc = "enqueue" => \E e \in peerCall.may : AllowedBy(e)

CallInvariant ==
  /\ ConfigInvariant
  /\ peerCall \in CallState
  /\ CallKnows
  /\ CallFollowsConfig

\* Sections are numbers.
LEMMA SectionType ==
  ASSUME ConfigInvariant
  PROVE  Now \in Int /\ InFile \subseteq Int /\ parts["capabilities"] \in Int
         /\ seen.next["capabilities"] \in Int
BY DEF ConfigInvariant, ConfigTypeOK, Config, Section, Now, InFile

\* A node that serves gets a config only from a check, which read it from the file.
LEMMA ServingStep ==
  ASSUME ConfigInvariant, [ConfigNext]_configVars, node \in {"idle", "load", "apply"}, node' # "down"
  PROVE  /\ node' \in {"idle", "load", "apply"}
         /\ node' = "apply" =>
              \/ node = "apply" /\ seen' = seen
              \/ configFile # Torn /\ configFile' = configFile /\ seen'.next = configFile
         /\ cfg' = cfg \/ (node = "apply" /\ cfg' = seen.next)
         /\ node' = "idle" => node \in {"idle", "load"} \/ cfg' = seen.next
<1>1. CASE UNCHANGED configVars
  BY <1>1 DEF configVars
<1>2. CASE \E t \in Tool : (\E s \in Section : loadCtx(t, s)) \/ saveEdit(t) \/ tear(t)
  BY <1>2 DEF loadCtx, saveEdit, tear
<1>3. CASE serve \/ serveSave \/ prime \/ shutdown
  BY <1>3 DEF serve, serveSave, prime, shutdown
<1>4. CASE check \/ loadFails
  BY <1>4 DEF check, loadFails
<1>5. CASE load
  <2>1. seen \in [at : Nat, next : Config]
    BY DEF ConfigInvariant, ConfigTypeOK
  <2>2. QED BY <1>5, <2>1 DEF load
<1>6. CASE apply
  BY <1>6 DEF apply, applyConfigInto
<1>7. QED BY <1>1, <1>2, <1>3, <1>4, <1>5, <1>6 DEF ConfigNext, NodeStep

\* At the beginning there is no call.
LEMMA CallInitInvariant == CallInit => CallInvariant
<1> SUFFICES ASSUME CallInit PROVE CallInvariant
  OBVIOUS
<1>1. ConfigInvariant
  BY ConfigInitInvariant DEF CallInit
<1>2. peerCall \in CallState /\ CallKnows /\ CallFollowsConfig
  BY DEF CallInit, NoCall, CallState, CallKnows, InFlight, CallFollowsConfig
<1>3. QED BY <1>1, <1>2 DEF CallInvariant

\* The file and the node go on under the call.
LEMMA GoesOnStep == ASSUME CallInvariant, configGoesOn PROVE CallInvariant'
<1> USE DEF CallInvariant
<1> DEFINE more == InFile' \cup IF node = "load" /\ node' = "idle" THEN {Now} ELSE {}
<1>1. ConfigInvariant'
  BY ConfigStep DEF configGoesOn
<1>2. CASE ~InFlight
  <2>1. peerCall' = peerCall
    BY <1>2 DEF configGoesOn, InFlight
  <2>2. QED BY <1>1, <1>2, <2>1 DEF InFlight, CallKnows, CallFollowsConfig, AllowedBy
<1>3. CASE InFlight /\ node' = "down"
  <2>1. peerCall' = NoCall
    BY <1>3 DEF configGoesOn, InFlight
  <2>2. peerCall' \in CallState /\ CallKnows' /\ CallFollowsConfig'
    BY <2>1 DEF NoCall, CallState, CallKnows, InFlight, CallFollowsConfig
  <2>3. QED BY <1>1, <2>2
<1>4. CASE InFlight /\ node' # "down"
  <2>1. peerCall' = [peerCall EXCEPT !.may = @ \cup more]
    BY <1>4 DEF configGoesOn, InFlight
  <2>2. more \subseteq Int
    <3>1. InFile' \subseteq Int
      BY <1>1 DEF ConfigInvariant, ConfigTypeOK, Config, Section, InFile
    <3>2. QED BY <3>1, SectionType
  <2>3. /\ peerCall' \in CallState /\ peerCall'.may = peerCall.may \cup more
        /\ peerCall'.pc = peerCall.pc /\ peerCall'.label = peerCall.label /\ peerCall'.method = peerCall.method
    BY <2>1, <2>2 DEF CallState
  <2>4. CallKnows'
    <3>1. /\ node \in {"idle", "load", "apply"} /\ InFile \subseteq peerCall.may
          /\ node = "apply" => seen.next["capabilities"] \in peerCall.may
          /\ peerCall.pc = "refresh" /\ node = "idle" => Now \in peerCall.may
          /\ peerCall.pc = "body" => Now \in peerCall.may
          /\ peerCall.pc = "enqueue" => \E e \in peerCall.may : AllowedBy(e)
      BY <1>4 DEF CallKnows
    <3>2. /\ node' \in {"idle", "load", "apply"}
          /\ node' = "apply" =>
               \/ node = "apply" /\ seen' = seen
               \/ configFile # Torn /\ configFile' = configFile /\ seen'.next = configFile
          /\ cfg' = cfg \/ (node = "apply" /\ cfg' = seen.next)
          /\ node' = "idle" => node \in {"idle", "load"} \/ cfg' = seen.next
      BY <1>4, <3>1, ServingStep DEF configGoesOn
    <3>3. node' = "apply" => seen'.next["capabilities"] \in peerCall'.may
      BY <2>3, <3>1, <3>2 DEF InFile
    <3>4. peerCall'.pc = "body" => Now' \in peerCall'.may
      BY <2>3, <3>1, <3>2 DEF Now
    <3>5. peerCall'.pc = "refresh" /\ node' = "idle" => Now' \in peerCall'.may
      BY <2>3, <3>1, <3>2 DEF Now
    <3>6. peerCall'.pc = "enqueue" => \E e \in peerCall'.may : AllowedBy(e)'
      BY <2>3, <3>1 DEF AllowedBy
    <3>7. InFile' \subseteq peerCall'.may
      BY <2>3
    <3>8. QED BY <3>2, <3>3, <3>4, <3>5, <3>6, <3>7 DEF CallKnows
  <2>5. CallFollowsConfig'
    BY <1>4, <2>3 DEF InFlight, CallFollowsConfig
  <2>6. QED BY <1>1, <2>3, <2>4, <2>5
<1>5. QED BY <1>2, <1>3, <1>4

\* A call comes in.
LEMMA RefreshStep ==
  ASSUME CallInvariant, NEW label \in Label, NEW method \in Asked, requestRefresh(label, method)
  PROVE  CallInvariant'
<1> USE DEF CallInvariant
<1>1. ConfigInvariant'
  BY ConfigStep DEF requestRefresh, ConfigNext, NodeStep
<1>2. PICK pc \in {"refresh", "body"}, may \in SUBSET Int :
        /\ Begin(pc, label, method, may)
        /\ node' \in {"idle", "load", "apply"} /\ InFile' = InFile /\ Now' = Now
        /\ node' = "apply" => seen'.next["capabilities"] \in may
        /\ node' = "idle" => pc = "body"
        /\ pc = "body" => Now \in may \cup InFile
  <2>1. Now \in Int /\ seen.next["capabilities"] \in Int
    BY SectionType
  <2>2. CASE check /\ Begin("refresh", label, method, {})
    BY <2>2 DEF check, InFile, Now
  <2>3. CASE node = "idle" /\ mtime = signature /\ UNCHANGED configVars
             /\ Begin("body", label, method, IF missed \/ configFile = Torn THEN {Now} ELSE {})
    <3>1. Now \in (IF missed \/ configFile = Torn THEN {Now} ELSE {}) \cup InFile
      BY <2>3 DEF ConfigInvariant, NothingMissed, InFile, Now
    <3>2. QED BY <2>1, <2>3, <3>1 DEF configVars, InFile, Now
  <2>4. CASE node = "idle" /\ UNCHANGED configVars /\ Begin("body", label, method, {Now})
    BY <2>1, <2>4 DEF configVars, InFile, Now
  <2>5. CASE node = "load" /\ UNCHANGED configVars /\ Begin("refresh", label, method, {})
    BY <2>5 DEF configVars, InFile, Now
  <2>6. CASE node = "apply" /\ UNCHANGED configVars
             /\ Begin("refresh", label, method, {seen.next["capabilities"]})
    BY <2>1, <2>6 DEF configVars, InFile, Now
  <2>7. QED BY <2>2, <2>3, <2>4, <2>5, <2>6 DEF requestRefresh
<1>3. /\ peerCall'.pc = pc /\ peerCall'.may = InFile \cup may
      /\ peerCall' \in CallState
  BY <1>2, SectionType DEF Begin, NoCall, CallState
<1>4. CallKnows' /\ CallFollowsConfig'
  BY <1>2, <1>3 DEF CallKnows, InFlight, CallFollowsConfig
<1>5. QED BY <1>1, <1>3, <1>4

\* The checks of the call itself.
LEMMA JudgeStep ==
  ASSUME CallInvariant, refreshed \/ dshCallLocal \/ enqueueChecked
  PROVE  CallInvariant'
<1> USE DEF CallInvariant
<1>1. ConfigInvariant' /\ UNCHANGED configVars
  BY ConfigStep DEF refreshed, dshCallLocal, enqueueChecked
<1>2. UNCHANGED <<node, InFile, seen, Now>>
  BY <1>1 DEF configVars, InFile, Now
<1>3. InFlight /\ CallKnows
  BY DEF InFlight, refreshed, dshCallLocal, enqueueChecked
<1>4. CASE refreshed
  <2>1. peerCall' = [peerCall EXCEPT !.pc = "body"]
    BY <1>4 DEF refreshed
  <2>2. peerCall' \in CallState /\ peerCall'.pc = "body" /\ peerCall'.may = peerCall.may
    BY <2>1 DEF CallState
  <2>3. CallKnows' /\ CallFollowsConfig'
    BY <1>2, <1>3, <1>4, <2>2 DEF CallKnows, InFlight, CallFollowsConfig, refreshed
  <2>4. QED BY <1>1, <2>2, <2>3
<1>5. CASE dshCallLocal
  <2>1. /\ peerCall' \in CallState /\ peerCall'.may = peerCall.may /\ peerCall'.queue = peerCall.queue
        /\ peerCall'.label = peerCall.label /\ peerCall'.method = peerCall.method
        /\ peerCall'.pc = IF AllowedBy(Now) THEN "enqueue" ELSE "refused"
    BY <1>5 DEF dshCallLocal, CallState
  <2>2. Now \in peerCall.may
    BY <1>3, <1>5 DEF CallKnows, dshCallLocal
  <2>3. \A e : AllowedBy(e)' <=> AllowedBy(e)
    BY <2>1 DEF AllowedBy
  <2>4. CallKnows' /\ CallFollowsConfig'
    BY <1>2, <1>3, <2>1, <2>2, <2>3 DEF CallKnows, InFlight, CallFollowsConfig
  <2>5. QED BY <1>1, <2>1, <2>4
<1>6. CASE enqueueChecked
  <2>1. parts["capabilities"] \in Int
    BY SectionType
  <2>2. /\ peerCall' \in CallState /\ peerCall'.may = peerCall.may /\ peerCall'.queue = {parts["capabilities"]}
        /\ peerCall'.label = peerCall.label /\ peerCall'.method = peerCall.method
        /\ peerCall'.pc = IF AllowedBy(parts["capabilities"]) THEN "queued" ELSE "refused"
    BY <1>6, <2>1 DEF enqueueChecked, CallState
  <2>3. \E e \in peerCall.may : AllowedBy(e)
    BY <1>3, <1>6 DEF CallKnows, enqueueChecked
  <2>4. \A e : AllowedBy(e)' <=> AllowedBy(e)
    BY <2>2 DEF AllowedBy
  <2>5. CallKnows' /\ CallFollowsConfig'
    BY <2>2, <2>3, <2>4 DEF CallKnows, InFlight, CallFollowsConfig
  <2>6. QED BY <1>1, <2>2, <2>5
<1>7. QED BY <1>4, <1>5, <1>6

\* What a stutter leaves.
LEMMA CallStutter == ASSUME CallInvariant, UNCHANGED callVars PROVE CallInvariant'
<1>1. ConfigInvariant' /\ UNCHANGED configVars
  BY ConfigStutter DEF CallInvariant, callVars
<1>2. UNCHANGED <<node, InFile, seen, Now, peerCall>>
  BY <1>1 DEF configVars, callVars, InFile, Now
<1>3. QED BY <1>1, <1>2 DEF CallInvariant, CallKnows, InFlight, CallFollowsConfig, AllowedBy

\* For any policies, edits and interleavings: a call is queued or refused by a config it
\* may be judged by, or refused by what the queue has (dshCallLocal, enqueue).
THEOREM CallsFollowConfig == CallSpec => []CallFollowsConfig
<1>1. CallInvariant /\ [CallNext]_callVars => CallInvariant'
  BY GoesOnStep, RefreshStep, JudgeStep, CallStutter DEF CallNext
<1>2. CallInvariant => CallFollowsConfig
  BY DEF CallInvariant
<1>3. QED BY <1>1, <1>2, CallInitInvariant, PTL DEF CallSpec

-----------------------------------------------------------------------------
(***************************************************************************)
(* Proofs about StateFile, for any records, processes and calls.           *)
(***************************************************************************)
Contents == [read : SUBSET Record, delivery : [Record -> Nat]]

SavingCall == [pc : {"idle", "save", "write", "rename"}, read : SUBSET Record,
              delivery : SUBSET Record, at : Nat]

\* A state.json, or a torn one.
FileBody == {TornFile} \cup {<<x>> : x \in Contents}

\* What the variables hold.
StoreTypeOK ==
  /\ stateFile \in FileBody
  /\ temp \in [Opener -> {<<>>} \cup {<<x>> : x \in FileBody}]
  /\ loaded \in [Opener -> Contents]
  /\ call \in [Call -> SavingCall]
  /\ truth \in Contents /\ time \in Nat /\ savesOverlapped \in BOOLEAN

\* y has all that x has, and nothing older.
Covers(y, x) ==
  x.read \subseteq y.read /\ \A m \in Record : x.delivery[m] <= y.delivery[m]

\* y has the change of call c, or a later one.
HasChange(y, c) == c.read \subseteq y.read /\ \A m \in c.delivery : c.at <= y.delivery[m]

\* No stamp in x is of the future.
Recent(x) == \A m \in Record : x.delivery[m] <= time

\* What a call in progress is about to write: its memory, or the temporary file.
SaveKnows(c) ==
  LET p == opener[c] IN
  /\ call[c].pc \in {"save", "write"} => HasChange(loaded[p], call[c])
  /\ call[c].pc = "write" => Covers(loaded[p], truth) /\ temp[p] # <<>>
  /\ call[c].pc = "rename" =>
       \E x \in Contents : temp[p] = <<(<<x>>)>> /\ Covers(x, truth) /\ HasChange(x, call[c]) /\ Recent(x)

\* The inductive form of SavedIsKept.
SavesAreSafe ==
  /\ \A c, d \in Saving : c = d
  /\ \A c \in Call : SaveKnows(c) /\ call[c].at <= time
  /\ \A p \in Opener : Recent(loaded[p])
  /\ \E x \in Contents : stateFile = <<x>> /\ Covers(x, truth) /\ Recent(x)

StoreInvariant == StoreTypeOK /\ (~savesOverlapped => SavesAreSafe)

-----------------------------------------------------------------------------
(* What the operators of StateFile return.                                 *)

\* The state without records is a state.
LEMMA EmptyType == Empty \in Contents
BY DEF Empty, Contents

\* mergeState has all that its arguments have.
LEMMA MergeCovers ==
  ASSUME NEW x \in Contents, NEW y \in Contents
  PROVE  /\ mergeState(x, y) \in Contents
         /\ Covers(mergeState(x, y), x) /\ Covers(mergeState(x, y), y)
BY DEF mergeState, Contents, Covers, Later

\* A call's change is in what is changed; the rest is not older.
LEMMA ChangedType ==
  ASSUME NEW x \in Contents, NEW c \in SavingCall
  PROVE  /\ Changed(x, c) \in Contents /\ HasChange(Changed(x, c), c)
         /\ x.read \subseteq Changed(x, c).read
         /\ \A m \in Record \ c.delivery : Changed(x, c).delivery[m] = x.delivery[m]
BY DEF Changed, Contents, SavingCall, HasChange

\* Covers is transitive.
LEMMA CoversTransitive ==
  ASSUME NEW x \in Contents, NEW y \in Contents, NEW z \in Contents, Covers(x, y), Covers(y, z)
  PROVE  Covers(x, z)
BY DEF Covers, Contents

\* Who covers a state with a change has the change.
LEMMA CoversChange ==
  ASSUME NEW x \in Contents, NEW y \in Contents, NEW c \in SavingCall, Covers(x, y), HasChange(y, c)
  PROVE  HasChange(x, c)
BY DEF Covers, HasChange, Contents, SavingCall

\* What covers the truth and has a change covers the truth with this change.
LEMMA CoversTruth ==
  ASSUME NEW x \in Contents, NEW y \in Contents, NEW c \in SavingCall, Covers(x, y), HasChange(x, c)
  PROVE  Covers(x, mergeState(y, Changed(y, c)))
<1>1. ASSUME NEW m \in Record
      PROVE  mergeState(y, Changed(y, c)).delivery[m] <= x.delivery[m]
  BY DEF Covers, HasChange, Contents, SavingCall, mergeState, Changed, Later
<1>2. mergeState(y, Changed(y, c)).read \subseteq x.read
  BY DEF Covers, HasChange, Contents, SavingCall, mergeState, Changed
<1>3. QED BY <1>1, <1>2 DEF Covers

\* _loadState has what the process and the file have.
LEMMA LoadCovers ==
  ASSUME StoreTypeOK, NEW p \in Opener
  PROVE  /\ _loadState(p) \in Contents /\ Covers(_loadState(p), loaded[p])
         /\ \A x \in Contents : stateFile = <<x>> => Covers(_loadState(p), x)
<1>1. loaded[p] \in Contents
  BY DEF StoreTypeOK
<1>2. CASE stateFile = TornFile
  BY <1>1, <1>2, EmptyType, MergeCovers DEF _loadState, TornFile
<1>3. ASSUME NEW x \in Contents, stateFile = <<x>>
      PROVE  /\ _loadState(p) \in Contents /\ Covers(_loadState(p), loaded[p])
             /\ \A y \in Contents : stateFile = <<y>> => Covers(_loadState(p), y)
  <2>1. stateFile # TornFile /\ stateFile[1] = x
    BY <1>3 DEF TornFile
  <2>2. _loadState(p) = mergeState(loaded[p], x)
    BY <2>1 DEF _loadState
  <2>3. \A y \in Contents : stateFile = <<y>> => y = x
    BY <1>3
  <2>4. QED BY <1>1, <2>2, <2>3, MergeCovers
<1>4. QED BY <1>2, <1>3 DEF StoreTypeOK, FileBody

\* And nothing of the future.
LEMMA LoadRecent ==
  ASSUME StoreTypeOK, SavesAreSafe, NEW p \in Opener
  PROVE  Recent(_loadState(p))
<1>1. PICK x \in Contents : stateFile = <<x>> /\ Recent(x)
  BY DEF SavesAreSafe
<1>2. stateFile # TornFile /\ stateFile[1] = x
  BY <1>1 DEF TornFile
<1>3. _loadState(p) = mergeState(loaded[p], x) /\ Recent(loaded[p])
  BY <1>2 DEF _loadState, SavesAreSafe
<1>4. QED BY <1>1, <1>3 DEF Recent, mergeState, Later

\* A change that is newer than what it changes loses nothing.
LEMMA ChangedCovers ==
  ASSUME NEW x \in Contents, NEW c \in SavingCall, \A m \in Record : x.delivery[m] <= c.at
  PROVE  Covers(Changed(x, c), x)
BY DEF Changed, Covers, Contents, SavingCall

\* A call that has not started has the form of one.
LEMMA IdleCallType == IdleCall \in SavingCall /\ IdleCall.pc = "idle" /\ IdleCall.at = 0
BY DEF IdleCall, SavingCall

-----------------------------------------------------------------------------
\* What the invariant says of the file is what is to be shown.
LEMMA InvariantImpliesSavedIsKept == ASSUME StoreInvariant PROVE SavedIsKept
<1> SUFFICES ASSUME ~savesOverlapped
             PROVE  /\ stateFile # TornFile
                    /\ truth.read \subseteq stateFile[1].read
                    /\ \A m \in Record : truth.delivery[m] <= stateFile[1].delivery[m]
  BY DEF SavedIsKept
<1>1. PICK x \in Contents : stateFile = <<x>> /\ Covers(x, truth)
  BY DEF StoreInvariant, SavesAreSafe
<1>2. stateFile # TornFile /\ stateFile[1] = x
  BY <1>1 DEF TornFile
<1>3. QED BY <1>1, <1>2 DEF Covers

\* The empty file and processes that have not started satisfy the invariant.
LEMMA StoreInitInvariant == StoreInit => StoreInvariant
<1> SUFFICES ASSUME StoreInit PROVE StoreInvariant
  OBVIOUS
<1> USE DEF StoreInit
<1>1. StoreTypeOK
  BY EmptyType, IdleCallType DEF StoreTypeOK, FileBody
<1>2. Covers(Empty, Empty) /\ Recent(Empty)
  BY DEF Covers, Recent, Empty
<1>3. SavesAreSafe
  BY <1>2, EmptyType, IdleCallType DEF SavesAreSafe, Saving, SaveKnows
<1>4. QED BY <1>1, <1>3 DEF StoreInvariant

\* A call loads, and changes what it has loaded.
LEMMA ChangeStep ==
  ASSUME StoreInvariant, NEW c \in Call, NEW read \in SUBSET Record,
         NEW delivery \in SUBSET Record, change(c, read, delivery)
  PROVE  StoreInvariant'
<1> DEFINE p == opener[c]
           new == [pc |-> "save", read |-> read, delivery |-> delivery, at |-> time']
           x == _loadState(p)
<1> USE DEF StoreInvariant
<1>1. p \in Opener
  BY StoreAssumption
<1>2. time' = time + 1 /\ time' \in Nat /\ time \in Nat /\ new \in SavingCall
  BY DEF change, StoreTypeOK, SavingCall
<1>3. /\ call' \in [Call -> SavingCall] /\ call'[c] = new
      /\ \A d \in Call \ {c} : call'[d] = call[d]
  BY <1>2 DEF change, StoreTypeOK
<1>4. x \in Contents /\ Covers(x, loaded[p])
  BY <1>1, LoadCovers
<1>5. Changed(x, new) \in Contents /\ HasChange(Changed(x, new), new)
  BY <1>2, <1>4, ChangedType
<1>6. /\ loaded' \in [Opener -> Contents] /\ loaded'[p] = Changed(x, new)
      /\ \A q \in Opener \ {p} : loaded'[q] = loaded[q]
  BY <1>1, <1>3, <1>5 DEF change, StoreTypeOK
<1>7. UNCHANGED <<stateFile, temp, truth, savesOverlapped>>
  BY DEF change
<1>8. StoreTypeOK'
  BY <1>2, <1>3, <1>6, <1>7 DEF StoreTypeOK, FileBody, Contents
<1>9. ASSUME SavesAreSafe PROVE SavesAreSafe'
  <2>1. Recent(x)
    BY <1>1, <1>9, LoadRecent
  <2>2. Covers(Changed(x, new), x) /\ Covers(Changed(x, new), loaded[p])
    <3>1. \A m \in Record : x.delivery[m] <= new.at
      BY <1>2, <1>4, <2>1 DEF Recent, Contents
    <3>2. Covers(Changed(x, new), x)
      BY <1>2, <1>4, <3>1, ChangedCovers
    <3>3. loaded[p] \in Contents
      BY <1>1 DEF StoreTypeOK
    <3>4. QED BY <1>4, <1>5, <3>2, <3>3, CoversTransitive
  <2>3. \A d \in Call : call[d].at <= time /\ call'[d].at <= time'
    <3>1. \A d \in Call : call[d].at <= time /\ call[d].at \in Nat
      BY <1>9 DEF SavesAreSafe, StoreTypeOK, SavingCall
    <3>2. new.at = time'
      OBVIOUS
    <3>3. QED BY <1>2, <1>3, <3>1, <3>2
  <2>4. \A q \in Opener : Recent(loaded[q])'
    <3>1. \A m \in Record : Changed(x, new).delivery[m] <= time'
      BY <1>2, <1>4, <2>1 DEF Changed, Recent, Contents, SavingCall
    <3>2. \A q \in Opener \ {p} : \A m \in Record : loaded[q].delivery[m] <= time'
      BY <1>2, <1>9 DEF SavesAreSafe, Recent, StoreTypeOK, Contents
    <3>3. QED BY <1>6, <3>1, <3>2 DEF Recent
  <2>5. \A y \in Contents : Recent(y) => Recent(y)'
    BY <1>2 DEF Recent, Contents
  <2>6. ASSUME NEW d \in Call PROVE SaveKnows(d)'
    <3>1. CASE d = c
      BY <1>3, <1>5, <1>6, <3>1 DEF SaveKnows
    <3>2. CASE d # c
      <4>1. call'[d] = call[d] /\ call[d] \in SavingCall /\ opener[d] \in Opener /\ SaveKnows(d)
        BY <1>3, <1>9, <3>2, StoreAssumption DEF SavesAreSafe, StoreTypeOK
      <4>2. Covers(loaded'[opener[d]], loaded[opener[d]])
        <5>1. CASE opener[d] = p
          BY <1>6, <2>2, <5>1
        <5>2. CASE opener[d] # p
          BY <1>6, <4>1, <5>2 DEF Covers, StoreTypeOK, Contents
        <5>3. QED BY <5>1, <5>2
      <4>3. loaded[opener[d]] \in Contents /\ loaded'[opener[d]] \in Contents /\ truth \in Contents
        BY <1>6, <4>1 DEF StoreTypeOK
      <4>4. call[d].pc \in {"save", "write"} => HasChange(loaded'[opener[d]], call[d])
        BY <4>1, <4>2, <4>3, CoversChange DEF SaveKnows
      <4>5. call[d].pc = "write" => Covers(loaded'[opener[d]], truth) /\ temp[opener[d]] # <<>>
        BY <4>1, <4>2, <4>3, CoversTransitive DEF SaveKnows
      <4>6. QED BY <1>7, <2>5, <4>1, <4>4, <4>5 DEF SaveKnows
    <3>3. QED BY <3>1, <3>2
  <2>7. Saving' \subseteq Saving
    BY <1>3 DEF Saving
  <2>8. QED BY <1>7, <1>9, <2>3, <2>4, <2>5, <2>6, <2>7 DEF SavesAreSafe
<1>10. QED BY <1>7, <1>8, <1>9

\* A save merges once more and opens its temporary file; no other is in progress.
LEMMA BeginSaveStep == ASSUME StoreInvariant, NEW c \in Call, _saveState(c) PROVE StoreInvariant'
<1> DEFINE p == opener[c]
           x == _loadState(p)
<1> USE DEF StoreInvariant
<1>1. p \in Opener /\ x \in Contents /\ Covers(x, loaded[p]) /\ loaded[p] \in Contents
  BY LoadCovers, StoreAssumption DEF StoreTypeOK
<1>2. /\ loaded' \in [Opener -> Contents] /\ loaded'[p] = x
      /\ \A q \in Opener \ {p} : loaded'[q] = loaded[q]
  BY <1>1 DEF _saveState, StoreTypeOK
<1>3. /\ temp' \in [Opener -> {<<>>} \cup {<<y>> : y \in FileBody}] /\ temp'[p] = <<TornFile>>
      /\ \A q \in Opener \ {p} : temp'[q] = temp[q]
  BY <1>1 DEF _saveState, StoreTypeOK, FileBody
<1>4. /\ call' \in [Call -> SavingCall] /\ call[c].pc = "save"
      /\ call'[c] = [call[c] EXCEPT !.pc = "write"]
      /\ \A d \in Call \ {c} : call'[d] = call[d]
  BY DEF _saveState, StoreTypeOK, SavingCall
<1>5. UNCHANGED <<stateFile, truth, time>> /\ savesOverlapped' = (savesOverlapped \/ Saving # {})
  BY DEF _saveState
<1>6. StoreTypeOK'
  BY <1>2, <1>3, <1>4, <1>5 DEF StoreTypeOK
<1>7. ASSUME ~savesOverlapped' PROVE SavesAreSafe'
  <2>1. SavesAreSafe /\ Saving = {}
    BY <1>5, <1>7
  <2>2. PICK y \in Contents : stateFile = <<y>> /\ Covers(y, truth) /\ Recent(y)
    BY <2>1 DEF SavesAreSafe
  <2>3. Covers(x, truth) /\ Recent(x)
    <3>1. Covers(x, y)
      BY <1>1, <2>2, LoadCovers
    <3>2. QED BY <1>1, <2>1, <2>2, <3>1, CoversTransitive, LoadRecent DEF StoreTypeOK
  <2>4. ASSUME NEW d \in Call PROVE SaveKnows(d)' /\ call'[d].at <= time'
    <3>1. call[d] \in SavingCall /\ opener[d] \in Opener /\ SaveKnows(d) /\ call[d].at <= time
      BY <2>1, StoreAssumption DEF SavesAreSafe, StoreTypeOK
    <3>2. d # c => call[d].pc \in {"idle", "save"} /\ call'[d] = call[d]
      BY <1>4, <2>1, <3>1 DEF Saving, SavingCall
    <3>3. call[d].pc = "save" => HasChange(loaded'[opener[d]], call[d])
      <4>1. CASE opener[d] = p
        BY <1>1, <1>2, <3>1, <4>1, CoversChange DEF SaveKnows
      <4>2. CASE opener[d] # p
        BY <1>2, <3>1, <4>2 DEF SaveKnows
      <4>3. QED BY <4>1, <4>2
    <3>4. CASE d # c
      BY <1>5, <3>1, <3>2, <3>3, <3>4 DEF SaveKnows
    <3>5. CASE d = c
      <4>1. /\ call'[c].pc = "write" /\ call'[c].read = call[c].read /\ call'[c].at = call[c].at
            /\ call'[c].delivery = call[c].delivery
        BY <1>4, <3>1, <3>5 DEF SavingCall
      <4>2. HasChange(x, call'[c])
        BY <1>2, <1>4, <3>3, <3>5, <4>1 DEF HasChange
      <4>3. temp'[p] # <<>>
        BY <1>3 DEF TornFile
      <4>4. QED BY <1>2, <1>5, <2>3, <3>1, <3>5, <4>1, <4>2, <4>3 DEF SaveKnows
    <3>6. QED BY <3>4, <3>5
  <2>5. \A q \in Opener : Recent(loaded[q])'
    BY <1>2, <1>5, <2>1, <2>3 DEF SavesAreSafe, Recent
  <2>6. \A d, e \in Saving' : d = e
    BY <1>4, <2>1 DEF Saving
  <2>7. Covers(y, truth)' /\ Recent(y)'
    BY <1>5, <2>2 DEF Covers, Recent
  <2>8. QED BY <1>5, <2>2, <2>4, <2>5, <2>6, <2>7 DEF SavesAreSafe
<1>8. QED BY <1>6, <1>7

\* The temporary file is written: while saves do not overlap it is still there.
LEMMA WriteStep == ASSUME StoreInvariant, NEW c \in Call, saveWrite(c) PROVE StoreInvariant'
<1> DEFINE p == opener[c]
           x == loaded[p]
<1> USE DEF StoreInvariant
<1>1. p \in Opener /\ x \in Contents /\ <<x>> \in FileBody
  BY StoreAssumption DEF StoreTypeOK, FileBody
<1>2. /\ call' \in [Call -> SavingCall] /\ call[c].pc = "write"
      /\ call'[c] = [call[c] EXCEPT !.pc = "rename"]
      /\ \A d \in Call \ {c} : call'[d] = call[d]
  BY DEF saveWrite, StoreTypeOK, SavingCall
<1>3. UNCHANGED <<loaded, truth, time, savesOverlapped>>
  BY DEF saveWrite
<1>4. StoreTypeOK'
  <2>1. stateFile' \in FileBody /\ temp' \in [Opener -> {<<>>} \cup {<<y>> : y \in FileBody}]
    BY <1>1 DEF saveWrite, StoreTypeOK
  <2>2. QED BY <1>2, <1>3, <2>1 DEF StoreTypeOK
<1>5. ASSUME SavesAreSafe PROVE SavesAreSafe'
  <2>1. /\ SaveKnows(c) /\ call[c].at <= time /\ call[c] \in SavingCall
        /\ \A d \in Call \ {c} : call[d].pc \in {"idle", "save"}
    BY <1>2, <1>5 DEF SavesAreSafe, Saving, StoreTypeOK, SavingCall
  <2>2. HasChange(x, call[c]) /\ Covers(x, truth) /\ Recent(x) /\ temp[p] # <<>>
    BY <1>1, <1>2, <1>5, <2>1 DEF SaveKnows, SavesAreSafe
  <2>3. /\ temp' = [temp EXCEPT ![p] = <<(<<x>>)>>] /\ temp'[p] = <<(<<x>>)>>
        /\ stateFile' = stateFile
    BY <1>1, <2>2 DEF saveWrite, StoreTypeOK
  <2>4. /\ call'[c].pc = "rename" /\ call'[c].at = call[c].at /\ HasChange(x, call'[c])
    BY <1>2, <2>1, <2>2 DEF HasChange, SavingCall
  <2>5. SaveKnows(c)'
    <3>1. Covers(x, truth)' /\ Recent(x)'
      BY <1>3, <2>2 DEF Covers, Recent
    <3>2. HasChange(x, call[c])'
      BY <1>3, <2>4 DEF HasChange
    <3>3. QED BY <1>1, <1>3, <2>3, <2>4, <3>1, <3>2 DEF SaveKnows
  <2>6. ASSUME NEW d \in Call \ {c} PROVE SaveKnows(d)' /\ call'[d].at <= time'
    BY <1>2, <1>3, <1>5, <2>1 DEF SaveKnows, SavesAreSafe
  <2>7. \A d, e \in Saving' : d = e
    BY <1>2, <2>1 DEF Saving
  <2>8. \A q \in Opener : Recent(loaded[q])'
    BY <1>3, <1>5 DEF SavesAreSafe, Recent
  <2>9. \E y \in Contents : stateFile' = <<y>> /\ Covers(y, truth)' /\ Recent(y)'
    BY <1>3, <1>5, <2>3 DEF SavesAreSafe, Recent, Covers
  <2>10. QED BY <1>3, <2>1, <2>4, <2>5, <2>6, <2>7, <2>8, <2>9 DEF SavesAreSafe
<1>6. QED BY <1>3, <1>4, <1>5

\* The rename puts in place what has all that was saved, and the change of the call.
LEMMA RenameStep == ASSUME StoreInvariant, NEW c \in Call, saveRename(c) PROVE StoreInvariant'
<1> DEFINE p == opener[c]
           new == mergeState(truth, Changed(truth, call[c]))
<1> USE DEF StoreInvariant
<1>1. p \in Opener /\ call[c] \in SavingCall /\ truth \in Contents
  BY StoreAssumption DEF StoreTypeOK
<1>2. new \in Contents
  BY <1>1, ChangedType, MergeCovers
<1>3. /\ call' \in [Call -> SavingCall] /\ call[c].pc = "rename" /\ call'[c] = IdleCall
      /\ \A d \in Call \ {c} : call'[d] = call[d]
  BY IdleCallType DEF saveRename, StoreTypeOK
<1>4. UNCHANGED <<loaded, time, savesOverlapped>>
  BY DEF saveRename
<1>5. StoreTypeOK'
  <2>1. stateFile' \in FileBody /\ temp' \in [Opener -> {<<>>} \cup {<<y>> : y \in FileBody}]
    <3>1. CASE temp[p] = <<>>
      BY <3>1 DEF saveRename, StoreTypeOK
    <3>2. CASE temp[p] # <<>>
      <4>1. PICK y \in FileBody : temp[p] = <<y>>
        BY <1>1, <3>2 DEF StoreTypeOK
      <4>2. QED BY <1>1, <3>2, <4>1 DEF saveRename, StoreTypeOK
    <3>3. QED BY <3>1, <3>2
  <2>2. truth' \in Contents
    BY <1>1, <1>2 DEF saveRename
  <2>3. QED BY <1>3, <1>4, <2>1, <2>2 DEF StoreTypeOK
<1>6. ASSUME SavesAreSafe PROVE SavesAreSafe'
  <2>1. /\ SaveKnows(c)
        /\ \A d \in Call \ {c} : call[d].pc \in {"idle", "save"} /\ SaveKnows(d)
    BY <1>3, <1>6 DEF SavesAreSafe, Saving, StoreTypeOK, SavingCall
  <2>2. PICK x \in Contents :
          temp[p] = <<(<<x>>)>> /\ Covers(x, truth) /\ HasChange(x, call[c]) /\ Recent(x)
    BY <1>3, <2>1 DEF SaveKnows
  <2>3. stateFile' = <<x>> /\ truth' = new
    BY <2>2 DEF saveRename
  <2>4. Covers(x, truth') /\ Recent(x)'
    BY <1>1, <1>4, <2>2, <2>3, CoversTruth DEF Recent
  <2>5. \A d \in Call : SaveKnows(d)' /\ call'[d].at <= time'
    BY <1>3, <1>4, <1>6, <2>1, IdleCallType DEF SaveKnows, SavesAreSafe, StoreTypeOK
  <2>6. \A d, e \in Saving' : d = e
    BY <1>3, <2>1, IdleCallType DEF Saving
  <2>7. \A q \in Opener : Recent(loaded[q])'
    BY <1>4, <1>6 DEF SavesAreSafe, Recent
  <2>8. Covers(x, truth)'
    BY <2>4 DEF Covers
  <2>9. QED BY <2>3, <2>4, <2>5, <2>6, <2>7, <2>8 DEF SavesAreSafe
<1>7. QED BY <1>4, <1>5, <1>6

\* The end of a process takes only what it had not saved.
LEMMA QuitStep == ASSUME StoreInvariant, NEW p \in Opener, quit(p) PROVE StoreInvariant'
<1> USE DEF StoreInvariant
<1>1. /\ loaded' \in [Opener -> Contents] /\ loaded'[p] = Empty
      /\ \A q \in Opener \ {p} : loaded'[q] = loaded[q]
  BY EmptyType DEF quit, StoreTypeOK
<1>2. /\ call' \in [Call -> SavingCall]
      /\ \A d \in Call : call'[d] = IF opener[d] = p THEN IdleCall ELSE call[d]
  BY IdleCallType DEF quit, StoreTypeOK
<1>3. UNCHANGED <<stateFile, temp, truth, time, savesOverlapped>>
  BY DEF quit
<1>4. StoreTypeOK'
  BY <1>1, <1>2, <1>3 DEF StoreTypeOK
<1>5. ASSUME SavesAreSafe PROVE SavesAreSafe'
  <2>1. time \in Nat /\ \A m \in Record : Empty.delivery[m] = 0
    BY DEF StoreTypeOK, Empty
  <2>2. \A q \in Opener : Recent(loaded[q])'
    BY <1>1, <1>3, <1>5, <2>1 DEF SavesAreSafe, Recent
  <2>3. ASSUME NEW d \in Call PROVE SaveKnows(d)' /\ call'[d].at <= time'
    <3>1. CASE opener[d] = p
      BY <1>2, <1>3, <2>1, <3>1, IdleCallType DEF SaveKnows
    <3>2. CASE opener[d] # p
      <4>1. call'[d] = call[d] /\ loaded'[opener[d]] = loaded[opener[d]] /\ SaveKnows(d) /\ call[d].at <= time
        BY <1>1, <1>2, <1>5, <3>2, StoreAssumption DEF SavesAreSafe
      <4>2. QED BY <1>3, <4>1 DEF SaveKnows, Covers, HasChange, Recent
    <3>3. QED BY <3>1, <3>2
  <2>4. \A d, e \in Saving' : d = e
    BY <1>2, <1>5, IdleCallType DEF Saving, SavesAreSafe
  <2>5. \E y \in Contents : stateFile' = <<y>> /\ Covers(y, truth)' /\ Recent(y)'
    BY <1>3, <1>5 DEF SavesAreSafe, Covers, Recent
  <2>6. QED BY <2>2, <2>3, <2>4, <2>5 DEF SavesAreSafe
<1>6. QED BY <1>3, <1>4, <1>5

\* What a stutter leaves.
LEMMA StoreStutter == ASSUME StoreInvariant, UNCHANGED storeVars PROVE StoreInvariant'
BY DEF StoreInvariant, storeVars, StoreTypeOK, SavesAreSafe, Saving, SaveKnows, Covers, Recent,
       HasChange

-----------------------------------------------------------------------------
\* The invariant holds for any records, processes and calls.
THEOREM StoreInvariantHolds == StoreSpec => []StoreInvariant
<1>1. ASSUME StoreInvariant, StoreNext PROVE StoreInvariant'
  <2>1. ASSUME NEW c \in Call, NEW m \in Record, markRead(c, {m}) PROVE StoreInvariant'
    <3>1. {m} \in SUBSET Record /\ {} \in SUBSET Record /\ change(c, {m}, {})
      BY <2>1 DEF markRead
    <3>2. QED BY <1>1, <3>1, ChangeStep
  <2>2. ASSUME NEW c \in Call, NEW m \in Record, setState(c, m) PROVE StoreInvariant'
    <3>1. {m} \in SUBSET Record /\ {} \in SUBSET Record /\ change(c, {}, {m})
      BY <2>2 DEF setState
    <3>2. QED BY <1>1, <3>1, ChangeStep
  <2>3. QED BY <1>1, <2>1, <2>2, BeginSaveStep, WriteStep, RenameStep, QuitStep DEF StoreNext
<1>2. StoreInvariant /\ [StoreNext]_storeVars => StoreInvariant'
  BY <1>1, StoreStutter
<1>3. QED BY <1>2, StoreInitInvariant, PTL DEF StoreSpec

\* While no two saves overlap, what has been saved is never lost or made older,
\* whichever processes load, merge, save and end (mergeState, _saveState).
THEOREM SavedIsAlwaysKept == StoreSpec => []SavedIsKept
<1>1. StoreInvariant => SavedIsKept
  BY InvariantImpliesSavedIsKept
<1>2. QED BY <1>1, StoreInvariantHolds, PTL
=============================================================================
