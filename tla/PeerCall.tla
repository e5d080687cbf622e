------------------------------- MODULE PeerCall -------------------------------
(***************************************************************************)
(* A capability call of a peer meets a config that changes (POST /dsh/call *)
(* in src/server.mjs, dshCallLocal in src/ops.mjs, authorizeCall and       *)
(* enqueue in src/capabilities.mjs): the request first looks for edits,    *)
(* then it is checked against the config object, and again against the     *)
(* policy of the queue, which onReload does not reach.  Calls share none   *)
(* of this, so one is followed.                                            *)
(***************************************************************************)
EXTENDS ConfigReload

CONSTANTS
  KNOWN_METHODS, \* the catalog
  DefaultMethods,\* CAPABILITY_DEFAULTS.methods
  Label,         \* labels of the tokens peers call with
  Asked,         \* the methods they ask for, known or not
  capabilities   \* the section that each edit writes, as it is in the file

ASSUME CallAssumption ==
  /\ DefaultMethods \subseteq KNOWN_METHODS
  /\ DOMAIN capabilities = 0..MaxEdits

VARIABLE
  peerCall  \* where the call is; may: the sections it may be judged by, and queue:
            \* the one the queue had (history)

callVars == <<configVars, peerCall>>

NoCall == [pc |-> "none", label |-> "-", method |-> "-", may |-> {}, queue |-> {}]

CallInit == ConfigInit /\ peerCall = NoCall

-----------------------------------------------------------------------------
(* The policy.                                                             *)

\* A list is <<its entries>>, and <<>> what is not a list.
methodList(list, default) == IF list = <<>> THEN default ELSE list[1] \cap KNOWN_METHODS

normalizeCapabilityConfig(raw) ==
  [enabled |-> raw.enabled,
   methods |-> methodList(raw.methods, DefaultMethods),
   peers |-> [l \in DOMAIN raw.peers |->
               [allow |-> methodList(raw.peers[l].allow, {}),
                deny |-> methodList(raw.peers[l].deny, {})]]]

\* The list of a peer's entry, unless empty, stands for that of the node; what the
\* entry denies is denied.
authorizeCall(section, label, method) ==
  LET policy == normalizeCapabilityConfig(capabilities[section])
      scoped == label \in DOMAIN policy.peers
  IN /\ policy.enabled
     /\ method \in KNOWN_METHODS
     /\ ~(scoped /\ method \in policy.peers[label].deny)
     /\ method \in IF scoped /\ policy.peers[label].allow # {} THEN policy.peers[label].allow
                   ELSE policy.methods

AllowedBy(section) == authorizeCall(section, peerCall.label, peerCall.method)

-----------------------------------------------------------------------------
(* The request.                                                            *)

InFile == IF configFile = Torn THEN {} ELSE {configFile["capabilities"]}

Now == cfg["capabilities"]

Begin(pc, label, method, may) ==
  peerCall' = [NoCall EXCEPT !.pc = pc, !.label = label, !.method = method,
                             !.may = InFile \cup may]

\* The request starts a check, finds nothing to do, comes too soon after a check, or
\* waits for the one in progress, which may have read the file already.
requestRefresh(label, method) ==
  /\ peerCall = NoCall
  /\ \/ check /\ Begin("refresh", label, method, {})
     \/ node = "idle" /\ mtime = signature /\ UNCHANGED configVars
        /\ Begin("body", label, method, IF missed \/ configFile = Torn THEN {Now} ELSE {})
     \/ node = "idle" /\ UNCHANGED configVars /\ Begin("body", label, method, {Now})
     \/ node = "load" /\ UNCHANGED configVars /\ Begin("refresh", label, method, {})
     \/ node = "apply" /\ UNCHANGED configVars
        /\ Begin("refresh", label, method, {seen.next["capabilities"]})

refreshed ==
  /\ peerCall.pc = "refresh" /\ node = "idle"
  /\ peerCall' = [peerCall EXCEPT !.pc = "body"]
  /\ UNCHANGED configVars

\* Mutant: only the queue checks.
dshCallLocalUnchecked ==
  /\ peerCall.pc = "body"
  /\ peerCall' = [peerCall EXCEPT !.pc = "enqueue"]
  /\ UNCHANGED configVars

\* The body has come: the config object decides ...
dshCallLocal ==
  /\ peerCall.pc = "body"
  /\ peerCall' = [peerCall EXCEPT !.pc = IF AllowedBy(Now) THEN "enqueue" ELSE "refused"]
  /\ UNCHANGED configVars

\* ... and once the directory is there the policy the queue was given.  How the command is
\* counted and written is in CommandQueue.
enqueueChecked ==
  /\ peerCall.pc = "enqueue"
  /\ peerCall' = [peerCall EXCEPT
       !.pc = IF AllowedBy(parts["capabilities"]) THEN "queued" ELSE "refused",
       !.queue = {parts["capabilities"]}]
  /\ UNCHANGED configVars

\* The file and the node go on: what the file holds meanwhile may be what decides, and
\* what the node had when the load it waits for fails.  A request ends with its node.
configGoesOn ==
  /\ ConfigNext
  /\ peerCall' =
       IF peerCall.pc \notin {"refresh", "body", "enqueue"} THEN peerCall
       ELSE IF node' = "down" THEN NoCall
       ELSE [peerCall EXCEPT !.may =
               @ \cup InFile' \cup IF node = "load" /\ node' = "idle" THEN {Now} ELSE {}]

CallNext ==
  \/ configGoesOn
  \/ \E label \in Label, method \in Asked : requestRefresh(label, method)
  \/ refreshed \/ dshCallLocal \/ enqueueChecked

CallSpec == CallInit /\ [][CallNext]_callVars

-----------------------------------------------------------------------------
\* A command is queued only if it is allowed by what the file has held since its call
\* came, or by what the node had when the call came too soon for a check, joined one
\* that had read already, or its check failed: although the queue keeps the policy it
\* started with, what an edit forbids is refused from the next check on.  And a call is
\* refused only by one of these or by the policy of the queue (dshCallLocal, enqueue).
CallFollowsConfig ==
  /\ peerCall.pc = "queued" => \E e \in peerCall.may : AllowedBy(e)
  /\ peerCall.pc = "refused" => \E e \in peerCall.may \cup peerCall.queue : ~AllowedBy(e)
=============================================================================
