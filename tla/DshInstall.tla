------------------------------- MODULE DshInstall -------------------------------
(***************************************************************************)
(* dshlink install-dsh (src/pairing.mjs): the entries of the MCP client    *)
(* and of the bridge are written into a profile's patch file, which its    *)
(* owner edits too.  The file is read and the new one planned, the old one *)
(* is copied, and the file is written in place; the command may end at any *)
(* point, and be run again with other settings.                            *)
(***************************************************************************)
EXTENDS Integers, FiniteSets, Sequences, SequencesExt

CONSTANTS
  Url,       \* of MCP servers
  Settings,  \* of the bridge
  MaxItems, MaxOwnerEdits, MaxInstalls  \* of the file, by its owner, by the command (bounds)

ASSUME InstallAssumption == {MaxItems, MaxOwnerEdits, MaxInstalls} \subseteq Nat

VARIABLES
  patch,     \* cordis.patch.yml: <<its entries>>, <<>> when there is none
  backups,   \* the copies that have been made
  mine,      \* the file as its owner last left it (history)
  install,   \* the installation in progress or done
  ownerEdits, installs,
  editRaced      \* the owner saved the file behind the copy, or behind its absence (history)

installVars == <<patch, backups, mine, install, ownerEdits, installs, editRaced>>

NoBridge == "-"
NoUrl == "none"

\* managed: laid out as the command itself writes it, with the url behind the id.
Mcp(url) == [id |-> "mcp", with |-> url, managed |-> TRUE]
Bridge(settings) == [id |-> "bridge", with |-> settings, managed |-> TRUE]

NoInstall == [pc |-> "idle", url |-> NoBridge, bridge |-> NoBridge, exists |-> FALSE,
              content |-> <<>>, from |-> <<>>, written |-> 0, touched |-> FALSE]

InstallInit ==
  /\ patch = <<>> /\ backups = {} /\ mine = <<>>
  /\ install = NoInstall
  /\ ownerEdits = 0 /\ installs = 0 /\ editRaced = FALSE

-----------------------------------------------------------------------------
At(items, id) == {i \in DOMAIN items : items[i].id = id}

FirstOf(S) == CHOOSE i \in S : \A j \in S : i <= j

\* Mutant: the entry is added wherever it is not there with this url.
planMcpAdded(items, url) ==
  IF \E i \in At(items, "mcp") : items[i].with = url THEN items ELSE Append(items, Mcp(url))

\* A bridge has a nodeUrl, which is none.
HasUrl(item) == item.id # "bridge" /\ item.with # NoUrl

\* The entries with a url behind the first id of the MCP client.
Behind(items) ==
  LET i == FirstOf(At(items, "mcp")) IN
  {j \in DOMAIN items : HasUrl(items[j]) /\ (j > i \/ (j = i /\ items[i].managed))}

\* The entry and the url are each looked for in the whole file.
Unchanged(items, url) ==
  At(items, "mcp") # {} /\ \E i \in DOMAIN items : items[i].id # "bridge" /\ items[i].with = url

\* What is replaced is the next url behind the id, whosever it is.
planMcp(items, url) ==
  IF At(items, "mcp") = {} THEN Append(items, Mcp(url))
  ELSE IF Unchanged(items, url) \/ Behind(items) = {} THEN items
  ELSE [items EXCEPT ![FirstOf(Behind(items))].with = url]

\* An entry that is not laid out as written before is left as it is.
planBridge(items, settings) ==
  LET known == {i \in At(items, "bridge") : items[i].managed} IN
  IF settings = NoBridge THEN items
  ELSE IF At(items, "bridge") = {} THEN Append(items, Bridge(settings))
  ELSE IF known = {} THEN items
  ELSE [items EXCEPT ![FirstOf(known)] = Bridge(settings)]

planned(items, url, settings) == planBridge(planMcp(items, url), settings)

\* planDshInstall reads the file.
planDshInstall(url, settings) ==
  LET items == IF patch = <<>> THEN <<>> ELSE patch[1] IN
  /\ install.pc \in {"idle", "done"} /\ installs < MaxInstalls
  /\ installs' = installs + 1
  /\ install' = [NoInstall EXCEPT !.pc = "planned", !.url = url, !.bridge = settings,
       !.exists = patch # <<>>, !.content = planned(items, url, settings), !.from = items]
  /\ UNCHANGED <<patch, backups, mine, ownerEdits, editRaced>>

\* Mutant: what is only added to is not copied.
applyWithoutBackup ==
  /\ install.pc = "planned"
  /\ backups' = IF install.exists /\ Len(install.content) = Len(install.from)
                THEN backups \cup {patch[1]} ELSE backups
  /\ install' = [install EXCEPT !.pc = "write"]
  /\ UNCHANGED <<patch, mine, ownerEdits, installs, editRaced>>

\* applyDshInstall: nothing is to be changed; or, once the plan parses, what is there
\* by now is copied.
applyDshInstall ==
  /\ install.pc = "planned"
  /\ IF Unchanged(install.from, install.url) /\ install.bridge = NoBridge
     THEN install' = [install EXCEPT !.pc = "done"] /\ UNCHANGED backups
     ELSE /\ backups' = IF install.exists THEN backups \cup {patch[1]} ELSE backups
          /\ install' = [install EXCEPT !.pc = "write"]
  /\ UNCHANGED <<patch, mine, ownerEdits, installs, editRaced>>

\* The file is emptied, and written from its beginning.
write ==
  /\ install.pc \in {"write", "writing"}
  /\ LET n == install.written IN
     IF install.pc = "writing" /\ n = Len(install.content)
     THEN install' = [install EXCEPT !.pc = "done"] /\ UNCHANGED patch
     ELSE /\ patch' = <<SubSeq(install.content, 1, IF install.pc = "write" THEN 0 ELSE n + 1)>>
          /\ install' = [install EXCEPT !.pc = "writing",
                                        !.written = IF install.pc = "write" THEN 0 ELSE n + 1]
  /\ UNCHANGED <<backups, mine, ownerEdits, installs, editRaced>>

\* What has been written when an entry is cut off within its lines.
CutOff(items, n) == SubSeq(items, 1, n) \o <<[items[n + 1] EXCEPT !.with = NoUrl]>>

\* The plan does not parse, or the command is ended, which may cut an entry off.
interrupt ==
  /\ install.pc \in {"planned", "write", "writing"}
  /\ install' = NoInstall
  /\ \/ UNCHANGED patch
     \/ /\ install.pc = "writing" /\ install.written < Len(install.content)
        /\ patch' = <<CutOff(install.content, install.written)>>
  /\ UNCHANGED <<backups, mine, ownerEdits, installs, editRaced>>

\* The owner saves the file: entries come, go, are laid out in another way or lose
\* their url (another transport).
Save(items) ==
  /\ ownerEdits < MaxOwnerEdits /\ Len(items) <= MaxItems
  /\ ownerEdits' = ownerEdits + 1
  /\ patch' = <<items>> /\ mine' = <<items>>
  /\ install' = [install EXCEPT !.touched = TRUE]
  /\ editRaced' = (editRaced \/ install.pc \in {"write", "writing"}
                     \/ (install.pc = "planned" /\ ~install.exists))
  /\ UNCHANGED <<backups, installs>>

edit ==
  LET items == IF patch = <<>> THEN <<>> ELSE patch[1] IN
  \/ \E u \in Url : Save(Append(items, [id |-> "other", with |-> u, managed |-> FALSE]))
  \/ \E i \in DOMAIN items :
       \/ Save(RemoveAt(items, i)) \/ Save([items EXCEPT ![i].managed = FALSE])
       \/ HasUrl(items[i]) /\ Save([items EXCEPT ![i].with = NoUrl])

InstallNext ==
  \/ \E u \in Url, b \in Settings \cup {NoBridge} : planDshInstall(u, b)
  \/ applyDshInstall \/ write \/ interrupt \/ edit

InstallSpec == InstallInit /\ [][InstallNext]_installVars

-----------------------------------------------------------------------------
\* Whatever ends the command at whatever point, the file as its owner last left it is
\* there or has been copied; unless it was saved between the copy and the write.
NothingLost ==
  ~editRaced /\ mine # <<>> => mine = patch \/ mine[1] \in backups

\* What is rewritten is the entry of the MCP client, or there is none yet.
OwnUrl(items) == At(items, "mcp") = {} \/ FirstOf(At(items, "mcp")) \in Behind(items)

\* An installation that has ended, on a file nobody touched meanwhile, has one entry of
\* the MCP client and the bridge's settings where it has found none or its own, and
\* would not change the file again.  With the client's url behind its id it has set
\* that one and no other entry; otherwise it may have rewritten one other entry, of a
\* file that it has copied (planDshInstall).
InstallSettles ==
  install.pc = "done" /\ ~install.touched =>
    LET items == IF patch = <<>> THEN <<>> ELSE patch[1]
        before == install.from
        changed == {i \in At(before, "other") : items[i] # before[i]}
    IN
    /\ At(items, "other") = At(before, "other")
    /\ Cardinality(changed) <= 1 /\ (changed # {} => ~OwnUrl(before) /\ before \in backups)
    /\ planned(items, install.url, install.bridge) = items
    /\ Cardinality(At(before, "mcp")) <= 1 => Cardinality(At(items, "mcp")) = 1
    /\ install.bridge # NoBridge /\ At(before, "bridge") = {} =>
         \E i \in At(items, "bridge") : items[i].with = install.bridge
    /\ OwnUrl(before) /\ (\A i \in At(items, "other") : items[i].with # install.url) =>
         \E i \in At(items, "mcp") : items[i].with = install.url
=============================================================================
