--------------------------------- MODULE MCNode ---------------------------------
(***************************************************************************)
(* The components of a node that share no state with each other, for TLC:  *)
(* a behaviour is one of the component that is chosen at the beginning, so *)
(* that the states are the sum of theirs and not the product.              *)
(***************************************************************************)
EXTENDS StateFile, PeerCall, Pairing, ViewIndex, Transcript, TunnelManager, HostOps,
        FileTransfer, DshInstall

CONSTANT NoCommand

VARIABLES
  component,
  record, lease, op, result, sweeping,                      \* of the queue
  worker, serves, reports, started, succeeded, faults       \* and of the channel around it

queueVars == <<record, lease, op, result, sweeping>>
channelVars == <<worker, serves, reports, started, succeeded, faults>>

\* The queue of a serving node and a CLI call: with clients that report as they like, and
\* with sweeps.
Queue == INSTANCE CommandQueue
  WITH Cmd <- 1 .. 3, Process <- {"node", "cli"}, Serving <- {"node"}, Sweeper <- {},
       Result <- {"r"}, maxPending <- 1, limit <- 2, None <- NoCommand
Swept == INSTANCE CommandQueue
  WITH Cmd <- 1 .. 3, Process <- {"node", "cli"}, Serving <- {"node"}, Sweeper <- {"node"},
       Result <- {}, maxPending <- 1, limit <- 2, None <- NoCommand

\* Two nodes on one directory and two workers that race for one command.
Channel == INSTANCE CommandChannel
  WITH Cmd <- {1}, Process <- {"node", "node2"}, Serving <- {"node", "node2"}, Sweeper <- {},
       Result <- {"r", "s"}, Worker <- {"v", "w"}, maxPending <- 2, limit <- 2, MaxFaults <- 1,
       None <- NoCommand

MCOpener == 1 :> "a" @@ 2 :> "a" @@ 3 :> "b"

MCFirstTunnel == "a" :> "s" @@ "b" :> NoServer

Arguments(method, space, limit, tail, id) ==
  [method |-> method, space |-> space, archived |-> FALSE, limit |-> limit, tail |-> tail,
   requestId |-> id]

MCArgs ==
  "list" :> Arguments("list", "w", 1, FALSE, "") @@ "read" :> Arguments("read", "-", 3, TRUE, "")
  @@ "workspaces" :> Arguments("workspaces", "-", 1, FALSE, "")
  @@ "rename" :> Arguments("rename", "-", 1, FALSE, "")
  @@ "archive" :> Arguments("archive", "-", 1, FALSE, "")
  @@ "create" :> Arguments("create", "w", 1, FALSE, "")
  @@ "prompt" :> Arguments("prompt", "-", 1, FALSE, "")
  @@ "again" :> Arguments("prompt", "-", 1, FALSE, "prompt")
  @@ "last" :> Arguments("read", "-", 1, TRUE, "")

Policy(methods, allow, deny) ==
  [enabled |-> TRUE, methods |-> methods, peers |-> "a" :> [allow |-> allow, deny |-> deny]]

\* At first everyone may prompt, then a peer may not, and then it alone may.
MCCapabilities ==
  0 :> [enabled |-> TRUE, methods |-> <<{"prompt", "bogus"}>>, peers |-> <<>>]
  @@ 1 :> Policy(<<{"prompt"}>>, <<>>, <<{"prompt"}>>)
  @@ 2 :> Policy(<<>>, <<{"prompt"}>>, <<>>)

TypeOK ==
  (component = "queue" => Queue!TypeOK) /\ (component = "swept" => Swept!TypeOK)
PendingBound ==
  (component = "queue" => Queue!PendingBound) /\ (component = "swept" => Swept!PendingBound)
ChannelInvariant == component = "channel" => Channel!ChannelInvariant
ExecutedOnce == component = "channel" => Channel!ExecutedOnce

MCInit ==
  /\ component \in {"store", "config", "pairing", "view", "transcript", "tunnel", "host",
                    "files", "install", "queue", "swept", "channel"}
  /\ StoreInit /\ CallInit /\ PairingInit /\ ViewInit /\ TranscriptInit /\ TunnelInit
  /\ HostInit /\ FilesInit /\ InstallInit
  /\ IF component \in {"queue", "swept"}
     THEN /\ IF component = "queue" THEN Queue!Init ELSE Swept!Init
          /\ worker = {} /\ serves = {} /\ reports = {} /\ started = {} /\ succeeded = {}
          /\ faults = 0
     ELSE Channel!ChannelInit

MCVars == <<component, storeVars, callVars, pairingVars, viewVars, pageVars, tunnelVars,
            hostVars, fileVars, installVars, queueVars, channelVars>>

\* Only the chosen component steps.
Still(name, rest) == IF component = name THEN TRUE ELSE UNCHANGED rest

Others ==
  /\ Still("store", storeVars) /\ Still("config", callVars) /\ Still("pairing", pairingVars)
  /\ Still("view", viewVars) /\ Still("transcript", pageVars) /\ Still("tunnel", tunnelVars)
  /\ Still("host", hostVars) /\ Still("files", fileVars) /\ Still("install", installVars)
  /\ IF component \in {"queue", "swept", "channel"} THEN TRUE ELSE UNCHANGED queueVars
  /\ Still("channel", channelVars) /\ UNCHANGED component

MCStore == component = "store" /\ StoreNext /\ Others
\* Once the call is answered its property cannot change, and those of the config are
\* checked without a call as well.
MCConfig == component = "config" /\ peerCall.pc \notin {"queued", "refused"} /\ CallNext /\ Others
MCPairing == component = "pairing" /\ PairingNext /\ Others
MCDshView == component = "view" /\ ViewNext /\ Others
MCTranscript == component = "transcript" /\ TranscriptNext /\ Others
MCTunnel == component = "tunnel" /\ TunnelNext /\ Others
MCHost == component = "host" /\ HostNext /\ Others
\* Once downloads have mixed nothing is said of the target, and what the folder holds is up to
\* the uploads.
MCFiles == component = "files" /\ ~mixed /\ FilesNext /\ Others
MCInstall == component = "install" /\ InstallNext /\ Others
MCQueue == component = "queue" /\ Queue!Next /\ Others
MCSwept == component = "swept" /\ Swept!Next /\ Others
MCChannel == component = "channel" /\ Channel!ChannelNext /\ Others

MCNext == \/ MCStore \/ MCConfig \/ MCPairing \/ MCDshView \/ MCTranscript \/ MCTunnel \/ MCHost
          \/ MCFiles \/ MCInstall \/ MCQueue \/ MCSwept \/ MCChannel

\* What can change: the rest of a state is as it was in the beginning.
MCView ==
  CASE component = "store" -> <<component, storeVars>>
    [] component = "config" -> <<component, callVars>>
    [] component = "pairing" -> <<component, pairingVars>>
    [] component = "view" -> <<component, viewVars>>
    [] component = "transcript" -> <<component, pageVars>>
    [] component = "tunnel" -> <<component, tunnelVars>>
    [] component = "host" -> <<component, hostVars>>
    [] component = "files" -> <<component, fileVars>>
    [] component = "install" -> <<component, installVars>>
    [] component \in {"queue", "swept", "channel"} -> <<component, queueVars, channelVars>>

MCSpec == MCInit /\ [][MCNext]_MCVars
=============================================================================
