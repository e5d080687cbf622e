# dsh-link in TLA+

dsh-link connects machines that run DSH (a host of agent conversations). Each
machine runs a *node*: an HTTP server with a message store, a list of peers,
shared folders and a command queue. A *bridge* plugin inside the DSH host polls
the node of its machine, wakes conversations when messages arrive and runs the
commands peers have queued. CLI processes work on the same data directory as
the node while it runs. Nothing is locked between processes: files are
appended to, renamed over, or created with `O_EXCL`.

This directory holds the specifications of the system, the TLC models that check
them, and the TLAPS proofs about them. Paths below are relative to the root of
the repository.

## Inventory

| Component | State it keeps | Operations | Hard behaviour | What makes it correct |
|---|---|---|---|---|
| Message store, `src/store.mjs` | `inbox.jsonl`, `outbox.jsonl` (append only), `state.json` (read marks, delivery states), a cache of the parsed files | append, get, list, markRead, importMessages, setDelivery, pendingOutbox | read-modify-write of `state.json` by several processes; a search and an append are two steps | no message lost, none stored twice, read marks only grow, the newest delivery state wins |
| Delivery, `src/ops.mjs` | none of its own | sendMessage, deliver, flush, dropOutbox, sync, acceptMessage | several callers work on one queue; a POST outlives the sender's patience; relays; crashes between two writes | delivered means stored by the recipient; messages are kept only where they are addressed; the queue drains |
| HTTP server, `src/server.mjs` | failed authentications per address, MCP sessions | the routes; `GET /outbox` and `POST /messages` matter here | concurrent handlers; a page cut before its filter | pages reach everything they promise |
| HTTP client, `src/client.mjs` | none | one request with a timeout | a request that timed out may still be served | callers treat a timeout as unknown |
| Command queue, `src/capabilities.mjs` | `<id>.json`, `<id>.claim` per command | enqueue, claim, complete, wait, sweep | leases, takeover of a stale lease, results outside the lock, several processes | one bridge runs a command; terminal states are final; every command finishes |
| Capability policy and bridge presence, `src/capabilities.mjs` | policy in memory, `bridge.json` | normalizeCapabilityConfig, authorizeCall, setConfig, beat | hot reload of the policy, which the queue misses | what an edit forbids is refused from the next check on |
| Command worker, `integrations/dsh-link-bridge/lib/commands.js` | the running tick | claim, run, report, beat | lost answers, a second report after a failed one, a host that dies | reports are true; no command is left for good |
| Wake tick, `.../lib/index.js` | watermark, wake counters, pool, routes, `state.json` of the bridge | tick, wakeGate, recordWake, ensureSessionFor, sweepSessions, recordOutbound | late and reordered messages, crash between prompt and save, cooldown and budget, restart | no message is passed over in silence or wakes again behind a wake on record; the loop guard bounds wakes |
| Topic pool, `.../lib/topics.js` | topic -> session, wakes, times | planSession, recordUse, sweepPool | sessions retired while in use; archiving that fails | every session the bridge opened serves a topic or is archived; a retired one is not continued |
| Reply routes, `.../lib/routes.js` | thread -> asking session | registerRoute, routeFor, sweepRoutes, forgetRoutesForSession | takeover of a thread, expiry, restart | an answer goes to who asked last |
| DSH operations, `.../lib/dshops.js` | none | the methods a worker runs | commands that are delivered again; answers cut by rows and by size | a retry does nothing twice; an answer says what it leaves out |
| Configuration and reload, `src/config.mjs`, `src/reload.mjs` | the config file, its signature | load, save, prime, check, apply | load-modify-save by several processes; failed loads; edits during a check | finished edits are kept; a node that rests runs with the file, and its components agree |
| Tunnel, `src/tunnel.mjs` | frpc process, its pid file, visitor ports | start, stop, relaunch, ports | two processes at one pid file; an frpc that ends by itself | at most one tunnel, and the file names it |
| Pairing, `src/pairing.mjs` | peers and tokens in the config, codes outside it | invite, accept, import, remove | codes used late, twice, in reply, under other names | a kept token is one the peer accepts; ports do not collide |
| Installation, `src/pairing.mjs` | a patch file of DSH that its owner edits | plan, copy, write | an install that is interrupted or meets an edit | nothing of the owner is lost uncopied; installing again changes nothing |
| File roots, `src/fsroot.mjs` | a cache of the root's real path | resolve, list, read, write, hash | three reads of one download; two uploads at once; a root that moves | readers see whole files; a verified download is what was hashed; requests follow the root |
| DSH view, `src/dshview.mjs` | a cache of the index with one scan in flight, a cache of transcripts | index, sessions, transcript, reconfigure | a scan that ends after a reconfigure; a log that grows while it is paged | answers follow the current configuration; pages leave no gap |
| MCP, `src/mcp.mjs`; doctor, `src/doctor.mjs`; CLI, `bin/dshlink.mjs`; `src/util.mjs`; `scripts/` | none that lasts | callers of the above | - | - |

How they interact: a sender's `ops` POSTs to a receiver's `server`, which calls
the receiver's `ops` and `store`. `dshlink serve` runs server, timers, reload and
tunnel in one process; each CLI command is another process on the same files.
The bridge polls `GET /messages?unread=1` (wake tick) and `GET /bridge/commands`
(worker), and posts results and heartbeats.

The list of hazards, each at its line and with the properties that cover it, is
in `PROJECT.json`.

## Modules

| Module | What it is |
|---|---|
| `Mailbox` | what is promised of a message, with no node or network in it |
| `Delivery` | delivery between nodes: callers, POSTs, handlers, relays, pulls, faults |
| `MCDelivery` | topologies for TLC |
| `CommandQueue` | the durable command queue over several processes |
| `CommandChannel` | the queue composed with the workers, lost requests and crashes |
| `TopicPool`, `Routes` | the pure decisions of the bridge about sessions and reply routes |
| `BridgeWake` | the wake tick, composed of both, with its state file, the host and its sessions |
| `MCBridge` | messages and sessions for TLC |
| `StateFile` | `state.json` over several processes |
| `ConfigReload` | the config file, its editors, and the node that watches it |
| `PeerCall` | a capability call, judged twice while the config changes; extends `ConfigReload` |
| `Pairing` | invites, peers, tokens and visitor ports of several nodes |
| `ViewIndex`, `Transcript` | the shared index of sessions; the pages of one session's log |
| `TunnelManager` | one frpc process, its pid file and the processes that manage it |
| `HostOps` | the methods a worker runs in the DSH host |
| `FileTransfer` | uploads and downloads of one file while its root moves |
| `DshInstall` | the patch file that an installation writes |
| `MCNode` | the components of a node that share no state, for TLC, one at a time |
| `Lists` | `Filter`, the elements of a list that are in a set, which several modules use |
| `ListProofs` | lemmas about `Lists`, and the two forms of induction the proofs use |
| `DeliveryProofs` | theorems about `Delivery`, and that it implements `Mailbox` |
| `CommandProofs` | theorems about `CommandQueue` and `CommandChannel` |
| `BridgeProofs` | theorems about `BridgeWake` |
| `ConfigProofs` | theorems about `ConfigReload`, `PeerCall` and `StateFile` |
| `SetupProofs` | theorems about `TunnelManager`, `Pairing` and `DshInstall` |
| `FileProofs` | theorems about `FileTransfer` |
| `ViewProofs` | theorems about `ViewIndex`, `HostOps` and `Transcript` |

### Delivery

A *courier* is one caller of `sendMessage`, `flush`, `dropOutbox` or `sync`; a node
may have several (an MCP request, the auto-sync timer, a CLI process). A *call* is
one POST: on its way, in its handler, waiting for the POST that relays it, or
answered. Every `await` of the code after which somebody else can have run is a
step boundary:

| Actions | Code |
|---|---|
| `sendMessage`, `sendQueued` | append to the outbox, then `setDelivery(pending)` (ops.mjs 140-141) |
| `flush`, `Continue` | the snapshot of the queue, then one `deliver` after the other (146-155) |
| `deliver`, `deliverLocal`, `deliverPost`, `deliverSkip`, `deliverAnswer`, `deliverTimeout`, `deliverFailed` | `deliver`: the message to oneself, the list of candidates, each request and what came of it (100-129) |
| `dropOutbox`, `dropOne` | the snapshot, then one write per record (161-170) |
| `sync`, `importMessages`, `importOne` | the page of a peer, the set of known ids, one append per record (194-206; store.mjs 177-188) |
| `acceptMessage`, `acceptStore`, `acceptRelayed`, `acceptTimeout` | the search of the inbox, the append, the POST of a relay and its outcome (317-334) |
| `Lose`, `CrashCaller`, `CrashHandler` | the network and the operating system |

`inbox` counts lines, so that a record stored twice shows. `outbox` is a set: a
relay may append a record twice, which changes nothing that is modelled (the
queue is read by id and both lines share one delivery state). A pull of all peers
is one `sync` per peer; the timer of `dshlink serve` is the courier that repeats
`sync` and `flush`. `setDelivery` is one step here: what happens when two processes
save `state.json` at once is in `StateFile`. Attachments,
threads, sizes and the text of errors are left out. A node that has no token
for a peer makes no request to it; the order of `cfg.peers` is kept because
`deliver` tries them in that order when it relays.

`Mailbox` is the abstract specification: `Send`, `Arrive`, `Settle`, and
`Unsettle`, because a sender may forget that a message was delivered and
send it again. `ImplementsMailbox` maps `sent` to the sender's outbox,
`arrived` to the recipient's inbox and `settled` to the sender's delivery state.

### CommandQueue and CommandChannel

Every file operation is a step: `enqueue` counts and `enqueueWrite` writes; `claim`
lists, then per record stats (`claimNext`), removes a stale claim file
(`claimRemove`), creates its own (`claimCreate`), reads again (`claimReread`), writes
or undoes (`claimTake`, `claimUndo`); `complete` reads, writes, removes
(`completeRead`, `completeWrite`, `completeRemove`). `op[p]` is what `lock()` of
process `p` protects, so `enqueue` and `claim` of one process exclude each other and
those of two processes do not. `complete` and `sweep` are outside the lock, as in
the code. Time is `leaseExpires` and the choice of the records a sweep finds old.

`CommandChannel` adds the workers: `tick`, `serveClaim`, `serveReturn` (a poll),
`run`, `handled` (one command after the other), `report`, `reported`,
`reportFails` (a success whose report fails is reported once more as a failure,
commands.js 211-222), and the faults: a poll answered too late, a lost or late
report, a lease shorter than its command, a dead host, a dead node. Only tests call
`sweep`, so it is off there and checked in `CommandQueue` alone. `started` and
`succeeded` are history variables. TLC runs both modules in `MCNode`, the channel also by itself.

### BridgeWake, TopicPool and Routes

A tick is cut at its requests to the node and to the host:

| Actions | Code (`lib/index.js`) |
|---|---|
| `list` | `loadStateOnce`, the page of unread messages, then the watermark (`isNewerThan`), 505-517 |
| `sweep` | `sweepSessions`: `sweepPool`, `sweepRoutes`, at most three archiving calls |
| `hold`, `drop` | `wakeGate`: cooldown and soft hold leave the watermark, a hard hold moves it over the page |
| `route`, `reuse`, `retire`, `openSession`, `openFails` | `routeFor`, then `ensureSessionFor` with `planSession` and `recordUse` |
| `prompted`, `promptNotFound`, `promptFails` | the prompt; an error says nothing of whether the host took it |
| `save` | the state file |
| `recordOutbound`, `arrive`, `markRead`, `vanish`, `Crash`, `pass` | the event of a sent message; the node, conversations, users, the host, time |

What others do commutes with the steps a tick takes between its requests, so it is
let happen only at the requests. `TopicPool` and `Routes` return sets where the code
depends on the order of a map's entries. A list or info request that fails is a
`hold`. Ids and timestamps are independent: the page is cut in the order of the ids
(store.mjs 142-143) and its newest message is the last by id (index.js 529), the watermark is compared by
`(ts, id)`; an id made by `newId` sorts by its time, a foreign one (`acceptMessage` takes any, and
selfcheck.mjs:27 posts one) need not. A message that overtakes an older one counts as a
fault. A conversation marks only what it was given. Local
sessions send once each, in a fixed order. The mode that pins one session, the
markdown settings and the tools of the plugin are left out.

`history` keeps the wakes with page, session, topic and time (`woken`); those of them that are on
record, which is to say in the counters of the memory (`counted`) or of the state file (`filed`); what was
dropped, what came late, the sessions left open knowingly; who asked last on a thread and when the thread
was last used (`asker`, `used`). A crash takes `counted` back to `filed`, an unreadable file to
nothing, and a prompt in doubt is never on record: these are what the code forgets.

### The components of a node

`StateFile`. A call of a process changes what it has loaded, merged with the file
(`change`), writes its temporary file (`saveWrite`), which is one per process, and renames it
(`saveRename`); `quit` ends a process. Times are call numbers. Overlapping saves lose
changes by design: `SavedIsKept` speaks of the histories without them.

`ConfigReload`. Tools load (`loadCtx`) and save (`saveEdit`) the whole file, people write it
by hand (`tear`), serve saves at its start, primes, and then checks: the stat (`check`), the
load (`load`, `loadFails`) and the end of the check (`apply`, with `applyConfigInto` and the
callback). A section is the number of the edit that wrote it; every write changes the
mtime. `parts` holds what the roots, the view and the queue were last given: the queue
keeps what it started with (see below).

`PeerCall`. A request first starts a check of the config (`requestRefresh`), joins the one in progress,
or comes within the interval of the last one; then its method is judged by the config object
(`dshCallLocal`) and, one `await` later, by the policy the queue was given (`enqueueChecked`), while
the steps of `ConfigReload` go on (`configGoesOn`). `may` collects the sections that can justify
the answer: what the file holds from its arrival on, and what the node had where the code
does not look again: a call within the interval, one that joins a check which has read
already, and one whose check fails. Authentication comes before and is left out.

`Pairing`. Codes are handed out, accepted late, twice or in reply, and expire; peers are
added, imported and removed; tokens are removed; the tunnel is set up for another server;
ports are taken by other processes. Commands of a node follow each other here, and their
races on the file are those of `ConfigReload`. Secrets, labels and an explicit
`--visitor-port` are left out.

`ViewIndex`. `getIndex` waits for the scan in flight, or begins one; a scan reads the
registry, then the logs; `reconfigureView` drops what is cached, not the scan. A request
needs the index twice and may get two different ones.

`Transcript`. A log is a sequence of pieces of frames; a request stats it, looks into the
cache, reads and decodes, renders and cuts its window; the log grows between the pages.
A frame holds one event; a read and the entry it puts in the cache are one step.

`TunnelManager`. `stop` reads the pid, signals, waits and removes the file; `start` looks for a
live pid, spawns, writes the pid, and looks again after 600 ms. Processes end on their
own, outlive the wait, and managers end between any two steps. Pids are not used
again; a start that fails is the end of its manager.

`HostOps`. A command looks its service up, reads owners and archive, lists, and caps its
answer; sizes are counted in rows. It comes again after a failure, a lost answer or a host
that ended. Read, rename, archive and prompt act on the first session. A command and the request id
`bridge-command:<command>` that is derived from it (dshops.js:496) are one name here: "repeated by name" is a
second command whose caller gives that id.

`FileTransfer`. One file of one root of kind `dir`. An upload resolves the root, opens the
temporary file, writes, renames; a download resolves, takes the size, resolves again, hashes,
and streams; the root is moved or withdrawn in between. Blocks carry the version
they belong to. Range requests, links and listings are left out.

`DshInstall`. The file is read and planned, copied, emptied and written entry by entry; the
command ends at any point, which may cut an entry off, and its owner edits at any point. Entries are items
with a url or without (a bridge has none). `planMcp` is the two searches and the replacement of pairing.mjs
201-213, which know no entries: `Unchanged` finds the id and the url anywhere in the file, and what is
replaced is the next url behind the id (`Behind`), that of the client when it is laid out as the command
writes it, else that of a later entry, or none. The skill file
and the check of the YAML are left out (a plan that does not parse is an `interrupt`).

`MCNode` composes these nine (`PeerCall` with the `ConfigReload` it extends) with three instances of the
commands: the queue with clients that report as they like, the queue with a node that sweeps, and the
channel with two racing workers. They share no variable, so a behaviour of all is these
behaviours side by side and the invariants, each over one component, hold of the product exactly
when they hold of each. `MCNext` therefore lets one component run per behaviour, and the
`VIEW` keeps its variables alone (the others never change): TLC sees the sum of the state spaces.
No properties relate two of them; those that interact are composed elsewhere (`Delivery`,
`CommandChannel`, `BridgeWake`).

## What is checked

| Run | Instance | Properties | Distinct states |
|---|---|---|---|
| `delivery_relay` | a - h - b, a timer each, h has no token for a, one message through h, one from h to everyone, 1 fault | `DeliveredIsStored`, `RelayedIsStored`, `InboxIsAddressed`, `QueuesDrain` | 183 501 |
| `delivery_direct` | a - b, two callers at a, one at b, a message to b and one to oneself, 2 faults | `Invariant`, `ImplementsMailbox` | 822 740 |
| `channel_crash` | 2 commands, 1 worker, a node, a CLI process, 2 faults | `DoneMeansExecuted`, `CommandsFinish` | 181 397 |
| `bridge` | 3 messages (2 on a thread, 1 by its subject, 1 with a foreign id that sorts last and is not the newest), 2 local sessions that ask on the thread, a send on another thread, a table of 1 route, 2 sessions of the bridge, pages of 2, budgets of 1 per thread and window and 2 per 2 units of time, pool of 1, 1 fault | `TypeOK`, `NothingSkipped`, `WokenOnce`, `LoopGuard`, `SessionsAccounted`, `RetiredStaysRetired`, `AnswerReachesAsker` | 1 717 778 |
| `node` | `StateFile`: 2 processes, 3 calls, a record | `SavedIsKept` | 1 472 254 in all |
| | `PeerCall` over `ConfigReload`: 2 tools, 2 edits, 2 starts, 1 failed read, a call, a policy per edit | `ComponentsAgree`, `EditsKept`, `NothingMissed`, `CallFollowsConfig` | |
| | `Pairing`: 2 nodes, one with a public url, an alias, 2 tokens, 3 commands | `TokensAccepted`, `PortsApart`, `AddressIsVisitor` | |
| | `ViewIndex`: 2 homes, 2 workspaces, 2 requests, 2 scans, 1 reload | `AnsweredFromConfig`, `ExcludedStaysHidden` | |
| | `Transcript`: a log of 3 pieces, frames of up to 3, pages of 1 and 3 rows capped at 2, 2 lengths | `PagesLeaveNoGap`, `PageIsCurrent` | |
| | `TunnelManager`: 2 managers, 3 spawns, 4 jobs | `OneTunnel` | |
| | `HostOps`: each method, a list of 1 row over 2 sessions, tails of 1 and of 3 rows over 2 turns, answers of the size of 1 row, a prompt that is repeated by name, 2 executions | `PromptedOnce`, `CreatedOnce`, `AnswerTellsWhatItOmits` | |
| | `FileTransfer`: 2 requests at once, 2 uploads, 1 move of the root, up to the step with which two downloads mix | `FilesAreWhole`, `VerifiedIsSaved` | |
| | `DshInstall`: 2 urls, 2 settings, 2 edits, 2 installs, 3 entries | `NothingLost`, `InstallSettles` | |
| | `CommandQueue`, twice: 3 commands, a node, a CLI process, `maxPending` 1; with a result from outside, and with sweeps | `TypeOK`, `PendingBound` | |
| | `CommandChannel`: 1 command, 2 workers, 2 nodes, 2 result handlers, 1 fault | `ChannelInvariant`, `ExecutedOnce` | |

Why the bounds are enough. Three nodes with a hub in the middle have every role
of a relay (sender, relay, recipient, and a hub that sends for itself); two callers
at one node are needed for a race at a queue, and a third would repeat what two
do. Four POSTs let two senders and two relays be in flight. One fault makes a
relay and its recipient disagree; two make a retry meet an earlier, late
attempt. `Window` is 2 where it must not matter. For commands, two workers and two
nodes on one directory race in every step of `claim`; `channel_crash` has a second fault, a crash
on top of a lease that ran out. Two processes and `maxPending` 1 are the fewest that overrun the
limit, and the third command is the one that would break the bound. `bridge` and `node` stop where the clock, the
faults, the commands, the edits and the calls are used up, and so say `CHECK_DEADLOCK FALSE`.

For the bridge, three messages over two topics are the fewest for which a page holds
another topic than the one it wakes, a page is cut, a pool of one evicts, and the newest by id is not the newest by
time; two sessions that ask take a thread from each other, and the send on the other thread takes the one place of
the table; two units of time let every cooldown, window and route end while the hour has not. The ages of
a session and of an idle topic are not reached in this run (with a longer clock they make it too large): what
depends on them is covered by the proofs alone. The bridge's own cooldown is 0, which only lets more ticks
wake. The fault is a crash, a prompt in doubt, an unreadable
file, a late message, a failed archive or a deleted session. For the node, two processes
or two requests meet at every step of the other; a second call of one process shares
its temporary file; three commands let a code be handed out, accepted, and accepted again in
reply or under the alias; of three policies the second takes from a peer what the first gives, and
the third gives it back; one reload falls before, into or after a scan. Of the limits of `HostOps`
the list of 1 cuts two sessions and the tail of 1 cuts two turns, and the tail of 3 leaves
the cut to the size. Two installs
with two edits between them are the shortest history that could fail to settle.

Exceptions are stated in the property and are histories the code or its documents promise nothing for:
saves or edits that overlap, a reload inside a scan, two jobs on one pid
file, two downloads into one target, an owner's
save during an install, a port that had to be moved, three idle sessions that are archived in a tick
and more that are not. Each is a history variable that only
the step which makes the overlap sets. Three exceptions are of histories a document does speak of, and are listed
with the disagreements below: two uploads through one temporary file (`FilesAreWhole`), a foreign id
(`NothingSkipped`, `WokenOnce`), and what a crash keeps off the record (`WokenOnce`, `LoopGuard`).

### Fairness

- `Delivery`: a step that has begun goes on (`WF` of `Proceed` and `Accept`): promises
  settle, and every request has a timeout, which is itself a step. `SF` of the
  timer's flush of the whole queue: `setInterval` of bin/dshlink.mjs 226-240 fires
  again and again, and between two ticks its courier is idle. Nothing is assumed of
  sends, drops and flushes by hand.
- `PullFairness` adds `SF` of the timer's pull from every peer, the first half of the
  same tick.
- The other modules have no liveness property, and their specifications no fairness: what
  must happen there depends on users, owners and the host.
- `CommandChannel`: `WF` of a worker's tick (a timer in the DSH host), of locked
  operations, of handlers, and of the end of a lease nobody works under; `SF` of a
  claim being served for each worker, because `lock()` is a first-come queue and a
  waiting request is not overtaken for ever.

### Disagreements between the code and its documents

Seven runs check what a document or a comment says, and TLC shows the code doing
something else.

| Run | The promise | What the code does |
|---|---|---|
| `stored_once` | docs/DESIGN.md:42, the receiver removes duplicates by id | `acceptMessage` searches and appends in two steps: two POSTs of one record, or a POST and a pull, both append it |
| `dropped_is_final` | ops.mjs:158, dropped messages are "never retried again" | `sendMessage` appends the record and writes its state afterwards: a drop in between finds it pending and writes `dropped`, and the send writes `pending` over it (ops.mjs:141) and goes on to deliver it. A flush that took its snapshot before the drop does the same with `pending` or `delivered` (ops.mjs 120, 127) |
| `pull_arrives` | docs/DESIGN.md:39 and docs/PROTOCOL.md:64, a receiver nobody can reach pulls | the 200 oldest records are taken first and filtered by recipient after; older records for others hide newer ones for good. With a window that holds both records the property holds |
| `terminal_immutable` | docs/PROTOCOL.md:119, "terminal states are immutable" | `complete` checks and writes without the lock: the second report of a worker that timed out rewrites `done` as `failed` or the other way round |
| `drops_own_thread` | integrations/dsh-link-bridge/README.md:206, beyond `maxThreadWakes` the wakes of *that thread* are dropped | the watermark moves over the whole page (lib/index.js:545), and older messages of other threads in it are never prompted |
| `answers_reach_askers` | the comment at lib/index.js:549-550, "a thread a local conversation asked on is answered back into that conversation; every other message keeps the one-session-per-topic behaviour", and the README of the bridge, 110-116 | the route is looked up for the newest message of the page alone (line 551) and the whole page is prompted there (566-579): with the answers to two sessions in one page, one of them never hears its own. `AnswerReachesAsker` is what holds: of the newest message |
| `root_is_current` | docs/PROTOCOL.md:37-38, "peers/tokens/shared roots changed by the CLI take effect immediately" | `_realRoot` stores the path after the `await` of `realpath` (fsroot.mjs:124): a reload in between has cleared the cache, the old path is stored behind it, and requests that follow are served from the old folder |

`pull_arrives` scales the window to 1 and has one older record for a node that
nobody can reach; 200 such records do the same in the code.

In the run `answers_reach_askers` a constraint keeps answers from coming before what they answer.

Met while modelling, without a run of their own:

- docs/PROTOCOL.md:120-121, "at most `maxPending` commands wait at once": the count and the write of `enqueue`
  (src/capabilities.mjs 257, 280) are under a lock that other processes do not see, so a node and a CLI process
  that both find one place left fill it twice. `PendingBound` is what holds: `maxPending` and one more for each further
  process. With `maxPending` in its place TLC finds the overrun.
- docs/PROTOCOL.md:136-137, "writes are atomic (temp file + rename)": the name of the temporary file has the process
  id and no more (fsroot.mjs:279), so two uploads of one path into one node share it, mix their blocks, and
  rename the mixture. `FilesAreWhole` excepts these (`overlap`).
- lib/index.js:186-191 says that the watermark compares `(ts, id)` because foreign ids sort above every real one, but
  the page is cut in the order of the ids and the last one in it sets the mark. A foreign id with an older timestamp that is cut off
  a page can be behind the mark before it was ever listed, and is then passed for good (`NothingSkipped` excepts
  it: `Overtaken`); and as the last of a page it sets the mark behind the others, which are then prompted a
  second time (`WokenOnce` excepts them), against the README of the bridge, 195-196 (the filter keeps messages nobody marked from waking again).
- lib/index.js:203-204 and the README of the bridge, 206 and 211, promise a rolling window and counters that no restart resets. The window of
  a thread is fixed at its first wake and begins anew when it has run out (209, 225-230), so a span as long as a window can meet the
  end of one and the beginning of the next, with up to `2 * maxThreadWakes - 1` wakes: that is the bound of `LoopGuard`.
  The counters do survive a restart, and `LoopGuard` holds over restarts for the wakes on record; but
  those since the last save are lost in a crash, all of them when the state file cannot be read, and a prompt that
  timed out and was taken all the same is not counted.
- src/pairing.mjs 202-208: id and url are searched in the whole file. If the client's own entry has no url behind its id
  (it was laid out otherwise, has another transport, or was cut off), `update-url` rewrites the url of the next entry that
  has one. `InstallSettles` says when that can be, and that the file was copied before.
- docs/PROTOCOL.md:96, "`transcript().total` is exact": not past the cap on the bytes that are read
  (`ReadCap` in `Transcript`), where it counts what was read; `truncated` is then set.

- bin/dshlink.mjs:188: `commands` is not in scope of the reload callback and the error is
  caught, so the queue keeps the policy it started with and a method that is newly allowed stays refused
  until a restart, against the comment two lines above; `ConfigReload` models it (`parts`), and
  `CallFollowsConfig` shows that what is newly forbidden is refused all the same.
- server.mjs:364: a request is served from a config that the file does not hold any more when it comes
  within the interval of a check, or joins a check that has read the file; `PeerCall` models both.
- src/dshview.mjs:803: a scan that was begun before a reload of the config is stored behind it, so requests are answered with what the
  config of before allowed until the cache ages, or another reload clears it; `AnsweredFromConfig` excepts it, and
  `ExcludedStaysHidden` shows that nothing excluded is in an answer even then.
- src/capabilities.mjs:382: only tests call `sweep`; without a worker pending commands
  stay and fill `maxPending`.
- src/tunnel.mjs:364 with bin/dshlink.mjs:223, 325, 636: the secret that `share` makes, and the ports
  that `relaunch` moves, are in the config object of the process and are saved only by some of its callers.
- lib/index.js:360: the routes are restored from the name under which the state file has their
  summary, so a restart of the host forgets them; `BridgeWake` models it (`Started`).
- lib/index.js:464 with topics.js: `sweepPool` marks every idle topic archived, the tick
  archives three sessions; `SessionsAccounted` counts the rest as left open.
- lib/index.js:513: the page of unread messages is cut before the watermark is looked at:
  unread messages below it that nobody marks read can fill the page.
- lib/dshops.js:326-329: an answer that is too long keeps the first half of its rows, also when the tail
  was asked for; it then says `truncated`, which `AnswerTellsWhatItOmits` relies on.

## What is proved

Every invariant and the refinement that a passing run checks is also a theorem, for every value
of the constants (any nodes, topology, callers, messages, workers, processes, policies, logs and
bounds). The four invariants that `MCNode` checks of the queue and the channel are those of the theorems on an
`INSTANCE` of their modules. Behind each `Spec => []Property` stand an inductive invariant, a lemma for each action
that the action keeps it, and one step of temporal logic.

| Theorem | Statement | Inductive invariant |
|---|---|---|
| `DeliveryProofs!DeliveredIsSafe` | `Spec => []DeliveredIsStored` | `Invariant` |
| `DeliveryProofs!RelayedIsSafe` | `Spec => []RelayedIsStored` | `Invariant` |
| `DeliveryProofs!InboxIsSafe` | `Spec => []InboxIsAddressed` | `Invariant` |
| `DeliveryProofs!DeliveryImplementsMailbox` | `Spec => ImplementsMailbox` | `Invariant`, `WrittenFirst` |
| `CommandProofs!QueueTypeCorrect` | `Spec => []TypeOK` of the queue | itself |
| `CommandProofs!PendingIsBounded` | `Spec => []PendingBound` | itself |
| `CommandProofs!ChannelInvariantHolds` | `ChannelSpec => []ChannelInvariant` | itself |
| `CommandProofs!DoneIsTrue` | `ChannelSpec => []DoneMeansExecuted` | `ChannelInvariant` |
| `CommandProofs!RunOnce` | `ChannelSpec => []ExecutedOnce` | `ClaimsHold` |
| `BridgeProofs!NothingIsSkipped` | `Spec => []NothingSkipped` of the bridge | `BridgeInvariant` |
| `BridgeProofs!WokenOnlyOnce` | `Spec => WokenOnce` | `BridgeInvariant` |
| `BridgeProofs!BridgeTypeOK` | `Spec => []TypeOK` | `PoolInvariant` |
| `BridgeProofs!SessionsAccountedHolds` | `Spec => []SessionsAccounted` | `PoolInvariant` |
| `BridgeProofs!RetiredStaysRetiredHolds` | `Spec => []RetiredStaysRetired` | `PoolInvariant` |
| `BridgeProofs!AnswerReachesAskerHolds` | `Spec => AnswerReachesAsker` | `AskersKnown` |
| `BridgeProofs!LoopGuardHolds` | `Spec => []LoopGuard` | `LoopInvariant` |
| `ConfigProofs!ComponentsAlwaysAgree` | `ConfigSpec => []ComponentsAgree` | `ConfigInvariant` |
| `ConfigProofs!EditsAreKept` | `ConfigSpec => []EditsKept` | `ConfigInvariant` |
| `ConfigProofs!NothingIsMissed` | `ConfigSpec => []NothingMissed` | `ConfigInvariant` |
| `ConfigProofs!CallsFollowConfig` | `CallSpec => []CallFollowsConfig` | `CallKnows` |
| `ConfigProofs!SavedIsAlwaysKept` | `StoreSpec => []SavedIsKept` | `StoreInvariant` |
| `SetupProofs!OneTunnelHolds` | `TunnelSpec => []OneTunnel` | `TunnelInvariant` |
| `SetupProofs!TokensAcceptedHolds` | `PairingSpec => []TokensAccepted` | `PairingInvariant` |
| `SetupProofs!PortsApartHolds` | `PairingSpec => []PortsApart` | `PairingInvariant` |
| `SetupProofs!AddressIsVisitorHolds` | `PairingSpec => []AddressIsVisitor` | `PairingInvariant` |
| `SetupProofs!NothingLostHolds` | `InstallSpec => []NothingLost` | `InstallInvariant` |
| `SetupProofs!InstallSettlesHolds` | `InstallSpec => []InstallSettles` | `InstallInvariant` |
| `FileProofs!FilesAreWholeHolds` | `FilesSpec => []FilesAreWhole` | `FilesInvariant` |
| `FileProofs!VerifiedIsSavedHolds` | `FilesSpec => []VerifiedIsSaved` | `FilesInvariant` |
| `ViewProofs!AnsweredFromConfigHolds` | `ViewSpec => []AnsweredFromConfig` | `ViewInvariant` |
| `ViewProofs!ExcludedStaysHiddenHolds` | `ViewSpec => []ExcludedStaysHidden` | `ViewInvariant` |
| `ViewProofs!PromptedOnceHolds` | `HostSpec => []PromptedOnce` | `HostInvariant` |
| `ViewProofs!CreatedOnceHolds` | `HostSpec => []CreatedOnce` | `HostInvariant` |
| `ViewProofs!AnswerTellsHolds` | `HostSpec => []AnswerTellsWhatItOmits` | `HostInvariant` |
| `ViewProofs!PageIsCurrentHolds` | `TranscriptSpec => []PageIsCurrent` | `PagesInvariant` |
| `ViewProofs!PagesLeaveNoGapHolds` | `TranscriptSpec => []PagesLeaveNoGap` | `PagesInvariant` |

### From which assumptions

Only from the `ASSUME`s of the modules. Call identifiers are natural numbers,
disjoint from the couriers; `None` is none of the values it stands beside; peers and tokens name
nodes; sets of commands, processes, records, threads and tools are finite; message ids are natural numbers
and timestamps positive ones, in any relation to each other (`MailAssumption`); limits that the code reads as positive are positive.
`PortsSuffice` (`Pairing`): the ports of an instance are at least as many as its commands, since
`MaxPort` is a bound of the model and the search of `nextVisitorPort` does not end there. `KeysAssumption` (`BridgeWake`): a message has the
topic and the thread the code derives from it. `ArgsAssumption` (`HostOps`): the arguments of a
command have their types.

### Delivery and commands

`DeliveredIsStored` is not inductive: a courier writes
`delivered` because an answer says ok. So `AnswerIsStored` says that an ok in flight
stands for a stored message; a relay's ok is its recipient's ok, so `WaitersMatch`
ties every waiter, courier or handler, to one POST of the same message, and
`NoSelfWait` keeps a POST from waiting for itself. `StoreIsAddressed` carries the
check of the recipient from where it is made (the search of the inbox, the page of
the outbox) to where the record is appended. `Invariant` is the conjunction.

The refinement. A step that settles a message must find it sent, and one that stores it too:
`WrittenFirst` says that no message is anywhere, in an outbox, in the hands of a caller or in a
POST, before it is in the outbox of its sender. With `Invariant` every action is then
`Send`, `Arrive`, `Settle` or `Unsettle` of one message, or leaves all three sets alone.

`DoneMeansExecuted` needs `ReportsAreTrue` (an ok in a
handler or in a worker's hands is of a command some handler carried out), and this
needs `ChannelTypeOK`: a process serves a worker only while that worker polls, and
a result handler answers only the worker that waits with the command it reports.
`PendingBound` is inductive by counting: each process that has passed the check
adds at most one record, and `claim`, `complete` and `sweep` add none.

`ExecutedOnce`. A claim file exists exactly while one process (between its
claim file and its answer) or one worker (until its result is written) holds the command
(`OwnedOnce`); what is held is not finished, but for the one whose result is being written
(`RecordsAgree`); every claim and every result has a worker that waits for it
(`NothingStrays`). So a command that has been started is finished or in the hands of the
one that started it (`StartedOnce`). All of it holds while `faults = 0`: a lost answer ends the
correspondence, and then a second run is what the lease is for.

### The bridge

*The watermark.* There are three marks: in memory, in the state file, and the one
the tick is about to set. `MarksAreRight` says that behind each of them there is nothing
but what is covered (given to a conversation, dropped, late, or outrun by a younger message that sorts before it
and on which the mark stood). The third is the one that needs
an argument: the page is cut by its length, so what is not in it and not behind the old mark
comes after everything in it (by counting the unread messages before it), and so is newer or outrun; what
arrives behind the page while the tick is at its requests is late. `Recorded` says that what is on record is behind the
mark beside it, in memory and in the file, and what a tick has in hand is before the mark in memory; a crash and a restart take
record and mark back together, which is why `WokenOnce` needs no assumption on faults.

*The pool.* A pool remembers what it has given up, in memory and in the file, and the file is
older. `Accounted` says of both that a session is given up only when it is archived, gone or
left open knowingly, and of the topic in hand that it goes on to a new session only then. `NoRevival`,
without a fault, adds that no two topics share a session and that one which was archived and is not
yet replaced stays used up, so that `planSession` never finds it fit again.

*The routes.* `RoutesOK`: a route is that of the one who asked last on its thread, as old as its last use, and who
asked has a route unless `Missed`: gone, asked too long ago, or `Crowded` out. The last is the one that needs an
argument. The cap evicts the routes that were used least lately, so when it evicts one, those that stay fill
the table and were all used since; and the number of threads used since a moment only grows
until the thread is used again. `AskersKnown` adds that once a tick has found no route to follow and goes to open a
session, nobody is left who could still be answered.

*The loop guard.* `LoopGuard` speaks of the wakes on record; the code has counters, which
forget: a window begins anew when it has run out, and `wakeTimes` is cut to the last hour. `Budgeted` relates wakes
and counters: of the last hour the list has all; for every moment in the last window (`Guarded`), the wakes of a thread
since then are at most what its window counts, if the window began before that moment; else a budget more less one, since the last
wakes of the window before may fall into it, and its first cannot; and no stretch of time holds more than `LoopGuard` allows.
`LoopInvariant` says it of the counters in memory with `history.counted`, and of those in the file with `history.filed`:
a save makes the second the first, a restart the first the second, and a file that cannot be read begins with no wakes on record.
`GateOpen`: a tick behind the gate may wake once more. A wake adds one to a stretch only if the gate was open, and then the
counters were below their budgets.

### Configuration, tunnel, pairing, installation

`SavesKeep`: what a save will write has all finished edits, unless
something was written since its load; `NodeKnows`: what a check is about to apply is the file unless
its signature says otherwise. `CallKnows`: what the node has, or has read and is about to
have, is among what the call in hand may be judged by (it needs `NothingMissed` for a call that
finds nothing to do). `SavesAreSafe`: what each call is about to write covers all that
has been saved, and its own change. `FileNamesAll`: one job at a time, and what runs is what
the pid file names or what the job has started and is about to write.

The three properties of `Pairing` are inductive together with `CodesKnown`, that the token in a
code is one its writer accepts or has removed, and `FewPeers`, that a command adds one
peer at most, by which a free port can be found (`PortsSuffice`). `InstallInvariant`: a command that is about
to write has copied what is its owner's (`CopiedFirst`), and what it has written is a
beginning of its plan (`PlanFollowed`). `PlanSettles` is what a plan does to any file: it adds or keeps one
entry of the client, rewrites one url at most, which is the client's own if that is behind its id (`McpPlanned`), and a plan for a
file that is a plan is that file, which makes the second installation change nothing. What was rewritten differs
from what was read, so the command has made a copy.

### Files, views, host, transcripts

`PartsApart`: while no two uploads share a temporary file, that file is no directory's file and
holds what its upload has written, so what is renamed over the file is a whole version. `OneSaves`: the
download in progress opened the target last.

`ViewInvariant`: unless the last reload fell into a scan, whatever is cached or being read is of the
config of now (`CachesCurrent`), and no request holds an index of an earlier config than its own
(`Fed`). Exclusion needs less: what a request may show has passed the filter of its own
config, whichever index it came from (`Filtered`).

`HostInvariant`: a turn has its name among those admitted (`TurnsAdmitted`); a command that is due
has created no more sessions than answers of it were lost (`CreatedBefore`); the host's order
has every session, and what a list has read of owners and archive still holds (`ListedAll`). That an
answer says what it omits rests on two lemmas about `cap`, which halves a list until it fits:
its function exists, and what it returns is a beginning of the list that fits.

`PagesInvariant`. The log is in order (`InOrder`): pieces of a frame follow each other, counted from one,
and frames are numbered. From this `DecodedIs` finds what `decodeFrames` gives: exactly the frames that
begin and end near enough within what is read, each once, in their order. So when a log is written on,
what it shows only grows at its end (`ShotsGrow`), unless a call takes the place of a part.
`EntryFits`: an entry of the cache that is as long as the log has what a read gives now, because
every write makes the log longer. `PageFits` and `GapFree` follow: from the top, the pages so far are the first
`offset` rows of what the log shows now; from the end, whatever was whole at the first stat and
lies above the last `offset` rows is still to come, and the rest has been given.

### What the proofs found

- `SessionsAccounted` was not inductive: after a fault the bridge may find its state file
  unreadable and go on with an empty pool, and the sessions only the file knew stay open. TLC had not seen it
  with one fault, and does with two. They are now among the sessions left open by a fault
  (`history.left`), as those of a crash were before.
- `Filter` of `Lists` takes the place of `SelectSeq`, about which the provers know nothing. It is a recursive
  function, so its properties are proved (`FilterIs`) from the two forms of induction in `ListProofs`, that
  a set of numbers without a least, or without a first, is empty: these are instances of well-founded
  induction with sets in the place of predicates. `decodeFrames` and `cap` are reasoned about in the same way.
- `WokenOnce` needs neither an order of ids and timestamps nor histories without faults: it is enough to tell
  the wakes on record from those the code has forgotten, and the exception that is left is the one message a mark was set
  before.
- The bound of a thread is `2 * maxThreadWakes - 1` and not twice the budget: the first wake of a window and the last of
  the next one are more than a window apart.
- `AnswerReachesAsker` needs no table with room for every thread: `Crowded` says when the cap can have evicted a route.

Only model-checked: the liveness properties `QueuesDrain` and `CommandsFinish`, and that
`PullArrives` fails. They need fairness and `ENABLED`, which are outside what the proof system handles.

## Plan

What would come next, in this order:

1. The rest of a call: `wait()` and its timeouts, `clampResult`, and a caller that asks again.
2. The pinned session of the wake tick, and the tools of the plugin.
3. Listings, ranges and links of `fsroot.mjs`; the search and the titles of the DSH view.
4. Proofs: an abstract specification of the queue (a command is asked for, started, ended) that
   `CommandChannel` implements while nothing fails, and one of the bridge's mailbox; the lemmas about
   `planSession` and `sweepPool` as statements of their own.

Runs are kept few, so a new module is checked in `node` or in the run of the
component it works with, and gets one of its own where a document promises something
the code does not do.

## Not modelled

- The MCP endpoint maps tool calls to the operations of `ops.mjs` and keeps only a session
  id; the doctor only reads; the scripts are run by hand and share nothing with a node.
- Parsing, rendering, deny globs, ids and hashes, argument parsing, frpc.toml, the encoding of
  invite codes, the YAML and the skill file of an installation: sequential and pure, best
  served by the repository's unit tests.
- The presence file of a bridge and `wait()` of the queue: they change nothing the queue reads.
- The tick with one pinned session, and the tools and settings the plugin offers to
  conversations.
- The audit log and attachments of the store, listings, ranges and links of the file
  roots, search and titles of the DSH view, status and share of the tunnel.
- The frpc binary, the DSH host and the network are outside the repository: they are modelled
  from how the code uses them, and marked so in `PROJECT.json`.

## Running

    tlc -workers 2 -config MCDeliveryRelay.cfg MCDelivery
    tlc -workers 2 -config MCChannelCrash.cfg CommandChannel
    tlc -workers 2 -config MCRootIsCurrent.cfg FileTransfer
    tlc -workers 2 -config MCBridge.cfg MCBridge
    tlc -workers 2 -config MCNode.cfg MCNode
    tlapm DeliveryProofs.tla
    tlapm BridgeProofs.tla

Each configuration names the question it asks by the properties it lists. The
definitions marked `Mutant:` are plausible mistakes in one operation; put in place of
it, each makes one property fail.
