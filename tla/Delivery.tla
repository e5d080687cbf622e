------------------------------ MODULE Delivery ------------------------------
(***************************************************************************)
(* Message delivery between dsh-link nodes: the outbox of the sender, the  *)
(* HTTP POSTs that push a record, the handler that accepts or relays it,   *)
(* and the pull (sync) of a peer's outbox (src/ops.mjs, src/store.mjs and  *)
(* the routes of src/server.mjs that call them).                           *)
(*                                                                         *)
(* Every "await" at which another request or process can run is a step of  *)
(* its own.  A courier is one caller of sendMessage, flush, dropOutbox or  *)
(* sync: an MCP request, the auto-sync timer of `dshlink serve`, a CLI     *)
(* process.  A call is one POST in flight; it outlives a sender that timed *)
(* out on it.                                                              *)
(***************************************************************************)
EXTENDS Naturals, Sequences, FiniteSets

CONSTANTS
  Node,       \* the nodes, by name
  Msg,        \* message ids; the order of the numbers is the order of ids
  From, To,   \* sender of a message; its recipient, a node or Everyone ("*")
  Everyone,
  Peers,      \* cfg.peers of a node, in the order of its config file
  Tokens,     \* the peers of a node it has a token for
  Relays,     \* the nodes with relay.enabled
  Courier,    \* the concurrent callers, and the node each works for
  Home,
  Timer,      \* the couriers that are the auto-sync timer of their node
  Call,       \* POSTs that can be in flight at once (bound)
  Window,     \* records GET /outbox looks at (200 in the code)
  MaxFaults,  \* timeouts, lost requests and crashes (bound)
  None        \* no message, no node, nobody waiting

ASSUME MessageAssumption ==
  /\ Msg \subseteq Nat
  /\ From \in [Msg -> Node]
  /\ To \in [Msg -> Node \cup {Everyone}]
  /\ Everyone \notin Node

ASSUME TopologyAssumption ==
  /\ Peers \in [Node -> Seq(Node)]
  /\ Tokens \in [Node -> SUBSET Node]
  /\ Relays \subseteq Node
  /\ Home \in [Courier -> Node]
  /\ Timer \subseteq Courier

ASSUME CallAssumption ==
  /\ Call \subseteq Nat
  /\ Courier \cap Call = {}
  /\ None \notin Courier \cup Call \cup Msg \cup Node

ASSUME BoundAssumption == Window \in Nat /\ MaxFaults \in Nat

VARIABLES
  inbox,      \* inbox.jsonl: how many lines each node holds of each message
  outbox,     \* outbox.jsonl: the messages of each node's log
  delivery,   \* state.json "delivery": the state of each message
  courier,    \* what each caller is doing
  post,       \* the POSTs in flight and the handlers that answer them
  faults      \* faults so far

vars == <<inbox, outbox, delivery, courier, post, faults>>

-----------------------------------------------------------------------------
(* The parts of the state.                                                 *)

TERMINAL_DELIVERY == {"delivered", "dropped"}

\* batch: messages still to handle; msg and todo: the message being delivered
\* and the peers not tried yet.
CourierState ==
  [pc : {"idle", "queued", "next", "local", "try", "wait", "drop", "fetched",
         "import"},
   batch : SUBSET Msg, msg : Msg \cup {None}, todo : Seq(Node)]

Idle == [pc |-> "idle", batch |-> {}, msg |-> None, todo |-> <<>>]

\* phase: the request is on its way ("sent") or lost; its handler is about to
\* store it ("append") or waits for the POST that relays it ("forward"); the
\* answer is on its way ("ok", "fail").
Post == [phase : {"sent", "lost", "append", "forward", "ok", "fail"},
         msg : Msg, dst : Node, waiter : Courier \cup Call \cup {None}]

Free == [phase |-> "free", msg |-> None, dst |-> None, waiter |-> None]

IsPeer(n, p) == p # n /\ \E i \in DOMAIN Peers[n] : Peers[n][i] = p

\* The peers deliver() tries for m: the recipient when it is a direct peer,
\* else, when relaying is on, every peer.
Candidates(n, m) ==
  IF IsPeer(n, To[m]) THEN <<To[m]>> ELSE IF n \in Relays THEN Peers[n] ELSE <<>>

pendingOutbox(n) == {m \in outbox[n] : delivery[n][m] \notin TERMINAL_DELIVERY}

Oldest(S, k) == {m \in S : Cardinality({x \in S : x < m}) < k}

\* Mutant: the recipient is not looked at.
OutboxPageOfAll(p, n) == Oldest(outbox[p], Window)

\* GET /outbox?to=n on p: the window is cut first, the recipient filtered after.
OutboxPage(p, n) == {m \in Oldest(outbox[p], Window) : To[m] \in {n, Everyone}}

Held(n) == {m \in Msg : inbox[n][m] > 0}

append(box, n, m) == [box EXCEPT ![n][m] = @ + 1]

setDelivery(n, m, state) == delivery' = [delivery EXCEPT ![n][m] = state]

Continue(w, batch) ==
  courier' = [courier EXCEPT ![w] =
                IF batch = {} THEN Idle
                ELSE [Idle EXCEPT !.pc = "next", !.batch = batch]]

\* A new POST takes the first free slot.
Fresh(c) == /\ post[c] = Free
            /\ \A d \in Call : post[d] = Free => c <= d

Sent(m, dst, waiter) ==
  [phase |-> "sent", msg |-> m, dst |-> dst, waiter |-> waiter]

\* A handler has answered: the slot is kept while somebody waits for it.
Answered(p, answer) ==
  IF p.waiter = None THEN Free ELSE [p EXCEPT !.phase = answer]

\* Mutant: a handler answers whoever has given up.
AbandonedNever(p) == IF p.phase \in {"ok", "fail", "lost"} THEN Free ELSE p

\* Nobody waits any longer: the request, or its handler, may still be running.
Abandoned(p) ==
  IF p.phase \in {"ok", "fail", "lost"} THEN Free
  ELSE [p EXCEPT !.waiter = None]

Fault == faults < MaxFaults /\ faults' = faults + 1

Init ==
  /\ inbox = [n \in Node |-> [m \in Msg |-> 0]]
  /\ outbox = [n \in Node |-> {}]
  /\ delivery = [n \in Node |-> [m \in Msg |-> "pending"]]
  /\ courier = [w \in Courier |-> Idle]
  /\ post = [c \in Call |-> Free]
  /\ faults = 0

-----------------------------------------------------------------------------
(* sendMessage, flush and deliver.                                         *)

\* sendMessage: the record goes to the outbox before anything else.
sendMessage(w, m) ==
  /\ courier[w] = Idle
  /\ From[m] = Home[w] /\ m \notin outbox[Home[w]]
  /\ outbox' = [outbox EXCEPT ![Home[w]] = @ \cup {m}]
  /\ courier' = [courier EXCEPT ![w] = [Idle EXCEPT !.pc = "queued", !.batch = {m}]]
  /\ UNCHANGED <<inbox, delivery, post, faults>>

\* ... then its state is set to pending, whatever a flush did in between.
sendQueued(w, m) ==
  /\ courier[w].pc = "queued" /\ m \in courier[w].batch
  /\ setDelivery(Home[w], m, "pending")
  /\ Continue(w, courier[w].batch)
  /\ UNCHANGED <<inbox, outbox, post, faults>>

\* flush: a snapshot of what is pending, for one recipient or for all.
flush(w, targets) ==
  /\ courier[w] = Idle /\ targets # {}
  /\ \/ targets = pendingOutbox(Home[w])
     \/ \E t \in Node \cup {Everyone} :
          targets = {m \in pendingOutbox(Home[w]) : To[m] = t}
  /\ Continue(w, targets)
  /\ UNCHANGED <<inbox, outbox, delivery, post, faults>>

\* deliver, first step: to oneself the record is appended to the inbox, else
\* the peers to try are listed.
deliver(w, m) ==
  /\ courier[w].pc = "next" /\ m \in courier[w].batch
  /\ \/ /\ To[m] = Home[w]
        /\ inbox' = append(inbox, Home[w], m)
        /\ courier' = [courier EXCEPT ![w] =
             [courier[w] EXCEPT !.pc = "local", !.msg = m, !.batch = @ \ {m}]]
     \/ /\ To[m] # Home[w]
        /\ courier' = [courier EXCEPT ![w] =
             [pc |-> "try", msg |-> m, batch |-> @.batch \ {m},
              todo |-> Candidates(Home[w], m)]]
        /\ UNCHANGED inbox
  /\ UNCHANGED <<outbox, delivery, post, faults>>

deliverLocal(w) ==
  /\ courier[w].pc = "local"
  /\ setDelivery(Home[w], courier[w].msg, "delivered")
  /\ Continue(w, courier[w].batch)
  /\ UNCHANGED <<inbox, outbox, post, faults>>

\* The next candidate is POSTed to, when the node has a token for it ...
deliverPost(w, c) ==
  /\ courier[w].pc = "try" /\ courier[w].todo # <<>>
  /\ Head(courier[w].todo) \in Tokens[Home[w]]
  /\ Fresh(c)
  /\ post' = [post EXCEPT ![c] = Sent(courier[w].msg, Head(courier[w].todo), w)]
  /\ courier' = [courier EXCEPT ![w].pc = "wait", ![w].todo = Tail(@)]
  /\ UNCHANGED <<inbox, outbox, delivery, faults>>

\* ... and passed over when it has none.
deliverSkip(w) ==
  /\ courier[w].pc = "try" /\ courier[w].todo # <<>>
  /\ Head(courier[w].todo) \notin Tokens[Home[w]]
  /\ courier' = [courier EXCEPT ![w].todo = Tail(@)]
  /\ UNCHANGED <<inbox, outbox, delivery, post, faults>>

\* No candidate took it: the message is pending again.
deliverFailed(w) ==
  /\ courier[w].pc = "try" /\ courier[w].todo = <<>>
  /\ setDelivery(Home[w], courier[w].msg, "pending")
  /\ Continue(w, courier[w].batch)
  /\ UNCHANGED <<inbox, outbox, post, faults>>

\* The answer of the candidate: delivered, or on to the next one.
deliverAnswer(w, c) ==
  /\ post[c].waiter = w /\ post[c].phase \in {"ok", "fail"}
  /\ post' = [post EXCEPT ![c] = Free]
  /\ IF post[c].phase = "ok"
     THEN /\ setDelivery(Home[w], courier[w].msg, "delivered")
          /\ Continue(w, courier[w].batch)
     ELSE /\ courier' = [courier EXCEPT ![w].pc = "try"]
          /\ UNCHANGED delivery
  /\ UNCHANGED <<inbox, outbox, faults>>

\* Mutant: a request that got no answer counts as delivered.
deliverTimeoutTaken(w, c) ==
  /\ post[c].waiter = w /\ Fault
  /\ post' = [post EXCEPT ![c] = Abandoned(@)]
  /\ setDelivery(Home[w], courier[w].msg, "delivered")
  /\ Continue(w, courier[w].batch)
  /\ UNCHANGED <<inbox, outbox>>

\* requestTimeoutMs passes first: the request may have been lost, be on its
\* way, be in its handler, or be answered already.
deliverTimeout(w, c) ==
  /\ post[c].waiter = w
  /\ IF post[c].phase = "lost" THEN UNCHANGED faults ELSE Fault
  /\ post' = [post EXCEPT ![c] = Abandoned(@)]
  /\ courier' = [courier EXCEPT ![w].pc = "try"]
  /\ UNCHANGED <<inbox, outbox, delivery>>

-----------------------------------------------------------------------------
(* dropOutbox.                                                             *)

dropOutbox(w, targets) ==
  /\ courier[w] = Idle
  /\ targets # {} /\ targets \subseteq pendingOutbox(Home[w])
  /\ courier' = [courier EXCEPT ![w] = [Idle EXCEPT !.pc = "drop", !.batch = targets]]
  /\ UNCHANGED <<inbox, outbox, delivery, post, faults>>

dropOne(w, m) ==
  /\ courier[w].pc = "drop" /\ m \in courier[w].batch
  /\ setDelivery(Home[w], m, "dropped")
  /\ courier' = [courier EXCEPT ![w] =
       IF courier[w].batch = {m} THEN Idle
       ELSE [courier[w] EXCEPT !.batch = @ \ {m}]]
  /\ UNCHANGED <<inbox, outbox, post, faults>>

-----------------------------------------------------------------------------
(* sync: GET a peer's outbox, then importMessages.                         *)

sync(w, p) ==
  /\ courier[w] = Idle
  /\ IsPeer(Home[w], p) /\ p \in Tokens[Home[w]]
  /\ courier' = [courier EXCEPT ![w] =
       [Idle EXCEPT !.pc = "fetched", !.batch = OutboxPage(p, Home[w])]]
  /\ UNCHANGED <<inbox, outbox, delivery, post, faults>>

\* importMessages reads the ids it already has once ...
importMessages(w) ==
  /\ courier[w].pc = "fetched"
  /\ LET new == courier[w].batch \ Held(Home[w])
     IN  courier' = [courier EXCEPT ![w] =
           IF new = {} THEN Idle ELSE [@ EXCEPT !.pc = "import", !.batch = new]]
  /\ UNCHANGED <<inbox, outbox, delivery, post, faults>>

\* ... and appends the others one after the other.
importOne(w, m) ==
  /\ courier[w].pc = "import" /\ m \in courier[w].batch
  /\ inbox' = append(inbox, Home[w], m)
  /\ courier' = [courier EXCEPT ![w] =
       IF courier[w].batch = {m} THEN Idle
       ELSE [courier[w] EXCEPT !.batch = @ \ {m}]]
  /\ UNCHANGED <<outbox, delivery, post, faults>>

-----------------------------------------------------------------------------
(* acceptMessage: the handler of POST /api/v1/messages.                    *)

\* Mutant: a record that was relayed before is refused.
MayForwardOnce(n, m) == n \in Relays /\ IsPeer(n, To[m]) /\ m \notin outbox[n]

MayForward(n, m) == n \in Relays /\ IsPeer(n, To[m]) /\ To[m] \in Tokens[n]

\* The inbox is searched for the id; a duplicate is accepted at once, a record
\* for this node goes on to be stored, one for a peer is relayed, and any other
\* is refused.
acceptMessage(c) ==
  /\ post[c].phase = "sent"
  /\ LET n == post[c].dst
         m == post[c].msg
     IN  \/ /\ m \in Held(n)
            /\ post' = [post EXCEPT ![c] = Answered(@, "ok")]
         \/ /\ m \notin Held(n) /\ To[m] \in {n, Everyone}
            /\ post' = [post EXCEPT ![c].phase = "append"]
         \/ /\ m \notin Held(n) /\ To[m] \notin {n, Everyone}
            /\ MayForward(n, m)
            /\ \E d \in Call :
                 /\ Fresh(d)
                 /\ post' = [post EXCEPT ![c].phase = "forward",
                                         ![d] = Sent(m, To[m], c)]
         \/ /\ m \notin Held(n) /\ To[m] \notin {n, Everyone}
            /\ ~MayForward(n, m)
            /\ post' = [post EXCEPT ![c] = Answered(@, "fail")]
  /\ UNCHANGED <<inbox, outbox, delivery, courier, faults>>

\* Mutant: the answer does not wait for the append.
acceptStoreUnsaved(c) ==
  /\ post[c].phase = "append"
  /\ post' = [post EXCEPT ![c] = Answered(@, "ok")]
  /\ UNCHANGED <<inbox, outbox, delivery, courier, faults>>

acceptStore(c) ==
  /\ post[c].phase = "append"
  /\ inbox' = append(inbox, post[c].dst, post[c].msg)
  /\ post' = [post EXCEPT ![c] = Answered(@, "ok")]
  /\ UNCHANGED <<outbox, delivery, courier, faults>>

\* The recipient answered the relay: its copy goes to the relay's outbox, with
\* no delivery state of its own, and the sender is told.
acceptRelayed(c, d) ==
  /\ post[d].waiter = c /\ post[d].phase \in {"ok", "fail"}
  /\ post' = [post EXCEPT ![c] = Answered(@, post[d].phase), ![d] = Free]
  /\ outbox' = IF post[d].phase = "ok"
               THEN [outbox EXCEPT ![post[c].dst] = @ \cup {post[c].msg}]
               ELSE outbox
  /\ UNCHANGED <<inbox, delivery, courier, faults>>

\* Mutant: the relay keeps what it could not pass on, as a mail server would.
acceptTimeoutKept(c, d) ==
  /\ post[d].waiter = c /\ Fault
  /\ post' = [post EXCEPT ![c] = Answered(@, "fail"), ![d] = Abandoned(@)]
  /\ outbox' = [outbox EXCEPT ![post[c].dst] = @ \cup {post[c].msg}]
  /\ UNCHANGED <<inbox, delivery, courier>>

acceptTimeout(c, d) ==
  /\ post[d].waiter = c
  /\ IF post[d].phase = "lost" THEN UNCHANGED faults ELSE Fault
  /\ post' = [post EXCEPT ![c] = Answered(@, "fail"), ![d] = Abandoned(@)]
  /\ UNCHANGED <<inbox, outbox, delivery, courier>>

-----------------------------------------------------------------------------
(* What the network and the machines do.                                   *)

\* A request never reaches its handler.
Lose(c) ==
  /\ post[c].phase = "sent" /\ Fault
  /\ post' = [post EXCEPT ![c] = IF @.waiter = None THEN Free
                                 ELSE [@ EXCEPT !.phase = "lost"]]
  /\ UNCHANGED <<inbox, outbox, delivery, courier>>

\* The process of a caller dies between two of its steps; what it wrote stays.
CrashCaller(w) ==
  /\ courier[w] # Idle /\ Fault
  /\ courier' = [courier EXCEPT ![w] = Idle]
  /\ post' = [c \in Call |-> IF post[c].waiter = w THEN Abandoned(post[c]) ELSE post[c]]
  /\ UNCHANGED <<inbox, outbox, delivery>>

\* The serving process of a node dies with a handler in progress: its sender
\* gets no answer, and the POST the handler waits for is abandoned.
CrashHandler(c) ==
  /\ post[c].phase \in {"append", "forward"} /\ Fault
  /\ post' = [d \in Call |->
       IF d = c THEN (IF post[c].waiter = None THEN Free
                      ELSE [post[c] EXCEPT !.phase = "lost"])
       ELSE IF post[d].waiter = c THEN Abandoned(post[d]) ELSE post[d]]
  /\ UNCHANGED <<inbox, outbox, delivery, courier>>

-----------------------------------------------------------------------------
\* A request of the API, the timer or the command line.
Begin(w) ==
  \/ \E m \in Msg : sendMessage(w, m)
  \/ \E targets \in SUBSET outbox[Home[w]] :
       flush(w, targets) \/ dropOutbox(w, targets)
  \/ \E p \in Node : sync(w, p)

\* The next step of one that has begun.
Proceed(w) ==
  \/ \E m \in Msg : sendQueued(w, m) \/ deliver(w, m) \/ dropOne(w, m) \/ importOne(w, m)
  \/ \E c \in Call : deliverPost(w, c) \/ deliverAnswer(w, c) \/ deliverTimeout(w, c)
  \/ deliverLocal(w) \/ deliverSkip(w) \/ deliverFailed(w)
  \/ importMessages(w)

Accept(c) ==
  \/ acceptMessage(c)
  \/ acceptStore(c)
  \/ \E d \in Call : acceptRelayed(c, d) \/ acceptTimeout(c, d)

Fail ==
  \/ \E c \in Call : Lose(c) \/ CrashHandler(c)
  \/ \E w \in Courier : CrashCaller(w)

Next ==
  \/ \E w \in Courier : Begin(w) \/ Proceed(w)
  \/ \E c \in Call : Accept(c)
  \/ Fail

Spec == Init /\ [][Next]_vars

\* What has begun goes on, handlers answer, and the timer of `dshlink serve
\* --auto-sync` flushes the whole queue again and again.
Fairness ==
  /\ \A w \in Courier : WF_vars(Proceed(w))
  /\ \A w \in Timer : SF_vars(flush(w, pendingOutbox(Home[w])))
  /\ \A c \in Call : WF_vars(Accept(c))

FairSpec == Spec /\ Fairness

\* The same timer pulls from every peer the node has a token for.
PullFairness ==
  \A w \in Timer, p \in Node : SF_vars(sync(w, p))

PullSpec == FairSpec /\ PullFairness

-----------------------------------------------------------------------------
(* What must hold.                                                         *)

\* Every line of the three files, every caller and every POST has its form;
\* above all, a caller tries only nodes, never "*".
TypeOK ==
  /\ inbox \in [Node -> [Msg -> Nat]]
  /\ outbox \in [Node -> SUBSET Msg]
  /\ delivery \in [Node -> [Msg -> {"pending"} \cup TERMINAL_DELIVERY]]
  /\ courier \in [Courier -> CourierState]
  /\ post \in [Call -> Post \cup {Free}]
  /\ faults \in Nat

\* m is in the inbox it is meant for (in anybody's, when it is for everyone).
Stored(m) == \E n \in Node : To[m] \in {n, Everyone} /\ inbox[n][m] > 0

\* A node calls a message delivered only when the recipient has it on disk,
\* also when it went through a relay: the relay answers after the recipient
\* answered, and a timed-out, lost or refused POST never counts.
DeliveredIsStored ==
  \A n \in Node, m \in Msg : delivery[n][m] = "delivered" => Stored(m)

\* The copy a relay keeps in its outbox, which it will push again because it
\* has no delivery state, is always of a message that has arrived.
RelayedIsStored ==
  \A n \in Node : \A m \in outbox[n] : From[m] # n => Stored(m)

\* Whatever way a message takes (push, relay, pull of a peer's outbox), it ends
\* up only in an inbox it is addressed to: a hub never keeps what it relays.
InboxIsAddressed ==
  \A n \in Node, m \in Msg : inbox[n][m] > 0 => To[m] \in {n, Everyone}

\* With the auto-sync timer running everywhere and only finitely many faults,
\* every queue, the relay's too, ends up empty for good: no record is refused
\* for ever because an earlier, half-failed attempt already stored it.
QueuesDrain == <>[](\A n \in Node : pendingOutbox(n) = {})

\* docs/DESIGN.md promises that a message is stored once, because ids are
\* unique and the receiver drops an id it has seen.
StoredOnce == \A n \in Node, m \in Msg : inbox[n][m] <= 1

\* docs/DESIGN.md promises that a node its senders cannot reach gets their
\* messages all the same, by pulling their outboxes.
PullArrives ==
  \A m \in Msg :
    (/\ m \in outbox[From[m]]
     /\ To[m] \in Node /\ IsPeer(To[m], From[m]) /\ From[m] \in Tokens[To[m]])
      ~> Stored(m)

\* dropOutbox promises that what the operator gave up on is "never retried".
DroppedIsFinal ==
  [][\A n \in Node, m \in Msg :
       delivery[n][m] = "dropped" => delivery'[n][m] = "dropped"]_vars

-----------------------------------------------------------------------------
(* The inductive invariant behind DeliveredIsStored and InboxIsAddressed:   *)
(* who waits for what, and what an answer in flight stands for.            *)

\* An answer "ok" in flight, and the local append before it is recorded, stand
\* for a stored message.
AnswerIsStored ==
  /\ \A c \in Call : post[c].phase = "ok" => Stored(post[c].msg)
  /\ \A w \in Courier : courier[w].pc = "local" => Stored(courier[w].msg)

\* A handler about to store, and a caller about to import, have looked at the
\* recipient.
StoreIsAddressed ==
  /\ \A c \in Call : post[c].phase = "append" =>
                       To[post[c].msg] \in {post[c].dst, Everyone}
  /\ \A w \in Courier : courier[w].pc \in {"fetched", "import"} =>
       \A m \in courier[w].batch : To[m] \in {Home[w], Everyone}

\* A caller waits for at most one POST, of the message it is delivering, and so
\* does a handler that relays.
WaitersMatch ==
  /\ \A w \in Courier, c \in Call : post[c].waiter = w =>
       courier[w].pc = "wait" /\ courier[w].msg = post[c].msg
  /\ \A c, d \in Call : post[d].waiter = c =>
       post[c].phase = "forward" /\ post[c].msg = post[d].msg
  /\ \A c, d \in Call : post[c].waiter = post[d].waiter /\ post[c].waiter # None => c = d

\* ... and not for the request it answers.
NoSelfWait == \A c \in Call : post[c].waiter # c

BusyHasMessage ==
  \A w \in Courier : courier[w].pc \in {"local", "try", "wait"} => courier[w].msg \in Msg

\* All of it together, inductive: nobody waits for an answer that is not meant
\* for it, and no answer promises what is not on disk.
Invariant ==
  /\ TypeOK
  /\ BusyHasMessage
  /\ WaitersMatch
  /\ NoSelfWait
  /\ StoreIsAddressed
  /\ InboxIsAddressed
  /\ AnswerIsStored
  /\ DeliveredIsStored
  /\ RelayedIsStored

Promise == INSTANCE Mailbox WITH
  sent <- {m \in Msg : m \in outbox[From[m]]},
  arrived <- {m \in Msg : Stored(m)},
  settled <- {m \in Msg : delivery[From[m]][m] = "delivered"}

\* Delivery is at least once, as the abstract Mailbox has it.
ImplementsMailbox == Promise!Spec

=============================================================================
