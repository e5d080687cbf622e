--------------------------- MODULE DeliveryProofs ---------------------------
(***************************************************************************)
(* Proofs about Delivery, for every topology, every set of messages and    *)
(* any number of callers, calls and faults.                                *)
(***************************************************************************)
EXTENDS Delivery, TLAPS

USE DEF TERMINAL_DELIVERY

-----------------------------------------------------------------------------
(* The values the operators of Delivery return.                            *)

\* Candidates(n, m) is a sequence of nodes: what deliver tries next.
LEMMA CandidatesType ==
  ASSUME NEW n \in Node, NEW m \in Msg PROVE Candidates(n, m) \in Seq(Node)
<1>1. IsPeer(n, To[m]) => To[m] \in Node
  BY TopologyAssumption DEF IsPeer
<1>2. Peers[n] \in Seq(Node)
  BY TopologyAssumption
<1>3. QED BY <1>1, <1>2 DEF Candidates

\* A caller that does nothing has the form of a caller.
LEMMA IdleType == Idle \in CourierState
BY DEF Idle, CourierState

\* What a caller may become, field by field.
LEMMA CourierFields ==
  ASSUME NEW s \in CourierState, NEW S \in SUBSET Msg, NEW m
  PROVE  /\ [s EXCEPT !.batch = @ \ {m}] \in CourierState
         /\ \A pc \in {"queued", "next", "drop", "fetched", "import"} :
              [s EXCEPT !.pc = pc, !.batch = S] \in CourierState
         /\ m \in Msg => [s EXCEPT !.pc = "local", !.msg = m, !.batch = @ \ {m}] \in CourierState
         /\ [s EXCEPT !.pc = "try"] \in CourierState
         /\ s.todo # <<>> => /\ [s EXCEPT !.todo = Tail(@)] \in CourierState
                             /\ [s EXCEPT !.pc = "wait", !.todo = Tail(@)] \in CourierState
<1> USE DEF CourierState
<1>1. [s EXCEPT !.batch = @ \ {m}] \in CourierState
  OBVIOUS
<1>2. ASSUME NEW pc \in {"queued", "next", "drop", "fetched", "import"}
      PROVE  [s EXCEPT !.pc = pc, !.batch = S] \in CourierState
  OBVIOUS
<1>3. m \in Msg => [s EXCEPT !.pc = "local", !.msg = m, !.batch = @ \ {m}] \in CourierState
  OBVIOUS
<1>4. [s EXCEPT !.pc = "try"] \in CourierState
  OBVIOUS
<1>5. ASSUME s.todo # <<>>
      PROVE  /\ [s EXCEPT !.todo = Tail(@)] \in CourierState
             /\ [s EXCEPT !.pc = "wait", !.todo = Tail(@)] \in CourierState
  <2>1. s.todo \in Seq(Node)
    OBVIOUS
  <2>2. Tail(s.todo) \in Seq(Node)
    BY <2>1, <1>5
  <2>3. QED BY <2>2
<1>6. QED BY <1>1, <1>2, <1>3, <1>4, <1>5

\* What a slot may become, and that a slot that is in use holds a Post.
LEMMA PostFields ==
  ASSUME NEW p \in Post
  PROVE  /\ Answered(p, "ok") \in Post \cup {Free}
         /\ Answered(p, "fail") \in Post \cup {Free}
         /\ Abandoned(p) \in Post \cup {Free}
         /\ [p EXCEPT !.phase = "append"] \in Post
         /\ [p EXCEPT !.phase = "forward"] \in Post
         /\ [p EXCEPT !.phase = "lost"] \in Post
BY DEF Answered, Abandoned, Post

\* A new POST has its form, and somebody may wait for it.
LEMMA SentType ==
  ASSUME NEW m \in Msg, NEW n \in Node, NEW c \in Courier \cup Call
  PROVE  Sent(m, n, c) \in Post
BY DEF Sent, Post

\* A slot that holds no free POST holds one of the right form.
LEMMA SlotInUse ==
  ASSUME TypeOK, NEW c \in Call, post[c].phase # "free" \/ post[c].waiter # None
  PROVE  post[c] \in Post
BY DEF TypeOK, Free

\* _appendJsonl to an inbox leaves it an inbox.
LEMMA AppendType ==
  ASSUME TypeOK, NEW n \in Node, NEW m \in Msg
  PROVE  append(inbox, n, m) \in [Node -> [Msg -> Nat]]
BY DEF TypeOK, append

\* setDelivery leaves the delivery states delivery states.
LEMMA SetDeliveryType ==
  ASSUME TypeOK, NEW n \in Node, NEW m,
         NEW s \in {"pending", "delivered", "dropped"}, setDelivery(n, m, s)
  PROVE  delivery' \in [Node -> [Msg -> {"pending"} \cup TERMINAL_DELIVERY]]
BY DEF TypeOK, setDelivery

\* A caller that goes on to its next message has its form.
LEMMA ContinueType ==
  ASSUME TypeOK, NEW w \in Courier, NEW S \in SUBSET Msg, Continue(w, S)
  PROVE  courier' \in [Courier -> CourierState]
<1>1. [Idle EXCEPT !.pc = "next", !.batch = S] \in CourierState
  BY IdleType, CourierFields
<1> DEFINE s == IF S = {} THEN Idle ELSE [Idle EXCEPT !.pc = "next", !.batch = S]
<1>2. s \in CourierState
  BY <1>1, IdleType
<1>3. courier' = [courier EXCEPT ![w] = s]
  BY DEF Continue
<1> HIDE DEF s
<1>4. QED BY <1>2, <1>3 DEF TypeOK

-----------------------------------------------------------------------------
\* Every step of every caller, handler and machine keeps the types.
LEMMA TypeStep ==
  ASSUME TypeOK, BusyHasMessage, WaitersMatch, [Next]_vars PROVE TypeOK'
<1> USE DEF TypeOK
<1>0. \A w \in Courier : /\ courier[w] \in CourierState
                         /\ Home[w] \in Node
                         /\ courier[w].batch \in SUBSET Msg
  BY TopologyAssumption DEF CourierState
<1>1. ASSUME NEW w \in Courier, NEW m \in Msg, sendMessage(w, m) PROVE TypeOK'
  <2>1. [Idle EXCEPT !.pc = "queued", !.batch = {m}] \in CourierState
    BY IdleType, CourierFields
  <2>2. QED BY <1>0, <1>1, <2>1 DEF sendMessage
<1>2. ASSUME NEW w \in Courier, NEW m \in Msg, sendQueued(w, m) PROVE TypeOK'
  <2>1. courier' \in [Courier -> CourierState]
    BY <1>0, <1>2, ContinueType DEF sendQueued
  <2>2. delivery' \in [Node -> [Msg -> {"pending"} \cup TERMINAL_DELIVERY]]
    BY <1>0, <1>2, SetDeliveryType DEF sendQueued
  <2>3. QED BY <1>2, <2>1, <2>2 DEF sendQueued
<1>3. ASSUME NEW w \in Courier, NEW S \in SUBSET outbox[Home[w]], flush(w, S) PROVE TypeOK'
  <2>1. S \in SUBSET Msg
    BY <1>0
  <2>2. courier' \in [Courier -> CourierState]
    BY <1>3, <2>1, ContinueType DEF flush
  <2>3. QED BY <1>3, <2>2 DEF flush
<1>4. ASSUME NEW w \in Courier, NEW m \in Msg, deliver(w, m) PROVE TypeOK'
  <2>1. CASE To[m] = Home[w]
    <3>1. [courier[w] EXCEPT !.pc = "local", !.msg = m, !.batch = @ \ {m}] \in CourierState
      BY <1>0, CourierFields
    <3>2. courier' = [courier EXCEPT ![w] =
             [courier[w] EXCEPT !.pc = "local", !.msg = m, !.batch = @ \ {m}]]
      BY <1>4, <2>1 DEF deliver
    <3>3. QED BY <1>0, <1>4, <2>1, <3>1, <3>2, AppendType DEF deliver
  <2>2. CASE To[m] # Home[w]
    <3>1. [pc |-> "try", msg |-> m, batch |-> courier[w].batch \ {m},
           todo |-> Candidates(Home[w], m)] \in CourierState
      BY <1>0, CandidatesType DEF CourierState
    <3>2. QED BY <1>4, <2>2, <3>1 DEF deliver
  <2>3. QED BY <2>1, <2>2
<1>5. ASSUME NEW w \in Courier, deliverLocal(w) PROVE TypeOK'
  <2>1. courier' \in [Courier -> CourierState]
    BY <1>0, <1>5, ContinueType DEF deliverLocal
  <2>2. delivery' \in [Node -> [Msg -> {"pending"} \cup TERMINAL_DELIVERY]]
    BY <1>0, <1>5, SetDeliveryType DEF deliverLocal
  <2>3. QED BY <1>5, <2>1, <2>2 DEF deliverLocal
<1>6. ASSUME NEW w \in Courier, NEW c \in Call, deliverPost(w, c) PROVE TypeOK'
  <2>1. [courier[w] EXCEPT !.pc = "wait", !.todo = Tail(@)] \in CourierState
    BY <1>0, <1>6, CourierFields DEF deliverPost
  <2>2. courier' = [courier EXCEPT ![w] = [courier[w] EXCEPT !.pc = "wait", !.todo = Tail(@)]]
    BY <1>6 DEF deliverPost
  <2>3. courier[w].msg \in Msg /\ Head(courier[w].todo) \in Node
    BY <1>0, <1>6 DEF deliverPost, BusyHasMessage, CourierState
  <2>4. Sent(courier[w].msg, Head(courier[w].todo), w) \in Post
    BY <2>3, SentType
  <2>5. QED BY <1>6, <2>1, <2>2, <2>4 DEF deliverPost
<1>7. ASSUME NEW w \in Courier, deliverSkip(w) PROVE TypeOK'
  <2>1. [courier[w] EXCEPT !.todo = Tail(@)] \in CourierState
    BY <1>0, <1>7, CourierFields DEF deliverSkip
  <2>2. courier' = [courier EXCEPT ![w] = [courier[w] EXCEPT !.todo = Tail(@)]]
    BY <1>7 DEF deliverSkip
  <2>3. QED BY <1>7, <2>1, <2>2 DEF deliverSkip
<1>8. ASSUME NEW w \in Courier, deliverFailed(w) PROVE TypeOK'
  <2>1. courier' \in [Courier -> CourierState]
    BY <1>0, <1>8, ContinueType DEF deliverFailed
  <2>2. delivery' \in [Node -> [Msg -> {"pending"} \cup TERMINAL_DELIVERY]]
    BY <1>0, <1>8, SetDeliveryType DEF deliverFailed
  <2>3. QED BY <1>8, <2>1, <2>2 DEF deliverFailed
<1>9. ASSUME NEW w \in Courier, NEW S \in SUBSET outbox[Home[w]], dropOutbox(w, S) PROVE TypeOK'
  <2>1. [Idle EXCEPT !.pc = "drop", !.batch = S] \in CourierState
    BY <1>0, IdleType, CourierFields
  <2>2. QED BY <1>9, <2>1 DEF dropOutbox
<1>10. ASSUME NEW w \in Courier, NEW m \in Msg, dropOne(w, m) PROVE TypeOK'
  <2> DEFINE s == IF courier[w].batch = {m} THEN Idle
                  ELSE [courier[w] EXCEPT !.batch = @ \ {m}]
  <2>1. s \in CourierState
    BY <1>0, IdleType, CourierFields
  <2>2. courier' = [courier EXCEPT ![w] = s]
    BY <1>10 DEF dropOne
  <2>3. delivery' \in [Node -> [Msg -> {"pending"} \cup TERMINAL_DELIVERY]]
    BY <1>0, <1>10, SetDeliveryType DEF dropOne
  <2> HIDE DEF s
  <2>4. QED BY <1>10, <2>1, <2>2, <2>3 DEF dropOne
<1>11. ASSUME NEW w \in Courier, NEW p \in Node, sync(w, p) PROVE TypeOK'
  <2>1. OutboxPage(p, Home[w]) \in SUBSET Msg
    BY DEF OutboxPage, Oldest
  <2>2. [Idle EXCEPT !.pc = "fetched", !.batch = OutboxPage(p, Home[w])] \in CourierState
    BY <2>1, IdleType, CourierFields
  <2>3. QED BY <1>11, <2>2 DEF sync
<1>12. ASSUME NEW w \in Courier, importMessages(w) \/ \E m \in Msg : importOne(w, m)
       PROVE  TypeOK'
  <2>1. CASE importMessages(w)
    <3> DEFINE new == courier[w].batch \ Held(Home[w])
               s == IF new = {} THEN Idle
                    ELSE [courier[w] EXCEPT !.pc = "import", !.batch = new]
    <3>1. s \in CourierState
      BY <1>0, IdleType, CourierFields
    <3>2. courier' = [courier EXCEPT ![w] = s]
      BY <2>1 DEF importMessages
    <3> HIDE DEF s
    <3>3. QED BY <2>1, <3>1, <3>2 DEF importMessages
  <2>2. ASSUME NEW m \in Msg, importOne(w, m) PROVE TypeOK'
    <3> DEFINE s == IF courier[w].batch = {m} THEN Idle
                    ELSE [courier[w] EXCEPT !.batch = @ \ {m}]
    <3>1. s \in CourierState
      BY <1>0, IdleType, CourierFields
    <3>2. courier' = [courier EXCEPT ![w] = s]
      BY <2>2 DEF importOne
    <3>3. inbox' \in [Node -> [Msg -> Nat]]
      BY <1>0, <2>2, AppendType DEF importOne
    <3> HIDE DEF s
    <3>4. QED BY <2>2, <3>1, <3>2, <3>3 DEF importOne
  <2>3. QED BY <1>12, <2>1, <2>2
<1>13. ASSUME NEW w \in Courier, NEW c \in Call, deliverAnswer(w, c) PROVE TypeOK'
  <2>1. courier[w].batch \in SUBSET Msg
    BY DEF CourierState
  <2>2. [courier[w] EXCEPT !.pc = "try"] \in CourierState
    BY CourierFields
  <2>3. courier' \in [Courier -> CourierState]
    BY <1>13, <2>1, <2>2, ContinueType DEF deliverAnswer
  <2>4. delivery' \in [Node -> [Msg -> {"pending"} \cup TERMINAL_DELIVERY]]
    BY <1>0, <1>13, SetDeliveryType DEF deliverAnswer
  <2>5. QED BY <1>13, <2>3, <2>4 DEF deliverAnswer
<1>14. ASSUME NEW w \in Courier, NEW c \in Call, deliverTimeout(w, c) PROVE TypeOK'
  <2>1. [courier[w] EXCEPT !.pc = "try"] \in CourierState
    BY CourierFields
  <2>2. post[c] \in Post
    BY <1>14, SlotInUse, CallAssumption DEF deliverTimeout
  <2>3. Abandoned(post[c]) \in Post \cup {Free}
    BY <2>2, PostFields
  <2>4. QED BY <1>14, <2>1, <2>3 DEF deliverTimeout, Fault
<1>15. ASSUME NEW c \in Call, acceptMessage(c) PROVE TypeOK'
  <2>1. post[c] \in Post
    BY <1>15, SlotInUse DEF acceptMessage
  <2>2. /\ Answered(post[c], "ok") \in Post \cup {Free}
        /\ Answered(post[c], "fail") \in Post \cup {Free}
        /\ [post[c] EXCEPT !.phase = "append"] \in Post
        /\ [post[c] EXCEPT !.phase = "forward"] \in Post
    BY <2>1, PostFields
  <2>3. ASSUME MayForward(post[c].dst, post[c].msg)
        PROVE  Sent(post[c].msg, To[post[c].msg], c) \in Post
    BY <2>1, <2>3, TopologyAssumption, SentType DEF MayForward, IsPeer, Post
  <2>4. post' \in [Call -> Post \cup {Free}]
    BY <1>15, <2>1, <2>2, <2>3 DEF acceptMessage
  <2>5. QED BY <1>15, <2>4 DEF acceptMessage
<1>16. ASSUME NEW c \in Call, acceptStore(c) PROVE TypeOK'
  <2>1. post[c] \in Post
    BY <1>16, SlotInUse DEF acceptStore
  <2>2. Answered(post[c], "ok") \in Post \cup {Free}
    BY <2>1, PostFields
  <2>3. QED BY <1>16, <2>1, <2>2, AppendType DEF acceptStore, Post
<1>17. ASSUME NEW c \in Call, NEW d \in Call, acceptRelayed(c, d) \/ acceptTimeout(c, d)
       PROVE  TypeOK'
  <2>1. post[d] \in Post
    BY <1>17, SlotInUse, CallAssumption DEF acceptRelayed, acceptTimeout
  <2>2. post[c] \in Post
    BY <1>17, SlotInUse DEF acceptRelayed, acceptTimeout, WaitersMatch
  <2>3. /\ Answered(post[c], "ok") \in Post \cup {Free}
        /\ Answered(post[c], "fail") \in Post \cup {Free}
        /\ Abandoned(post[d]) \in Post \cup {Free}
    BY <2>1, <2>2, PostFields
  <2>4. CASE acceptRelayed(c, d)
    <3>1. post' \in [Call -> Post \cup {Free}]
      BY <2>3, <2>4 DEF acceptRelayed
    <3>2. outbox' \in [Node -> SUBSET Msg]
      BY <2>2, <2>4 DEF acceptRelayed, Post
    <3>3. QED BY <2>4, <3>1, <3>2 DEF acceptRelayed
  <2>5. CASE acceptTimeout(c, d)
    <3>1. post' \in [Call -> Post \cup {Free}]
      BY <2>3, <2>5 DEF acceptTimeout
    <3>2. QED BY <2>5, <3>1 DEF acceptTimeout, Fault
  <2>6. QED BY <1>17, <2>4, <2>5
<1>18. ASSUME NEW c \in Call, Lose(c) PROVE TypeOK'
  <2>1. post[c] \in Post
    BY <1>18, SlotInUse DEF Lose
  <2>2. [post[c] EXCEPT !.phase = "lost"] \in Post
    BY <2>1, PostFields
  <2>3. post' \in [Call -> Post \cup {Free}]
    BY <1>18, <2>2 DEF Lose
  <2>4. QED BY <1>18, <2>3 DEF Lose, Fault
<1>19. ASSUME NEW w \in Courier, CrashCaller(w) PROVE TypeOK'
  <2>1. ASSUME NEW c \in Call, post[c].waiter = w
        PROVE  Abandoned(post[c]) \in Post \cup {Free}
    <3>1. post[c] \in Post
      BY <2>1, SlotInUse, CallAssumption
    <3>2. QED BY <3>1, PostFields
  <2>2. post' \in [Call -> Post \cup {Free}]
    BY <1>19, <2>1 DEF CrashCaller
  <2>3. courier' \in [Courier -> CourierState]
    BY <1>19, IdleType DEF CrashCaller
  <2>4. QED BY <1>19, <2>2, <2>3 DEF CrashCaller, Fault
<1>20. ASSUME NEW c \in Call, CrashHandler(c) PROVE TypeOK'
  <2>1. post[c] \in Post
    BY <1>20, SlotInUse DEF CrashHandler
  <2>2. [post[c] EXCEPT !.phase = "lost"] \in Post
    BY <2>1, PostFields
  <2>3. ASSUME NEW d \in Call, post[d].waiter = c
        PROVE  Abandoned(post[d]) \in Post \cup {Free}
    <3>1. post[d] \in Post
      BY <2>3, SlotInUse, CallAssumption
    <3>2. QED BY <3>1, PostFields
  <2>4. post' \in [Call -> Post \cup {Free}]
    BY <1>20, <2>2, <2>3 DEF CrashHandler
  <2>5. UNCHANGED <<inbox, outbox, delivery, courier>> /\ faults' \in Nat
    BY <1>20 DEF CrashHandler, Fault
  <2>6. QED BY <2>4, <2>5
<1>21. ASSUME UNCHANGED vars PROVE TypeOK'
  BY <1>21 DEF vars
<1>22. QED
  BY <1>1, <1>2, <1>3, <1>4, <1>5, <1>6, <1>7, <1>8, <1>9, <1>10, <1>11, <1>12, <1>13,
     <1>14, <1>15, <1>16, <1>17, <1>18, <1>19, <1>20, <1>21
  DEF Next, Begin, Proceed, Accept, Fail

-----------------------------------------------------------------------------
(* Who waits for what.                                                     *)

\* A caller that delivers keeps its message until it is done with it.
LEMMA BusyStep ==
  ASSUME TypeOK, BusyHasMessage, WaitersMatch, [Next]_vars PROVE BusyHasMessage'
<1> USE DEF BusyHasMessage
<1>0. \A w \in Courier : courier[w] \in CourierState
  BY DEF TypeOK
<1>1. ASSUME NEW w \in Courier, NEW S, Continue(w, S) PROVE BusyHasMessage'
  BY <1>1 DEF TypeOK, Continue, Idle
<1>2. ASSUME NEW w \in Courier, NEW m \in Msg, sendMessage(w, m) PROVE BusyHasMessage'
  BY <1>2 DEF TypeOK, sendMessage, Idle
<1>3. ASSUME NEW w \in Courier, NEW S, dropOutbox(w, S) PROVE BusyHasMessage'
  BY <1>3 DEF TypeOK, dropOutbox, Idle
<1>4. ASSUME NEW w \in Courier, NEW p, sync(w, p) PROVE BusyHasMessage'
  BY <1>4 DEF TypeOK, sync, Idle
<1>5. ASSUME NEW w \in Courier, NEW m \in Msg, dropOne(w, m) \/ importOne(w, m) PROVE BusyHasMessage'
  <2>1. [courier[w] EXCEPT !.batch = @ \ {m}].pc = courier[w].pc
    BY <1>0 DEF CourierState
  <2>2. /\ courier'[w] = Idle \/ courier'[w] = [courier[w] EXCEPT !.batch = @ \ {m}]
        /\ courier[w].pc = "drop" \/ courier[w].pc = "import"
    BY <1>5 DEF TypeOK, dropOne, importOne
  <2>3. \A v \in Courier \ {w} : courier'[v] = courier[v]
    BY <1>5 DEF TypeOK, dropOne, importOne
  <2>4. courier'[w].pc \in {"idle", "drop", "import"}
    <3>1. CASE courier'[w] = Idle
      BY <3>1 DEF Idle
    <3>2. CASE courier'[w] = [courier[w] EXCEPT !.batch = @ \ {m}]
      <4> DEFINE s == [courier[w] EXCEPT !.batch = @ \ {m}]
      <4> HIDE DEF s
      <4>1. courier'[w].pc = courier[w].pc
        BY <2>1, <3>2 DEF s
      <4>2. QED BY <2>2, <4>1
    <3>3. QED BY <2>2, <3>1, <3>2
  <2>5. QED BY <2>3, <2>4
<1>6. ASSUME NEW w \in Courier, importMessages(w) PROVE BusyHasMessage'
  BY <1>0, <1>6 DEF TypeOK, importMessages, Idle, CourierState
<1>7. ASSUME NEW w \in Courier, NEW m \in Msg, deliver(w, m) PROVE BusyHasMessage'
  <2>1. PICK t \in CourierState : t.msg = m /\ courier' = [courier EXCEPT ![w] = t]
    <3>1. CASE To[m] = Home[w]
      <4>1. [courier[w] EXCEPT !.pc = "local", !.msg = m, !.batch = @ \ {m}] \in CourierState
        BY <1>0, CourierFields
      <4>2. QED BY <1>0, <1>7, <3>1, <4>1 DEF deliver, CourierState
    <3>2. CASE To[m] # Home[w]
      <4>1. [pc |-> "try", msg |-> m, batch |-> courier[w].batch \ {m},
             todo |-> Candidates(Home[w], m)] \in CourierState
        BY <1>0, CandidatesType, TopologyAssumption DEF CourierState
      <4>2. QED BY <1>7, <3>2, <4>1 DEF deliver
    <3>3. QED BY <3>1, <3>2
  <2>2. QED BY <2>1 DEF TypeOK
<1>8. ASSUME NEW w \in Courier, NEW c \in Call,
             \/ deliverPost(w, c)
             \/ deliverTimeout(w, c)
             \/ deliverAnswer(w, c) /\ post[c].phase = "fail"
      PROVE  BusyHasMessage'
  <2>1. courier[w].msg \in Msg
    BY <1>8 DEF deliverPost, deliverTimeout, deliverAnswer, WaitersMatch
  <2>2. courier'[w].msg = courier[w].msg
    BY <1>0, <1>8 DEF TypeOK, deliverPost, deliverTimeout, deliverAnswer, CourierState
  <2>3. \A v \in Courier \ {w} : courier'[v] = courier[v]
    BY <1>8 DEF TypeOK, deliverPost, deliverTimeout, deliverAnswer
  <2>4. QED BY <2>1, <2>2, <2>3
<1>9. ASSUME NEW w \in Courier, CrashCaller(w) PROVE BusyHasMessage'
  BY <1>9 DEF TypeOK, CrashCaller, Idle
<1>10. ASSUME UNCHANGED courier PROVE BusyHasMessage'
  BY <1>10
<1>11. ASSUME NEW c \in Call, Accept(c) \/ Lose(c) \/ CrashHandler(c) PROVE BusyHasMessage'
  BY <1>10, <1>11 DEF Accept, acceptMessage, acceptStore, acceptRelayed, acceptTimeout,
                      Lose, CrashHandler
<1>12. ASSUME NEW w \in Courier, Begin(w) PROVE BusyHasMessage'
  BY <1>1, <1>2, <1>3, <1>4, <1>12 DEF Begin, flush
<1>13. ASSUME NEW w \in Courier, deliverSkip(w) PROVE BusyHasMessage'
  <2>1. courier' = [courier EXCEPT ![w] = [courier[w] EXCEPT !.todo = Tail(@)]]
    BY <1>13 DEF deliverSkip
  <2>2. courier'[w].msg = courier[w].msg
    BY <1>0, <2>1 DEF TypeOK, CourierState
  <2>3. courier[w].msg \in Msg
    BY <1>13 DEF deliverSkip
  <2>4. \A v \in Courier \ {w} : courier'[v] = courier[v]
    BY <2>1 DEF TypeOK
  <2>5. QED BY <2>2, <2>3, <2>4
<1>14. ASSUME NEW w \in Courier, Proceed(w) PROVE BusyHasMessage'
  <2>1. ASSUME NEW m \in Msg, sendQueued(w, m) PROVE BusyHasMessage'
    BY <1>1, <2>1 DEF sendQueued
  <2>2. ASSUME deliverLocal(w) \/ deliverFailed(w) PROVE BusyHasMessage'
    BY <1>1, <2>2 DEF deliverLocal, deliverFailed
  <2>3. ASSUME NEW c \in Call, deliverAnswer(w, c) PROVE BusyHasMessage'
    <3>1. CASE post[c].phase = "ok"
      BY <1>1, <2>3, <3>1 DEF deliverAnswer
    <3>2. CASE post[c].phase = "fail"
      BY <1>8, <2>3, <3>2
    <3>3. QED BY <2>3, <3>1, <3>2 DEF deliverAnswer
  <2>4. ASSUME NEW m \in Msg,
               sendQueued(w, m) \/ deliver(w, m) \/ dropOne(w, m) \/ importOne(w, m)
        PROVE  BusyHasMessage'
    BY <1>5, <1>7, <2>1, <2>4
  <2>5. ASSUME NEW c \in Call, deliverPost(w, c) \/ deliverAnswer(w, c) \/ deliverTimeout(w, c)
        PROVE  BusyHasMessage'
    BY <1>8, <2>3, <2>5
  <2>6. QED
    BY <1>6, <1>13, <1>14, <2>2, <2>4, <2>5 DEF Proceed
<1>15. QED
  BY <1>9, <1>10, <1>11, <1>12, <1>14 DEF Next, Fail, vars

\* A caller that waits for nothing may go on, whatever it does next.
LEMMA WaitersCaller ==
  ASSUME TypeOK, WaitersMatch, UNCHANGED post, NEW w \in Courier, courier[w].pc # "wait",
         \A v \in Courier \ {w} : courier'[v] = courier[v]
  PROVE  WaitersMatch'
BY DEF WaitersMatch

\* A caller that does nothing waits for nothing.
LEMMA IdlePc == Idle.pc = "idle"
BY DEF Idle

\* A caller that moves, moves alone.
LEMMA Moves ==
  ASSUME NEW w \in Courier, Begin(w) \/ Proceed(w)
  PROVE  \E r : courier' = [courier EXCEPT ![w] = r]
<1> DEFINE Goal == \E r : courier' = [courier EXCEPT ![w] = r]
<1>1. ASSUME NEW S, Continue(w, S) PROVE Goal
  BY <1>1 DEF Continue
<1>2. ASSUME NEW m \in Msg, sendMessage(w, m) PROVE Goal
  BY <1>2 DEF sendMessage
<1>3. ASSUME NEW m \in Msg, deliver(w, m) PROVE Goal
  BY <1>3 DEF deliver
<1>4. ASSUME NEW m \in Msg, dropOne(w, m) \/ importOne(w, m) PROVE Goal
  BY <1>4 DEF dropOne, importOne
<1>5. ASSUME NEW S, dropOutbox(w, S) PROVE Goal
  BY <1>5 DEF dropOutbox
<1>6. ASSUME NEW p, sync(w, p) PROVE Goal
  BY <1>6 DEF sync
<1>7. ASSUME deliverSkip(w) PROVE Goal
  BY <1>7 DEF deliverSkip
<1>8. ASSUME importMessages(w) PROVE Goal
  BY <1>8 DEF importMessages
<1>9. ASSUME NEW c \in Call, deliverPost(w, c) PROVE Goal
  <2>1. courier' = [courier EXCEPT ![w] = [courier[w] EXCEPT !.pc = "wait", !.todo = Tail(@)]]
    BY <1>9 DEF deliverPost
  <2>2. QED BY <2>1
<1>10. ASSUME NEW c \in Call, deliverAnswer(w, c) \/ deliverTimeout(w, c) PROVE Goal
  BY <1>1, <1>10 DEF deliverAnswer, deliverTimeout
<1>11. ASSUME Begin(w) PROVE Goal
  BY <1>1, <1>2, <1>5, <1>6, <1>11 DEF Begin, flush
<1>12. ASSUME Proceed(w) PROVE Goal
  BY <1>1, <1>3, <1>4, <1>7, <1>8, <1>9, <1>10, <1>12
  DEF Proceed, sendQueued, deliverLocal, deliverFailed
<1>13. QED BY <1>11, <1>12

\* Every caller that moves without a POST waits for nothing.
LEMMA WaitersLocal ==
  ASSUME TypeOK, WaitersMatch, NEW w \in Courier, Begin(w) \/ Proceed(w),
         \A c \in Call : ~deliverPost(w, c) /\ ~deliverAnswer(w, c) /\ ~deliverTimeout(w, c)
  PROVE  WaitersMatch'
<1>1. UNCHANGED post
  BY DEF Begin, Proceed, sendMessage, sendQueued, deliver, dropOne, importOne, flush,
         dropOutbox, sync, deliverLocal, deliverSkip, deliverFailed, importMessages
<1>2. courier[w].pc # "wait"
  BY IdlePc
  DEF Begin, Proceed, sendMessage, sendQueued, deliver, dropOne, importOne, flush,
      dropOutbox, sync, deliverLocal, deliverSkip, deliverFailed, importMessages
<1>3. \A v \in Courier \ {w} : courier'[v] = courier[v]
  BY Moves DEF TypeOK
<1>4. QED BY <1>1, <1>2, <1>3, WaitersCaller

\* Callers keep to themselves while they change a slot of theirs.
LEMMA WaitersPost ==
  ASSUME TypeOK, WaitersMatch, NEW w \in Courier, NEW c \in Call, deliverPost(w, c)
  PROVE  WaitersMatch'
<1> USE CallAssumption
<1>0. courier' = [courier EXCEPT ![w] = [courier[w] EXCEPT !.pc = "wait", !.todo = Tail(@)]]
  BY DEF deliverPost
<1>1. /\ post[c] = Free /\ courier[w].pc = "try"
      /\ post' = [post EXCEPT ![c] = Sent(courier[w].msg, Head(courier[w].todo), w)]
  BY DEF deliverPost, Fresh
<1>2. /\ post'[c].waiter = w /\ post'[c].msg = courier[w].msg
      /\ \A d \in Call \ {c} : post'[d] = post[d]
  BY <1>1 DEF TypeOK, Sent
<1>3. /\ courier'[w].pc = "wait" /\ courier'[w].msg = courier[w].msg
      /\ \A v \in Courier \ {w} : courier'[v] = courier[v]
  BY <1>0 DEF TypeOK, CourierState
<1>4. \A d \in Call : post[d].waiter # w /\ post[d].waiter # c
  BY <1>1 DEF WaitersMatch, Free
<1>5. QED
  BY <1>2, <1>3, <1>4 DEF WaitersMatch

\* A caller whose POST was answered or timed out waits no longer.
LEMMA WaitersDone ==
  ASSUME TypeOK, WaitersMatch, NEW w \in Courier, NEW c \in Call,
         deliverAnswer(w, c) \/ deliverTimeout(w, c)
  PROVE  WaitersMatch'
<1> USE CallAssumption
<1>1. /\ post[c].waiter = w /\ post[c] \in Post
      /\ \A d \in Call \ {c} : post'[d] = post[d]
      /\ \A v \in Courier \ {w} : courier'[v] = courier[v]
  BY SlotInUse DEF TypeOK, deliverAnswer, deliverTimeout, Continue
<1>2. /\ post'[c].waiter = None
      /\ post[c].phase = "forward" => post'[c].phase = "forward" /\ post'[c].msg = post[c].msg
  BY <1>1 DEF TypeOK, deliverAnswer, deliverTimeout, Abandoned, Free, Post
<1>3. \A d \in Call : d # c => post[d].waiter # w
  BY <1>1 DEF WaitersMatch
<1>4. \A e \in Call : post'[e].waiter # None => e # c /\ post'[e] = post[e]
  BY <1>1, <1>2
<1>5. \A v \in Courier, e \in Call : post'[e].waiter = v =>
        courier'[v].pc = "wait" /\ courier'[v].msg = post'[e].msg
  <2> SUFFICES ASSUME NEW v \in Courier, NEW e \in Call, post'[e].waiter = v
               PROVE  courier'[v].pc = "wait" /\ courier'[v].msg = post'[e].msg
    OBVIOUS
  <2>1. e # c /\ post'[e] = post[e] /\ post[e].waiter = v
    BY <1>4
  <2>2. courier'[v] = courier[v]
    BY <1>1, <1>3, <2>1
  <2>3. QED BY <2>1, <2>2 DEF WaitersMatch
<1>6. \A d, e \in Call : post'[e].waiter = d =>
        post'[d].phase = "forward" /\ post'[d].msg = post'[e].msg
  <2> SUFFICES ASSUME NEW d \in Call, NEW e \in Call, post'[e].waiter = d
               PROVE  post'[d].phase = "forward" /\ post'[d].msg = post'[e].msg
    OBVIOUS
  <2>1. post'[e] = post[e] /\ post[e].waiter = d
    BY <1>4
  <2>2. post[d].phase = "forward" /\ post[d].msg = post[e].msg
    BY <2>1 DEF WaitersMatch
  <2>3. QED BY <1>1, <1>2, <2>1, <2>2
<1>7. \A d, e \in Call : post'[d].waiter = post'[e].waiter /\ post'[d].waiter # None => d = e
  BY <1>4 DEF WaitersMatch
<1>8. QED
  BY <1>5, <1>6, <1>7 DEF WaitersMatch

\* A handler that answers, stores or goes on to relay.
LEMMA WaitersAccept ==
  ASSUME TypeOK, WaitersMatch, NEW c \in Call, acceptMessage(c) \/ acceptStore(c)
  PROVE  WaitersMatch'
<1> USE CallAssumption
<1>1. /\ post[c] \in Post /\ UNCHANGED courier
      /\ \A d \in Call : post[d].waiter # c
  BY SlotInUse DEF TypeOK, acceptMessage, acceptStore, WaitersMatch
<1>2. CASE \E p \in {Answered(post[c], "ok"), Answered(post[c], "fail"),
                     [post[c] EXCEPT !.phase = "append"]} : post' = [post EXCEPT ![c] = p]
  <2>1. /\ post'[c].waiter = post[c].waiter
        /\ post[c].waiter # None => post'[c].msg = post[c].msg
    BY <1>1, <1>2 DEF TypeOK, Answered, Free, Post
  <2>2. \A d \in Call \ {c} : post'[d] = post[d]
    BY <1>2 DEF TypeOK
  <2>3. QED BY <1>1, <2>1, <2>2 DEF WaitersMatch
<1>3. CASE \E d \in Call : /\ Fresh(d)
                           /\ post' = [post EXCEPT ![c].phase = "forward",
                                         ![d] = Sent(post[c].msg, To[post[c].msg], c)]
           /\ acceptMessage(c)
  <2>1. PICK d \in Call : /\ Fresh(d)
                          /\ post' = [post EXCEPT ![c].phase = "forward",
                                        ![d] = Sent(post[c].msg, To[post[c].msg], c)]
    BY <1>3
  <2>2. post[d] = Free /\ d # c
    BY <1>1, <1>3, <2>1 DEF Fresh, Free, acceptMessage
  <2>3. /\ post'[c].waiter = post[c].waiter /\ post'[c].msg = post[c].msg
        /\ post'[c].phase = "forward"
        /\ post'[d].waiter = c /\ post'[d].msg = post[c].msg
        /\ \A e \in Call \ {c, d} : post'[e] = post[e]
    <3>1. post'[c] = [post[c] EXCEPT !.phase = "forward"]
      BY <2>1, <2>2 DEF TypeOK
    <3>2. post'[d] = Sent(post[c].msg, To[post[c].msg], c)
      BY <2>1, <2>2 DEF TypeOK
    <3>3. \A e \in Call \ {c, d} : post'[e] = post[e]
      BY <2>1, <2>2 DEF TypeOK
    <3>4. QED BY <1>1, <3>1, <3>2, <3>3 DEF Sent, Post
  <2>4. \A e \in Call : post[e].waiter # d
    <3>1. post[d].phase = "free"
      BY <2>2 DEF Free
    <3>2. QED BY <3>1 DEF WaitersMatch
  <2>5. \A w \in Courier, e \in Call : post'[e].waiter = w =>
          courier'[w].pc = "wait" /\ courier'[w].msg = post'[e].msg
    BY <1>1, <2>3 DEF WaitersMatch
  <2>6. \A e, f \in Call : post'[f].waiter = e =>
          post'[e].phase = "forward" /\ post'[e].msg = post'[f].msg
    <3> SUFFICES ASSUME NEW e \in Call, NEW f \in Call, post'[f].waiter = e
                 PROVE  post'[e].phase = "forward" /\ post'[e].msg = post'[f].msg
      OBVIOUS
    <3>1. CASE f = d
      BY <2>3, <3>1
    <3>2. CASE f # d
      <4>1. post[f].waiter = e /\ post'[f].msg = post[f].msg
        BY <2>3, <3>2
      <4>2. e # c /\ e # d
        BY <1>1, <2>4, <4>1
      <4>3. post'[e] = post[e]
        BY <2>3, <4>2
      <4>4. \A g, h \in Call : post[h].waiter = g =>
              post[g].phase = "forward" /\ post[g].msg = post[h].msg
        BY DEF WaitersMatch
      <4>5. post[e].phase = "forward" /\ post[e].msg = post[f].msg
        BY <4>1, <4>4
      <4>6. QED BY <4>1, <4>3, <4>5
    <3>3. QED BY <3>1, <3>2
  <2>7. \A e, f \in Call : post'[e].waiter = post'[f].waiter /\ post'[e].waiter # None => e = f
    <3>1. \A e \in Call \ {d} : post'[e].waiter = post[e].waiter /\ post'[e].waiter # c
      BY <1>1, <2>3
    <3>2. \A e, f \in Call \ {d} :
            post'[e].waiter = post'[f].waiter /\ post'[e].waiter # None => e = f
      <4> SUFFICES ASSUME NEW e \in Call \ {d}, NEW f \in Call \ {d},
                          post'[e].waiter = post'[f].waiter, post'[e].waiter # None
                   PROVE  e = f
        OBVIOUS
      <4>1. post[e].waiter = post[f].waiter /\ post[e].waiter # None
        BY <3>1
      <4>2. QED BY <4>1 DEF WaitersMatch
    <3>3. QED BY <2>3, <3>1, <3>2
  <2>8. QED BY <2>5, <2>6, <2>7 DEF WaitersMatch
<1>4. QED
  BY <1>2, <1>3 DEF acceptMessage, acceptStore

\* A relay whose forward was answered or timed out waits no longer.
LEMMA WaitersRelay ==
  ASSUME TypeOK, WaitersMatch, NoSelfWait, NEW c \in Call, NEW d \in Call,
         acceptRelayed(c, d) \/ acceptTimeout(c, d)
  PROVE  WaitersMatch'
<1> USE CallAssumption
<1>1. /\ post[d].waiter = c /\ post[c].phase = "forward" /\ post[c].msg = post[d].msg
      /\ post[c] \in Post /\ post[d] \in Post /\ UNCHANGED courier
      /\ \A e \in Call : post[e].waiter = c => e = d
  BY SlotInUse DEF TypeOK, acceptRelayed, acceptTimeout, WaitersMatch
<1>2. /\ post'[c].waiter = post[c].waiter
      /\ post'[c].waiter # None => post'[c].msg = post[c].msg
  BY <1>1 DEF TypeOK, acceptRelayed, acceptTimeout, Answered, Free, Post
<1>3. /\ post'[d].waiter = None
      /\ post[d].phase = "forward" => post'[d].phase = "forward" /\ post'[d].msg = post[d].msg
  BY <1>1 DEF TypeOK, acceptRelayed, acceptTimeout, Abandoned, Free, Post
<1>4. \A e \in Call \ {c, d} : post'[e] = post[e]
  BY DEF TypeOK, acceptRelayed, acceptTimeout
<1>5. QED BY <1>1, <1>2, <1>3, <1>4 DEF WaitersMatch

\* A lost request, a caller or a handler that dies: nobody waits for them.
LEMMA WaitersFail ==
  ASSUME TypeOK, WaitersMatch, NoSelfWait, Fail PROVE WaitersMatch'
<1> USE CallAssumption
<1>1. ASSUME NEW c \in Call, Lose(c) PROVE WaitersMatch'
  <2>1. /\ post[c] \in Post /\ post[c].phase = "sent" /\ UNCHANGED courier
        /\ \A d \in Call \ {c} : post'[d] = post[d]
    BY <1>1, SlotInUse DEF TypeOK, Lose
  <2>2. /\ post'[c].waiter = post[c].waiter
        /\ post'[c].waiter # None => post'[c].msg = post[c].msg
    BY <1>1, <2>1 DEF TypeOK, Lose, Free, Post
  <2>3. QED BY <2>1, <2>2 DEF WaitersMatch
<1>2. ASSUME NEW w \in Courier, CrashCaller(w) PROVE WaitersMatch'
  <2>1. \A c \in Call : post[c].waiter = w =>
          /\ post'[c].waiter = None
          /\ post[c].phase = "forward" => post'[c].phase = "forward" /\ post'[c].msg = post[c].msg
    BY <1>2, SlotInUse DEF CrashCaller, Abandoned, Free, Post
  <2>2. \A c \in Call : post[c].waiter # w => post'[c] = post[c]
    BY <1>2 DEF CrashCaller
  <2>3. \A v \in Courier \ {w} : courier'[v] = courier[v]
    BY <1>2 DEF TypeOK, CrashCaller
  <2>4. QED BY <2>1, <2>2, <2>3 DEF WaitersMatch
<1>3. ASSUME NEW c \in Call, CrashHandler(c) PROVE WaitersMatch'
  <2>1. /\ post[c] \in Post /\ post[c].waiter # c /\ UNCHANGED courier
    BY <1>3, SlotInUse DEF TypeOK, CrashHandler, NoSelfWait
  <2>2. /\ post'[c].waiter = post[c].waiter
        /\ post'[c].waiter # None => post'[c].msg = post[c].msg
    BY <1>3, <2>1 DEF CrashHandler, Free, Post
  <2>3. \A d \in Call \ {c} : post[d].waiter = c =>
          /\ post'[d].waiter = None
          /\ post[d].phase = "forward" => post'[d].phase = "forward" /\ post'[d].msg = post[d].msg
    BY <1>3, SlotInUse DEF CrashHandler, Abandoned, Free, Post
  <2>4. \A d \in Call \ {c} : post[d].waiter # c => post'[d] = post[d]
    BY <1>3 DEF CrashHandler
  <2>5. \A d \in Call : post'[d].waiter # None =>
          post'[d].waiter = post[d].waiter /\ post'[d].msg = post[d].msg /\ post'[d].waiter # c
    BY <2>1, <2>2, <2>3, <2>4
  <2>6. \A d \in Call \ {c} : post[d].phase = "forward" =>
          post'[d].phase = "forward" /\ post'[d].msg = post[d].msg
    BY <2>3, <2>4
  <2>7. \A d, e \in Call : post'[d].waiter = e =>
          post'[e].phase = "forward" /\ post'[e].msg = post'[d].msg
    BY <2>5, <2>6 DEF WaitersMatch
  <2>8. QED BY <2>1, <2>5, <2>7 DEF WaitersMatch
<1>4. QED BY <1>1, <1>2, <1>3 DEF Fail

\* Waiting, as a whole.
LEMMA WaitersStep ==
  ASSUME TypeOK, WaitersMatch, NoSelfWait, [Next]_vars PROVE WaitersMatch' /\ NoSelfWait'
<1> USE CallAssumption
<1>1. WaitersMatch'
  <2>1. CASE UNCHANGED vars
    BY <2>1 DEF vars, WaitersMatch
  <2>2. ASSUME NEW w \in Courier, Begin(w) \/ Proceed(w) PROVE WaitersMatch'
    BY <2>2, WaitersLocal, WaitersPost, WaitersDone
  <2>3. ASSUME NEW c \in Call, Accept(c) PROVE WaitersMatch'
    BY <2>3, WaitersAccept, WaitersRelay DEF Accept
  <2>4. QED BY <2>1, <2>2, <2>3, WaitersFail DEF Next
<1>2. NoSelfWait'
  <2> USE DEF NoSelfWait
  <2>1. CASE UNCHANGED post
    BY <2>1
  <2>2. ASSUME NEW w \in Courier, NEW c \in Call, deliverPost(w, c) PROVE NoSelfWait'
    BY <2>2 DEF TypeOK, deliverPost, Sent
  <2>3. ASSUME NEW w \in Courier, NEW c \in Call, deliverAnswer(w, c) \/ deliverTimeout(w, c)
        PROVE  NoSelfWait'
    <3>1. post[c] \in Post /\ \A d \in Call \ {c} : post'[d] = post[d]
      BY <2>3, SlotInUse DEF TypeOK, deliverAnswer, deliverTimeout
    <3>2. post'[c].waiter = None
      BY <2>3, <3>1 DEF TypeOK, deliverAnswer, deliverTimeout, Abandoned, Free, Post
    <3>3. QED BY <3>1, <3>2
  <2>4. ASSUME NEW c \in Call, acceptMessage(c) PROVE NoSelfWait'
    <3>1. post[c] \in Post /\ post[c].waiter # c
      BY <2>4, SlotInUse DEF acceptMessage
    <3>2. CASE \E p \in {Answered(post[c], "ok"), Answered(post[c], "fail"),
                          [post[c] EXCEPT !.phase = "append"]} : post' = [post EXCEPT ![c] = p]
      BY <3>1, <3>2 DEF TypeOK, Answered, Free, Post
    <3>3. ASSUME NEW d \in Call, Fresh(d),
                 post' = [post EXCEPT ![c].phase = "forward",
                                      ![d] = Sent(post[c].msg, To[post[c].msg], c)]
          PROVE  NoSelfWait'
      <4>1. d # c
        BY <2>4, <3>3 DEF Fresh, Free, acceptMessage
      <4>2. post'[d].waiter = c /\ post'[c].waiter = post[c].waiter
        BY <3>1, <3>3, <4>1 DEF TypeOK, Sent, Post
      <4>3. \A e \in Call \ {c, d} : post'[e] = post[e]
        BY <3>3 DEF TypeOK
      <4>4. QED BY <3>1, <4>1, <4>2, <4>3
    <3>4. QED BY <2>4, <3>2, <3>3 DEF acceptMessage
  <2>5. ASSUME NEW c \in Call, acceptStore(c) PROVE NoSelfWait'
    BY <2>5, SlotInUse DEF TypeOK, acceptStore, Answered, Free, Post
  <2>6. ASSUME NEW c \in Call, NEW d \in Call, acceptRelayed(c, d) \/ acceptTimeout(c, d)
        PROVE  NoSelfWait'
    <3>1. post[c] \in Post /\ post[d] \in Post /\ c # d
      BY <2>6, SlotInUse DEF acceptRelayed, acceptTimeout, WaitersMatch
    <3>2. post'[c].waiter # c
      BY <2>6, <3>1 DEF TypeOK, acceptRelayed, acceptTimeout, Answered, Free, Post
    <3>3. post'[d].waiter = None
      BY <2>6, <3>1 DEF TypeOK, acceptRelayed, acceptTimeout, Abandoned, Free, Post
    <3>4. \A e \in Call \ {c, d} : post'[e] = post[e]
      BY <2>6 DEF TypeOK, acceptRelayed, acceptTimeout
    <3>5. QED BY <3>2, <3>3, <3>4
  <2>7. CASE Fail
    BY <2>7, SlotInUse DEF TypeOK, Fail, Lose, CrashCaller, CrashHandler, Abandoned, Free, Post
  <2>8. ASSUME NEW w \in Courier, Begin(w) PROVE NoSelfWait'
    BY <2>1, <2>8 DEF Begin, sendMessage, flush, dropOutbox, sync
  <2>9. ASSUME NEW w \in Courier, Proceed(w) PROVE NoSelfWait'
    BY <2>1, <2>2, <2>3, <2>9
    DEF Proceed, sendQueued, deliver, dropOne, importOne, deliverLocal, deliverSkip,
        deliverFailed, importMessages
  <2>10. ASSUME NEW c \in Call, Accept(c) PROVE NoSelfWait'
    BY <2>4, <2>5, <2>6, <2>10 DEF Accept
  <2>11. QED BY <2>1, <2>7, <2>8, <2>9, <2>10 DEF Next, vars
<1>3. QED BY <1>1, <1>2

-----------------------------------------------------------------------------
(* What is stored, and where.                                              *)

\* The inbox of a node grows by one record at a time, of a message that is
\* addressed to it.
LEMMA InboxStep ==
  ASSUME TypeOK, StoreIsAddressed, [Next]_vars
  PROVE  \/ UNCHANGED inbox
         \/ \E n \in Node, m \in Msg : To[m] \in {n, Everyone} /\ inbox' = append(inbox, n, m)
<1> DEFINE Goal == \/ UNCHANGED inbox
                   \/ \E n \in Node, m \in Msg :
                        To[m] \in {n, Everyone} /\ inbox' = append(inbox, n, m)
<1>1. ASSUME NEW w \in Courier, NEW m \in Msg, deliver(w, m) PROVE Goal
  BY <1>1, TopologyAssumption DEF deliver
<1>2. ASSUME NEW w \in Courier, NEW m \in Msg, importOne(w, m) PROVE Goal
  BY <1>2, TopologyAssumption DEF importOne, StoreIsAddressed
<1>3. ASSUME NEW c \in Call, acceptStore(c) PROVE Goal
  <2>1. post[c].dst \in Node /\ post[c].msg \in Msg
    BY <1>3, SlotInUse DEF acceptStore, Post
  <2>2. QED BY <1>3, <2>1 DEF acceptStore, StoreIsAddressed
<1>4. ASSUME NEW w \in Courier, Begin(w) PROVE UNCHANGED inbox
  BY <1>4 DEF Begin, sendMessage, flush, dropOutbox, sync
<1>5. ASSUME NEW w \in Courier, Proceed(w) PROVE Goal
  BY <1>1, <1>2, <1>5
  DEF Proceed, sendQueued, dropOne, deliverPost, deliverAnswer, deliverTimeout, deliverLocal,
      deliverSkip, deliverFailed, importMessages
<1>6. ASSUME NEW c \in Call, Accept(c) PROVE Goal
  BY <1>3, <1>6 DEF Accept, acceptMessage, acceptRelayed, acceptTimeout
<1>7. ASSUME Fail PROVE UNCHANGED inbox
  BY <1>7 DEF Fail, Lose, CrashCaller, CrashHandler
<1>8. QED
  BY <1>4, <1>5, <1>6, <1>7 DEF Next, vars

\* What is stored stays stored.
LEMMA StoredMonotone ==
  ASSUME TypeOK, StoreIsAddressed, [Next]_vars
  PROVE  \A m \in Msg : Stored(m) => Stored(m)'
<1>1. \A n \in Node, m \in Msg : inbox[n][m] > 0 => inbox'[n][m] > 0
  BY InboxStep DEF TypeOK, append
<1>2. QED BY <1>1 DEF TypeOK, Stored

\* acceptMessage and importMessages store only what is addressed to the node.
LEMMA InboxIsAddressedStep ==
  ASSUME TypeOK, StoreIsAddressed, InboxIsAddressed, [Next]_vars PROVE InboxIsAddressed'
BY InboxStep DEF TypeOK, InboxIsAddressed, append

\* What an answer, and a handler about to store, stand for after a step.
LEMMA SlotStep ==
  ASSUME Invariant, [Next]_vars, NEW c \in Call
  PROVE  /\ post'[c].phase = "append" => To[post'[c].msg] \in {post'[c].dst, Everyone}
         /\ \A m \in Msg : post'[c].phase = "ok" /\ post'[c].msg = m => Stored(m)'
<1> USE DEF Invariant
<1> DEFINE Addressed == post'[c].phase = "append" => To[post'[c].msg] \in {post'[c].dst, Everyone}
           Holds == \A m \in Msg : post'[c].phase = "ok" /\ post'[c].msg = m => Stored(m)'
<1>0. ASSUME NEW d \in Call, post[d].phase # "free" PROVE post[d] \in Post
  BY <1>0, SlotInUse
<1>1. ASSUME post'[c].phase = post[c].phase, post'[c].msg = post[c].msg, post'[c].dst = post[c].dst
      PROVE  Addressed /\ Holds
  <2>1. Addressed
    BY <1>1 DEF StoreIsAddressed
  <2>2. ASSUME NEW m \in Msg, post[c].phase = "ok", post[c].msg = m PROVE Stored(m)'
    BY <2>2, StoredMonotone DEF AnswerIsStored
  <2>3. QED BY <1>1, <2>1, <2>2
<1>2. ASSUME post'[c].phase \notin {"append", "ok"} PROVE Addressed /\ Holds
  BY <1>2
<1>3. ASSUME NEW d \in Call, d # c, post' = [post EXCEPT ![d] = post'[d]] PROVE Addressed /\ Holds
  BY <1>1, <1>3 DEF TypeOK
<1>4. ASSUME NEW w \in Courier, deliverPost(w, c) PROVE Addressed /\ Holds
  BY <1>2, <1>4 DEF TypeOK, deliverPost, Sent
<1>5. ASSUME post'[c] = Abandoned(post[c]) PROVE Addressed /\ Holds
  <2>1. CASE post[c].phase \in {"ok", "fail", "lost"}
    BY <1>2, <1>5, <2>1 DEF Abandoned, Free
  <2>2. CASE post[c].phase = "free"
    BY <1>2, <1>5, <2>2 DEF TypeOK, Abandoned, Free, Post
  <2>3. CASE post[c].phase \notin {"ok", "fail", "lost", "free"}
    BY <1>0, <1>1, <1>5, <2>3 DEF Abandoned, Post
  <2>4. QED BY <2>1, <2>2, <2>3
<1>6. ASSUME post'[c] = Answered(post[c], "ok"), post[c] \in Post,
             \A m \in Msg : m = post[c].msg => Stored(m)'
      PROVE  Addressed /\ Holds
  <2>1. post[c].msg \in Msg
    BY <1>6 DEF Post
  <2>2. CASE post[c].waiter = None
    BY <1>2, <1>6, <2>2 DEF Answered, Free
  <2>3. CASE post[c].waiter # None
    BY <1>6, <2>1, <2>3 DEF Answered, Post
  <2>4. QED BY <2>2, <2>3
<1>7. ASSUME post'[c] = Answered(post[c], "fail"), post[c] \in Post PROVE Addressed /\ Holds
  BY <1>2, <1>7 DEF Answered, Free, Post

<1>8. ASSUME acceptMessage(c) PROVE Addressed /\ Holds
  <2>1. post[c] \in Post /\ c \in Call /\ post[c].phase = "sent"
    BY <1>0, <1>8 DEF acceptMessage
  <2>2. CASE post[c].msg \in Held(post[c].dst) /\ post' = [post EXCEPT ![c] = Answered(@, "ok")]
    <3>1. post[c].dst \in Node /\ post[c].msg \in Msg
      BY <2>1 DEF Post
    <3>2. Stored(post[c].msg)
      BY <2>2, <3>1 DEF Held, InboxIsAddressed, Stored
    <3>3. post'[c] = Answered(post[c], "ok")
      BY <2>2 DEF TypeOK
    <3>4. QED BY <1>6, <2>1, <3>2, <3>3, StoredMonotone
  <2>3. CASE To[post[c].msg] \in {post[c].dst, Everyone} /\ post' = [post EXCEPT ![c].phase = "append"]
    BY <2>1, <2>3 DEF TypeOK, Post
  <2>4. ASSUME NEW d \in Call, Fresh(d),
               post' = [post EXCEPT ![c].phase = "forward",
                                    ![d] = Sent(post[c].msg, To[post[c].msg], c)]
        PROVE  Addressed /\ Holds
    <3>1. d # c
      BY <2>1, <2>4 DEF Fresh, Free
    <3>2. post'[c] = [post[c] EXCEPT !.phase = "forward"]
      BY <2>4, <3>1 DEF TypeOK
    <3>3. QED BY <1>2, <2>1, <3>2 DEF Post
  <2>5. CASE post' = [post EXCEPT ![c] = Answered(@, "fail")]
    <3>1. post'[c] = Answered(post[c], "fail")
      BY <2>5 DEF TypeOK
    <3>2. QED BY <1>7, <2>1, <3>1
  <2>6. QED BY <1>8, <2>2, <2>3, <2>4, <2>5 DEF acceptMessage
<1>9. ASSUME NEW d \in Call \ {c}, acceptMessage(d) PROVE Addressed /\ Holds
  <2>1. CASE \E p : post' = [post EXCEPT ![d] = p]
    BY <1>1, <1>9, <2>1 DEF TypeOK
  <2>2. ASSUME NEW e \in Call, Fresh(e),
               post' = [post EXCEPT ![d].phase = "forward",
                                    ![e] = Sent(post[d].msg, To[post[d].msg], d)]
        PROVE  Addressed /\ Holds
    <3>1. CASE e = c
      <4>1. post'[c] = Sent(post[d].msg, To[post[d].msg], d)
        BY <2>2, <3>1 DEF TypeOK
      <4>2. QED BY <1>2, <4>1 DEF Sent
    <3>2. CASE e # c
      <4>1. post'[c] = post[c]
        BY <1>9, <2>2, <3>2 DEF TypeOK
      <4>2. QED BY <1>1, <4>1
    <3>3. QED BY <3>1, <3>2
  <2>3. QED BY <1>9, <2>1, <2>2 DEF acceptMessage
<1>10. ASSUME acceptStore(c) PROVE Addressed /\ Holds
  <2>1. /\ post[c] \in Post /\ post[c].phase = "append"
        /\ post'[c] = Answered(post[c], "ok")
        /\ inbox' = append(inbox, post[c].dst, post[c].msg)
    BY <1>0, <1>10 DEF TypeOK, acceptStore
  <2>2. /\ post[c].dst \in Node /\ post[c].msg \in Msg
        /\ To[post[c].msg] \in {post[c].dst, Everyone}
    BY <2>1 DEF StoreIsAddressed, Post
  <2>3. inbox'[post[c].dst][post[c].msg] > 0
    BY <2>1, <2>2 DEF TypeOK, append
  <2>4. \A m \in Msg : m = post[c].msg => Stored(m)'
    BY <2>2, <2>3 DEF Stored
  <2>5. QED BY <1>6, <2>1, <2>4
<1>11. ASSUME NEW d \in Call, acceptRelayed(c, d) PROVE Addressed /\ Holds
  <2>1. /\ post[c] \in Post /\ post[d] \in Post /\ c # d /\ post[c].msg = post[d].msg
    BY <1>0, <1>11 DEF acceptRelayed, WaitersMatch, NoSelfWait
  <2>2. post'[c] = Answered(post[c], post[d].phase)
    BY <1>11, <2>1 DEF TypeOK, acceptRelayed
  <2>3. CASE post[d].phase = "ok"
    <3>1. post[c].msg \in Msg /\ Stored(post[c].msg)
      BY <2>1, <2>3 DEF AnswerIsStored, Post
    <3>2. QED BY <1>6, <2>1, <2>2, <2>3, <3>1, StoredMonotone
  <2>4. CASE post[d].phase = "fail"
    BY <1>7, <2>1, <2>2, <2>4
  <2>5. QED BY <1>11, <2>3, <2>4 DEF acceptRelayed
<1>12. ASSUME NEW d \in Call, acceptTimeout(c, d) PROVE Addressed /\ Holds
  <2>1. post[c] \in Post /\ c # d
    BY <1>0, <1>12 DEF acceptTimeout, WaitersMatch, NoSelfWait
  <2>2. post'[c] = Answered(post[c], "fail")
    BY <1>12, <2>1 DEF TypeOK, acceptTimeout
  <2>3. QED BY <1>7, <2>1, <2>2
<1>13. ASSUME NEW d \in Call \ {c}, NEW e \in Call, acceptRelayed(d, e) \/ acceptTimeout(d, e)
       PROVE  Addressed /\ Holds
  <2>1. CASE e = c
    <3>1. post'[c] = Free \/ post'[c] = Abandoned(post[c])
      BY <1>13, <2>1 DEF TypeOK, acceptRelayed, acceptTimeout
    <3>2. QED BY <1>2, <1>5, <3>1 DEF Free
  <2>2. CASE e # c
    <3>1. post'[c] = post[c]
      BY <1>13, <2>2 DEF TypeOK, acceptRelayed, acceptTimeout
    <3>2. QED BY <1>1, <3>1
  <2>3. QED BY <2>1, <2>2
<1>14. ASSUME Fail PROVE Addressed /\ Holds
  <2>1. \/ post'[c] = post[c]
        \/ post'[c] = Abandoned(post[c])
        \/ post'[c] = Free
        \/ post'[c] = [post[c] EXCEPT !.phase = "lost"] /\ post[c].phase # "free"
    BY <1>14 DEF TypeOK, Fail, Lose, CrashCaller, CrashHandler
  <2>2. QED BY <1>0, <1>1, <1>2, <1>5, <2>1 DEF Free, Post
<1>15. ASSUME UNCHANGED post PROVE Addressed /\ Holds
  BY <1>1, <1>15
<1>16. ASSUME NEW w \in Courier, NEW d \in Call,
              deliverPost(w, d) \/ deliverAnswer(w, d) \/ deliverTimeout(w, d)
       PROVE  Addressed /\ Holds
  <2>1. CASE d # c
    <3>1. post'[c] = post[c]
      BY <1>16, <2>1 DEF TypeOK, deliverPost, deliverAnswer, deliverTimeout
    <3>2. QED BY <1>1, <3>1
  <2>2. CASE d = c /\ ~deliverPost(w, d)
    <3>1. post'[c] = Free \/ post'[c] = Abandoned(post[c])
      BY <1>16, <2>2 DEF TypeOK, deliverAnswer, deliverTimeout
    <3>2. QED BY <1>2, <1>5, <3>1 DEF Free
  <2>3. QED BY <1>4, <2>1, <2>2
<1>17. ASSUME NEW w \in Courier, Begin(w) PROVE Addressed /\ Holds
  BY <1>15, <1>17 DEF Begin, sendMessage, flush, dropOutbox, sync
<1>18. ASSUME NEW w \in Courier, Proceed(w) PROVE Addressed /\ Holds
  BY <1>15, <1>16, <1>18
  DEF Proceed, sendQueued, deliver, dropOne, importOne, deliverLocal, deliverSkip,
      deliverFailed, importMessages
<1>19. ASSUME NEW d \in Call, Accept(d) PROVE Addressed /\ Holds
  <2>1. CASE acceptStore(d) /\ d # c
    BY <1>1, <2>1 DEF TypeOK, acceptStore
  <2>2. QED
    BY <1>8, <1>9, <1>10, <1>11, <1>12, <1>13, <1>19, <2>1 DEF Accept
<1>20. QED
  BY <1>14, <1>15, <1>17, <1>18, <1>19 DEF Next, vars

\* What a caller about to import, or to record its own inbox, stands for after a
\* step.
LEMMA CallerStep ==
  ASSUME Invariant, [Next]_vars, NEW w \in Courier
  PROVE  /\ courier'[w].pc \in {"fetched", "import"} =>
              \A m \in courier'[w].batch : To[m] \in {Home[w], Everyone}
         /\ \A m \in Msg : courier'[w].pc = "local" /\ courier'[w].msg = m => Stored(m)'
<1> USE DEF Invariant
<1> DEFINE Addressed == courier'[w].pc \in {"fetched", "import"} =>
                          \A m \in courier'[w].batch : To[m] \in {Home[w], Everyone}
           Holds == \A m \in Msg : courier'[w].pc = "local" /\ courier'[w].msg = m => Stored(m)'
           Goal == Addressed /\ Holds
<1>0. courier[w] \in CourierState /\ Home[w] \in Node
  BY TopologyAssumption DEF TypeOK
<1>1. ASSUME courier'[w] = courier[w] PROVE Goal
  <2>1. Addressed
    BY <1>1 DEF StoreIsAddressed
  <2>2. Holds
    BY <1>1, StoredMonotone DEF AnswerIsStored
  <2>3. QED BY <2>1, <2>2
<1>2. ASSUME courier'[w].pc \notin {"fetched", "import", "local"} PROVE Goal
  BY <1>2
<1>3. ASSUME NEW S, Continue(w, S) PROVE Goal
  BY <1>2, <1>3 DEF TypeOK, Continue, Idle
<1>4. ASSUME NEW m \in Msg, sendMessage(w, m) PROVE Goal
  BY <1>2, <1>4 DEF TypeOK, sendMessage, Idle
<1>5. ASSUME NEW S, dropOutbox(w, S) PROVE Goal
  BY <1>2, <1>5 DEF TypeOK, dropOutbox, Idle
<1>6. ASSUME NEW m \in Msg, deliver(w, m) PROVE Goal
  <2>1. CASE To[m] = Home[w]
    <3>1. courier' = [courier EXCEPT ![w] =
             [courier[w] EXCEPT !.pc = "local", !.msg = m, !.batch = @ \ {m}]]
      BY <1>6, <2>1 DEF deliver
    <3>2. courier'[w].pc = "local" /\ courier'[w].msg = m
      BY <1>0, <3>1 DEF TypeOK, CourierState
    <3>3. inbox' = append(inbox, Home[w], m)
      BY <1>6, <2>1 DEF deliver
    <3>4. inbox'[Home[w]][m] > 0
      BY <1>0, <3>3 DEF TypeOK, append
    <3>5. Stored(m)'
      BY <1>0, <2>1, <3>4 DEF Stored
    <3>6. QED BY <3>2, <3>5
  <2>2. CASE To[m] # Home[w]
    <3>1. courier'[w].pc = "try"
      BY <1>6, <2>2 DEF TypeOK, deliver
    <3>2. QED BY <1>2, <3>1
  <2>3. QED BY <2>1, <2>2
<1>7. ASSUME NEW c \in Call, deliverPost(w, c) \/ deliverSkip(w) \/ deliverTimeout(w, c)
      PROVE  Goal
  <2>1. courier'[w].pc \in {"wait", "try"}
    <3>1. CASE deliverPost(w, c)
      <4>1. courier' = [courier EXCEPT ![w] = [courier[w] EXCEPT !.pc = "wait", !.todo = Tail(@)]]
        BY <3>1 DEF deliverPost
      <4>2. QED BY <1>0, <4>1 DEF TypeOK, CourierState
    <3>2. CASE deliverSkip(w)
      BY <1>0, <3>2 DEF TypeOK, deliverSkip, CourierState
    <3>3. CASE deliverTimeout(w, c)
      BY <1>0, <3>3 DEF TypeOK, deliverTimeout, CourierState
    <3>4. QED BY <1>7, <3>1, <3>2, <3>3
  <2>2. QED BY <1>2, <2>1
<1>8. ASSUME deliverSkip(w) PROVE Goal
  <2>1. courier'[w].pc = "try"
    BY <1>0, <1>8 DEF TypeOK, deliverSkip, CourierState
  <2>2. QED BY <1>2, <2>1
<1>9. ASSUME NEW c \in Call, deliverAnswer(w, c) PROVE Goal
  <2>1. CASE post[c].phase = "ok"
    BY <1>3, <1>9, <2>1 DEF deliverAnswer
  <2>2. CASE post[c].phase # "ok"
    <3>1. courier'[w].pc = "try"
      BY <1>0, <1>9, <2>2 DEF TypeOK, deliverAnswer, CourierState
    <3>2. QED BY <1>2, <3>1
  <2>3. QED BY <2>1, <2>2
<1>10. ASSUME NEW m \in Msg, dropOne(w, m) PROVE Goal
  <2>1. courier'[w] = Idle \/ courier'[w] = [courier[w] EXCEPT !.batch = @ \ {m}]
    BY <1>10 DEF TypeOK, dropOne
  <2>2. courier[w].pc = "drop"
    BY <1>10 DEF dropOne
  <2>3. [courier[w] EXCEPT !.batch = @ \ {m}].pc = "drop"
    BY <1>0, <2>2 DEF CourierState
  <2>4. courier'[w].pc = "idle" \/ courier'[w].pc = "drop"
    BY <2>1, <2>3, IdlePc
  <2>5. QED BY <1>2, <2>4
<1>11. ASSUME NEW p \in Node, sync(w, p) PROVE Goal
  <2>1. courier'[w] = [Idle EXCEPT !.pc = "fetched", !.batch = OutboxPage(p, Home[w])]
    BY <1>11 DEF TypeOK, sync
  <2>2. courier'[w].pc = "fetched" /\ courier'[w].batch = OutboxPage(p, Home[w])
    BY <2>1 DEF Idle
  <2>3. QED BY <2>2 DEF OutboxPage
<1>12. ASSUME NEW S \in SUBSET courier[w].batch, courier[w].pc \in {"fetched", "import"},
              \/ courier'[w] = Idle
              \/ courier'[w] = [courier[w] EXCEPT !.pc = "import", !.batch = S]
       PROVE  Goal
  <2>1. CASE courier'[w] = Idle
    BY <1>2, <2>1, IdlePc
  <2>2. CASE courier'[w] = [courier[w] EXCEPT !.pc = "import", !.batch = S]
    <3>1. courier'[w].pc = "import" /\ courier'[w].batch = S
      BY <1>0, <2>2 DEF CourierState
    <3>2. QED BY <1>12, <3>1 DEF StoreIsAddressed
  <2>3. QED BY <1>12, <2>1, <2>2
<1>13. ASSUME importMessages(w) PROVE Goal
  <2> DEFINE new == courier[w].batch \ Held(Home[w])
  <2>1. /\ courier[w].pc = "fetched"
        /\ \/ courier'[w] = Idle
           \/ courier'[w] = [courier[w] EXCEPT !.pc = "import", !.batch = new]
    BY <1>13 DEF TypeOK, importMessages
  <2>2. QED BY <1>12, <2>1
<1>14. ASSUME NEW m \in Msg, importOne(w, m) PROVE Goal
  <2> DEFINE left == courier[w].batch \ {m}
  <2>1. courier[w].pc = "import"
    BY <1>14 DEF importOne
  <2>2. courier'[w] = Idle \/ courier'[w] = [courier[w] EXCEPT !.batch = left]
    BY <1>14 DEF TypeOK, importOne
  <2>3. [courier[w] EXCEPT !.batch = left] = [courier[w] EXCEPT !.pc = "import", !.batch = left]
    BY <1>0, <2>1 DEF CourierState
  <2>4. left \in SUBSET courier[w].batch
    OBVIOUS
  <2> HIDE DEF left, Goal
  <2>5. QED BY <1>12, <2>1, <2>2, <2>3, <2>4
<1>15. ASSUME Begin(w) PROVE Goal
  BY <1>3, <1>4, <1>5, <1>11, <1>15 DEF Begin, flush
<1>16. ASSUME Proceed(w) PROVE Goal
  <2>1. ASSUME NEW m \in Msg,
               sendQueued(w, m) \/ deliver(w, m) \/ dropOne(w, m) \/ importOne(w, m)
        PROVE  Goal
    BY <1>3, <1>6, <1>10, <1>14, <2>1 DEF sendQueued
  <2>2. ASSUME NEW c \in Call, deliverPost(w, c) \/ deliverAnswer(w, c) \/ deliverTimeout(w, c)
        PROVE  Goal
    BY <1>7, <1>9, <2>2
  <2>3. ASSUME deliverLocal(w) \/ deliverFailed(w) PROVE Goal
    BY <1>3, <2>3 DEF deliverLocal, deliverFailed
  <2>4. QED BY <1>8, <1>13, <1>16, <2>1, <2>2, <2>3 DEF Proceed
<1>17. ASSUME NEW v \in Courier \ {w}, Begin(v) \/ Proceed(v) PROVE courier'[w] = courier[w]
  <2>1. \E r : courier' = [courier EXCEPT ![v] = r]
    BY <1>17, Moves
  <2>2. QED BY <2>1 DEF TypeOK
<1>18. ASSUME NEW c \in Call, Accept(c) \/ Lose(c) \/ CrashHandler(c) PROVE UNCHANGED courier
  BY <1>18 DEF Accept, acceptMessage, acceptStore, acceptRelayed, acceptTimeout, Lose, CrashHandler
<1>19. ASSUME NEW v \in Courier, CrashCaller(v) PROVE Goal
  <2>1. courier'[w] = courier[w] \/ courier'[w] = Idle
    BY <1>19 DEF TypeOK, CrashCaller
  <2>2. QED BY <1>1, <1>2, <2>1, IdlePc
<1>20. QED
  BY <1>1, <1>15, <1>16, <1>17, <1>18, <1>19 DEF Next, Fail, vars

-----------------------------------------------------------------------------
(* What a node calls delivered, and what it keeps for others.              *)

\* A step calls a message delivered only when it is stored.
LEMMA DeliveredStep ==
  ASSUME Invariant, [Next]_vars PROVE DeliveredIsStored'
<1> USE DEF Invariant
<1>0. \A w \in Courier : Home[w] \in Node
  BY TopologyAssumption
<1>1. ASSUME UNCHANGED delivery PROVE DeliveredIsStored'
  BY <1>1, StoredMonotone DEF DeliveredIsStored
<1>2. ASSUME NEW w \in Courier, NEW m, NEW s \in {"pending", "dropped"},
             setDelivery(Home[w], m, s)
      PROVE  DeliveredIsStored'
  <2>1. \A n \in Node, x \in Msg : delivery'[n][x] = "delivered" => delivery[n][x] = "delivered"
    <3>1. s # "delivered" /\ Home[w] \in Node
      BY <1>0
    <3>2. delivery' = [delivery EXCEPT ![Home[w]] = [delivery[Home[w]] EXCEPT ![m] = s]]
      BY <1>2 DEF setDelivery
    <3>3. \A n \in Node, x \in Msg : delivery'[n][x] = delivery[n][x] \/ delivery'[n][x] = s
      BY <3>1, <3>2 DEF TypeOK
    <3>4. QED BY <3>1, <3>3
  <2>2. QED BY <2>1, StoredMonotone DEF DeliveredIsStored
<1>3. ASSUME NEW w \in Courier, NEW m \in Msg, Stored(m), setDelivery(Home[w], m, "delivered")
      PROVE  DeliveredIsStored'
  <2>1. \A n \in Node, x \in Msg \ {m} :
          delivery'[n][x] = "delivered" => delivery[n][x] = "delivered"
    BY <1>0, <1>3 DEF TypeOK, setDelivery
  <2>2. QED BY <1>3, <2>1, StoredMonotone DEF DeliveredIsStored
<1>4. ASSUME NEW w \in Courier, deliverLocal(w) PROVE DeliveredIsStored'
  BY <1>3, <1>4 DEF deliverLocal, AnswerIsStored, BusyHasMessage
<1>5. ASSUME NEW w \in Courier, NEW c \in Call, deliverAnswer(w, c) PROVE DeliveredIsStored'
  <2>1. courier[w].msg = post[c].msg /\ courier[w].msg \in Msg
    BY <1>5 DEF deliverAnswer, WaitersMatch, BusyHasMessage
  <2>2. CASE post[c].phase = "ok"
    BY <1>3, <1>5, <2>1, <2>2 DEF deliverAnswer, AnswerIsStored
  <2>3. CASE post[c].phase # "ok"
    BY <1>1, <1>5, <2>3 DEF deliverAnswer
  <2>4. QED BY <2>2, <2>3
<1>6. ASSUME NEW w \in Courier, Begin(w) PROVE UNCHANGED delivery
  BY <1>6 DEF Begin, sendMessage, flush, dropOutbox, sync
<1>7. ASSUME NEW w \in Courier, NEW m \in Msg, sendQueued(w, m) \/ dropOne(w, m)
      PROVE  DeliveredIsStored'
  BY <1>2, <1>7 DEF sendQueued, dropOne
<1>8. ASSUME NEW w \in Courier, deliverFailed(w) PROVE DeliveredIsStored'
  BY <1>2, <1>8 DEF deliverFailed
<1>9. ASSUME NEW w \in Courier, Proceed(w) PROVE DeliveredIsStored'
  BY <1>1, <1>4, <1>5, <1>7, <1>8, <1>9
  DEF Proceed, deliver, importOne, deliverPost, deliverTimeout, deliverSkip, importMessages
<1>10. ASSUME NEW c \in Call, Accept(c) PROVE UNCHANGED delivery
  BY <1>10 DEF Accept, acceptMessage, acceptStore, acceptRelayed, acceptTimeout
<1>11. ASSUME Fail PROVE UNCHANGED delivery
  BY <1>11 DEF Fail, Lose, CrashCaller, CrashHandler
<1>12. QED
  BY <1>1, <1>6, <1>9, <1>10, <1>11 DEF Next, vars

\* A step keeps in the outbox of a relay only what is stored.
LEMMA RelayedStep ==
  ASSUME Invariant, [Next]_vars PROVE RelayedIsStored'
<1> USE DEF Invariant
<1>0. \A m \in Msg : From[m] \in Node
  BY MessageAssumption
<1>1. ASSUME UNCHANGED outbox PROVE RelayedIsStored'
  BY <1>1, StoredMonotone DEF RelayedIsStored, TypeOK
<1>2. ASSUME NEW n \in Node, NEW m \in Msg, outbox' = [outbox EXCEPT ![n] = @ \cup {m}],
             From[m] = n \/ Stored(m)
      PROVE  RelayedIsStored'
  <2>1. \A k \in Node, x \in Msg : x \in outbox'[k] => x \in outbox[k] \/ (k = n /\ x = m)
    BY <1>2 DEF TypeOK
  <2>2. outbox' \in [Node -> SUBSET Msg]
    BY <1>2 DEF TypeOK
  <2>3. QED BY <1>2, <2>1, <2>2, StoredMonotone DEF RelayedIsStored
<1>3. ASSUME NEW w \in Courier, NEW m \in Msg, sendMessage(w, m) PROVE RelayedIsStored'
  BY <1>2, <1>3, TopologyAssumption DEF sendMessage
<1>4. ASSUME NEW c \in Call, NEW d \in Call, acceptRelayed(c, d) PROVE RelayedIsStored'
  <2>1. post[c] \in Post /\ post[c].msg = post[d].msg
    BY <1>4, SlotInUse DEF acceptRelayed, WaitersMatch
  <2>2. post[c].dst \in Node /\ post[c].msg \in Msg
    BY <2>1 DEF Post
  <2>3. CASE post[d].phase = "ok"
    BY <1>2, <1>4, <2>1, <2>2, <2>3 DEF acceptRelayed, AnswerIsStored
  <2>4. CASE post[d].phase # "ok"
    BY <1>1, <1>4, <2>4 DEF acceptRelayed
  <2>5. QED BY <2>3, <2>4
<1>5. ASSUME NEW w \in Courier, Begin(w) PROVE RelayedIsStored'
  BY <1>1, <1>3, <1>5 DEF Begin, flush, dropOutbox, sync
<1>6. ASSUME NEW w \in Courier, Proceed(w) PROVE UNCHANGED outbox
  BY <1>6 DEF Proceed, sendQueued, deliver, dropOne, importOne, deliverPost, deliverAnswer,
              deliverTimeout, deliverLocal, deliverSkip, deliverFailed, importMessages
<1>7. ASSUME NEW c \in Call, Accept(c) PROVE RelayedIsStored'
  BY <1>1, <1>4, <1>7 DEF Accept, acceptMessage, acceptStore, acceptTimeout
<1>8. ASSUME Fail PROVE UNCHANGED outbox
  BY <1>8 DEF Fail, Lose, CrashCaller, CrashHandler
<1>9. QED
  BY <1>1, <1>5, <1>6, <1>7, <1>8 DEF Next, vars

-----------------------------------------------------------------------------
(* The theorems.                                                           *)

\* Nothing is sent, stored or awaited at first.
LEMMA InvariantInit == Init => Invariant
<1> SUFFICES ASSUME Init PROVE Invariant
  OBVIOUS
<1> USE DEF Init
<1>1. TypeOK
  BY IdleType DEF TypeOK
<1>2. BusyHasMessage /\ StoreIsAddressed
  BY DEF BusyHasMessage, StoreIsAddressed, Idle, Free
<1>3. WaitersMatch /\ NoSelfWait
  BY CallAssumption DEF WaitersMatch, NoSelfWait, Free
<1>4. AnswerIsStored
  BY DEF AnswerIsStored, Idle, Free
<1>5. InboxIsAddressed /\ DeliveredIsStored /\ RelayedIsStored
  BY DEF InboxIsAddressed, DeliveredIsStored, RelayedIsStored
<1>6. QED BY <1>1, <1>2, <1>3, <1>4, <1>5 DEF Invariant

\* Every step keeps the whole invariant.
LEMMA InvariantStep == Invariant /\ [Next]_vars => Invariant'
<1> SUFFICES ASSUME Invariant, [Next]_vars PROVE Invariant'
  OBVIOUS
<1> USE DEF Invariant
<1>1. TypeOK' /\ BusyHasMessage' /\ WaitersMatch' /\ NoSelfWait'
  BY TypeStep, BusyStep, WaitersStep
<1>2. InboxIsAddressed' /\ DeliveredIsStored' /\ RelayedIsStored'
  BY InboxIsAddressedStep, DeliveredStep, RelayedStep
<1>3. StoreIsAddressed'
  BY SlotStep, CallerStep DEF StoreIsAddressed
<1>4. AnswerIsStored'
  <2>1. ASSUME NEW c \in Call, post'[c].phase = "ok", NEW m \in Msg, post'[c].msg = m
        PROVE  Stored(m)'
    BY <2>1, SlotStep
  <2>2. ASSUME NEW w \in Courier, courier'[w].pc = "local", NEW m \in Msg, courier'[w].msg = m
        PROVE  Stored(m)'
    BY <2>2, CallerStep
  <2>3. \A c \in Call : post'[c].phase = "ok" => post'[c].msg \in Msg
    BY <1>1 DEF TypeOK, Free, Post
  <2>4. \A w \in Courier : courier'[w].pc = "local" => courier'[w].msg \in Msg
    BY <1>1 DEF BusyHasMessage
  <2>5. QED BY <2>1, <2>2, <2>3, <2>4 DEF AnswerIsStored, Stored
<1>5. QED BY <1>1, <1>2, <1>3, <1>4

\* In every topology, for any set of messages and any number of callers, calls
\* and faults, the inductive invariant of Delivery holds in every state.
THEOREM InvariantHolds == Spec => []Invariant
<1>1. Init => Invariant
  BY InvariantInit
<1>2. Invariant /\ [Next]_vars => Invariant'
  BY InvariantStep
<1>3. QED BY <1>1, <1>2, PTL DEF Spec

\* The state always has its type: no POST without a message, no caller that
\* delivers nothing.
THEOREM TypeCorrect == Spec => []TypeOK
<1>1. Invariant => TypeOK
  BY DEF Invariant
<1>2. QED BY <1>1, InvariantHolds, PTL

\* deliver (ops.mjs) never records "delivered" for a message its recipient does
\* not hold, through a relay or not, whatever is lost, late or repeated.
THEOREM DeliveredIsSafe == Spec => []DeliveredIsStored
<1>1. Invariant => DeliveredIsStored
  BY DEF Invariant
<1>2. QED BY <1>1, InvariantHolds, PTL

\* acceptMessage and importMessages never leave a message in the inbox of a node
\* it is not addressed to.
THEOREM InboxIsSafe == Spec => []InboxIsAddressed
<1>1. Invariant => InboxIsAddressed
  BY DEF Invariant
<1>2. QED BY <1>1, InvariantHolds, PTL

\* What acceptMessage keeps in a relay's outbox has always arrived already.
THEOREM RelayedIsSafe == Spec => []RelayedIsStored
<1>1. Invariant => RelayedIsStored
  BY DEF Invariant
<1>2. QED BY <1>1, InvariantHolds, PTL

-----------------------------------------------------------------------------
(* Delivery implements Mailbox: every step of a caller, a handler, the     *)
(* network or a machine sends, stores, settles or unsettles one message as *)
(* Mailbox allows, or changes nothing Mailbox speaks of.                   *)

\* The messages in outboxes, in the hands of callers and in POSTs are of K.
Uses(K) ==
  /\ \A n \in Node : outbox[n] \subseteq K
  /\ \A w \in Courier : courier[w].batch \subseteq K /\ courier[w].msg \in K \cup {None}
  /\ \A c \in Call : post[c].msg \in K \cup {None}

\* What Mailbox calls sent, arrived and settled.
Written == {m \in Msg : m \in outbox[From[m]]}
Arrived == {m \in Msg : Stored(m)}
Settled == {m \in Msg : delivery[From[m]][m] = "delivered"}

\* No message is anywhere before it is in the outbox of its sender.
WrittenFirst == Uses(Written)

-----------------------------------------------------------------------------
(* Nothing but sendMessage brings a message into use.                      *)

\* An answered, abandoned or lost POST has the message it had, or none.
LEMMA SameMessage ==
  ASSUME NEW p
  PROVE  /\ \A a : Answered(p, a).msg \in {p.msg, None} \/ p \notin Post
         /\ Abandoned(p).msg \in {p.msg, None} \/ p \notin Post
BY DEF Answered, Abandoned, Free, Post

\* A caller takes on messages of K only.
LEMMA UsesCaller ==
  ASSUME TypeOK, NEW K, Uses(K), NEW w \in Courier, NEW r,
         courier' = [courier EXCEPT ![w] = r],
         r.batch \subseteq K, r.msg \in K \cup {None},
         UNCHANGED outbox, \A c \in Call : post'[c].msg \in K \cup {None}
  PROVE  Uses(K)'
BY DEF Uses, TypeOK

\* A caller that goes on with messages of K.
LEMMA UsesContinue ==
  ASSUME TypeOK, NEW K, Uses(K), NEW w \in Courier, NEW S \in SUBSET K, Continue(w, S),
         UNCHANGED outbox, \A c \in Call : post'[c].msg \in K \cup {None}
  PROVE  Uses(K)'
<1> DEFINE r == IF S = {} THEN Idle ELSE [Idle EXCEPT !.pc = "next", !.batch = S]
<1>1. courier' = [courier EXCEPT ![w] = r]
  BY DEF Continue
<1>2. r.batch \subseteq K /\ r.msg \in K \cup {None}
  BY DEF Idle
<1> HIDE DEF r
<1>3. QED BY <1>1, <1>2, UsesCaller

\* A caller that begins works with what is in an outbox.
LEMMA UsesBegin ==
  ASSUME Invariant, NEW K \in SUBSET Msg, Uses(K), NEW w \in Courier, Begin(w),
         ~\E m \in Msg : sendMessage(w, m)
  PROVE  Uses(K)'
<1>1. TypeOK /\ Home[w] \in Node
  BY TopologyAssumption DEF Invariant
<1>2. \A n \in Node : outbox[n] \subseteq K
  BY DEF Uses
<1>3. ASSUME UNCHANGED post PROVE \A c \in Call : post'[c].msg \in K \cup {None}
  BY <1>3 DEF Uses
<1>4. ASSUME NEW S \in SUBSET outbox[Home[w]], flush(w, S) PROVE Uses(K)'
  BY <1>1, <1>2, <1>3, <1>4, UsesContinue DEF flush
<1>5. ASSUME NEW S \in SUBSET outbox[Home[w]], dropOutbox(w, S) PROVE Uses(K)'
  <2> DEFINE r == [Idle EXCEPT !.pc = "drop", !.batch = S]
  <2>1. courier' = [courier EXCEPT ![w] = r] /\ UNCHANGED <<outbox, post>>
    BY <1>5 DEF dropOutbox
  <2>2. r.batch = S /\ r.msg = None
    BY DEF Idle
  <2> HIDE DEF r
  <2>3. QED BY <2>1, <2>2, <1>1, <1>2, <1>3, UsesCaller
<1>6. ASSUME NEW p \in Node, sync(w, p) PROVE Uses(K)'
  <2> DEFINE r == [Idle EXCEPT !.pc = "fetched", !.batch = OutboxPage(p, Home[w])]
  <2>1. courier' = [courier EXCEPT ![w] = r] /\ UNCHANGED <<outbox, post>>
    BY <1>6 DEF sync
  <2>2. OutboxPage(p, Home[w]) \subseteq K
    BY <1>2 DEF OutboxPage, Oldest
  <2>3. r.batch = OutboxPage(p, Home[w]) /\ r.msg = None
    BY DEF Idle
  <2> HIDE DEF r
  <2>4. QED BY <2>1, <2>2, <2>3, <1>1, <1>3, UsesCaller
<1>7. QED BY <1>4, <1>5, <1>6 DEF Begin

\* ... and goes on with what it has.
LEMMA UsesProceed ==
  ASSUME Invariant, NEW K \in SUBSET Msg, Uses(K), NEW w \in Courier, Proceed(w)
  PROVE  Uses(K)'
<1>1. /\ TypeOK /\ courier[w] \in CourierState
      /\ courier[w].batch \subseteq K /\ courier[w].msg \in K \cup {None}
      /\ \A c \in Call : post[c].msg \in K \cup {None}
  BY DEF Invariant, TypeOK, Uses
<1>2. \A c \in Call : Free.msg \in K \cup {None}
                      /\ (post[c] \in Post => Abandoned(post[c]).msg \in K \cup {None})
  BY <1>1, SameMessage DEF Free
<1>3. ASSUME UNCHANGED post PROVE \A c \in Call : post'[c].msg \in K \cup {None}
  BY <1>1, <1>3
<1>4. ASSUME NEW m \in Msg, sendQueued(w, m) PROVE Uses(K)'
  BY <1>1, <1>3, <1>4, UsesContinue DEF sendQueued
<1>5. ASSUME NEW m \in Msg, deliver(w, m) PROVE Uses(K)'
  <2>1. m \in K /\ UNCHANGED <<outbox, post>>
    BY <1>1, <1>5 DEF deliver
  <2>2. \E r : /\ courier' = [courier EXCEPT ![w] = r]
               /\ r.batch = courier[w].batch \ {m} /\ r.msg = m
    <3>1. CASE To[m] = Home[w]
      <4> DEFINE r == [courier[w] EXCEPT !.pc = "local", !.msg = m, !.batch = @ \ {m}]
      <4>1. courier' = [courier EXCEPT ![w] = r]
        BY <1>5, <3>1 DEF deliver
      <4>2. r.batch = courier[w].batch \ {m} /\ r.msg = m
        BY <1>1 DEF CourierState
      <4>3. QED BY <4>1, <4>2
    <3>2. CASE To[m] # Home[w]
      <4> DEFINE r == [pc |-> "try", msg |-> m, batch |-> courier[w].batch \ {m},
                       todo |-> Candidates(Home[w], m)]
      <4>1. courier' = [courier EXCEPT ![w] = r]
        BY <1>5, <3>2 DEF deliver
      <4>2. r.batch = courier[w].batch \ {m} /\ r.msg = m
        OBVIOUS
      <4>3. QED BY <4>1, <4>2
    <3>3. QED BY <3>1, <3>2
  <2>3. QED BY <2>1, <2>2, <1>1, <1>3, UsesCaller
<1>6. ASSUME NEW m \in Msg, dropOne(w, m) \/ importOne(w, m) PROVE Uses(K)'
  <2> DEFINE r == IF courier[w].batch = {m} THEN Idle ELSE [courier[w] EXCEPT !.batch = @ \ {m}]
  <2>1. courier' = [courier EXCEPT ![w] = r] /\ UNCHANGED <<outbox, post>>
    BY <1>6 DEF dropOne, importOne
  <2>2. r.batch \subseteq K /\ r.msg \in K \cup {None}
    BY <1>1 DEF Idle, CourierState
  <2> HIDE DEF r
  <2>3. QED BY <2>1, <2>2, <1>1, <1>3, UsesCaller
<1>7. ASSUME NEW c \in Call, deliverPost(w, c) PROVE Uses(K)'
  <2> DEFINE r == [courier[w] EXCEPT !.pc = "wait", !.todo = Tail(@)]
  <2>1. courier' = [courier EXCEPT ![w] = r] /\ UNCHANGED outbox
    BY <1>7 DEF deliverPost
  <2>2. r.batch = courier[w].batch /\ r.msg = courier[w].msg
    BY <1>1 DEF CourierState
  <2> HIDE DEF r
  <2>3. Sent(courier[w].msg, Head(courier[w].todo), w).msg = courier[w].msg
    BY DEF Sent
  <2>4. \A d \in Call : post'[d].msg \in K \cup {None}
    BY <2>3, <1>1, <1>7 DEF deliverPost, TypeOK
  <2>5. QED BY <2>1, <2>2, <2>4, <1>1, UsesCaller
<1>8. ASSUME NEW c \in Call, deliverAnswer(w, c) PROVE Uses(K)'
  <2>1. UNCHANGED outbox /\ \A d \in Call : post'[d].msg \in K \cup {None}
    BY <1>1, <1>2, <1>8 DEF deliverAnswer, TypeOK
  <2>2. CASE post[c].phase = "ok"
    BY <2>1, <2>2, <1>1, <1>8, UsesContinue DEF deliverAnswer
  <2>3. CASE post[c].phase # "ok"
    <3> DEFINE r == [courier[w] EXCEPT !.pc = "try"]
    <3>1. courier' = [courier EXCEPT ![w] = r]
      BY <1>8, <2>3 DEF deliverAnswer
    <3>2. r.batch = courier[w].batch /\ r.msg = courier[w].msg
      BY <1>1 DEF CourierState
    <3> HIDE DEF r
    <3>3. QED BY <3>1, <3>2, <2>1, <1>1, UsesCaller
  <2>4. QED BY <2>2, <2>3
<1>9. ASSUME NEW c \in Call, deliverTimeout(w, c) PROVE Uses(K)'
  <2>1. post[c] \in Post
    BY <1>1, <1>9, SlotInUse, CallAssumption DEF deliverTimeout
  <2>2. UNCHANGED outbox /\ \A d \in Call : post'[d].msg \in K \cup {None}
    BY <1>1, <1>2, <1>9, <2>1 DEF deliverTimeout, TypeOK
  <2> DEFINE r == [courier[w] EXCEPT !.pc = "try"]
  <2>3. courier' = [courier EXCEPT ![w] = r]
    BY <1>9 DEF deliverTimeout
  <2>4. r.batch = courier[w].batch /\ r.msg = courier[w].msg
    BY <1>1 DEF CourierState
  <2> HIDE DEF r
  <2>5. QED BY <2>2, <2>3, <2>4, <1>1, UsesCaller
<1>10. ASSUME deliverLocal(w) \/ deliverFailed(w) PROVE Uses(K)'
  BY <1>1, <1>3, <1>10, UsesContinue DEF deliverLocal, deliverFailed
<1>11. ASSUME deliverSkip(w) PROVE Uses(K)'
  <2> DEFINE r == [courier[w] EXCEPT !.todo = Tail(@)]
  <2>1. courier' = [courier EXCEPT ![w] = r] /\ UNCHANGED <<outbox, post>>
    BY <1>11 DEF deliverSkip
  <2>2. r.batch = courier[w].batch /\ r.msg = courier[w].msg
    BY <1>1 DEF CourierState
  <2> HIDE DEF r
  <2>3. QED BY <2>1, <2>2, <1>1, <1>3, UsesCaller
<1>12. ASSUME importMessages(w) PROVE Uses(K)'
  <2> DEFINE new == courier[w].batch \ Held(Home[w])
             r == IF new = {} THEN Idle ELSE [courier[w] EXCEPT !.pc = "import", !.batch = new]
  <2>1. courier' = [courier EXCEPT ![w] = r] /\ UNCHANGED <<outbox, post>>
    BY <1>12 DEF importMessages
  <2>2. r.batch \subseteq K /\ r.msg \in K \cup {None}
    BY <1>1 DEF Idle, CourierState
  <2> HIDE DEF r
  <2>3. QED BY <2>1, <2>2, <1>1, <1>3, UsesCaller
<1>13. QED
  BY <1>4, <1>5, <1>6, <1>7, <1>8, <1>9, <1>10, <1>11, <1>12 DEF Proceed

\* A handler passes on the message it was sent.
LEMMA UsesAccept ==
  ASSUME Invariant, NEW K \in SUBSET Msg, Uses(K), NEW c \in Call, Accept(c)
  PROVE  Uses(K)'
<1>1. /\ TypeOK /\ \A d \in Call : post[d].msg \in K \cup {None}
      /\ None \notin Msg /\ UNCHANGED courier
  BY CallAssumption DEF Invariant, Uses, Accept, acceptMessage, acceptStore, acceptRelayed,
     acceptTimeout
<1>2. \A d \in Call : Free.msg \in K \cup {None}
        /\ (post[d] \in Post => /\ post[d].msg \in K
                                /\ Abandoned(post[d]).msg \in K \cup {None}
                                /\ \A a : Answered(post[d], a).msg \in K \cup {None})
  BY <1>1, SameMessage DEF Free, Post
<1>3. ASSUME UNCHANGED outbox, \A d \in Call : post'[d].msg \in K \cup {None} PROVE Uses(K)'
  BY <1>1, <1>3 DEF Uses
<1>4. CASE acceptMessage(c)
  <2>1. post[c] \in Post /\ UNCHANGED outbox
    BY <1>1, <1>4, SlotInUse DEF acceptMessage
  <2>2. \A a : [post[c] EXCEPT !.phase = a].msg \in K \cup {None}
    BY <1>1, <2>1 DEF Post
  <2>3. CASE \E a : post' = [post EXCEPT ![c] = Answered(@, a)]
    BY <2>1, <2>3, <1>1, <1>2, <1>3 DEF TypeOK
  <2>4. CASE post' = [post EXCEPT ![c].phase = "append"]
    <3>1. post' = [post EXCEPT ![c] = [post[c] EXCEPT !.phase = "append"]]
      BY <2>4
    <3>2. QED BY <3>1, <2>1, <2>2, <1>1, <1>3 DEF TypeOK
  <2>5. CASE \E d \in Call : post' = [post EXCEPT ![c].phase = "forward",
                                                  ![d] = Sent(post[c].msg, To[post[c].msg], c)]
    <3>1. PICK d \in Call : post' = [post EXCEPT ![c].phase = "forward",
                                                 ![d] = Sent(post[c].msg, To[post[c].msg], c)]
      BY <2>5
    <3>2. Sent(post[c].msg, To[post[c].msg], c).msg = post[c].msg
      BY DEF Sent
    <3>3. \A e \in Call : post'[e] \in {post[e], [post[c] EXCEPT !.phase = "forward"],
                                        Sent(post[c].msg, To[post[c].msg], c)}
      BY <3>1, <1>1 DEF TypeOK
    <3>4. QED BY <3>2, <3>3, <2>1, <2>2, <1>1, <1>3
  <2>6. QED BY <1>4, <2>3, <2>4, <2>5 DEF acceptMessage
<1>5. CASE acceptStore(c)
  <2>1. post[c] \in Post /\ UNCHANGED outbox
    BY <1>1, <1>5, SlotInUse DEF acceptStore
  <2>2. QED BY <2>1, <1>1, <1>2, <1>3, <1>5 DEF acceptStore, TypeOK
<1>6. ASSUME NEW d \in Call, acceptRelayed(c, d) \/ acceptTimeout(c, d) PROVE Uses(K)'
  <2>1. post[d].waiter = c /\ post[c].phase = "forward" /\ c # None
    BY <1>6, CallAssumption DEF acceptRelayed, acceptTimeout, Invariant, WaitersMatch
  <2>2. post[c] \in Post /\ post[d] \in Post
    BY <1>1, <2>1, SlotInUse
  <2>3. \A e \in Call : \/ post'[e] \in {post[e], Free, Abandoned(post[d])}
                        \/ \E a : post'[e] = Answered(post[c], a)
    BY <1>6, <1>1 DEF acceptRelayed, acceptTimeout, TypeOK
  <2>4. \A e \in Call : post'[e].msg \in K \cup {None}
    BY <2>2, <2>3, <1>1, <1>2
  <2>5. \A n \in Node : outbox'[n] \subseteq outbox[n] \cup {post[c].msg}
    <3>1. outbox \in [Node -> SUBSET Msg]
      BY <1>1 DEF TypeOK
    <3>2. CASE acceptRelayed(c, d)
      BY <3>1, <3>2 DEF acceptRelayed
    <3>3. CASE acceptTimeout(c, d)
      BY <3>3 DEF acceptTimeout
    <3>4. QED BY <1>6, <3>2, <3>3
  <2>6. QED BY <2>2, <2>4, <2>5, <1>1, <1>2 DEF Uses
<1>7. QED BY <1>4, <1>5, <1>6 DEF Accept

\* A failure brings nothing.
LEMMA UsesFail ==
  ASSUME Invariant, NEW K \in SUBSET Msg, Uses(K), Fail
  PROVE  Uses(K)'
<1>1. /\ TypeOK /\ \A d \in Call : post[d].msg \in K \cup {None}
      /\ UNCHANGED outbox
  BY DEF Invariant, Uses, Fail, Lose, CrashCaller, CrashHandler
<1>2. \A d \in Call : post[d] \in Post =>
        /\ Abandoned(post[d]).msg \in K \cup {None}
        /\ [post[d] EXCEPT !.phase = "lost"].msg \in K \cup {None}
  BY <1>1, SameMessage DEF Post
<1>3. Free.msg = None /\ Idle.batch = {} /\ Idle.msg = None
  BY DEF Free, Idle
<1>4. ASSUME NEW c \in Call, Lose(c) PROVE Uses(K)'
  <2>1. post[c] \in Post /\ UNCHANGED courier
    BY <1>1, <1>4, SlotInUse DEF Lose
  <2>2. post' = [post EXCEPT ![c] = IF post[c].waiter = None THEN Free
                                    ELSE [post[c] EXCEPT !.phase = "lost"]]
    BY <1>4 DEF Lose
  <2>3. \A d \in Call : post'[d] \in {post[d], Free} \/ (d = c /\ post'[d] = [post[c] EXCEPT !.phase = "lost"])
    BY <2>2, <1>1 DEF TypeOK
  <2>4. \A d \in Call : post'[d].msg \in K \cup {None}
    BY <2>1, <2>3, <1>1, <1>2, <1>3
  <2>5. QED BY <2>1, <2>4, <1>1 DEF Uses
<1>5. ASSUME NEW c \in Call, CrashHandler(c) PROVE Uses(K)'
  <2>1. post[c] \in Post /\ UNCHANGED courier /\ c # None
    BY <1>1, <1>5, SlotInUse, CallAssumption DEF CrashHandler
  <2>2. \A d \in Call : post[d].waiter = c => post[d] \in Post
    BY <2>1, <1>1, SlotInUse
  <2>3. \A d \in Call : \/ post'[d] \in {post[d], Free}
                        \/ d = c /\ post'[d] = [post[c] EXCEPT !.phase = "lost"]
                        \/ post[d] \in Post /\ post'[d] = Abandoned(post[d])
    BY <2>2, <1>5 DEF CrashHandler
  <2>4. \A d \in Call : post'[d].msg \in K \cup {None}
    BY <2>1, <2>3, <1>1, <1>2, <1>3
  <2>5. QED BY <2>1, <2>4, <1>1 DEF Uses
<1>6. ASSUME NEW w \in Courier, CrashCaller(w) PROVE Uses(K)'
  <2>1. w # None
    BY CallAssumption
  <2>2. \A d \in Call : post[d].waiter = w => post[d] \in Post
    BY <2>1, <1>1, SlotInUse
  <2>3. \A d \in Call : post'[d] = post[d] \/ (post[d] \in Post /\ post'[d] = Abandoned(post[d]))
    BY <2>2, <1>6 DEF CrashCaller
  <2>4. \A d \in Call : post'[d].msg \in K \cup {None}
    BY <2>3, <1>1, <1>2
  <2>5. QED BY <2>4, <1>1, <1>3, <1>6, UsesCaller DEF CrashCaller
<1>7. QED BY <1>4, <1>5, <1>6 DEF Fail

\* sendMessage uses one more message, which it has written.
LEMMA UsesSend ==
  ASSUME TypeOK, NEW K \in SUBSET Msg, Uses(K), NEW w \in Courier, NEW m \in Msg,
         sendMessage(w, m)
  PROVE  Uses(K \cup {m})'
<1>1. Home[w] \in Node
  BY TopologyAssumption
<1> DEFINE r == [Idle EXCEPT !.pc = "queued", !.batch = {m}]
<1>2. courier' = [courier EXCEPT ![w] = r] /\ UNCHANGED post
      /\ outbox' = [outbox EXCEPT ![Home[w]] = @ \cup {m}]
  BY DEF sendMessage
<1>3. r.batch = {m} /\ r.msg = None
  BY DEF Idle
<1> HIDE DEF r
<1>4. QED BY <1>1, <1>2, <1>3 DEF Uses, TypeOK

-----------------------------------------------------------------------------
(* What a step does to the records, as Mailbox sees it.                    *)

\* Outboxes only grow, by what is known or by the record that is sent.
LEMMA OutboxGrows ==
  ASSUME Invariant, WrittenFirst, [Next]_vars, ~\E w \in Courier, m \in Msg : sendMessage(w, m)
  PROVE  Written' = Written /\ Uses(Written)'
<1>1. TypeOK /\ Written \in SUBSET Msg /\ Uses(Written)
  BY DEF Invariant, WrittenFirst, Written
<1>2. PICK K \in SUBSET Msg : K = Written
  BY <1>1
<1>3. Uses(K)'
  <2>1. CASE UNCHANGED vars
    BY <2>1, <1>1, <1>2 DEF vars, Uses
  <2>2. QED
    BY <2>1, <1>1, <1>2, UsesBegin, UsesProceed, UsesAccept, UsesFail DEF Next
<1>4. \A n \in Node : outbox[n] \subseteq outbox'[n]
  <2>1. UNCHANGED outbox \/ \E c \in Call : outbox' = [outbox EXCEPT ![post[c].dst] = @ \cup {post[c].msg}]
    <3>1. ASSUME NEW w \in Courier, Begin(w) PROVE UNCHANGED outbox
      BY <3>1 DEF Begin, flush, dropOutbox, sync
    <3>2. ASSUME NEW w \in Courier, Proceed(w) PROVE UNCHANGED outbox
      BY <3>2 DEF Proceed, sendQueued, deliver, dropOne, importOne, deliverPost, deliverAnswer,
         deliverTimeout, deliverLocal, deliverSkip, deliverFailed, importMessages
    <3>3. ASSUME NEW c \in Call, Accept(c)
          PROVE  \/ UNCHANGED outbox
                 \/ outbox' = [outbox EXCEPT ![post[c].dst] = @ \cup {post[c].msg}]
      BY <3>3 DEF Accept, acceptMessage, acceptStore, acceptRelayed, acceptTimeout
    <3>4. Fail => UNCHANGED outbox
      BY DEF Fail, Lose, CrashCaller, CrashHandler
    <3>5. QED BY <3>1, <3>2, <3>3, <3>4 DEF Next, vars
  <2>2. QED BY <2>1, <1>1 DEF TypeOK
<1>5. Written' = Written
  <2>1. Written \subseteq Written'
    BY <1>4, MessageAssumption DEF Written
  <2>2. Written' \subseteq K
    BY <1>3, MessageAssumption DEF Uses, Written
  <2>3. QED BY <2>1, <2>2, <1>2
<1>6. QED BY <1>2, <1>3, <1>5 DEF Uses

\* sendMessage writes one record to the outbox of its sender.
LEMMA SendIsSend ==
  ASSUME TypeOK, NEW w \in Courier, NEW m \in Msg, sendMessage(w, m)
  PROVE  m \notin Written /\ Written' = Written \cup {m} /\ Arrived' = Arrived /\ Settled' = Settled
<1>1. Home[w] \in Node /\ From[m] = Home[w]
  BY TopologyAssumption DEF sendMessage
<1>2. outbox' = [outbox EXCEPT ![Home[w]] = @ \cup {m}] /\ m \notin outbox[Home[w]]
  BY DEF sendMessage
<1>3. m \notin Written /\ Written' = Written \cup {m}
  BY <1>1, <1>2, MessageAssumption DEF Written, TypeOK
<1>4. UNCHANGED <<inbox, delivery>>
  BY DEF sendMessage
<1>5. QED BY <1>3, <1>4 DEF Arrived, Settled, Stored

\* Every message is in the outbox of its sender before anybody else has it.
LEMMA WrittenFirstStep == Invariant /\ WrittenFirst /\ [Next]_vars => WrittenFirst'
<1> SUFFICES ASSUME Invariant, WrittenFirst, [Next]_vars PROVE WrittenFirst'
  OBVIOUS
<1>1. TypeOK
  BY DEF Invariant
<1>2. ASSUME NEW w \in Courier, NEW m \in Msg, sendMessage(w, m) PROVE WrittenFirst'
  <2>1. PICK K \in SUBSET Msg : K = Written
    BY DEF Written
  <2>2. Uses(K \cup {m})'
    BY <2>1, <1>1, <1>2, UsesSend DEF WrittenFirst
  <2>3. Written' = K \cup {m}
    BY <2>1, <1>1, <1>2, SendIsSend
  <2>4. QED BY <2>2, <2>3 DEF WrittenFirst, Uses
<1>3. QED BY <1>2, OutboxGrows DEF WrittenFirst

\* Where inboxes grow, they grow by a message that was written before.
LEMMA InboxGrows ==
  ASSUME Invariant, WrittenFirst, [Next]_vars
  PROVE  \/ UNCHANGED inbox
         \/ /\ UNCHANGED delivery
            /\ \E n \in Node, m \in Written :
                 To[m] \in {n, Everyone} /\ inbox' = append(inbox, n, m)
<1>1. TypeOK /\ StoreIsAddressed /\ Written \subseteq Msg
  BY DEF Invariant, Written
<1>2. \A w \in Courier : courier[w].batch \subseteq Written
  BY DEF WrittenFirst, Uses
<1> DEFINE Goal == \/ UNCHANGED inbox
                   \/ /\ UNCHANGED delivery
                      /\ \E n \in Node, m \in Written :
                           To[m] \in {n, Everyone} /\ inbox' = append(inbox, n, m)
<1>3. ASSUME NEW w \in Courier, NEW m \in Msg, deliver(w, m) PROVE Goal
  BY <1>2, <1>3, TopologyAssumption DEF deliver
<1>4. ASSUME NEW w \in Courier, NEW m \in Msg, importOne(w, m) PROVE Goal
  BY <1>1, <1>2, <1>4, TopologyAssumption DEF importOne, StoreIsAddressed
<1>5. ASSUME NEW c \in Call, acceptStore(c) PROVE Goal
  <2>1. post[c].dst \in Node /\ post[c].msg \in Msg
    BY <1>1, <1>5, SlotInUse DEF acceptStore, Post
  <2>2. post[c].msg \in Written
    BY <2>1, CallAssumption DEF WrittenFirst, Uses
  <2>3. QED BY <1>1, <1>5, <2>1, <2>2 DEF acceptStore, StoreIsAddressed
<1>6. ASSUME NEW w \in Courier, Begin(w) PROVE UNCHANGED inbox
  BY <1>6 DEF Begin, sendMessage, flush, dropOutbox, sync
<1>7. ASSUME NEW w \in Courier, Proceed(w) PROVE Goal
  BY <1>3, <1>4, <1>7
  DEF Proceed, sendQueued, dropOne, deliverPost, deliverAnswer, deliverTimeout, deliverLocal,
      deliverSkip, deliverFailed, importMessages
<1>8. ASSUME NEW c \in Call, Accept(c) PROVE Goal
  BY <1>5, <1>8 DEF Accept, acceptMessage, acceptRelayed, acceptTimeout
<1>9. Fail => UNCHANGED inbox
  BY DEF Fail, Lose, CrashCaller, CrashHandler
<1>10. QED
  BY <1>6, <1>7, <1>8, <1>9 DEF Next, vars

\* Delivery states change one at a time.
LEMMA StatesChange ==
  ASSUME Invariant, [Next]_vars
  PROVE  \/ UNCHANGED delivery
         \/ \E n \in Node, m \in Msg, s \in {"pending", "delivered", "dropped"} :
              setDelivery(n, m, s)
<1> DEFINE Goal == \/ UNCHANGED delivery
                   \/ \E n \in Node, m \in Msg, s \in {"pending", "delivered", "dropped"} :
                        setDelivery(n, m, s)
<1>1. TypeOK /\ BusyHasMessage /\ \A w \in Courier : Home[w] \in Node
  BY TopologyAssumption DEF Invariant
<1>2. ASSUME NEW w \in Courier, NEW m \in Msg, sendQueued(w, m) \/ dropOne(w, m) PROVE Goal
  BY <1>1, <1>2 DEF sendQueued, dropOne
<1>3. ASSUME NEW w \in Courier, deliverLocal(w) \/ deliverFailed(w) PROVE Goal
  <2>1. courier[w].msg \in Msg
    BY <1>1, <1>3 DEF BusyHasMessage, deliverLocal, deliverFailed
  <2>2. QED BY <1>1, <1>3, <2>1 DEF deliverLocal, deliverFailed
<1>4. ASSUME NEW w \in Courier, NEW c \in Call, deliverAnswer(w, c) PROVE Goal
  <2>1. courier[w].pc = "wait"
    BY <1>4 DEF deliverAnswer, Invariant, WaitersMatch
  <2>2. courier[w].msg \in Msg
    BY <2>1, <1>1 DEF BusyHasMessage
  <2>3. QED BY <1>1, <1>4, <2>2 DEF deliverAnswer
<1>5. ASSUME NEW w \in Courier, Begin(w) PROVE UNCHANGED delivery
  BY <1>5 DEF Begin, sendMessage, flush, dropOutbox, sync
<1>6. ASSUME NEW w \in Courier, Proceed(w) PROVE Goal
  BY <1>2, <1>3, <1>4, <1>6
  DEF Proceed, deliver, importOne, deliverPost, deliverTimeout, deliverSkip, importMessages
<1>7. ASSUME NEW c \in Call, Accept(c) PROVE UNCHANGED delivery
  BY <1>7 DEF Accept, acceptMessage, acceptStore, acceptRelayed, acceptTimeout
<1>8. Fail => UNCHANGED delivery
  BY DEF Fail, Lose, CrashCaller, CrashHandler
<1>9. QED BY <1>5, <1>6, <1>7, <1>8 DEF Next, vars

-----------------------------------------------------------------------------
\* A step of Delivery is a step of Mailbox, or none.
LEMMA MailboxStep ==
  ASSUME Invariant, Invariant', WrittenFirst, [Next]_vars
  PROVE  [Promise!Next]_<<Written, Arrived, Settled>>
<1>1. TypeOK /\ DeliveredIsStored' /\ TypeOK'
  BY DEF Invariant
<1>2. ASSUME NEW w \in Courier, NEW m \in Msg, sendMessage(w, m)
      PROVE  Promise!Send(m)
  BY <1>1, <1>2, SendIsSend DEF Promise!Send, Written, Arrived, Settled
<1>3. ASSUME Written' = Written, UNCHANGED delivery, NEW n \in Node, NEW m \in Written,
             To[m] \in {n, Everyone}, inbox' = append(inbox, n, m)
      PROVE  Promise!Arrive(m)
  <2>1. m \in Msg
    BY DEF Written
  <2>2. Arrived' = Arrived \cup {m}
    <3>1. \A k \in Node, x \in Msg : inbox'[k][x] = IF k = n /\ x = m THEN inbox[k][x] + 1 ELSE inbox[k][x]
      BY <1>1, <1>3 DEF append, TypeOK
    <3>2. \A k \in Node, x \in Msg : inbox[k][x] \in Nat
      BY <1>1 DEF TypeOK
    <3>3. Stored(m)'
      BY <1>3, <2>1, <3>1, <3>2 DEF Stored
    <3>4. \A x \in Msg \ {m} : Stored(x)' <=> Stored(x)
      BY <3>1 DEF Stored
    <3>5. QED BY <2>1, <3>3, <3>4 DEF Arrived
  <2>3. Settled' = Settled
    BY <1>3 DEF Settled
  <2>4. QED BY <1>3, <2>2, <2>3 DEF Promise!Arrive, Written, Arrived, Settled
<1>4. ASSUME Written' = Written, UNCHANGED inbox, NEW n \in Node, NEW m \in Msg,
             NEW s \in {"pending", "delivered", "dropped"}, setDelivery(n, m, s)
      PROVE  Promise!Settle(m) \/ Promise!Unsettle(m) \/ Settled' = Settled
  <2>1. Arrived' = Arrived
    BY <1>4 DEF Arrived, Stored
  <2>2. \A k \in Node, x \in Msg : delivery'[k][x] = IF k = n /\ x = m THEN s ELSE delivery[k][x]
    BY <1>1, <1>4 DEF setDelivery, TypeOK
  <2>3. \A x \in Msg : From[x] \in Node
    BY MessageAssumption
  <2>4. CASE From[m] # n
    BY <2>2, <2>3, <2>4 DEF Settled
  <2>5. CASE From[m] = n /\ s = "delivered"
    <3>1. Settled' = Settled \cup {m}
      BY <2>2, <2>3, <2>5 DEF Settled
    <3>2. m \in Arrived'
      BY <1>1, <2>2, <2>3, <2>5 DEF DeliveredIsStored, Arrived
    <3>3. QED BY <1>4, <2>1, <3>1, <3>2 DEF Promise!Settle, Written, Arrived, Settled
  <2>6. CASE From[m] = n /\ s # "delivered"
    <3>1. Settled' = Settled \ {m}
      BY <2>2, <2>3, <2>6 DEF Settled
    <3>2. QED BY <1>4, <2>1, <3>1 DEF Promise!Unsettle, Written, Arrived, Settled
  <2>7. QED BY <2>4, <2>5, <2>6
<1>5. CASE \E w \in Courier, m \in Msg : sendMessage(w, m)
  BY <1>2, <1>5 DEF Promise!Next
<1>6. CASE ~\E w \in Courier, m \in Msg : sendMessage(w, m)
  <2>1. Written' = Written
    BY <1>6, OutboxGrows
  <2>2. CASE UNCHANGED inbox /\ UNCHANGED delivery
    BY <2>1, <2>2 DEF Arrived, Settled, Stored
  <2>3. CASE ~UNCHANGED inbox
    <3>1. PICK n \in Node, m \in Written :
            To[m] \in {n, Everyone} /\ inbox' = append(inbox, n, m) /\ UNCHANGED delivery
      BY <2>3, InboxGrows
    <3>2. m \in Msg /\ Promise!Arrive(m)
      BY <1>3, <2>1, <3>1 DEF Written
    <3>3. QED BY <3>2 DEF Promise!Next
  <2>4. CASE UNCHANGED inbox /\ ~UNCHANGED delivery
    <3>1. PICK n \in Node, m \in Msg, s \in {"pending", "delivered", "dropped"} : setDelivery(n, m, s)
      BY <2>4, StatesChange
    <3>2. Promise!Settle(m) \/ Promise!Unsettle(m) \/ Settled' = Settled
      BY <1>4, <2>1, <2>4, <3>1
    <3>3. Arrived' = Arrived
      BY <2>4 DEF Arrived, Stored
    <3>4. QED BY <2>1, <3>2, <3>3 DEF Promise!Next
  <2>5. QED BY <2>2, <2>3, <2>4
<1>7. QED BY <1>5, <1>6

\* The nodes of src/ops.mjs and src/store.mjs keep the promise of Mailbox, for
\* every topology and every number of callers, messages and faults: a message is
\* sent, then stored, and called delivered only while it is stored.
THEOREM DeliveryImplementsMailbox == Spec => ImplementsMailbox
<1>1. Init => Promise!Init
  <2> SUFFICES ASSUME Init PROVE Promise!Init
    OBVIOUS
  <2>1. Written = {}
    BY MessageAssumption DEF Init, Written
  <2>2. Arrived = {}
    BY DEF Init, Arrived, Stored
  <2>3. Settled = {}
    BY MessageAssumption DEF Init, Settled
  <2>4. QED BY <2>1, <2>2, <2>3 DEF Promise!Init, Written, Arrived, Settled
<1>2. Init => WrittenFirst
  BY DEF Init, WrittenFirst, Uses, Written, Idle, Free
<1>3. Invariant /\ Invariant' /\ WrittenFirst /\ [Next]_vars
        => [Promise!Next]_<<Written, Arrived, Settled>>
  BY MailboxStep
<1>4. Spec => []Invariant
  BY InvariantHolds
<1>5. Invariant /\ Invariant' /\ WrittenFirst /\ [Next]_vars => WrittenFirst'
  BY WrittenFirstStep
<1>6. QED
  BY <1>1, <1>2, <1>3, <1>4, <1>5, PTL DEF Spec, ImplementsMailbox, Promise!Spec, Written, Arrived, Settled
=============================================================================
