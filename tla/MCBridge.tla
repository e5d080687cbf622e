------------------------------ MODULE MCBridge ------------------------------
(***************************************************************************)
(* Instances of BridgeWake.  In Mails 1 and 3 answer on the thread on      *)
(* which local sessions ask, 2 opens a topic by its subject, and 3 has a   *)
(* foreign id: it sorts last and is older than 2.  In Answers 1 and 2      *)
(* answer what two sessions sent on two threads, and come after it.        *)
(***************************************************************************)
EXTENDS BridgeWake

CONSTANTS t1, t2, s1, p1, here, there

Message(m, ts, t, s, r) ==
  [id |-> m, ts |-> ts, thread |-> t, subject |-> s, peer |-> p1, replyTo |-> r]

Mails == [m \in Msg |-> CASE m = 1 -> Message(1, 1, t1, None, 12)
                          [] m = 2 -> Message(2, 3, None, s1, None)
                          [] m = 3 -> Message(3, 2, t1, None, 12)]

Answers == [m \in Msg |-> IF m = 1 THEN Message(1, 1, t1, None, 11) ELSE Message(2, 2, t2, None, 12)]

\* Nobody answers what has not been sent (a constraint of that instance).
AnsweredAfter == \A m \in inbox : \E x \in history.sent : x.id = mail[m].replyTo

Topics == {Key(m) : m \in Msg}

\* The third send is on a thread of its own, and takes the one place of the table.
Asked == {[session |-> here, thread |-> t1, id |-> 11],
          [session |-> there, thread |-> t1, id |-> 12],
          [session |-> here, thread |-> t2, id |-> 13]}

AskedApart == {[session |-> here, thread |-> t1, id |-> 11],
               [session |-> there, thread |-> t2, id |-> 12]}
=============================================================================
