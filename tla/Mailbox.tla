------------------------------- MODULE Mailbox -------------------------------
(***************************************************************************)
(* What dsh-link promises of a message, with no node, network or process   *)
(* in it: a message that is sent may arrive once it is sent and stays      *)
(* arrived, and the sender may call it delivered only once it has arrived. *)
(* A sender may forget that it settled a message and try again: delivery   *)
(* is at least once.                                                       *)
(***************************************************************************)
CONSTANT Msg

VARIABLES sent, arrived, settled

Init == sent = {} /\ arrived = {} /\ settled = {}

Send(m) == m \notin sent /\ sent' = sent \cup {m} /\ UNCHANGED <<arrived, settled>>

Arrive(m) == m \in sent /\ arrived' = arrived \cup {m} /\ UNCHANGED <<sent, settled>>

Settle(m) == m \in arrived /\ settled' = settled \cup {m} /\ UNCHANGED <<sent, arrived>>

Unsettle(m) == m \in settled /\ settled' = settled \ {m} /\ UNCHANGED <<sent, arrived>>

Next == \E m \in Msg : Send(m) \/ Arrive(m) \/ Settle(m) \/ Unsettle(m)

Spec == Init /\ [][Next]_<<sent, arrived, settled>>
=============================================================================
