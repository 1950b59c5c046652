----------------------------- MODULE MeshDelivery -----------------------------
(***************************************************************************)
(* What a phone is promised for a direct message it gives to its router:   *)
(* the other phone gets it at most once, and an answer in the name of the  *)
(* destination is only given when the message has arrived there.  Nothing  *)
(* is promised when the router says it gave up: the message may have       *)
(* arrived, and may still arrive.                                          *)
(***************************************************************************)
EXTENDS Naturals

CONSTANT Messages
VARIABLES sent, delivered, confirmed, refused
vars == << sent, delivered, confirmed, refused >>

Init == sent = {} /\ delivered = [m \in Messages |-> 0] /\ confirmed = {} /\ refused = {}

Send(m) ==
    /\ m \notin sent /\ sent' = sent \cup {m}
    /\ UNCHANGED << delivered, confirmed, refused >>
Deliver(m) ==
    /\ m \in sent /\ delivered[m] = 0
    /\ delivered' = [delivered EXCEPT ![m] = 1]
    /\ UNCHANGED << sent, confirmed, refused >>
Confirm(m) ==
    /\ delivered[m] = 1 /\ m \notin confirmed
    /\ confirmed' = confirmed \cup {m}
    /\ UNCHANGED << sent, delivered, refused >>
Refuse(m) ==
    /\ m \in sent /\ m \notin refused
    /\ refused' = refused \cup {m}
    /\ UNCHANGED << sent, delivered, confirmed >>

Next == \E m \in Messages : Send(m) \/ Deliver(m) \/ Confirm(m) \/ Refuse(m)
Spec == Init /\ [][Next]_vars
===============================================================================
