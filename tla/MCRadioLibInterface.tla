-------------------------- MODULE MCRadioLibInterface --------------------------
(***************************************************************************)
(* Messages for RadioLibInterface: two of our own and one that is relayed. *)
(***************************************************************************)
EXTENDS RadioLibInterface

Message(n, key, pri, us) == [n |-> n, key |-> key, pri |-> pri, us |-> us,
                             late |-> FALSE]
TwoMessages   == {Message(1, "a", 1, TRUE), Message(2, "b", 2, FALSE)}
ThreeMessages == TwoMessages \cup {Message(3, "a", 1, TRUE)}
===============================================================================
