----------------------------- MODULE MCMeshRouter -----------------------------
(***************************************************************************)
(* Three nodes in a line: a and c only reach each other through b.         *)
(***************************************************************************)
EXTENDS MeshRouter, TLC
CONSTANTS a, b, c

Line == (a :> {b}) @@ (b :> {a, c}) @@ (c :> {b})
NoRoutes == [n \in Nodes |-> [m \in Nodes |-> None]]
Unlearned == {NoRoutes}
\* Routes that earlier answers may leave behind: a and b take each other for
\* the way to c.
Loop == {[NoRoutes EXCEPT ![a][c] = b, ![b][c] = a]}
ToC == [from |-> a, to |-> c, want_ack |-> TRUE, want_response |-> FALSE]
ToAll == [ToC EXCEPT !.to = Broadcast]
Reliable == {ToC, ToAll}
Unacked == {[ToC EXCEPT !.want_ack = FALSE], ToAll}
===============================================================================
