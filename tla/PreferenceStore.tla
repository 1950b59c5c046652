---------------------------- MODULE PreferenceStore ----------------------------
(***************************************************************************)
(* What the preference files promise: a boot finds, of every segment but   *)
(* the one whose file was being written, what it held; a save lets go of a *)
(* file only when that file holds what is in RAM, unless the flash failed; *)
(* the others are only touched by a factory reset and by formatting.       *)
(***************************************************************************)
CONSTANTS Segments, Values, Default, None

VARIABLES
    stored,         \* what a boot would load, by segment
    ram,
    hand,           \* the segment whose file is being written, or None
    on, resetting,
    trouble         \* the flash has failed at least once
store == << stored, ram, hand, on, resetting, trouble >>

OnlyDiffersAt(s) == \A t \in Segments \ {s} : stored'[t] = stored[t]
MayFail == trouble => trouble'

Init ==
    /\ stored \in [Segments -> Values] /\ ram = stored
    /\ hand = None /\ on = TRUE /\ resetting = FALSE /\ trouble = FALSE

\* Settings change in RAM between two files, never while one is written.
Change ==
    /\ on /\ hand = None /\ hand' = None /\ ram' \in [Segments -> Values]
    /\ UNCHANGED << stored, on, trouble >>

\* A file is opened or worked on; the last step of it lets it go.
Work(s) ==
    /\ on /\ ~resetting /\ hand \in {None, s} /\ hand' = s
    /\ stored' \in [Segments -> Values] /\ OnlyDiffersAt(s) /\ MayFail
    /\ UNCHANGED << ram, on, resetting >>
Done(s) ==
    /\ on /\ ~resetting /\ hand \in {None, s} /\ hand' = None
    /\ stored' \in [Segments -> Values] /\ OnlyDiffersAt(s) /\ MayFail
    /\ stored'[s] = ram[s] \/ trouble'
    /\ UNCHANGED << ram, on, resetting >>

\* The flash fails on a file that is no segment's.
Fail ==
    /\ on /\ trouble' = TRUE
    /\ UNCHANGED << stored, ram, hand, on, resetting >>

\* A save that failed may format the flash.
Format ==
    /\ on /\ trouble' /\ hand' = None
    /\ stored' = [s \in Segments |-> Default]
    /\ UNCHANGED << ram, on, resetting >>

Erase ==
    /\ on /\ resetting /\ hand = None
    /\ \E s \in Segments : stored' = [stored EXCEPT ![s] = Default]
    /\ UNCHANGED << ram, hand, on, resetting, trouble >>

PowerLoss ==
    /\ on /\ on' = FALSE /\ hand' = None /\ resetting' = FALSE
    /\ stored' \in [Segments -> Values] /\ OnlyDiffersAt(hand)
    /\ ram' = [s \in Segments |-> Default]
    /\ UNCHANGED trouble
Boot ==
    /\ ~on /\ on' = TRUE /\ ram' = stored
    /\ UNCHANGED << stored, hand, resetting, trouble >>

Next ==
    \/ Change \/ Fail \/ Format \/ Erase \/ PowerLoss \/ Boot
    \/ \E s \in Segments : Work(s) \/ Done(s)
Spec == Init /\ [][Next]_store
================================================================================
