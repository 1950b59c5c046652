----------------------------- MODULE MCPreferences -----------------------------
(***************************************************************************)
(* The instances of Preferences TLC checks: the segment that is saved with *)
(* fullAtomic, one that is not, and the backup.                            *)
(***************************************************************************)
EXTENDS Preferences
================================================================================
