----------------------------- MODULE MCBalticLoop -----------------------------
(***************************************************************************)
(* The instance of BalticLoop TLC checks: one unit of time stands for the  *)
(* loop's delay, the periods keep their order, and millis() wraps every    *)
(* few telemetry periods.                                                  *)
(***************************************************************************)
EXTENDS BalticLoop
===============================================================================
