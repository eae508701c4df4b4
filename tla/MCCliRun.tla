------------------------------ MODULE MCCliRun ------------------------------
(* Small instances of CliRun for TLC: one worker that exploits and one that explores. *)
EXTENDS CliRun, TLC

MCElsewhere == <<0, 1>>
=============================================================================
