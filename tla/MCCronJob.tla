---- MODULE MCCronJob ----
(***************************************************************************)
(* Small instances of CronJob.                                              *)
(***************************************************************************)
EXTENDS CronJob, TLC

\* The workers are interchangeable (used only where no liveness is checked).
mcSymmetry == Permutations(Workers)

====
