------------------------------ MODULE MCQueue ------------------------------
(***************************************************************************)
(* Instances of Queue for TLC.  A tick stands for one claim timeout or for *)
(* the shortest retry delay, so a schedule is a short sequence of small    *)
(* numbers; its first entry is never used by the code, as in retry.rs.     *)
(***************************************************************************)
EXTENDS Queue, TLC

CONSTANTS m1, m2, w1, w2, w3

MCSchedule2 == <<1, 2>>
MCSchedule3 == <<1, 1, 2>>

MCSymmetry == Permutations(Msg) \cup Permutations(Worker)
MCWorkerSymmetry == Permutations(Worker)
=============================================================================
