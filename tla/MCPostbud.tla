----------------------------- MODULE MCPostbud -----------------------------
(***************************************************************************)
(* Instances of Postbud for TLC.  The queue is kept small - one worker,    *)
(* one attempt - since module MCQueue checks it on its own.                *)
(***************************************************************************)
EXTENDS Postbud, TLC

CONSTANTS m1, m2, c1, c2, t1, t2

MCSchedule1 == <<1>>

MCSymmetry ==
  Permutations(Msg) \cup Permutations(Caller) \cup Permutations(Tenant)
=============================================================================
