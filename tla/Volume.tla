------------------------------- MODULE Volume -------------------------------
(***************************************************************************)
(* Noticing that a tenant's sending changed shape: volume::judge           *)
(* (crates/postbud-core/src/volume.rs) over the window of days and the     *)
(* median that tenant_volume selects (crates/postbud-db/src/admin.rs).     *)
(***************************************************************************)
EXTENDS Integers, Sequences, FiniteSets

CONSTANTS
  WindowDays,      \* the days of generate_series, 15
  MinDaily,        \* MIN_DAILY
  SpikeMultiple,   \* SPIKE_MULTIPLE
  MinHistoryDays,  \* MIN_HISTORY_DAYS
  MaxDaily         \* bound: messages of one day

\* The window has a middle day, as the code's has.
ASSUME VolumeAssumption ==
  /\ WindowDays \in Nat /\ WindowDays % 2 = 1
  /\ {MinDaily, SpikeMultiple, MinHistoryDays, MaxDaily} \subseteq Nat

VARIABLES
  days,    \* [1 .. WindowDays -> 0 .. MaxDaily], what was sent, oldest first
  history  \* days since the tenant was created, at most MinHistoryDays

volumeVars == <<days, history>>

-----------------------------------------------------------------------------

AtMost(q) == {d \in 1 .. WindowDays : days[d] <= q}

\* Mutant: the days on which nothing was sent are left out.
Typical_SilentDaysDropped ==
  LET busy == {d \in 1 .. WindowDays : days[d] > 0}
  IN  IF busy = {} THEN 0
      ELSE CHOOSE q \in 0 .. MaxDaily :
             /\ 2 * Cardinality({d \in busy : days[d] <= q}) >= Cardinality(busy)
             /\ 2 * Cardinality({d \in busy : days[d] < q}) < Cardinality(busy)

\* percentile_cont(0.5) over the window, the silent days included: the
\* middle value, since their number is odd.
Typical ==
  CHOOSE q \in 0 .. MaxDaily :
    /\ 2 * Cardinality(AtMost(q)) > WindowDays
    /\ 2 * Cardinality(AtMost(q - 1)) < WindowDays

\* judge
Judge(recent) ==
  IF recent < MinDaily \/ history < MinHistoryDays THEN "inconclusive"
  ELSE IF recent >= Typical * SpikeMultiple /\ recent >= MinDaily THEN "unusual"
  ELSE "normal"

\* A day ends with n messages sent, and the window moves on.
Midnight(n) ==
  /\ days' = [d \in 1 .. WindowDays |-> IF d = WindowDays THEN n ELSE days[d + 1]]
  /\ history' = IF history < MinHistoryDays THEN history + 1 ELSE history

VolumeInit == days = [d \in 1 .. WindowDays |-> 0] /\ history = 0

VolumeNext == \E n \in 0 .. MaxDaily : Midnight(n)

VolumeSpec == VolumeInit /\ [][VolumeNext]_volumeVars

-----------------------------------------------------------------------------
(* Properties.                                                             *)

VolumeTypeOK ==
  /\ days \in [1 .. WindowDays -> 0 .. MaxDaily]
  /\ history \in 0 .. MinHistoryDays

\* A burst in the past hides nothing: when more days than not were no busier
\* than q, ten times q is noticed, however large the bursts of the others.
BurstsHideNothing ==
  \A q \in 0 .. MaxDaily, recent \in 0 .. SpikeMultiple * MaxDaily :
    (/\ 2 * Cardinality(AtMost(q)) > WindowDays
     /\ recent >= SpikeMultiple * q /\ recent >= MinDaily
     /\ history >= MinHistoryDays)
    => Judge(recent) = "unusual"

=============================================================================
