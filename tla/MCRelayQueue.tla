---------------------------- MODULE MCRelayQueue ----------------------------
(* Model values for RelayQueue.  The configurations differ in MaxLag.      *)
EXTENDS RelayQueue, TLC

CONSTANTS m1, p1, p2

MCMsg  == {m1}
MCPost == {p1, p2}

\* One nobody can read, and one with two recipients, of which the second
\* is to be suppressed.
MCNotification == {Unreadable, <<"policy", "dead">>}

=============================================================================
