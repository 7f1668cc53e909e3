---------------------------- MODULE MCSessionSync ----------------------------
(* Small instances of SessionSync for TLC.  Nothing tells two sessions or two *)
(* keys apart, so their permutations are symmetries of the safety runs; the   *)
(* temporal runs do without.                                                  *)
EXTENDS SessionSync, TLC

\* Bound of the runs with two sessions: one of them at a time is in trouble.
OneInTrouble ==
    \A s, t \in Sessions :
        s # t => ~((ResyncDue(s) \/ closed[s]) /\ (ResyncDue(t) \/ closed[t]))

Symmetry == Permutations(Sessions) \cup Permutations(Keys \ Live)
=============================================================================
