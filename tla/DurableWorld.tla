---------------------------- MODULE DurableWorld ----------------------------
(***************************************************************************)
(* What the world server promises of a world across saves, stops and        *)
(* crashes, whatever a save is made of: the save is replaced as a whole by   *)
(* the world of that moment, a server that starts goes on from the save and  *)
(* makes up for the time since, and its factories never get more time than   *)
(* has gone by.                                                              *)
(***************************************************************************)
EXTENDS Integers

CONSTANT MaxCatchUp   \* MaxCatchUpTicks

VARIABLES
    now,     \* the wall clock, in ticks
    steps,   \* live steps ever made; each gives the world a number of its own
    up,      \* a server holds a world
    tick,    \* World.tick
    rev,     \* the last live step that the world has in it
    saved    \* the save: whether there is one, its world and its time

absVars == <<now, steps, up, tick, rev, saved>>

Least(a, b) == IF a <= b THEN a ELSE b

\* The tick of a world that went on without a server since it was saved.
CaughtUp(s, t) == s.tick + Least(t - s.at, MaxCatchUp)

AInit ==
    /\ now = 0
    /\ steps = 0
    /\ up = FALSE
    /\ tick = 0
    /\ rev = 0
    /\ saved = [some |-> FALSE, tick |-> 0, rev |-> 0, at |-> 0]

Pass == now' = now + 1 /\ UNCHANGED <<steps, up, tick, rev, saved>>

Start ==
    /\ ~up
    /\ up' = TRUE
    /\ tick' = IF saved.some THEN CaughtUp(saved, now) ELSE 0
    /\ rev' = IF saved.some THEN saved.rev ELSE 0
    /\ UNCHANGED <<now, steps, saved>>

Live ==
    /\ up
    /\ tick < now
    /\ tick' = tick + 1
    /\ steps' = steps + 1
    /\ rev' = steps + 1
    /\ UNCHANGED <<now, up, saved>>

Save ==
    /\ up
    /\ \E t \in tick..now : saved' = [some |-> TRUE, tick |-> tick, rev |-> rev, at |-> t]
    /\ UNCHANGED <<now, steps, up, tick, rev>>

Lose == up /\ up' = FALSE /\ UNCHANGED <<now, steps, tick, rev, saved>>

ANext == Pass \/ Start \/ Live \/ Save \/ Lose

ASpec == AInit /\ [][ANext]_absVars

=============================================================================
