----------------------------- MODULE DurableList -----------------------------
(***************************************************************************)
(* What the gateway promises of its list across registrations and restarts,   *)
(* however many of them save at once and whatever a save is made of: the list *)
(* does not change while it is saved, what is saved is the present list and   *)
(* never an earlier one, torn at most for as long as somebody saves, and a    *)
(* gateway that starts goes on from what is saved.                           *)
(***************************************************************************)
CONSTANTS
    Ids, Infos,
    NoInfo,      \* no server of this id
    Unreadable   \* what is not a list: no gateway starts from it

VARIABLES
    listed,      \* the list of the gateway that runs
    saved,       \* what is saved of it
    saving,      \* some registration is being saved
    failed       \* the disk has refused something

absVars == <<listed, saved, saving, failed>>

None == [i \in Ids |-> NoInfo]

\* What a save that is not complete may leave.
Torn == {None, Unreadable}

DInit == listed = None /\ saved = None /\ ~saving /\ failed = FALSE

Register ==
    /\ ~saving
    /\ \E i \in Ids, x \in Infos : listed' = [listed EXCEPT ![i] = x]
    /\ UNCHANGED <<saved, saving, failed>>

BeginSave == ~saving /\ saving' = TRUE /\ UNCHANGED <<listed, saved, failed>>

\* Whoever ends last leaves the list behind, unless the disk has failed.
Save ==
    /\ saving
    /\ saved' \in {saved, listed} \cup Torn
    /\ saving' \in BOOLEAN
    /\ failed' \in {failed, TRUE}
    /\ saving' \/ failed' \/ saved' = listed
    /\ UNCHANGED listed

Restart ==
    /\ saved # Unreadable
    /\ listed' = saved
    /\ saving' = FALSE
    /\ UNCHANGED <<saved, failed>>

DNext == Register \/ BeginSave \/ Save \/ Restart

DSpec == DInit /\ [][DNext]_absVars

=============================================================================
