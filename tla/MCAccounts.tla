----------------------------- MODULE MCAccounts ------------------------------
(* Accounts with two or three names and a meadow wide enough for their hubs. *)
EXTENDS Accounts, TLC

Symmetry == Permutations(Sessions)

\* The first columns of hubs, all of it dry.
Meadow == (0..12) \X (0..2)
Seats == {<<4, 0>>, <<7, 0>>}

=============================================================================
