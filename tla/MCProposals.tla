---------------------------- MODULE MCProposals ----------------------------
(* Small instances of Proposals: one table that changes, one beside it. *)
EXTENDS Proposals

MCKeys == {<<"t", 1>>, <<"u", 1>>}
MCRecovered == {<<"t", 1>>}
DropT == [op |-> "drop", table |-> "t", branch |-> "main"]
AddT == [op |-> "add", table |-> "t", branch |-> "main"]
MCChanges == {DropT, AddT}
=============================================================================
