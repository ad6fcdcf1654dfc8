------------------------------ MODULE MCOutbox ------------------------------
(* Outbox on small sets: the forms are alike, and so are the entries. *)
EXTENDS Outbox, TLC

Symmetry == Permutations(Form) \union Permutations(Entry \ Rejected)
=============================================================================
