---------------------------- MODULE MCPettyCash ----------------------------
(* Instances of PettyCash for TLC.                                          *)
EXTENDS PettyCash, TLC

Symmetry == Permutations(Petty) \cup Permutations(Tx) \cup Permutations(Handler)

\* No action reads the audit trail: states that differ in it alone are one
\* state to the properties about the balance.
Unlogged == <<petty, entries, req, aborts>>
=============================================================================
