------------------------ MODULE MCInvoiceSettlement ------------------------
(* Instances of InvoiceSettlement for TLC: the identifiers of one kind are   *)
(* interchangeable, so the sets of model values are symmetric.               *)
EXTENDS InvoiceSettlement, TLC

Symmetry == Permutations(Invoice) \cup Permutations(Tx) \cup Permutations(Handler)
=============================================================================
