----------------------------- MODULE MCWebForms -----------------------------
(* WebForms for TLC; its constants are given in the configurations. *)
EXTENDS WebForms

\* Bounds for when a field is followed: a row that others leave in one status, or
\* remove; a lost answer or a form that is left, not both; and a field that is
\* typed over in the first filling, not in the second.
Bounded ==
  field # "none" =>
    /\ row.status \in {"Submitted", "Unpaid", "here", "gone"}
    /\ left => unsure = {}
    /\ dlg.filling > 1 => dlg.entry.value # "newer"
=============================================================================
