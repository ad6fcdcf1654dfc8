------------------------ MODULE SettlementLifecycle ------------------------
(***************************************************************************)
(* What the invoice half of the ledger promises, with every request taking *)
(* effect in one step: an invoice is opened, settled with entries of its   *)
(* own, reopened only once those entries have left the ledger, and removed *)
(* only while unsettled.  InvoiceSettlement, where a request is many saves *)
(* and requests interleave, is shown to implement this.                    *)
(***************************************************************************)
CONSTANTS Invoice, Tx, None

VARIABLES
  book,  \* per invoice: its status, whether PPH23 is withheld, the entries it names
  gone   \* the entries that have left the ledger

Roles == {"income", "expense"}
NoEntries == [r \in Roles |-> None]

Init ==
  /\ book = [i \in Invoice |-> [status |-> "none", pph23 |-> FALSE, link |-> NoEntries]]
  /\ gone = {}

\* The entries that invoices other than i name.
NamedElsewhere(i) == {book[j].link[r] : j \in Invoice \ {i}, r \in Roles} \ {None}

Open(i, taxed) ==
  /\ book[i].status = "none"
  /\ book' = [book EXCEPT ![i].status = "Unpaid", ![i].pph23 = taxed]
  /\ UNCHANGED gone

\* An income entry always, a PPH23 entry exactly when PPH23 is withheld.
Settle(i, link) ==
  /\ book[i].status = "Unpaid"
  /\ book[i].link = NoEntries
  /\ link["income"] # None
  /\ link["expense"] # None <=> book[i].pph23
  /\ link["income"] # link["expense"]
  /\ \A r \in Roles : link[r] \notin NamedElsewhere(i)
  /\ book' = [book EXCEPT ![i].status = "Paid", ![i].link = link]
  /\ UNCHANGED gone

Reopen(i) ==
  /\ book[i].status = "Paid"
  /\ \A r \in Roles : book[i].link[r] \in gone \cup {None}
  /\ book' = [book EXCEPT ![i].status = "Unpaid", ![i].link = NoEntries]
  /\ UNCHANGED gone

Remove(i) ==
  /\ book[i].status = "Unpaid"
  /\ book' = [book EXCEPT ![i].status = "deleted"]
  /\ UNCHANGED gone

\* A manager, or a Void in progress, deletes one entry.
Withdraw(t) ==
  /\ t \notin gone
  /\ gone' = gone \cup {t}
  /\ UNCHANGED book

Next ==
  \/ \E i \in Invoice :
       \/ \E taxed \in BOOLEAN : Open(i, taxed)
       \/ \E link \in [Roles -> Tx \cup {None}] : Settle(i, link)
       \/ Reopen(i)
       \/ Remove(i)
  \/ \E t \in Tx : Withdraw(t)

Spec == Init /\ [][Next]_<<book, gone>>
=============================================================================
