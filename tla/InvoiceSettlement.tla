------------------------- MODULE InvoiceSettlement -------------------------
(***************************************************************************)
(* The invoice half of the ledger: InvoiceService (create, mark paid,      *)
(* void, delete) and the part of TransactionService that managers use on   *)
(* the ledger entries those operations write.                              *)
(*                                                                         *)
(* Every call of RepositoryBase.AddAsync/UpdateAsync/DeleteAsync is one    *)
(* SaveChanges, hence one database transaction, hence one action here; no  *)
(* transaction spans a whole service method, so requests interleave        *)
(* between their saves.  A Handler is one HTTP request in flight (its own  *)
(* scoped DbContext); what it remembers between two saves is the record    *)
(* req[h].  ver stands for the xmin column that EF Core compares on        *)
(* UPDATE and DELETE.                                                      *)
(***************************************************************************)
EXTENDS Naturals, FiniteSets

CONSTANTS
  Invoice,     \* identifiers of invoice rows
  Tx,          \* identifiers of ledger entries (rows of transactions), fresh GUIDs
  Handler,     \* requests the API can be serving at one time
  None,        \* the null reference
  MaxEdits,    \* bound: an entry is edited only below this xmin count
  MaxAborts    \* bound: requests that end between two saves (disconnect, restart)

ASSUME ConstantsAssumption ==
  /\ None \notin Invoice \cup Tx
  /\ Invoice \cap Tx = {}
  /\ MaxEdits \in Nat
  /\ MaxAborts \in Nat

VARIABLES
  invoices,      \* the invoices table
  transactions,  \* the transactions table
  req,           \* what each request in flight remembers
  auditLog,      \* the audit_logs table
  origin,        \* history: the invoice and role a ledger entry was written for
  stranded,      \* history: entries whose MarkPaid ended without linking them
  aborts         \* history: how many requests were cut off

vars == <<invoices, transactions, req, auditLog, origin, stranded, aborts>>

-----------------------------------------------------------------------------
(* Rows and request-local state.                                            *)

\* The two references of an invoice: LinkedIncomeTransactionId, LinkedExpenseTransactionId.
Role == {"income", "expense"}

InvoiceStatus == {"none", "Unpaid", "Paid", "deleted"}

\* pph23: is Pph23Amount > 0, the only thing the control flow asks of the amounts.
InvoiceRow == [status: InvoiceStatus, pph23: BOOLEAN,
               link: [Role -> Tx \cup {None}], ver: Nat]

TxRow == [state: {"free", "live", "gone"}, ver: Nat]

AuditAction == {"Create", "Update", "Delete", "Void"}
AuditEntry == [action: AuditAction, id: Invoice \cup Tx, ver: Nat]

\* A null reference is not an entry of the trail.
ASSUME NullIsNoEntry == None \notin AuditEntry

Unlinked == [r \in Role |-> None]
NoInvoice == [status |-> "none", pph23 |-> FALSE, link |-> Unlinked, ver |-> 0]
NoTx == [state |-> "free", ver |-> 0]

PC == {"idle", "addEntry", "savePaid", "findEntry", "removeEntry", "editEntry",
       "saveVoid", "removeInvoice", "writeAudit"}

(* inv, seen   the invoice the request loaded, and the row as it was then    *)
(* role        the reference being worked on                                 *)
(* made        the entries this MarkPaid has added and not yet linked        *)
(* tx, txVer   the ledger entry loaded for deletion or update, its xmin then *)
(* log, then   the audit entry due after a save, and where to go after it    *)
Request == [pc: PC, inv: Invoice \cup {None}, seen: InvoiceRow, role: Role,
            made: [Role -> Tx \cup {None}], tx: Tx \cup {None}, txVer: Nat,
            log: AuditEntry \cup {None}, then: PC]

Idle == [pc |-> "idle", inv |-> None, seen |-> NoInvoice, role |-> "income",
         made |-> Unlinked, tx |-> None, txVer |-> 0, log |-> None, then |-> "idle"]

Event(a, x, v) == [action |-> a, id |-> x, ver |-> v]

-----------------------------------------------------------------------------
Init ==
  /\ invoices = [i \in Invoice |-> NoInvoice]
  /\ transactions = [t \in Tx |-> NoTx]
  /\ req = [h \in Handler |-> Idle]
  /\ auditLog = {}
  /\ origin = [t \in Tx |-> <<None, "income">>]
  /\ stranded = {}
  /\ aborts = 0

-----------------------------------------------------------------------------
(* Steps shared by the operations.                                          *)

\* AuditService.LogAsync: a save of its own, after the save it records.  The
\* request then goes on, or answers and is gone.
WriteAudit(h) ==
  /\ req[h].pc = "writeAudit"
  /\ auditLog' = auditLog \cup {req[h].log}
  /\ req' = [req EXCEPT ![h] = IF req[h].then = "idle" THEN Idle
                               ELSE [req[h] EXCEPT !.pc = req[h].then, !.log = None,
                                                   !.then = "idle"]]
  /\ UNCHANGED <<invoices, transactions, origin, stranded, aborts>>

\* The transactions an unfinished MarkPaid leaves behind.
Unfinished(h) == {req[h].made[r] : r \in Role} \ {None}

\* Fault: the invoices table has no concurrency token.
CurrentUnchecked(h) == TRUE

\* The row a request loaded is still the row in the table.
Current(h) == invoices[req[h].inv].ver = req[h].seen.ver
CurrentTx(h) == transactions[req[h].tx].ver = req[h].txVer

\* Fault: UpdateAsync swallows the conflict, and the caller logs a write that never was.
StaleSaveSwallowed(h) ==
  /\ req[h].pc \in {"savePaid", "saveVoid"}
  /\ ~Current(h)
  /\ req' = [req EXCEPT ![h].pc = "writeAudit", ![h].made = Unlinked, ![h].then = "idle",
       ![h].log = Event(IF req[h].pc = "savePaid" THEN "Update" ELSE "Void",
                        req[h].inv, req[h].seen.ver + 1)]
  /\ stranded' = stranded \cup Unfinished(h)
  /\ UNCHANGED <<invoices, transactions, auditLog, origin, aborts>>

\* UpdateAsync turns a stale xmin into ConflictException, DeleteAsync lets the
\* DbUpdateConcurrencyException through; either way the request ends there.
StaleSave(h) ==
  /\ \/ req[h].pc \in {"savePaid", "saveVoid", "removeInvoice"} /\ ~Current(h)
     \/ req[h].pc \in {"removeEntry", "editEntry"} /\ ~CurrentTx(h)
  /\ stranded' = stranded \cup Unfinished(h)
  /\ req' = [req EXCEPT ![h] = Idle]
  /\ UNCHANGED <<invoices, transactions, auditLog, origin, aborts>>

\* The request's CancellationToken fires, the save throws, or the host restarts.
Abort(h) ==
  /\ aborts < MaxAborts
  /\ aborts' = aborts + 1
  /\ req[h].pc # "idle"
  /\ stranded' = stranded \cup Unfinished(h)
  /\ req' = [req EXCEPT ![h] = Idle]
  /\ UNCHANGED <<invoices, transactions, auditLog, origin>>

-----------------------------------------------------------------------------
(* InvoiceService.CreateAsync: the row is inserted Unpaid, then logged.     *)

CreateInvoice(h, i, taxed) ==
  /\ req[h].pc = "idle"
  /\ invoices[i].status = "none"
  /\ invoices' = [invoices EXCEPT
       ![i] = [status |-> "Unpaid", pph23 |-> taxed, link |-> Unlinked, ver |-> 1]]
  /\ req' = [req EXCEPT ![h].pc = "writeAudit", ![h].log = Event("Create", i, 1)]
  /\ UNCHANGED <<transactions, auditLog, origin, stranded, aborts>>

-----------------------------------------------------------------------------
(* InvoiceService.MarkPaidAsync.                                            *)

\* Fault: the check for an invoice already paid is missing.
BeginMarkPaidAgain(h, i) ==
  /\ req[h].pc = "idle"
  /\ invoices[i].status \in {"Unpaid", "Paid"}
  /\ req' = [req EXCEPT ![h].pc = "addEntry", ![h].inv = i, ![h].seen = invoices[i],
                        ![h].role = "income"]
  /\ UNCHANGED <<invoices, transactions, auditLog, origin, stranded, aborts>>

BeginMarkPaid(h, i) ==
  /\ req[h].pc = "idle"
  /\ invoices[i].status = "Unpaid"
  /\ req' = [req EXCEPT ![h].pc = "addEntry", ![h].inv = i, ![h].seen = invoices[i],
                        ![h].role = "income"]
  /\ UNCHANGED <<invoices, transactions, auditLog, origin, stranded, aborts>>

\* After the income entry comes the PPH23 entry if there is PPH23, then the invoice.
AddEntry(h, t) ==
  LET r == req[h].role
      more == r = "income" /\ req[h].seen.pph23
  IN
  /\ req[h].pc = "addEntry"
  /\ transactions[t].state = "free"
  /\ transactions' = [transactions EXCEPT ![t] = [state |-> "live", ver |-> 1]]
  /\ origin' = [origin EXCEPT ![t] = <<req[h].inv, r>>]
  /\ req' = [req EXCEPT ![h].pc = "writeAudit", ![h].log = Event("Create", t, 1),
                        ![h].made[r] = t,
                        ![h].role = IF more THEN "expense" ELSE r,
                        ![h].then = IF more THEN "addEntry" ELSE "savePaid"]
  /\ UNCHANGED <<invoices, auditLog, stranded, aborts>>

\* The settlement save, linking what the request made as link says.
SavePaidWith(h, link) ==
  LET i == req[h].inv
      v == req[h].seen.ver + 1
  IN
  /\ req[h].pc = "savePaid"
  /\ Current(h)
  /\ invoices' = [invoices EXCEPT
       ![i] = [req[h].seen EXCEPT !.status = "Paid", !.link = link, !.ver = v]]
  /\ req' = [req EXCEPT ![h].pc = "writeAudit", ![h].log = Event("Update", i, v),
                        ![h].made = Unlinked, ![h].then = "idle"]
  /\ UNCHANGED <<transactions, auditLog, origin, stranded, aborts>>

\* Fault: the PPH23 entry is added and never linked.
SavePaidIncomeOnly(h) == SavePaidWith(h, [req[h].made EXCEPT !["expense"] = None])

\* Fault: the two references are swapped.
SavePaidSwapped(h) ==
  SavePaidWith(h, [r \in Role |-> req[h].made[IF r = "income" THEN "expense" ELSE "income"]])

\* The whole row loaded at the start is written back with the new status and links.
SavePaid(h) == SavePaidWith(h, req[h].made)

-----------------------------------------------------------------------------
(* InvoiceService.VoidAsync.                                                *)

BeginVoid(h, i) ==
  /\ req[h].pc = "idle"
  /\ invoices[i].status = "Paid"
  /\ req' = [req EXCEPT ![h].pc = "findEntry", ![h].inv = i, ![h].seen = invoices[i],
                        ![h].role = "income"]
  /\ UNCHANGED <<invoices, transactions, auditLog, origin, stranded, aborts>>

\* Fault: Void reverses the income entry alone.
AfterRoleIncomeOnly(r) == "saveVoid"

\* Where VoidAsync goes when it has dealt with a reference.
AfterRole(r) == IF r = "income" THEN "findEntry" ELSE "saveVoid"

Linked(h) == req[h].seen.link[req[h].role]

FindEntry(h) ==
  /\ req[h].pc = "findEntry"
  /\ Linked(h) # None
  /\ transactions[Linked(h)].state = "live"
  /\ req' = [req EXCEPT ![h].pc = "removeEntry", ![h].tx = Linked(h),
                        ![h].txVer = transactions[Linked(h)].ver,
                        ![h].role = "expense", ![h].then = AfterRole(req[h].role)]
  /\ UNCHANGED <<invoices, transactions, auditLog, origin, stranded, aborts>>

\* No such reference, or the entry it names is no longer in the table.
SkipEntry(h) ==
  /\ req[h].pc = "findEntry"
  /\ Linked(h) # None => transactions[Linked(h)].state # "live"
  /\ req' = [req EXCEPT ![h].pc = AfterRole(req[h].role), ![h].role = "expense"]
  /\ UNCHANGED <<invoices, transactions, auditLog, origin, stranded, aborts>>

SaveVoidWith(h, link) ==
  LET i == req[h].inv
      v == req[h].seen.ver + 1
  IN
  /\ req[h].pc = "saveVoid"
  /\ Current(h)
  /\ invoices' = [invoices EXCEPT
       ![i] = [req[h].seen EXCEPT !.status = "Unpaid", !.link = link, !.ver = v]]
  /\ req' = [req EXCEPT ![h].pc = "writeAudit", ![h].log = Event("Void", i, v),
                        ![h].then = "idle"]
  /\ UNCHANGED <<transactions, auditLog, origin, stranded, aborts>>

\* Fault: only the income reference is cleared.
SaveVoidKeepsExpense(h) == SaveVoidWith(h, [req[h].seen.link EXCEPT !["income"] = None])

SaveVoid(h) == SaveVoidWith(h, Unlinked)

-----------------------------------------------------------------------------
(* InvoiceService.DeleteAsync.                                              *)

\* Fault: the check that a Paid invoice is voided first is missing.
BeginDeletePaid(h, i) ==
  /\ req[h].pc = "idle"
  /\ invoices[i].status \in {"Unpaid", "Paid"}
  /\ req' = [req EXCEPT ![h].pc = "removeInvoice", ![h].inv = i, ![h].seen = invoices[i]]
  /\ UNCHANGED <<invoices, transactions, auditLog, origin, stranded, aborts>>

BeginDelete(h, i) ==
  /\ req[h].pc = "idle"
  /\ invoices[i].status = "Unpaid"
  /\ req' = [req EXCEPT ![h].pc = "removeInvoice", ![h].inv = i, ![h].seen = invoices[i]]
  /\ UNCHANGED <<invoices, transactions, auditLog, origin, stranded, aborts>>

RemoveInvoice(h) ==
  LET i == req[h].inv
      v == req[h].seen.ver + 1
  IN
  /\ req[h].pc = "removeInvoice"
  /\ Current(h)
  /\ invoices' = [invoices EXCEPT ![i].status = "deleted", ![i].ver = v]
  /\ req' = [req EXCEPT ![h].pc = "writeAudit", ![h].log = Event("Delete", i, v)]
  /\ UNCHANGED <<transactions, auditLog, origin, stranded, aborts>>

-----------------------------------------------------------------------------
(* TransactionService, used by a manager on any entry of the ledger:        *)
(* DeleteAsync, and UpdateAsync/ApproveAsync/RejectAsync, which all load    *)
(* the row and write it back.                                               *)

BeginEntryWrite(h, t, what) ==
  /\ req[h].pc = "idle"
  /\ transactions[t].state = "live"
  /\ what = "editEntry" => transactions[t].ver < MaxEdits
  /\ req' = [req EXCEPT ![h].pc = what, ![h].tx = t, ![h].txVer = transactions[t].ver]
  /\ UNCHANGED <<invoices, transactions, auditLog, origin, stranded, aborts>>

EditEntry(h) ==
  LET t == req[h].tx
      v == req[h].txVer + 1
  IN
  /\ req[h].pc = "editEntry"
  /\ CurrentTx(h)
  /\ transactions' = [transactions EXCEPT ![t].ver = v]
  /\ req' = [req EXCEPT ![h].pc = "writeAudit", ![h].log = Event("Update", t, v)]
  /\ UNCHANGED <<invoices, auditLog, origin, stranded, aborts>>

\* Fault: the deletion is not logged.
RemoveEntryUnlogged(h) ==
  /\ req[h].pc = "removeEntry"
  /\ CurrentTx(h)
  /\ transactions' = [transactions EXCEPT ![req[h].tx] = [state |-> "gone",
                                                         ver |-> req[h].txVer + 1]]
  /\ req' = [req EXCEPT ![h].pc = req[h].then, ![h].tx = None, ![h].txVer = 0,
                        ![h].then = "idle"]
  /\ UNCHANGED <<invoices, auditLog, origin, stranded, aborts>>

\* RepositoryBase.DeleteAsync, called by TransactionService and by VoidAsync.
RemoveEntry(h) ==
  LET t == req[h].tx
      v == req[h].txVer + 1
  IN
  /\ req[h].pc = "removeEntry"
  /\ CurrentTx(h)
  /\ transactions' = [transactions EXCEPT ![t] = [state |-> "gone", ver |-> v]]
  /\ req' = [req EXCEPT ![h].pc = "writeAudit", ![h].log = Event("Delete", t, v),
                        ![h].tx = None, ![h].txVer = 0]
  /\ UNCHANGED <<invoices, auditLog, origin, stranded, aborts>>

-----------------------------------------------------------------------------
Next ==
  \E h \in Handler :
    \/ WriteAudit(h) \/ StaleSave(h) \/ Abort(h)
    \/ \E i \in Invoice, taxed \in BOOLEAN : CreateInvoice(h, i, taxed)
    \/ \E i \in Invoice : BeginMarkPaid(h, i) \/ BeginVoid(h, i) \/ BeginDelete(h, i)
    \/ \E t \in Tx : AddEntry(h, t)
    \/ SavePaid(h) \/ FindEntry(h) \/ SkipEntry(h) \/ SaveVoid(h) \/ RemoveInvoice(h)
    \/ \E t \in Tx, what \in {"removeEntry", "editEntry"} : BeginEntryWrite(h, t, what)
    \/ EditEntry(h) \/ RemoveEntry(h)

Spec == Init /\ [][Next]_vars

-----------------------------------------------------------------------------
(* What must hold whatever the interleaving and whatever requests abort.    *)

TypeOK ==
  /\ invoices \in [Invoice -> InvoiceRow]
  /\ transactions \in [Tx -> TxRow]
  /\ req \in [Handler -> Request]
  /\ auditLog \subseteq AuditEntry
  /\ origin \in [Tx -> (Invoice \cup {None}) \X Role]
  /\ stranded \subseteq Tx
  /\ aborts \in 0 .. MaxAborts

IsLinked(t) == \E i \in Invoice, r \in Role : invoices[i].link[r] = t

(* An invoice names an income entry exactly while it is Paid, and a PPH23    *)
(* entry exactly when it is Paid and PPH23 was withheld: no interleaving of  *)
(* MarkPaid, Void and Delete leaves a half-settled invoice row.              *)
PaidIffLinked ==
  \A i \in Invoice :
    /\ invoices[i].link["income"] # None <=> invoices[i].status = "Paid"
    /\ invoices[i].link["expense"] # None
         <=> invoices[i].status = "Paid" /\ invoices[i].pph23

(* The entries an invoice names were written for that invoice and in that    *)
(* role: two settlements racing never cross their entries.                   *)
LinksOwnEntries ==
  \A i \in Invoice, r \in Role :
    invoices[i].link[r] # None => origin[invoices[i].link[r]] = <<i, r>>

(* Every ledger entry still in the table is in exactly one place: named by   *)
(* its invoice, held by the one MarkPaid that is about to link it, or left   *)
(* behind by a MarkPaid that ended early.                                    *)
Holders(t) == {h \in Handler : t \in Unfinished(h)}

EntryAccounted ==
  \A t \in Tx :
    /\ transactions[t].state = "live" =>
         IsLinked(t) \/ t \in stranded \/ Holders(t) # {}
    /\ t \in stranded => ~IsLinked(t) /\ Holders(t) = {}
    /\ IsLinked(t) => Holders(t) = {}
    /\ \A g, h \in Holders(t) : g = h

(* An invoice goes back to Unpaid (and to Accounts Receivable) only when     *)
(* none of the entries of its settlement is in the ledger any more, however  *)
(* many voids, deletions and edits of those entries ran in between.          *)
ReopenedWithoutEntries ==
  [][\A i \in Invoice :
       invoices[i].status = "Paid" /\ invoices'[i].status = "Unpaid" =>
         \A r \in Role : invoices[i].link[r] # None =>
           transactions[invoices[i].link[r]].state = "gone"]_vars

(* A settled invoice is never deleted: the check on Status made when the     *)
(* request began still holds when the row goes, even if a MarkPaid ran in    *)
(* between ("Paid invoices cannot be deleted directly; void it first").      *)
PaidNeverDeleted ==
  [][\A i \in Invoice :
       invoices'[i].status = "deleted" /\ invoices[i].status # "deleted" =>
         invoices[i].status = "Unpaid"]_vars

(* The interleaved requests implement the lifecycle in which Settle, Reopen  *)
(* and Remove are each one step: of several MarkPaid requests in flight one  *)
(* wins, and it links entries that are its own and no other invoice's.       *)
Lifecycle == INSTANCE SettlementLifecycle WITH
  book <- [i \in Invoice |-> [status |-> invoices[i].status, pph23 |-> invoices[i].pph23,
                              link |-> invoices[i].link]],
  gone <- {t \in Tx : transactions[t].state = "gone"}

ImplementsLifecycle == Lifecycle!Spec

-----------------------------------------------------------------------------
(* What overlap and cut-off requests break, and what is left of it.         *)

Quiet == \A h \in Handler : req[h].pc = "idle"

(* No untraceable income or expense: between requests, every entry of the    *)
(* ledger is named by a Paid invoice (InvoiceService.cs: deleting a Paid     *)
(* invoice "would leave an untraceable income/expense entry").               *)
NoUntraceableEntry ==
  Quiet => \A t \in Tx : transactions[t].state = "live" =>
    \E i \in Invoice, r \in Role : invoices[i].status = "Paid" /\ invoices[i].link[r] = t

Pending == {req[h].log : h \in Handler} \ {None}

Version(x) == IF x \in Invoice THEN invoices[x].ver ELSE transactions[x].ver

(* Every committed write has its audit entry, or a request that is about to  *)
(* write it (architecture.md: "Every state change writes an immutable        *)
(* AuditLog entry").                                                         *)
EveryWriteLogged ==
  \A x \in Invoice \cup Tx : \A v \in 1 .. Version(x) :
    \E e \in auditLog \cup Pending : e.id = x /\ e.ver = v

(* With no request cut off, every committed write is logged or about to be:  *)
(* neither a stale save nor another request in between loses an entry.       *)
LoggedUnlessCut == aborts = 0 => EveryWriteLogged

(* The trail never names a write that did not commit: no audit entry is      *)
(* ahead of the row it is about, and none speaks twice about one write.      *)
TrailTruthful ==
  \A e \in auditLog :
    /\ e.ver <= Version(e.id)
    /\ \A f \in auditLog : e.id = f.id /\ e.ver = f.ver => e = f

-----------------------------------------------------------------------------
(* The inductive strengthening: what a request knows between its saves.     *)

\* In MarkPaid, Void, Delete, or writing a single ledger entry.
Stage(h) == IF req[h].pc = "writeAudit" THEN req[h].then ELSE req[h].pc

MarkingPaid(h) == Stage(h) \in {"addEntry", "savePaid"}
Voiding(h) == \/ Stage(h) \in {"findEntry", "saveVoid"}
              \/ req[h].pc = "removeEntry" /\ req[h].then # "idle"
Writing(h) == req[h].pc \in {"removeEntry", "editEntry"}

\* If the row's xmin is the one the request loaded, so is the row.
SeenIsPast(h) ==
  /\ req[h].inv # None
  /\ req[h].seen.ver <= invoices[req[h].inv].ver
  /\ Current(h) => invoices[req[h].inv] = req[h].seen

\* What MarkPaid has added so far is what its next step supposes.
MadeSoFar(h) ==
  /\ Stage(h) = "addEntry" =>
       IF req[h].role = "income" THEN req[h].made = Unlinked
       ELSE /\ req[h].made["income"] # None
            /\ req[h].made["expense"] = None
            /\ req[h].seen.pph23
  /\ Stage(h) = "savePaid" =>
       /\ req[h].made["income"] # None
       /\ req[h].made["expense"] # None <=> req[h].seen.pph23
  /\ ~MarkingPaid(h) => req[h].made = Unlinked
  /\ \A r \in Role : req[h].made[r] # None =>
       /\ origin[req[h].made[r]] = <<req[h].inv, r>>
       /\ transactions[req[h].made[r]].state # "free"

\* The references a Void has dealt with: nothing they name is in the ledger.
Done(h) ==
  IF req[h].pc = "removeEntry"
  THEN IF req[h].then = "saveVoid" THEN {"income"} ELSE {}
  ELSE IF Stage(h) = "saveVoid" THEN Role
  ELSE IF req[h].role = "expense" THEN {"income"} ELSE {}

VoidSoFar(h) ==
  /\ req[h].seen.status = "Paid"
  /\ \A r \in Role : req[h].seen.link[r] # None =>
       transactions[req[h].seen.link[r]].state # "free"
  /\ \A r \in Done(h) : req[h].seen.link[r] # None =>
       transactions[req[h].seen.link[r]].state = "gone"
  /\ req[h].pc = "removeEntry" =>
       /\ req[h].role = "expense"
       /\ req[h].tx = req[h].seen.link[IF req[h].then = "saveVoid" THEN "expense"
                                       ELSE "income"]

RequestOK(h) ==
  /\ req[h].pc = "writeAudit" =>
       /\ req[h].log \in AuditEntry
       /\ req[h].then \in {"idle", "addEntry", "savePaid", "findEntry", "saveVoid"}
  /\ req[h].pc # "writeAudit" /\ req[h].pc # "removeEntry" => req[h].then = "idle"
  /\ req[h].pc = "removeEntry" => req[h].then \in {"idle", "findEntry", "saveVoid"}
  /\ req[h].pc = "writeAudit" /\ req[h].then = "findEntry" => req[h].role = "expense"
  /\ MadeSoFar(h)
  /\ MarkingPaid(h) => /\ SeenIsPast(h)
                       /\ req[h].seen.status = "Unpaid"
                       /\ req[h].seen.link = Unlinked
  /\ Voiding(h) => SeenIsPast(h) /\ VoidSoFar(h)
  /\ Stage(h) = "removeInvoice" => SeenIsPast(h) /\ req[h].seen.status = "Unpaid"
  /\ Writing(h) => /\ req[h].tx # None
                   /\ transactions[req[h].tx].state # "free"
                   /\ req[h].txVer <= transactions[req[h].tx].ver
                   /\ CurrentTx(h) => transactions[req[h].tx].state = "live"

\* Rows not inserted yet are in nobody's hands.
Untouched ==
  /\ \A t \in Tx : transactions[t].state = "free" => ~IsLinked(t) /\ t \notin stranded
  /\ \A i \in Invoice : invoices[i].status = "none" => invoices[i] = NoInvoice

(* The tables and the requests: a conjunction that every step preserves by  *)
(* itself.                                                                   *)
Coherent ==
  /\ TypeOK /\ PaidIffLinked /\ LinksOwnEntries /\ EntryAccounted /\ Untouched
  /\ \A h \in Handler : RequestOK(h)

Entries == auditLog \cup Pending

(* The audit trail: what has been written of it and what is about to be      *)
(* together name every version of a row at most once, only those the row has *)
(* been through, and all of them unless a request was cut off.               *)
NamesPast == \A e \in Entries : e.ver \in 1 .. Version(e.id)
NamesOnce == \A e, f \in Entries : e.id = f.id /\ e.ver = f.ver => e = f
LogsOnlyDue == \A h \in Handler : req[h].pc # "writeAudit" => req[h].log = None
FreeUnwritten == \A t \in Tx : transactions[t].state = "free" => transactions[t] = NoTx

Trail == NamesPast /\ NamesOnce /\ LogsOnlyDue /\ FreeUnwritten /\ LoggedUnlessCut

(* The inductive invariant: the invariants above follow from it, and so do   *)
(* the action properties.                                                    *)
Inductive == Coherent /\ Trail
=============================================================================
