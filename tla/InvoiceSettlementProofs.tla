---------------------- MODULE InvoiceSettlementProofs ----------------------
(***************************************************************************)
(* Theorems about InvoiceSettlement for every set of invoices, ledger      *)
(* entries and handlers and every number of aborted requests.  The whole   *)
(* argument rests on one observation: rows only move forward (a changed    *)
(* row has a larger xmin, an entry that is gone never comes back), so what *)
(* a request has seen stays in the past of the table while it waits.  What *)
(* every step preserves comes in two parts: Coherent, of the tables and    *)
(* the requests, and Trail, of the audit trail, which rests on Coherent.   *)
(***************************************************************************)
EXTENDS InvoiceSettlement, TLAPS

USE ConstantsAssumption

(* What a step may do to the tables, as seen by a request that does not move. *)
Forward ==
  /\ \A i \in Invoice : \/ invoices'[i] = invoices[i]
                        \/ invoices'[i].ver > invoices[i].ver
  /\ \A t \in Tx : transactions[t].state # "free" =>
       /\ transactions'[t].state # "free"
       /\ transactions[t].state = "gone" => transactions'[t].state = "gone"
       /\ transactions'[t].ver >= transactions[t].ver
       /\ transactions'[t].ver = transactions[t].ver =>
            transactions'[t].state = transactions[t].state
       /\ origin'[t] = origin[t]

\* A request that does not move keeps its knowledge while the tables move forward.
LEMMA Bystander ==
  ASSUME TypeOK, TypeOK', Forward, NEW g \in Handler, RequestOK(g), req'[g] = req[g]
  PROVE  RequestOK(g)'
<1>1. req[g] \in Request
  BY DEF TypeOK
<1>2. SeenIsPast(g) => SeenIsPast(g)'
  <2>1. SUFFICES ASSUME SeenIsPast(g) PROVE SeenIsPast(g)'
    OBVIOUS
  <2> DEFINE i == req[g].inv
  <2>2. i \in Invoice /\ req[g].seen.ver \in Nat
    BY <1>1, <2>1 DEF SeenIsPast, Request, InvoiceRow
  <2>3. invoices[i].ver \in Nat /\ invoices'[i].ver \in Nat
    BY <2>2 DEF TypeOK, InvoiceRow
  <2>4. invoices'[i] = invoices[i] \/ invoices'[i].ver > invoices[i].ver
    BY <2>2 DEF Forward
  <2>5. QED
    BY <2>1, <2>2, <2>3, <2>4 DEF SeenIsPast, Current
<1>3. MadeSoFar(g) => MadeSoFar(g)'
  BY <1>1 DEF MadeSoFar, Forward, Stage, MarkingPaid, Request, Role
<1>4. Done(g)' = Done(g) /\ Done(g) \subseteq Role
  BY DEF Done, Stage, Role
<1>5. SeenIsPast(g) /\ VoidSoFar(g) => VoidSoFar(g)'
  <2>1. \A r \in Role : req[g].seen.link[r] \in Tx \cup {None}
    BY <1>1 DEF Request, InvoiceRow
  <2>2. QED
    BY <1>1, <1>4, <2>1 DEF VoidSoFar, Forward, Request, Role
<1>6. Writing(g) /\ req[g].tx # None /\ transactions[req[g].tx].state # "free"
        /\ req[g].txVer <= transactions[req[g].tx].ver
        /\ (CurrentTx(g) => transactions[req[g].tx].state = "live")
      => /\ transactions'[req[g].tx].state # "free"
         /\ req[g].txVer <= transactions'[req[g].tx].ver
         /\ (CurrentTx(g)' => transactions'[req[g].tx].state = "live")
  <2>1. SUFFICES ASSUME Writing(g), req[g].tx # None,
                        transactions[req[g].tx].state # "free",
                        req[g].txVer <= transactions[req[g].tx].ver,
                        CurrentTx(g) => transactions[req[g].tx].state = "live"
                 PROVE  /\ transactions'[req[g].tx].state # "free"
                        /\ req[g].txVer <= transactions'[req[g].tx].ver
                        /\ CurrentTx(g)' => transactions'[req[g].tx].state = "live"
    OBVIOUS
  <2> DEFINE t == req[g].tx
  <2>2. t \in Tx /\ req[g].txVer \in Nat
    BY <1>1, <2>1 DEF Request
  <2>3. transactions[t].ver \in Nat /\ transactions'[t].ver \in Nat
    BY <2>2 DEF TypeOK, TxRow
  <2>4. QED
    BY <2>1, <2>2, <2>3 DEF CurrentTx, Forward
<1>7. QED
  BY <1>2, <1>3, <1>5, <1>6 DEF RequestOK, Stage, MarkingPaid, Voiding, Writing

-----------------------------------------------------------------------------
(* The conjuncts of Coherent that speak of the tables and of who holds what. *)
Tables == PaidIffLinked /\ LinksOwnEntries /\ EntryAccounted /\ Untouched

\* A step of h preserves Coherent when it keeps the types, moves the tables
\* forward, keeps the table conjuncts, and leaves h knowing what it must.
LEMMA StepOfOne ==
  ASSUME Coherent, TypeOK', Forward, Tables', NEW h \in Handler, RequestOK(h)',
         \A g \in Handler \ {h} : req'[g] = req[g]
  PROVE  Coherent'
<1>1. ASSUME NEW g \in Handler PROVE RequestOK(g)'
  <2>1. CASE g = h
    BY <2>1
  <2>2. CASE g # h
    BY <2>2, Bystander DEF Coherent
  <2>3. QED
    BY <2>1, <2>2
<1>2. QED
  BY <1>1 DEF Coherent, Tables

\* The entries a request has made and not linked, spelled out.
LEMMA UnfinishedMade ==
  ASSUME NEW h \in Handler, NEW t \in Tx
  PROVE  t \in Unfinished(h) <=> \E r \in Role : req[h].made[r] = t
BY DEF Unfinished

\* Who holds an entry, and whether it is linked, depend on these fields alone.
LEMMA HoldersSame ==
  ASSUME \A g \in Handler : req'[g].made = req[g].made
  PROVE  \A t : Holders(t)' = Holders(t)
<1>1. \A g \in Handler : Unfinished(g)' = Unfinished(g)
  BY DEF Unfinished
<1>2. QED
  BY <1>1 DEF Holders

\* Whether an entry is linked depends on the link fields alone.
LEMMA LinkedSame ==
  ASSUME \A i \in Invoice : invoices'[i].link = invoices[i].link
  PROVE  \A t : IsLinked(t)' = IsLinked(t)
BY DEF IsLinked

\* When no request's unlinked entries change and no table does, Tables carries over.
LEMMA TablesIdle ==
  ASSUME Coherent, UNCHANGED <<invoices, transactions, origin, stranded>>,
         \A g \in Handler : req'[g].made = req[g].made
  PROVE  Tables' /\ Forward
<1>2. \A t \in Tx : Holders(t)' = Holders(t)
  BY HoldersSame
<1>3. \A t \in Tx : IsLinked(t)' = IsLinked(t)
  BY DEF IsLinked
<1>4. Tables'
  BY <1>2, <1>3 DEF Coherent, Tables, PaidIffLinked, LinksOwnEntries, EntryAccounted,
     Untouched
<1>5. Forward
  BY DEF Forward, Coherent, TypeOK, TxRow
<1>6. QED
  BY <1>4, <1>5

\* A request that is not in MarkPaid holds no entry.
LEMMA NothingMade ==
  ASSUME Coherent, NEW h \in Handler, ~MarkingPaid(h)
  PROVE  req[h].made = Unlinked /\ Unfinished(h) = {}
<1>1. req[h].made = Unlinked
  BY DEF Coherent, RequestOK, MadeSoFar
<1>2. QED
  BY <1>1 DEF Unfinished, Unlinked

-----------------------------------------------------------------------------
(* One lemma per action.                                                    *)

\* The values a request and a row start from have their types.
LEMMA IdleType == Idle \in Request /\ NoInvoice \in InvoiceRow /\ NoTx \in TxRow
BY DEF Idle, Request, NoInvoice, InvoiceRow, NoTx, TxRow, InvoiceStatus, Unlinked, Role, PC

\* A request that has answered knows nothing and needs nothing.
LEMMA IdleOK ==
  ASSUME NEW h \in Handler, req'[h] = Idle
  PROVE  RequestOK(h)'
<1>1. Stage(h)' = "idle" /\ req'[h].pc = "idle" /\ req'[h].then = "idle"
  BY DEF Stage, Idle
<1>2. MadeSoFar(h)'
  BY <1>1 DEF MadeSoFar, Idle, Unlinked
<1>3. QED
  BY <1>1, <1>2 DEF RequestOK, MarkingPaid, Voiding, Writing

\* Writing an audit entry moves the request on and touches no table.
LEMMA WriteAuditStep ==
  ASSUME Coherent, NEW h \in Handler, WriteAudit(h)
  PROVE  Coherent'
<1>1. /\ req[h] \in Request
      /\ req[h].pc = "writeAudit"
      /\ req[h].log \in AuditEntry
      /\ RequestOK(h)
  BY DEF Coherent, TypeOK, WriteAudit, RequestOK, Request
<1>2. req'[h] = IF req[h].then = "idle" THEN Idle
                ELSE [req[h] EXCEPT !.pc = req[h].then, !.log = None, !.then = "idle"]
  BY DEF WriteAudit, Coherent, TypeOK
<1>3. TypeOK'
  <2>1. req'[h] \in Request
    <3>1. [req[h] EXCEPT !.pc = req[h].then, !.log = None, !.then = "idle"] \in Request
      BY <1>1 DEF Request, PC
    <3>2. QED
      BY <1>2, <3>1, IdleType
  <2>2. QED
    BY <2>1, <1>1 DEF WriteAudit, Coherent, TypeOK
<1>4. \A g \in Handler : req'[g].made = req[g].made
  <2>1. req'[h].made = req[h].made
    <3>1. CASE req[h].then = "idle"
      BY <1>1, <1>2, <3>1, NothingMade DEF Idle, MarkingPaid, Stage
    <3>2. CASE req[h].then # "idle"
      BY <1>1, <1>2, <3>2 DEF Request
    <3>3. QED
      BY <3>1, <3>2
  <2>2. QED
    BY <2>1 DEF WriteAudit, Coherent, TypeOK
<1>5. Tables' /\ Forward
  BY <1>4, TablesIdle DEF WriteAudit
<1>6. RequestOK(h)'
  <2>1. CASE req[h].then = "idle"
    BY <1>2, <2>1, IdleOK
  <2>2. CASE req[h].then # "idle"
    <3>1. req'[h] = [req[h] EXCEPT !.pc = req[h].then, !.log = None, !.then = "idle"]
      BY <1>2, <2>2
    <3>2. /\ req'[h].pc = req[h].then /\ req'[h].then = "idle"
          /\ req'[h].inv = req[h].inv /\ req'[h].seen = req[h].seen
          /\ req'[h].role = req[h].role /\ req'[h].made = req[h].made
          /\ req[h].then \in {"addEntry", "savePaid", "findEntry", "saveVoid"}
      BY <1>1, <2>2, <3>1 DEF Request, RequestOK
    <3>3. Stage(h)' = Stage(h) /\ Stage(h) = req[h].then /\ Done(h)' = Done(h)
      BY <1>1, <3>2 DEF Stage, Done
    <3>4. UNCHANGED <<invoices, transactions, origin>>
      BY DEF WriteAudit
    <3>5. MadeSoFar(h)'
      BY <1>1, <3>2, <3>3, <3>4 DEF MadeSoFar, RequestOK, MarkingPaid
    <3>6. SeenIsPast(h) => SeenIsPast(h)'
      BY <3>2, <3>4 DEF SeenIsPast, Current
    <3>7. VoidSoFar(h) => VoidSoFar(h)'
      BY <3>2, <3>3, <3>4 DEF VoidSoFar
    <3>8. QED
      BY <1>1, <3>2, <3>3, <3>5, <3>6, <3>7 DEF RequestOK, MarkingPaid, Voiding, Writing
  <2>3. QED
    BY <2>1, <2>2
<1>7. \A g \in Handler \ {h} : req'[g] = req[g]
  BY DEF WriteAudit, Coherent, TypeOK
<1>8. QED
  BY <1>3, <1>5, <1>6, <1>7, StepOfOne

\* The step that ends a request early, for StaleSave and Abort alike.
LEMMA CutShort ==
  ASSUME Coherent, NEW h \in Handler,
         stranded' = stranded \cup Unfinished(h),
         req' = [req EXCEPT ![h] = Idle],
         UNCHANGED <<invoices, transactions, auditLog, origin>>,
         aborts' \in 0 .. MaxAborts
  PROVE  Coherent'
<1>1. req[h] \in Request /\ RequestOK(h)
  BY DEF Coherent, TypeOK
<1>2. req'[h] = Idle /\ \A g \in Handler \ {h} : req'[g] = req[g]
  BY DEF Coherent, TypeOK
<1>3. TypeOK'
  <2>1. Unfinished(h) \subseteq Tx
    BY <1>1 DEF Unfinished, Request
  <2>2. req' \in [Handler -> Request]
    BY IdleType DEF Coherent, TypeOK
  <2>3. QED
    BY <2>1, <2>2 DEF Coherent, TypeOK
<1>4. Forward
  BY DEF Forward, Coherent, TypeOK, TxRow
<1>5. \A t \in Tx : IsLinked(t)' = IsLinked(t)
  BY DEF IsLinked
<1>6. ASSUME NEW t \in Tx PROVE Holders(t)' = Holders(t) \ {h}
  <2>1. Unfinished(h)' = {}
    BY <1>2 DEF Unfinished, Idle, Unlinked
  <2>2. \A g \in Handler \ {h} : Unfinished(g)' = Unfinished(g)
    BY <1>2 DEF Unfinished
  <2>3. QED
    BY <2>1, <2>2 DEF Holders
<1>7. Tables'
  <2>1. EntryAccounted'
    BY <1>5, <1>6 DEF EntryAccounted, Coherent, Holders
  <2>2. Untouched'
    <3>1. ASSUME NEW t \in Unfinished(h) PROVE transactions[t].state # "free"
      BY <1>1 DEF Unfinished, RequestOK, MadeSoFar
    <3>2. QED
      BY <3>1, <1>5 DEF Untouched, Coherent
  <2>3. QED
    BY <2>1, <2>2 DEF Coherent, Tables, PaidIffLinked, LinksOwnEntries
<1>8. RequestOK(h)'
  BY <1>2, IdleOK
<1>9. QED
  BY <1>2, <1>3, <1>4, <1>7, <1>8, StepOfOne

\* A save that meets a newer xmin ends its request.
LEMMA StaleSaveStep ==
  ASSUME Coherent, NEW h \in Handler, StaleSave(h)
  PROVE  Coherent'
BY CutShort DEF StaleSave, Coherent, TypeOK

\* A request that is cut off.
LEMMA AbortStep ==
  ASSUME Coherent, NEW h \in Handler, Abort(h)
  PROVE  Coherent'
<1>1. aborts' \in 0 .. MaxAborts
  BY DEF Abort, Coherent, TypeOK
<1>2. QED
  BY <1>1, CutShort DEF Abort

\* A new invoice row names no entry, and no request has loaded it.
LEMMA CreateInvoiceStep ==
  ASSUME Coherent, NEW h \in Handler, NEW i \in Invoice, NEW taxed \in BOOLEAN,
         CreateInvoice(h, i, taxed)
  PROVE  Coherent'
<1> DEFINE row == [status |-> "Unpaid", pph23 |-> taxed, link |-> Unlinked, ver |-> 1]
<1> DEFINE evt == Event("Create", i, 1)
<1>1. req[h] \in Request /\ RequestOK(h) /\ req[h].pc = "idle"
  BY DEF Coherent, TypeOK, CreateInvoice
<1>2. row \in InvoiceRow /\ evt \in AuditEntry
  BY DEF InvoiceRow, InvoiceStatus, Unlinked, AuditEntry, Event, AuditAction
<1>3. /\ invoices' = [invoices EXCEPT ![i] = row]
      /\ invoices'[i] = row
      /\ \A j \in Invoice \ {i} : invoices'[j] = invoices[j]
      /\ req'[h] = [req[h] EXCEPT !.pc = "writeAudit", !.log = evt]
      /\ \A g \in Handler \ {h} : req'[g] = req[g]
      /\ UNCHANGED <<transactions, origin, stranded, auditLog, aborts>>
  BY DEF CreateInvoice, Coherent, TypeOK
<1>4. TypeOK'
  <2>1. req'[h] \in Request
    BY <1>1, <1>2, <1>3 DEF Request, PC
  <2>2. req' \in [Handler -> Request]
    BY <2>1 DEF CreateInvoice, Coherent, TypeOK
  <2>3. QED
    BY <1>2, <1>3, <2>2 DEF Coherent, TypeOK
<1>5. req'[h].pc = "writeAudit" /\ req'[h].then = "idle" /\ req'[h].made = req[h].made
        /\ req'[h].log = evt
  BY <1>1, <1>3 DEF Request, RequestOK
<1>6. invoices[i] = NoInvoice
  BY DEF CreateInvoice, Coherent, Untouched
<1>7. \A t \in Tx : Holders(t)' = Holders(t) /\ IsLinked(t)' = IsLinked(t)
  <2>1. \A j \in Invoice : invoices'[j].link = invoices[j].link
    BY <1>3, <1>6 DEF NoInvoice
  <2>2. \A g \in Handler : req'[g].made = req[g].made
    BY <1>3, <1>5
  <2>3. QED
    BY <2>1, <2>2, HoldersSame, LinkedSame
<1>8. Tables'
  <2>1. PaidIffLinked'
    BY <1>3 DEF Coherent, PaidIffLinked, Unlinked, Role
  <2>2. LinksOwnEntries'
    <3>1. SUFFICES ASSUME NEW j \in Invoice, NEW r \in Role, invoices'[j].link[r] # None
                   PROVE  origin'[invoices'[j].link[r]] = <<j, r>>
      BY DEF LinksOwnEntries
    <3>2. j # i
      BY <1>3, <3>1 DEF Unlinked
    <3>3. QED
      BY <1>3, <3>1, <3>2 DEF Coherent, LinksOwnEntries
  <2>3. EntryAccounted'
    BY <1>3, <1>7 DEF Coherent, EntryAccounted
  <2>4. Untouched'
    BY <1>3, <1>7 DEF Coherent, Untouched
  <2>5. QED
    BY <2>1, <2>2, <2>3, <2>4 DEF Tables
<1>9. Forward
  BY <1>3, <1>6 DEF Forward, Coherent, TypeOK, TxRow, NoInvoice
<1>10. RequestOK(h)'
  <2>1. MadeSoFar(h)'
    <3>1. req'[h].made = Unlinked
      BY <1>1, <1>5 DEF RequestOK, MadeSoFar, MarkingPaid, Stage
    <3>2. QED
      BY <1>5, <3>1 DEF MadeSoFar, Stage, Unlinked
  <2>2. QED
    BY <1>2, <1>5, <2>1 DEF RequestOK, MarkingPaid, Voiding, Writing, Stage
<1>11. QED
  BY <1>3, <1>4, <1>8, <1>9, <1>10, StepOfOne

\* MarkPaid loads an Unpaid row: it has seen the present and made nothing.
LEMMA BeginMarkPaidStep ==
  ASSUME Coherent, NEW h \in Handler, NEW i \in Invoice, BeginMarkPaid(h, i)
  PROVE  Coherent'
<1>1. req[h] \in Request /\ RequestOK(h) /\ req[h].pc = "idle"
  BY DEF Coherent, TypeOK, BeginMarkPaid
<1>2. UNCHANGED <<invoices, transactions, auditLog, origin, stranded, aborts>>
  BY DEF BeginMarkPaid
<1>3. /\ req'[h] = [req[h] EXCEPT !.pc = "addEntry", !.inv = i, !.seen = invoices[i], !.role = "income"]
      /\ \A g \in Handler \ {h} : req'[g] = req[g]
  BY DEF BeginMarkPaid, Coherent, TypeOK
<1>4. invoices[i] \in InvoiceRow
  BY DEF Coherent, TypeOK
<1>5. TypeOK'
  <2>1. req'[h] \in Request
    BY <1>1, <1>3, <1>4 DEF Request, PC, Role
  <2>2. req' \in [Handler -> Request]
    BY <2>1 DEF BeginMarkPaid, Coherent, TypeOK
  <2>3. QED
    BY <1>2, <2>2 DEF Coherent, TypeOK
<1>6. /\ req'[h].pc = "addEntry" /\ req'[h].then = "idle" /\ req'[h].inv = i
      /\ req'[h].seen = invoices[i] /\ req'[h].made = Unlinked
      /\ req'[h].role = "income"
  BY <1>1, <1>3 DEF Request, RequestOK, MadeSoFar, MarkingPaid, Stage
<1>7. Tables' /\ Forward
  <2>1. \A g \in Handler : req'[g].made = req[g].made
    BY <1>1, <1>3, <1>6 DEF RequestOK, MadeSoFar, MarkingPaid, Stage
  <2>2. QED
    BY <1>2, <2>1, TablesIdle
<1>8. RequestOK(h)'
  <2>1. MadeSoFar(h)'
    BY <1>6 DEF MadeSoFar, Stage, Unlinked
  <2>2. SeenIsPast(h)'
    BY <1>2, <1>4, <1>6, ConstantsAssumption DEF SeenIsPast, Current, InvoiceRow
  <2>3. invoices[i].status = "Unpaid" /\ invoices[i].link = Unlinked
    <3>1. invoices[i].status = "Unpaid" /\ invoices[i].link \in [Role -> Tx \cup {None}]
      BY <1>4 DEF BeginMarkPaid, InvoiceRow
    <3>2. \A r \in Role : invoices[i].link[r] = None
      BY <3>1 DEF Coherent, PaidIffLinked, Role
    <3>3. QED
      BY <3>1, <3>2 DEF Unlinked
  <2>4. QED
    BY <1>2, <1>6, <2>1, <2>2, <2>3 DEF RequestOK, MarkingPaid, Voiding, Writing, Stage
<1>9. QED
  BY <1>3, <1>5, <1>7, <1>8, StepOfOne

\* Void loads a Paid row, whose entries were all inserted before.
LEMMA BeginVoidStep ==
  ASSUME Coherent, NEW h \in Handler, NEW i \in Invoice, BeginVoid(h, i)
  PROVE  Coherent'
<1>1. req[h] \in Request /\ RequestOK(h) /\ req[h].pc = "idle"
  BY DEF Coherent, TypeOK, BeginVoid
<1>2. UNCHANGED <<invoices, transactions, auditLog, origin, stranded, aborts>>
  BY DEF BeginVoid
<1>3. /\ req'[h] = [req[h] EXCEPT !.pc = "findEntry", !.inv = i, !.seen = invoices[i], !.role = "income"]
      /\ \A g \in Handler \ {h} : req'[g] = req[g]
  BY DEF BeginVoid, Coherent, TypeOK
<1>4. invoices[i] \in InvoiceRow
  BY DEF Coherent, TypeOK
<1>5. TypeOK'
  <2>1. req'[h] \in Request
    BY <1>1, <1>3, <1>4 DEF Request, PC, Role
  <2>2. req' \in [Handler -> Request]
    BY <2>1 DEF BeginVoid, Coherent, TypeOK
  <2>3. QED
    BY <1>2, <2>2 DEF Coherent, TypeOK
<1>6. /\ req'[h].pc = "findEntry" /\ req'[h].then = "idle" /\ req'[h].inv = i
      /\ req'[h].seen = invoices[i] /\ req'[h].made = Unlinked
      /\ req'[h].role = "income"
  BY <1>1, <1>3 DEF Request, RequestOK, MadeSoFar, MarkingPaid, Stage
<1>7. Tables' /\ Forward
  <2>1. \A g \in Handler : req'[g].made = req[g].made
    BY <1>1, <1>3, <1>6 DEF RequestOK, MadeSoFar, MarkingPaid, Stage
  <2>2. QED
    BY <1>2, <2>1, TablesIdle
<1>8. RequestOK(h)'
  <2>1. MadeSoFar(h)'
    BY <1>6 DEF MadeSoFar, Stage, Unlinked
  <2>2. SeenIsPast(h)'
    BY <1>2, <1>4, <1>6, ConstantsAssumption DEF SeenIsPast, Current, InvoiceRow
  <2>3. VoidSoFar(h)'
    <3>1. invoices[i].status = "Paid"
      BY DEF BeginVoid
    <3>2. \A r \in Role : invoices[i].link[r] # None =>
            transactions[invoices[i].link[r]].state # "free"
      BY <1>4 DEF Coherent, Untouched, IsLinked, InvoiceRow
    <3>3. Done(h)' = {}
      BY <1>6 DEF Done, Stage
    <3>4. QED
      BY <1>2, <1>6, <3>1, <3>2, <3>3 DEF VoidSoFar
  <2>4. QED
    BY <1>6, <2>1, <2>2, <2>3 DEF RequestOK, MarkingPaid, Voiding, Writing, Stage
<1>9. QED
  BY <1>3, <1>5, <1>7, <1>8, StepOfOne

\* Delete loads an Unpaid row.
LEMMA BeginDeleteStep ==
  ASSUME Coherent, NEW h \in Handler, NEW i \in Invoice, BeginDelete(h, i)
  PROVE  Coherent'
<1>1. req[h] \in Request /\ RequestOK(h) /\ req[h].pc = "idle"
  BY DEF Coherent, TypeOK, BeginDelete
<1>2. UNCHANGED <<invoices, transactions, auditLog, origin, stranded, aborts>>
  BY DEF BeginDelete
<1>3. /\ req'[h] = [req[h] EXCEPT !.pc = "removeInvoice", !.inv = i, !.seen = invoices[i]]
      /\ \A g \in Handler \ {h} : req'[g] = req[g]
  BY DEF BeginDelete, Coherent, TypeOK
<1>4. invoices[i] \in InvoiceRow
  BY DEF Coherent, TypeOK
<1>5. TypeOK'
  <2>1. req'[h] \in Request
    BY <1>1, <1>3, <1>4 DEF Request, PC, Role
  <2>2. req' \in [Handler -> Request]
    BY <2>1 DEF BeginDelete, Coherent, TypeOK
  <2>3. QED
    BY <1>2, <2>2 DEF Coherent, TypeOK
<1>6. /\ req'[h].pc = "removeInvoice" /\ req'[h].then = "idle" /\ req'[h].inv = i
      /\ req'[h].seen = invoices[i] /\ req'[h].made = Unlinked
  BY <1>1, <1>3 DEF Request, RequestOK, MadeSoFar, MarkingPaid, Stage
<1>7. Tables' /\ Forward
  <2>1. \A g \in Handler : req'[g].made = req[g].made
    BY <1>1, <1>3, <1>6 DEF RequestOK, MadeSoFar, MarkingPaid, Stage
  <2>2. QED
    BY <1>2, <2>1, TablesIdle
<1>8. RequestOK(h)'
  <2>1. MadeSoFar(h)'
    BY <1>6 DEF MadeSoFar, Stage, Unlinked
  <2>2. SeenIsPast(h)'
    BY <1>2, <1>4, <1>6, ConstantsAssumption DEF SeenIsPast, Current, InvoiceRow
  <2>3. invoices[i].status = "Unpaid"
    BY DEF BeginDelete
  <2>4. QED
    BY <1>2, <1>6, <2>1, <2>2, <2>3 DEF RequestOK, MarkingPaid, Voiding, Writing, Stage
<1>9. QED
  BY <1>3, <1>5, <1>7, <1>8, StepOfOne

\* A manager's request loads a live entry.
LEMMA BeginEntryWriteStep ==
  ASSUME Coherent, NEW h \in Handler, NEW t \in Tx,
         NEW what \in {"removeEntry", "editEntry"}, BeginEntryWrite(h, t, what)
  PROVE  Coherent'
<1>1. req[h] \in Request /\ RequestOK(h) /\ req[h].pc = "idle"
  BY DEF Coherent, TypeOK, BeginEntryWrite
<1>2. UNCHANGED <<invoices, transactions, auditLog, origin, stranded, aborts>>
  BY DEF BeginEntryWrite
<1>3. /\ req'[h] = [req[h] EXCEPT !.pc = what, !.tx = t,
                                 !.txVer = transactions[t].ver]
      /\ \A g \in Handler \ {h} : req'[g] = req[g]
  BY DEF BeginEntryWrite, Coherent, TypeOK
<1>4. transactions[t] \in TxRow /\ transactions[t].state = "live"
  BY DEF Coherent, TypeOK, BeginEntryWrite
<1>5. TypeOK'
  <2>1. req'[h] \in Request
    BY <1>1, <1>3, <1>4 DEF Request, PC, TxRow
  <2>2. req' \in [Handler -> Request]
    BY <2>1 DEF BeginEntryWrite, Coherent, TypeOK
  <2>3. QED
    BY <1>2, <2>2 DEF Coherent, TypeOK
<1>6. /\ req'[h].pc = what /\ req'[h].then = "idle" /\ req'[h].tx = t
      /\ req'[h].txVer = transactions[t].ver /\ req'[h].made = Unlinked
  BY <1>1, <1>3 DEF Request, RequestOK, MadeSoFar, MarkingPaid, Stage
<1>7. Tables' /\ Forward
  <2>1. \A g \in Handler : req'[g].made = req[g].made
    BY <1>1, <1>3, <1>6 DEF RequestOK, MadeSoFar, MarkingPaid, Stage
  <2>2. QED
    BY <1>2, <2>1, TablesIdle
<1>8. RequestOK(h)'
  <2>1. MadeSoFar(h)'
    BY <1>6 DEF MadeSoFar, Stage, Unlinked
  <2>2. QED
    BY <1>2, <1>4, <1>6, <2>1, ConstantsAssumption
    DEF RequestOK, MarkingPaid, Voiding, Writing, Stage, CurrentTx, TxRow
<1>9. QED
  BY <1>3, <1>5, <1>7, <1>8, StepOfOne

\* What a Void knows when it is about to look for a linked entry.
LEMMA FindEntryState ==
  ASSUME Coherent, NEW h \in Handler, req[h].pc = "findEntry"
  PROVE  /\ req[h] \in Request /\ RequestOK(h) /\ req[h].then = "idle"
         /\ req[h].made = Unlinked /\ SeenIsPast(h) /\ VoidSoFar(h)
         /\ req[h].seen.link \in [Role -> Tx \cup {None}]
         /\ req[h].role \in Role /\ Linked(h) \in Tx \cup {None}
         /\ req[h].role = "expense" /\ req[h].seen.link["income"] # None =>
              transactions[req[h].seen.link["income"]].state = "gone"
<1>1. req[h] \in Request /\ RequestOK(h)
  BY DEF Coherent, TypeOK
<1>2. req[h].then = "idle" /\ SeenIsPast(h) /\ VoidSoFar(h) /\ req[h].made = Unlinked
  BY <1>1 DEF RequestOK, Voiding, Stage, MadeSoFar, MarkingPaid
<1>3. /\ req[h].seen.link \in [Role -> Tx \cup {None}]
      /\ req[h].role \in Role /\ Linked(h) \in Tx \cup {None}
  BY <1>1 DEF Request, InvoiceRow, Linked
<1>4. req[h].role = "expense" => Done(h) = {"income"}
  BY DEF Done, Stage
<1>5. QED
  BY <1>1, <1>2, <1>3, <1>4 DEF VoidSoFar

\* Void finds the entry of its current reference and will delete it.
LEMMA FindEntryStep ==
  ASSUME Coherent, NEW h \in Handler, FindEntry(h)
  PROVE  Coherent'
<1> DEFINE t == Linked(h)
<1> DEFINE next == AfterRole(req[h].role)
<1>1. /\ req[h].pc = "findEntry" /\ t \in Tx
      /\ transactions[t] \in TxRow /\ transactions[t].state = "live"
  BY FindEntryState DEF FindEntry, Coherent, TypeOK
<1>2. UNCHANGED <<invoices, transactions, auditLog, origin, stranded, aborts>>
  BY DEF FindEntry
<1>3. /\ req'[h] = [req[h] EXCEPT !.pc = "removeEntry", !.tx = t,
                     !.txVer = transactions[t].ver, !.role = "expense", !.then = next]
      /\ \A g \in Handler \ {h} : req'[g] = req[g]
  BY DEF FindEntry, Coherent, TypeOK
<1>4. TypeOK'
  <2>1. req'[h] \in Request
    BY <1>1, <1>3, FindEntryState DEF Request, PC, Role, TxRow, AfterRole
  <2>2. req' \in [Handler -> Request]
    BY <2>1 DEF FindEntry, Coherent, TypeOK
  <2>3. QED
    BY <1>2, <2>2 DEF Coherent, TypeOK
<1>5. /\ req'[h].pc = "removeEntry" /\ req'[h].then = next /\ req'[h].tx = t
      /\ req'[h].txVer = transactions[t].ver /\ req'[h].made = Unlinked
      /\ req'[h].role = "expense" /\ req'[h].inv = req[h].inv
      /\ req'[h].seen = req[h].seen
  BY <1>1, <1>3, FindEntryState DEF Request
<1>6. Tables' /\ Forward
  <2>1. \A g \in Handler : req'[g].made = req[g].made
    BY <1>1, <1>3, <1>5, FindEntryState
  <2>2. QED
    BY <1>2, <2>1, TablesIdle
<1>7. VoidSoFar(h)'
  <2>1. next \in {"findEntry", "saveVoid"}
          /\ (next = "saveVoid" <=> req[h].role = "expense")
    BY <1>1, FindEntryState DEF AfterRole, Role
  <2>2. t = req[h].seen.link[IF next = "saveVoid" THEN "expense" ELSE "income"]
    BY <1>1, <2>1, FindEntryState DEF Linked, Role
  <2>3. Done(h)' = IF next = "saveVoid" THEN {"income"} ELSE {}
    BY <1>5 DEF Done
  <2>4. \A r \in Done(h)' : req[h].seen.link[r] # None =>
          transactions[req[h].seen.link[r]].state = "gone"
    BY <1>1, <2>1, <2>3, FindEntryState
  <2>5. VoidSoFar(h)
    BY <1>1, FindEntryState
  <2>6. QED
    BY <1>2, <1>5, <2>2, <2>4, <2>5 DEF VoidSoFar
<1>8. RequestOK(h)'
  <2>1. MadeSoFar(h)'
    BY <1>5 DEF MadeSoFar, Stage, Unlinked
  <2>2. SeenIsPast(h)'
    BY <1>1, <1>2, <1>5, FindEntryState DEF SeenIsPast, Current
  <2>3. next \in {"findEntry", "saveVoid"}
    BY DEF AfterRole
  <2>4. QED
    BY <1>1, <1>2, <1>5, <1>7, <2>1, <2>2, <2>3, ConstantsAssumption
    DEF RequestOK, MarkingPaid, Voiding, Writing, Stage, CurrentTx, TxRow
<1>9. QED
  BY <1>3, <1>4, <1>6, <1>8, StepOfOne

\* Void finds nothing to delete for its current reference.
LEMMA SkipEntryStep ==
  ASSUME Coherent, NEW h \in Handler, SkipEntry(h)
  PROVE  Coherent'
<1> DEFINE next == AfterRole(req[h].role)
<1>1. req[h].pc = "findEntry" /\ next \in {"findEntry", "saveVoid"}
  BY DEF SkipEntry, AfterRole
<1>2. UNCHANGED <<invoices, transactions, auditLog, origin, stranded, aborts>>
  BY DEF SkipEntry
<1>3. /\ req'[h] = [req[h] EXCEPT !.pc = next, !.role = "expense"]
      /\ \A g \in Handler \ {h} : req'[g] = req[g]
  BY DEF SkipEntry, Coherent, TypeOK
<1>4. TypeOK'
  <2>1. req'[h] \in Request
    BY <1>1, <1>3, FindEntryState DEF Request, PC, Role
  <2>2. req' \in [Handler -> Request]
    BY <2>1 DEF SkipEntry, Coherent, TypeOK
  <2>3. QED
    BY <1>2, <2>2 DEF Coherent, TypeOK
<1>5. /\ req'[h].pc = next /\ req'[h].then = "idle" /\ req'[h].made = Unlinked
      /\ req'[h].role = "expense" /\ req'[h].inv = req[h].inv
      /\ req'[h].seen = req[h].seen
  BY <1>1, <1>3, FindEntryState DEF Request
<1>6. Tables' /\ Forward
  <2>1. \A g \in Handler : req'[g].made = req[g].made
    BY <1>1, <1>3, <1>5, FindEntryState
  <2>2. QED
    BY <1>2, <2>1, TablesIdle
<1>7. VoidSoFar(h)'
  <2>1. Linked(h) # None => transactions[Linked(h)].state = "gone"
    <3>1. Linked(h) # None => /\ transactions[Linked(h)].state # "free"
                              /\ transactions[Linked(h)] \in TxRow
      BY <1>1, FindEntryState DEF VoidSoFar, Linked, Coherent, TypeOK
    <3>2. QED
      BY <3>1 DEF SkipEntry, TxRow
  <2>2. \A r \in Done(h)' : req[h].seen.link[r] # None =>
          transactions[req[h].seen.link[r]].state = "gone"
    <3>1. CASE req[h].role = "income"
      <4>1. Done(h)' = {"income"}
        BY <1>5, <3>1 DEF Done, Stage, AfterRole
      <4>2. QED
        BY <2>1, <3>1, <4>1 DEF Linked
    <3>2. CASE req[h].role = "expense"
      BY <1>1, <2>1, <3>2, FindEntryState DEF Linked, Done, Role
    <3>3. QED
      BY <1>1, <3>1, <3>2, FindEntryState DEF Role
  <2>3. QED
    BY <1>1, <1>2, <1>5, <2>2, FindEntryState DEF VoidSoFar
<1>8. RequestOK(h)'
  <2>1. MadeSoFar(h)'
    BY <1>1, <1>5 DEF MadeSoFar, Stage, Unlinked
  <2>2. SeenIsPast(h)'
    BY <1>1, <1>2, <1>5, FindEntryState DEF SeenIsPast, Current
  <2>3. QED
    BY <1>1, <1>5, <1>7, <2>1, <2>2 DEF RequestOK, MarkingPaid, Voiding, Writing, Stage
<1>9. QED
  BY <1>3, <1>4, <1>6, <1>8, StepOfOne

\* MarkPaid inserts an entry: it is now held by this request alone.
LEMMA AddEntryStep ==
  ASSUME Coherent, NEW h \in Handler, NEW t \in Tx, AddEntry(h, t)
  PROVE  Coherent'
<1> DEFINE r == req[h].role
<1> DEFINE more == r = "income" /\ req[h].seen.pph23
<1> DEFINE row == [state |-> "live", ver |-> 1]
<1> DEFINE evt == Event("Create", t, 1)
<1>1. /\ req[h] \in Request /\ RequestOK(h) /\ req[h].pc = "addEntry"
      /\ r \in Role /\ req[h].inv \in Invoice \cup {None}
      /\ transactions[t].state = "free"
  BY DEF Coherent, TypeOK, AddEntry, Request
<1>2. evt \in AuditEntry /\ row \in TxRow
  BY DEF Event, AuditEntry, AuditAction, TxRow
<1>3. /\ req'[h] = [req[h] EXCEPT !.pc = "writeAudit", !.log = evt, !.made[r] = t,
                     !.role = IF more THEN "expense" ELSE r,
                     !.then = IF more THEN "addEntry" ELSE "savePaid"]
      /\ \A g \in Handler \ {h} : req'[g] = req[g]
      /\ transactions' = [transactions EXCEPT ![t] = row]
      /\ origin' = [origin EXCEPT ![t] = <<req[h].inv, r>>]
      /\ UNCHANGED <<invoices, auditLog, stranded, aborts>>
  BY DEF AddEntry, Coherent, TypeOK
<1>4. /\ transactions'[t] = row /\ origin'[t] = <<req[h].inv, r>>
      /\ \A u \in Tx \ {t} : transactions'[u] = transactions[u] /\ origin'[u] = origin[u]
  BY <1>3 DEF Coherent, TypeOK
<1>5. /\ req'[h].pc = "writeAudit" /\ req'[h].log = evt /\ req'[h].inv = req[h].inv
      /\ req'[h].seen = req[h].seen
      /\ req'[h].made = [req[h].made EXCEPT ![r] = t]
      /\ req'[h].role = IF more THEN "expense" ELSE r
      /\ req'[h].then = IF more THEN "addEntry" ELSE "savePaid"
  BY <1>1, <1>3 DEF Request
<1>6. TypeOK'
  <2>1. req'[h] \in Request
    <3>1. [req[h].made EXCEPT ![r] = t] \in [Role -> Tx \cup {None}]
      BY <1>1 DEF Request
    <3>2. /\ "writeAudit" \in PC /\ "addEntry" \in PC /\ "savePaid" \in PC
          /\ "expense" \in Role
      BY DEF PC, Role
    <3>3. QED
      BY <1>1, <1>2, <1>3, <3>1, <3>2 DEF Request
  <2>2. req' \in [Handler -> Request]
    BY <2>1 DEF AddEntry, Coherent, TypeOK
  <2>3. transactions' \in [Tx -> TxRow] /\ origin' \in [Tx -> (Invoice \cup {None}) \X Role]
    BY <1>1, <1>2, <1>3 DEF Coherent, TypeOK
  <2>4. QED
    BY <1>3, <2>2, <2>3 DEF Coherent, TypeOK
<1>7. /\ SeenIsPast(h) /\ req[h].seen.status = "Unpaid" /\ req[h].seen.link = Unlinked
      /\ req[h].made \in [Role -> Tx \cup {None}] /\ MadeSoFar(h)
      /\ r = "income" => req[h].made = Unlinked
      /\ r = "expense" => /\ req[h].made["income"] # None /\ req[h].made["expense"] = None
                          /\ req[h].seen.pph23
  BY <1>1 DEF RequestOK, MarkingPaid, Stage, MadeSoFar, Request, Role
<1>8. req[h].made[r] = None
  BY <1>1, <1>7 DEF Unlinked, Role
\* A fresh identifier is nobody's.
<1>9. /\ ~IsLinked(t) /\ t \notin stranded /\ Holders(t) = {}
  <2>1. \A g \in Handler : t \notin Unfinished(g)
    <3>1. ASSUME NEW g \in Handler, NEW q \in Role, req[g].made[q] = t PROVE FALSE
      BY <1>1, <3>1, ConstantsAssumption DEF Coherent, RequestOK, MadeSoFar
    <3>2. QED
      BY <3>1 DEF Unfinished
  <2>2. QED
    BY <1>1, <2>1 DEF Coherent, Untouched, Holders
<1>10. \A u : IsLinked(u)' = IsLinked(u)
  BY <1>3, LinkedSame
<1>11. Holders(t)' = {h} /\ \A u \in Tx \ {t} : Holders(u)' = Holders(u)
  <2>1. \A q \in Role : req'[h].made[q] = IF q = r THEN t ELSE req[h].made[q]
    BY <1>1, <1>5, <1>7
  <2>2. \A u \in Tx : u \in Unfinished(h)' <=> u = t \/ u \in Unfinished(h)
    <3>1. \A u \in Tx : u \in Unfinished(h)' <=> \E q \in Role : req'[h].made[q] = u
      BY ConstantsAssumption DEF Unfinished
    <3>2. \A u \in Tx : u \in Unfinished(h) <=> \E q \in Role : req[h].made[q] = u
      BY ConstantsAssumption DEF Unfinished
    <3>3. QED
      BY <1>1, <1>8, <2>1, <3>1, <3>2, ConstantsAssumption
  <2>3. \A g \in Handler \ {h} : Unfinished(g)' = Unfinished(g)
    BY <1>3 DEF Unfinished
  <2>4. QED
    BY <1>9, <2>2, <2>3 DEF Holders
<1>12. Tables'
  <2>1. PaidIffLinked'
    BY <1>3 DEF Coherent, PaidIffLinked
  <2>2. LinksOwnEntries'
    <3>1. SUFFICES ASSUME NEW j \in Invoice, NEW q \in Role, invoices[j].link[q] # None
                   PROVE  origin'[invoices[j].link[q]] = <<j, q>>
      BY <1>3 DEF LinksOwnEntries
    <3>2. invoices[j].link[q] \in Tx \ {t}
      BY <1>9, <3>1 DEF IsLinked, Coherent, TypeOK, InvoiceRow
    <3>3. QED
      BY <1>4, <3>1, <3>2 DEF Coherent, LinksOwnEntries
  <2>3. EntryAccounted'
    <3>1. SUFFICES ASSUME NEW u \in Tx
                   PROVE  /\ transactions'[u].state = "live" =>
                               IsLinked(u)' \/ u \in stranded' \/ Holders(u)' # {}
                          /\ u \in stranded' => ~IsLinked(u)' /\ Holders(u)' = {}
                          /\ IsLinked(u)' => Holders(u)' = {}
                          /\ \A f, g \in Holders(u)' : f = g
      BY DEF EntryAccounted
    <3>2. CASE u = t
      BY <1>3, <1>9, <1>10, <1>11, <3>2
    <3>3. CASE u # t
      BY <1>3, <1>4, <1>10, <1>11, <3>3 DEF Coherent, EntryAccounted
    <3>4. QED
      BY <3>2, <3>3
  <2>4. Untouched'
    BY <1>3, <1>4, <1>10 DEF Coherent, Untouched
  <2>5. QED
    BY <2>1, <2>2, <2>3, <2>4 DEF Tables
<1>13. Forward
  BY <1>1, <1>3, <1>4 DEF Forward, Coherent, TypeOK, TxRow
<1>14. RequestOK(h)'
  <2>1. \A q \in Role : req'[h].made[q] = IF q = r THEN t ELSE req[h].made[q]
    BY <1>1, <1>5, <1>7
  <2>2. Stage(h)' = IF more THEN "addEntry" ELSE "savePaid"
    BY <1>5 DEF Stage
  <2>3. MadeSoFar(h)'
    <3>1. \A q \in Role : req'[h].made[q] # None =>
            /\ origin'[req'[h].made[q]] = <<req'[h].inv, q>>
            /\ transactions'[req'[h].made[q]].state # "free"
      <4>1. ASSUME NEW q \in Role, req'[h].made[q] # None, q # r
            PROVE  /\ origin'[req'[h].made[q]] = <<req'[h].inv, q>>
                   /\ transactions'[req'[h].made[q]].state # "free"
        <5>1. req'[h].made[q] = req[h].made[q] /\ req[h].made[q] \in Tx
          BY <1>7, <2>1, <4>1
        <5>2. req[h].made[q] # t
          BY <1>1, <1>7, <5>1, ConstantsAssumption DEF MadeSoFar
        <5>3. QED
          BY <1>4, <1>5, <1>7, <4>1, <5>1, <5>2 DEF MadeSoFar
      <4>2. /\ req'[h].made[r] = t
            /\ origin'[t] = <<req'[h].inv, r>>
            /\ transactions'[t].state # "free"
        BY <1>1, <1>4, <1>5, <2>1
      <4>3. QED
        BY <4>1, <4>2
    <3>2. Stage(h)' = "addEntry" =>
            IF req'[h].role = "income" THEN req'[h].made = Unlinked
            ELSE /\ req'[h].made["income"] # None
                 /\ req'[h].made["expense"] = None
                 /\ req'[h].seen.pph23
      BY <1>5, <1>7, <2>1, <2>2, ConstantsAssumption DEF Role, Unlinked
    <3>3. Stage(h)' = "savePaid" =>
            /\ req'[h].made["income"] # None
            /\ req'[h].made["expense"] # None <=> req'[h].seen.pph23
      BY <1>1, <1>5, <1>7, <2>1, <2>2, ConstantsAssumption DEF Role, Unlinked
    <3>4. MarkingPaid(h)'
      BY <2>2 DEF MarkingPaid
    <3>5. QED
      BY <3>1, <3>2, <3>3, <3>4 DEF MadeSoFar
  <2>4. SeenIsPast(h)'
    BY <1>3, <1>5, <1>7 DEF SeenIsPast, Current
  <2>5. QED
    BY <1>2, <1>5, <1>7, <2>2, <2>3, <2>4
    DEF RequestOK, MarkingPaid, Voiding, Writing, Stage
<1>15. QED
  BY <1>3, <1>6, <1>12, <1>13, <1>14, StepOfOne

\* What the three saves of an invoice row have in common.  The row fits its
\* status; the entries it names are its own, held by no other request; what the
\* old row named is still named or out of the ledger; h leaves nothing behind.
GoodRow(h, i, row) ==
  /\ row.link["income"] # None <=> row.status = "Paid"
  /\ row.link["expense"] # None <=> row.status = "Paid" /\ row.pph23
  /\ \A r \in Role : row.link[r] # None =>
       origin[row.link[r]] = <<i, r>> /\ transactions[row.link[r]].state # "free"
  /\ \A t \in Tx : (\E r \in Role : row.link[r] = t) =>
       t \notin stranded /\ Holders(t) \subseteq {h}
  /\ \A t \in Tx : (\E r \in Role : invoices[i].link[r] = t) =>
       (\E r \in Role : row.link[r] = t) \/ transactions[t].state # "live"
  /\ \A t \in Tx : t \in Unfinished(h) => \E r \in Role : row.link[r] = t

SaveRow(h, i, row, evt) ==
  /\ invoices' = [invoices EXCEPT ![i] = row]
  /\ req' \in [Handler -> Request]
  /\ \A g \in Handler \ {h} : req'[g] = req[g]
  /\ req'[h].pc = "writeAudit" /\ req'[h].then = "idle" /\ req'[h].log = evt
  /\ req'[h].made = Unlinked
  /\ UNCHANGED <<transactions, auditLog, origin, stranded, aborts>>

\* Saving a good row onto the table preserves Coherent.
LEMMA InvoiceSaveStep ==
  ASSUME Coherent, NEW h \in Handler, NEW i \in Invoice, NEW row \in InvoiceRow,
         NEW evt \in AuditEntry, Current(h), req[h].inv = i, GoodRow(h, i, row),
         row.ver = req[h].seen.ver + 1, row.status # "none", SaveRow(h, i, row, evt)
  PROVE  Coherent'
<1>1. req[h] \in Request /\ invoices[i] \in InvoiceRow
  BY DEF Coherent, TypeOK
<1>2. /\ \A g \in Handler \ {h} : req'[g] = req[g]
      /\ invoices'[i] = row
      /\ \A j \in Invoice \ {i} : invoices'[j] = invoices[j]
      /\ UNCHANGED <<transactions, auditLog, origin, stranded, aborts>>
  BY DEF Coherent, TypeOK, SaveRow
<1>3. /\ req'[h].pc = "writeAudit" /\ req'[h].then = "idle" /\ req'[h].log = evt
      /\ req'[h].made = Unlinked
  BY DEF SaveRow
<1>4. TypeOK'
  BY DEF Coherent, TypeOK, SaveRow
<1>5. Forward
  <2>1. invoices'[i].ver > invoices[i].ver
    BY <1>1, <1>2 DEF Current, InvoiceRow
  <2>2. QED
    BY <1>2, <2>1 DEF Forward, Coherent, TypeOK, TxRow
<1>6. \A t \in Tx : Holders(t)' = Holders(t) \ {h}
  <2>1. Unfinished(h)' = {}
    BY <1>3 DEF Unfinished, Unlinked
  <2>2. \A g \in Handler \ {h} : Unfinished(g)' = Unfinished(g)
    BY <1>2 DEF Unfinished
  <2>3. QED
    BY <2>1, <2>2 DEF Holders
<1>7. Tables'
  <2>1. PaidIffLinked'
    BY <1>2 DEF Coherent, PaidIffLinked, GoodRow
  <2>2. LinksOwnEntries'
    <3>1. SUFFICES ASSUME NEW j \in Invoice, NEW q \in Role, invoices'[j].link[q] # None
                   PROVE  origin[invoices'[j].link[q]] = <<j, q>>
      BY <1>2 DEF LinksOwnEntries
    <3>2. CASE j = i
      BY <1>2, <3>1, <3>2 DEF GoodRow
    <3>3. CASE j # i
      BY <1>2, <3>1, <3>3 DEF Coherent, LinksOwnEntries
    <3>4. QED
      BY <3>2, <3>3
  <2>3. EntryAccounted'
    <3>1. SUFFICES ASSUME NEW t \in Tx
                   PROVE  /\ transactions[t].state = "live" =>
                               IsLinked(t)' \/ t \in stranded \/ Holders(t)' # {}
                          /\ t \in stranded => ~IsLinked(t)' /\ Holders(t)' = {}
                          /\ IsLinked(t)' => Holders(t)' = {}
                          /\ \A f, g \in Holders(t)' : f = g
      BY <1>2 DEF EntryAccounted
    <3>2. IsLinked(t)' => IsLinked(t) \/ \E r \in Role : row.link[r] = t
      BY <1>2 DEF IsLinked
    <3>3. (\E r \in Role : row.link[r] = t) => IsLinked(t)'
      BY <1>2 DEF IsLinked
    <3>4. IsLinked(t) =>
            IsLinked(t)' \/ \E r \in Role : invoices[i].link[r] = t
      BY <1>2 DEF IsLinked
    <3>5. h \in Holders(t) => t \in Unfinished(h)
      BY DEF Holders
    <3>6. QED
      BY <1>6, <3>2, <3>3, <3>4, <3>5 DEF Coherent, EntryAccounted, GoodRow
  <2>4. Untouched'
    <3>1. \A t \in Tx : IsLinked(t)' => IsLinked(t) \/ \E r \in Role : row.link[r] = t
      BY <1>2 DEF IsLinked
    <3>2. \A t \in Tx : transactions[t].state = "free" => ~IsLinked(t)'
      BY <3>1, ConstantsAssumption DEF Coherent, Untouched, GoodRow
    <3>3. QED
      BY <1>2, <3>2 DEF Coherent, Untouched
  <2>5. QED
    BY <2>1, <2>2, <2>3, <2>4 DEF Tables
<1>8. RequestOK(h)'
  <2>1. MadeSoFar(h)'
    BY <1>3 DEF MadeSoFar, Stage, Unlinked
  <2>2. QED
    BY <1>3, <2>1 DEF RequestOK, MarkingPaid, Voiding, Writing, Stage
<1>9. QED
  BY <1>2, <1>4, <1>5, <1>7, <1>8, StepOfOne

\* The settlement save hands the entries over from the request to the invoice.
LEMMA SavePaidStep ==
  ASSUME Coherent, NEW h \in Handler, SavePaid(h)
  PROVE  Coherent'
<1> DEFINE i == req[h].inv
<1> DEFINE v == req[h].seen.ver + 1
<1> DEFINE row == [req[h].seen EXCEPT !.status = "Paid", !.link = req[h].made, !.ver = v]
<1> DEFINE evt == Event("Update", i, v)
<1>1. /\ req[h] \in Request /\ RequestOK(h) /\ req[h].pc = "savePaid" /\ Current(h)
      /\ req[h].seen \in InvoiceRow /\ req[h].made \in [Role -> Tx \cup {None}]
  BY DEF Coherent, TypeOK, SavePaid, SavePaidWith, Request
<1>2. /\ SeenIsPast(h) /\ MadeSoFar(h) /\ req[h].seen.link = Unlinked
      /\ req[h].made["income"] # None
      /\ req[h].made["expense"] # None <=> req[h].seen.pph23
  BY <1>1 DEF RequestOK, MarkingPaid, Stage, MadeSoFar
<1>3. i \in Invoice /\ v \in Nat /\ invoices[i] = req[h].seen
  BY <1>1, <1>2 DEF SeenIsPast, Request, InvoiceRow
<1>4. evt \in AuditEntry /\ row \in InvoiceRow
  BY <1>1, <1>3 DEF Event, AuditEntry, AuditAction, InvoiceRow, InvoiceStatus
<1>5. row.status = "Paid" /\ row.link = req[h].made /\ row.ver = v
        /\ row.pph23 = req[h].seen.pph23
  BY <1>1 DEF InvoiceRow
<1>6. \A t \in Tx : t \in Unfinished(h) <=> \E r \in Role : row.link[r] = t
  BY <1>5, UnfinishedMade
<1>7. GoodRow(h, i, row)
  <2>1. /\ row.link["income"] # None <=> row.status = "Paid"
        /\ row.link["expense"] # None <=> row.status = "Paid" /\ row.pph23
    BY <1>2, <1>5
  <2>2. \A r \in Role : row.link[r] # None =>
          origin[row.link[r]] = <<i, r>> /\ transactions[row.link[r]].state # "free"
    BY <1>2, <1>5 DEF MadeSoFar
  <2>3. \A t \in Tx : t \in Unfinished(h) => t \notin stranded /\ Holders(t) \subseteq {h}
    BY DEF Coherent, EntryAccounted, Holders
  <2>4. \A t \in Tx : ~\E r \in Role : invoices[i].link[r] = t
    BY <1>2, <1>3, ConstantsAssumption DEF Unlinked
  <2>5. QED
    BY <1>6, <2>1, <2>2, <2>3, <2>4 DEF GoodRow
<1>8. SaveRow(h, i, row, evt)
  <2>1. req' = [req EXCEPT ![h] = [req[h] EXCEPT !.pc = "writeAudit", !.log = evt,
                                                 !.made = Unlinked, !.then = "idle"]]
    BY DEF SavePaid, SavePaidWith
  <2>2. Unlinked \in [Role -> Tx \cup {None}] /\ "writeAudit" \in PC /\ "idle" \in PC
    BY DEF Unlinked, PC
  <2>3. [req[h] EXCEPT !.pc = "writeAudit", !.log = evt, !.made = Unlinked,
                       !.then = "idle"] \in Request
    BY <1>1, <1>4, <2>2 DEF Request
  <2>4. QED
    BY <1>1, <2>1, <2>3 DEF SaveRow, SavePaid, SavePaidWith, Coherent, TypeOK, Request
<1>9. QED
  BY <1>1, <1>3, <1>4, <1>5, <1>7, <1>8, InvoiceSaveStep

\* The void save drops references to entries that are all gone.
LEMMA SaveVoidStep ==
  ASSUME Coherent, NEW h \in Handler, SaveVoid(h)
  PROVE  Coherent'
<1> DEFINE i == req[h].inv
<1> DEFINE v == req[h].seen.ver + 1
<1> DEFINE row == [req[h].seen EXCEPT !.status = "Unpaid", !.link = Unlinked, !.ver = v]
<1> DEFINE evt == Event("Void", i, v)
<1>1. /\ req[h] \in Request /\ RequestOK(h) /\ req[h].pc = "saveVoid" /\ Current(h)
      /\ req[h].seen \in InvoiceRow
  BY DEF Coherent, TypeOK, SaveVoid, SaveVoidWith, Request
<1>2. SeenIsPast(h) /\ VoidSoFar(h) /\ req[h].made = Unlinked
  BY <1>1 DEF RequestOK, Voiding, MarkingPaid, Stage, MadeSoFar
<1>3. i \in Invoice /\ v \in Nat /\ invoices[i] = req[h].seen
  BY <1>1, <1>2 DEF SeenIsPast, Request, InvoiceRow
<1>4. evt \in AuditEntry /\ row \in InvoiceRow
  BY <1>1, <1>3 DEF Event, AuditEntry, AuditAction, InvoiceRow, InvoiceStatus, Unlinked
<1>5. row.status = "Unpaid" /\ row.link = Unlinked /\ row.ver = v
  BY <1>1 DEF InvoiceRow
<1>6. GoodRow(h, i, row)
  <2>1. \A r \in Role : row.link[r] = None
    BY <1>5 DEF Unlinked
  <2>2. \A r \in Role : invoices[i].link[r] # None =>
          transactions[invoices[i].link[r]].state = "gone"
    BY <1>1, <1>2, <1>3 DEF VoidSoFar, Done, Stage
  <2>3. Unfinished(h) = {}
    BY <1>1, NothingMade DEF MarkingPaid, Stage
  <2>4. QED
    BY <1>5, <2>1, <2>2, <2>3, ConstantsAssumption DEF GoodRow, Role
<1>7. SaveRow(h, i, row, evt)
  <2>1. req' = [req EXCEPT ![h] = [req[h] EXCEPT !.pc = "writeAudit", !.log = evt,
                                                 !.then = "idle"]]
    BY DEF SaveVoid, SaveVoidWith
  <2>2. "writeAudit" \in PC /\ "idle" \in PC
    BY DEF PC
  <2>3. [req[h] EXCEPT !.pc = "writeAudit", !.log = evt, !.then = "idle"] \in Request
    BY <1>1, <1>4, <2>2 DEF Request
  <2>4. QED
    BY <1>1, <1>2, <2>1, <2>3 DEF SaveRow, SaveVoid, SaveVoidWith, Coherent, TypeOK, Request
<1>8. QED
  BY <1>1, <1>3, <1>4, <1>5, <1>6, <1>7, InvoiceSaveStep

\* The delete save removes a row that names no entry.
LEMMA RemoveInvoiceStep ==
  ASSUME Coherent, NEW h \in Handler, RemoveInvoice(h)
  PROVE  Coherent'
<1> DEFINE i == req[h].inv
<1> DEFINE v == req[h].seen.ver + 1
<1> DEFINE row == [invoices[i] EXCEPT !.status = "deleted", !.ver = v]
<1> DEFINE evt == Event("Delete", i, v)
<1>1. /\ req[h] \in Request /\ RequestOK(h) /\ req[h].pc = "removeInvoice" /\ Current(h)
      /\ req[h].seen \in InvoiceRow
  BY DEF Coherent, TypeOK, RemoveInvoice, Request
<1>2. SeenIsPast(h) /\ req[h].seen.status = "Unpaid" /\ req[h].made = Unlinked
  BY <1>1 DEF RequestOK, MarkingPaid, Stage, MadeSoFar
<1>3. i \in Invoice /\ v \in Nat /\ invoices[i] = req[h].seen
  BY <1>1, <1>2 DEF SeenIsPast, Request, InvoiceRow
<1>4. evt \in AuditEntry /\ row \in InvoiceRow
  BY <1>1, <1>3 DEF Event, AuditEntry, AuditAction, InvoiceRow, InvoiceStatus
<1>5. row.status = "deleted" /\ row.link = invoices[i].link /\ row.ver = v
  BY <1>1, <1>3 DEF InvoiceRow
<1>6. \A r \in Role : invoices[i].link[r] = None
  BY <1>2, <1>3 DEF Coherent, PaidIffLinked, Role
<1>7. GoodRow(h, i, row)
  <2>1. Unfinished(h) = {}
    BY <1>1, NothingMade DEF MarkingPaid, Stage
  <2>2. QED
    BY <1>5, <1>6, <2>1, ConstantsAssumption DEF GoodRow, Role
<1>8. SaveRow(h, i, row, evt)
  <2>1. req' = [req EXCEPT ![h] = [req[h] EXCEPT !.pc = "writeAudit", !.log = evt]]
    BY DEF RemoveInvoice
  <2>2. "writeAudit" \in PC /\ req[h].then = "idle"
    BY <1>1 DEF PC, RequestOK
  <2>3. [req[h] EXCEPT !.pc = "writeAudit", !.log = evt] \in Request
    BY <1>1, <1>4, <2>2 DEF Request
  <2>4. invoices' = [invoices EXCEPT ![i] = row]
    BY DEF RemoveInvoice
  <2>5. req' = [req EXCEPT ![h] = [req[h] EXCEPT !.pc = "writeAudit", !.log = evt,
                                                 !.made = Unlinked, !.then = "idle"]]
    <3>1. [req[h] EXCEPT !.pc = "writeAudit", !.log = evt]
            = [req[h] EXCEPT !.pc = "writeAudit", !.log = evt, !.made = Unlinked,
                             !.then = "idle"]
      BY <1>1, <1>2, <2>2 DEF Request
    <3>2. QED
      BY <2>1, <3>1
  <2>6. req' \in [Handler -> Request]
    BY <2>1, <2>3 DEF Coherent, TypeOK
  <2>7. UNCHANGED <<transactions, auditLog, origin, stranded, aborts>>
    BY DEF RemoveInvoice
  <2>8. QED
    BY <1>1, <1>2, <2>1, <2>2, <2>3, <2>4, <2>6, <2>7
    DEF SaveRow, Coherent, TypeOK, Request
<1>9. QED
  BY <1>1, <1>3, <1>4, <1>5, <1>7, <1>8, InvoiceSaveStep

\* Writing one ledger entry that is there leaves every table conjunct as it was.
LEMMA EntrySaveTables ==
  ASSUME Coherent, NEW t \in Tx, transactions[t].state = "live",
         transactions'[t].state # "free",
         \A u \in Tx \ {t} : transactions'[u] = transactions[u],
         UNCHANGED <<invoices, origin, stranded>>,
         \A u : Holders(u)' = Holders(u) /\ IsLinked(u)' = IsLinked(u)
  PROVE  Tables'
<1>1. PaidIffLinked' /\ LinksOwnEntries'
  BY DEF Coherent, PaidIffLinked, LinksOwnEntries
<1>2. EntryAccounted'
  <2>1. SUFFICES ASSUME NEW u \in Tx
                 PROVE  /\ transactions'[u].state = "live" =>
                              IsLinked(u) \/ u \in stranded \/ Holders(u) # {}
                        /\ u \in stranded => ~IsLinked(u) /\ Holders(u) = {}
                        /\ IsLinked(u) => Holders(u) = {}
                        /\ \A g, h \in Holders(u) : g = h
    BY Zenon DEF EntryAccounted
  <2>2. transactions'[u].state = "live" => transactions[u].state = "live"
    OBVIOUS
  <2>3. QED
    BY <2>2 DEF Coherent, EntryAccounted
<1>3. Untouched'
  <2>1. \A u \in Tx : transactions'[u].state = "free" =>
                        ~IsLinked(u) /\ u \notin stranded
    BY DEF Coherent, Untouched
  <2>2. \A i \in Invoice : invoices'[i].status = "none" => invoices'[i] = NoInvoice
    BY DEF Coherent, Untouched
  <2>3. QED
    BY <2>1, <2>2 DEF Untouched
<1>4. QED
  BY <1>1, <1>2, <1>3 DEF Tables

\* Writing one ledger entry: the tables about the other rows are untouched, and
\* an entry that leaves the ledger was live.
LEMMA EditEntryStep ==
  ASSUME Coherent, NEW h \in Handler, EditEntry(h)
  PROVE  Coherent'
<1> DEFINE t == req[h].tx
<1> DEFINE v == req[h].txVer + 1
<1> DEFINE evt == Event("Update", t, v)
<1>1. /\ req[h] \in Request /\ RequestOK(h) /\ req[h].pc = "editEntry" /\ CurrentTx(h)
  BY DEF Coherent, TypeOK, EditEntry
<1>2. /\ t \in Tx /\ v \in Nat /\ transactions[t].state = "live"
      /\ transactions[t] \in TxRow /\ transactions[t].ver = req[h].txVer
      /\ req[h].then = "idle" /\ req[h].made = Unlinked
  BY <1>1 DEF RequestOK, Writing, Request, CurrentTx, Coherent, TypeOK, MadeSoFar,
     MarkingPaid, Stage
<1>3. evt \in AuditEntry
  BY <1>2 DEF Event, AuditEntry, AuditAction
<1>4. /\ req'[h] = [req[h] EXCEPT !.pc = "writeAudit", !.log = evt]
      /\ \A g \in Handler \ {h} : req'[g] = req[g]
      /\ transactions'[t] = [transactions[t] EXCEPT !.ver = v]
      /\ \A u \in Tx \ {t} : transactions'[u] = transactions[u]
      /\ UNCHANGED <<invoices, auditLog, origin, stranded, aborts>>
  BY <1>2 DEF EditEntry, Coherent, TypeOK
<1>5. transactions'[t].state = "live" /\ transactions'[t].ver = v
  BY <1>2, <1>4 DEF TxRow
<1>6. /\ req'[h].pc = "writeAudit" /\ req'[h].then = "idle" /\ req'[h].log = evt
      /\ req'[h].made = Unlinked
  BY <1>1, <1>2, <1>4 DEF Request
<1>7. TypeOK'
  <2>1. req'[h] \in Request
    BY <1>1, <1>3, <1>4 DEF Request, PC
  <2>2. req' \in [Handler -> Request]
    BY <2>1 DEF EditEntry, Coherent, TypeOK
  <2>3. transactions' \in [Tx -> TxRow]
    BY <1>2 DEF EditEntry, Coherent, TypeOK, TxRow
  <2>4. QED
    BY <1>4, <2>2, <2>3 DEF Coherent, TypeOK
<1>8. \A u : Holders(u)' = Holders(u) /\ IsLinked(u)' = IsLinked(u)
  BY <1>2, <1>4, <1>6, HoldersSame, LinkedSame
<1>9. Tables'
  BY <1>2, <1>4, <1>5, <1>8, EntrySaveTables
<1>10. Forward
  BY <1>2, <1>4, <1>5 DEF Forward, Coherent, TypeOK, TxRow
<1>11. RequestOK(h)'
  <2>1. MadeSoFar(h)'
    BY <1>6 DEF MadeSoFar, Stage, Unlinked
  <2>2. QED
    BY <1>3, <1>6, <2>1 DEF RequestOK, MarkingPaid, Voiding, Writing, Stage
<1>12. QED
  BY <1>4, <1>7, <1>9, <1>10, <1>11, StepOfOne

\* An entry leaves the ledger, by a manager's request or by a Void.
LEMMA RemoveEntryStep ==
  ASSUME Coherent, NEW h \in Handler, RemoveEntry(h)
  PROVE  Coherent'
<1> DEFINE t == req[h].tx
<1> DEFINE v == req[h].txVer + 1
<1> DEFINE row == [state |-> "gone", ver |-> v]
<1> DEFINE evt == Event("Delete", t, v)
<1>1. /\ req[h] \in Request /\ RequestOK(h) /\ req[h].pc = "removeEntry" /\ CurrentTx(h)
  BY DEF Coherent, TypeOK, RemoveEntry
<1>2. /\ t \in Tx /\ v \in Nat /\ transactions[t].state = "live"
      /\ transactions[t] \in TxRow /\ transactions[t].ver = req[h].txVer
      /\ req[h].then \in {"idle", "findEntry", "saveVoid"}
  BY <1>1 DEF RequestOK, Writing, Request, CurrentTx, Coherent, TypeOK
<1>3. evt \in AuditEntry /\ row \in TxRow
  BY <1>2 DEF Event, AuditEntry, AuditAction, TxRow
<1>4. /\ req'[h] = [req[h] EXCEPT !.pc = "writeAudit", !.log = evt, !.tx = None,
                                  !.txVer = 0]
      /\ \A g \in Handler \ {h} : req'[g] = req[g]
      /\ transactions'[t] = row
      /\ \A u \in Tx \ {t} : transactions'[u] = transactions[u]
      /\ UNCHANGED <<invoices, auditLog, origin, stranded, aborts>>
  BY <1>2 DEF RemoveEntry, Coherent, TypeOK
<1>5. req[h].made = Unlinked
  BY <1>1, <1>2 DEF RequestOK, MadeSoFar, MarkingPaid, Stage
<1>6. /\ req'[h].pc = "writeAudit" /\ req'[h].then = req[h].then /\ req'[h].log = evt
      /\ req'[h].made = Unlinked /\ req'[h].role = req[h].role
      /\ req'[h].inv = req[h].inv /\ req'[h].seen = req[h].seen
  BY <1>1, <1>4, <1>5 DEF Request
<1>7. TypeOK'
  <2>1. req'[h] \in Request
    <3>1. "writeAudit" \in PC /\ 0 \in Nat /\ None \in Tx \cup {None}
      BY DEF PC
    <3>2. evt \in AuditEntry \cup {None}
      BY <1>3
    <3>3. QED
      BY <1>1, <1>4, <3>1, <3>2 DEF Request
  <2>2. req' \in [Handler -> Request]
    BY <2>1 DEF RemoveEntry, Coherent, TypeOK
  <2>3. transactions' \in [Tx -> TxRow]
    BY <1>2, <1>3 DEF RemoveEntry, Coherent, TypeOK
  <2>4. QED
    BY <1>4, <2>2, <2>3 DEF Coherent, TypeOK
<1>8. \A u : Holders(u)' = Holders(u) /\ IsLinked(u)' = IsLinked(u)
  BY <1>4, <1>5, <1>6, HoldersSame, LinkedSame
<1>9. Tables'
  <2>1. transactions'[t].state # "free"
    BY <1>4
  <2>2. QED
    BY <1>2, <1>4, <1>8, <2>1, EntrySaveTables
<1>10. Forward
  BY <1>2, <1>4 DEF Forward, Coherent, TypeOK, TxRow
<1>11. RequestOK(h)'
  <2>1. Stage(h)' = req[h].then
    BY <1>6 DEF Stage
  <2>2. MadeSoFar(h)'
    BY <1>2, <1>6, <2>1 DEF MadeSoFar, Unlinked
  <2>3. CASE req[h].then = "idle"
    BY <1>3, <1>6, <2>1, <2>2, <2>3 DEF RequestOK, MarkingPaid, Voiding, Writing
  <2>4. CASE req[h].then # "idle"
    <3>1. /\ SeenIsPast(h) /\ VoidSoFar(h) /\ req[h].role = "expense"
          /\ t = req[h].seen.link[IF req[h].then = "saveVoid" THEN "expense" ELSE "income"]
      BY <1>1, <2>4 DEF RequestOK, Voiding, VoidSoFar
    <3>2. SeenIsPast(h)'
      BY <1>4, <1>6, <3>1 DEF SeenIsPast, Current
    <3>3. \A u \in Tx : /\ transactions[u].state # "free" => transactions'[u].state # "free"
                        /\ transactions[u].state = "gone" => transactions'[u].state = "gone"
      BY <1>2, <1>4
    <3>4. req[h].seen.link \in [Role -> Tx \cup {None}]
      BY <1>1 DEF Request, InvoiceRow
    <3>5. Done(h) = IF req[h].then = "saveVoid" THEN {"income"} ELSE {}
      BY <1>1 DEF Done
    <3>6. Done(h)' = IF req[h].then = "saveVoid" THEN Role ELSE {"income"}
      BY <1>2, <1>6, <2>1, <2>4, <3>1 DEF Done
    <3>7. \A r \in Done(h)' : req[h].seen.link[r] # None =>
            transactions'[req[h].seen.link[r]].state = "gone"
      BY <1>4, <3>1, <3>3, <3>4, <3>5, <3>6 DEF VoidSoFar, Role
    <3>8. VoidSoFar(h)'
      <4>1. \A r \in Role : req[h].seen.link[r] # None =>
              transactions'[req[h].seen.link[r]].state # "free"
        BY <3>1, <3>3, <3>4 DEF VoidSoFar
      <4>2. req[h].seen.status = "Paid"
        BY <3>1 DEF VoidSoFar
      <4>3. QED
        BY <1>6, <3>7, <4>1, <4>2 DEF VoidSoFar
    <3>9. QED
      BY <1>2, <1>3, <1>6, <2>1, <2>2, <2>4, <3>1, <3>2, <3>8
      DEF RequestOK, MarkingPaid, Voiding, Writing
  <2>5. QED
    BY <2>3, <2>4
<1>12. QED
  BY <1>4, <1>7, <1>9, <1>10, <1>11, StepOfOne

-----------------------------------------------------------------------------
(* The theorems.                                                            *)

\* Before any request the tables are empty and nobody remembers anything.
LEMMA InitCoherent == Init => Coherent
<1>1. SUFFICES ASSUME Init PROVE Coherent
  OBVIOUS
<1>2. TypeOK
  <2>1. req \in [Handler -> Request] /\ invoices \in [Invoice -> InvoiceRow]
          /\ transactions \in [Tx -> TxRow]
    BY <1>1, IdleType DEF Init
  <2>2. origin \in [Tx -> (Invoice \cup {None}) \X Role]
    BY <1>1 DEF Init, Role
  <2>3. aborts \in 0 .. MaxAborts
    BY <1>1, ConstantsAssumption DEF Init
  <2>4. QED
    BY <1>1, <2>1, <2>2, <2>3 DEF TypeOK, Init
<1>3. \A i \in Invoice, r \in Role : invoices[i].link[r] = None
  BY <1>1 DEF Init, NoInvoice, Unlinked
<1>4. \A i \in Invoice : invoices[i].status = "none"
  BY <1>1 DEF Init, NoInvoice
<1>5. PaidIffLinked /\ LinksOwnEntries
  BY <1>3, <1>4 DEF PaidIffLinked, LinksOwnEntries, Role
<1>6. \A h \in Handler : req[h] = Idle /\ Unfinished(h) = {}
  BY <1>1 DEF Init, Unfinished, Idle, Unlinked
<1>7. \A t \in Tx : ~IsLinked(t) /\ transactions[t].state = "free" /\ t \notin stranded
  BY <1>1, <1>3, ConstantsAssumption DEF IsLinked, Init, NoTx
<1>8. EntryAccounted /\ Untouched
  BY <1>1, <1>6, <1>7 DEF EntryAccounted, Untouched, Holders, Init
<1>9. ASSUME NEW h \in Handler PROVE RequestOK(h)
  <2>1. /\ req[h].pc = "idle" /\ req[h].then = "idle" /\ req[h].made = Unlinked
        /\ Stage(h) = "idle"
    BY <1>6 DEF Idle, Stage
  <2>2. MadeSoFar(h)
    BY <2>1 DEF MadeSoFar, MarkingPaid, Unlinked
  <2>3. QED
    BY <2>1, <2>2 DEF RequestOK, MarkingPaid, Voiding, Writing
<1>10. QED
  BY <1>2, <1>5, <1>8, <1>9 DEF Coherent

\* Every step of every request preserves Coherent.
LEMMA NextCoherent == Coherent /\ [Next]_vars => Coherent'
<1>1. SUFFICES ASSUME Coherent, [Next]_vars PROVE Coherent'
  OBVIOUS
<1>2. CASE UNCHANGED vars
  <2>1. \A h \in Handler : RequestOK(h)' = RequestOK(h)
    BY <1>2 DEF vars, RequestOK, MadeSoFar, MarkingPaid, Voiding, Writing, VoidSoFar,
       SeenIsPast, Stage, Done, Current, CurrentTx
  <2>2. Tables'
    BY <1>1, <1>2, TablesIdle DEF vars
  <2>3. QED
    BY <1>1, <1>2, <2>1, <2>2 DEF vars, Coherent, Tables, TypeOK
<1>3. CASE Next
  <2>1. PICK h \in Handler :
          \/ WriteAudit(h) \/ StaleSave(h) \/ Abort(h)
          \/ \E i \in Invoice, taxed \in BOOLEAN : CreateInvoice(h, i, taxed)
          \/ \E i \in Invoice : BeginMarkPaid(h, i) \/ BeginVoid(h, i) \/ BeginDelete(h, i)
          \/ \E t \in Tx : AddEntry(h, t)
          \/ SavePaid(h) \/ FindEntry(h) \/ SkipEntry(h) \/ SaveVoid(h) \/ RemoveInvoice(h)
          \/ \E t \in Tx, what \in {"removeEntry", "editEntry"} : BeginEntryWrite(h, t, what)
          \/ EditEntry(h) \/ RemoveEntry(h)
    BY <1>3 DEF Next
  <2>2. CASE WriteAudit(h)
    BY <1>1, <2>2, WriteAuditStep
  <2>3. CASE StaleSave(h) \/ Abort(h)
    BY <1>1, <2>3, StaleSaveStep, AbortStep
  <2>4. CASE \E i \in Invoice, taxed \in BOOLEAN : CreateInvoice(h, i, taxed)
    BY <1>1, <2>4, CreateInvoiceStep
  <2>5. CASE \E i \in Invoice : BeginMarkPaid(h, i) \/ BeginVoid(h, i) \/ BeginDelete(h, i)
    BY <1>1, <2>5, BeginMarkPaidStep, BeginVoidStep, BeginDeleteStep
  <2>6. CASE \E t \in Tx : AddEntry(h, t)
    BY <1>1, <2>6, AddEntryStep
  <2>7. CASE SavePaid(h) \/ SaveVoid(h) \/ RemoveInvoice(h)
    BY <1>1, <2>7, SavePaidStep, SaveVoidStep, RemoveInvoiceStep
  <2>8. CASE FindEntry(h) \/ SkipEntry(h)
    BY <1>1, <2>8, FindEntryStep, SkipEntryStep
  <2>9. CASE \E t \in Tx, what \in {"removeEntry", "editEntry"} : BeginEntryWrite(h, t, what)
    BY <1>1, <2>9, BeginEntryWriteStep
  <2>10. CASE EditEntry(h) \/ RemoveEntry(h)
    BY <1>1, <2>10, EditEntryStep, RemoveEntryStep
  <2>11. QED
    BY <2>1, <2>2, <2>3, <2>4, <2>5, <2>6, <2>7, <2>8, <2>9, <2>10
<1>4. QED
  BY <1>1, <1>2, <1>3

(* Coherent holds throughout every run of the API, however many requests    *)
(* interleave between their saves and however many are cut off.              *)
THEOREM CoherentHolds == Spec => []Coherent
<1>1. QED
  BY InitCoherent, NextCoherent, PTL DEF Spec

(* Type correctness of the tables and of what requests remember.             *)
THEOREM TypeCorrect == Spec => []TypeOK
<1>1. Coherent => TypeOK
  BY DEF Coherent
<1>2. QED
  BY <1>1, CoherentHolds, PTL

(* No interleaving of MarkPaid, Void and Delete, nor a request cut off       *)
(* between its saves, leaves an invoice half settled.                        *)
THEOREM NeverHalfSettled == Spec => []PaidIffLinked
<1>1. Coherent => PaidIffLinked
  BY DEF Coherent
<1>2. QED
  BY <1>1, CoherentHolds, PTL

(* Settlements racing on any invoices never cross their entries.             *)
THEOREM NeverCrossed == Spec => []LinksOwnEntries
<1>1. Coherent => LinksOwnEntries
  BY DEF Coherent
<1>2. QED
  BY <1>1, CoherentHolds, PTL

(* Every live entry is linked, held by one MarkPaid, or stranded by one that *)
(* ended early, and never two of these.                                      *)
THEOREM EveryEntryAccounted == Spec => []EntryAccounted
<1>1. Coherent => EntryAccounted
  BY DEF Coherent
<1>2. QED
  BY <1>1, CoherentHolds, PTL

-----------------------------------------------------------------------------
(* What a step may do to one invoice row: the four saves, each with what the *)
(* request knew when it made it.                                             *)

Opened(i) ==
  /\ invoices[i] = NoInvoice
  /\ \E taxed \in BOOLEAN : invoices' = [invoices EXCEPT
       ![i] = [status |-> "Unpaid", pph23 |-> taxed, link |-> Unlinked, ver |-> 1]]

SettledWith(i, link) ==
  /\ invoices[i].status = "Unpaid" /\ invoices[i].link = Unlinked
  /\ link \in [Role -> Tx \cup {None}]
  /\ link["income"] # None
  /\ link["expense"] # None <=> invoices[i].pph23
  /\ \A r \in Role : link[r] # None => origin[link[r]] = <<i, r>>
  /\ invoices' = [invoices EXCEPT ![i] = [invoices[i] EXCEPT
       !.status = "Paid", !.link = link, !.ver = invoices[i].ver + 1]]

Reopened(i) ==
  /\ invoices[i].status = "Paid"
  /\ \A r \in Role : invoices[i].link[r] # None =>
       transactions[invoices[i].link[r]].state = "gone"
  /\ invoices' = [invoices EXCEPT ![i] = [invoices[i] EXCEPT
       !.status = "Unpaid", !.link = Unlinked, !.ver = invoices[i].ver + 1]]

Removed(i) ==
  /\ invoices[i].status = "Unpaid"
  /\ invoices' = [invoices EXCEPT ![i] = [invoices[i] EXCEPT
       !.status = "deleted", !.ver = invoices[i].ver + 1]]

InvoiceSaved(i) ==
  /\ UNCHANGED transactions
  /\ \/ Opened(i) \/ Reopened(i) \/ Removed(i)
     \/ \E link \in [Role -> Tx \cup {None}] : SettledWith(i, link)

\* The settlement save writes onto the row the request loaded, still current.
LEMMA SavePaidSaves ==
  ASSUME Coherent, NEW h \in Handler, SavePaid(h)
  PROVE  req[h].inv \in Invoice /\ InvoiceSaved(req[h].inv)
<1> DEFINE i == req[h].inv
<1>1. /\ req[h] \in Request /\ RequestOK(h) /\ req[h].pc = "savePaid" /\ Current(h)
  BY DEF Coherent, TypeOK, SavePaid, SavePaidWith
<1>2. SeenIsPast(h) /\ MadeSoFar(h) /\ req[h].seen.status = "Unpaid"
        /\ req[h].seen.link = Unlinked
  BY <1>1 DEF RequestOK, MarkingPaid, Stage
<1>3. i \in Invoice /\ invoices[i] = req[h].seen
  BY <1>1, <1>2 DEF SeenIsPast, Request
<1>4. req[h].made \in [Role -> Tx \cup {None}]
  BY <1>1 DEF Request
<1>5. SettledWith(i, req[h].made)
  BY <1>1, <1>2, <1>3, <1>4 DEF SettledWith, SavePaid, SavePaidWith, MadeSoFar, Stage
<1>6. QED
  BY <1>3, <1>4, <1>5 DEF InvoiceSaved, SavePaid, SavePaidWith

\* The void save is made only after both references have been dealt with.
LEMMA SaveVoidSaves ==
  ASSUME Coherent, NEW h \in Handler, SaveVoid(h)
  PROVE  req[h].inv \in Invoice /\ InvoiceSaved(req[h].inv)
<1> DEFINE i == req[h].inv
<1>1. /\ req[h] \in Request /\ RequestOK(h) /\ req[h].pc = "saveVoid" /\ Current(h)
  BY DEF Coherent, TypeOK, SaveVoid, SaveVoidWith
<1>2. SeenIsPast(h) /\ VoidSoFar(h)
  BY <1>1 DEF RequestOK, Voiding, Stage
<1>3. i \in Invoice /\ invoices[i] = req[h].seen
  BY <1>1, <1>2 DEF SeenIsPast, Request
<1>4. Done(h) = Role
  BY <1>1 DEF Done, Stage
<1>5. Reopened(i)
  BY <1>1, <1>2, <1>3, <1>4 DEF Reopened, SaveVoid, SaveVoidWith, VoidSoFar
<1>6. QED
  BY <1>3, <1>5 DEF InvoiceSaved, SaveVoid, SaveVoidWith

\* The delete save is made only on a row that is still Unpaid.
LEMMA RemoveInvoiceSaves ==
  ASSUME Coherent, NEW h \in Handler, RemoveInvoice(h)
  PROVE  req[h].inv \in Invoice /\ InvoiceSaved(req[h].inv)
<1> DEFINE i == req[h].inv
<1>1. /\ req[h] \in Request /\ RequestOK(h) /\ req[h].pc = "removeInvoice" /\ Current(h)
  BY DEF Coherent, TypeOK, RemoveInvoice
<1>2. SeenIsPast(h) /\ req[h].seen.status = "Unpaid"
  BY <1>1 DEF RequestOK, Stage
<1>3. i \in Invoice /\ invoices[i] = req[h].seen /\ invoices \in [Invoice -> InvoiceRow]
  BY <1>1, <1>2 DEF SeenIsPast, Request, Coherent, TypeOK
<1>4. invoices' = [invoices EXCEPT ![i] = [invoices[i] EXCEPT
         !.status = "deleted", !.ver = invoices[i].ver + 1]]
  BY <1>3 DEF RemoveInvoice
<1>5. Removed(i)
  BY <1>2, <1>3, <1>4 DEF Removed
<1>6. QED
  BY <1>3, <1>5 DEF InvoiceSaved, RemoveInvoice

\* A step saves one invoice row, or lets at most one live entry leave the ledger.
LEMMA StepOfTables ==
  ASSUME Coherent, [Next]_vars
  PROVE  \/ \E i \in Invoice : InvoiceSaved(i)
         \/ /\ UNCHANGED invoices
            /\ \/ \A t \in Tx : transactions'[t].state = "gone"
                                 <=> transactions[t].state = "gone"
               \/ \E t \in Tx : /\ transactions[t].state # "gone"
                                /\ \A u \in Tx : transactions'[u].state = "gone"
                                     <=> transactions[u].state = "gone" \/ u = t
<1>1. CASE UNCHANGED vars
  BY <1>1 DEF vars
<1>2. ASSUME NEW h \in Handler, NEW i \in Invoice, NEW taxed \in BOOLEAN,
             CreateInvoice(h, i, taxed)
      PROVE  InvoiceSaved(i)
  <2>1. invoices[i] = NoInvoice
    BY <1>2 DEF CreateInvoice, Coherent, Untouched
  <2>2. QED
    BY <1>2, <2>1 DEF CreateInvoice, InvoiceSaved, Opened
<1>3. ASSUME NEW h \in Handler, NEW t \in Tx, AddEntry(h, t)
      PROVE  /\ UNCHANGED invoices
             /\ \A u \in Tx : transactions'[u].state = "gone"
                              <=> transactions[u].state = "gone"
  BY <1>3 DEF AddEntry, Coherent, TypeOK
<1>4. ASSUME NEW h \in Handler, EditEntry(h)
      PROVE  /\ UNCHANGED invoices
             /\ \A u \in Tx : transactions'[u].state = "gone"
                              <=> transactions[u].state = "gone"
  <2>1. transactions \in [Tx -> TxRow]
    BY DEF Coherent, TypeOK
  <2>2. req[h].tx \in Tx => transactions[req[h].tx] \in TxRow
    BY <2>1
  <2>3. \A u \in Tx : transactions'[u].state = transactions[u].state
    BY <1>4, <2>1, <2>2 DEF EditEntry, TxRow
  <2>4. QED
    BY <1>4, <2>3 DEF EditEntry
<1>5. ASSUME NEW h \in Handler, RemoveEntry(h)
      PROVE  /\ UNCHANGED invoices
             /\ \E t \in Tx : /\ transactions[t].state # "gone"
                             /\ \A u \in Tx : transactions'[u].state = "gone"
                                  <=> transactions[u].state = "gone" \/ u = t
  <2> DEFINE t == req[h].tx
  <2>1. req[h] \in Request /\ RequestOK(h) /\ req[h].pc = "removeEntry" /\ CurrentTx(h)
    BY <1>5 DEF Coherent, TypeOK, RemoveEntry
  <2>2. t \in Tx /\ transactions[t].state = "live"
    BY <2>1 DEF RequestOK, Writing, Request
  <2>3. /\ transactions'[t].state = "gone"
        /\ \A u \in Tx \ {t} : transactions'[u] = transactions[u]
    BY <1>5, <2>2 DEF RemoveEntry, Coherent, TypeOK
  <2>4. QED
    BY <1>5, <2>2, <2>3 DEF RemoveEntry
<1>6. ASSUME NEW h \in Handler,
             \/ WriteAudit(h) \/ StaleSave(h) \/ Abort(h) \/ FindEntry(h) \/ SkipEntry(h)
             \/ \E i \in Invoice : BeginMarkPaid(h, i) \/ BeginVoid(h, i) \/ BeginDelete(h, i)
             \/ \E t \in Tx, what \in {"removeEntry", "editEntry"} : BeginEntryWrite(h, t, what)
      PROVE  UNCHANGED <<invoices, transactions>>
  BY <1>6 DEF WriteAudit, StaleSave, Abort, FindEntry, SkipEntry, BeginMarkPaid, BeginVoid,
     BeginDelete, BeginEntryWrite
<1>7. CASE Next
  <2>1. PICK h \in Handler :
          \/ WriteAudit(h) \/ StaleSave(h) \/ Abort(h)
          \/ \E i \in Invoice, taxed \in BOOLEAN : CreateInvoice(h, i, taxed)
          \/ \E i \in Invoice : BeginMarkPaid(h, i) \/ BeginVoid(h, i) \/ BeginDelete(h, i)
          \/ \E t \in Tx : AddEntry(h, t)
          \/ SavePaid(h) \/ FindEntry(h) \/ SkipEntry(h) \/ SaveVoid(h) \/ RemoveInvoice(h)
          \/ \E t \in Tx, what \in {"removeEntry", "editEntry"} : BeginEntryWrite(h, t, what)
          \/ EditEntry(h) \/ RemoveEntry(h)
    BY <1>7 DEF Next
  <2>2. CASE \E i \in Invoice, taxed \in BOOLEAN : CreateInvoice(h, i, taxed)
    BY <2>2, <1>2
  <2>3. CASE SavePaid(h) \/ SaveVoid(h) \/ RemoveInvoice(h)
    BY <2>3, SavePaidSaves, SaveVoidSaves, RemoveInvoiceSaves
  <2>4. CASE \E t \in Tx : AddEntry(h, t)
    BY <2>4, <1>3
  <2>5. CASE EditEntry(h)
    BY <2>5, <1>4
  <2>6. CASE RemoveEntry(h)
    BY <2>6, <1>5
  <2>7. QED
    BY <2>1, <2>2, <2>3, <2>4, <2>5, <2>6, <1>6
<1>8. QED
  BY <1>1, <1>7

(* An invoice returns to Unpaid only when its entries have left the ledger.  *)
THEOREM ReopensClean == Spec => ReopenedWithoutEntries
<1>1. ASSUME Coherent, [Next]_vars, NEW i \in Invoice,
             invoices[i].status = "Paid", invoices'[i].status = "Unpaid",
             NEW r \in Role, invoices[i].link[r] # None
      PROVE  transactions[invoices[i].link[r]].state = "gone"
  <2>1. PICK j \in Invoice : InvoiceSaved(j)
    BY <1>1, StepOfTables
  <2>2. invoices \in [Invoice -> InvoiceRow] /\ invoices[i] \in InvoiceRow
    BY <1>1 DEF Coherent, TypeOK
  <2>3. i = j
    BY <1>1, <2>1, <2>2 DEF InvoiceSaved, Opened, SettledWith, Reopened, Removed
  <2>4. Reopened(i)
    <3>1. Opened(i) => invoices[i].status = "none"
      BY DEF Opened, NoInvoice
    <3>2. Removed(i) => invoices[i].status = "Unpaid"
      BY DEF Removed
    <3>3. ASSUME NEW link, SettledWith(i, link) PROVE invoices[i].status = "Unpaid"
      BY <3>3 DEF SettledWith
    <3>4. QED
      BY <1>1, <2>1, <2>3, <3>1, <3>2, <3>3 DEF InvoiceSaved
  <2>5. QED
    BY <1>1, <2>4 DEF Reopened
<1>2. Coherent /\ [Next]_vars =>
        [\A i \in Invoice :
           invoices[i].status = "Paid" /\ invoices'[i].status = "Unpaid" =>
             \A r \in Role : invoices[i].link[r] # None =>
               transactions[invoices[i].link[r]].state = "gone"]_vars
  BY <1>1
<1>3. QED
  BY <1>2, CoherentHolds, PTL DEF Spec, ReopenedWithoutEntries

(* A settled invoice is never deleted.                                       *)
THEOREM PaidIsKept == Spec => PaidNeverDeleted
<1>1. ASSUME Coherent, [Next]_vars, NEW i \in Invoice,
             invoices'[i].status = "deleted", invoices[i].status # "deleted"
      PROVE  invoices[i].status = "Unpaid"
  <2>1. PICK j \in Invoice : InvoiceSaved(j)
    BY <1>1, StepOfTables
  <2>2. invoices \in [Invoice -> InvoiceRow] /\ invoices[i] \in InvoiceRow
    BY <1>1 DEF Coherent, TypeOK
  <2>3. i = j
    BY <1>1, <2>1, <2>2 DEF InvoiceSaved, Opened, SettledWith, Reopened, Removed
  <2>4. Removed(i)
    <3>1. Opened(i) => invoices'[i].status = "Unpaid"
      BY <2>2 DEF Opened
    <3>2. Reopened(i) => invoices'[i].status = "Unpaid"
      BY <2>2 DEF Reopened, InvoiceRow
    <3>3. ASSUME NEW link, SettledWith(i, link) PROVE invoices'[i].status = "Paid"
      BY <2>2, <3>3 DEF SettledWith, InvoiceRow
    <3>4. QED
      BY <1>1, <2>1, <2>3, <3>1, <3>2, <3>3 DEF InvoiceSaved
  <2>5. QED
    BY <2>4 DEF Removed
<1>2. Coherent /\ [Next]_vars =>
        [\A i \in Invoice :
           invoices'[i].status = "deleted" /\ invoices[i].status # "deleted" =>
             invoices[i].status = "Unpaid"]_vars
  BY <1>1
<1>3. QED
  BY <1>2, CoherentHolds, PTL DEF Spec, PaidNeverDeleted

-----------------------------------------------------------------------------
(* The audit trail.  Every save raises one row by one version and leaves the *)
(* request with the entry that names that version; every other step leaves   *)
(* the versions alone and neither adds nor, unless it cuts a request off,    *)
(* drops an entry.                                                           *)

\* Entries of the trail, written or due, have the type of one.
LEMMA EntriesTyped ==
  ASSUME TypeOK
  PROVE  Entries \subseteq AuditEntry
BY DEF TypeOK, Entries, Pending, Request

\* What is pending, spelled out.
LEMMA PendingMember ==
  ASSUME NEW e
  PROVE  e \in Pending <=> e # None /\ \E g \in Handler : req[g].log = e
BY DEF Pending

\* Versions depend on the tables alone, and are numbers.
LEMMA VersionIsNat ==
  ASSUME TypeOK, NEW x \in Invoice \cup Tx
  PROVE  Version(x) \in Nat
BY DEF TypeOK, Version, InvoiceRow, TxRow

\* A step that touches no version, adds no entry, and drops one only by an abort.
LEMMA TrailStays ==
  ASSUME Coherent, Trail, UNCHANGED <<invoices, transactions>>,
         Entries' \subseteq Entries,
         aborts' = 0 => aborts = 0 /\ Entries \subseteq Entries',
         LogsOnlyDue'
  PROVE  Trail'
<1>1. \A x : Version(x)' = Version(x)
  BY DEF Version
<1>2. NamesPast'
  BY <1>1 DEF Trail, NamesPast
<1>3. NamesOnce'
  BY DEF Trail, NamesOnce
<1>4. FreeUnwritten'
  BY DEF Trail, FreeUnwritten
<1>5. LoggedUnlessCut'
  <2>1. SUFFICES ASSUME aborts' = 0 PROVE EveryWriteLogged'
    BY DEF LoggedUnlessCut
  <2>2. EveryWriteLogged
    BY <2>1 DEF Trail, LoggedUnlessCut
  <2>3. Entries' = Entries
    BY <2>1
  <2>4. QED
    BY <1>1, <2>2, <2>3 DEF EveryWriteLogged, Entries
<1>6. QED
  BY <1>2, <1>3, <1>4, <1>5 DEF Trail

\* A request that only reads.
LEMMA TrailQuiet ==
  ASSUME Coherent, Trail, NEW h \in Handler,
         UNCHANGED <<invoices, transactions, auditLog, aborts>>,
         req[h].pc # "writeAudit", req'[h].pc # "writeAudit", req'[h].log = req[h].log,
         \A g \in Handler \ {h} : req'[g] = req[g]
  PROVE  Trail'
<1>1. \A g \in Handler : req'[g].log = req[g].log
  OBVIOUS
<1>2. Entries' = Entries
  <2>1. \A e : e \in Pending' <=> e \in Pending
    BY <1>1 DEF Pending
  <2>2. QED
    BY <2>1 DEF Entries
<1>3. LogsOnlyDue'
  BY DEF Trail, LogsOnlyDue
<1>4. QED
  BY <1>2, <1>3, TrailStays

\* A request that saves a row: one version more, and the entry that names it.
LEMMA TrailGrows ==
  ASSUME Coherent, Trail, NEW h \in Handler, NEW x \in Invoice \cup Tx,
         NEW a \in AuditAction, UNCHANGED <<auditLog, aborts>>,
         Version(x)' = Version(x) + 1,
         \A y \in (Invoice \cup Tx) \ {x} : Version(y)' = Version(y),
         req[h].pc # "writeAudit", req'[h].pc = "writeAudit",
         req'[h].log = Event(a, x, Version(x) + 1),
         \A g \in Handler \ {h} : req'[g] = req[g],
         FreeUnwritten'
  PROVE  Trail'
<1> DEFINE new == Event(a, x, Version(x) + 1)
<1>1. new.id = x /\ new.ver = Version(x) + 1 /\ new \in AuditEntry /\ new # None
  <2>1. Version(x) + 1 \in Nat
    BY VersionIsNat DEF Coherent
  <2>2. new \in AuditEntry /\ new.id = x /\ new.ver = Version(x) + 1
    BY <2>1 DEF Event, AuditEntry
  <2>3. req'[h].log \in AuditEntry
    BY <2>2
  <2>4. QED
    BY <2>2, NullIsNoEntry
<1>2. Entries' = Entries \cup {new}
  <2>1. req[h].log = None
    BY DEF Trail, LogsOnlyDue
  <2>2. ASSUME NEW e PROVE e \in Pending' <=> e \in Pending \/ e = new
    BY <1>1, <2>1 DEF Pending
  <2>3. QED
    BY <2>2 DEF Entries
<1> HIDE DEF new
<1>3. Entries \subseteq AuditEntry
  BY EntriesTyped DEF Coherent
<1>4. NamesPast'
  <2>1. SUFFICES ASSUME NEW e \in Entries' PROVE e.ver \in 1 .. Version(e.id)'
    BY DEF NamesPast
  <2>2. CASE e = new
    BY <1>1, <2>2, VersionIsNat DEF Coherent
  <2>3. CASE e # new
    <3>1. e \in Entries /\ e.id \in Invoice \cup Tx /\ e.ver \in 1 .. Version(e.id)
      BY <1>2, <1>3, <2>3 DEF Trail, NamesPast, AuditEntry
    <3>2. Version(e.id) \in Nat /\ Version(x) \in Nat
      BY <3>1, VersionIsNat DEF Coherent
    <3>3. Version(e.id)' = Version(e.id) \/ Version(e.id)' = Version(e.id) + 1
      BY <3>1
    <3>4. QED
      BY <3>1, <3>2, <3>3
  <2>4. QED
    BY <2>2, <2>3
<1>5. NamesOnce'
  <2>1. ASSUME NEW e \in Entries, e.id = new.id PROVE e.ver # new.ver
    <3>1. e.ver \in 1 .. Version(x)
      BY <1>1, <2>1 DEF Trail, NamesPast
    <3>2. Version(x) \in Nat
      BY VersionIsNat DEF Coherent
    <3>3. QED
      BY <1>1, <3>1, <3>2
  <2>2. QED
    BY <1>2, <2>1 DEF Trail, NamesOnce
<1>6. LogsOnlyDue'
  BY DEF Trail, LogsOnlyDue
<1>7. LoggedUnlessCut'
  <2>1. SUFFICES ASSUME aborts = 0, NEW y \in Invoice \cup Tx, NEW v \in 1 .. Version(y)'
                 PROVE  \E e \in Entries' : e.id = y /\ e.ver = v
    BY DEF LoggedUnlessCut, EveryWriteLogged, Entries
  <2>2. \A z \in Invoice \cup Tx : \A w \in 1 .. Version(z) :
          \E e \in Entries : e.id = z /\ e.ver = w
    BY <2>1 DEF Trail, LoggedUnlessCut, EveryWriteLogged, Entries
  <2>3. CASE v \in 1 .. Version(y)
    BY <1>2, <2>2, <2>3
  <2>4. CASE v \notin 1 .. Version(y)
    <3>1. Version(y) \in Nat
      BY VersionIsNat DEF Coherent
    <3>2. y = x /\ v = Version(x) + 1
      BY <2>1, <2>4, <3>1
    <3>3. QED
      BY <1>1, <1>2, <3>2
  <2>5. QED
    BY <2>3, <2>4
<1>8. QED
  BY <1>4, <1>5, <1>6, <1>7 DEF Trail

\* The same for a save of an invoice row, and of a ledger entry.
LEMMA TrailOfInvoice ==
  ASSUME Coherent, Trail, NEW h \in Handler, NEW i \in Invoice,
         NEW a \in AuditAction, NEW row, UNCHANGED <<transactions, auditLog, aborts>>,
         invoices' = [invoices EXCEPT ![i] = row],
         row.ver = invoices[i].ver + 1,
         req[h].pc # "writeAudit", req'[h].pc = "writeAudit",
         req'[h].log = Event(a, i, row.ver),
         \A g \in Handler \ {h} : req'[g] = req[g]
  PROVE  Trail'
<1>1. invoices \in [Invoice -> InvoiceRow]
  BY DEF Coherent, TypeOK
<1>2. Version(i) = invoices[i].ver /\ Version(i)' = row.ver
  BY <1>1 DEF Version
<1>3. \A y \in (Invoice \cup Tx) \ {i} : Version(y)' = Version(y)
  BY <1>1 DEF Version
<1>4. FreeUnwritten'
  BY DEF Trail, FreeUnwritten
<1>5. QED
  BY <1>2, <1>3, <1>4, TrailGrows

LEMMA TrailOfEntry ==
  ASSUME Coherent, Trail, NEW h \in Handler, NEW t \in Tx,
         NEW a \in AuditAction, NEW row, UNCHANGED <<invoices, auditLog, aborts>>,
         transactions' = [transactions EXCEPT ![t] = row],
         row.ver = transactions[t].ver + 1, row.state # "free",
         req[h].pc # "writeAudit", req'[h].pc = "writeAudit",
         req'[h].log = Event(a, t, row.ver),
         \A g \in Handler \ {h} : req'[g] = req[g]
  PROVE  Trail'
<1>1. transactions \in [Tx -> TxRow] /\ t \notin Invoice
  BY DEF Coherent, TypeOK
<1>2. Version(t) = transactions[t].ver /\ Version(t)' = row.ver
  BY <1>1 DEF Version
<1>3. \A y \in (Invoice \cup Tx) \ {t} : Version(y)' = Version(y)
  BY <1>1 DEF Version
<1>4. FreeUnwritten'
  BY <1>1 DEF Trail, FreeUnwritten
<1>5. QED
  BY <1>2, <1>3, <1>4, TrailGrows

\* Writing the entry that is due moves it from the request to the table.
LEMMA TrailWriteAudit ==
  ASSUME Coherent, Trail, NEW h \in Handler, WriteAudit(h)
  PROVE  Trail'
<1>1. req[h] \in Request /\ RequestOK(h) /\ req[h].pc = "writeAudit"
  BY DEF Coherent, TypeOK, WriteAudit
<1>2. req[h].log \in AuditEntry /\ req[h].log # None
  BY <1>1, NullIsNoEntry DEF RequestOK
<1>3. /\ auditLog' = auditLog \cup {req[h].log}
      /\ UNCHANGED <<invoices, transactions, aborts>>
      /\ \A g \in Handler \ {h} : req'[g] = req[g]
      /\ req'[h] = IF req[h].then = "idle" THEN Idle
                   ELSE [req[h] EXCEPT !.pc = req[h].then, !.log = None, !.then = "idle"]
  BY DEF WriteAudit, Coherent, TypeOK
<1>4. req'[h].log = None
  BY <1>1, <1>3 DEF Idle, Request
<1>5. Entries' = Entries
  <2>1. ASSUME NEW e \in Pending PROVE e \in Pending' \cup {req[h].log}
    BY <1>3, <2>1 DEF Pending
  <2>2. ASSUME NEW e \in Pending' PROVE e \in Pending
    BY <1>3, <1>4, <2>2 DEF Pending
  <2>3. req[h].log \in Pending
    BY <1>2 DEF Pending
  <2>4. QED
    BY <1>3, <2>1, <2>2, <2>3 DEF Entries
<1>6. LogsOnlyDue'
  BY <1>3, <1>4 DEF Trail, LogsOnlyDue
<1>7. QED
  BY <1>3, <1>5, <1>6, TrailStays

\* A request that ends early drops the entry it had due, if any.
LEMMA TrailCutShort ==
  ASSUME Coherent, Trail, NEW h \in Handler, req' = [req EXCEPT ![h] = Idle],
         UNCHANGED <<invoices, transactions, auditLog>>,
         aborts' = 0 => aborts = 0 /\ req[h].pc # "writeAudit"
  PROVE  Trail'
<1>1. req'[h].log = None /\ \A g \in Handler \ {h} : req'[g] = req[g]
  BY DEF Coherent, TypeOK, Idle
<1>2. Entries' \subseteq Entries
  BY <1>1 DEF Entries, Pending
<1>3. ASSUME aborts' = 0 PROVE Entries \subseteq Entries'
  <2>1. req[h].log = None
    BY <1>3 DEF Trail, LogsOnlyDue
  <2>2. Pending \subseteq Pending'
    BY <1>1, <2>1 DEF Pending
  <2>3. QED
    BY <2>2 DEF Entries
<1>4. LogsOnlyDue'
  BY <1>1 DEF Trail, LogsOnlyDue
<1>5. QED
  BY <1>2, <1>3, <1>4, TrailStays

LEMMA TrailStaleSave ==
  ASSUME Coherent, Trail, NEW h \in Handler, StaleSave(h)
  PROVE  Trail'
BY TrailCutShort DEF StaleSave

LEMMA TrailAbort ==
  ASSUME Coherent, Trail, NEW h \in Handler, Abort(h)
  PROVE  Trail'
<1>1. aborts' # 0
  BY DEF Abort, Coherent, TypeOK
<1>2. QED
  BY <1>1, TrailCutShort DEF Abort

\* The steps that only load rows.
LEMMA TrailReads ==
  ASSUME Coherent, Trail, NEW h \in Handler,
         \/ \E i \in Invoice : BeginMarkPaid(h, i) \/ BeginVoid(h, i) \/ BeginDelete(h, i)
         \/ FindEntry(h) \/ SkipEntry(h)
         \/ \E t \in Tx, what \in {"removeEntry", "editEntry"} : BeginEntryWrite(h, t, what)
  PROVE  Trail'
<1>1. req \in [Handler -> Request] /\ req[h] \in Request
  BY DEF Coherent, TypeOK
<1>2. /\ UNCHANGED <<invoices, transactions, auditLog, aborts>>
      /\ req[h].pc # "writeAudit"
  BY DEF BeginMarkPaid, BeginVoid, BeginDelete, FindEntry, SkipEntry, BeginEntryWrite
<1>3. \A g \in Handler \ {h} : req'[g] = req[g]
  BY <1>1 DEF BeginMarkPaid, BeginVoid, BeginDelete, FindEntry, SkipEntry, BeginEntryWrite
<1>4. req'[h].pc # "writeAudit" /\ req'[h].log = req[h].log
  <2>1. ASSUME NEW i \in Invoice, BeginMarkPaid(h, i) \/ BeginVoid(h, i) \/ BeginDelete(h, i)
        PROVE  req'[h].pc # "writeAudit" /\ req'[h].log = req[h].log
    <3>1. CASE BeginMarkPaid(h, i)
      BY <1>1, <3>1 DEF BeginMarkPaid, Request
    <3>2. CASE BeginVoid(h, i)
      BY <1>1, <3>2 DEF BeginVoid, Request
    <3>3. CASE BeginDelete(h, i)
      BY <1>1, <3>3 DEF BeginDelete, Request
    <3>4. QED
      BY <2>1, <3>1, <3>2, <3>3
  <2>2. ASSUME FindEntry(h) \/ SkipEntry(h)
        PROVE  req'[h].pc # "writeAudit" /\ req'[h].log = req[h].log
    BY <1>1, <2>2 DEF FindEntry, SkipEntry, AfterRole, Request
  <2>3. ASSUME NEW t \in Tx, NEW what \in {"removeEntry", "editEntry"},
               BeginEntryWrite(h, t, what)
        PROVE  req'[h].pc # "writeAudit" /\ req'[h].log = req[h].log
    BY <1>1, <2>3 DEF BeginEntryWrite, Request
  <2>4. QED
    BY <2>1, <2>2, <2>3
<1>5. QED
  BY <1>2, <1>3, <1>4, TrailQuiet

\* A new invoice is version 1 of a row that had none.
LEMMA TrailCreateInvoice ==
  ASSUME Coherent, Trail, NEW h \in Handler, NEW i \in Invoice, NEW taxed \in BOOLEAN,
         CreateInvoice(h, i, taxed)
  PROVE  Trail'
<1> DEFINE row == [status |-> "Unpaid", pph23 |-> taxed, link |-> Unlinked, ver |-> 1]
<1>1. req \in [Handler -> Request] /\ req[h] \in Request
  BY DEF Coherent, TypeOK
<1>2. invoices[i].ver = 0 /\ row.ver = 0 + 1 /\ row.ver = 1
  BY DEF CreateInvoice, Coherent, Untouched, NoInvoice
<1>3. invoices' = [invoices EXCEPT ![i] = row] /\ UNCHANGED <<transactions, auditLog, aborts>>
  BY DEF CreateInvoice
<1> HIDE DEF row
<1>4. /\ req[h].pc # "writeAudit" /\ req'[h].pc = "writeAudit"
      /\ req'[h].log = Event("Create", i, 1)
      /\ \A g \in Handler \ {h} : req'[g] = req[g]
  BY <1>1 DEF CreateInvoice, Request
<1>5. "Create" \in AuditAction
  BY DEF AuditAction
<1>6. QED
  BY <1>2, <1>3, <1>4, <1>5, TrailOfInvoice

\* So is a new ledger entry.
LEMMA TrailAddEntry ==
  ASSUME Coherent, Trail, NEW h \in Handler, NEW t \in Tx, AddEntry(h, t)
  PROVE  Trail'
<1> DEFINE row == [state |-> "live", ver |-> 1]
<1>1. req \in [Handler -> Request] /\ req[h] \in Request
  BY DEF Coherent, TypeOK
<1>2. row.ver = 1 /\ row.ver = transactions[t].ver + 1 /\ row.state # "free"
  BY DEF AddEntry, Trail, FreeUnwritten, NoTx
<1>3. transactions' = [transactions EXCEPT ![t] = row] /\ UNCHANGED <<invoices, auditLog, aborts>>
  BY DEF AddEntry
<1> HIDE DEF row
<1>4. /\ req[h].pc # "writeAudit" /\ req'[h].pc = "writeAudit"
      /\ req'[h].log = Event("Create", t, row.ver)
      /\ \A g \in Handler \ {h} : req'[g] = req[g]
  BY <1>1, <1>2 DEF AddEntry, Request
<1>5. "Create" \in AuditAction
  BY DEF AuditAction
<1>6. QED
  BY <1>2, <1>3, <1>4, <1>5, TrailOfEntry

\* A settlement or a void saves the row it has seen, still current.
LEMMA TrailSaveInvoice ==
  ASSUME Coherent, Trail, NEW h \in Handler, SavePaid(h) \/ SaveVoid(h)
  PROVE  Trail'
<1> DEFINE i == req[h].inv
           v == req[h].seen.ver + 1
           a == IF SavePaid(h) THEN "Update" ELSE "Void"
<1>1. req \in [Handler -> Request] /\ req[h] \in Request
  BY DEF Coherent, TypeOK
<1>2. req[h].seen \in InvoiceRow /\ v = invoices[i].ver + 1
  BY <1>1 DEF SavePaid, SaveVoid, SavePaidWith, SaveVoidWith, Current, Request
<1>3. i \in Invoice
  BY SavePaidSaves, SaveVoidSaves
<1>4. PICK row : invoices' = [invoices EXCEPT ![i] = row] /\ row.ver = v
  <2>1. CASE SavePaid(h)
    <3> DEFINE new == [req[h].seen EXCEPT !.status = "Paid", !.link = req[h].made, !.ver = v]
    <3>1. new.ver = v /\ invoices' = [invoices EXCEPT ![i] = new]
      BY <1>2, <2>1 DEF SavePaid, SavePaidWith, InvoiceRow
    <3>2. QED
      BY <3>1
  <2>2. CASE SaveVoid(h)
    <3> DEFINE new == [req[h].seen EXCEPT !.status = "Unpaid", !.link = Unlinked, !.ver = v]
    <3>1. new.ver = v /\ invoices' = [invoices EXCEPT ![i] = new]
      BY <1>2, <2>2 DEF SaveVoid, SaveVoidWith, InvoiceRow
    <3>2. QED
      BY <3>1
  <2>3. QED
    BY <2>1, <2>2
<1>5. /\ req[h].pc # "writeAudit" /\ req'[h].pc = "writeAudit"
      /\ req'[h].log = Event(a, i, v)
      /\ \A g \in Handler \ {h} : req'[g] = req[g]
      /\ UNCHANGED <<transactions, auditLog, aborts>>
  <2>1. CASE SavePaid(h)
    BY <1>1, <2>1 DEF SavePaid, SavePaidWith, Request
  <2>2. CASE ~SavePaid(h)
    BY <1>1, <2>2 DEF SaveVoid, SaveVoidWith, Request
  <2>3. QED
    BY <2>1, <2>2
<1>6. a \in AuditAction
  BY DEF AuditAction
<1> HIDE DEF a, i, v
<1>7. QED
  BY <1>2, <1>3, <1>4, <1>5, <1>6, TrailOfInvoice

\* A deletion of an invoice likewise.
LEMMA TrailRemoveInvoice ==
  ASSUME Coherent, Trail, NEW h \in Handler, RemoveInvoice(h)
  PROVE  Trail'
<1> DEFINE i == req[h].inv
           v == req[h].seen.ver + 1
           row == [invoices[i] EXCEPT !.status = "deleted", !.ver = v]
<1>1. req \in [Handler -> Request] /\ req[h] \in Request
  BY DEF Coherent, TypeOK
<1>2. i \in Invoice
  BY RemoveInvoiceSaves
<1>3. invoices[i] \in InvoiceRow /\ v = invoices[i].ver + 1
  BY <1>1, <1>2 DEF RemoveInvoice, Current, Coherent, TypeOK
<1>4. row.ver = v
  BY <1>3 DEF InvoiceRow
<1>5. /\ invoices' = [invoices EXCEPT ![i] = row]
      /\ UNCHANGED <<transactions, auditLog, aborts>>
  BY <1>2 DEF RemoveInvoice, Coherent, TypeOK
<1> HIDE DEF row
<1>6. /\ req[h].pc # "writeAudit" /\ req'[h].pc = "writeAudit"
      /\ req'[h].log = Event("Delete", i, v)
      /\ \A g \in Handler \ {h} : req'[g] = req[g]
  BY <1>1 DEF RemoveInvoice, Request
<1>7. "Delete" \in AuditAction
  BY DEF AuditAction
<1>8. QED
  BY <1>2, <1>3, <1>4, <1>5, <1>6, <1>7, TrailOfInvoice

\* Edits and deletions of a ledger entry likewise.
LEMMA TrailSaveEntry ==
  ASSUME Coherent, Trail, NEW h \in Handler, EditEntry(h) \/ RemoveEntry(h)
  PROVE  Trail'
<1> DEFINE t == req[h].tx
           v == req[h].txVer + 1
           a == IF EditEntry(h) THEN "Update" ELSE "Delete"
           row == IF EditEntry(h) THEN [transactions[t] EXCEPT !.ver = v]
                  ELSE [state |-> "gone", ver |-> v]
<1>1. /\ req \in [Handler -> Request] /\ req[h] \in Request
      /\ transactions \in [Tx -> TxRow]
  BY DEF Coherent, TypeOK
<1>2. Writing(h)
  BY DEF EditEntry, RemoveEntry, Writing
<1>3. t \in Tx /\ transactions[t].state # "free"
  BY <1>1, <1>2 DEF Coherent, RequestOK, Request
<1>4. transactions[t] \in TxRow /\ v = transactions[t].ver + 1
  BY <1>1, <1>3 DEF EditEntry, RemoveEntry, CurrentTx
<1>5. row.ver = v /\ row.state # "free"
  BY <1>3, <1>4 DEF TxRow
<1>6. transactions' = [transactions EXCEPT ![t] = row]
  <2>1. CASE EditEntry(h)
    BY <1>1, <1>3, <2>1 DEF EditEntry
  <2>2. CASE ~EditEntry(h)
    BY <2>2 DEF RemoveEntry
  <2>3. QED
    BY <2>1, <2>2
<1> HIDE DEF row
<1>7. /\ req[h].pc # "writeAudit" /\ req'[h].pc = "writeAudit"
      /\ req'[h].log = Event(a, t, v)
      /\ \A g \in Handler \ {h} : req'[g] = req[g]
      /\ UNCHANGED <<invoices, auditLog, aborts>>
  <2>1. CASE EditEntry(h)
    BY <1>1, <2>1 DEF EditEntry, Request
  <2>2. CASE ~EditEntry(h)
    BY <1>1, <2>2 DEF RemoveEntry, Request
  <2>3. QED
    BY <2>1, <2>2
<1>8. a \in AuditAction
  BY DEF AuditAction
<1> HIDE DEF a, t, v
<1>9. QED
  BY <1>3, <1>4, <1>5, <1>6, <1>7, <1>8, TrailOfEntry

LEMMA InitTrail == Init => Trail
<1>1. SUFFICES ASSUME Init PROVE Trail
  OBVIOUS
<1>2. Entries = {}
  BY <1>1 DEF Init, Entries, Pending, Idle
<1>3. \A x \in Invoice \cup Tx : Version(x) = 0
  BY <1>1 DEF Init, Version, NoInvoice, NoTx
<1>4. LogsOnlyDue /\ FreeUnwritten
  BY <1>1 DEF Init, LogsOnlyDue, FreeUnwritten, Idle
<1>5. EveryWriteLogged
  BY <1>3 DEF EveryWriteLogged
<1>6. QED
  BY <1>2, <1>4, <1>5 DEF Trail, NamesPast, NamesOnce, LoggedUnlessCut

LEMMA NextTrail == Coherent /\ Trail /\ [Next]_vars => Trail'
<1>1. SUFFICES ASSUME Coherent, Trail, [Next]_vars PROVE Trail'
  OBVIOUS
<1>2. CASE UNCHANGED vars
  <2>1. Entries' = Entries /\ LogsOnlyDue'
    BY <1>1, <1>2 DEF vars, Entries, Pending, Trail, LogsOnlyDue
  <2>2. QED
    BY <1>1, <1>2, <2>1, TrailStays DEF vars
<1>3. CASE Next
  BY <1>1, <1>3, TrailWriteAudit, TrailStaleSave, TrailAbort, TrailReads, TrailCreateInvoice,
     TrailAddEntry, TrailSaveInvoice, TrailRemoveInvoice, TrailSaveEntry DEF Next
<1>4. QED
  BY <1>1, <1>2, <1>3

\* The strengthening of the invariants below, checked by TLC as one of a run.
THEOREM InductiveHolds == Spec => []Inductive
<1>1. Init => Trail
  BY InitTrail
<1>2. Coherent /\ Trail /\ [Next]_vars => Trail'
  BY NextTrail
<1>3. Spec => []Trail
  BY <1>1, <1>2, CoherentHolds, PTL DEF Spec
<1>4. Coherent /\ Trail => Inductive
  BY DEF Inductive
<1>5. QED
  BY <1>3, <1>4, CoherentHolds, PTL

(* The audit trail never names a write that did not commit, nor one twice.   *)
THEOREM TrailNeverLies == Spec => []TrailTruthful
<1>1. ASSUME Coherent, Trail PROVE TrailTruthful
  <2>1. auditLog \subseteq Entries /\ auditLog \subseteq AuditEntry
    BY <1>1 DEF Entries, Coherent, TypeOK
  <2>2. ASSUME NEW e \in auditLog PROVE e.ver <= Version(e.id)
    <3>1. e.ver \in 1 .. Version(e.id) /\ e.id \in Invoice \cup Tx
      BY <1>1, <2>1 DEF Trail, NamesPast, AuditEntry
    <3>2. Version(e.id) \in Nat
      BY <1>1, <3>1, VersionIsNat DEF Coherent
    <3>3. QED
      BY <3>1, <3>2
  <2>3. QED
    BY <1>1, <2>1, <2>2 DEF TrailTruthful, Trail, NamesOnce
<1>2. Inductive => TrailTruthful
  BY <1>1 DEF Inductive
<1>3. QED
  BY <1>2, InductiveHolds, PTL

(* While no request is cut off, every committed write has its audit entry or *)
(* a request about to write it.                                              *)
THEOREM NothingUnlogged == Spec => []LoggedUnlessCut
<1>1. Inductive => LoggedUnlessCut
  BY DEF Inductive, Trail
<1>2. QED
  BY <1>1, InductiveHolds, PTL

-----------------------------------------------------------------------------
(* The refinement: what each save of an invoice row, and each deletion of an *)
(* entry, is in SettlementLifecycle.                                         *)

Book == [i \in Invoice |-> [status |-> invoices[i].status, pph23 |-> invoices[i].pph23,
                            link |-> invoices[i].link]]
Gone == {t \in Tx : transactions[t].state = "gone"}

\* A row that is saved changes the book in one place.
LEMMA BookSaved ==
  ASSUME TypeOK, NEW i \in Invoice, NEW row,
         invoices' = [invoices EXCEPT ![i] = row]
  PROVE  Book' = [Book EXCEPT ![i] = [status |-> row.status, pph23 |-> row.pph23,
                                      link |-> row.link]]
BY DEF Book, TypeOK

BookEntry == [status: InvoiceStatus, pph23: BOOLEAN, link: [Role -> Tx \cup {None}]]

\* Updating fields of a book entry one by one.
LEMMA StatusUpdated ==
  ASSUME NEW e \in BookEntry, NEW s \in InvoiceStatus
  PROVE  [e EXCEPT !.status = s] = [status |-> s, pph23 |-> e.pph23, link |-> e.link]
BY DEF BookEntry

\* The two fields that Open sets.
LEMMA TaxedUpdated ==
  ASSUME NEW e \in BookEntry, NEW s \in InvoiceStatus, NEW p \in BOOLEAN
  PROVE  [[e EXCEPT !.status = s] EXCEPT !.pph23 = p]
           = [status |-> s, pph23 |-> p, link |-> e.link]
<1> DEFINE f == [e EXCEPT !.status = s]
<1>1. f \in BookEntry /\ f.status = s /\ f.link = e.link
  BY DEF BookEntry
<1> HIDE DEF f
<1>2. [f EXCEPT !.pph23 = p] = [status |-> s, pph23 |-> p, link |-> e.link]
  BY <1>1 DEF BookEntry
<1>3. QED
  BY <1>2 DEF f

\* The two fields that Settle and Reopen set.
LEMMA LinkUpdated ==
  ASSUME NEW e \in BookEntry, NEW s \in InvoiceStatus, NEW l \in [Role -> Tx \cup {None}]
  PROVE  [[e EXCEPT !.status = s] EXCEPT !.link = l]
           = [status |-> s, pph23 |-> e.pph23, link |-> l]
<1> DEFINE f == [e EXCEPT !.status = s]
<1>1. f \in BookEntry /\ f.status = s /\ f.pph23 = e.pph23
  BY DEF BookEntry
<1> HIDE DEF f
<1>2. [f EXCEPT !.link = l] = [status |-> s, pph23 |-> e.pph23, link |-> l]
  BY <1>1 DEF BookEntry
<1>3. QED
  BY <1>2 DEF f

\* An invoice row is a book entry once its xmin is left out.
LEMMA BookTyped ==
  ASSUME TypeOK, NEW i \in Invoice
  PROVE  /\ Book[i] \in BookEntry /\ Book[i].status = invoices[i].status
         /\ Book[i].pph23 = invoices[i].pph23 /\ Book[i].link = invoices[i].link
<1>1. invoices[i] \in InvoiceRow
  BY DEF TypeOK
<1>2. QED
  BY <1>1 DEF Book, BookEntry, InvoiceRow

\* Creating an invoice is Open.
LEMMA OpenedOpens ==
  ASSUME Coherent, NEW i \in Invoice, Opened(i), UNCHANGED Gone
  PROVE  \E taxed \in BOOLEAN : Lifecycle!Open(i, taxed)
<1>1. PICK taxed \in BOOLEAN : invoices' = [invoices EXCEPT
        ![i] = [status |-> "Unpaid", pph23 |-> taxed, link |-> Unlinked, ver |-> 1]]
  BY DEF Opened
<1>2. Book' = [Book EXCEPT ![i] = [status |-> "Unpaid", pph23 |-> taxed, link |-> Unlinked]]
  BY <1>1, BookSaved DEF Coherent
<1>3. /\ Book[i].status = "none" /\ Book[i].link = Unlinked /\ Book[i] \in BookEntry
      /\ "Unpaid" \in InvoiceStatus
  BY BookTyped DEF Coherent, Opened, NoInvoice, InvoiceStatus
<1>4. Book' = [Book EXCEPT ![i] = [[Book[i] EXCEPT !.status = "Unpaid"] EXCEPT !.pph23 = taxed]]
  <2>1. [[Book[i] EXCEPT !.status = "Unpaid"] EXCEPT !.pph23 = taxed]
          = [status |-> "Unpaid", pph23 |-> taxed, link |-> Unlinked]
    BY <1>3, TaxedUpdated
  <2>2. QED
    BY <1>2, <2>1
<1>5. QED
  BY <1>3, <1>4 DEF Lifecycle!Open, Book, Gone

\* The settlement save is Settle, with entries no other invoice names.
LEMMA SettledSettles ==
  ASSUME Coherent, NEW i \in Invoice, NEW link, SettledWith(i, link), UNCHANGED Gone
  PROVE  \E l \in [Lifecycle!Roles -> Tx \cup {None}] : Lifecycle!Settle(i, l)
<1>1. link \in [Lifecycle!Roles -> Tx \cup {None}]
  BY DEF SettledWith, Lifecycle!Roles, Role
<1>2. invoices[i] \in InvoiceRow
  BY DEF Coherent, TypeOK
<1>3. Book' = [Book EXCEPT ![i] = [status |-> "Paid", pph23 |-> invoices[i].pph23,
                                   link |-> link]]
  <2> DEFINE row == [invoices[i] EXCEPT !.status = "Paid", !.link = link,
                                        !.ver = invoices[i].ver + 1]
  <2>1. row.status = "Paid" /\ row.pph23 = invoices[i].pph23 /\ row.link = link
    BY <1>2 DEF InvoiceRow
  <2>2. invoices' = [invoices EXCEPT ![i] = row]
    BY DEF SettledWith
  <2> HIDE DEF row
  <2>3. QED
    BY <2>1, <2>2, BookSaved DEF Coherent
<1>4. /\ Book[i].status = "Unpaid" /\ Book[i].pph23 = invoices[i].pph23
      /\ Book[i].link = Unlinked /\ Book[i] \in BookEntry
      /\ "Paid" \in InvoiceStatus /\ link \in [Role -> Tx \cup {None}]
  BY BookTyped DEF Coherent, SettledWith, InvoiceStatus
<1>5. Book' = [Book EXCEPT ![i] = [[Book[i] EXCEPT !.status = "Paid"] EXCEPT !.link = link]]
  <2>1. [[Book[i] EXCEPT !.status = "Paid"] EXCEPT !.link = link]
          = [status |-> "Paid", pph23 |-> invoices[i].pph23, link |-> link]
    BY <1>4, LinkUpdated
  <2>2. QED
    BY <1>3, <2>1
<1>6. link["income"] # link["expense"]
  <2>1. SUFFICES ASSUME link["income"] = link["expense"] PROVE FALSE
    OBVIOUS
  <2>2. origin[link["income"]] = <<i, "income">> /\ origin[link["income"]] = <<i, "expense">>
    BY <2>1 DEF SettledWith, Role
  <2>3. QED
    BY <2>2
<1>7. \A r \in Role : link[r] \notin Lifecycle!NamedElsewhere(i)
  <2>1. SUFFICES ASSUME NEW r \in Role, link[r] \in Lifecycle!NamedElsewhere(i) PROVE FALSE
    OBVIOUS
  <2>2. PICK j \in Invoice \ {i}, q \in Role : link[r] = Book[j].link[q] /\ link[r] # None
    <3>1. Lifecycle!NamedElsewhere(i)
            = {Book[j].link[q] : j \in Invoice \ {i}, q \in Role} \ {None}
      BY DEF Lifecycle!NamedElsewhere, Lifecycle!Roles, Role, Book
    <3>2. QED
      BY <2>1, <3>1
  <2>3. origin[link[r]] = <<j, q>>
    BY <2>2 DEF Book, Coherent, LinksOwnEntries
  <2>4. origin[link[r]] = <<i, r>>
    BY <2>2 DEF SettledWith
  <2>5. QED
    BY <2>2, <2>3, <2>4
<1>8. Lifecycle!Settle(i, link)
  BY <1>4, <1>5, <1>6, <1>7
  DEF Lifecycle!Settle, Lifecycle!Roles, Lifecycle!NoEntries, Role, Unlinked, Book, Gone,
      SettledWith
<1>9. QED
  BY <1>1, <1>8

\* The void save is Reopen.
LEMMA ReopenedReopens ==
  ASSUME Coherent, NEW i \in Invoice, Reopened(i), UNCHANGED Gone
  PROVE  Lifecycle!Reopen(i)
<1>1. invoices[i] \in InvoiceRow
  BY DEF Coherent, TypeOK
<1>2. Book' = [Book EXCEPT ![i] = [status |-> "Unpaid", pph23 |-> invoices[i].pph23,
                                   link |-> Unlinked]]
  <2> DEFINE row == [invoices[i] EXCEPT !.status = "Unpaid", !.link = Unlinked,
                                        !.ver = invoices[i].ver + 1]
  <2>1. row.status = "Unpaid" /\ row.pph23 = invoices[i].pph23 /\ row.link = Unlinked
    BY <1>1 DEF InvoiceRow
  <2>2. invoices' = [invoices EXCEPT ![i] = row]
    BY DEF Reopened
  <2> HIDE DEF row
  <2>3. QED
    BY <2>1, <2>2, BookSaved DEF Coherent
<1>3. /\ Book[i].status = "Paid" /\ Book[i].pph23 = invoices[i].pph23
      /\ Book[i].link = invoices[i].link /\ Book[i] \in BookEntry
      /\ "Unpaid" \in InvoiceStatus /\ Unlinked \in [Role -> Tx \cup {None}]
  BY BookTyped DEF Coherent, Reopened, InvoiceStatus, Unlinked
<1>4. Book' = [Book EXCEPT ![i] = [[Book[i] EXCEPT !.status = "Unpaid"] EXCEPT !.link = Unlinked]]
  <2>1. [[Book[i] EXCEPT !.status = "Unpaid"] EXCEPT !.link = Unlinked]
          = [status |-> "Unpaid", pph23 |-> invoices[i].pph23, link |-> Unlinked]
    BY <1>3, LinkUpdated
  <2>2. QED
    BY <1>2, <2>1
<1>5. \A r \in Role : Book[i].link[r] \in Gone \cup {None}
  BY <1>1, <1>3 DEF Reopened, Gone, InvoiceRow
<1>6. QED
  BY <1>3, <1>4, <1>5
  DEF Lifecycle!Reopen, Lifecycle!Roles, Lifecycle!NoEntries, Role, Unlinked, Book, Gone

\* The delete save is Remove.
LEMMA RemovedRemoves ==
  ASSUME Coherent, NEW i \in Invoice, Removed(i), UNCHANGED Gone
  PROVE  Lifecycle!Remove(i)
<1>1. invoices[i] \in InvoiceRow
  BY DEF Coherent, TypeOK
<1>2. Book' = [Book EXCEPT ![i] = [status |-> "deleted", pph23 |-> invoices[i].pph23,
                                   link |-> invoices[i].link]]
  <2> DEFINE row == [invoices[i] EXCEPT !.status = "deleted", !.ver = invoices[i].ver + 1]
  <2>1. /\ row.status = "deleted" /\ row.pph23 = invoices[i].pph23
        /\ row.link = invoices[i].link
    BY <1>1 DEF InvoiceRow
  <2>2. invoices' = [invoices EXCEPT ![i] = row]
    BY DEF Removed
  <2> HIDE DEF row
  <2>3. QED
    BY <2>1, <2>2, BookSaved DEF Coherent
<1>3. /\ Book[i].status = "Unpaid" /\ Book[i].pph23 = invoices[i].pph23
      /\ Book[i].link = invoices[i].link /\ Book[i] \in BookEntry
      /\ "deleted" \in InvoiceStatus
  BY BookTyped DEF Coherent, Removed, InvoiceStatus
<1>4. Book' = [Book EXCEPT ![i] = [Book[i] EXCEPT !.status = "deleted"]]
  <2>1. [Book[i] EXCEPT !.status = "deleted"]
          = [status |-> "deleted", pph23 |-> invoices[i].pph23, link |-> invoices[i].link]
    BY <1>3, StatusUpdated
  <2>2. QED
    BY <1>2, <2>1
<1>5. QED
  BY <1>3, <1>4 DEF Lifecycle!Remove, Book, Gone

(* The API's interleaved, abortable requests implement the lifecycle of one- *)
(* step requests: every run of InvoiceSettlement is one of it.               *)
THEOREM Implements == Spec => ImplementsLifecycle
<1>1. Init => Lifecycle!Init
  <2>1. SUFFICES ASSUME Init PROVE Book = [i \in Invoice |->
            [status |-> "none", pph23 |-> FALSE, link |-> Unlinked]] /\ Gone = {}
    BY DEF Lifecycle!Init, Lifecycle!NoEntries, Lifecycle!Roles, Unlinked, Role, Book, Gone
  <2>2. QED
    BY <2>1 DEF Init, Book, Gone, NoInvoice, NoTx
<1>2. ASSUME Coherent, [Next]_vars PROVE [Lifecycle!Next]_<<Book, Gone>>
  <2>1. ASSUME NEW i \in Invoice, InvoiceSaved(i) PROVE Lifecycle!Next
    <3>1. UNCHANGED Gone
      BY <2>1 DEF InvoiceSaved, Gone
    <3>2. \/ \E taxed \in BOOLEAN : Lifecycle!Open(i, taxed)
          \/ \E l \in [Lifecycle!Roles -> Tx \cup {None}] : Lifecycle!Settle(i, l)
          \/ Lifecycle!Reopen(i)
          \/ Lifecycle!Remove(i)
      BY <1>2, <2>1, <3>1, OpenedOpens, SettledSettles, ReopenedReopens, RemovedRemoves
      DEF InvoiceSaved
    <3>3. QED
      BY <3>2 DEF Lifecycle!Next
  <2>2. ASSUME UNCHANGED invoices,
               \A t \in Tx : transactions'[t].state = "gone" <=> transactions[t].state = "gone"
        PROVE  UNCHANGED <<Book, Gone>>
    BY <2>2 DEF Book, Gone
  <2>3. ASSUME UNCHANGED invoices, NEW t \in Tx, transactions[t].state # "gone",
               \A u \in Tx : transactions'[u].state = "gone"
                            <=> transactions[u].state = "gone" \/ u = t
        PROVE  Lifecycle!Next
    <3>1. t \notin Gone /\ Gone' = Gone \cup {t} /\ UNCHANGED Book
      BY <2>3 DEF Book, Gone
    <3>2. Lifecycle!Withdraw(t)
      BY <3>1 DEF Lifecycle!Withdraw, Book, Gone
    <3>3. QED
      BY <3>2 DEF Lifecycle!Next
  <2>4. QED
    BY <1>2, <2>1, <2>2, <2>3, StepOfTables
<1>3. Coherent /\ [Next]_vars => [Lifecycle!Next]_<<
         [i \in Invoice |-> [status |-> invoices[i].status, pph23 |-> invoices[i].pph23,
                             link |-> invoices[i].link]],
         {t \in Tx : transactions[t].state = "gone"}>>
  BY <1>2 DEF Book, Gone
<1>4. QED
  BY <1>1, <1>3, CoherentHolds, PTL DEF Spec, ImplementsLifecycle, Lifecycle!Spec

-----------------------------------------------------------------------------
(* What it takes for an entry to become untraceable: an overlap, or a cut.   *)

\* No two requests about one invoice overlap.
Apart == \A g, h \in Handler : req[g].inv # None /\ req[g].inv = req[h].inv => g = h

(* Then, until a request is cut off, the row a MarkPaid has loaded is the row  *)
(* in the table, and no MarkPaid has ended without linking its entries.       *)
Settling == aborts = 0 => /\ stranded = {}
                          /\ \A h \in Handler : MarkingPaid(h) => Current(h)

\* A step of another request leaves the invoice alone that a MarkPaid has loaded.
LEMMA OthersApart ==
  ASSUME Coherent, Apart, NEW g \in Handler, NEW h \in Handler, g # h,
         MarkingPaid(g), Current(g), req'[g] = req[g],
         \/ UNCHANGED invoices
         \/ \E i \in Invoice, taxed \in BOOLEAN : CreateInvoice(h, i, taxed)
         \/ SavePaid(h) \/ SaveVoid(h) \/ RemoveInvoice(h)
  PROVE  Current(g)'
<1> DEFINE i == req[g].inv
<1>1. /\ i \in Invoice /\ invoices[i] = req[g].seen /\ req[g].seen.status = "Unpaid"
      /\ req[g].inv # None
  BY DEF Coherent, RequestOK, SeenIsPast, TypeOK, Request
<1>2. req[h].inv # i
  BY <1>1 DEF Apart
<1>3. invoices'[i] = invoices[i]
  <2>1. CASE \E x \in Invoice, taxed \in BOOLEAN : CreateInvoice(h, x, taxed)
    BY <1>1, <2>1 DEF CreateInvoice, Coherent, TypeOK
  <2>2. CASE SavePaid(h) \/ SaveVoid(h) \/ RemoveInvoice(h)
    BY <1>1, <1>2, <2>2
    DEF SavePaid, SavePaidWith, SaveVoid, SaveVoidWith, RemoveInvoice, Coherent, TypeOK
  <2>3. QED
    BY <2>1, <2>2
<1>4. QED
  BY <1>3 DEF Current

\* A request's own step: MarkPaid goes on with the row it has loaded.
LEMMA OwnApart ==
  ASSUME Coherent, NEW h \in Handler, MarkingPaid(h) => Current(h),
         \/ WriteAudit(h) \/ StaleSave(h)
         \/ \E i \in Invoice, taxed \in BOOLEAN : CreateInvoice(h, i, taxed)
         \/ \E i \in Invoice : BeginMarkPaid(h, i) \/ BeginVoid(h, i) \/ BeginDelete(h, i)
         \/ \E t \in Tx : AddEntry(h, t)
         \/ SavePaid(h) \/ FindEntry(h) \/ SkipEntry(h) \/ SaveVoid(h) \/ RemoveInvoice(h)
         \/ \E t \in Tx, what \in {"removeEntry", "editEntry"} : BeginEntryWrite(h, t, what)
         \/ EditEntry(h) \/ RemoveEntry(h)
  PROVE  MarkingPaid(h)' => Current(h)'
<1>1. req[h] \in Request /\ req \in [Handler -> Request] /\ RequestOK(h)
  BY DEF Coherent, TypeOK
<1>2. CASE WriteAudit(h)
  <2>1. CASE req[h].then = "idle"
    BY <1>1, <1>2, <2>1 DEF WriteAudit, MarkingPaid, Stage, Idle
  <2>2. CASE req[h].then # "idle"
    <3> DEFINE r == [req[h] EXCEPT !.pc = req[h].then, !.log = None, !.then = "idle"]
    <3>1. req'[h] = r /\ req[h].pc = "writeAudit"
      BY <1>1, <1>2, <2>2 DEF WriteAudit
    <3>2. /\ r.pc = req[h].then /\ r.then = "idle" /\ r.inv = req[h].inv
          /\ r.seen = req[h].seen
      BY <1>1 DEF Request
    <3>3. req[h].then # "writeAudit"
      BY <1>1, <3>1 DEF RequestOK
    <3>4. UNCHANGED invoices
      BY <1>2 DEF WriteAudit
    <3> HIDE DEF r
    <3>5. MarkingPaid(h)' => MarkingPaid(h)
      BY <3>1, <3>2, <3>3 DEF MarkingPaid, Stage
    <3>6. QED
      BY <3>1, <3>2, <3>4, <3>5 DEF Current
  <2>3. QED
    BY <2>1, <2>2
<1>3. CASE StaleSave(h)
  BY <1>1, <1>3 DEF StaleSave, MarkingPaid, Stage, Idle
<1>4. ASSUME NEW i \in Invoice, BeginMarkPaid(h, i)
      PROVE  Current(h)'
  <2>1. req'[h].inv = i /\ req'[h].seen = invoices[i] /\ UNCHANGED invoices
    BY <1>1, <1>4 DEF BeginMarkPaid, Request
  <2>2. QED
    BY <2>1 DEF Current
<1>5. ASSUME NEW t \in Tx, AddEntry(h, t)
      PROVE  Current(h)'
  <2>1. MarkingPaid(h)
    BY <1>5 DEF AddEntry, MarkingPaid, Stage
  <2>2. req'[h].inv = req[h].inv /\ req'[h].seen = req[h].seen /\ UNCHANGED invoices
    BY <1>1, <1>5 DEF AddEntry, Request
  <2>3. QED
    BY <2>1, <2>2 DEF Current
<1>6. ASSUME NEW i \in Invoice, BeginVoid(h, i) \/ BeginDelete(h, i)
      PROVE  ~MarkingPaid(h)'
  <2>1. req'[h].pc \in {"findEntry", "removeInvoice"}
    <3>1. CASE BeginVoid(h, i)
      <4>1. req'[h].pc = "findEntry"
        BY <1>1, <3>1 DEF BeginVoid, Request
      <4>2. QED
        BY <4>1
    <3>2. CASE BeginDelete(h, i)
      <4>1. req'[h].pc = "removeInvoice"
        BY <1>1, <3>2 DEF BeginDelete, Request
      <4>2. QED
        BY <4>1
    <3>3. QED
      BY <1>6, <3>1, <3>2
  <2>2. QED
    BY <2>1 DEF MarkingPaid, Stage
<1>7. ASSUME NEW i \in Invoice, NEW taxed \in BOOLEAN, CreateInvoice(h, i, taxed)
      PROVE  ~MarkingPaid(h)'
  <2>1. req[h].then = "idle"
    BY <1>1, <1>7 DEF RequestOK, CreateInvoice
  <2>2. req'[h].pc = "writeAudit" /\ req'[h].then = "idle"
    BY <1>1, <1>7, <2>1 DEF CreateInvoice, Request
  <2>3. QED
    BY <2>2 DEF MarkingPaid, Stage
<1>8. CASE SavePaid(h) \/ SaveVoid(h)
  <2>1. req'[h].pc = "writeAudit" /\ req'[h].then = "idle"
    BY <1>1, <1>8 DEF SavePaid, SavePaidWith, SaveVoid, SaveVoidWith, Request
  <2>2. QED
    BY <2>1 DEF MarkingPaid, Stage
<1>9. CASE RemoveInvoice(h) \/ EditEntry(h)
  <2>1. req[h].then = "idle"
    BY <1>1, <1>9 DEF RequestOK, RemoveInvoice, EditEntry
  <2>2. req'[h].pc = "writeAudit" /\ req'[h].then = "idle"
    BY <1>1, <1>9, <2>1 DEF RemoveInvoice, EditEntry, Request
  <2>3. QED
    BY <2>2 DEF MarkingPaid, Stage
<1>10. CASE RemoveEntry(h)
  <2>1. req[h].then \in {"idle", "findEntry", "saveVoid"}
    BY <1>1, <1>10 DEF RequestOK, RemoveEntry
  <2>2. req'[h].pc = "writeAudit" /\ req'[h].then = req[h].then
    BY <1>1, <1>10 DEF RemoveEntry, Request
  <2>3. QED
    BY <2>1, <2>2 DEF MarkingPaid, Stage
<1>11. CASE FindEntry(h) \/ SkipEntry(h)
  <2>1. req'[h].pc \in {"removeEntry", "findEntry", "saveVoid"}
    BY <1>1, <1>11 DEF FindEntry, SkipEntry, AfterRole, Request
  <2>2. QED
    BY <2>1 DEF MarkingPaid, Stage
<1>12. ASSUME NEW t \in Tx, NEW what \in {"removeEntry", "editEntry"},
              BeginEntryWrite(h, t, what)
       PROVE  ~MarkingPaid(h)'
  <2>1. req'[h].pc = what
    BY <1>1, <1>12 DEF BeginEntryWrite, Request
  <2>2. QED
    BY <2>1 DEF MarkingPaid, Stage
<1>13. QED
  BY <1>2, <1>3, <1>4, <1>5, <1>6, <1>7, <1>8, <1>9, <1>10, <1>11, <1>12

\* Settling is kept as long as requests about one invoice do not overlap.
LEMMA NextSettling ==
  ASSUME Coherent, Apart, Settling, [Next]_vars
  PROVE  Settling'
<1>1. CASE UNCHANGED vars
  BY <1>1 DEF vars, Settling, MarkingPaid, Stage, Current
<1>2. CASE Next
  <2>1. PICK h \in Handler :
          \/ WriteAudit(h) \/ StaleSave(h) \/ Abort(h)
          \/ \E i \in Invoice, taxed \in BOOLEAN : CreateInvoice(h, i, taxed)
          \/ \E i \in Invoice : BeginMarkPaid(h, i) \/ BeginVoid(h, i) \/ BeginDelete(h, i)
          \/ \E t \in Tx : AddEntry(h, t)
          \/ SavePaid(h) \/ FindEntry(h) \/ SkipEntry(h) \/ SaveVoid(h) \/ RemoveInvoice(h)
          \/ \E t \in Tx, what \in {"removeEntry", "editEntry"} : BeginEntryWrite(h, t, what)
          \/ EditEntry(h) \/ RemoveEntry(h)
    BY <1>2 DEF Next
  <2>2. CASE Abort(h)
    BY <2>2 DEF Abort, Settling, Coherent, TypeOK
  <2>3. CASE ~Abort(h)
    <3>1. SUFFICES ASSUME aborts' = 0
                   PROVE  stranded' = {} /\ \A g \in Handler : MarkingPaid(g)' => Current(g)'
      BY DEF Settling
    <3>2. /\ aborts' = aborts
          /\ \A g \in Handler \ {h} : req'[g] = req[g]
          /\ stranded' = stranded \/ StaleSave(h)
          /\ \/ UNCHANGED invoices
             \/ \E i \in Invoice, taxed \in BOOLEAN : CreateInvoice(h, i, taxed)
             \/ SavePaid(h) \/ SaveVoid(h) \/ RemoveInvoice(h)
      <4>1. CASE WriteAudit(h) \/ StaleSave(h)
        BY <4>1 DEF WriteAudit, StaleSave, Coherent, TypeOK
      <4>2. CASE \E i \in Invoice, taxed \in BOOLEAN : CreateInvoice(h, i, taxed)
        BY <4>2 DEF CreateInvoice, Coherent, TypeOK
      <4>3. CASE \E i \in Invoice : BeginMarkPaid(h, i) \/ BeginVoid(h, i) \/ BeginDelete(h, i)
        BY <4>3 DEF BeginMarkPaid, BeginVoid, BeginDelete, Coherent, TypeOK
      <4>4. CASE \E t \in Tx : AddEntry(h, t)
        BY <4>4 DEF AddEntry, Coherent, TypeOK
      <4>5. CASE SavePaid(h) \/ SaveVoid(h) \/ RemoveInvoice(h)
        BY <4>5 DEF SavePaid, SavePaidWith, SaveVoid, SaveVoidWith, RemoveInvoice, Coherent,
           TypeOK
      <4>6. CASE FindEntry(h) \/ SkipEntry(h) \/ EditEntry(h) \/ RemoveEntry(h)
        BY <4>6 DEF FindEntry, SkipEntry, EditEntry, RemoveEntry, Coherent, TypeOK
      <4>7. CASE \E t \in Tx, what \in {"removeEntry", "editEntry"} :
                   BeginEntryWrite(h, t, what)
        BY <4>7 DEF BeginEntryWrite, Coherent, TypeOK
      <4>8. QED
        BY <2>1, <2>3, <4>1, <4>2, <4>3, <4>4, <4>5, <4>6, <4>7
    <3>3. /\ stranded = {}
          /\ \A g \in Handler : MarkingPaid(g) => Current(g)
      BY <3>1, <3>2 DEF Settling
    <3>4. MarkingPaid(h)' => Current(h)'
      BY <2>1, <2>3, <3>3, OwnApart
    <3>5. ASSUME NEW g \in Handler \ {h}, MarkingPaid(g)' PROVE Current(g)'
      <4>1. MarkingPaid(g) /\ req'[g] = req[g]
        BY <3>2, <3>5 DEF MarkingPaid, Stage
      <4>2. QED
        BY <3>2, <3>3, <4>1, OthersApart
    <3>6. stranded' = {}
      <4>1. CASE StaleSave(h)
        <5>1. ~MarkingPaid(h)
          BY <3>3, <4>1 DEF StaleSave, MarkingPaid, Stage
        <5>2. QED
          BY <3>3, <4>1, <5>1, NothingMade DEF StaleSave
      <4>2. QED
        BY <3>2, <3>3, <4>1
    <3>7. QED
      BY <3>4, <3>5, <3>6
  <2>4. QED
    BY <2>2, <2>3
<1>3. QED
  BY <1>1, <1>2

(* What the comment in InvoiceService.DeleteAsync takes for granted holds as  *)
(* long as no two requests about one invoice overlap and none is cut off: in  *)
(* between, every entry in the ledger is named by a Paid invoice.  The run    *)
(* double_settlement shows that an overlap is enough to break it.            *)
THEOREM ApartIsTraceable ==
  Spec /\ []Apart => [](aborts = 0 => NoUntraceableEntry)
<1>1. Init => Settling
  BY DEF Init, Settling, MarkingPaid, Stage, Idle
<1>2. Coherent /\ Apart /\ Settling /\ [Next]_vars => Settling'
  BY NextSettling
<1>3. ASSUME Coherent, Settling, aborts = 0 PROVE NoUntraceableEntry
  <2>1. SUFFICES ASSUME Quiet, NEW t \in Tx, transactions[t].state = "live"
                 PROVE  \E i \in Invoice, r \in Role :
                          invoices[i].status = "Paid" /\ invoices[i].link[r] = t
    BY DEF NoUntraceableEntry
  <2>2. \A h \in Handler : Unfinished(h) = {}
    <3>1. \A h \in Handler : ~MarkingPaid(h)
      BY <2>1 DEF Quiet, MarkingPaid, Stage
    <3>2. QED
      BY <1>3, <3>1, NothingMade
  <2>3. IsLinked(t)
    BY <1>3, <2>1, <2>2 DEF Settling, Coherent, EntryAccounted, Holders
  <2>4. PICK i \in Invoice, r \in Role : invoices[i].link[r] = t
    BY <2>3 DEF IsLinked
  <2>5. invoices[i].status = "Paid"
    BY <1>3, <2>4 DEF Coherent, PaidIffLinked, Role, ConstantsAssumption
  <2>6. QED
    BY <2>4, <2>5
<1>4. QED
  BY <1>1, <1>2, <1>3, CoherentHolds, PTL DEF Spec
=============================================================================
