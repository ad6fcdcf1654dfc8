-------------------------- MODULE PettyCashProofs --------------------------
(***************************************************************************)
(* Theorems about PettyCash for every set of users, petty cash requests,   *)
(* ledger entries and handlers, and every bound.  Rows move forward only:  *)
(* what a request loaded stays in the past of its row while it waits, and  *)
(* is the present if the versions agree.                                   *)
(***************************************************************************)
EXTENDS PettyCash, TLAPS

USE ConstantsAssumption

(* What a step may do to the tables, as seen by a request that does not move. *)
Forward ==
  /\ \A p \in Petty : \/ petty'[p] = petty[p]
                      \/ petty'[p].ver > petty[p].ver /\ petty'[p].status # "none"
  /\ \A t \in Tx : entries[t].state # "free" =>
       /\ funded'[t] = funded[t]
       /\ \/ entries'[t] = entries[t]
          \/ entries'[t].ver > entries[t].ver /\ entries'[t].state # "free"

\* A request that does not move keeps its knowledge while the tables move forward.
LEMMA Bystander ==
  ASSUME TypeOK, TypeOK', Forward, NEW g \in Handler, RequestOK(g), req'[g] = req[g]
  PROVE  RequestOK(g)'
<1>1. req[g] \in Request /\ req[g].ver \in Nat
  BY DEF TypeOK, Request
<1>2. Stage(g)' = Stage(g)
  BY DEF Stage
<1>3. Stage(g) \in Deciding =>
        /\ petty'[req[g].p].status # "none" /\ req[g].ver <= petty'[req[g].p].ver
        /\ CurrentPetty(g)' => petty'[req[g].p].status \in Loadable(Stage(g))
  <2>1. SUFFICES ASSUME Stage(g) \in Deciding
                 PROVE  /\ petty'[req[g].p].status # "none"
                        /\ req[g].ver <= petty'[req[g].p].ver
                        /\ CurrentPetty(g)' => petty'[req[g].p].status \in Loadable(Stage(g))
    OBVIOUS
  <2> DEFINE p == req[g].p
  <2>2. /\ p \in Petty /\ petty[p].status # "none" /\ req[g].ver <= petty[p].ver
        /\ petty[p].ver = req[g].ver => petty[p].status \in Loadable(Stage(g))
    BY <2>1 DEF RequestOK, CurrentPetty
  <2>3. petty[p].ver \in Nat /\ petty'[p].ver \in Nat
    BY <2>2 DEF TypeOK, PettyRow
  <2>4. \/ petty'[p] = petty[p]
        \/ petty'[p].ver > petty[p].ver /\ petty'[p].status # "none"
    BY <2>2 DEF Forward
  <2>5. CurrentPetty(g)' <=> petty'[p].ver = req[g].ver
    BY DEF CurrentPetty
  <2>6. QED
    BY <1>1, <2>2, <2>3, <2>4, <2>5
<1>4. req[g].made # None => /\ funded'[req[g].made] = req[g].p
                            /\ entries'[req[g].made].state # "free"
  <2>1. SUFFICES ASSUME req[g].made # None
                 PROVE  /\ funded'[req[g].made] = req[g].p
                        /\ entries'[req[g].made].state # "free"
    OBVIOUS
  <2>2. /\ req[g].made \in Tx /\ funded[req[g].made] = req[g].p
        /\ entries[req[g].made].state # "free"
    BY <1>1, <2>1 DEF RequestOK, Request
  <2>3. QED
    BY <2>2 DEF Forward
<1>5. req[g].pc \in Expensing \cup SavesEntry /\ req[g].t # None =>
        /\ entries'[req[g].t].state # "free" /\ req[g].ver <= entries'[req[g].t].ver
        /\ CurrentEntry(g)' =>
             /\ entries'[req[g].t].state = "live"
             /\ req[g].actor # Manager => entries'[req[g].t].status # "Approved"
  <2>1. SUFFICES ASSUME req[g].pc \in Expensing \cup SavesEntry, req[g].t # None
                 PROVE  /\ entries'[req[g].t].state # "free"
                        /\ req[g].ver <= entries'[req[g].t].ver
                        /\ CurrentEntry(g)' =>
                             /\ entries'[req[g].t].state = "live"
                             /\ req[g].actor # Manager => entries'[req[g].t].status # "Approved"
    OBVIOUS
  <2> DEFINE t == req[g].t
  <2>2. /\ t \in Tx /\ entries[t].state # "free" /\ req[g].ver <= entries[t].ver
        /\ entries[t].ver = req[g].ver =>
             /\ entries[t].state = "live"
             /\ req[g].actor # Manager => entries[t].status # "Approved"
    BY <1>1, <2>1 DEF RequestOK, Request, CurrentEntry
  <2>3. entries[t].ver \in Nat /\ entries'[t].ver \in Nat
    BY <2>2 DEF TypeOK, EntryRow
  <2>4. \/ entries'[t] = entries[t]
        \/ entries'[t].ver > entries[t].ver /\ entries'[t].state # "free"
    BY <2>2 DEF Forward
  <2>5. CurrentEntry(g)' <=> entries'[t].ver = req[g].ver
    BY DEF CurrentEntry
  <2>6. QED
    BY <1>1, <2>2, <2>3, <2>4, <2>5
<1>6. QED
  BY <1>2, <1>3, <1>4, <1>5 DEF RequestOK

-----------------------------------------------------------------------------
(* The conjuncts of Inductive that speak of the tables and of who holds what. *)
Tables == Untouched /\ ApprovedNamesOwnFunding /\ FundingAccounted

\* A step of h preserves Inductive when it keeps the types, moves the tables
\* forward, keeps the table conjuncts, and leaves h knowing what it must.
LEMMA StepOfOne ==
  ASSUME Inductive, TypeOK', Forward, Tables', NEW h \in Handler, RequestOK(h)',
         \A g \in Handler \ {h} : req'[g] = req[g]
  PROVE  Inductive'
<1>1. ASSUME NEW g \in Handler PROVE RequestOK(g)'
  <2>1. CASE g = h
    BY <2>1
  <2>2. CASE g # h
    BY <2>2, Bystander DEF Inductive
  <2>3. QED
    BY <2>1, <2>2
<1>2. QED
  BY <1>1 DEF Inductive, Tables

\* The values a request and a row start from have their types.
LEMMA IdleType == Idle \in Request /\ NoPetty \in PettyRow /\ NoEntry \in EntryRow
BY DEF Idle, Request, PC, NoPetty, PettyRow, NoEntry, EntryRow, Status, Kind

\* A request that starts is blank.
LEMMA Blank ==
  ASSUME Inductive, NEW h \in Handler, req[h].pc = "idle"
  PROVE  req[h] = Idle /\ req[h].made = None
BY DEF Inductive, RequestOK, Idle

\* A request that has nothing left to do, or only an audit entry to write,
\* needs to know nothing.
LEMMA IdleOK ==
  ASSUME NEW h \in Handler, req'[h] = Idle
  PROVE  RequestOK(h)'
BY DEF RequestOK, Idle, Stage, Deciding, SavesPetty, SavesEntry, Expensing
LEMMA SavedOK ==
  ASSUME NEW h \in Handler, NEW event \in AuditEntry,
         req'[h] = [Idle EXCEPT !.pc = "writeAudit", !.log = event]
  PROVE  RequestOK(h)'
BY DEF RequestOK, Idle, Stage, Deciding, SavesPetty, SavesEntry, Expensing
LEMMA SavedType ==
  ASSUME NEW event \in AuditEntry
  PROVE  /\ [Idle EXCEPT !.pc = "writeAudit", !.log = event] \in Request
         /\ [Idle EXCEPT !.pc = "writeAudit", !.log = event].made = None
BY DEF Idle, Request, PC

\* A step of h that touches no table and holds what it held preserves Inductive.
LEMMA Reading ==
  ASSUME Inductive, NEW h \in Handler, NEW r \in Request, req' = [req EXCEPT ![h] = r],
         UNCHANGED <<petty, entries, funded, stranded, aborts>>,
         audit' \subseteq AuditEntry, r.made = req[h].made, RequestOK(h)'
  PROVE  Inductive'
<1>1. req'[h] = r /\ \A g \in Handler \ {h} : req'[g] = req[g]
  BY DEF Inductive, TypeOK
<1>2. TypeOK'
  BY DEF Inductive, TypeOK
<1>3. Forward
  BY DEF Forward
<1>4. \A g \in Handler : Unfinished(g)' = Unfinished(g)
  BY <1>1 DEF Unfinished
<1>5. Tables'
  BY <1>4 DEF Tables, Inductive, Untouched, ApprovedNamesOwnFunding, FundingAccounted
<1>6. QED
  BY <1>1, <1>2, <1>3, <1>5, StepOfOne

-----------------------------------------------------------------------------
(* Steps that load and check.                                               *)

\* Writing an audit entry moves the request on and touches no table.
LEMMA WriteAuditStep ==
  ASSUME Inductive, NEW h \in Handler, WriteAudit(h)
  PROVE  Inductive'
<1> DEFINE r == IF req[h].then = "idle" THEN Idle
                ELSE [req[h] EXCEPT !.pc = req[h].then, !.log = None, !.then = "idle"]
<1>1. /\ req[h] \in Request /\ RequestOK(h) /\ req[h].pc = "writeAudit"
      /\ req[h].log \in AuditEntry
  BY DEF Inductive, TypeOK, WriteAudit, RequestOK
<1>2. req' = [req EXCEPT ![h] = r] /\ req'[h] = r
  BY DEF WriteAudit, Inductive, TypeOK
<1>3. CASE req[h].then = "idle"
  <2>1. r = Idle /\ req[h].made = None
    BY <1>1, <1>3 DEF RequestOK, Stage
  <2>2. RequestOK(h)'
    BY <1>2, <2>1, IdleOK
  <2>3. Idle.made = None
    BY DEF Idle
  <2>4. audit' \subseteq AuditEntry
    BY <1>1 DEF WriteAudit, Inductive, TypeOK
  <2>5. QED
    BY <1>2, <2>1, <2>2, <2>3, <2>4, IdleType, Reading DEF WriteAudit
<1>4. CASE req[h].then # "idle"
  <2>1. req[h].then = "saveApproval"
    BY <1>1, <1>4 DEF Request
  <2>2. r = [req[h] EXCEPT !.pc = "saveApproval", !.log = None, !.then = "idle"]
    BY <1>4, <2>1
  <2>3. /\ r \in Request /\ r.made = req[h].made /\ r.p = req[h].p /\ r.ver = req[h].ver
        /\ r.pc = "saveApproval" /\ r.then = "idle"
    BY <1>1, <2>2 DEF Request, PC
  <2> HIDE DEF r
  <2>4. UNCHANGED <<petty, entries, funded>>
    BY DEF WriteAudit
  <2>5. Stage(h) = "saveApproval"
    BY <1>1, <2>1 DEF Stage
  <2>6. RequestOK(h)'
    BY <1>1, <1>2, <2>3, <2>4, <2>5
    DEF RequestOK, Stage, Deciding, SavesPetty, SavesEntry, Expensing, CurrentPetty
  <2>7. audit' \subseteq AuditEntry
    BY <1>1 DEF WriteAudit, Inductive, TypeOK
  <2>8. QED
    BY <1>2, <2>3, <2>6, <2>7, Reading DEF WriteAudit
<1>5. QED
  BY <1>3, <1>4

\* A decision loads a row in a status that admits it.
LEMMA LoadStep ==
  ASSUME Inductive, NEW h \in Handler, NEW p \in Petty,
         NEW next \in {"addFunding", "saveRejection", "removePetty"},
         petty[p].status \in Loadable(next), Load(h, p, next)
  PROVE  Inductive'
<1> DEFINE r == [Idle EXCEPT !.pc = next, !.actor = Manager, !.p = p, !.ver = petty[p].ver]
<1>1. /\ petty[p].ver \in Nat /\ petty[p].status # "none"
      /\ req[h] = Idle /\ req[h].made = None
  BY Blank DEF Inductive, Load, TypeOK, PettyRow, Loadable
<1>2. req' = [req EXCEPT ![h] = r] /\ req'[h] = r
  BY <1>1 DEF Load, Inductive, TypeOK
<1>3. /\ r \in Request /\ r.made = None /\ r.pc = next /\ r.then = "idle" /\ r.p = p
      /\ r.ver = petty[p].ver
  BY <1>1 DEF Request, PC, Actor, Idle
<1> HIDE DEF r
<1>4. UNCHANGED <<petty, entries, audit, funded, stranded, aborts>>
  BY DEF Load
<1>5. Stage(h)' = next
  BY <1>2, <1>3 DEF Stage
<1>6. RequestOK(h)'
  BY <1>1, <1>2, <1>3, <1>4, <1>5
  DEF RequestOK, Deciding, SavesPetty, SavesEntry, Expensing, CurrentPetty
<1>7. QED
  BY <1>1, <1>2, <1>3, <1>4, <1>6, Reading DEF Inductive, TypeOK

\* An approval, a rejection and a deletion load what they may decide on.
LEMMA BeginDecisionStep ==
  ASSUME Inductive, NEW h \in Handler, NEW p \in Petty,
         BeginApprove(h, p) \/ BeginReject(h, p) \/ BeginRemovePetty(h, p)
  PROVE  Inductive'
BY LoadStep DEF BeginApprove, BeginReject, BeginRemovePetty, Loadable

\* A new entry knows nothing of the tables yet.
LEMMA BeginCreateStep ==
  ASSUME Inductive, NEW h \in Handler, NEW a \in Actor, NEW f \in Form, BeginCreate(h, a, f)
  PROVE  Inductive'
<1> DEFINE next == IF Checked(a, f) THEN "readIssued" ELSE "insert"
<1> DEFINE r == [Idle EXCEPT !.pc = next, !.actor = a, !.form = f]
<1>1. req[h] = Idle /\ req[h].made = None
  BY Blank DEF BeginCreate
<1>2. req' = [req EXCEPT ![h] = r] /\ req'[h] = r
  BY <1>1 DEF BeginCreate, Inductive, TypeOK
<1>3. next \in {"readIssued", "insert"}
  OBVIOUS
<1> HIDE DEF next
<1>4. /\ r \in Request /\ r.made = None /\ r.pc = next /\ r.then = "idle" /\ r.t = None
      /\ r.actor = a /\ r.form = f
  BY <1>1, <1>3 DEF Request, PC, Idle
<1> HIDE DEF r
<1>5. UNCHANGED <<petty, entries, audit, funded, stranded, aborts>>
  BY DEF BeginCreate
<1>6. RequestOK(h)'
  BY <1>2, <1>3, <1>4 DEF RequestOK, Stage, Deciding, SavesPetty, SavesEntry, Expensing
<1>7. QED
  BY <1>1, <1>2, <1>4, <1>5, <1>6, Reading DEF Inductive, TypeOK

\* An edit, a decision and a deletion of an entry load a live row.
LEMMA LoadEntryStep ==
  ASSUME Inductive, NEW h \in Handler, NEW t \in Tx, NEW r \in Request,
         req[h].pc = "idle", entries[t].state = "live",
         req' = [req EXCEPT ![h] = r],
         UNCHANGED <<petty, entries, audit, funded, stranded, aborts>>,
         r.pc \in {"readIssued", "saveEdit", "saveDecision", "removeEntry"},
         r.t = t, r.ver = entries[t].ver, r.made = None, r.then = "idle",
         r.actor \in Actor,
         r.pc \in Expensing => r.form \in Form,
         r.pc \in Expensing /\ r.actor # Manager => entries[t].status # "Approved",
         r.pc \notin Expensing => r.actor = Manager,
         r.pc = "saveDecision" => r.verdict \in Verdict
  PROVE  Inductive'
<1>1. req[h].made = None
  BY Blank
<1>2. req'[h] = r
  BY DEF Inductive, TypeOK
<1>3. entries[t].ver \in Nat
  BY DEF Inductive, TypeOK, EntryRow
<1>4. RequestOK(h)'
  BY <1>2, <1>3
  DEF RequestOK, Stage, Deciding, SavesPetty, SavesEntry, Expensing, CurrentEntry
<1>5. QED
  BY <1>1, <1>4, Reading DEF Inductive, TypeOK

\* A user edits entries that are not Approved.
LEMMA BeginEditStep ==
  ASSUME Inductive, NEW h \in Handler, NEW a \in Actor, NEW t \in Tx, NEW f \in Form,
         BeginEdit(h, a, t, f)
  PROVE  Inductive'
<1> DEFINE next == IF Checked(a, f) THEN "readIssued" ELSE "saveEdit"
<1> DEFINE r == [Idle EXCEPT !.pc = next, !.actor = a, !.form = f, !.t = t,
                             !.ver = entries[t].ver, !.had = entries[t].amount]
<1>1. req[h] = Idle /\ req[h].pc = "idle"
  BY Blank DEF BeginEdit
<1>2. req' = [req EXCEPT ![h] = r]
  BY <1>1 DEF BeginEdit, Inductive, TypeOK
<1>3. next \in {"readIssued", "saveEdit"}
  OBVIOUS
<1>4. entries[t].ver \in Nat /\ entries[t].amount \in Amount \cup {0}
  BY DEF Inductive, TypeOK, EntryRow
<1> HIDE DEF next
<1>5. /\ r \in Request /\ r.pc = next /\ r.t = t /\ r.ver = entries[t].ver
      /\ r.made = None /\ r.then = "idle" /\ r.actor = a /\ r.form = f
  BY <1>3, <1>4 DEF Request, PC, Idle
<1> HIDE DEF r
<1>6. /\ entries[t].state = "live" /\ (a # Manager => entries[t].status # "Approved")
      /\ UNCHANGED <<petty, entries, audit, funded, stranded, aborts>>
  BY DEF BeginEdit
<1>7. next \in Expensing
  BY <1>3 DEF Expensing
<1>8. QED
  BY <1>1, <1>2, <1>3, <1>5, <1>6, <1>7, LoadEntryStep

\* A manager decides on an entry in any status.
LEMMA BeginDecideStep ==
  ASSUME Inductive, NEW h \in Handler, NEW t \in Tx, NEW v \in Verdict, BeginDecide(h, t, v)
  PROVE  Inductive'
<1> DEFINE r == [Idle EXCEPT !.pc = "saveDecision", !.actor = Manager, !.t = t,
                             !.ver = entries[t].ver, !.verdict = v]
<1>1. req[h] = Idle /\ req[h].pc = "idle"
  BY Blank DEF BeginDecide
<1>2. req' = [req EXCEPT ![h] = r]
  BY <1>1 DEF BeginDecide, Inductive, TypeOK
<1>3. entries[t].ver \in Nat
  BY DEF Inductive, TypeOK, EntryRow
<1>4. /\ r \in Request /\ r.pc = "saveDecision" /\ r.t = t /\ r.ver = entries[t].ver
      /\ r.made = None /\ r.then = "idle" /\ r.actor = Manager /\ r.verdict = v
  BY <1>3 DEF Request, PC, Actor, Idle
<1> HIDE DEF r
<1>5. /\ entries[t].state = "live"
      /\ UNCHANGED <<petty, entries, audit, funded, stranded, aborts>>
  BY DEF BeginDecide
<1>6. r.pc \notin Expensing /\ Manager \in Actor
  BY <1>4 DEF Expensing, Actor
<1>7. QED
  BY <1>1, <1>2, <1>4, <1>5, <1>6, LoadEntryStep

\* A manager deletes a live entry.
LEMMA BeginRemoveEntryStep ==
  ASSUME Inductive, NEW h \in Handler, NEW t \in Tx, BeginRemoveEntry(h, t)
  PROVE  Inductive'
<1> DEFINE r == [Idle EXCEPT !.pc = "removeEntry", !.actor = Manager, !.t = t,
                             !.ver = entries[t].ver]
<1>1. req[h] = Idle /\ req[h].pc = "idle"
  BY Blank DEF BeginRemoveEntry
<1>2. req' = [req EXCEPT ![h] = r]
  BY <1>1 DEF BeginRemoveEntry, Inductive, TypeOK
<1>3. entries[t].ver \in Nat
  BY DEF Inductive, TypeOK, EntryRow
<1>4. /\ r \in Request /\ r.pc = "removeEntry" /\ r.t = t /\ r.ver = entries[t].ver
      /\ r.made = None /\ r.then = "idle" /\ r.actor = Manager
  BY <1>3 DEF Request, PC, Actor, Idle
<1> HIDE DEF r
<1>5. /\ entries[t].state = "live"
      /\ UNCHANGED <<petty, entries, audit, funded, stranded, aborts>>
  BY DEF BeginRemoveEntry
<1>6. r.pc \notin Expensing /\ Manager \in Actor
  BY <1>4 DEF Expensing, Actor
<1>7. QED
  BY <1>1, <1>2, <1>4, <1>5, <1>6, LoadEntryStep

-----------------------------------------------------------------------------
(* Steps that read the balance.                                             *)

\* A total of ledger amounts is one of the sums.
LEMMA TotalIsSum ==
  ASSUME TypeOK, NEW S \in SUBSET Tx
  PROVE  Total(S) \in Sums
<1> DEFINE amounts == [t \in Tx |-> entries[t].amount]
<1>1. amounts \in [Tx -> Amount \cup {0}]
  BY DEF TypeOK, EntryRow
<1>2. Total(S) = SumFunctionOnSet(amounts, S)
  BY DEF Total
<1> HIDE DEF amounts
<1>3. QED
  BY <1>1, <1>2 DEF Sums

\* The first query.
LEMMA ReadIssuedStep ==
  ASSUME Inductive, NEW h \in Handler, ReadIssued(h)
  PROVE  Inductive'
<1> DEFINE i == Issued(req[h].actor)
<1> DEFINE r == [req[h] EXCEPT !.pc = "readSpent", !.issued = i]
<1>1. i \in Sums
  BY TotalIsSum DEF Issued, Mine, Inductive
<1> HIDE DEF i
<1>2. req[h] \in Request /\ RequestOK(h) /\ req[h].pc = "readIssued"
  BY DEF Inductive, TypeOK, ReadIssued
<1>3. req' = [req EXCEPT ![h] = r] /\ req'[h] = r
  BY DEF ReadIssued, Inductive, TypeOK, i
<1>4. /\ r \in Request /\ r.pc = "readSpent" /\ r.made = req[h].made /\ r.then = req[h].then
      /\ r.t = req[h].t /\ r.ver = req[h].ver /\ r.actor = req[h].actor
      /\ r.form = req[h].form
  <2>1. "readSpent" \in PC /\ i \in Sums \cup {0}
    BY <1>1 DEF PC
  <2>2. r \in Request
    BY <1>2, <2>1 DEF Request
  <2>3. QED
    BY <1>2, <2>2 DEF Request
<1> HIDE DEF r
<1>5. UNCHANGED <<petty, entries, audit, funded, stranded, aborts>>
  BY DEF ReadIssued
<1>6. RequestOK(h)'
  BY <1>2, <1>3, <1>4, <1>5
  DEF RequestOK, Stage, Deciding, SavesPetty, SavesEntry, Expensing, CurrentEntry
<1>7. QED
  BY <1>3, <1>4, <1>5, <1>6, Reading DEF Inductive, TypeOK

\* The second query and the check.
LEMMA ReadSpentStep ==
  ASSUME Inductive, NEW h \in Handler, ReadSpent(h)
  PROVE  Inductive'
<1> DEFINE next == IF req[h].t = None THEN "insert" ELSE "saveEdit"
<1> DEFINE r == [req[h] EXCEPT !.pc = next]
<1>1. /\ req[h] \in Request /\ RequestOK(h) /\ req[h].pc = "readSpent"
      /\ req'[h] \in {Idle, r} /\ req' = [req EXCEPT ![h] = req'[h]]
  <2> DEFINE short == req[h].form.amount > req[h].issued - Spent(req[h].actor) + req[h].had
  <2> DEFINE x == IF short THEN Idle ELSE r
  <2>1. req' = [req EXCEPT ![h] = x]
    BY DEF ReadSpent
  <2>2. x \in {Idle, r}
    OBVIOUS
  <2> HIDE DEF x
  <2>3. req'[h] = x
    BY <2>1 DEF Inductive, TypeOK
  <2>4. QED
    BY <2>1, <2>2, <2>3 DEF Inductive, TypeOK, ReadSpent
<1>2. UNCHANGED <<petty, entries, audit, funded, stranded, aborts>>
  BY DEF ReadSpent
<1>3. req[h].made = None
  BY <1>1 DEF RequestOK, Stage
<1>4. CASE req'[h] = Idle
  <2>1. RequestOK(h)'
    BY <1>4, IdleOK
  <2>2. Idle.made = None
    BY DEF Idle
  <2>3. QED
    BY <1>1, <1>2, <1>3, <1>4, <2>1, <2>2, IdleType, Reading DEF Inductive, TypeOK
<1>5. CASE req'[h] = r
  <2>1. next \in {"insert", "saveEdit"} /\ (next = "saveEdit" => req[h].t # None)
    OBVIOUS
  <2> HIDE DEF next
  <2>2. /\ r \in Request /\ r.pc = next /\ r.made = req[h].made /\ r.then = req[h].then
        /\ r.t = req[h].t /\ r.ver = req[h].ver /\ r.actor = req[h].actor
        /\ r.form = req[h].form
    BY <1>1, <2>1 DEF Request, PC
  <2> HIDE DEF r
  <2>3. req[h].t \in Tx \cup {None}
    BY <1>1 DEF Request
  <2>4. RequestOK(h)'
    BY <1>1, <1>2, <1>3, <1>5, <2>1, <2>2, <2>3
    DEF RequestOK, Stage, Deciding, SavesPetty, SavesEntry, Expensing, CurrentEntry
  <2>5. QED
    BY <1>1, <1>2, <1>3, <1>5, <2>2, <2>4, Reading DEF Inductive, TypeOK
<1>6. QED
  BY <1>1, <1>4, <1>5

-----------------------------------------------------------------------------
(* Steps that end a request or save a row.                                  *)

\* A request that is cut off leaves what it had added among the stranded.
LEMMA CutShort ==
  ASSUME Inductive, NEW h \in Handler, StaleSave(h) \/ Abort(h)
  PROVE  Inductive'
<1>1. /\ req' = [req EXCEPT ![h] = Idle] /\ stranded' = stranded \cup Unfinished(h)
      /\ UNCHANGED <<petty, entries, audit, funded>>
  BY DEF StaleSave, Abort
<1>2. req'[h] = Idle /\ \A g \in Handler \ {h} : req'[g] = req[g]
  BY <1>1 DEF Inductive, TypeOK
<1>3. Unfinished(h) \subseteq Tx
  BY DEF Inductive, TypeOK, Request, Unfinished
<1>4. aborts' \in 0 .. MaxAborts
  BY DEF Inductive, TypeOK, StaleSave, Abort
<1>5. TypeOK'
  BY <1>1, <1>3, <1>4, IdleType DEF Inductive, TypeOK
<1>6. Forward
  BY <1>1 DEF Forward
<1>7. FundingAccounted'
  <2>1. SUFFICES ASSUME NEW t \in Tx, entries[t].state = "live", funded[t] # None
                 PROVE  \/ petty[funded[t]].status = "Approved" /\ petty[funded[t]].link = t
                        \/ \E g \in Handler : t \in Unfinished(g)'
                        \/ t \in stranded'
    BY <1>1 DEF FundingAccounted
  <2>2. \/ petty[funded[t]].status = "Approved" /\ petty[funded[t]].link = t
        \/ \E g \in Handler : t \in Unfinished(g)
        \/ t \in stranded
    BY <2>1 DEF Inductive, FundingAccounted
  <2>3. \A g \in Handler \ {h} : Unfinished(g)' = Unfinished(g)
    BY <1>2 DEF Unfinished
  <2>4. QED
    BY <1>1, <2>2, <2>3
<1>8. Tables'
  BY <1>1, <1>7 DEF Tables, Inductive, Untouched, ApprovedNamesOwnFunding
<1>9. QED
  BY <1>2, <1>5, <1>6, <1>8, IdleOK, StepOfOne

\* What the last save of a request leaves: the others as they were, itself with
\* an audit entry to write.
LEMMA SavedStep ==
  ASSUME Inductive, NEW h \in Handler, NEW event \in AuditEntry, Saved(h, event)
  PROVE  /\ req' \in [Handler -> Request] /\ RequestOK(h)'
         /\ \A g \in Handler \ {h} : req'[g] = req[g] /\ Unfinished(g)' = Unfinished(g)
<1> DEFINE r == [Idle EXCEPT !.pc = "writeAudit", !.log = event]
<1>1. req'[h] = r /\ \A g \in Handler \ {h} : req'[g] = req[g]
  BY DEF Saved, Inductive, TypeOK
<1>2. r \in Request
  BY SavedType
<1>3. RequestOK(h)'
  BY <1>1, SavedOK
<1> HIDE DEF r
<1>4. req' \in [Handler -> Request]
  BY <1>2 DEF Saved, Inductive, TypeOK, r
<1>5. QED
  BY <1>1, <1>3, <1>4 DEF Unfinished

\* CreateAsync of a petty cash request.
LEMMA SubmitPettyStep ==
  ASSUME Inductive, NEW h \in Handler, NEW a \in Actor, NEW p \in Petty, NEW m \in Amount,
         SubmitPetty(h, a, p, m)
  PROVE  Inductive'
<1> DEFINE row == [status |-> "Submitted", owner |-> a, amount |-> m, link |-> None, ver |-> 1]
<1>1. /\ petty[p] = NoPetty /\ petty' = [petty EXCEPT ![p] = row]
      /\ UNCHANGED <<entries, audit, funded, stranded, aborts>> /\ req[h].pc = "idle"
  BY DEF SubmitPetty, Inductive, Untouched
<1>2. row \in PettyRow /\ row.status = "Submitted" /\ row.link = None /\ row.ver = 1
  BY DEF PettyRow, Status
<1> HIDE DEF row
<1>3. petty'[p] = row /\ \A q \in Petty \ {p} : petty'[q] = petty[q]
  BY <1>1 DEF Inductive, TypeOK
<1>4. Event("Create", p, 1) \in AuditEntry
  BY DEF Event, AuditEntry
<1>5. /\ req' \in [Handler -> Request] /\ RequestOK(h)'
      /\ \A g \in Handler \ {h} : req'[g] = req[g] /\ Unfinished(g)' = Unfinished(g)
  BY <1>4, SavedStep DEF SubmitPetty
<1>6. TypeOK'
  BY <1>1, <1>2, <1>5 DEF Inductive, TypeOK
<1>7. Forward
  BY <1>1, <1>2, <1>3 DEF Forward, NoPetty
<1>8. Untouched' /\ ApprovedNamesOwnFunding'
  BY <1>1, <1>2, <1>3 DEF Inductive, Untouched, ApprovedNamesOwnFunding
<1>9. FundingAccounted'
  <2>1. Unfinished(h) = {}
    BY <1>1, Blank DEF Unfinished
  <2>2. petty[p].status # "Approved"
    BY <1>1 DEF NoPetty
  <2>3. \A t \in Tx : funded[t] # None => funded[t] \in Petty
    BY DEF Inductive, TypeOK
  <2>4. QED
    BY <1>1, <1>3, <1>5, <2>1, <2>2, <2>3 DEF Inductive, FundingAccounted
<1>10. QED
  BY <1>5, <1>6, <1>7, <1>8, <1>9, StepOfOne DEF Tables

\* What a decision that reaches its save knows of its row.
LEMMA Decides ==
  ASSUME Inductive, NEW h \in Handler, req[h].pc \in SavesPetty, CurrentPetty(h)
  PROVE  /\ req[h].p \in Petty /\ req[h].ver \in Nat
         /\ petty[req[h].p] \in PettyRow /\ petty[req[h].p].ver = req[h].ver
         /\ petty[req[h].p].status \in Loadable(req[h].pc)
         /\ petty[req[h].p].status \in {"Submitted", "Rejected"}
<1>1. Stage(h) = req[h].pc /\ Stage(h) \in Deciding
  BY DEF Stage, SavesPetty, Deciding
<1>2. /\ req[h].p \in Petty /\ petty[req[h].p].ver = req[h].ver
      /\ petty[req[h].p].status \in Loadable(req[h].pc)
  BY <1>1 DEF Inductive, RequestOK, CurrentPetty
<1>3. Loadable(req[h].pc) \subseteq {"Submitted", "Rejected"}
  BY DEF Loadable, SavesPetty
<1>4. QED
  BY <1>2, <1>3 DEF Inductive, TypeOK, Request

\* A decision is saved: an approval keeps the link its request holds.
LEMMA SavePettyStep ==
  ASSUME Inductive, NEW h \in Handler, NEW from \in SavesPetty,
         NEW action \in {"Approve", "Reject", "Delete"},
         NEW status \in {"Approved", "Rejected", "deleted"}, NEW link,
         link = req[h].made, link # None <=> status = "Approved",
         SavePetty(h, from, action, status, link)
  PROVE  Inductive'
<1> DEFINE p == req[h].p
<1> DEFINE row == [petty[p] EXCEPT !.status = status, !.link = link, !.ver = req[h].ver + 1]
<1>1. /\ p \in Petty /\ req[h].ver \in Nat /\ petty[p] \in PettyRow
      /\ petty[p].ver = req[h].ver /\ petty[p].status \in {"Submitted", "Rejected"}
  BY Decides DEF SavePetty
<1>2. /\ link \in Tx \cup {None}
      /\ link # None => funded[link] = p /\ entries[link].state # "free"
  BY DEF Inductive, TypeOK, Request, RequestOK
<1>3. petty' = [petty EXCEPT ![p] = row]
  BY DEF SavePetty, Inductive, TypeOK
<1>4. /\ row \in PettyRow /\ row.status = status /\ row.link = link
      /\ row.ver = petty[p].ver + 1
  <2>1. req[h].ver + 1 \in Nat /\ status \in Status \cup {"none", "deleted"}
    BY <1>1 DEF Status
  <2>2. row \in PettyRow
    BY <1>1, <1>2, <2>1 DEF PettyRow
  <2>3. QED
    BY <1>1, <2>2 DEF PettyRow
<1> HIDE DEF row
<1>5. petty'[p] = row /\ \A q \in Petty \ {p} : petty'[q] = petty[q]
  BY <1>1, <1>3 DEF Inductive, TypeOK
<1>6. UNCHANGED <<entries, audit, funded, stranded, aborts>>
  BY DEF SavePetty
<1>7. Event(action, p, req[h].ver + 1) \in AuditEntry
  BY <1>1 DEF Event, AuditEntry, Verdict
<1>8. /\ req' \in [Handler -> Request] /\ RequestOK(h)'
      /\ \A g \in Handler \ {h} : req'[g] = req[g] /\ Unfinished(g)' = Unfinished(g)
  BY <1>7, SavedStep DEF SavePetty
<1>9. TypeOK'
  BY <1>1, <1>3, <1>4, <1>6, <1>8 DEF Inductive, TypeOK
<1>10. Forward
  BY <1>1, <1>4, <1>5, <1>6 DEF Forward
<1>11. Untouched'
  BY <1>2, <1>4, <1>5, <1>6 DEF Inductive, Untouched
<1>12. ApprovedNamesOwnFunding'
  BY <1>2, <1>4, <1>5, <1>6 DEF Inductive, ApprovedNamesOwnFunding
<1>13. FundingAccounted'
  <2>1. SUFFICES ASSUME NEW t \in Tx, entries[t].state = "live", funded[t] # None
                 PROVE  \/ petty'[funded[t]].status = "Approved" /\ petty'[funded[t]].link = t
                        \/ \E g \in Handler : t \in Unfinished(g)'
                        \/ t \in stranded
    BY <1>6 DEF FundingAccounted
  <2>2. funded[t] \in Petty
    BY <2>1 DEF Inductive, TypeOK
  <2>3. CASE petty[funded[t]].status = "Approved" /\ petty[funded[t]].link = t
    <3>1. funded[t] # p
      BY <1>1, <2>3
    <3>2. QED
      BY <1>5, <2>2, <2>3, <3>1
  <2>4. CASE t \in Unfinished(h)
    <3>1. t = link /\ link # None
      BY <2>4 DEF Unfinished
    <3>2. QED
      BY <1>2, <1>4, <1>5, <3>1
  <2>5. CASE \E g \in Handler \ {h} : t \in Unfinished(g)
    BY <1>8, <2>5
  <2>6. QED
    BY <2>1, <2>3, <2>4, <2>5 DEF Inductive, FundingAccounted
<1>14. QED
  BY <1>8, <1>9, <1>10, <1>11, <1>12, <1>13, StepOfOne DEF Tables

\* ApproveAsync, RejectAsync and DeleteAsync of a petty cash request.
LEMMA DecisionStep ==
  ASSUME Inductive, NEW h \in Handler, SaveApproval(h) \/ SaveRejection(h) \/ RemovePetty(h)
  PROVE  Inductive'
<1>1. RequestOK(h)
  BY DEF Inductive
<1>2. CASE SaveApproval(h)
  <2>1. req[h].pc = "saveApproval" /\ req[h].made # None
    BY <1>1, <1>2 DEF SaveApproval, SavePetty, RequestOK, Stage
  <2>2. QED
    BY <1>2, <2>1, SavePettyStep DEF SaveApproval, SavesPetty
<1>3. CASE SaveRejection(h)
  <2>1. req[h].pc = "saveRejection" /\ req[h].made = None
    BY <1>1, <1>3 DEF SaveRejection, SavePetty, RequestOK, Stage
  <2>2. QED
    BY <1>3, <2>1, SavePettyStep DEF SaveRejection, SavesPetty
<1>4. CASE RemovePetty(h)
  <2>1. req[h].pc = "removePetty" /\ req[h].made = None
    BY <1>1, <1>4 DEF RemovePetty, SavePetty, RequestOK, Stage
  <2>2. QED
    BY <1>4, <2>1, SavePettyStep DEF RemovePetty, SavesPetty
<1>5. QED
  BY <1>2, <1>3, <1>4

-----------------------------------------------------------------------------
(* Steps that write the ledger.                                             *)

\* The approval books its issue, which from then on it holds.
LEMMA AddFundingStep ==
  ASSUME Inductive, NEW h \in Handler, NEW t \in Tx, AddFunding(h, t)
  PROVE  Inductive'
<1> DEFINE p == req[h].p
<1> DEFINE row == [state |-> "live", owner |-> petty[p].owner, kind |-> "issue",
                   amount |-> petty[p].amount, status |-> "Approved", ver |-> 1]
<1> DEFINE event == Event("Create", t, 1)
<1> DEFINE r == [req[h] EXCEPT !.pc = "writeAudit", !.log = event,
                               !.then = "saveApproval", !.made = t]
<1>1. /\ req[h] \in Request /\ RequestOK(h) /\ req[h].pc = "addFunding"
      /\ entries[t].state = "free" /\ Stage(h) = "addFunding"
  BY DEF Inductive, TypeOK, AddFunding, Stage
<1>2. /\ p \in Petty /\ petty[p] \in PettyRow /\ req[h].made = None
      /\ petty[p].status # "none" /\ req[h].ver <= petty[p].ver
      /\ petty[p].ver = req[h].ver => petty[p].status = "Submitted"
  BY <1>1 DEF RequestOK, Deciding, Loadable, CurrentPetty, Inductive, TypeOK
<1>3. row \in EntryRow /\ row.state = "live"
  BY <1>2 DEF EntryRow, PettyRow, Kind, Status
<1> HIDE DEF row
<1>4. event \in AuditEntry
  BY DEF Event, AuditEntry
<1> HIDE DEF event
<1>5. /\ r \in Request /\ r.pc = "writeAudit" /\ r.log = event /\ r.made = t
      /\ r.then = "saveApproval" /\ r.p = p /\ r.ver = req[h].ver
  <2>1. "writeAudit" \in PC
    BY DEF PC
  <2>2. r \in Request
    BY <1>1, <1>4, <2>1 DEF Request
  <2>3. QED
    BY <1>1, <2>2 DEF Request
<1> HIDE DEF r
<1>6. /\ entries' = [entries EXCEPT ![t] = row] /\ funded' = [funded EXCEPT ![t] = p]
      /\ req' = [req EXCEPT ![h] = r] /\ UNCHANGED <<petty, audit, stranded, aborts>>
  BY DEF AddFunding, Inductive, TypeOK, row, r, event
<1>7. /\ entries'[t] = row /\ funded'[t] = p /\ req'[h] = r
      /\ \A u \in Tx \ {t} : entries'[u] = entries[u] /\ funded'[u] = funded[u]
      /\ \A g \in Handler \ {h} : req'[g] = req[g] /\ Unfinished(g)' = Unfinished(g)
  BY <1>6 DEF Inductive, TypeOK, Unfinished
<1>8. TypeOK'
  BY <1>2, <1>3, <1>5, <1>6 DEF Inductive, TypeOK
<1>9. Forward
  BY <1>1, <1>6, <1>7 DEF Forward
<1>10. RequestOK(h)'
  <2>1. Stage(h)' = "saveApproval"
    BY <1>5, <1>7 DEF Stage
  <2>2. QED
    BY <1>2, <1>3, <1>4, <1>5, <1>6, <1>7, <2>1
    DEF RequestOK, Deciding, SavesPetty, SavesEntry, Expensing, Loadable, CurrentPetty
<1>11. Untouched'
  BY <1>3, <1>6, <1>7 DEF Inductive, Untouched, TypeOK, PettyRow
<1>12. ApprovedNamesOwnFunding'
  <2>1. \A q \in Petty : petty[q].link # None => petty[q].link \in Tx \ {t}
    BY <1>1 DEF Inductive, Untouched, TypeOK, PettyRow
  <2>2. QED
    BY <1>6, <1>7, <2>1 DEF Inductive, ApprovedNamesOwnFunding
<1>13. FundingAccounted'
  <2>1. Unfinished(h) = {} /\ t \in Unfinished(h)'
    BY <1>2, <1>5, <1>7 DEF Unfinished
  <2>2. QED
    BY <1>6, <1>7, <2>1 DEF Inductive, FundingAccounted
<1>14. QED
  BY <1>7, <1>8, <1>9, <1>10, <1>11, <1>12, <1>13, StepOfOne DEF Tables

\* A new entry takes a free row.
LEMMA InsertEntryStep ==
  ASSUME Inductive, NEW h \in Handler, NEW t \in Tx, InsertEntry(h, t)
  PROVE  Inductive'
<1> DEFINE f == req[h].form
<1> DEFINE row == [state |-> "live", owner |-> req[h].actor, kind |-> f.kind,
                   amount |-> f.amount, ver |-> 1,
                   status |-> IF f.gated THEN "Submitted" ELSE "Approved"]
<1>1. /\ RequestOK(h) /\ req[h].pc = "insert" /\ entries[t].state = "free"
      /\ entries[t] = NoEntry /\ funded[t] = None
  BY DEF Inductive, InsertEntry, Untouched
<1>2. req[h].actor \in Actor /\ f \in Form /\ req[h].made = None
  BY <1>1 DEF RequestOK, Expensing, Stage
<1>3. row \in EntryRow /\ row.state = "live"
  BY <1>2 DEF EntryRow, Form, Kind, Status
<1>4. /\ entries' = [entries EXCEPT ![t] = row] /\ Saved(h, Event("Create", t, 1))
      /\ UNCHANGED <<petty, audit, funded, stranded, aborts>>
  BY DEF InsertEntry
<1> HIDE DEF row
<1>5. entries'[t] = row /\ \A u \in Tx \ {t} : entries'[u] = entries[u]
  BY <1>4 DEF Inductive, TypeOK
<1>6. Event("Create", t, 1) \in AuditEntry
  BY DEF Event, AuditEntry
<1>7. /\ req' \in [Handler -> Request] /\ RequestOK(h)'
      /\ \A g \in Handler \ {h} : req'[g] = req[g] /\ Unfinished(g)' = Unfinished(g)
  BY <1>4, <1>6, SavedStep
<1>8. TypeOK'
  BY <1>3, <1>4, <1>7 DEF Inductive, TypeOK
<1>9. Forward
  BY <1>1, <1>4, <1>5 DEF Forward
<1>10. Untouched' /\ ApprovedNamesOwnFunding'
  BY <1>3, <1>4, <1>5
  DEF Inductive, Untouched, ApprovedNamesOwnFunding, TypeOK, PettyRow
<1>11. FundingAccounted'
  <2>1. Unfinished(h) = {}
    BY <1>2 DEF Unfinished
  <2>2. QED
    BY <1>1, <1>4, <1>5, <1>7, <2>1 DEF Inductive, FundingAccounted
<1>12. QED
  BY <1>7, <1>8, <1>9, <1>10, <1>11, StepOfOne DEF Tables

\* An update of a live row that was loaded keeps Inductive, whatever it writes.
LEMMA EntryChanged ==
  ASSUME Inductive, NEW h \in Handler, NEW action \in {"Update", "Delete"} \cup Verdict,
         NEW row \in EntryRow, req[h].pc \in SavesEntry, CurrentEntry(h),
         row.state \in {"live", "gone"}, row.ver = req[h].ver + 1,
         entries' = [entries EXCEPT ![req[h].t] = row],
         Saved(h, Event(action, req[h].t, req[h].ver + 1)),
         UNCHANGED <<petty, audit, funded, stranded, aborts>>
  PROVE  Inductive'
<1> DEFINE t == req[h].t
<1>1. /\ t \in Tx /\ entries[t].state = "live" /\ entries[t].ver = req[h].ver
      /\ req[h].ver \in Nat
  BY DEF Inductive, RequestOK, CurrentEntry, TypeOK, Request
<1>2. Unfinished(h) = {}
  BY DEF Inductive, RequestOK, Stage, SavesEntry, Unfinished
<1>3. entries'[t] = row /\ \A u \in Tx \ {t} : entries'[u] = entries[u]
  BY <1>1 DEF Inductive, TypeOK
<1>4. Event(action, t, req[h].ver + 1) \in AuditEntry
  BY <1>1 DEF Event, AuditEntry
<1>5. /\ req' \in [Handler -> Request] /\ RequestOK(h)'
      /\ \A g \in Handler \ {h} : req'[g] = req[g] /\ Unfinished(g)' = Unfinished(g)
  BY <1>4, SavedStep
<1>6. TypeOK'
  BY <1>5 DEF Inductive, TypeOK
<1>7. Forward
  BY <1>1, <1>3 DEF Forward
<1>8. Untouched' /\ ApprovedNamesOwnFunding'
  BY <1>1, <1>3 DEF Inductive, Untouched, ApprovedNamesOwnFunding
<1>9. FundingAccounted'
  BY <1>1, <1>2, <1>3, <1>5 DEF Inductive, FundingAccounted
<1>10. QED
  BY <1>5, <1>6, <1>7, <1>8, <1>9, StepOfOne DEF Tables

\* An edit replaces what the form holds.
LEMMA SaveEditStep ==
  ASSUME Inductive, NEW h \in Handler, SaveEdit(h)
  PROVE  Inductive'
<1> DEFINE t == req[h].t
<1> DEFINE f == req[h].form
<1> DEFINE v == req[h].ver + 1
<1> DEFINE row == [entries[t] EXCEPT !.kind = f.kind, !.amount = f.amount, !.ver = v]
<1>1. req[h].pc = "saveEdit" /\ req[h].pc \in SavesEntry /\ CurrentEntry(h)
  BY DEF SaveEdit, SavesEntry
<1>2. /\ t \in Tx /\ entries[t].state = "live" /\ f \in Form /\ v \in Nat
      /\ entries[t] \in EntryRow
  BY <1>1 DEF Inductive, TypeOK, Request, RequestOK, Expensing
<1>3. f.kind \in Kind /\ f.amount \in Amount \cup {0}
  BY <1>2 DEF Form, Kind
<1>4. entries' = [entries EXCEPT ![t] = row]
  BY DEF SaveEdit, Inductive, TypeOK
<1> HIDE DEF f, v
<1>5. row \in EntryRow /\ row.state = "live" /\ row.ver = v
  <2>1. row \in EntryRow
    BY <1>2, <1>3 DEF EntryRow
  <2>2. QED
    BY <1>2, <2>1 DEF EntryRow
<1> HIDE DEF row
<1>6. QED
  BY <1>1, <1>4, <1>5, EntryChanged DEF SaveEdit, v

\* A decision replaces the status.
LEMMA SaveDecisionStep ==
  ASSUME Inductive, NEW h \in Handler, SaveDecision(h)
  PROVE  Inductive'
<1> DEFINE t == req[h].t
<1> DEFINE v == req[h].ver + 1
<1> DEFINE status == IF req[h].verdict = "Approve" THEN "Approved" ELSE "Rejected"
<1> DEFINE row == [entries[t] EXCEPT !.status = status, !.ver = v]
<1>1. /\ req[h].pc = "saveDecision" /\ req[h].pc \in SavesEntry /\ CurrentEntry(h)
      /\ req[h].verdict \in Verdict
  BY DEF SaveDecision, SavesEntry, Inductive, RequestOK
<1>2. t \in Tx /\ entries[t].state = "live" /\ v \in Nat /\ entries[t] \in EntryRow
  BY <1>1 DEF Inductive, TypeOK, Request, RequestOK
<1>3. status \in Status
  BY DEF Status
<1>4. entries' = [entries EXCEPT ![t] = row]
  BY DEF SaveDecision, Inductive, TypeOK
<1> HIDE DEF status, v
<1>5. row \in EntryRow /\ row.state = "live" /\ row.ver = v
  <2>1. row \in EntryRow
    BY <1>2, <1>3 DEF EntryRow
  <2>2. QED
    BY <1>2, <2>1 DEF EntryRow
<1> HIDE DEF row
<1>6. QED
  BY <1>1, <1>4, <1>5, EntryChanged DEF SaveDecision, v

\* A deletion keeps the row as a tombstone.
LEMMA RemoveEntryStep ==
  ASSUME Inductive, NEW h \in Handler, RemoveEntry(h)
  PROVE  Inductive'
<1> DEFINE t == req[h].t
<1> DEFINE v == req[h].ver + 1
<1> DEFINE row == [entries[t] EXCEPT !.state = "gone", !.ver = v]
<1>1. req[h].pc = "removeEntry" /\ req[h].pc \in SavesEntry /\ CurrentEntry(h)
  BY DEF RemoveEntry, SavesEntry
<1>2. t \in Tx /\ v \in Nat /\ entries[t] \in EntryRow
  BY <1>1 DEF Inductive, TypeOK, Request, RequestOK
<1>3. entries' = [entries EXCEPT ![t] = row]
  BY DEF RemoveEntry, Inductive, TypeOK
<1> HIDE DEF v
<1>4. row \in EntryRow /\ row.state = "gone" /\ row.ver = v
  BY <1>2 DEF EntryRow
<1> HIDE DEF row
<1>5. QED
  BY <1>1, <1>3, <1>4, EntryChanged DEF RemoveEntry, v

-----------------------------------------------------------------------------
(* The theorems.                                                            *)

LEMMA InitInductive == Init => Inductive
<1>1. SUFFICES ASSUME Init PROVE Inductive
  OBVIOUS
<1>2. \A h \in Handler : req[h] = Idle
  BY <1>1 DEF Init
<1>3. TypeOK
  BY <1>1, IdleType DEF Init, TypeOK
<1>4. Untouched /\ ApprovedNamesOwnFunding /\ FundingAccounted
  BY <1>1 DEF Init, Untouched, ApprovedNamesOwnFunding, FundingAccounted, NoPetty, NoEntry
<1>5. \A h \in Handler : RequestOK(h)
  BY <1>2 DEF RequestOK, Idle, Stage, Deciding, SavesPetty, SavesEntry, Expensing
<1>6. QED
  BY <1>3, <1>4, <1>5 DEF Inductive

LEMMA NextInductive == Inductive /\ [Next]_vars => Inductive'
<1>1. SUFFICES ASSUME Inductive, [Next]_vars PROVE Inductive'
  OBVIOUS
<1>2. CASE UNCHANGED vars
  <2>1. Forward /\ UNCHANGED <<petty, entries, req, audit, funded, stranded, aborts>>
    BY <1>2 DEF vars, Forward
  <2>2. TypeOK' /\ Tables' /\ \A h \in Handler : Unfinished(h)' = Unfinished(h)
    BY <1>1, <2>1
    DEF Inductive, TypeOK, Tables, Untouched, ApprovedNamesOwnFunding, FundingAccounted,
        Unfinished
  <2>3. \A h \in Handler : RequestOK(h)'
    BY <1>1, <2>1, <2>2, Bystander DEF Inductive
  <2>4. QED
    BY <2>2, <2>3 DEF Inductive, Tables
<1>3. CASE Next
  <2>1. PICK h \in Handler :
          \/ WriteAudit(h) \/ StaleSave(h) \/ Abort(h)
          \/ \E a \in Actor, p \in Petty, m \in Amount : SubmitPetty(h, a, p, m)
          \/ \E p \in Petty : BeginApprove(h, p) \/ BeginReject(h, p) \/ BeginRemovePetty(h, p)
          \/ \E t \in Tx : AddFunding(h, t) \/ InsertEntry(h, t)
          \/ SaveApproval(h) \/ SaveRejection(h) \/ RemovePetty(h)
          \/ \E a \in Actor, f \in Form : BeginCreate(h, a, f)
          \/ \E a \in Actor, t \in Tx, f \in Form : BeginEdit(h, a, t, f)
          \/ ReadIssued(h) \/ ReadSpent(h) \/ SaveEdit(h)
          \/ \E t \in Tx, v \in Verdict : BeginDecide(h, t, v)
          \/ SaveDecision(h)
          \/ \E t \in Tx : BeginRemoveEntry(h, t)
          \/ RemoveEntry(h)
    BY <1>3 DEF Next
  <2>2. CASE WriteAudit(h) \/ StaleSave(h) \/ Abort(h)
    BY <1>1, <2>2, WriteAuditStep, CutShort
  <2>3. CASE \/ \E a \in Actor, p \in Petty, m \in Amount : SubmitPetty(h, a, p, m)
             \/ \E p \in Petty :
                  BeginApprove(h, p) \/ BeginReject(h, p) \/ BeginRemovePetty(h, p)
             \/ SaveApproval(h) \/ SaveRejection(h) \/ RemovePetty(h)
    BY <1>1, <2>3, SubmitPettyStep, BeginDecisionStep, DecisionStep
  <2>4. CASE \E t \in Tx : AddFunding(h, t) \/ InsertEntry(h, t)
    BY <1>1, <2>4, AddFundingStep, InsertEntryStep
  <2>5. CASE \/ \E a \in Actor, f \in Form : BeginCreate(h, a, f)
             \/ \E a \in Actor, t \in Tx, f \in Form : BeginEdit(h, a, t, f)
             \/ ReadIssued(h) \/ ReadSpent(h) \/ SaveEdit(h)
    BY <1>1, <2>5, BeginCreateStep, BeginEditStep, ReadIssuedStep, ReadSpentStep, SaveEditStep
  <2>6. CASE \/ \E t \in Tx, v \in Verdict : BeginDecide(h, t, v)
             \/ SaveDecision(h)
             \/ \E t \in Tx : BeginRemoveEntry(h, t)
             \/ RemoveEntry(h)
    BY <1>1, <2>6, BeginDecideStep, SaveDecisionStep, BeginRemoveEntryStep, RemoveEntryStep
  <2>7. QED
    BY <2>1, <2>2, <2>3, <2>4, <2>5, <2>6
<1>4. QED
  BY <1>1, <1>2, <1>3

(* Whatever the number of requests in flight, however they interleave, lose   *)
(* to one another or are cut off: the types, the funding invariants and what  *)
(* each request knows hold together.                                         *)
THEOREM InductiveHolds == Spec => []Inductive
<1>1. Init => Inductive
  BY InitInductive
<1>2. Inductive /\ [Next]_vars => Inductive'
  BY NextInductive
<1>3. QED
  BY <1>1, <1>2, PTL DEF Spec

(* An Approved petty cash request names the entry issued for it and no other *)
(* request does, even when two approvals of it run at once.                  *)
THEOREM ApprovedNamesIts == Spec => []ApprovedNamesOwnFunding
<1>1. Inductive => ApprovedNamesOwnFunding
  BY DEF Inductive
<1>2. QED
  BY <1>1, InductiveHolds, PTL

(* Every live disbursement is named by its Approved request, held by a       *)
(* running approval, or among those an approval left when it lost or was cut *)
(* off.                                                                      *)
THEOREM FundingIsAccounted == Spec => []FundingAccounted
<1>1. Inductive => FundingAccounted
  BY DEF Inductive
<1>2. QED
  BY <1>1, InductiveHolds, PTL

\* A save of a decision finds the request undecided, or deletes a Rejected one.
LEMMA Decision ==
  ASSUME Inductive, NEW h \in Handler, NEW from \in SavesPetty, NEW action,
         NEW status \in {"Approved", "Rejected", "deleted"}, NEW link, NEW q \in Petty,
         status = "deleted" <=> from = "removePetty",
         SavePetty(h, from, action, status, link)
  PROVE  /\ petty[q].status \in {"Approved", "deleted"} => petty'[q] = petty[q]
         /\ petty[q].status = "Rejected" => petty'[q].status \in {"Rejected", "deleted"}
<1> DEFINE p == req[h].p
<1>1. /\ p \in Petty /\ petty[p] \in PettyRow
      /\ petty[p].status \in Loadable(from) /\ petty[p].status \in {"Submitted", "Rejected"}
  BY Decides DEF SavePetty
<1>2. q # p => petty'[q] = petty[q]
  BY <1>1 DEF SavePetty, Inductive, TypeOK
<1>3. petty'[p].status = status
  BY <1>1 DEF SavePetty, Inductive, TypeOK, PettyRow
<1>4. petty[p].status = "Rejected" => from = "removePetty"
  BY <1>1 DEF Loadable, SavesPetty
<1>5. QED
  BY <1>1, <1>2, <1>3, <1>4

(* A petty cash request is decided once: of the approvals, rejections and    *)
(* deletions that read it Submitted, the first to save wins, and nothing     *)
(* later alters an Approved or a deleted one.                                *)
THEOREM DecidedForGood == Spec => DecidedOnce
<1> DEFINE Once ==
      \A p \in Petty :
        /\ petty[p].status \in {"Approved", "deleted"} => petty'[p] = petty[p]
        /\ petty[p].status = "Rejected" => petty'[p].status \in {"Rejected", "deleted"}
<1>1. ASSUME Inductive, Next PROVE Once
  <2>1. CASE UNCHANGED petty
    BY <2>1
  <2>2. ASSUME NEW h \in Handler, NEW a \in Actor, NEW p \in Petty, NEW m \in Amount,
               SubmitPetty(h, a, p, m)
        PROVE  Once
    <3>1. petty[p].status = "none" /\ \A q \in Petty \ {p} : petty'[q] = petty[q]
      BY <1>1, <2>2 DEF SubmitPetty, Inductive, TypeOK
    <3>2. QED
      BY <3>1
  <2>3. ASSUME NEW h \in Handler, SaveApproval(h) PROVE Once
    <3>1. SavePetty(h, "saveApproval", "Approve", "Approved", req[h].made)
      BY <2>3 DEF SaveApproval
    <3>2. QED
      BY <1>1, <3>1, Decision DEF SavesPetty
  <2>4. ASSUME NEW h \in Handler, SaveRejection(h) PROVE Once
    <3>1. SavePetty(h, "saveRejection", "Reject", "Rejected", None)
      BY <2>4 DEF SaveRejection
    <3>2. QED
      BY <1>1, <3>1, Decision DEF SavesPetty
  <2>5. ASSUME NEW h \in Handler, RemovePetty(h) PROVE Once
    <3>1. SavePetty(h, "removePetty", "Delete", "deleted", None)
      BY <2>5 DEF RemovePetty
    <3>2. QED
      BY <1>1, <3>1, Decision DEF SavesPetty
  <2> HIDE DEF Once
  <2>6. PICK h \in Handler :
          \/ WriteAudit(h) \/ StaleSave(h) \/ Abort(h)
          \/ \E a \in Actor, p \in Petty, m \in Amount : SubmitPetty(h, a, p, m)
          \/ \E p \in Petty : BeginApprove(h, p) \/ BeginReject(h, p) \/ BeginRemovePetty(h, p)
          \/ \E t \in Tx : AddFunding(h, t) \/ InsertEntry(h, t)
          \/ SaveApproval(h) \/ SaveRejection(h) \/ RemovePetty(h)
          \/ \E a \in Actor, f \in Form : BeginCreate(h, a, f)
          \/ \E a \in Actor, t \in Tx, f \in Form : BeginEdit(h, a, t, f)
          \/ ReadIssued(h) \/ ReadSpent(h) \/ SaveEdit(h)
          \/ \E t \in Tx, v \in Verdict : BeginDecide(h, t, v)
          \/ SaveDecision(h)
          \/ \E t \in Tx : BeginRemoveEntry(h, t)
          \/ RemoveEntry(h)
    BY <1>1 DEF Next
  <2>7. CASE WriteAudit(h) \/ StaleSave(h) \/ Abort(h)
    BY <2>1, <2>7 DEF WriteAudit, StaleSave, Abort
  <2>8. CASE \E p \in Petty : BeginApprove(h, p) \/ BeginReject(h, p) \/ BeginRemovePetty(h, p)
    BY <2>1, <2>8 DEF BeginApprove, BeginReject, BeginRemovePetty, Load
  <2>9. CASE \E t \in Tx : AddFunding(h, t) \/ InsertEntry(h, t)
    BY <2>1, <2>9 DEF AddFunding, InsertEntry
  <2>10. CASE \/ \E a \in Actor, f \in Form : BeginCreate(h, a, f)
              \/ \E a \in Actor, t \in Tx, f \in Form : BeginEdit(h, a, t, f)
    <3>1. ASSUME NEW a \in Actor, NEW f \in Form, BeginCreate(h, a, f) PROVE UNCHANGED petty
      BY <3>1 DEF BeginCreate
    <3>2. ASSUME NEW a \in Actor, NEW t \in Tx, NEW f \in Form, BeginEdit(h, a, t, f)
          PROVE  UNCHANGED petty
      BY <3>2 DEF BeginEdit
    <3>3. QED
      BY <2>1, <2>10, <3>1, <3>2
  <2>11. CASE ReadIssued(h) \/ ReadSpent(h) \/ SaveEdit(h)
    BY <2>1, <2>11 DEF ReadIssued, ReadSpent, SaveEdit
  <2>12. CASE \/ \E t \in Tx, v \in Verdict : BeginDecide(h, t, v)
              \/ SaveDecision(h)
              \/ \E t \in Tx : BeginRemoveEntry(h, t)
              \/ RemoveEntry(h)
    BY <2>1, <2>12 DEF BeginDecide, SaveDecision, BeginRemoveEntry, RemoveEntry
  <2>13. QED
    BY <2>2, <2>3, <2>4, <2>5, <2>6, <2>7, <2>8, <2>9, <2>10, <2>11, <2>12
<1> HIDE DEF Once
<1>2. Inductive /\ [Next]_vars =>
        [\A p \in Petty :
           /\ petty[p].status \in {"Approved", "deleted"} => petty'[p] = petty[p]
           /\ petty[p].status = "Rejected" => petty'[p].status \in {"Rejected", "deleted"}]_vars
  BY <1>1 DEF Once
<1>3. QED
  BY <1>2, InductiveHolds, PTL DEF Spec, DecidedOnce

(* Only a manager's edit changes what an Approved entry says: the save of a  *)
(* user's edit that read the entry before its approval fails on its version. *)
THEOREM ApprovedKept == Spec => ApprovedOnlyEditedByManager
<1> DEFINE Kept ==
      \A t \in Tx :
        /\ entries[t].state = "live" /\ entries[t].status = "Approved"
        /\ <<entries'[t].kind, entries'[t].amount>> # <<entries[t].kind, entries[t].amount>>
        => \E h \in Handler : req[h].t = t /\ req[h].actor = Manager /\ req'[h] # req[h]
<1>1. ASSUME Inductive, Next PROVE Kept
  <2>1. CASE \A t \in Tx : entries[t].state = "live" =>
               entries'[t].kind = entries[t].kind /\ entries'[t].amount = entries[t].amount
    BY <2>1
  <2>2. ASSUME NEW h \in Handler, SaveEdit(h) PROVE Kept
    <3> DEFINE t == req[h].t
    <3>1. /\ t \in Tx /\ entries[t].state = "live"
          /\ req[h].actor # Manager => entries[t].status # "Approved"
      BY <1>1, <2>2 DEF SaveEdit, Inductive, RequestOK, SavesEntry
    <3>2. \A u \in Tx \ {t} : entries'[u] = entries[u]
      BY <1>1, <2>2 DEF SaveEdit, Inductive, TypeOK
    <3>3. req[h].pc = "saveEdit" /\ req'[h].pc = "writeAudit"
      BY <1>1, <2>2 DEF SaveEdit, Saved, Idle, Inductive, TypeOK
    <3>4. QED
      BY <3>1, <3>2, <3>3
  <2>3. ASSUME NEW h \in Handler, NEW t \in Tx, AddFunding(h, t) \/ InsertEntry(h, t)
        PROVE  Kept
    <3>1. entries[t].state = "free" /\ \A u \in Tx \ {t} : entries'[u] = entries[u]
      BY <1>1, <2>3 DEF AddFunding, InsertEntry, Inductive, TypeOK
    <3>2. QED
      BY <3>1
  <2>4. ASSUME NEW h \in Handler, SaveDecision(h) \/ RemoveEntry(h) PROVE Kept
    <3>1. req[h].t \in Tx
      BY <1>1, <2>4 DEF SaveDecision, RemoveEntry, Inductive, RequestOK, SavesEntry
    <3>2. \A t \in Tx : entries'[t].kind = entries[t].kind /\ entries'[t].amount = entries[t].amount
      BY <1>1, <2>4, <3>1 DEF SaveDecision, RemoveEntry, Inductive, TypeOK, EntryRow
    <3>3. QED
      BY <3>2
  <2>5. CASE UNCHANGED entries
    BY <2>5
  <2> HIDE DEF Kept
  <2>6. PICK h \in Handler :
          \/ WriteAudit(h) \/ StaleSave(h) \/ Abort(h)
          \/ \E a \in Actor, p \in Petty, m \in Amount : SubmitPetty(h, a, p, m)
          \/ \E p \in Petty : BeginApprove(h, p) \/ BeginReject(h, p) \/ BeginRemovePetty(h, p)
          \/ \E t \in Tx : AddFunding(h, t) \/ InsertEntry(h, t)
          \/ SaveApproval(h) \/ SaveRejection(h) \/ RemovePetty(h)
          \/ \E a \in Actor, f \in Form : BeginCreate(h, a, f)
          \/ \E a \in Actor, t \in Tx, f \in Form : BeginEdit(h, a, t, f)
          \/ ReadIssued(h) \/ ReadSpent(h) \/ SaveEdit(h)
          \/ \E t \in Tx, v \in Verdict : BeginDecide(h, t, v)
          \/ SaveDecision(h)
          \/ \E t \in Tx : BeginRemoveEntry(h, t)
          \/ RemoveEntry(h)
    BY <1>1 DEF Next
  <2>7. CASE WriteAudit(h) \/ StaleSave(h) \/ Abort(h)
    BY <2>5, <2>7 DEF WriteAudit, StaleSave, Abort
  <2>8. CASE \/ \E a \in Actor, p \in Petty, m \in Amount : SubmitPetty(h, a, p, m)
             \/ \E p \in Petty : BeginApprove(h, p) \/ BeginReject(h, p) \/ BeginRemovePetty(h, p)
    BY <2>5, <2>8 DEF SubmitPetty, BeginApprove, BeginReject, BeginRemovePetty, Load
  <2>9. CASE SaveApproval(h) \/ SaveRejection(h) \/ RemovePetty(h)
    BY <2>5, <2>9 DEF SaveApproval, SaveRejection, RemovePetty, SavePetty
  <2>10. CASE \/ \E a \in Actor, f \in Form : BeginCreate(h, a, f)
              \/ \E a \in Actor, t \in Tx, f \in Form : BeginEdit(h, a, t, f)
    <3>1. ASSUME NEW a \in Actor, NEW f \in Form, BeginCreate(h, a, f) PROVE UNCHANGED entries
      BY <3>1 DEF BeginCreate
    <3>2. ASSUME NEW a \in Actor, NEW t \in Tx, NEW f \in Form, BeginEdit(h, a, t, f)
          PROVE  UNCHANGED entries
      BY <3>2 DEF BeginEdit
    <3>3. QED
      BY <2>5, <2>10, <3>1, <3>2
  <2>11. CASE ReadIssued(h) \/ ReadSpent(h)
    BY <2>5, <2>11 DEF ReadIssued, ReadSpent
  <2>12. CASE \/ \E t \in Tx, v \in Verdict : BeginDecide(h, t, v)
              \/ \E t \in Tx : BeginRemoveEntry(h, t)
    BY <2>5, <2>12 DEF BeginDecide, BeginRemoveEntry
  <2>13. QED
    BY <2>2, <2>3, <2>4, <2>6, <2>7, <2>8, <2>9, <2>10, <2>11, <2>12
<1> HIDE DEF Kept
<1>2. Inductive /\ [Next]_vars =>
        [\A t \in Tx :
           /\ entries[t].state = "live" /\ entries[t].status = "Approved"
           /\ <<entries'[t].kind, entries'[t].amount>> # <<entries[t].kind, entries[t].amount>>
           => \E h \in Handler : /\ req[h].t = t /\ req[h].actor = Manager
                                 /\ req'[h] # req[h]]_vars
  BY <1>1 DEF Kept
<1>3. QED
  BY <1>2, InductiveHolds, PTL DEF Spec, ApprovedOnlyEditedByManager
=============================================================================
