----------------------------- MODULE PettyCash -----------------------------
(***************************************************************************)
(* Petty cash: PettyCashRequestService (submit, approve, reject, delete)   *)
(* and TransactionService as the custodian and the manager use it (create, *)
(* update, approve, reject, delete), with the balance that ties the two    *)
(* together: what was issued to a user less what that user has spent.      *)
(*                                                                         *)
(* As in InvoiceSettlement, every save is its own database transaction and *)
(* a Handler is one HTTP request in flight; reading the balance takes two  *)
(* queries, so two actions.                                                *)
(***************************************************************************)
EXTENDS Integers, FiniteSetsExt

CONSTANTS
  User,        \* custodians: role User, not Manager
  Manager,     \* any manager
  Petty,       \* identifiers of petty cash requests
  Tx,          \* identifiers of ledger entries
  Handler,     \* requests the API can be serving at one time
  None,        \* the null reference
  Amount,      \* the amounts that occur (validators: greater than zero)
  Kinds,       \* bound: the kinds of entry that clients post, a subset of Kind
  MaxVer,      \* bound: an entry is written only below this xmin count
  MaxAborts    \* bound: requests that end between two saves

ASSUME ConstantsAssumption ==
  /\ Manager \notin User
  /\ None \notin User \cup Petty \cup Tx \cup {Manager}
  /\ Amount \subseteq Nat \ {0}
  /\ Kinds \subseteq {"issue", "variant", "spend", "income"}
  /\ MaxVer \in Nat /\ MaxAborts \in Nat

VARIABLES
  petty,    \* the petty_cash_requests table
  entries,  \* the transactions table
  req,      \* what each request in flight remembers
  audit,    \* the audit_logs table
  funded,   \* history: the petty cash request a ledger entry was issued for
  stranded, \* history: entries whose approval ended without linking them
  aborts    \* history: how many requests were cut off

vars == <<petty, entries, req, audit, funded, stranded, aborts>>

-----------------------------------------------------------------------------
Actor == User \cup {Manager}

(* What an entry is to the balance, from its Type and Category:              *)
(*   issue    Expense, "Petty Cash" as TransactionCategories spells it       *)
(*   variant  Expense, "Petty Cash" in another letter case: no balance check *)
(*            asks about it, yet the balance counts it as spent              *)
(*   spend    Expense of any other category                                  *)
(*   income   Income                                                         *)
Kind == {"issue", "variant", "spend", "income"}

\* gated: the category is in RequiresApproval, "Entertainment", an expense category.
Form == {f \in [kind: Kinds, amount: Amount, gated: BOOLEAN] : f.gated => f.kind = "spend"}

Status == {"Submitted", "Approved", "Rejected"}

PettyRow == [status: Status \cup {"none", "deleted"}, owner: Actor \cup {None},
             amount: Amount \cup {0}, link: Tx \cup {None}, ver: Nat]
EntryRow == [state: {"free", "live", "gone"}, owner: Actor \cup {None}, kind: Kind,
             amount: Amount \cup {0}, status: Status, ver: Nat]

NoPetty == [status |-> "none", owner |-> None, amount |-> 0, link |-> None, ver |-> 0]
NoEntry == [state |-> "free", owner |-> None, kind |-> "income", amount |-> 0,
            status |-> "Submitted", ver |-> 0]

Verdict == {"Approve", "Reject"}
AuditEntry == [action: {"Create", "Update", "Delete"} \cup Verdict,
               id: Petty \cup Tx, ver: Nat]

PC == {"idle", "addFunding", "saveApproval", "saveRejection", "removePetty", "readIssued",
       "readSpent", "insert", "saveEdit", "saveDecision", "removeEntry", "writeAudit"}

(* p, t, ver   the petty cash request or the entry loaded, and its xmin then *)
(* form        what the client posted; had: the entry's amount when loaded   *)
(* issued      the first half of the balance, read                           *)
(* made        the funding entry an approval has added                       *)
(* log, then   the audit entry due after a save, and where to go after it    *)
Idle == [pc |-> "idle", actor |-> None, p |-> None, t |-> None, ver |-> 0,
         form |-> None, had |-> 0, issued |-> 0, made |-> None, verdict |-> None,
         log |-> None, then |-> "idle"]

Event(a, x, v) == [action |-> a, id |-> x, ver |-> v]

Init ==
  /\ petty = [p \in Petty |-> NoPetty]
  /\ entries = [t \in Tx |-> NoEntry]
  /\ req = [h \in Handler |-> Idle]
  /\ audit = {}
  /\ funded = [t \in Tx |-> None]
  /\ stranded = {}
  /\ aborts = 0

-----------------------------------------------------------------------------
(* The balance: TransactionService.GetPettyCashBalanceAsync.  Neither query  *)
(* looks at ApprovalStatus.                                                  *)

Mine(u) == {t \in Tx : entries[t].state = "live" /\ entries[t].owner = u}
Total(S) == SumFunctionOnSet([t \in Tx |-> entries[t].amount], S)
Issued(u) == Total({t \in Mine(u) : entries[t].kind = "issue"})
Spent(u) == Total({t \in Mine(u) : entries[t].kind \in {"variant", "spend"}})
Balance(u) == Issued(u) - Spent(u)

\* The balance is consulted for a user's expense that is not petty cash by name.
Checked(a, f) == a # Manager /\ f.kind = "spend"

-----------------------------------------------------------------------------
(* Steps shared by the operations.                                          *)

WriteAudit(h) ==
  /\ req[h].pc = "writeAudit"
  /\ audit' = audit \cup {req[h].log}
  /\ req' = [req EXCEPT ![h] = IF req[h].then = "idle" THEN Idle
                               ELSE [req[h] EXCEPT !.pc = req[h].then, !.log = None,
                                                   !.then = "idle"]]
  /\ UNCHANGED <<petty, entries, funded, stranded, aborts>>

\* The last save of a request committed: the audit entry is all that is left to do.
Saved(h, event) ==
  req' = [req EXCEPT ![h] = [Idle EXCEPT !.pc = "writeAudit", !.log = event]]

\* Faults: a table without its concurrency token.
CurrentPettyUnchecked(h) == TRUE
CurrentEntryUnchecked(h) == TRUE

CurrentPetty(h) == petty[req[h].p].ver = req[h].ver
CurrentEntry(h) == entries[req[h].t].ver = req[h].ver

\* The entry an unfinished approval leaves behind.
Unfinished(h) == {req[h].made} \ {None}

SavesPetty == {"saveApproval", "saveRejection", "removePetty"}
SavesEntry == {"saveEdit", "saveDecision", "removeEntry"}

\* The row's xmin has moved on: the save throws and the request ends.
StaleSave(h) ==
  /\ \/ req[h].pc \in SavesPetty /\ ~CurrentPetty(h)
     \/ req[h].pc \in SavesEntry /\ ~CurrentEntry(h)
  /\ stranded' = stranded \cup Unfinished(h)
  /\ req' = [req EXCEPT ![h] = Idle]
  /\ UNCHANGED <<petty, entries, audit, funded, aborts>>

\* The request's CancellationToken fires, the save throws, or the host restarts.
Abort(h) ==
  /\ aborts < MaxAborts
  /\ aborts' = aborts + 1
  /\ req[h].pc # "idle"
  /\ stranded' = stranded \cup Unfinished(h)
  /\ req' = [req EXCEPT ![h] = Idle]
  /\ UNCHANGED <<petty, entries, audit, funded>>

-----------------------------------------------------------------------------
(* PettyCashRequestService.                                                 *)

\* CreateAsync.
SubmitPetty(h, a, p, amount) ==
  /\ req[h].pc = "idle"
  /\ petty[p].status = "none"
  /\ petty' = [petty EXCEPT ![p] = [status |-> "Submitted", owner |-> a,
                                    amount |-> amount, link |-> None, ver |-> 1]]
  /\ Saved(h, Event("Create", p, 1))
  /\ UNCHANGED <<entries, audit, funded, stranded, aborts>>

Load(h, p, next) ==
  /\ req[h].pc = "idle"
  /\ req' = [req EXCEPT ![h].pc = next, ![h].actor = Manager, ![h].p = p,
                        ![h].ver = petty[p].ver]
  /\ UNCHANGED <<petty, entries, audit, funded, stranded, aborts>>

BeginApprove(h, p) == petty[p].status = "Submitted" /\ Load(h, p, "addFunding")
BeginReject(h, p) == petty[p].status = "Submitted" /\ Load(h, p, "saveRejection")
\* Fault: the check that an Approved request is kept is missing.
BeginRemoveApproved(h, p) ==
  petty[p].status \in {"Submitted", "Approved", "Rejected"} /\ Load(h, p, "removePetty")

BeginRemovePetty(h, p) ==
  petty[p].status \in {"Submitted", "Rejected"} /\ Load(h, p, "removePetty")

\* ApproveAsync books the issue for the requester before it marks the request.
AddFunding(h, t) ==
  LET p == req[h].p IN
  /\ req[h].pc = "addFunding"
  /\ entries[t].state = "free"
  /\ entries' = [entries EXCEPT
       ![t] = [state |-> "live", owner |-> petty[p].owner, kind |-> "issue",
               amount |-> petty[p].amount, status |-> "Approved", ver |-> 1]]
  /\ funded' = [funded EXCEPT ![t] = p]
  /\ req' = [req EXCEPT ![h].pc = "writeAudit", ![h].log = Event("Create", t, 1),
                        ![h].then = "saveApproval", ![h].made = t]
  /\ UNCHANGED <<petty, audit, stranded, aborts>>

SavePetty(h, from, action, status, link) ==
  LET p == req[h].p
      v == req[h].ver + 1
  IN
  /\ req[h].pc = from
  /\ CurrentPetty(h)
  /\ petty' = [petty EXCEPT ![p].status = status, ![p].link = link, ![p].ver = v]
  /\ Saved(h, Event(action, p, v))
  /\ UNCHANGED <<entries, audit, funded, stranded, aborts>>

\* Faults: the approval stores the request's own id, or no id, as its link.
SaveApprovalOwnId(h) == SavePetty(h, "saveApproval", "Approve", "Approved", req[h].p)
SaveApprovalUnlinked(h) == SavePetty(h, "saveApproval", "Approve", "Approved", None)

SaveApproval(h) == SavePetty(h, "saveApproval", "Approve", "Approved", req[h].made)
SaveRejection(h) == SavePetty(h, "saveRejection", "Reject", "Rejected", None)
RemovePetty(h) == SavePetty(h, "removePetty", "Delete", "deleted", None)

-----------------------------------------------------------------------------
(* TransactionService.CreateAsync and UpdateAsync.                          *)

BeginCreate(h, a, f) ==
  /\ req[h].pc = "idle"
  /\ req' = [req EXCEPT ![h].pc = IF Checked(a, f) THEN "readIssued" ELSE "insert",
                        ![h].actor = a, ![h].form = f]
  /\ UNCHANGED <<petty, entries, audit, funded, stranded, aborts>>

\* A user edits entries of his own that are not Approved; a manager edits any.
BeginEdit(h, a, t, f) ==
  /\ req[h].pc = "idle"
  /\ entries[t].state = "live"
  /\ entries[t].ver < MaxVer
  /\ a # Manager => entries[t].owner = a /\ entries[t].status # "Approved"
  /\ req' = [req EXCEPT ![h].pc = IF Checked(a, f) THEN "readIssued" ELSE "saveEdit",
                        ![h].actor = a, ![h].form = f, ![h].t = t,
                        ![h].ver = entries[t].ver, ![h].had = entries[t].amount]
  /\ UNCHANGED <<petty, entries, audit, funded, stranded, aborts>>

ReadIssued(h) ==
  /\ req[h].pc = "readIssued"
  /\ req' = [req EXCEPT ![h].pc = "readSpent", ![h].issued = Issued(req[h].actor)]
  /\ UNCHANGED <<petty, entries, audit, funded, stranded, aborts>>

\* Fault: an edit credits the old amount twice.
ReadSpentCreditingTwice(h) ==
  /\ req[h].pc = "readSpent"
  /\ req' = [req EXCEPT ![h] =
       IF req[h].form.amount > req[h].issued - Spent(req[h].actor) + 2 * req[h].had
         THEN Idle
       ELSE [req[h] EXCEPT !.pc = IF req[h].t = None THEN "insert" ELSE "saveEdit"]]
  /\ UNCHANGED <<petty, entries, audit, funded, stranded, aborts>>

\* The second query, then the check.  An edit adds back the amount the entry had,
\* whatever the entry was; too little available is a ConflictException.
ReadSpent(h) ==
  LET available == req[h].issued - Spent(req[h].actor) + req[h].had IN
  /\ req[h].pc = "readSpent"
  /\ req' = [req EXCEPT ![h] =
       IF req[h].form.amount > available THEN Idle
       ELSE [req[h] EXCEPT !.pc = IF req[h].t = None THEN "insert" ELSE "saveEdit"]]
  /\ UNCHANGED <<petty, entries, audit, funded, stranded, aborts>>

InsertEntry(h, t) ==
  LET f == req[h].form IN
  /\ req[h].pc = "insert"
  /\ entries[t].state = "free"
  /\ entries' = [entries EXCEPT
       ![t] = [state |-> "live", owner |-> req[h].actor, kind |-> f.kind,
               amount |-> f.amount, ver |-> 1,
               status |-> IF f.gated THEN "Submitted" ELSE "Approved"]]
  /\ Saved(h, Event("Create", t, 1))
  /\ UNCHANGED <<petty, audit, funded, stranded, aborts>>

\* The form replaces every field; ApprovalStatus stays what it was.
SaveEdit(h) ==
  LET t == req[h].t
      v == req[h].ver + 1
  IN
  /\ req[h].pc = "saveEdit"
  /\ CurrentEntry(h)
  /\ entries' = [entries EXCEPT ![t].kind = req[h].form.kind,
                                ![t].amount = req[h].form.amount, ![t].ver = v]
  /\ Saved(h, Event("Update", t, v))
  /\ UNCHANGED <<petty, audit, funded, stranded, aborts>>

-----------------------------------------------------------------------------
(* TransactionService.ApproveAsync, RejectAsync, DeleteAsync: managers, on   *)
(* an entry in any status.                                                  *)

BeginDecide(h, t, verdict) ==
  /\ req[h].pc = "idle"
  /\ entries[t].state = "live"
  /\ entries[t].ver < MaxVer
  /\ req' = [req EXCEPT ![h].pc = "saveDecision", ![h].actor = Manager, ![h].t = t,
                        ![h].ver = entries[t].ver, ![h].verdict = verdict]
  /\ UNCHANGED <<petty, entries, audit, funded, stranded, aborts>>

SaveDecision(h) ==
  LET t == req[h].t
      v == req[h].ver + 1
  IN
  /\ req[h].pc = "saveDecision"
  /\ CurrentEntry(h)
  /\ entries' = [entries EXCEPT
       ![t].status = IF req[h].verdict = "Approve" THEN "Approved" ELSE "Rejected",
       ![t].ver = v]
  /\ Saved(h, Event(req[h].verdict, t, v))
  /\ UNCHANGED <<petty, audit, funded, stranded, aborts>>

BeginRemoveEntry(h, t) ==
  /\ req[h].pc = "idle"
  /\ entries[t].state = "live"
  /\ req' = [req EXCEPT ![h].pc = "removeEntry", ![h].actor = Manager, ![h].t = t,
                        ![h].ver = entries[t].ver]
  /\ UNCHANGED <<petty, entries, audit, funded, stranded, aborts>>

RemoveEntry(h) ==
  LET t == req[h].t
      v == req[h].ver + 1
  IN
  /\ req[h].pc = "removeEntry"
  /\ CurrentEntry(h)
  /\ entries' = [entries EXCEPT ![t].state = "gone", ![t].ver = v]
  /\ Saved(h, Event("Delete", t, v))
  /\ UNCHANGED <<petty, audit, funded, stranded, aborts>>

-----------------------------------------------------------------------------
Next ==
  \E h \in Handler :
    \/ WriteAudit(h) \/ StaleSave(h) \/ Abort(h)
    \/ \E a \in Actor, p \in Petty, m \in Amount : SubmitPetty(h, a, p, m)
    \/ \E p \in Petty : BeginApprove(h, p) \/ BeginReject(h, p) \/ BeginRemovePetty(h, p)
    \/ \E t \in Tx : AddFunding(h, t) \/ InsertEntry(h, t)
    \/ SaveApproval(h) \/ SaveRejection(h) \/ RemovePetty(h)
    \/ \E a \in Actor, f \in Form : BeginCreate(h, a, f)
    \/ \E a \in Actor, t \in Tx, f \in Form : BeginEdit(h, a, t, f)
    \/ ReadIssued(h) \/ ReadSpent(h) \/ SaveEdit(h)
    \/ \E t \in Tx, v \in Verdict : BeginDecide(h, t, v)
    \/ SaveDecision(h)
    \/ \E t \in Tx : BeginRemoveEntry(h, t)
    \/ RemoveEntry(h)

Spec == Init /\ [][Next]_vars

-----------------------------------------------------------------------------
(* What must hold whatever the interleaving and whatever requests abort.    *)

\* What the entries of a user may add up to.
Sums == {SumFunctionOnSet(amounts, S) : amounts \in [Tx -> Amount \cup {0}], S \in SUBSET Tx}

Request == [pc: PC, actor: Actor \cup {None}, p: Petty \cup {None}, t: Tx \cup {None},
            ver: Nat, form: Form \cup {None}, had: Amount \cup {0},
            issued: Sums \cup {0},
            made: Tx \cup {None}, verdict: Verdict \cup {None},
            log: AuditEntry \cup {None}, then: {"idle", "saveApproval"}]

TypeOK ==
  /\ petty \in [Petty -> PettyRow]
  /\ entries \in [Tx -> EntryRow]
  /\ req \in [Handler -> Request]
  /\ audit \subseteq AuditEntry
  /\ funded \in [Tx -> Petty \cup {None}]
  /\ stranded \subseteq Tx
  /\ aborts \in 0 .. MaxAborts

(* Untouched rows are blank, and whatever is linked was inserted. *)
Untouched ==
  /\ \A p \in Petty : petty[p].status = "none" => petty[p] = NoPetty
  /\ \A t \in Tx : entries[t].state = "free" => entries[t] = NoEntry /\ funded[t] = None
  /\ \A p \in Petty : petty[p].link # None => entries[petty[p].link].state # "free"

(* The step a request is at, the pending audit entry set aside. *)
Stage(h) == IF req[h].pc = "writeAudit" THEN req[h].then ELSE req[h].pc

(* The statuses in which each decision loads a petty cash request.          *)
Loadable(stage) == CASE stage \in {"addFunding", "saveApproval", "saveRejection"} -> {"Submitted"}
                     [] stage = "removePetty" -> {"Submitted", "Rejected"}
                     [] OTHER -> {}
Deciding == SavesPetty \cup {"addFunding"}
Expensing == {"readIssued", "readSpent", "insert", "saveEdit"}

(* What a request in flight knows: the row it decides on is as it was loaded  *)
(* unless the version has moved on, the entry it added is its own, and the    *)
(* entry a user edits was not Approved.                                      *)
RequestOK(h) ==
  /\ req[h].pc = "idle" => req[h] = Idle
  /\ req[h].pc = "writeAudit" => req[h].log \in AuditEntry
  /\ req[h].then # "idle" => req[h].pc = "writeAudit"
  /\ Stage(h) \in Deciding =>
       /\ req[h].p \in Petty
       /\ petty[req[h].p].status # "none" /\ req[h].ver <= petty[req[h].p].ver
       /\ CurrentPetty(h) => petty[req[h].p].status \in Loadable(Stage(h))
  /\ req[h].made # None <=> Stage(h) = "saveApproval"
  /\ req[h].made # None => /\ funded[req[h].made] = req[h].p
                           /\ entries[req[h].made].state # "free"
  /\ req[h].pc \in Expensing => req[h].actor \in Actor /\ req[h].form \in Form
  /\ req[h].pc \in SavesEntry => req[h].t \in Tx
  /\ req[h].pc = "saveDecision" => req[h].verdict \in Verdict
  /\ req[h].pc \in Expensing \cup SavesEntry /\ req[h].t # None =>
       /\ entries[req[h].t].state # "free" /\ req[h].ver <= entries[req[h].t].ver
       /\ CurrentEntry(h) =>
            /\ entries[req[h].t].state = "live"
            /\ req[h].actor # Manager => entries[req[h].t].status # "Approved"

(* A petty cash request is decided once: of the approvals, rejections and    *)
(* deletions that found it Submitted, one save wins (xmin), and an Approved  *)
(* request keeps its decision and its link for good.                         *)
DecidedOnce ==
  [][\A p \in Petty :
       /\ petty[p].status \in {"Approved", "deleted"} => petty'[p] = petty[p]
       /\ petty[p].status = "Rejected" => petty'[p].status \in {"Rejected", "deleted"}]_vars

(* An Approved request names the entry that was issued for it, and no other  *)
(* request does; a request that is not Approved names none.                  *)
ApprovedNamesOwnFunding ==
  \A p \in Petty :
    /\ petty[p].link # None <=> petty[p].status = "Approved"
    /\ petty[p].link # None => funded[petty[p].link] = p

(* Every live entry issued for a petty cash request is named by that request, *)
(* Approved, or held by an approval still running, or was left behind by one  *)
(* that lost the race or was cut off: nothing else makes an untraceable       *)
(* disbursement.                                                              *)
FundingAccounted ==
  \A t \in Tx : entries[t].state = "live" /\ funded[t] # None =>
    \/ petty[funded[t]].status = "Approved" /\ petty[funded[t]].link = t
    \/ \E h \in Handler : t \in Unfinished(h)
    \/ t \in stranded

(* All of this together is preserved by every step, whatever the others do.  *)
Inductive ==
  /\ TypeOK /\ Untouched /\ ApprovedNamesOwnFunding /\ FundingAccounted
  /\ \A h \in Handler : RequestOK(h)

(* Nobody but a manager changes what an Approved entry says ("Approved       *)
(* transactions cannot be edited"), even when the approval commits between   *)
(* the user's load and the user's save.                                      *)
ApprovedOnlyEditedByManager ==
  [][\A t \in Tx :
       /\ entries[t].state = "live" /\ entries[t].status = "Approved"
       /\ <<entries'[t].kind, entries'[t].amount>> # <<entries[t].kind, entries[t].amount>>
       => \E h \in Handler : /\ req[h].t = t /\ req[h].actor = Manager
                             /\ req'[h] # req[h]]_vars

-----------------------------------------------------------------------------
(* What holds only while requests do not overlap: the balance is read and   *)
(* used in different database transactions.                                 *)

(* Neither a user's new expense nor one the user writes over another takes   *)
(* the petty cash balance below zero ("Insufficient petty cash balance").    *)
(* UpdateAsync credits the old amount of any entry, of an income entry too,  *)
(* which the balance never lost: such an edit may overdraw it.               *)
WithinBalance ==
  [][\A h \in Handler, u \in User :
       /\ req[h].actor = u /\ Checked(u, req[h].form)
       /\ \/ \E t \in Tx : InsertEntry(h, t)
          \/ SaveEdit(h) /\ entries[req[h].t].kind \in {"variant", "spend"}
       => Balance(u)' >= 0]_vars
=============================================================================
