------------------------------ MODULE WebForms ------------------------------
(***************************************************************************)
(* The forms and dialogs of the web client (FinanceLedger.Web), and what   *)
(* the server does with what they send.                                    *)
(*                                                                         *)
(* A dialog is opened on a row of a list, or on none, and sends a request  *)
(* when its button is pressed.  Buttons are disabled while it is busy, but *)
(* Escape closes it at any time, and an answer that comes late acts on     *)
(* whatever the dialog shows by then.  The list may be older than the row, *)
(* the form may show less of the row than the server saves, the schema of  *)
(* the form and the validator of the server are written separately, and    *)
(* the fields can be edited while a request is out.                        *)
(* The module follows one dialog, whichever, one row, and what the user    *)
(* enters in one field of the form.                                        *)
(***************************************************************************)
EXTENDS Naturals, FiniteSets

CONSTANTS
  Request,      \* the requests the dialog may have out at once
  None,
  MaxFillings,  \* bound: how often the dialog is filled in
  MaxChanges    \* bound: how often the row changes

ASSUME WebFormsAssumption ==
  /\ None \notin Request
  /\ MaxFillings \in Nat \ {0} /\ MaxChanges \in Nat

VARIABLES
  name,   \* the dialog that is followed (never changes)
  field,  \* the field of it that is followed, or "none" (never changes)
  row,    \* the row in the database
  listed, \* the row as the list shows it
  dlg,    \* the dialog, with what is entered in the field
  req,    \* the requests, with what was entered as they were made
  wrote,  \* history, per filling: the writes the server accepted
  saved,  \* history, per filling: the entries those writes carried
  unsure, \* history: the fillings an answer to which was lost
  left    \* history: a filling ended with its request still out

vars == <<name, field, row, listed, dlg, req, wrote, saved, unsure, left>>
-----------------------------------------------------------------------------
(* Kinds of values: white space only is "blank", more than the server takes *)
(* is "long".                                                              *)

Text == {"empty", "blank", "plain", "long"}
Filled == Text \ {"empty"}
Capped == Text \ {"long"}
Number == {"negative", "zero", "positive"}
NonNegative == Number \ {"negative"}
Positive == {"positive"}
Choice == {"none", "one"}
Chosen == {"one"}
Date == {"past", "future"}

(* The schemas: the kinds of values each field of a form lets through. *)

TransactionFields ==
  [type |-> Chosen, category |-> Chosen, amount |-> Positive, date |-> Date,
   branch |-> Chosen, description |-> Capped, relatedUserId |-> Chosen,
   carId |-> Chosen, attachments |-> Choice]
InvoiceFields ==
  [type |-> Chosen, branch |-> Chosen, invoiceDate |-> Date,
   carId |-> Chosen, clientName |-> Filled, driverName |-> Text,
   wageDeposit |-> NonNegative, fee |-> NonNegative, taxScheme |-> Chosen]
\* Fault: an amount of zero passes.
PettyFieldsZero ==
  [amount |-> NonNegative, reason |-> Filled \ {"long"}, branch |-> Chosen]
PettyFields ==
  [amount |-> Positive, reason |-> Filled \ {"long"}, branch |-> Chosen]
CarFields ==
  [branch |-> Chosen, client |-> Filled, type |-> Filled, model |-> Filled,
   plateNumber |-> Filled, monthlyBill |-> NonNegative,
   initialDebt |-> NonNegative, contractStartDate |-> Date,
   contractDurationMonths |-> Positive, notes |-> Text]
UserFields ==
  [email |-> Chosen, displayName |-> Filled, role |-> Chosen,
   assignedBranches |-> Choice, password |-> Chosen]
BranchFields == [name |-> Filled, code |-> Filled \ {"long"}, address |-> Text]
SiteFields ==
  [name |-> Filled, code |-> Chosen, adminDisplayName |-> Filled,
   adminEmail |-> Chosen, adminPassword |-> Chosen]
SiteEditFields == [name |-> {"plain", "long"}, isActive |-> Choice]
NoteFields ==
  [version |-> Filled, title |-> Filled, type |-> Chosen, notes |-> Filled]
FeedbackFields == [message |-> {"plain", "long"}, imageUrl |-> Choice]
PasswordFields == [newPassword |-> Chosen]

(* What the forms send. *)

TransactionSends == DOMAIN TransactionFields
InvoiceSends == DOMAIN InvoiceFields
PettySends == DOMAIN PettyFields
\* Fault: the notes are not part of the request.
CarSendsNoNotes == (DOMAIN CarFields \union {"isActive"}) \ {"notes"}
CarSends == DOMAIN CarFields \union {"isActive"}
UserSends == DOMAIN UserFields
BranchSends == DOMAIN BranchFields
NoteSends == DOMAIN NoteFields

(* What a form loads of the row it is opened on. *)

TransactionLoads == DOMAIN TransactionFields \ {"attachments"}
CarLoads == DOMAIN CarFields \union {"isActive"}
UserLoads == DOMAIN UserFields \ {"password"}
NoteLoads == DOMAIN NoteFields
SiteLoads == {"name", "isActive"}
-----------------------------------------------------------------------------
(* The dialogs.  on: whose rows; does: what the request asks for; offered: *)
(* the statuses for which the list offers it; busy: what keeps its buttons *)
(* disabled (the form's own flag, the pending request, nothing); cancels:  *)
(* Cancel works while it is busy; emptied: what else empties the form; ends: *)
(* what an accepted request does.                                          *)

Here == {"here"}
NoFields == [none |-> {}]

Form(on, does, offered, fields, sends, loads) ==
  [on |-> on, does |-> does, offered |-> offered, busy |-> "submitting",
   cancels |-> FALSE, emptied |-> "open", ends |-> "closes",
   fields |-> fields, sends |-> sends, loads |-> loads]
Confirm(on, does, offered) ==
  [Form(on, does, offered, NoFields, {}, {}) EXCEPT !.busy = "pending",
                                                    !.emptied = "never"]
Icon(on, does, offered) ==
  [Confirm(on, does, offered) EXCEPT !.busy = "nothing"]

TransactionForm(does, offered, loads) ==
  [Form("transaction", does, offered, TransactionFields, TransactionSends, loads)
     EXCEPT !.emptied = "branches"]
TransactionIcons ==
  [approveTransaction |-> Icon("transaction", "Approved", {"Draft", "Submitted"})]
TransactionConfirms ==
  [rejectTransaction |-> Confirm("transaction", "Rejected", {"Draft", "Submitted"}),
   deleteTransaction |->
     Confirm("transaction", "gone", {"Draft", "Submitted", "Approved", "Rejected"})]

InvoiceForm == Form("invoice", "create", {}, InvoiceFields, InvoiceSends, {})
InvoiceConfirms ==
  [payInvoice |-> Confirm("invoice", "Paid", {"Unpaid"}),
   deleteInvoice |-> Confirm("invoice", "gone", {"Unpaid"}),
   voidInvoice |-> Confirm("invoice", "Unpaid", {"Paid"})]

PettyForm == Form("petty", "create", {}, PettyFields, PettySends, {})
PettyIcons == [approvePetty |-> Icon("petty", "Approved", {"Submitted"})]
\* Fault: an approved request can be deleted too.
PettyConfirmsAny ==
  [rejectPetty |-> Confirm("petty", "Rejected", {"Submitted"}),
   deletePetty |-> Confirm("petty", "gone", {"Submitted", "Approved", "Rejected"})]
PettyConfirms ==
  [rejectPetty |-> Confirm("petty", "Rejected", {"Submitted"}),
   deletePetty |-> Confirm("petty", "gone", {"Submitted", "Rejected"})]

CarForm(does, offered, loads) ==
  [Form("car", does, offered, CarFields, CarSends, loads)
     EXCEPT !.emptied = "branches",
            !.fields = IF does = "edit"
                         THEN [f \in DOMAIN CarFields \union {"isActive"} |->
                                 IF f = "isActive" THEN Choice ELSE CarFields[f]]
                         ELSE CarFields]
UserForm(does, offered, loads) ==
  Form("user", does, offered, UserFields, UserSends, loads)
ResetPassword ==
  [Form("user", "password", Here, PasswordFields, {"newPassword"}, {})
     EXCEPT !.busy = "pending", !.cancels = TRUE, !.ends = "tells"]
BranchForm == Form("branch", "create", {}, BranchFields, BranchSends, {})
SiteForm == Form("site", "create", {}, SiteFields, DOMAIN SiteFields, {})
SiteEdit ==
  [Form("site", "edit", Here, SiteEditFields, DOMAIN SiteEditFields, SiteLoads)
     EXCEPT !.busy = "pending", !.cancels = TRUE]
NoteForm(does, offered, loads) ==
  Form("note", does, offered, NoteFields, NoteSends, loads)
NoteConfirm == Confirm("note", "gone", Here)
SeveritySelect == Icon("feedback", "here", Here)
FeedbackForm ==
  [Form("feedback", "create", {}, FeedbackFields, DOMAIN FeedbackFields, {})
     EXCEPT !.busy = "pending", !.emptied = "never", !.ends = "empties"]

Name == {"createTransaction", "editTransaction", "editOwnTransaction",
         "approveTransaction", "rejectTransaction", "deleteTransaction",
         "createInvoice", "payInvoice", "deleteInvoice", "voidInvoice",
         "createPetty", "approvePetty", "rejectPetty", "deletePetty",
         "createCar", "editCar", "createUser", "editUser", "resetPassword",
         "createBranch", "createSite", "editSite", "createNote", "editNote",
         "deleteNote", "setSeverity", "createFeedback"}
Dialog(n) ==
  CASE n = "createTransaction" -> TransactionForm("create", {}, {})
    [] n = "editTransaction" ->
         TransactionForm("edit", {"Draft", "Submitted", "Approved", "Rejected"},
                         TransactionLoads)
    [] n = "editOwnTransaction" ->
         TransactionForm("edit", {"Draft", "Submitted", "Rejected"}, TransactionLoads)
    [] n \in DOMAIN TransactionIcons -> TransactionIcons[n]
    [] n \in DOMAIN TransactionConfirms -> TransactionConfirms[n]
    [] n = "createInvoice" -> InvoiceForm
    [] n \in DOMAIN InvoiceConfirms -> InvoiceConfirms[n]
    [] n = "createPetty" -> PettyForm
    [] n \in DOMAIN PettyIcons -> PettyIcons[n]
    [] n \in DOMAIN PettyConfirms -> PettyConfirms[n]
    [] n = "createCar" -> CarForm("create", {}, {})
    [] n = "editCar" -> CarForm("edit", Here, CarLoads)
    [] n = "createUser" -> UserForm("create", {}, {})
    [] n = "editUser" -> UserForm("edit", Here, UserLoads)
    [] n = "resetPassword" -> ResetPassword
    [] n = "createBranch" -> BranchForm
    [] n = "createSite" -> SiteForm
    [] n = "editSite" -> SiteEdit
    [] n = "createNote" -> NoteForm("create", {}, {})
    [] n = "editNote" -> NoteForm("edit", Here, NoteLoads)
    [] n = "deleteNote" -> NoteConfirm
    [] n = "setSeverity" -> SeveritySelect
    [] n = "createFeedback" -> FeedbackForm
Dialogs == [n \in Name |-> Dialog(n)]
D == Dialogs[name]
-----------------------------------------------------------------------------
(* The server. *)

Statuses(on) ==
  CASE on = "transaction" -> {"Draft", "Submitted", "Approved", "Rejected"}
    [] on = "petty" -> {"Submitted", "Approved", "Rejected"}
    [] on = "invoice" -> {"Unpaid", "Paid"}
    [] OTHER -> Here

\* The statuses in which a request is not refused.
Accepts(n, d) ==
  CASE n = "editOwnTransaction" -> Statuses("transaction") \ {"Approved"}
    [] n \in {"approvePetty", "rejectPetty"} -> {"Submitted"}
    [] n = "deletePetty" -> {"Submitted", "Rejected"}
    [] n \in {"payInvoice", "deleteInvoice"} -> {"Unpaid"}
    [] n = "voidInvoice" -> {"Paid"}
    [] OTHER -> Statuses(d.on)

\* The kinds of values the validators refuse, where there is a validator.
TransactionRefuses(f, k) ==
  \/ f = "amount" /\ k # "positive"
  \/ f \in {"category", "branch", "relatedUserId", "carId"} /\ k = "none"
  \/ f = "date" /\ k = "future"
InvoiceRefuses(f, k) ==
  \/ f \in {"branch", "carId", "taxScheme"} /\ k = "none"
  \/ f = "clientName" /\ k \in {"empty", "blank"}
  \/ f \in {"clientName", "driverName"} /\ k = "long"
  \/ f \in {"wageDeposit", "fee"} /\ k = "negative"
PettyRefuses(f, k) ==
  \/ f = "amount" /\ k # "positive"
  \/ f = "reason" /\ k # "plain"
  \/ f = "branch" /\ k = "none"
CarRefuses(f, k) ==
  \/ f \in {"client", "type", "model", "plateNumber"} /\ k # "plain"
  \/ f \in {"monthlyBill", "initialDebt"} /\ k = "negative"
  \/ f = "contractDurationMonths" /\ k # "positive"
  \/ f = "branch" /\ k = "none"
  \/ f = "notes" /\ k = "long"
OtherRefuses(on, does, f, k) ==
  \/ on = "user" /\ does = "create" /\ f = "displayName" /\ k # "plain"
  \/ on = "site" /\ does = "create" /\ f \in {"name", "adminDisplayName"} /\ k # "plain"
  \/ on = "note" /\ f \in {"version", "title"} /\ k # "plain"
  \/ on = "feedback" /\ f = "message" /\ k # "plain"
Refuses(d, f, k) ==
  \/ d.on = "transaction" /\ TransactionRefuses(f, k)
  \/ d.on = "invoice" /\ InvoiceRefuses(f, k)
  \/ d.on = "petty" /\ PettyRefuses(f, k)
  \/ d.on = "car" /\ CarRefuses(f, k)
  \/ OtherRefuses(d.on, d.does, f, k)

\* The fields the services assign.
TransactionAssigns == DOMAIN TransactionFields
CarAssigns(does) ==
  DOMAIN CarFields \union (IF does = "edit" THEN {"isActive"} ELSE {})
UserAssigns(does) ==
  IF does = "edit" THEN {"displayName", "role", "assignedBranches", "isActive"}
  ELSE DOMAIN UserFields
\* Fault: a site cannot be closed.
SiteAssignsName(does) ==
  IF does = "edit" THEN {"name"} ELSE DOMAIN SiteFields
SiteAssigns(does) ==
  IF does = "edit" THEN {"name", "isActive"} ELSE DOMAIN SiteFields
Writes(d) == d.does \in {"create", "edit", "password"}
Assigns(d) ==
  CASE ~Writes(d) -> {}
    [] d.on = "transaction" -> TransactionAssigns
    [] d.on = "car" -> CarAssigns(d.does)
    [] d.on = "user" /\ d.does # "password" -> UserAssigns(d.does)
    [] d.on = "site" -> SiteAssigns(d.does)
    [] OTHER -> DOMAIN d.fields

\* What is entered in the field that is followed, if anything is: a kind of
\* value, and which one.
Untouched == [kind |-> "asis", value |-> "none"]
Refused(e) == e # Untouched /\ Refuses(D, field, e.kind)

\* What a form shows of a value it loads: of a date the day only.
Dated == {"date", "contractStartDate"}
Loaded(f, value) == IF f \in Dated /\ value = "was" THEN "day" ELSE value

\* The row after an accepted request: a field that was not sent gets the
\* default of its type, one that is left alone is written back as it is shown.
Assigned == [n \in Name |-> Assigns(Dialogs[n])]
Fields == [n \in Name |-> Assigned[n] \union DOMAIN Dialogs[n].fields]
Written(d, r) ==
  [f \in Fields[name] |->
     IF f \notin Assigned[name] THEN row.value[f]
     ELSE IF f = field /\ r.entry # Untouched /\ f \in d.sends THEN r.entry.value
     ELSE IF f \in d.sends \intersect d.loads THEN Loaded(f, r.seen.value[f])
     ELSE IF d.does = "edit" THEN "default" ELSE row.value[f]]
\* Fault: the row is put back as the form found it, its version included.
AfterOldCopy(d, r) ==
  [status |-> IF Writes(d) THEN row.status ELSE d.does,
   version |-> r.seen.version,
   value |-> IF Writes(d) THEN Written(d, r) ELSE row.value]
After(d, r) ==
  [status |-> IF Writes(d) THEN row.status ELSE d.does,
   version |-> row.version + 1,
   value |-> IF Writes(d) THEN Written(d, r) ELSE row.value]
-----------------------------------------------------------------------------
Unused ==
  [at |-> "none", filling |-> 0, seen |-> None, entry |-> Untouched, why |-> "none"]

\* The fields of a form that the user can change.
Followable == {f \in DOMAIN D.fields : D.fields[f] # {}} \union {"none"}

\* What the user may enter in a field: values that the schema lets through
\* (others are never sent).  Of the kinds that the server takes one stands for
\* all.  Bound: a field is entered twice in a filling, and then well.
Taken(d, f) == CHOOSE k \in d.fields[f] : ~Refuses(d, f, k)
Entries(d, f) ==
  IF f = "none" THEN {}
  ELSE [kind : {k \in d.fields[f] : Refuses(d, f, k)} \union {Taken(d, f)}, value : {"new"}]
       \union [kind : {Taken(d, f)}, value : {"newer"}]

Init ==
  /\ name \in Name
  /\ field \in Followable
  /\ row \in [status : Statuses(D.on), version : {1},
              value : {[f \in Fields[name] |-> "was"]}]
  /\ listed = row
  /\ \E page \in {D.ends = "empties"} :
       dlg = [open |-> page, filling |-> IF page THEN 1 ELSE 0, busy |-> None,
              seen |-> row, entry |-> Untouched, told |-> FALSE, shut |-> "user"]
  /\ req = [r \in Request |-> Unused]
  /\ wrote = [n \in 1 .. MaxFillings |-> 0]
  /\ saved = [n \in 1 .. MaxFillings |-> {}]
  /\ unsure = {}
  /\ left = FALSE

Out == {r \in Request : req[r].at \in {"sent", "accepted", "refused"}}
Deserts == \E r \in Out : req[r].filling = dlg.filling

\* The form is emptied, or filled from the row it is opened on: the form's
\* own flag says that it is not submitting.
Emptied(state, seen) ==
  [state EXCEPT !.filling = @ + 1, !.seen = seen, !.entry = Untouched,
                !.busy = IF D.emptied = "never" THEN @ ELSE None]

Open ==
  /\ D.busy # "nothing" /\ ~dlg.open
  /\ dlg.filling < MaxFillings
  /\ D.does = "create" \/ listed.status \in D.offered
  /\ dlg' = [Emptied(dlg, listed) EXCEPT !.open = TRUE]
  /\ left' = (left \/ Deserts)
  /\ UNCHANGED <<name, field, row, listed, req, wrote, saved, unsure>>

\* The branches are read anew while the form is open: it is emptied.
BranchesArrive ==
  /\ D.emptied = "branches" /\ dlg.open
  /\ dlg.filling < MaxFillings
  /\ dlg' = Emptied(dlg, dlg.seen)
  /\ left' = (left \/ Deserts)
  /\ UNCHANGED <<name, field, row, listed, req, wrote, saved, unsure>>

\* Cancel is disabled while the dialog is busy; Escape, or a click beside it,
\* never is.
Close ==
  /\ dlg.open /\ D.ends # "empties"
  /\ dlg' = [dlg EXCEPT !.open = FALSE, !.shut = "user", !.told = FALSE]
  /\ left' = (left \/ Deserts)
  /\ UNCHANGED <<name, field, row, listed, req, wrote, saved, unsure>>

\* The fields can be edited as long as they are shown, also while a request
\* is out.
Edit(e) ==
  /\ dlg.open /\ ~dlg.told
  /\ dlg.entry.value = IF e.value = "new" THEN "none" ELSE "new"
  /\ dlg' = [dlg EXCEPT !.entry = e]
  /\ UNCHANGED <<name, field, row, listed, req, wrote, saved, unsure, left>>

\* Fault: the button stays enabled while a request is out.
IdleAlways == TRUE
Idle == dlg.busy = None

\* Requests are alike: one that is free is taken.
Free(r) == req[r].at = "none" /\ r = CHOOSE q \in Request : req[q].at = "none"

\* The schema lets the field through as it is: it was loaded, or entered.
Complete == field # "none" /\ D.does # "edit" => dlg.entry # Untouched

Submit(r) ==
  /\ Free(r)
  /\ dlg.open /\ Idle /\ ~dlg.told /\ Complete
  /\ req' = [req EXCEPT ![r] = [at |-> "sent", filling |-> dlg.filling,
                                seen |-> dlg.seen, entry |-> dlg.entry,
                                why |-> "none"]]
  /\ dlg' = [dlg EXCEPT !.busy = r]
  /\ UNCHANGED <<name, field, row, listed, wrote, saved, unsure, left>>

\* An icon in the list asks for no confirmation and waits for nothing.
Click(r) ==
  /\ D.busy = "nothing" /\ Free(r)
  /\ listed.status \in D.offered
  /\ req' = [req EXCEPT ![r] = [at |-> "sent", filling |-> 0, seen |-> listed,
                                entry |-> Untouched, why |-> "none"]]
  /\ UNCHANGED <<name, field, row, listed, dlg, wrote, saved, unsure, left>>

Present == D.does = "create" \/ row.status \in Accepts(name, D)

Accept(r) ==
  /\ req[r].at = "sent"
  /\ Present /\ ~Refused(req[r].entry)
  /\ row.version <= MaxChanges
  /\ row' = After(D, req[r])
  /\ req' = [req EXCEPT ![r].at = "accepted"]
  /\ LET n == req[r].filling
     IN IF n = 0 THEN UNCHANGED <<wrote, saved>>
        ELSE /\ wrote' = [wrote EXCEPT ![n] = @ + 1]
             /\ saved' = [saved EXCEPT ![n] = @ \union {req[r].entry}]
  /\ UNCHANGED <<name, field, listed, dlg, unsure, left>>

Refuse(r) ==
  /\ req[r].at = "sent"
  /\ ~Present \/ Refused(req[r].entry)
  /\ req' = [req EXCEPT ![r].at = "refused",
                        ![r].why = IF Refused(req[r].entry) THEN "input"
                                   ELSE IF row.version = req[r].seen.version THEN "status"
                                   ELSE "stale"]
  /\ UNCHANGED <<name, field, row, listed, dlg, wrote, saved, unsure, left>>

\* A form's flag is cleared by any request of it, a pending request's only by
\* its own end.
Done(state, r) ==
  [state EXCEPT !.busy = IF D.busy = "submitting" \/ @ = r THEN None ELSE @]

\* The answer acts on the dialog as it is by now.
Succeed(r) ==
  /\ req[r].at = "accepted"
  /\ req' = [req EXCEPT ![r] = Unused]
  /\ LET state == Done(dlg, r)
     IN dlg' = CASE D.ends = "tells" -> [state EXCEPT !.told = TRUE]
                 [] D.ends = "empties" /\ dlg.filling < MaxFillings ->
                      Emptied(state, state.seen)
                 [] OTHER -> [state EXCEPT !.open = FALSE,
                                           !.shut = IF dlg.open THEN "app" ELSE @]
  /\ UNCHANGED <<name, field, row, listed, wrote, saved, unsure, left>>

\* Fault: the dialog closes whether or not the request succeeded.
FailedShut(state, r) ==
  [Done(state, r) EXCEPT !.open = FALSE, !.shut = IF state.open THEN "app" ELSE @]

\* The dialog stays, for another try.
Failed(state, r) == Done(state, r)

\* The request was refused, or it or its answer is lost.
Fail(r) ==
  /\ req[r].at # "none"
  /\ req' = [req EXCEPT ![r] = Unused]
  /\ dlg' = Failed(dlg, r)
  /\ unsure' = IF req[r].at = "accepted" THEN unsure \union {req[r].filling}
               ELSE unsure
  /\ UNCHANGED <<name, field, row, listed, wrote, saved, left>>

\* The list is read again.
Refresh ==
  /\ D.does # "create" /\ listed # row
  /\ listed' = row
  /\ UNCHANGED <<name, field, row, dlg, req, wrote, saved, unsure, left>>

\* Somebody else changes the row, in any way the server allows, or removes it.
OthersChange(status) ==
  /\ D.does # "create"
  /\ row.version <= MaxChanges /\ row.status # "gone"
  /\ row' = [row EXCEPT !.status = status, !.version = @ + 1]
  /\ UNCHANGED <<name, field, listed, dlg, req, wrote, saved, unsure, left>>
-----------------------------------------------------------------------------
Answer(r) == Accept(r) \/ Refuse(r) \/ Succeed(r) \/ Fail(r)

Next ==
  \/ Open \/ BranchesArrive \/ Close \/ Refresh
  \/ \E e \in Entries(D, field) : Edit(e)
  \/ \E r \in Request : Submit(r) \/ Click(r) \/ Answer(r)
  \/ \E status \in Statuses(D.on) \union {"gone"} : OthersChange(status)

Spec == Init /\ [][Next]_vars
-----------------------------------------------------------------------------
Value == {"was", "day", "new", "newer", "default"}
Entry == Entries(D, field) \union {Untouched}
Row == [status : Statuses(D.on) \union {"gone"}, version : 1 .. MaxChanges + 1,
        value : [Fields[name] -> Value]]

\* Types; nobody has seen a version of the row that never was.
TypeOK ==
  /\ name \in Name
  /\ field \in Followable
  /\ row \in Row /\ listed \in Row /\ listed.version <= row.version
  /\ dlg \in [open : BOOLEAN, filling : 0 .. MaxFillings,
              busy : Request \union {None}, seen : Row, entry : Entry,
              told : BOOLEAN, shut : {"user", "app"}]
  /\ dlg.seen.version <= row.version
  /\ req \in [Request -> {Unused} \union
       [at : {"sent", "accepted", "refused"}, filling : 0 .. MaxFillings,
        seen : Row, entry : Entry, why : {"none", "input", "status", "stale"}]]
  /\ \A r \in Out : req[r].seen.version <= row.version
  /\ wrote \in [1 .. MaxFillings -> 0 .. MaxChanges + 1]
  /\ saved \in [1 .. MaxFillings -> SUBSET Entry]
  /\ unsure \subseteq 0 .. MaxFillings /\ left \in BOOLEAN

\* What is entered once is written once, however often the button is pressed
\* and the request tried, unless an answer was lost or the user left (or the
\* branches emptied) a form whose request was still out: the next filling of a
\* form can then be sent twice, because the first answer clears its flag.
WrittenOnce ==
  \A n \in 1 .. MaxFillings : wrote[n] <= 1 \/ n \in unsure \/ left

\* The buttons a list offers for a row fit what the services accept: a request
\* is refused for the row's status only if the row changed since it was read.
RefusedOnlyIfStale == \A r \in Request : req[r].why # "status"

\* The schemas of the forms fit the validators of the server: of what passes
\* the first, the second refuses only text that is white space or too long,
\* and a date in the future.
PassedIsTaken ==
  \A r \in Request :
    req[r].why = "input" => req[r].entry.kind \in {"blank", "long", "future"}

Accepted(r) == req[r].at = "sent" /\ req'[r].at = "accepted"

\* What the user enters is what is saved.  Not so for two fields of the form
\* of a user, which the server does not read.
KnownDropped == {<<"editUser", "email">>, <<"editUser", "password">>}
SavesWhatItShows ==
  [][\A r \in Request :
       Accepted(r) /\ req[r].entry # Untouched /\ <<name, field>> \notin KnownDropped
         => row'.value[field] = req[r].entry.value]_vars

\* A dialog that closes, empties itself or says that it is done on its own has
\* saved what it shows, however the answers come in.  Not so when the answer is
\* to something else than what the dialog shows by then: to what was entered
\* before the user typed on, for the fields stay enabled, or to an earlier
\* filling of a dialog that was closed and opened again meanwhile.
Finishes ==
  /\ dlg.open
  /\ \/ ~dlg'.open /\ dlg'.shut = "app"
     \/ ~dlg.told /\ dlg'.told
     \/ D.ends = "empties" /\ dlg'.filling # dlg.filling
Overtaken(r) ==
  /\ req[r].at = "accepted" /\ req'[r].at = "none"
  /\ <<req[r].filling, req[r].entry>> # <<dlg.filling, dlg.entry>>
SelfShutMeansSaved ==
  [][Finishes => \/ dlg.entry \in saved[dlg.filling]
                 \/ \E r \in Request : Overtaken(r)]_vars

\* Saving a form that shows the current row changes only the field the user
\* changed.  Not so for what two forms do not load, the attachments of an entry
\* and whether a user is active, nor for what three forms load only in part:
\* the date of an entry and the start of a contract lose their time of day, if
\* they have one.
KnownErased ==
  {<<"editUser", "isActive">>, <<"editTransaction", "attachments">>,
   <<"editOwnTransaction", "attachments">>}
KnownCut ==
  {<<"editTransaction", "date">>, <<"editOwnTransaction", "date">>,
   <<"editCar", "contractStartDate">>}
KeepsTheRest ==
  [][\A r \in Request :
       Accepted(r) /\ req[r].seen.version = row.version
         => \A f \in Fields[name] \ (IF req[r].entry = Untouched THEN {} ELSE {field}) :
              \/ row'.value[f] = row.value[f]
              \/ <<name, f>> \in KnownErased
              \/ <<name, f>> \in KnownCut /\ row'.value[f] = Loaded(f, row.value[f])]_vars

-----------------------------------------------------------------------------
(* The inductive strengthening of the invariants above. *)

\* A copy of the row as old as the row is the row.
CopiesTrue ==
  /\ listed.version = row.version => listed = row
  /\ dlg.seen.version = row.version => dlg.seen = row
  /\ \A r \in Out : req[r].seen.version = row.version => req[r].seen = row

\* A dialog is open on, and a request was made for, a row the list offers it for.
OfferedFor ==
  D.does # "create" =>
    /\ dlg.open => dlg.seen.status \in D.offered
    /\ \A r \in Out : req[r].seen.status \in D.offered

\* Fillings are numbered as they come; an icon has none.
FillingsCounted ==
  /\ dlg.filling > 0 \/ (~dlg.open /\ ~dlg.told /\ dlg.shut = "user")
  /\ D.busy = "nothing" => dlg.filling = 0
  /\ dlg.told => D.ends = "tells"
  /\ \A r \in Out : req[r].filling <= dlg.filling
                    /\ (req[r].filling = 0 <=> D.busy = "nothing")
                    /\ (req[r].at = "accepted" /\ req[r].filling # 0
                          => /\ wrote[req[r].filling] > 0
                             /\ req[r].entry \in saved[req[r].filling])
  /\ \A n \in 1 .. MaxFillings : /\ n > dlg.filling => wrote[n] = 0
                                 /\ wrote[n] < row.version

\* Until a form is left with its request out, the request that is out is the
\* one the dialog waits for, and a filling that is saved is done with.
OneOut ==
  ~left /\ D.busy # "nothing" =>
    /\ \A r \in Out : dlg.busy = r /\ req[r].filling = dlg.filling /\ dlg.open
    /\ dlg.told => dlg.open
    /\ dlg.filling > 0 /\ wrote[dlg.filling] > 0 /\ dlg.filling \notin unsure =>
         \/ \E r \in Out : req[r].at = "accepted"
         \/ Out = {} /\ (~dlg.open \/ dlg.told)

Inductive ==
  /\ TypeOK /\ CopiesTrue /\ OfferedFor /\ FillingsCounted /\ OneOut
  /\ WrittenOnce /\ RefusedOnlyIfStale /\ PassedIsTaken

\* Violated: only the delete request, an endpoint of its own, deactivates a
\* user.
UserStaysActive == name = "editUser" => row.value["isActive"] = "was"
=============================================================================
