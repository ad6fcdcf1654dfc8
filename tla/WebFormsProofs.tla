---------------------------- MODULE WebFormsProofs ----------------------------
(***************************************************************************)
(* Theorems about WebForms, for any number of requests, fillings and       *)
(* changes of the row, and for all 27 dialogs.  The argument has two       *)
(* halves.  The table of dialogs is checked against the validators and     *)
(* services field by field (DialogFacts), which is about constants alone.  *)
(* The rest is about any dialog with those facts: a copy of the row as old *)
(* as the row is the row, and until a form is left with its request out,   *)
(* the only request out is the one the dialog waits for.                   *)
(***************************************************************************)
EXTENDS WebForms, TLAPS

USE WebFormsAssumption

-----------------------------------------------------------------------------
(* The table of dialogs. *)

\* What a validator may refuse of what a schema lets through.
Kept == {"blank", "long", "future"}

\* What the 27 dialogs have in common.
Sound(n, d) ==
  /\ d.does \in {"create", "edit", "password", "gone"} \union Statuses(d.on)
  /\ d.does # "create" => d.offered \subseteq Accepts(n, d)
  /\ d.busy = "nothing" => d.ends = "closes" /\ d.emptied = "never"
  /\ d.emptied = "branches" => d.ends = "closes"
  /\ d.ends = "empties" => d.does = "create" /\ d.busy # "nothing"

\* What a schema lets through and a validator refuses is blank, long or too late,
\* and every field has a value that both take.
Fits(d) ==
  \A f \in DOMAIN d.fields :
    /\ \A k \in d.fields[f] : Refuses(d, f, k) => k \in Kept
    /\ d.fields[f] # {} => \E k \in d.fields[f] : ~Refuses(d, f, k)

\* What a form shows it sends, and its service saves; what it changes it has loaded,
\* and in full unless it is one of the dates.
Saves(n, d) ==
  /\ \A f \in DOMAIN d.fields : d.fields[f] # {} =>
       Writes(d) /\ (f \in Assigns(d) \intersect d.sends \/ <<n, f>> \in KnownDropped)
  /\ d.does = "edit" => \A f \in Assigns(d) :
       f \in d.sends \intersect d.loads \/ <<n, f>> \in KnownErased
  /\ \A f \in d.loads \intersect Dated : <<n, f>> \in KnownCut

\* The dialogs with a form; the others ask to confirm, or not even that.
Forms == {"createTransaction", "editTransaction", "editOwnTransaction", "createInvoice",
          "createPetty", "createCar", "editCar", "createUser", "editUser", "resetPassword",
          "createBranch", "createSite", "editSite", "createNote", "editNote",
          "createFeedback"}

\* The dialogs one by one, as the CASE of Dialog gives them.
LEMMA FormTable ==
  /\ Dialogs["createTransaction"] = TransactionForm("create", {}, {})
  /\ Dialogs["editTransaction"] =
       TransactionForm("edit", {"Draft", "Submitted", "Approved", "Rejected"},
         TransactionLoads)
  /\ Dialogs["editOwnTransaction"] =
       TransactionForm("edit", {"Draft", "Submitted", "Rejected"}, TransactionLoads)
  /\ Dialogs["createInvoice"] = InvoiceForm
  /\ Dialogs["createPetty"] = PettyForm
  /\ Dialogs["createCar"] = CarForm("create", {}, {})
  /\ Dialogs["editCar"] = CarForm("edit", Here, CarLoads)
  /\ Dialogs["createUser"] = UserForm("create", {}, {})
  /\ Dialogs["editUser"] = UserForm("edit", Here, UserLoads)
  /\ Dialogs["resetPassword"] = ResetPassword
  /\ Dialogs["createBranch"] = BranchForm
  /\ Dialogs["createSite"] = SiteForm
  /\ Dialogs["editSite"] = SiteEdit
  /\ Dialogs["createNote"] = NoteForm("create", {}, {})
  /\ Dialogs["editNote"] = NoteForm("edit", Here, NoteLoads)
  /\ Dialogs["createFeedback"] = FeedbackForm
BY DEF Dialogs, Name, Dialog, TransactionIcons, TransactionConfirms, InvoiceConfirms,
       PettyIcons, PettyConfirms, NoteConfirm, SeveritySelect

\* The same for the confirmations and icons.
LEMMA ConfirmTable ==
  /\ Dialogs["approveTransaction"] =
       Icon("transaction", "Approved", {"Draft", "Submitted"})
  /\ Dialogs["rejectTransaction"] =
       Confirm("transaction", "Rejected", {"Draft", "Submitted"})
  /\ Dialogs["deleteTransaction"] =
       Confirm("transaction", "gone", {"Draft", "Submitted", "Approved", "Rejected"})
  /\ Dialogs["payInvoice"] = Confirm("invoice", "Paid", {"Unpaid"})
  /\ Dialogs["deleteInvoice"] = Confirm("invoice", "gone", {"Unpaid"})
  /\ Dialogs["voidInvoice"] = Confirm("invoice", "Unpaid", {"Paid"})
  /\ Dialogs["approvePetty"] = Icon("petty", "Approved", {"Submitted"})
  /\ Dialogs["rejectPetty"] = Confirm("petty", "Rejected", {"Submitted"})
  /\ Dialogs["deletePetty"] =
       Confirm("petty", "gone", {"Submitted", "Rejected"})
  /\ Dialogs["deleteNote"] = Confirm("note", "gone", Here)
  /\ Dialogs["setSeverity"] = Icon("feedback", "here", Here)
BY DEF Dialogs, Name, Dialog, TransactionIcons, TransactionConfirms, InvoiceConfirms,
       PettyIcons, PettyConfirms, NoteConfirm, SeveritySelect

\* No dialog is missing from the two tables.
LEMMA DialogNames ==
  Name = Forms \union {"approveTransaction", "rejectTransaction", "deleteTransaction",
                       "payInvoice", "deleteInvoice", "voidInvoice", "approvePetty",
                       "rejectPetty", "deletePetty", "deleteNote", "setSeverity"}
BY DEF Name, Forms

\* Each form has the first fact: the statuses its list offers it for are ones its
\* service accepts.
LEMMA FormsSound == \A n \in Forms : Sound(n, Dialogs[n])
<1>1. Sound("createTransaction", Dialogs["createTransaction"])
  BY FormTable DEF Sound, Form, Accepts, Statuses, Here, TransactionForm, TransactionFields,
     TransactionSends, TransactionLoads
<1>2. Sound("editTransaction", Dialogs["editTransaction"])
  BY FormTable DEF Sound, Form, Accepts, Statuses, Here, TransactionForm, TransactionFields,
     TransactionSends, TransactionLoads
<1>3. Sound("editOwnTransaction", Dialogs["editOwnTransaction"])
  BY FormTable DEF Sound, Form, Accepts, Statuses, Here, TransactionForm, TransactionFields,
     TransactionSends, TransactionLoads
<1>4. Sound("createInvoice", Dialogs["createInvoice"])
  BY FormTable DEF Sound, Form, Accepts, Statuses, Here, InvoiceForm, InvoiceFields,
     InvoiceSends
<1>5. Sound("createPetty", Dialogs["createPetty"])
  BY FormTable DEF Sound, Form, Accepts, Statuses, Here, PettyForm, PettyFields, PettySends
<1>6. Sound("createCar", Dialogs["createCar"])
  BY FormTable DEF Sound, Form, Accepts, Statuses, Here, CarForm, CarFields, CarSends,
     CarLoads
<1>7. Sound("editCar", Dialogs["editCar"])
  BY FormTable DEF Sound, Form, Accepts, Statuses, Here, CarForm, CarFields, CarSends,
     CarLoads
<1>8. Sound("createUser", Dialogs["createUser"])
  BY FormTable DEF Sound, Form, Accepts, Statuses, Here, UserForm, UserFields, UserSends,
     UserLoads
<1>9. Sound("editUser", Dialogs["editUser"])
  BY FormTable DEF Sound, Form, Accepts, Statuses, Here, UserForm, UserFields, UserSends,
     UserLoads
<1>10. Sound("resetPassword", Dialogs["resetPassword"])
  BY FormTable DEF Sound, Form, Accepts, Statuses, Here, ResetPassword, PasswordFields
<1>11. Sound("createBranch", Dialogs["createBranch"])
  BY FormTable DEF Sound, Form, Accepts, Statuses, Here, BranchForm, BranchFields,
     BranchSends
<1>12. Sound("createSite", Dialogs["createSite"])
  BY FormTable DEF Sound, Form, Accepts, Statuses, Here, SiteForm, SiteEdit, SiteFields,
     SiteEditFields, SiteLoads
<1>13. Sound("editSite", Dialogs["editSite"])
  BY FormTable DEF Sound, Form, Accepts, Statuses, Here, SiteForm, SiteEdit, SiteFields,
     SiteEditFields, SiteLoads
<1>14. Sound("createNote", Dialogs["createNote"])
  BY FormTable DEF Sound, Form, Accepts, Statuses, Here, NoteForm, NoteFields, NoteSends,
     NoteLoads
<1>15. Sound("editNote", Dialogs["editNote"])
  BY FormTable DEF Sound, Form, Accepts, Statuses, Here, NoteForm, NoteFields, NoteSends,
     NoteLoads
<1>16. Sound("createFeedback", Dialogs["createFeedback"])
  BY FormTable DEF Sound, Form, Accepts, Statuses, Here, FeedbackForm, FeedbackFields
<1>17. QED
  BY <1>1, <1>2, <1>3, <1>4, <1>5, <1>6, <1>7, <1>8, <1>9, <1>10, <1>11, <1>12, <1>13,
     <1>14, <1>15, <1>16 DEF Forms

\* Each form has the second: its schema against the validator, field by field.
LEMMA FormsFit == \A n \in Forms : Fits(Dialogs[n])
<1>1. Fits(Dialogs["createTransaction"])
  BY FormTable DEF Fits, Form, Refuses, Kept, TransactionRefuses, OtherRefuses, Text,
     Filled, Capped, Number, NonNegative, Positive, Choice, Chosen, Date, TransactionForm,
     TransactionFields, TransactionSends, TransactionLoads
<1>2. Fits(Dialogs["editTransaction"])
  BY FormTable DEF Fits, Form, Refuses, Kept, TransactionRefuses, OtherRefuses, Text,
     Filled, Capped, Number, NonNegative, Positive, Choice, Chosen, Date, TransactionForm,
     TransactionFields, TransactionSends, TransactionLoads
<1>3. Fits(Dialogs["editOwnTransaction"])
  BY FormTable DEF Fits, Form, Refuses, Kept, TransactionRefuses, OtherRefuses, Text,
     Filled, Capped, Number, NonNegative, Positive, Choice, Chosen, Date, TransactionForm,
     TransactionFields, TransactionSends, TransactionLoads
<1>4. Fits(Dialogs["createInvoice"])
  BY FormTable DEF Fits, Form, Refuses, Kept, InvoiceRefuses, OtherRefuses, Text, Filled,
     Capped, Number, NonNegative, Positive, Choice, Chosen, Date, InvoiceForm,
     InvoiceFields, InvoiceSends
<1>5. Fits(Dialogs["createPetty"])
  BY FormTable DEF Fits, Form, Refuses, Kept, PettyRefuses, OtherRefuses, Text, Filled,
     Capped, Number, NonNegative, Positive, Choice, Chosen, Date, PettyForm, PettyFields,
     PettySends
<1>6. Fits(Dialogs["createCar"])
  BY FormTable DEF Fits, Form, Refuses, Kept, CarRefuses, OtherRefuses, Text, Filled,
     Capped, Number, NonNegative, Positive, Choice, Chosen, Date, CarForm, CarFields,
     CarSends, CarLoads
<1>7. Fits(Dialogs["editCar"])
  <2> DEFINE d == Dialogs["editCar"]
  <2>1. d.on = "car" /\ d.does = "edit"
    BY FormTable DEF CarForm, Form
  <2>2. d.fields = [f \in DOMAIN CarFields \union {"isActive"} |->
                      IF f = "isActive" THEN Choice ELSE CarFields[f]]
    BY FormTable DEF CarForm, Form
  <2> HIDE DEF d
  <2>3. ASSUME NEW f \in DOMAIN CarFields
        PROVE  /\ \A k \in CarFields[f] : Refuses(d, f, k) => k \in Kept
               /\ \E k \in CarFields[f] : ~Refuses(d, f, k)
    BY <2>1, <2>3 DEF CarFields, Refuses, CarRefuses, OtherRefuses, Kept, Text, Filled,
       Number, NonNegative, Positive, Chosen, Date
  <2>4. \A k \in Choice : ~Refuses(d, "isActive", k)
    BY <2>1 DEF Refuses, CarRefuses, OtherRefuses
  <2>5. "none" \in Choice
    BY DEF Choice
  <2>6. QED
    BY <2>2, <2>3, <2>4, <2>5 DEF Fits, d
<1>8. Fits(Dialogs["createUser"])
  BY FormTable DEF Fits, Form, Refuses, Kept, OtherRefuses, Text, Filled, Capped, Number,
     NonNegative, Positive, Choice, Chosen, Date, UserForm, UserFields, UserSends, UserLoads
<1>9. Fits(Dialogs["editUser"])
  BY FormTable DEF Fits, Form, Refuses, Kept, OtherRefuses, Text, Filled, Capped, Number,
     NonNegative, Positive, Choice, Chosen, Date, UserForm, UserFields, UserSends, UserLoads
<1>10. Fits(Dialogs["resetPassword"])
  BY FormTable DEF Fits, Form, Refuses, Kept, OtherRefuses, Text, Filled, Capped, Number,
     NonNegative, Positive, Choice, Chosen, Date, ResetPassword, PasswordFields
<1>11. Fits(Dialogs["createBranch"])
  BY FormTable DEF Fits, Form, Refuses, Kept, OtherRefuses, Text, Filled, Capped, Number,
     NonNegative, Positive, Choice, Chosen, Date, BranchForm, BranchFields, BranchSends
<1>12. Fits(Dialogs["createSite"])
  BY FormTable DEF Fits, Form, Refuses, Kept, OtherRefuses, Text, Filled, Capped, Number,
     NonNegative, Positive, Choice, Chosen, Date, SiteForm, SiteEdit, SiteFields,
     SiteEditFields, SiteLoads
<1>13. Fits(Dialogs["editSite"])
  BY FormTable DEF Fits, Form, Refuses, Kept, OtherRefuses, Text, Filled, Capped, Number,
     NonNegative, Positive, Choice, Chosen, Date, SiteForm, SiteEdit, SiteFields,
     SiteEditFields, SiteLoads
<1>14. Fits(Dialogs["createNote"])
  BY FormTable DEF Fits, Form, Refuses, Kept, OtherRefuses, Text, Filled, Capped, Number,
     NonNegative, Positive, Choice, Chosen, Date, NoteForm, NoteFields, NoteSends, NoteLoads
<1>15. Fits(Dialogs["editNote"])
  BY FormTable DEF Fits, Form, Refuses, Kept, OtherRefuses, Text, Filled, Capped, Number,
     NonNegative, Positive, Choice, Chosen, Date, NoteForm, NoteFields, NoteSends, NoteLoads
<1>16. Fits(Dialogs["createFeedback"])
  BY FormTable DEF Fits, Form, Refuses, Kept, OtherRefuses, Text, Filled, Capped, Number,
     NonNegative, Positive, Choice, Chosen, Date, FeedbackForm, FeedbackFields
<1>17. QED
  BY <1>1, <1>2, <1>3, <1>4, <1>5, <1>6, <1>7, <1>8, <1>9, <1>10, <1>11, <1>12, <1>13,
     <1>14, <1>15, <1>16 DEF Forms

\* Each form has the third: what it sends against what the service assigns.
LEMMA FormsSave == \A n \in Forms : Saves(n, Dialogs[n])
<1>1. Saves("createTransaction", Dialogs["createTransaction"])
  BY FormTable DEF Saves, Form, Writes, Assigns, TransactionAssigns, CarAssigns,
     UserAssigns, SiteAssigns, KnownDropped, KnownErased, KnownCut, Dated,
     TransactionForm, TransactionFields, TransactionSends, TransactionLoads
<1>2. Saves("editTransaction", Dialogs["editTransaction"])
  BY FormTable DEF Saves, Form, Writes, Assigns, TransactionAssigns, CarAssigns,
     UserAssigns, SiteAssigns, KnownDropped, KnownErased, KnownCut, Dated,
     TransactionForm, TransactionFields, TransactionSends, TransactionLoads
<1>3. Saves("editOwnTransaction", Dialogs["editOwnTransaction"])
  BY FormTable DEF Saves, Form, Writes, Assigns, TransactionAssigns, CarAssigns,
     UserAssigns, SiteAssigns, KnownDropped, KnownErased, KnownCut, Dated,
     TransactionForm, TransactionFields, TransactionSends, TransactionLoads
<1>4. Saves("createInvoice", Dialogs["createInvoice"])
  BY FormTable DEF Saves, Form, Writes, Assigns, TransactionAssigns, CarAssigns,
     UserAssigns, SiteAssigns, KnownDropped, KnownErased, KnownCut, Dated,
     InvoiceForm, InvoiceFields, InvoiceSends
<1>5. Saves("createPetty", Dialogs["createPetty"])
  BY FormTable DEF Saves, Form, Writes, Assigns, TransactionAssigns, CarAssigns,
     UserAssigns, SiteAssigns, KnownDropped, KnownErased, KnownCut, Dated, PettyForm,
     PettyFields, PettySends
<1>6. Saves("createCar", Dialogs["createCar"])
  BY FormTable DEF Saves, Form, Writes, Assigns, TransactionAssigns, CarAssigns,
     UserAssigns, SiteAssigns, KnownDropped, KnownErased, KnownCut, Dated, CarForm,
     CarFields, CarSends, CarLoads
<1>7. Saves("editCar", Dialogs["editCar"])
  BY FormTable DEF Saves, Form, Writes, Assigns, TransactionAssigns, CarAssigns,
     UserAssigns, SiteAssigns, KnownDropped, KnownErased, KnownCut, Dated, CarForm,
     CarFields, CarSends, CarLoads
<1>8. Saves("createUser", Dialogs["createUser"])
  BY FormTable DEF Saves, Form, Writes, Assigns, TransactionAssigns, CarAssigns,
     UserAssigns, SiteAssigns, KnownDropped, KnownErased, KnownCut, Dated, UserForm,
     UserFields, UserSends, UserLoads
<1>9. Saves("editUser", Dialogs["editUser"])
  BY FormTable DEF Saves, Form, Writes, Assigns, TransactionAssigns, CarAssigns,
     UserAssigns, SiteAssigns, KnownDropped, KnownErased, KnownCut, Dated, UserForm,
     UserFields, UserSends, UserLoads
<1>10. Saves("resetPassword", Dialogs["resetPassword"])
  BY FormTable DEF Saves, Form, Writes, Assigns, TransactionAssigns, CarAssigns,
     UserAssigns, SiteAssigns, KnownDropped, KnownErased, KnownCut, Dated,
     ResetPassword, PasswordFields
<1>11. Saves("createBranch", Dialogs["createBranch"])
  BY FormTable DEF Saves, Form, Writes, Assigns, TransactionAssigns, CarAssigns,
     UserAssigns, SiteAssigns, KnownDropped, KnownErased, KnownCut, Dated, BranchForm,
     BranchFields, BranchSends
<1>12. Saves("createSite", Dialogs["createSite"])
  BY FormTable DEF Saves, Form, Writes, Assigns, TransactionAssigns, CarAssigns,
     UserAssigns, SiteAssigns, KnownDropped, KnownErased, KnownCut, Dated, SiteForm,
     SiteEdit, SiteFields, SiteEditFields, SiteLoads
<1>13. Saves("editSite", Dialogs["editSite"])
  BY FormTable DEF Saves, Form, Writes, Assigns, TransactionAssigns, CarAssigns,
     UserAssigns, SiteAssigns, KnownDropped, KnownErased, KnownCut, Dated, SiteForm,
     SiteEdit, SiteFields, SiteEditFields, SiteLoads
<1>14. Saves("createNote", Dialogs["createNote"])
  BY FormTable DEF Saves, Form, Writes, Assigns, TransactionAssigns, CarAssigns,
     UserAssigns, SiteAssigns, KnownDropped, KnownErased, KnownCut, Dated, NoteForm,
     NoteFields, NoteSends, NoteLoads
<1>15. Saves("editNote", Dialogs["editNote"])
  BY FormTable DEF Saves, Form, Writes, Assigns, TransactionAssigns, CarAssigns,
     UserAssigns, SiteAssigns, KnownDropped, KnownErased, KnownCut, Dated, NoteForm,
     NoteFields, NoteSends, NoteLoads
<1>16. Saves("createFeedback", Dialogs["createFeedback"])
  BY FormTable DEF Saves, Form, Writes, Assigns, TransactionAssigns, CarAssigns,
     UserAssigns, SiteAssigns, KnownDropped, KnownErased, KnownCut, Dated,
     FeedbackForm, FeedbackFields
<1>17. QED
  BY <1>1, <1>2, <1>3, <1>4, <1>5, <1>6, <1>7, <1>8, <1>9, <1>10, <1>11, <1>12, <1>13,
     <1>14, <1>15, <1>16 DEF Forms

\* Neither a confirmation nor an icon sends anything of a form.
LEMMA NoForm ==
  ASSUME NEW n \in Name, NEW d, d.fields = NoFields, d.loads = {}, ~Writes(d),
         Sound(n, d)
  PROVE  Fits(d) /\ Saves(n, d)
BY DEF Fits, Saves, NoFields, Writes

\* The other dialogs have all three.
LEMMA ConfirmsSound ==
  ASSUME NEW n \in Name \ Forms
  PROVE  Sound(n, Dialogs[n]) /\ Fits(Dialogs[n]) /\ Saves(n, Dialogs[n])
<1> DEFINE Good(m) == /\ Sound(m, Dialogs[m]) /\ ~Writes(Dialogs[m])
                      /\ Dialogs[m].fields = NoFields /\ Dialogs[m].loads = {}
<1>1. Good("approveTransaction")
  BY ConfirmTable DEF Icon, Confirm, Form, Sound, Accepts, Statuses, Here, Writes
<1>2. Good("rejectTransaction")
  BY ConfirmTable DEF Icon, Confirm, Form, Sound, Accepts, Statuses, Here, Writes
<1>3. Good("deleteTransaction")
  BY ConfirmTable DEF Icon, Confirm, Form, Sound, Accepts, Statuses, Here, Writes
<1>4. Good("payInvoice")
  BY ConfirmTable DEF Icon, Confirm, Form, Sound, Accepts, Statuses, Here, Writes
<1>5. Good("deleteInvoice")
  BY ConfirmTable DEF Icon, Confirm, Form, Sound, Accepts, Statuses, Here, Writes
<1>6. Good("voidInvoice")
  BY ConfirmTable DEF Icon, Confirm, Form, Sound, Accepts, Statuses, Here, Writes
<1>7. Good("approvePetty")
  BY ConfirmTable DEF Icon, Confirm, Form, Sound, Accepts, Statuses, Here, Writes
<1>8. Good("rejectPetty")
  BY ConfirmTable DEF Icon, Confirm, Form, Sound, Accepts, Statuses, Here, Writes
<1>9. Good("deletePetty")
  BY ConfirmTable DEF Icon, Confirm, Form, Sound, Accepts, Statuses, Here, Writes
<1>10. Good("deleteNote")
  BY ConfirmTable DEF Icon, Confirm, Form, Sound, Accepts, Statuses, Here, Writes
<1>11. Good("setSeverity")
  BY ConfirmTable DEF Icon, Confirm, Form, Sound, Accepts, Statuses, Here, Writes
<1> HIDE DEF Good
<1>12. Good(n)
  BY DialogNames, <1>1, <1>2, <1>3, <1>4, <1>5, <1>6, <1>7, <1>8, <1>9, <1>10, <1>11
<1>13. QED
  BY <1>12, NoForm DEF Good

\* Every dialog has these three facts.
LEMMA DialogFacts ==
  ASSUME NEW n \in Name
  PROVE  Sound(n, Dialogs[n]) /\ Fits(Dialogs[n]) /\ Saves(n, Dialogs[n])
<1>1. CASE n \in Forms
  BY <1>1, FormsSound, FormsFit, FormsSave
<1>2. CASE n \notin Forms
  BY <1>2, ConfirmsSound
<1>3. QED
  BY <1>1, <1>2
-----------------------------------------------------------------------------
(* The state: what every step may use of Inductive.                         *)

Sent == [at : {"sent", "accepted", "refused"}, filling : 0 .. MaxFillings,
         seen : Row, entry : Entry, why : {"none", "input", "status", "stale"}]
State == [open : BOOLEAN, filling : 0 .. MaxFillings,
          busy : Request \union {None}, seen : Row, entry : Entry,
          told : BOOLEAN, shut : {"user", "app"}]

\* Types of the variables and of what is read from them.
LEMMA Types ==
  ASSUME TypeOK
  PROVE  /\ name \in Name /\ row \in Row /\ listed \in Row /\ dlg \in State
         /\ dlg.seen \in Row /\ dlg.filling \in 0 .. MaxFillings /\ dlg.entry \in Entry
         /\ row.version \in 1 .. MaxChanges + 1
         /\ req \in [Request -> {Unused} \union Sent]
         /\ \A r \in Request : r \in Out <=> req[r].at # "none"
         /\ \A r \in Out : req[r] \in Sent /\ req[r].seen \in Row /\ req[r].entry \in Entry
                        /\ req[r].filling \in 0 .. MaxFillings
         /\ wrote \in [1 .. MaxFillings -> 0 .. MaxChanges + 1]
         /\ saved \in [1 .. MaxFillings -> SUBSET Entry]
<1>1. /\ name \in Name /\ row \in Row /\ listed \in Row /\ dlg \in State
      /\ req \in [Request -> {Unused} \union Sent]
      /\ wrote \in [1 .. MaxFillings -> 0 .. MaxChanges + 1]
      /\ saved \in [1 .. MaxFillings -> SUBSET Entry]
  BY DEF TypeOK, State, Sent
<1>2. dlg.seen \in Row /\ dlg.filling \in 0 .. MaxFillings /\ dlg.entry \in Entry
  BY <1>1 DEF State
<1>3. row.version \in 1 .. MaxChanges + 1
  BY <1>1 DEF Row
<1>4. \A r \in Request : r \in Out <=> req[r].at # "none"
  BY <1>1 DEF Out, Sent, Unused
<1>5. \A r \in Out : req[r] \in Sent
  BY <1>1 DEF Out, Unused
<1>6. \A r \in Out : /\ req[r].seen \in Row /\ req[r].entry \in Entry
                     /\ req[r].filling \in 0 .. MaxFillings
  BY <1>5 DEF Sent
<1>7. QED
  BY <1>1, <1>2, <1>3, <1>4, <1>5, <1>6

\* What the dialog that is followed is, from the table.
LEMMA Followed ==
  ASSUME TypeOK
  PROVE  Sound(name, D) /\ Fits(D) /\ Saves(name, D)
BY DialogFacts DEF TypeOK, D

\* The dialog never changes, nor do the types that depend on it.
LEMMA SameDialog ==
  ASSUME name' = name, field' = field
  PROVE  /\ D' = D /\ Row' = Row /\ State' = State /\ Sent' = Sent
         /\ Entry' = Entry /\ Followable' = Followable
<1>1. D' = D
  BY DEF D
<1>2. Row' = Row /\ Entry' = Entry /\ Followable' = Followable
  BY <1>1 DEF Row, Entry, Followable
<1>3. QED
  BY <1>1, <1>2 DEF State, Sent

\* What is entered is entered in a field of the form, and refused only as
\* PassedIsTaken says.
LEMMA Entered ==
  ASSUME TypeOK, NEW e \in Entry
  PROVE  /\ Refused(e) => e.kind \in Kept
         /\ e # Untouched => /\ field \in DOMAIN D.fields /\ D.fields[field] # {}
                            /\ e.value \in {"new", "newer"}
<1>1. CASE e = Untouched
  BY <1>1 DEF Refused
<1>2. CASE e # Untouched
  <2>1. field # "none" /\ e \in Entries(D, field)
    BY <1>2 DEF Entry, Entries
  <2>2. field \in DOMAIN D.fields /\ D.fields[field] # {}
    BY <2>1 DEF TypeOK, Followable
  <2>3. /\ e.kind \in {k \in D.fields[field] : Refuses(D, field, k)}
                       \union {Taken(D, field)}
        /\ e.value \in {"new", "newer"}
    BY <2>1 DEF Entries
  <2>4. \E k \in D.fields[field] : ~Refuses(D, field, k)
    BY <2>2, Followed DEF Fits
  <2>5. ~Refuses(D, field, Taken(D, field))
    BY <2>4 DEF Taken
  <2>6. Refuses(D, field, e.kind) => e.kind \in Kept
    BY <2>2, <2>3, <2>5, Followed DEF Fits
  <2>7. QED
    BY <2>2, <2>3, <2>6 DEF Refused
<1>3. QED
  BY <1>1, <1>2

\* A form that is left or filled anew with no request out leaves none behind.
LEMMA NoneLeft ==
  ASSUME TypeOK, OneOut, D.busy # "nothing", left' = (left \/ Deserts), ~left'
  PROVE  Out = {} /\ ~left
BY DEF OneOut, Deserts

\* A refusal is never for the status the list offers the dialog for, nor for a
\* value that the schema should have stopped.
LEMMA Refusals ==
  ASSUME RefusedOnlyIfStale, PassedIsTaken, NEW r \in Request,
         \A q \in Request \ {r} : req'[q] = req[q],
         \/ req'[r].why \in {"none", "stale"}
         \/ req'[r].why = req[r].why /\ req'[r].entry = req[r].entry
         \/ req'[r].why = "input" /\ req'[r].entry.kind \in Kept
  PROVE  RefusedOnlyIfStale' /\ PassedIsTaken'
<1>1. req'[r].why # "status" /\ (req'[r].why = "input" => req'[r].entry.kind \in Kept)
  BY DEF RefusedOnlyIfStale, PassedIsTaken, Kept
<1>2. QED
  BY <1>1 DEF RefusedOnlyIfStale, PassedIsTaken, Kept

\* Nor does a step that touches no request make one.
LEMMA SameRefusals ==
  ASSUME RefusedOnlyIfStale, PassedIsTaken, UNCHANGED req
  PROVE  RefusedOnlyIfStale' /\ PassedIsTaken'
BY DEF RefusedOnlyIfStale, PassedIsTaken

-----------------------------------------------------------------------------
(* One lemma per action. *)

\* A dialog that is opened, or emptied, begins a filling nothing was written for.
LEMMA NewFilling ==
  ASSUME Inductive, NEW seen \in Row, NEW state \in State,
         D.busy # "nothing", dlg.filling < MaxFillings,
         seen.version <= row.version, seen.version = row.version => seen = row,
         D.does # "create" => seen.status \in D.offered,
         state.filling = dlg.filling + 1, state.seen = seen, state.open = TRUE,
         state.told => left, state.told => D.ends = "tells",
         dlg' = state, left' = (left \/ Deserts),
         UNCHANGED <<name, field, row, listed, req, wrote, saved, unsure>>
  PROVE  Inductive'
<1>1. /\ dlg'.filling = dlg.filling + 1 /\ dlg'.seen = seen /\ dlg'.open = TRUE
      /\ dlg' \in State /\ Out' = Out /\ D' = D /\ Row' = Row
      /\ Entry' = Entry /\ Followable' = Followable
      /\ dlg'.told => left
  BY SameDialog DEF Out
<1>2. TypeOK'
  BY <1>1 DEF Inductive, TypeOK, State
<1>3. CopiesTrue'
  BY <1>1 DEF Inductive, CopiesTrue
<1>4. OfferedFor'
  BY <1>1 DEF Inductive, OfferedFor
<1>5. FillingsCounted'
  BY <1>1, Types DEF Inductive, FillingsCounted
<1>6. OneOut'
  <2>1. SUFFICES ASSUME ~left' PROVE OneOut'
    BY DEF OneOut
  <2>2. Out = {} /\ ~dlg'.told
    BY <1>1, <2>1, NoneLeft DEF Inductive
  <2>3. wrote[dlg'.filling] = 0
    BY <1>1, Types DEF Inductive, FillingsCounted
  <2>4. QED
    BY <1>1, <2>2, <2>3 DEF OneOut
<1>7. WrittenOnce'
  BY DEF Inductive, WrittenOnce
<1>10. RefusedOnlyIfStale' /\ PassedIsTaken'
  BY SameRefusals DEF Inductive
<1>11. QED
  BY <1>2, <1>3, <1>4, <1>5, <1>6, <1>7, <1>10 DEF Inductive

\* The dialog as Emptied leaves it.
LEMMA EmptiedState ==
  ASSUME NEW state \in State, NEW seen \in Row, state.filling < MaxFillings
  PROVE  LET new == Emptied(state, seen)
         IN /\ new \in State /\ new.filling = state.filling + 1 /\ new.seen = seen
            /\ new.open = state.open /\ new.told = state.told /\ new.shut = state.shut
            /\ D.emptied = "never" => new.busy = state.busy
            /\ D.emptied # "never" => new.busy = None
<1> DEFINE b == IF D.emptied = "never" THEN state.busy ELSE None
<1>1. Emptied(state, seen) = [[[[state EXCEPT !.filling = state.filling + 1]
                                  EXCEPT !.seen = seen] EXCEPT !.entry = Untouched]
                                EXCEPT !.busy = b]
  BY DEF Emptied, State
<1>2. /\ b \in Request \union {None} /\ state.filling + 1 \in 0 .. MaxFillings
      /\ Untouched \in Entry
  BY DEF State, Entry
<1> HIDE DEF b
<1>3. Emptied(state, seen) = [open |-> state.open, filling |-> state.filling + 1, busy |-> b,
                              seen |-> seen, entry |-> Untouched, told |-> state.told,
                              shut |-> state.shut]
  BY <1>1 DEF State
<1>4. QED
  BY <1>2, <1>3 DEF State, b

\* A dialog that is opened shows the row as the list shows it.
LEMMA OpenStep ==
  ASSUME Inductive, Open
  PROVE  Inductive'
<1>1. TypeOK /\ dlg \in State /\ listed \in Row
  BY Types DEF Inductive
<1> DEFINE new == Emptied(dlg, listed)
           state == [new EXCEPT !.open = TRUE]
<1>2. /\ new \in State /\ new.filling = dlg.filling + 1 /\ new.seen = listed
      /\ new.told = dlg.told
  BY <1>1, EmptiedState DEF Open
<1>3. dlg' = state
  BY DEF Open
<1> HIDE DEF new
<1>4. /\ state \in State /\ state.filling = dlg.filling + 1 /\ state.seen = listed
      /\ state.open = TRUE /\ state.told = dlg.told
  BY <1>2 DEF State
<1>5. dlg.told => left /\ D.ends = "tells"
  BY DEF Open, Inductive, OneOut, FillingsCounted
<1>6. /\ listed.version <= row.version
      /\ listed.version = row.version => listed = row
  BY DEF Inductive, TypeOK, CopiesTrue
<1> HIDE DEF state
<1>7. QED
  BY <1>1, <1>3, <1>4, <1>5, <1>6, NewFilling DEF Open

\* A form that is emptied while it is open keeps the row it was opened on.
LEMMA BranchesArriveStep ==
  ASSUME Inductive, BranchesArrive
  PROVE  Inductive'
<1>1. TypeOK /\ dlg \in State /\ dlg.seen \in Row
  BY Types DEF Inductive
<1> DEFINE state == Emptied(dlg, dlg.seen)
<1>2. /\ state \in State /\ state.filling = dlg.filling + 1 /\ state.seen = dlg.seen
      /\ state.open = TRUE /\ state.told = dlg.told
  BY <1>1, EmptiedState DEF BranchesArrive
<1>3. dlg' = state
  BY DEF BranchesArrive
<1>4. D.busy # "nothing" /\ ~dlg.told
  BY <1>1, Followed DEF BranchesArrive, Sound, Inductive, FillingsCounted
<1>5. /\ dlg.seen.version <= row.version
      /\ dlg.seen.version = row.version => dlg.seen = row
      /\ D.does # "create" => dlg.seen.status \in D.offered
  BY DEF BranchesArrive, Inductive, TypeOK, CopiesTrue, OfferedFor
<1> HIDE DEF state
<1>6. QED
  BY <1>1, <1>2, <1>3, <1>4, <1>5, NewFilling DEF BranchesArrive

\* Closing a dialog is leaving its filling.
LEMMA CloseStep ==
  ASSUME Inductive, Close
  PROVE  Inductive'
<1>1. TypeOK /\ dlg \in State
  BY Types DEF Inductive
<1>2. /\ dlg'.filling = dlg.filling /\ dlg'.seen = dlg.seen /\ dlg'.open = FALSE
      /\ dlg'.told = FALSE /\ dlg'.shut = "user" /\ dlg'.busy = dlg.busy
      /\ dlg' \in State
  BY <1>1 DEF Close, State
<1>3. /\ UNCHANGED <<name, field, row, listed, req, wrote, saved, unsure>>
      /\ left' = (left \/ Deserts)
  BY DEF Close
<1>4. /\ Out' = Out /\ D' = D /\ Row' = Row
      /\ Entry' = Entry /\ Followable' = Followable
  BY <1>3, SameDialog DEF Out
<1>5. D.busy # "nothing"
  BY DEF Close, Inductive, FillingsCounted
<1>6. TypeOK'
  BY <1>2, <1>3, <1>4 DEF Inductive, TypeOK, State
<1>7. CopiesTrue' /\ OfferedFor'
  BY <1>2, <1>3, <1>4 DEF Inductive, CopiesTrue, OfferedFor
<1>8. FillingsCounted'
  BY <1>2, <1>3, <1>4 DEF Inductive, FillingsCounted
<1>9. OneOut'
  <2>1. SUFFICES ASSUME ~left' PROVE OneOut'
    BY DEF OneOut
  <2>2. Out = {}
    BY <1>1, <1>3, <1>5, <2>1, NoneLeft DEF Inductive
  <2>3. QED
    BY <1>2, <1>4, <2>2 DEF OneOut
<1>10. WrittenOnce'
  BY <1>2, <1>3 DEF Inductive, WrittenOnce
<1>11. RefusedOnlyIfStale' /\ PassedIsTaken'
  BY <1>3, <1>4, SameRefusals DEF Inductive
<1>12. QED
  BY <1>6, <1>7, <1>8, <1>9, <1>10, <1>11 DEF Inductive

\* The list read again is the row.
LEMMA RefreshStep ==
  ASSUME Inductive, Refresh
  PROVE  Inductive'
<1>1. /\ listed' = row
      /\ UNCHANGED <<name, field, row, dlg, req, wrote, saved, unsure, left>>
  BY DEF Refresh
<1>2. /\ Out' = Out /\ D' = D /\ Row' = Row
      /\ Entry' = Entry /\ Followable' = Followable
  BY <1>1, SameDialog DEF Out
<1>3. TypeOK'
  <2>1. row.version <= row.version
    BY Types DEF Inductive
  <2>2. QED
    BY <1>1, <1>2, <2>1 DEF Inductive, TypeOK
<1>4. CopiesTrue' /\ OfferedFor' /\ FillingsCounted' /\ OneOut'
  BY <1>1, <1>2 DEF Inductive, CopiesTrue, OfferedFor, FillingsCounted, OneOut
<1>5. WrittenOnce'
  BY <1>1, <1>2 DEF Inductive, WrittenOnce
<1>6. RefusedOnlyIfStale' /\ PassedIsTaken'
  BY <1>1, SameRefusals DEF Inductive
<1>7. QED
  BY <1>3, <1>4, <1>5, <1>6 DEF Inductive

\* What is typed changes nothing but what the form shows.
LEMMA EditStep ==
  ASSUME Inductive, NEW e \in Entries(D, field), Edit(e)
  PROVE  Inductive'
<1>1. TypeOK /\ dlg \in State /\ e \in Entry
  BY Types DEF Inductive, Entry
<1>2. /\ dlg'.filling = dlg.filling /\ dlg'.seen = dlg.seen /\ dlg'.open = dlg.open
      /\ dlg'.told = dlg.told /\ dlg'.shut = dlg.shut /\ dlg'.busy = dlg.busy
      /\ dlg' \in State
  BY <1>1 DEF Edit, State
<1>3. UNCHANGED <<name, field, row, listed, req, wrote, saved, unsure, left>>
  BY DEF Edit
<1>4. /\ Out' = Out /\ D' = D /\ Row' = Row
      /\ Entry' = Entry /\ Followable' = Followable
  BY <1>3, SameDialog DEF Out
<1>5. TypeOK'
  BY <1>2, <1>3, <1>4 DEF Inductive, TypeOK, State
<1>6. CopiesTrue' /\ OfferedFor' /\ FillingsCounted'
  BY <1>2, <1>3, <1>4 DEF Inductive, CopiesTrue, OfferedFor, FillingsCounted
<1>7. OneOut' /\ WrittenOnce'
  BY <1>2, <1>3, <1>4 DEF Inductive, OneOut, WrittenOnce
<1>8. RefusedOnlyIfStale' /\ PassedIsTaken'
  BY <1>3, SameRefusals DEF Inductive
<1>9. QED
  BY <1>5, <1>6, <1>7, <1>8 DEF Inductive

\* A request that is sent shows the row the dialog was opened on.
LEMMA SubmitStep ==
  ASSUME Inductive, NEW r \in Request, Submit(r)
  PROVE  Inductive'
<1> DEFINE new == [at |-> "sent", filling |-> dlg.filling, seen |-> dlg.seen,
                   entry |-> dlg.entry, why |-> "none"]
<1>1. TypeOK /\ dlg \in State
  BY Types DEF Inductive
<1>2. /\ req[r].at = "none" /\ dlg.open /\ dlg.busy = None /\ ~dlg.told
      /\ UNCHANGED <<name, field, row, listed, wrote, saved, unsure, left>>
  BY DEF Submit, Free, Idle
<1>3. /\ req'[r] = new /\ req'[r].at = "sent" /\ req'[r].filling = dlg.filling
      /\ req'[r].seen = dlg.seen /\ req'[r].why = "none"
      /\ \A q \in Request \ {r} : req'[q] = req[q]
      /\ \A q \in Out : q \in Request /\ q # r /\ req'[q] = req[q]
  <2>1. r \notin Out /\ Out \subseteq Request
    BY <1>1, <1>2, Types DEF Out
  <2>2. QED
    BY <1>1, <2>1, Types DEF Submit
<1>4. /\ dlg'.busy = r /\ dlg'.filling = dlg.filling /\ dlg'.seen = dlg.seen
      /\ dlg'.open = dlg.open /\ dlg'.told = dlg.told /\ dlg'.shut = dlg.shut
      /\ dlg' \in State
  BY <1>1 DEF Submit, State
<1>5. /\ D' = D /\ Row' = Row /\ Out' = Out \union {r}
      /\ Entry' = Entry /\ Followable' = Followable
  BY <1>2, <1>3, SameDialog DEF Out
<1>6. D.busy # "nothing" /\ dlg.filling > 0
  BY <1>2 DEF Inductive, FillingsCounted
<1>7. TypeOK'
  <2>1. new \in Sent
    BY <1>1, Types DEF Sent, State
  <2>2. req' \in [Request -> {Unused} \union Sent]
    BY <1>1, <2>1, Types DEF Submit
  <2>3. \A q \in Out' : req'[q].seen.version <= row.version
    BY <1>3, <1>5 DEF Inductive, TypeOK
  <2>4. QED
    BY <1>2, <1>4, <1>5, <2>2, <2>3 DEF Inductive, TypeOK, State, Sent
<1>8. CopiesTrue'
  BY <1>2, <1>3, <1>4, <1>5 DEF Inductive, CopiesTrue
<1>9. OfferedFor'
  BY <1>2, <1>3, <1>4, <1>5 DEF Inductive, OfferedFor
<1>10. FillingsCounted'
  BY <1>1, <1>2, <1>3, <1>4, <1>5, <1>6, Types DEF Inductive, FillingsCounted
<1>11. OneOut'
  <2>1. SUFFICES ASSUME ~left PROVE OneOut'
    BY <1>2 DEF OneOut
  <2>2. Out = {}
    BY <1>2, <1>6, <2>1 DEF Inductive, OneOut, Out
  <2>3. wrote[dlg.filling] > 0 => dlg.filling \in unsure
    BY <1>2, <1>6, <2>1, <2>2 DEF Inductive, OneOut
  <2>4. QED
    BY <1>2, <1>3, <1>4, <1>5, <2>2, <2>3 DEF OneOut
<1>12. WrittenOnce'
  BY <1>2, <1>4, <1>5 DEF Inductive, WrittenOnce
<1>13. RefusedOnlyIfStale' /\ PassedIsTaken'
  BY <1>2, <1>3, Refusals DEF Inductive
<1>14. QED
  BY <1>7, <1>8, <1>9, <1>10, <1>11, <1>12, <1>13 DEF Inductive

\* An icon sends for the row the list shows.
LEMMA ClickStep ==
  ASSUME Inductive, NEW r \in Request, Click(r)
  PROVE  Inductive'
<1> DEFINE new == [at |-> "sent", filling |-> 0, seen |-> listed,
                   entry |-> Untouched, why |-> "none"]
<1>1. TypeOK /\ 0 \in 0 .. MaxFillings
  BY DEF Inductive
<1>2. /\ req[r].at = "none" /\ D.busy = "nothing" /\ listed.status \in D.offered
      /\ UNCHANGED <<name, field, row, listed, dlg, wrote, saved, unsure, left>>
  BY DEF Click, Free
<1>3. /\ req'[r] = new /\ req'[r].at = "sent" /\ req'[r].filling = 0
      /\ req'[r].seen = listed /\ req'[r].why = "none"
      /\ \A q \in Request \ {r} : req'[q] = req[q]
      /\ \A q \in Out : q \in Request /\ q # r /\ req'[q] = req[q]
  <2>1. r \notin Out /\ Out \subseteq Request
    BY <1>1, <1>2, Types DEF Out
  <2>2. QED
    BY <1>1, <2>1, Types DEF Click
<1>4. /\ D' = D /\ Row' = Row /\ Out' = Out \union {r}
      /\ Entry' = Entry /\ Followable' = Followable
  BY <1>2, <1>3, SameDialog DEF Out
<1>5. TypeOK'
  <2>1. new \in Sent
    BY <1>1, Types DEF Sent, Entry
  <2>2. req' \in [Request -> {Unused} \union Sent]
    BY <1>1, <2>1, Types DEF Click
  <2>3. \A q \in Out' : req'[q].seen.version <= row.version
    BY <1>3, <1>4 DEF Inductive, TypeOK
  <2>4. QED
    BY <1>2, <1>4, <2>2, <2>3 DEF Inductive, TypeOK, Sent
<1>6. CopiesTrue' /\ OfferedFor'
  BY <1>2, <1>3, <1>4 DEF Inductive, CopiesTrue, OfferedFor
<1>7. FillingsCounted'
  BY <1>1, <1>2, <1>3, <1>4, Types DEF Inductive, FillingsCounted
<1>8. OneOut'
  BY <1>2, <1>4 DEF OneOut
<1>9. WrittenOnce'
  BY <1>2, <1>4 DEF Inductive, WrittenOnce
<1>10. RefusedOnlyIfStale' /\ PassedIsTaken'
  BY <1>2, <1>3, Refusals DEF Inductive
<1>11. QED
  BY <1>5, <1>6, <1>7, <1>8, <1>9, <1>10 DEF Inductive

\* An accepted request makes the next version of the row.
LEMMA AfterTyped ==
  ASSUME TypeOK, NEW r \in Out, row.version <= MaxChanges
  PROVE  After(D, req[r]) \in Row /\ After(D, req[r]).version = row.version + 1
<1>1. /\ row.status \in Statuses(D.on) \union {"gone"}
      /\ row.value \in [Fields[name] -> Value] /\ req[r].seen.value \in [Fields[name] -> Value]
      /\ row.version + 1 \in 1 .. MaxChanges + 1
  BY Types DEF Row
<1>2. ~Writes(D) => D.does \in Statuses(D.on) \union {"gone"}
  BY Followed DEF Writes, Sound
<1>3. Written(D, req[r]) \in [Fields[name] -> Value]
  <2>1. \A f \in Fields[name] : /\ row.value[f] \in Value
                               /\ Loaded(f, req[r].seen.value[f]) \in Value
    BY <1>1 DEF Loaded, Value
  <2>2. req[r].entry # Untouched => req[r].entry.value \in Value
    BY Types, Entered DEF Value
  <2>3. "default" \in Value
    BY DEF Value
  <2>4. QED
    BY <2>1, <2>2, <2>3 DEF Written
<1>4. (IF Writes(D) THEN Written(D, req[r]) ELSE row.value) \in [Fields[name] -> Value]
  BY <1>1, <1>3
<1>5. (IF Writes(D) THEN row.status ELSE D.does) \in Statuses(D.on) \union {"gone"}
  BY <1>1, <1>2
<1>6. QED
  BY <1>1, <1>4, <1>5 DEF After, Row

\* No copy of the row is as new as a row that has just changed.
LEMMA CopiesOld ==
  ASSUME TypeOK, row'.version = row.version + 1, UNCHANGED <<name, listed>>,
         dlg'.seen = dlg.seen,
         \A r \in Request : (r \in Out' <=> r \in Out) /\ req'[r].seen = req[r].seen
  PROVE  /\ CopiesTrue'
         /\ listed'.version <= row'.version /\ dlg'.seen.version <= row'.version
         /\ \A r \in Out' : req'[r].seen.version <= row'.version
<1>1. /\ listed.version \in Nat /\ dlg.seen.version \in Nat /\ row.version \in Nat
      /\ \A r \in Out : req[r].seen.version \in Nat
  BY Types DEF Row
<1>2. /\ listed.version <= row.version /\ dlg.seen.version <= row.version
      /\ \A r \in Out : req[r].seen.version <= row.version
  BY DEF TypeOK
<1>3. /\ listed'.version # row'.version /\ dlg'.seen.version # row'.version
      /\ \A r \in Out' : req'[r].seen.version # row'.version
                      /\ req'[r].seen.version <= row'.version
  BY <1>1, <1>2 DEF Out
<1>4. QED
  BY <1>1, <1>2, <1>3 DEF CopiesTrue

\* A request that is accepted writes for its filling, which nothing was written for
\* unless an answer was lost or a form left.
LEMMA AcceptStep ==
  ASSUME Inductive, NEW r \in Request, Accept(r)
  PROVE  Inductive'
<1> DEFINE n == req[r].filling
<1>1. /\ TypeOK /\ r \in Out /\ req[r] \in Sent /\ req[r].at = "sent"
      /\ row.version <= MaxChanges /\ n \in 0 .. MaxFillings
      /\ UNCHANGED <<name, field, listed, dlg, unsure, left>>
  BY Types DEF Accept, Inductive
<1>2. row' = After(D, req[r])
  BY DEF Accept
<1>3. row' \in Row /\ row'.version = row.version + 1 /\ row.version \in Nat
  BY <1>1, <1>2, AfterTyped, Types
<1>4. /\ req' = [req EXCEPT ![r] = [req[r] EXCEPT !.at = "accepted"]]
      /\ req \in [Request -> {Unused} \union Sent]
  BY <1>1, Types DEF Accept
<1>5. /\ req'[r].at = "accepted" /\ req'[r].filling = n /\ req'[r].seen = req[r].seen
      /\ req'[r].why = req[r].why /\ req'[r].entry = req[r].entry /\ req'[r] \in Sent
      /\ \A q \in Request \ {r} : req'[q] = req[q]
      /\ \A q \in Out : req'[q].seen = req[q].seen
  BY <1>1, <1>4 DEF Sent, Out
<1>6. /\ D' = D /\ Row' = Row /\ Out' = Out
      /\ Entry' = Entry /\ Followable' = Followable
  BY <1>1, <1>5, SameDialog DEF Out
<1>7. /\ wrote \in [1 .. MaxFillings -> 0 .. MaxChanges + 1]
      /\ \A m \in 1 .. MaxFillings : wrote[m] < row.version
      /\ n = 0 => wrote' = wrote
      /\ n # 0 => wrote' = [wrote EXCEPT ![n] = wrote[n] + 1]
  BY <1>1, Types DEF Accept, Inductive, FillingsCounted
<1>7a. /\ saved' \in [1 .. MaxFillings -> SUBSET Entry]
       /\ \A m \in 1 .. MaxFillings : saved[m] \subseteq saved'[m]
       /\ n # 0 => req[r].entry \in saved'[n]
  <2>1. saved \in [1 .. MaxFillings -> SUBSET Entry] /\ req[r].entry \in Entry
    BY <1>1, Types
  <2>2. CASE n = 0
    BY <2>1, <2>2 DEF Accept
  <2>3. CASE n # 0
    <3>1. n \in 1 .. MaxFillings /\ saved' = [saved EXCEPT ![n] = saved[n] \union {req[r].entry}]
      BY <1>1, <2>3 DEF Accept
    <3>2. QED
      BY <2>1, <3>1
  <2>4. QED
    BY <2>2, <2>3
<1>8. /\ \A m \in 1 .. MaxFillings : wrote'[m] = IF m = n THEN wrote[m] + 1 ELSE wrote[m]
      /\ \A m \in 1 .. MaxFillings : wrote'[m] < row'.version
      /\ wrote' \in [1 .. MaxFillings -> 0 .. MaxChanges + 1]
  <2>1. CASE n = 0
    BY <1>3, <1>7, <2>1
  <2>2. CASE n # 0
    <3>1. n \in 1 .. MaxFillings /\ wrote[n] + 1 \in 0 .. MaxChanges + 1
      BY <1>1, <1>3, <1>7, <2>2
    <3>2. /\ \A m \in 1 .. MaxFillings : wrote'[m] = IF m = n THEN wrote[m] + 1 ELSE wrote[m]
          /\ wrote' \in [1 .. MaxFillings -> 0 .. MaxChanges + 1]
      BY <1>7, <2>2, <3>1
    <3>3. \A m \in 1 .. MaxFillings : wrote[m] \in Nat /\ wrote[m] < row.version
      BY <1>7
    <3>4. \A m \in 1 .. MaxFillings : wrote'[m] < row'.version
      BY <1>3, <3>2, <3>3
    <3>5. QED
      BY <3>2, <3>4
  <2>3. QED
    BY <2>1, <2>2
<1>9. /\ CopiesTrue' /\ listed'.version <= row'.version /\ dlg'.seen.version <= row'.version
      /\ \A q \in Out' : req'[q].seen.version <= row'.version
  BY <1>1, <1>3, <1>5, <1>6, CopiesOld
<1>10. TypeOK'
  <2>1. req' \in [Request -> {Unused} \union Sent]
    BY <1>4, <1>5
  <2>2. QED
    BY <1>1, <1>3, <1>6, <1>7a, <1>8, <1>9, <2>1 DEF TypeOK, Sent
<1>11. OfferedFor'
  BY <1>1, <1>5, <1>6 DEF Inductive, OfferedFor
<1>12. FillingsCounted'
  <2>1. \A q \in Out : /\ q # r => req'[q] = req[q]
                       /\ req'[q].filling = req[q].filling /\ req'[q].entry = req[q].entry
    BY <1>5 DEF Out
  <2>2. \A q \in Out : /\ req[q].filling \in 0 .. MaxFillings
                       /\ req[q].filling <= dlg.filling
                       /\ (req[q].filling = 0 <=> D.busy = "nothing")
                       /\ (req[q].at = "accepted" /\ req[q].filling # 0
                             => /\ wrote[req[q].filling] > 0
                                /\ req[q].entry \in saved[req[q].filling])
    BY <1>1, Types DEF Inductive, FillingsCounted
  <2>3. ASSUME NEW q \in Out, req'[q].at = "accepted", req'[q].filling # 0
        PROVE  wrote'[req'[q].filling] > 0
    <3>1. req[q].filling \in 1 .. MaxFillings /\ req'[q].filling = req[q].filling
      BY <2>1, <2>2, <2>3
    <3>2. wrote[req[q].filling] \in Nat /\ n \in Nat
      BY <1>1, <1>7, <3>1
    <3>3. CASE req[q].filling = n
      BY <1>8, <3>1, <3>2, <3>3
    <3>4. CASE req[q].filling # n
      <4>1. wrote[req[q].filling] > 0
        BY <2>1, <2>2, <2>3, <3>4
      <4>2. QED
        BY <1>8, <3>1, <3>4, <4>1
    <3>5. QED
      BY <3>3, <3>4
  <2>3a. ASSUME NEW q \in Out, req'[q].at = "accepted", req'[q].filling # 0
         PROVE  req'[q].entry \in saved'[req'[q].filling]
    <3>1. req[q].filling \in 1 .. MaxFillings /\ req'[q].filling = req[q].filling
      BY <2>1, <2>2, <2>3a
    <3>2. CASE q = r
      BY <1>1, <1>5, <1>7a, <2>3a, <3>2
    <3>3. CASE q # r
      BY <1>7a, <2>1, <2>2, <2>3a, <3>1, <3>3
    <3>4. QED
      BY <3>2, <3>3
  <2>4. n <= dlg.filling
    BY <1>1, <2>2
  <2>5. \A m \in 1 .. MaxFillings : m > dlg.filling => wrote'[m] = 0
    BY <1>1, <1>8, <2>4, Types DEF Inductive, FillingsCounted
  <2>6. QED
    BY <1>1, <1>6, <1>8, <2>1, <2>2, <2>3, <2>3a, <2>5 DEF Inductive, FillingsCounted
<1>13. OneOut'
  BY <1>1, <1>5, <1>6 DEF Inductive, OneOut
<1>14. WrittenOnce'
  <2>1. SUFFICES ASSUME ~left, n # 0, n \notin unsure PROVE wrote'[n] <= 1
    BY <1>1, <1>7, <1>8 DEF Inductive, WrittenOnce
  <2>2. D.busy # "nothing"
    BY <1>1, <2>1 DEF Inductive, FillingsCounted
  <2>3. /\ \A q \in Out : q = r
        /\ n = dlg.filling
    BY <1>1, <2>1, <2>2 DEF Inductive, OneOut
  <2>4. ~(wrote[n] > 0)
    <3>1. SUFFICES ASSUME wrote[n] > 0 PROVE FALSE
      OBVIOUS
    <3>2. n > 0
      BY <1>1, <2>1
    <3>3. \/ \E q \in Out : req[q].at = "accepted"
          \/ Out = {}
      BY <2>1, <2>2, <2>3, <3>1, <3>2 DEF Inductive, OneOut
    <3>4. QED
      BY <1>1, <2>3, <3>3
  <2>5. QED
    BY <1>1, <1>7, <1>8, <2>1, <2>4
<1>17. RefusedOnlyIfStale' /\ PassedIsTaken'
  BY <1>1, <1>5, Refusals DEF Inductive
<1>18. QED
  BY <1>9, <1>10, <1>11, <1>12, <1>13, <1>14, <1>17 DEF Inductive

\* A refusal on the row as the user saw it is never for its status: the list
\* offers the dialog only for a status the server accepts.
LEMMA RefuseStep ==
  ASSUME Inductive, NEW r \in Request, Refuse(r)
  PROVE  Inductive'
<1> DEFINE why == IF Refused(req[r].entry) THEN "input"
                  ELSE IF row.version = req[r].seen.version THEN "status" ELSE "stale"
<1>1. /\ TypeOK /\ r \in Out /\ req[r] \in Sent /\ req[r].at = "sent"
      /\ UNCHANGED <<name, field, row, listed, dlg, wrote, saved, unsure, left>>
  BY Types DEF Refuse, Inductive
<1>2. /\ req' = [req EXCEPT ![r] = [[req[r] EXCEPT !.at = "refused"] EXCEPT !.why = why]]
      /\ req \in [Request -> {Unused} \union Sent]
  BY <1>1, Types DEF Refuse
<1>3. (why = "input" /\ req[r].entry.kind \in Kept) \/ why = "stale"
  <2>1. CASE Refused(req[r].entry)
    BY <1>1, <2>1, Entered DEF Sent
  <2>2. CASE ~Refused(req[r].entry)
    <3>1. D.does # "create" /\ row.status \notin Accepts(name, D)
      BY <2>2 DEF Refuse, Present
    <3>2. req[r].seen.status \in Accepts(name, D)
      BY <1>1, <3>1, Followed DEF Inductive, OfferedFor, Sound
    <3>3. req[r].seen.version # row.version
      BY <1>1, <3>1, <3>2 DEF Inductive, CopiesTrue
    <3>4. QED
      BY <2>2, <3>3
  <2>3. QED
    BY <2>1, <2>2
<1>4. why \in {"none", "input", "status", "stale"}
  OBVIOUS
<1> HIDE DEF why
<1>5. /\ req'[r].at = "refused" /\ req'[r].filling = req[r].filling
      /\ req'[r].seen = req[r].seen /\ req'[r].entry = req[r].entry
      /\ req'[r].why = why /\ req'[r] \in Sent
      /\ \A q \in Request \ {r} : req'[q] = req[q]
  BY <1>1, <1>2, <1>4 DEF Sent
<1>6. /\ D' = D /\ Row' = Row /\ Out' = Out
      /\ Entry' = Entry /\ Followable' = Followable
  BY <1>1, <1>5, SameDialog DEF Out
<1>7. TypeOK'
  <2>1. req' \in [Request -> {Unused} \union Sent]
    BY <1>2, <1>5
  <2>2. \A q \in Out : req'[q].seen.version <= row.version
    BY <1>1, <1>5 DEF TypeOK, Out
  <2>3. QED
    BY <1>1, <1>6, <2>1, <2>2 DEF TypeOK, Sent
<1>8. CopiesTrue' /\ OfferedFor'
  BY <1>1, <1>5, <1>6 DEF Inductive, CopiesTrue, OfferedFor, Out
<1>9. FillingsCounted'
  BY <1>1, <1>5, <1>6 DEF Inductive, FillingsCounted, Out
<1>10. OneOut'
  <2>1. SUFFICES ASSUME ~left, D.busy # "nothing" PROVE OneOut'
    BY <1>1, <1>6 DEF OneOut
  <2>2. \A q \in Out : q = r
    BY <1>1, <2>1 DEF Inductive, OneOut
  <2>3. dlg.filling > 0 /\ wrote[dlg.filling] > 0 => dlg.filling \in unsure
    BY <1>1, <2>1, <2>2 DEF Inductive, OneOut
  <2>4. QED
    BY <1>1, <1>5, <1>6, <2>1, <2>2, <2>3 DEF Inductive, OneOut
<1>11. WrittenOnce'
  BY <1>1, <1>6 DEF Inductive, WrittenOnce
<1>12. RefusedOnlyIfStale' /\ PassedIsTaken'
  BY <1>1, <1>3, <1>5, Refusals DEF Inductive
<1>13. QED
  BY <1>7, <1>8, <1>9, <1>10, <1>11, <1>12 DEF Inductive

\* The dialog once an answer has arrived: its buttons may work again.
LEMMA DoneState ==
  ASSUME NEW state \in State, NEW r \in Request
  PROVE  LET new == Done(state, r)
         IN /\ new \in State /\ new.filling = state.filling /\ new.seen = state.seen
            /\ new.open = state.open /\ new.told = state.told /\ new.shut = state.shut
BY DEF Done, State

\* An answer takes its request out, and changes no more of the dialog than whether
\* it is open, waits, or says that it is done: unless a form is left, no request
\* is out any more.
LEMMA AnswerArrives ==
  ASSUME Inductive, NEW r \in Out, NEW state \in State,
         req' = [req EXCEPT ![r] = Unused], dlg' = state,
         UNCHANGED <<name, field, row, listed, wrote, saved, left>>,
         state.filling = dlg.filling, state.seen = dlg.seen,
         state.open => dlg.open,
         state.told => D.ends = "tells",
         state.told /\ dlg.open => state.open,
         dlg.filling > 0 \/ (~state.told /\ state.shut = "user"),
         unsure' \in SUBSET (0 .. MaxFillings), unsure \subseteq unsure',
         D.busy # "nothing" /\ ~left /\ req[r].at = "accepted" =>
           dlg.filling \in unsure' \/ ~state.open \/ state.told
  PROVE  Inductive'
<1>1. /\ TypeOK /\ r \in Request /\ req \in [Request -> {Unused} \union Sent]
      /\ req[r] \in Sent
  BY Types DEF Inductive, Out
<1>2. /\ req'[r] = Unused /\ req'[r].at = "none" /\ req'[r].why = "none"
      /\ \A q \in Request \ {r} : req'[q] = req[q]
      /\ req' \in [Request -> {Unused} \union Sent]
  BY <1>1 DEF Unused
<1>3. /\ D' = D /\ Row' = Row /\ Out' = Out \ {r} /\ \A q \in Out' : req'[q] = req[q]
      /\ Entry' = Entry /\ Followable' = Followable
  BY <1>2, SameDialog DEF Out
<1>4. TypeOK'
  <2>1. \A q \in Out' : req'[q].seen.version <= row.version
    BY <1>1, <1>3 DEF TypeOK
  <2>2. QED
    BY <1>1, <1>2, <1>3, <2>1 DEF TypeOK, State, Sent
<1>5. CopiesTrue' /\ OfferedFor'
  BY <1>3 DEF Inductive, CopiesTrue, OfferedFor
<1>6. FillingsCounted'
  BY <1>3, Types DEF Inductive, FillingsCounted, State
<1>7. OneOut'
  <2>1. SUFFICES ASSUME ~left, D.busy # "nothing" PROVE OneOut'
    BY <1>3 DEF OneOut
  <2>2. Out = {r} /\ dlg.open
    BY <2>1 DEF Inductive, OneOut
  <2>3. Out' = {}
    BY <1>3, <2>2
  <2>4. ASSUME dlg.filling > 0, wrote[dlg.filling] > 0, dlg.filling \notin unsure'
        PROVE  ~state.open \/ state.told
    <3>1. \/ \E q \in Out : req[q].at = "accepted"
          \/ Out = {} /\ (~dlg.open \/ dlg.told)
      BY <2>1, <2>4 DEF Inductive, OneOut
    <3>2. req[r].at = "accepted"
      BY <2>2, <3>1
    <3>3. QED
      BY <2>1, <2>4, <3>2
  <2>5. QED
    BY <2>2, <2>3, <2>4 DEF OneOut
<1>8. WrittenOnce'
  BY DEF Inductive, WrittenOnce
<1>11. RefusedOnlyIfStale' /\ PassedIsTaken'
  BY <1>1, <1>2, Refusals DEF Inductive
<1>12. QED
  BY <1>4, <1>5, <1>6, <1>7, <1>8, <1>11 DEF Inductive

\* An answer to what the dialog shows is about a filling, which it has saved.
LEMMA SavedBefore ==
  ASSUME Inductive, NEW r \in Out, req[r].at = "accepted", D.busy # "nothing"
  PROVE  /\ dlg.filling > 0
         /\ <<req[r].filling, req[r].entry>> = <<dlg.filling, dlg.entry>> =>
              dlg.entry \in saved[dlg.filling]
<1>1. /\ dlg.filling \in Nat /\ req[r].filling \in Nat
      /\ req[r].filling <= dlg.filling /\ req[r].filling # 0
      /\ req[r].entry \in saved[req[r].filling]
  BY Types DEF Inductive, FillingsCounted
<1>2. QED
  BY <1>1

\* A form that is part of its page is emptied by the answer: a new filling.
LEMMA FeedbackEmptied ==
  ASSUME Inductive, NEW r \in Out, NEW state \in State, req[r].at = "accepted",
         D.ends = "empties", dlg.filling < MaxFillings,
         req' = [req EXCEPT ![r] = Unused], dlg' = state,
         UNCHANGED <<name, field, row, listed, wrote, saved, unsure, left>>,
         state.filling = dlg.filling + 1, state.seen = dlg.seen, state.open = dlg.open,
         state.told = dlg.told, state.shut = dlg.shut
  PROVE  Inductive'
<1>1. /\ TypeOK /\ r \in Request /\ req \in [Request -> {Unused} \union Sent]
      /\ D.busy # "nothing" /\ D.does = "create" /\ ~dlg.told
  BY Types, Followed DEF Inductive, Out, Sound, FillingsCounted
<1>2. /\ req'[r] = Unused /\ req'[r].at = "none" /\ req'[r].why = "none"
      /\ \A q \in Request \ {r} : req'[q] = req[q]
      /\ req' \in [Request -> {Unused} \union Sent]
  BY <1>1 DEF Unused
<1>3. /\ D' = D /\ Row' = Row /\ Out' = Out \ {r} /\ \A q \in Out' : req'[q] = req[q]
      /\ Entry' = Entry /\ Followable' = Followable
  BY <1>2, SameDialog DEF Out
<1>4. TypeOK'
  <2>1. \A q \in Out' : req'[q].seen.version <= row.version
    BY <1>1, <1>3 DEF TypeOK
  <2>2. QED
    BY <1>1, <1>2, <1>3, <2>1 DEF TypeOK, State, Sent
<1>5. CopiesTrue' /\ OfferedFor'
  BY <1>1, <1>3 DEF Inductive, CopiesTrue, OfferedFor
<1>6. dlg.filling > 0
  BY <1>1, SavedBefore
<1>7. FillingsCounted'
  BY <1>1, <1>3, <1>6, Types DEF Inductive, FillingsCounted
<1>8. OneOut'
  <2>1. SUFFICES ASSUME ~left PROVE OneOut'
    BY DEF OneOut
  <2>2. Out' = {}
    BY <1>1, <1>3, <2>1 DEF Inductive, OneOut
  <2>3. wrote[dlg'.filling] = 0
    BY <1>1, Types DEF Inductive, FillingsCounted
  <2>4. QED
    BY <1>1, <2>2, <2>3 DEF OneOut
<1>9. WrittenOnce'
  BY DEF Inductive, WrittenOnce
<1>10. RefusedOnlyIfStale' /\ PassedIsTaken'
  BY <1>1, <1>2, Refusals DEF Inductive
<1>11. QED
  BY <1>4, <1>5, <1>7, <1>8, <1>9, <1>10 DEF Inductive

\* The answer to a request that saved closes the dialog, says so, or empties it.
LEMMA SucceedStep ==
  ASSUME Inductive, NEW r \in Request, Succeed(r)
  PROVE  Inductive'
<1> DEFINE state == Done(dlg, r)
<1>1. /\ TypeOK /\ r \in Out /\ req[r].at = "accepted"
      /\ req' = [req EXCEPT ![r] = Unused] /\ dlg \in State
      /\ UNCHANGED <<name, field, row, listed, wrote, saved, unsure, left>>
  BY Types DEF Succeed, Inductive
<1>2. /\ state \in State /\ state.filling = dlg.filling /\ state.seen = dlg.seen
      /\ state.open = dlg.open /\ state.told = dlg.told /\ state.shut = dlg.shut
  BY <1>1, DoneState
<1>3. dlg' = CASE D.ends = "tells" -> [state EXCEPT !.told = TRUE]
               [] D.ends = "empties" /\ dlg.filling < MaxFillings -> Emptied(state, state.seen)
               [] OTHER -> [state EXCEPT !.open = FALSE,
                                         !.shut = IF dlg.open THEN "app" ELSE @]
  BY DEF Succeed
<1> HIDE DEF state
<1>4. unsure' \in SUBSET (0 .. MaxFillings) /\ unsure \subseteq unsure'
  BY <1>1 DEF TypeOK
<1>5. D.busy # "nothing" => dlg.filling > 0
  BY <1>1, SavedBefore
<1>6. CASE D.ends = "tells"
  <2> DEFINE new == [state EXCEPT !.told = TRUE]
  <2>1. /\ new \in State /\ new.filling = dlg.filling /\ new.seen = dlg.seen
        /\ new.open = dlg.open /\ new.told = TRUE /\ new.shut = dlg.shut
    BY <1>2 DEF State
  <2>2. dlg' = new
    BY <1>3, <1>6
  <2>3. D.busy # "nothing"
    BY <1>1, <1>6, Followed DEF Sound
  <2> HIDE DEF new
  <2>4. QED
    BY <1>1, <1>4, <1>5, <1>6, <2>1, <2>2, <2>3, AnswerArrives
<1>7. CASE D.ends = "empties" /\ dlg.filling < MaxFillings
  <2> DEFINE new == Emptied(state, state.seen)
  <2>1. dlg' = new
    BY <1>3, <1>7
  <2>2. /\ new \in State /\ new.filling = dlg.filling + 1 /\ new.seen = dlg.seen
        /\ new.open = dlg.open /\ new.told = dlg.told /\ new.shut = dlg.shut
        /\ dlg.seen \in Row
    BY <1>1, <1>2, <1>7, EmptiedState, Types
  <2> HIDE DEF new
  <2>3. QED
    BY <1>1, <1>5, <1>7, <2>1, <2>2, FeedbackEmptied
<1>8. CASE D.ends # "tells" /\ ~(D.ends = "empties" /\ dlg.filling < MaxFillings)
  <2> DEFINE shut == IF dlg.open THEN "app" ELSE state.shut
             new == [[state EXCEPT !.open = FALSE] EXCEPT !.shut = shut]
  <2>1. dlg' = new
    BY <1>2, <1>3, <1>8 DEF State
  <2>2. shut \in {"user", "app"}
    BY <1>2 DEF State
  <2> HIDE DEF shut
  <2>3. /\ new \in State /\ new.filling = dlg.filling /\ new.seen = dlg.seen
        /\ new.open = FALSE /\ new.told = dlg.told /\ new.shut = shut
    BY <1>2, <2>2 DEF State
  <2> HIDE DEF new
  <2>4. ~dlg.told
    BY <1>8 DEF Inductive, FillingsCounted
  <2>5. D.busy = "nothing" => ~dlg.open /\ dlg.shut = "user"
    BY <1>1, Types DEF Inductive, FillingsCounted
  <2>6. dlg.filling > 0 \/ (~new.told /\ new.shut = "user")
    BY <1>2, <1>5, <2>3, <2>4, <2>5 DEF shut
  <2>7. QED
    BY <1>1, <1>4, <2>1, <2>3, <2>4, <2>6, AnswerArrives
<1>9. QED
  BY <1>6, <1>7, <1>8

\* A request that is refused or lost leaves the dialog for another try.
LEMMA FailStep ==
  ASSUME Inductive, NEW r \in Request, Fail(r)
  PROVE  Inductive'
<1>1. /\ TypeOK /\ r \in Out /\ dlg \in State
      /\ req' = [req EXCEPT ![r] = Unused] /\ dlg' = Done(dlg, r)
      /\ UNCHANGED <<name, field, row, listed, wrote, saved, left>>
      /\ req[r].filling \in 0 .. MaxFillings
  BY Types DEF Fail, Failed, Inductive
<1> DEFINE state == Done(dlg, r)
<1>2. /\ state \in State /\ state.filling = dlg.filling /\ state.seen = dlg.seen
      /\ state.open = dlg.open /\ state.told = dlg.told /\ state.shut = dlg.shut
  BY <1>1, DoneState
<1> HIDE DEF state
<1>3. /\ unsure' \in SUBSET (0 .. MaxFillings) /\ unsure \subseteq unsure'
      /\ req[r].at = "accepted" => req[r].filling \in unsure'
  BY <1>1 DEF Fail, TypeOK
<1>4. D.busy # "nothing" /\ ~left => req[r].filling = dlg.filling
  BY <1>1 DEF Inductive, OneOut
<1>5. state.told => D.ends = "tells"
  BY <1>2 DEF Inductive, FillingsCounted
<1>6. dlg.filling > 0 \/ (~state.told /\ state.shut = "user")
  BY <1>2 DEF Inductive, FillingsCounted
<1>7. QED
  BY <1>1, <1>2, <1>3, <1>4, <1>5, <1>6, AnswerArrives DEF state

\* Somebody else's change makes every copy of the row an old one.
LEMMA OthersChangeStep ==
  ASSUME Inductive, NEW status \in Statuses(D.on) \union {"gone"}, OthersChange(status)
  PROVE  Inductive'
<1>1. /\ TypeOK /\ row \in Row /\ row.version <= MaxChanges
      /\ UNCHANGED <<name, field, listed, dlg, req, wrote, saved, unsure, left>>
  BY Types DEF OthersChange, Inductive
<1>2. row' = [[row EXCEPT !.status = status] EXCEPT !.version = row.version + 1]
  BY <1>1 DEF OthersChange, Row
<1>3. row' \in Row /\ row'.version = row.version + 1 /\ row.version \in Nat
  <2>1. row' = [status |-> status, version |-> row.version + 1, value |-> row.value]
    BY <1>1, <1>2 DEF Row
  <2>2. row.version \in 1 .. MaxChanges + 1 /\ row.value \in [Fields[name] -> Value]
    BY <1>1 DEF Row
  <2>3. row.version \in Nat /\ row.version + 1 \in 1 .. MaxChanges + 1
    BY <1>1, <2>2
  <2>4. QED
    BY <2>1, <2>2, <2>3 DEF Row
<1>4. /\ D' = D /\ Row' = Row /\ Out' = Out
      /\ Entry' = Entry /\ Followable' = Followable
  BY <1>1, SameDialog DEF Out
<1>5. /\ CopiesTrue' /\ listed'.version <= row'.version /\ dlg'.seen.version <= row'.version
      /\ \A q \in Out' : req'[q].seen.version <= row'.version
  BY <1>1, <1>3, <1>4, CopiesOld
<1>6. TypeOK'
  BY <1>1, <1>3, <1>4, <1>5 DEF TypeOK
<1>7. OfferedFor' /\ OneOut' /\ WrittenOnce'
  BY <1>1, <1>4 DEF Inductive, OfferedFor, OneOut, WrittenOnce
<1>8. FillingsCounted'
  <2>1. \A n \in 1 .. MaxFillings : wrote[n] < row.version /\ wrote[n] \in Nat
    BY <1>1, Types DEF Inductive, FillingsCounted
  <2>2. \A n \in 1 .. MaxFillings : wrote[n] < row'.version
    BY <1>3, <2>1
  <2>3. QED
    BY <1>1, <1>4, <2>2 DEF Inductive, FillingsCounted
<1>9. RefusedOnlyIfStale' /\ PassedIsTaken'
  BY <1>1, SameRefusals DEF Inductive
<1>10. QED
  BY <1>5, <1>6, <1>7, <1>8, <1>9 DEF Inductive

\* At first no request is out, and a dialog is open only if it is part of its page.
LEMMA InitInductive == Init => Inductive
<1>1. SUFFICES ASSUME Init PROVE Inductive
  OBVIOUS
<1> DEFINE page == D.ends = "empties"
<1>2. /\ name \in Name /\ listed = row /\ req = [r \in Request |-> Unused]
      /\ row \in [status : Statuses(D.on), version : {1},
                  value : {[f \in Fields[name] |-> "was"]}]
      /\ wrote = [n \in 1 .. MaxFillings |-> 0] /\ unsure = {} /\ left = FALSE
      /\ dlg = [open |-> page, filling |-> IF page THEN 1 ELSE 0, busy |-> None,
                seen |-> row, entry |-> Untouched, told |-> FALSE, shut |-> "user"]
      /\ field \in Followable /\ saved = [n \in 1 .. MaxFillings |-> {}]
  BY <1>1 DEF Init
<1>3. row \in Row /\ row.version = 1
  BY <1>2 DEF Row, Value
<1>4. Out = {} /\ \A r \in Request : req[r].why = "none"
  BY <1>2 DEF Out, Unused
<1>5. /\ dlg.open = page /\ dlg.filling = (IF page THEN 1 ELSE 0) /\ dlg.seen = row
      /\ dlg.told = FALSE /\ dlg.shut = "user" /\ dlg \in State
  BY <1>2, <1>3 DEF State, Entry
<1>6. TypeOK
  <2>1. /\ wrote \in [1 .. MaxFillings -> 0 .. MaxChanges + 1]
        /\ saved \in [1 .. MaxFillings -> SUBSET Entry]
        /\ req \in [Request -> {Unused} \union Sent]
    BY <1>2
  <2>2. /\ listed.version <= row.version /\ dlg.seen.version <= row.version
        /\ unsure \subseteq 0 .. MaxFillings /\ left \in BOOLEAN
    <3>1. row.version <= row.version
      BY <1>3
    <3>2. QED
      BY <1>2, <1>5, <3>1
  <2>3. QED
    BY <1>2, <1>3, <1>4, <1>5, <2>1, <2>2 DEF TypeOK, State, Sent
<1>7. page => D.does = "create" /\ D.busy # "nothing"
  BY <1>6, Followed DEF Sound
<1>8. CopiesTrue /\ OfferedFor
  BY <1>2, <1>4, <1>5, <1>7 DEF CopiesTrue, OfferedFor
<1>9. FillingsCounted
  <2>1. dlg.filling > 0 \/ (~dlg.open /\ ~dlg.told /\ dlg.shut = "user")
    <3>1. CASE page
      BY <1>5, <3>1
    <3>2. CASE ~page
      BY <1>5, <3>2
    <3>3. QED
      BY <3>1, <3>2
  <2>2. D.busy = "nothing" => dlg.filling = 0
    BY <1>5, <1>7
  <2>3. \A n \in 1 .. MaxFillings : wrote[n] = 0 /\ wrote[n] < row.version
    BY <1>2, <1>3
  <2>4. QED
    BY <1>4, <1>5, <2>1, <2>2, <2>3 DEF FillingsCounted
<1>10. OneOut
  BY <1>2, <1>4, <1>5 DEF OneOut
<1>11. WrittenOnce /\ RefusedOnlyIfStale /\ PassedIsTaken
  BY <1>2, <1>4, <1>5 DEF WrittenOnce, RefusedOnlyIfStale, PassedIsTaken
<1>12. QED
  BY <1>6, <1>8, <1>9, <1>10, <1>11 DEF Inductive

\* Every step of every dialog preserves Inductive.
LEMMA NextInductive == Inductive /\ [Next]_vars => Inductive'
<1>1. SUFFICES ASSUME Inductive, [Next]_vars PROVE Inductive'
  OBVIOUS
<1>2. CASE UNCHANGED vars
  <2>1. UNCHANGED <<name, field, row, listed, dlg, req, wrote, saved, unsure, left>>
    BY <1>2 DEF vars
  <2>2. Out' = Out /\ D' = D /\ Row' = Row
  /\ Entry' = Entry /\ Followable' = Followable
    BY <2>1, SameDialog DEF Out
  <2>3. TypeOK'
    BY <1>1, <2>1, <2>2 DEF Inductive, TypeOK
  <2>4. CopiesTrue' /\ OfferedFor' /\ FillingsCounted' /\ OneOut'
    BY <1>1, <2>1, <2>2 DEF Inductive, CopiesTrue, OfferedFor, FillingsCounted, OneOut
  <2>5. /\ WrittenOnce'
        /\ RefusedOnlyIfStale' /\ PassedIsTaken'
    BY <1>1, <2>1, <2>2 DEF Inductive, WrittenOnce,
       RefusedOnlyIfStale, PassedIsTaken
  <2>6. QED
    BY <2>3, <2>4, <2>5 DEF Inductive
<1>3. CASE Next
  BY <1>1, <1>3, OpenStep, BranchesArriveStep, CloseStep, RefreshStep, EditStep, SubmitStep,
     ClickStep, AcceptStep, RefuseStep, SucceedStep, FailStep, OthersChangeStep
     DEF Next, Answer
<1>4. QED
  BY <1>1, <1>2, <1>3

-----------------------------------------------------------------------------
(* What holds of every dialog in every run. *)

(* The strengthening, which TLC checks in the run of this module.            *)
THEOREM InductiveHolds == Spec => []Inductive
<1>1. QED
  BY InitInductive, NextInductive, PTL DEF Spec

(* Types, and that nobody has seen a version of the row that never was.      *)
THEOREM TypeCorrect == Spec => []TypeOK
<1>1. Inductive => TypeOK
  BY DEF Inductive
<1>2. QED
  BY <1>1, InductiveHolds, PTL

(* What is entered once is written once, unless an answer was lost or a form *)
(* was left with its request out.                                            *)
THEOREM NeverWrittenTwice == Spec => []WrittenOnce
<1>1. Inductive => WrittenOnce
  BY DEF Inductive
<1>2. QED
  BY <1>1, InductiveHolds, PTL

(* The buttons of the lists fit the checks of the services: a request about  *)
(* the row as the user saw it is not refused for its status.                 *)
THEOREM ButtonsFitServices == Spec => []RefusedOnlyIfStale
<1>1. Inductive => RefusedOnlyIfStale
  BY DEF Inductive
<1>2. QED
  BY <1>1, InductiveHolds, PTL

(* The schemas of the forms fit the validators but for blank and long text   *)
(* and dates in the future.                                                  *)
THEOREM SchemasFitValidators == Spec => []PassedIsTaken
<1>1. Inductive => PassedIsTaken
  BY DEF Inductive
<1>2. QED
  BY <1>1, InductiveHolds, PTL

\* Only Accept makes a request accepted.
LEMMA AcceptedByAccept ==
  ASSUME Inductive, [Next]_vars, NEW r \in Request, Accepted(r)
  PROVE  Accept(r)
<1>1. req \in [Request -> {Unused} \union Sent] /\ req'[r] # req[r] /\ TypeOK
  BY Types DEF Accepted, Inductive
<1>2. ASSUME NEW q \in Request, Submit(q) \/ Click(q) \/ Refuse(q) \/ Succeed(q) \/ Fail(q)
      PROVE  FALSE
  <2>1. /\ \A p \in Request \ {q} : req'[p] = req[p]
        /\ req[q].at = "sent" => req'[q].at # "accepted"
    <3>1. CASE Submit(q) \/ Click(q)
      BY <1>1, <3>1 DEF Submit, Click, Free
    <3>2. CASE Refuse(q)
      BY <1>1, <3>2, Types DEF Refuse, Sent, Out
    <3>3. CASE Succeed(q) \/ Fail(q)
      BY <1>1, <3>3 DEF Succeed, Fail, Unused
    <3>4. QED
      BY <1>2, <3>1, <3>2, <3>3
  <2>2. QED
    BY <1>1, <2>1 DEF Accepted
<1>3. ASSUME NEW q \in Request, Accept(q)
      PROVE  q = r
  BY <1>1, <1>3 DEF Accept
<1>4. \/ Open \/ BranchesArrive \/ Close \/ Refresh \/ UNCHANGED vars
      \/ \E e \in Entries(D, field) : Edit(e)
      \/ \E status \in Statuses(D.on) \union {"gone"} : OthersChange(status)
      => FALSE
  BY <1>1 DEF Open, BranchesArrive, Close, Refresh, Edit, OthersChange, vars
<1>5. QED
  BY <1>2, <1>3, <1>4 DEF Next, Answer

\* The row after an accepted request, field by field.
LEMMA AfterValue ==
  ASSUME Inductive, NEW r \in Request, Accept(r), NEW f \in Fields[name]
  PROVE  /\ ~Writes(D) => row'.value = row.value
         /\ Writes(D) => row'.value[f] =
              IF f \notin Assigns(D) THEN row.value[f]
              ELSE IF f = field /\ req[r].entry # Untouched /\ f \in D.sends
                     THEN req[r].entry.value
              ELSE IF f \in D.sends \intersect D.loads THEN Loaded(f, req[r].seen.value[f])
              ELSE IF D.does = "edit" THEN "default" ELSE row.value[f]
<1>1. name \in Name /\ Assigned[name] = Assigns(D)
  BY Types DEF Inductive, Assigned, D
<1>2. row' = After(D, req[r])
  BY DEF Accept
<1>3. row'.value = IF Writes(D) THEN Written(D, req[r]) ELSE row.value
  BY <1>2 DEF After
<1>4. QED
  BY <1>1, <1>3 DEF Written

\* The fields of a dialog are those its service assigns and those of its form.
LEMMA FieldsOf ==
  ASSUME TypeOK
  PROVE  Fields[name] = Assigns(D) \union DOMAIN D.fields
<1>1. name \in Name /\ Assigned[name] = Assigns(D)
  BY Types DEF Assigned, D
<1>2. QED
  BY <1>1 DEF Fields, D

(* What the user enters is what is saved, but for the two fields of the form *)
(* of a user that the server does not read.                                  *)
THEOREM SavesAsShown == Spec => SavesWhatItShows
<1>1. ASSUME Inductive, [Next]_vars, NEW r \in Request, Accepted(r),
             req[r].entry # Untouched, <<name, field>> \notin KnownDropped
      PROVE  row'.value[field] = req[r].entry.value
  <2>1. Accept(r) /\ TypeOK /\ r \in Out
    BY <1>1, AcceptedByAccept DEF Inductive, Accepted, Out
  <2>2. field \in DOMAIN D.fields /\ D.fields[field] # {}
    BY <1>1, <2>1, Types, Entered
  <2>3. field \in Fields[name]
    BY <2>1, <2>2, FieldsOf
  <2>4. Writes(D) /\ field \in Assigns(D) \intersect D.sends
    BY <1>1, <2>1, <2>2, Followed DEF Saves
  <2>5. QED
    BY <1>1, <2>1, <2>3, <2>4, AfterValue
<1>2. Inductive /\ [Next]_vars =>
        [\A r \in Request :
           Accepted(r) /\ req[r].entry # Untouched /\ <<name, field>> \notin KnownDropped
             => row'.value[field] = req[r].entry.value]_vars
  BY <1>1
<1>3. QED
  BY <1>2, InductiveHolds, PTL DEF Spec, SavesWhatItShows

\* Only an answer to a request that was accepted closes a dialog, empties it or
\* makes it say that it is done.
LEMMA FinishedByAnswer ==
  ASSUME Inductive, [Next]_vars, Finishes
  PROVE  \E r \in Request : Succeed(r)
<1>1. TypeOK /\ dlg \in State /\ dlg.open
  BY Types DEF Inductive, Finishes
<1>2. ASSUME dlg' = dlg
      PROVE  FALSE
  BY <1>1, <1>2 DEF Finishes
<1>3. ASSUME NEW e \in Entries(D, field), Edit(e)
      PROVE  FALSE
  BY <1>1, <1>3 DEF Edit, Finishes, State
<1>4. CASE Open
  BY <1>1, <1>4 DEF Open
<1>5. CASE BranchesArrive
  <2>1. D.ends # "empties"
    BY <1>1, <1>5, Followed DEF BranchesArrive, Sound
  <2>2. LET new == Emptied(dlg, dlg.seen) IN new.open = dlg.open /\ new.told = dlg.told
    BY <1>1, <1>5, EmptiedState, Types DEF BranchesArrive
  <2>3. dlg'.open = dlg.open /\ dlg'.told = dlg.told
    BY <1>5, <2>2 DEF BranchesArrive
  <2>4. QED
    BY <1>1, <2>1, <2>3 DEF Finishes
<1>6. CASE Close
  BY <1>1, <1>6 DEF Close, Finishes, State
<1>7. ASSUME NEW r \in Request, Submit(r)
      PROVE  FALSE
  BY <1>1, <1>7 DEF Submit, Finishes, State
<1>8. ASSUME NEW r \in Request, Fail(r)
      PROVE  FALSE
  BY <1>1, <1>8, DoneState DEF Fail, Failed, Finishes
<1>9. ASSUME NEW r \in Request, Click(r) \/ Accept(r) \/ Refuse(r)
      PROVE  FALSE
  BY <1>2, <1>9 DEF Click, Accept, Refuse
<1>10. CASE Refresh \/ UNCHANGED vars
  BY <1>2, <1>10 DEF Refresh, vars
<1>11. ASSUME NEW status \in Statuses(D.on) \union {"gone"}, OthersChange(status)
       PROVE  FALSE
  BY <1>2, <1>11 DEF OthersChange
<1>12. QED
  BY <1>3, <1>4, <1>5, <1>6, <1>7, <1>8, <1>9, <1>10, <1>11 DEF Next, Answer

(* A dialog that closes, empties itself or says that it is done has saved    *)
(* what it shows, unless the answer is to what it showed before.             *)
THEOREM ShutIsSaved == Spec => SelfShutMeansSaved
<1>1. ASSUME Inductive, [Next]_vars, Finishes
      PROVE  dlg.entry \in saved[dlg.filling] \/ \E r \in Request : Overtaken(r)
  <2>1. PICK r \in Request : Succeed(r)
    BY <1>1, FinishedByAnswer
  <2>2. /\ TypeOK /\ r \in Out /\ req[r].at = "accepted" /\ req'[r] = Unused
    BY <1>1, <2>1, Types DEF Succeed, Inductive, Out
  <2>3. D.busy # "nothing"
    BY <1>1 DEF Finishes, Inductive, FillingsCounted
  <2>4. CASE <<req[r].filling, req[r].entry>> = <<dlg.filling, dlg.entry>>
    BY <1>1, <2>2, <2>3, <2>4, SavedBefore
  <2>5. CASE <<req[r].filling, req[r].entry>> # <<dlg.filling, dlg.entry>>
    BY <2>2, <2>5 DEF Overtaken, Unused
  <2>6. QED
    BY <2>4, <2>5
<1>2. Inductive /\ [Next]_vars =>
        [Finishes => \/ dlg.entry \in saved[dlg.filling]
                     \/ \E r \in Request : Overtaken(r)]_vars
  BY <1>1
<1>3. QED
  BY <1>2, InductiveHolds, PTL DEF Spec, SelfShutMeansSaved

(* Saving a form that shows the current row changes only what the user       *)
(* changed, but for what two forms do not load, and for the time of day of   *)
(* the dates that three forms load.                                          *)
THEOREM RestIsKept == Spec => KeepsTheRest
<1> DEFINE Others(r) == Fields[name] \ (IF req[r].entry = Untouched THEN {} ELSE {field})
<1>1. ASSUME Inductive, [Next]_vars, NEW r \in Request, Accepted(r),
             req[r].seen.version = row.version, NEW f \in Others(r)
      PROVE  \/ row'.value[f] = row.value[f]
             \/ <<name, f>> \in KnownErased
             \/ <<name, f>> \in KnownCut /\ row'.value[f] = Loaded(f, row.value[f])
  <2>1. Accept(r) /\ TypeOK /\ r \in Out
    BY <1>1, AcceptedByAccept DEF Inductive, Accepted, Out
  <2>2. req[r].seen = row
    BY <1>1, <2>1 DEF Inductive, CopiesTrue
  <2>3. D.does = "edit" /\ f \in Assigns(D) =>
          f \in D.sends \intersect D.loads \/ <<name, f>> \in KnownErased
    BY <2>1, Followed DEF Saves
  <2>4. f \in Fields[name] /\ (f # field \/ req[r].entry = Untouched)
    BY <1>1
  <2>5. f \in D.loads => \/ Loaded(f, row.value[f]) = row.value[f]
                         \/ <<name, f>> \in KnownCut
    BY <2>1, Followed DEF Loaded, Saves
  <2>6. QED
    BY <1>1, <2>1, <2>2, <2>3, <2>4, <2>5, AfterValue
<1>2. Inductive /\ [Next]_vars =>
        [\A r \in Request :
           Accepted(r) /\ req[r].seen.version = row.version
             => \A f \in Fields[name] \ (IF req[r].entry = Untouched THEN {} ELSE {field}) :
                  \/ row'.value[f] = row.value[f]
                  \/ <<name, f>> \in KnownErased
                  \/ <<name, f>> \in KnownCut /\ row'.value[f] = Loaded(f, row.value[f])]_vars
  BY <1>1
<1>3. QED
  BY <1>2, InductiveHolds, PTL DEF Spec, KeepsTheRest
=============================================================================
