--------------------------- MODULE WebQueriesProofs ---------------------------
(***************************************************************************)
(* Theorems about WebQueries, for every role and key, any number of writes *)
(* out at once and of changes of the rows.  The argument has two halves.   *)
(* The tables of routes, pages, hooks and policies are checked against     *)
(* each other (the four lemmas of the first section), which is about       *)
(* constants alone.  The rest is about the cache: a copy that lacks a      *)
(* write of this tab is marked, and asked for while it is on the screen.   *)
(***************************************************************************)
EXTENDS WebQueries, TLAPS

USE WebQueriesAssumption

-----------------------------------------------------------------------------
(* The tables. *)

\* The guards of the routes send nobody in circles.
LEMMA Landings ==
  ASSUME NEW r \in Role, NEW p \in Page
  PROVE  Landing(r, p) \in Page /\ Landing(r, Landing(r, p)) = Landing(r, p)
BY DEF Role, Page, Landing, Allowed

\* What the pages and dialogs of a role read is answered, but for the lists of users
\* that are read for everyone.
LEMMA ReadsAnswered ==
  ASSUME role \in Role, NEW p \in Page, NEW pn \in Panel, At(p, pn),
         NEW v \in Reads(role, p, pn), ~Answers(role, v)
  PROVE  role = "User" /\ v \in {"users", "usersLookup"}
<1>1. Landing(role, p) = p /\ (pn = "viewAs" => role # "User")
  BY DEF At
<1>2. CASE role = "AppAdmin"
  BY <1>1, <1>2 DEF Landing, Allowed, Page, Panel, Reads, ViewAsReads, Answers,
     DashboardReads, SitesReads, Role
<1>3. CASE role = "Manager"
  BY <1>1, <1>3 DEF Landing, Allowed, Page, Panel, Reads, ViewAsReads, Answers,
     DashboardReads, SitesReads, TransactionsReads, TransactionFormReads, PettyCashReads,
     ReportsReads, CarsReads, UsersReads, BranchesPage, AuditLogsReads, InvoicesReads,
     PayablesReads, Role
<1>4. CASE role = "User"
  BY <1>1, <1>4 DEF Landing, Allowed, Page, Panel, Reads, ViewAsReads, Answers,
     DashboardReads, SitesReads, TransactionsReads, TransactionFormReads, PettyCashReads,
     ReportsReads, CarsReads, UsersReads, BranchesPage, AuditLogsReads, InvoicesReads,
     PayablesReads, Role
<1> QED
  BY <1>2, <1>3, <1>4 DEF Role

\* The lists a role can come to see.
LEMMA ReadableFor ==
  ASSUME role \in Role, view \in View, Readable
  PROVE  /\ role = "AppAdmin" =>
              view \in {"sites", "siteUsers", "feedback", "release-notes"}
         /\ role # "AppAdmin" => view \notin {"sites", "siteUsers"}
         /\ role = "Manager" => view # "pettyCashBalance"
<1> PICK p \in Page, pn \in Panel : At(p, pn) /\ view \in Reads(role, p, pn)
  BY DEF Readable
<1>1. Landing(role, p) = p /\ (pn = "viewAs" => role # "User")
  BY DEF At
<1>2. CASE role = "AppAdmin"
  BY <1>1, <1>2 DEF Landing, Allowed, Page, Panel, Reads, ViewAsReads, Role, SitesReads
<1>3. CASE role # "AppAdmin"
  BY <1>1, <1>3 DEF Landing, Allowed, Page, Panel, Reads, ViewAsReads, Role,
     DashboardReads, TransactionsReads, TransactionFormReads, PettyCashReads,
     ReportsReads, CarsReads, UsersReads, BranchesPage, AuditLogsReads, InvoicesReads,
     PayablesReads, SitesReads
<1> QED
  BY <1>2, <1>3

\* The writes that are offered to a role, page by page.
LEMMA OffersAre ==
  ASSUME role \in Role, NEW p \in Page, Landing(role, p) = p, NEW m \in Offers(role, p)
  PROVE  \/ m \in {"createFeedback"}
         \/ role = "AppAdmin" /\ m \in {"createSite", "updateSite", "setSeverity",
              "createNote", "updateNote", "deleteNote"}
         \/ role # "AppAdmin" /\ m \in {"createTransaction", "updateTransaction",
              "createPettyCash", "createCar", "updateCar"}
         \/ role = "Manager" /\ m \in {"approveTransaction", "rejectTransaction",
              "deleteTransaction", "approvePettyCash", "rejectPettyCash",
              "deletePettyCash", "createUser", "updateUser", "resetPassword",
              "createBranch", "createInvoice", "markInvoicePaid", "deleteInvoice",
              "voidInvoice"}
<1>1. CASE p \in {"/", "/settings", "/feedback", "/whats-new", "/sites"}
  BY <1>1 DEF Offers, Landing, Allowed, Page, Role, SitesOffers, FeedbackOffers,
     WhatsNewOffers, UseReleaseNotes
<1>2. CASE p \in {"/transactions", "/petty-cash-requests", "/reports", "/cars"}
  BY <1>2 DEF Offers, Landing, Allowed, Page, Role, TransactionsOffers,
     PettyCashOffers, CarsOffers, UseCars
<1>3. CASE p \in {"/users", "/branches", "/audit-logs", "/invoices", "/accounts-payable"}
  BY <1>3 DEF Offers, Landing, Allowed, Page, Role, UsersOffers, BranchesPage,
     InvoicesOffers, UseInvoices
<1> QED
  BY <1>1, <1>2, <1>3 DEF Page

\* What a page offers to a role, the policies and services permit to it.
LEMMA OffersPermitted ==
  ASSUME role \in Role, NEW p \in Page, Landing(role, p) = p, NEW m \in Offers(role, p)
  PROVE  Permits(role, m)
BY OffersAre DEF Permits, UseInvoices, UseUsers, UseSites, UseReleaseNotes

\* The keys a write tells, hook by hook.
LEMMA TellsBy ==
  ASSUME NEW m, NEW v
  PROVE  /\ m \in UseTransactions.by \union UseApprovePettyCash.by =>
              \A k \in UseTransactions.keys : Prefix(v) = k => Tells(m, v)
         /\ m \in UseInvoices.by =>
              \A k \in UseInvoices.keys : Prefix(v) = k => Tells(m, v)
         /\ m \in UsePettyCashRequests.by /\ Prefix(v) = "pettyCashRequests" => Tells(m, v)
         /\ m \in UseCars.by /\ Prefix(v) = "cars" => Tells(m, v)
         /\ m \in UseBranches.by /\ Prefix(v) = "branches" => Tells(m, v)
         /\ m \in UseUsers.by /\ Prefix(v) = "users" => Tells(m, v)
         /\ m \in UseSites.by /\ Prefix(v) = "sites" => Tells(m, v)
         /\ m \in UseFeedback.by /\ Prefix(v) = "feedback" => Tells(m, v)
         /\ m \in UseReleaseNotes.by /\ Prefix(v) = "release-notes" => Tells(m, v)
<1> DEFINE q == Prefix(v)
<1> HIDE DEF q
<1>0. \A h \in Hooks : m \in h.by /\ q \in h.keys => Tells(m, v)
  BY DEF Tells, q
<1>1. /\ UseTransactions \in Hooks /\ UseApprovePettyCash \in Hooks
      /\ UseInvoices \in Hooks /\ UsePettyCashRequests \in Hooks
      /\ UseCars \in Hooks /\ UseBranches \in Hooks /\ UseUsers \in Hooks
      /\ UseSites \in Hooks /\ UseFeedback \in Hooks /\ UseReleaseNotes \in Hooks
  BY DEF Hooks
<1>2. /\ UseApprovePettyCash.keys = UseTransactions.keys
      /\ "pettyCashRequests" \in UsePettyCashRequests.keys
      /\ "cars" \in UseCars.keys /\ "branches" \in UseBranches.keys
      /\ "users" \in UseUsers.keys /\ "sites" \in UseSites.keys
      /\ "feedback" \in UseFeedback.keys /\ "release-notes" \in UseReleaseNotes.keys
  BY DEF UseApprovePettyCash, UseTransactions, UsePettyCashRequests, UseCars,
     UseBranches, UseUsers, UseSites, UseFeedback, UseReleaseNotes
<1> QED
  BY <1>0, <1>1, <1>2 DEF q

\* What each write changes, the audit log aside.
LEMMA ChangesAre ==
  ASSUME NEW m, NEW s \in Changes(m), s # "auditlogs"
  PROVE  \/ m \in UseTransactions.by /\ s \in {"transactions", "debts"}
         \/ m \in UseInvoices.by /\ s = "invoices"
         \/ m \in {"markInvoicePaid", "voidInvoice"} /\ s = "transactions"
         \/ m \in UsePettyCashRequests.by /\ s = "pettyCashRequests"
         \/ m = "approvePettyCash" /\ s = "transactions"
         \/ m \in UseCars.by /\ s = "cars"
         \/ m \in UseBranches.by /\ s = "branches"
         \/ m \in UseUsers.by /\ s = "users"
         \/ m = "updateUser" /\ s = "roles"
         \/ m = "createSite" /\ s \in {"users", "branches"}
         \/ m \in UseSites.by /\ s = "sites"
         \/ m \in UseFeedback.by /\ s = "feedback"
         \/ m \in UseReleaseNotes.by /\ s = "release-notes"
<1>1. CASE m \in UseTransactions.by
  BY <1>1 DEF Changes, UseTransactions
<1>2. CASE m \notin UseTransactions.by
  BY <1>2 DEF Changes, UseInvoices, UsePettyCashRequests, UseCars, UseBranches,
     UseUsers, UseSites, UseFeedback, UseReleaseNotes
<1> QED
  BY <1>1, <1>2

\* A write that changes a list the role can see, and is not in KnownLag, invalidates it.
LEMMA OffersTell ==
  ASSUME role \in Role, view \in View, Readable,
         NEW p \in Page, Landing(role, p) = p, NEW m \in Offers(role, p),
         Touches(m, view), ~KnownLag(m, view)
  PROVE  Tells(m, view)
<1>1. PICK s \in Changes(m) : s \in Sources(view)
  BY DEF Touches
<1>2. /\ ~(view = "auditlogs" /\ m \in Audited)
      /\ ~(view = "cars" /\ m \in UseTransactions.by)
      /\ ~(view \in {"dashboard", "breakdown", "reports"} /\ m = "updateUser")
      /\ ~(view = "usersLookup" /\ m \in UseUsers.by)
      /\ ~(view = "branches" /\ m = "createSite")
  BY DEF KnownLag
<1>3. s # "auditlogs"
  <2> SUFFICES ASSUME s = "auditlogs" PROVE FALSE
    OBVIOUS
  <2>1. view = "auditlogs"
    BY <1>1 DEF Sources, View
  <2>2. m \in Audited
    BY <1>1, OffersAre DEF Changes, UseTransactions, UseFeedback, UseReleaseNotes, Audited
  <2> QED
    BY <1>2, <2>1, <2>2
<1>4. /\ role = "AppAdmin" => view \in {"sites", "siteUsers", "feedback", "release-notes"}
      /\ role # "AppAdmin" => view \notin {"sites", "siteUsers"}
      /\ role = "Manager" => view # "pettyCashBalance"
  BY ReadableFor
<1>5. CASE m \in UseTransactions.by /\ s \in {"transactions", "debts"}
  BY <1>1, <1>2, <1>5, TellsBy DEF Sources, Prefix, UseTransactions, View
<1>6. CASE m \in UseInvoices.by /\ s = "invoices"
  BY <1>1, <1>6, TellsBy DEF Sources, Prefix, UseInvoices, View
<1>7. CASE m \in {"markInvoicePaid", "voidInvoice"} /\ s = "transactions"
  <2>1. role = "Manager"
    BY <1>7, OffersAre
  <2>2. Prefix(view) \in {"transactions", "dashboard", "reports"}
    BY <1>1, <1>4, <1>7, <2>1 DEF Sources, Prefix, View
  <2>3. m \in UseInvoices.by /\ Prefix(view) \in UseInvoices.keys
    BY <1>7, <2>2 DEF UseInvoices
  <2> QED
    BY <2>3, TellsBy
<1>8. CASE m \in UsePettyCashRequests.by /\ s = "pettyCashRequests"
  BY <1>1, <1>8, TellsBy DEF Sources, Prefix, View
<1>9. CASE m = "approvePettyCash" /\ s = "transactions"
  <2>1. Prefix(view) \in UseTransactions.keys
    BY <1>1, <1>9 DEF Sources, Prefix, View, UseTransactions
  <2>2. m \in UseApprovePettyCash.by
    BY <1>9 DEF UseApprovePettyCash
  <2> QED
    BY <2>1, <2>2, TellsBy
<1>10. CASE m \in UseCars.by /\ s = "cars"
  BY <1>1, <1>10, TellsBy DEF Sources, Prefix, View
<1>11. CASE m \in UseBranches.by /\ s = "branches"
  BY <1>1, <1>11, TellsBy DEF Sources, Prefix, View
<1>12. CASE m \in UseUsers.by /\ s = "users"
  <2>1. role = "Manager"
    BY <1>12, OffersAre DEF UseUsers
  <2> QED
    BY <1>1, <1>2, <1>4, <1>12, <2>1, TellsBy DEF Sources, Prefix, View
<1>13. CASE m = "updateUser" /\ s = "roles"
  BY <1>1, <1>2, <1>13 DEF Sources, View
<1>14. CASE m = "createSite" /\ s \in {"users", "branches"}
  <2>1. role = "AppAdmin"
    BY <1>14, OffersAre
  <2>2. view = "siteUsers"
    BY <1>1, <1>2, <1>4, <1>14, <2>1 DEF Sources
  <2> QED
    BY <1>14, <2>2, TellsBy DEF Prefix, UseSites
<1>15. CASE m \in UseSites.by /\ s = "sites"
  BY <1>1, <1>15, TellsBy DEF Sources, Prefix, View
<1>16. CASE m \in UseFeedback.by /\ s = "feedback"
  BY <1>1, <1>16, TellsBy DEF Sources, Prefix, View
<1>17. CASE m \in UseReleaseNotes.by /\ s = "release-notes"
  BY <1>1, <1>17, TellsBy DEF Sources, Prefix, View
<1> QED
  <2>1. s \in Changes(m)
    OBVIOUS
  <2> QED
    BY <1>3, <1>5, <1>6, <1>7, <1>8, <1>9, <1>10, <1>11, <1>12, <1>13, <1>14, <1>15,
       <1>16, <1>17, <2>1, ChangesAre
-----------------------------------------------------------------------------
(* The cache. *)

\* What the inductive invariant says of the copy, with the key on the screen and
\* readable or not.
Marked(e, o, mi, on, able) ==
  /\ e.asking /\ e.has # 0 => e.stale
  /\ able => /\ e.asking /\ e.read \in 1 .. o - 1 => mi
             /\ e.has \in 1 .. o - 1 /\ ~mi => e.stale /\ (on => e.failed \/ e.asking)

\* It is CopiesMarked of the state.
LEMMA MarkedIs == CopiesMarked <=> Marked(entry, own, missed, Mounted, Readable)
BY DEF CopiesMarked, Marked

\* The types of a copy and of a write, when the rows are at version d.
Copy(d) == [has : 0 .. d, stale : BOOLEAN, asking : BOOLEAN,
            read : 0 .. d, tried : BOOLEAN, failed : BOOLEAN]
Write(d) == [at : {"idle", "sent", "done"}, touches : BOOLEAN, tells : BOOLEAN,
             due : BOOLEAN, allowed : BOOLEAN, made : 0 .. d]

\* TypeOK in these terms.
LEMMA Types ==
  TypeOK <=> /\ role \in Role /\ view \in View /\ page \in Page /\ panel \in Panel
             /\ db \in Version \ {0} /\ own \in 0 .. db /\ missed \in BOOLEAN
             /\ entry \in Copy(db) /\ job \in [Job -> Write(db)]
BY DEF TypeOK, Copy, Write

\* What is on the screen can be read.
LEMMA OnScreen ==
  ASSUME page \in Page, panel \in Panel, At(page, panel), Mounted
  PROVE  Readable
BY DEF Readable, Mounted

\* A request for a key, from any copy.
LEMMA AskedIs ==
  ASSUME NEW d \in Nat, NEW e \in Copy(d)
  PROVE  /\ Asked(e) \in Copy(d)
         /\ Asked(e).has = e.has /\ Asked(e).stale = e.stale /\ Asked(e).asking
         /\ Asked(e).read = 0 /\ ~Asked(e).tried
         /\ Asked(e).failed <=> e.failed /\ e.has # 0
<1>1. /\ e.has \in 0 .. d /\ e.stale \in BOOLEAN /\ e.failed \in BOOLEAN /\ 0 \in 0 .. d
      /\ e = [has |-> e.has, stale |-> e.stale, asking |-> e.asking, read |-> e.read,
              tried |-> e.tried, failed |-> e.failed]
  BY DEF Copy
<1> DEFINE f == e.failed /\ e.has # 0
<1>2. Asked(e) = [e EXCEPT !.asking = TRUE, !.read = 0, !.tried = FALSE, !.failed = f]
  BY DEF Asked
<1>3. f \in BOOLEAN /\ (f <=> e.failed /\ e.has # 0)
  OBVIOUS
<1> HIDE DEF f
<1>4. Asked(e) = [has |-> e.has, stale |-> e.stale, asking |-> TRUE, read |-> 0,
                  tried |-> FALSE, failed |-> f]
  BY <1>1, <1>2
<1> QED
  BY <1>1, <1>3, <1>4 DEF Copy

\* An empty cache.
LEMMA EmptyIs ==
  ASSUME NEW d \in Nat
  PROVE  /\ Empty \in Copy(d) /\ Empty.has = 0 /\ ~Empty.stale /\ ~Empty.asking
         /\ Empty.read = 0 /\ ~Empty.tried /\ ~Empty.failed
BY DEF Empty, Copy

LEMMA InitInductive == Init => Inductive
<1> SUFFICES ASSUME Init PROVE Inductive
  OBVIOUS
<1> USE DEF Init
<1>1. page \in Page /\ panel \in Panel /\ At(page, panel)
  <2>1. "/" \in Page /\ "none" \in Panel
    BY DEF Page, Panel
  <2> QED
    BY <2>1, Landings DEF At
<1>2. 1 \in Nat /\ 1 \in Version \ {0} /\ 0 \in 0 .. 1
  BY DEF Version
<1>3. entry \in Copy(1) /\ entry.has = 0 /\ entry.read = 0 /\ (entry.asking => Mounted)
  <2>1. CASE Mounted
    BY <1>2, <2>1, EmptyIs, AskedIs
  <2>2. CASE ~Mounted
    BY <1>2, <2>2, EmptyIs
  <2> QED
    BY <2>1, <2>2
<1>4. Free \in Write(1) /\ Free.at = "idle" /\ ~Free.due
  BY DEF Free, Write
<1>5. TypeOK
  BY <1>1, <1>2, <1>3, <1>4, Types
<1>6. WritesTell
  BY <1>4 DEF WritesTell
<1>7. PagesFitPolicies
  <2>1. entry.asking /\ ~Answers(role, view)
          => role = "User" /\ view \in {"users", "usersLookup"}
    BY <1>1, <1>3, ReadsAnswered DEF Mounted
  <2> QED
    BY <1>4, <2>1 DEF PagesFitPolicies
<1>8. CopiesMarked
  BY <1>3 DEF CopiesMarked
<1> QED
  BY <1>1, <1>5, <1>6, <1>7, <1>8 DEF Inductive

-----------------------------------------------------------------------------
(* Every step keeps it. *)

\* A page or dialog that the role may be at is shown.
LEMMA ShownKeeps ==
  ASSUME Inductive, NEW p \in Page, NEW pn \in Panel, At(p, pn), Shown(p, pn),
         UNCHANGED <<role, view, db, job, own>>
  PROVE  Inductive'
<1> DEFINE mounts == /\ view \in Reads(role, p, pn)
                     /\ p # page \/ ~Mounted
           asks == mounts /\ ~entry.asking /\ (entry.has = 0 \/ entry.stale)
<1>1. /\ page' = p /\ panel' = pn
      /\ entry' = IF asks THEN Asked(entry) ELSE entry
      /\ missed' = (missed /\ ~asks)
      /\ role' = role /\ view' = view /\ db' = db /\ job' = job /\ own' = own
  BY DEF Shown
<1>2. /\ TypeOK /\ WritesTell /\ PagesFitPolicies /\ At(page, panel)
      /\ Marked(entry, own, missed, Mounted, Readable)
  BY MarkedIs DEF Inductive
<1>3. /\ role \in Role /\ view \in View /\ db \in Version \ {0} /\ own \in 0 .. db
      /\ missed \in BOOLEAN /\ entry \in Copy(db) /\ job \in [Job -> Write(db)]
      /\ db \in Nat /\ page \in Page /\ panel \in Panel
  BY <1>2, Types DEF Version
<1>4. (Mounted' <=> view \in Reads(role, p, pn)) /\ (Readable' <=> Readable) /\ At(p, pn)'
  BY <1>1 DEF Mounted, Readable, At
<1>5. Mounted' => Readable
  BY <1>4 DEF Readable
<1>6. asks => view \in Reads(role, p, pn)
  OBVIOUS
<1>7. Mounted' /\ ~asks => \/ Mounted
                           \/ entry.asking
                           \/ entry.has # 0 /\ ~entry.stale
  BY <1>3, <1>4 DEF Copy
<1> HIDE DEF asks
<1>8. CASE asks
  <2>1. entry' = Asked(entry) /\ ~missed' /\ (missed' \in BOOLEAN)
    BY <1>1, <1>8
  <2>2. /\ entry' \in Copy(db)
        /\ entry'.has = entry.has /\ entry'.stale = entry.stale /\ entry'.asking
        /\ entry'.read = 0
    BY <1>3, <2>1, AskedIs
  <2>3. entry.has = 0 \/ entry.stale
    BY <1>8 DEF asks
  <2>4. CopiesMarked'
    BY <1>3, <2>2, <2>3 DEF CopiesMarked, Copy
  <2>5. TypeOK'
    BY <1>1, <1>3, <2>1, <2>2 DEF TypeOK, Copy, Write
  <2>6. PagesFitPolicies'
    <3>1. ~Answers(role, view) => role = "User" /\ view \in {"users", "usersLookup"}
      BY <1>3, <1>6, <1>8, ReadsAnswered
    <3> QED
      BY <1>1, <1>2, <3>1 DEF PagesFitPolicies
  <2> QED
    BY <1>1, <1>2, <1>4, <2>4, <2>5, <2>6 DEF Inductive, WritesTell
<1>9. CASE ~asks
  <2>1. entry' = entry /\ missed' = missed
    BY <1>1, <1>3, <1>9
  <2>2. Marked(entry, own, missed, Mounted', Readable)
    BY <1>2, <1>3, <1>7, <1>9, <2>1 DEF Marked, Copy
  <2>3. CopiesMarked'
    BY <1>1, <1>4, <2>1, <2>2 DEF CopiesMarked, Marked
  <2>4. TypeOK'
    BY <1>1, <1>2, <2>1 DEF TypeOK, Version
  <2>5. PagesFitPolicies'
    BY <1>1, <1>2, <2>1 DEF PagesFitPolicies
  <2> QED
    BY <1>1, <1>2, <1>4, <2>3, <2>4, <2>5 DEF Inductive, WritesTell
<1> QED
  BY <1>8, <1>9

\* A page is followed or visited, a dialog opened or closed.
LEMMA MovesKeep ==
  ASSUME Inductive,
         \/ \E p \in Page : Follow(p) \/ Visit(p)
         \/ \E pn \in Panel \ {"none"} : OpenPanel(pn)
         \/ ClosePanel
  PROVE  Inductive'
<1>1. role \in Role /\ page \in Page /\ panel \in Panel /\ At(page, panel)
  BY DEF Inductive, TypeOK
<1>2. "none" \in Panel
  BY DEF Panel
<1>3. ASSUME NEW p \in Page, Follow(p) \/ Visit(p) PROVE Inductive'
  <2>1. Landing(role, p) \in Page /\ At(Landing(role, p), "none")
    BY <1>1, Landings DEF At
  <2>2. Shown(Landing(role, p), "none") /\ UNCHANGED <<role, view, db, job, own>>
    BY <1>3 DEF Follow, Visit
  <2> QED
    BY <1>2, <2>1, <2>2, ShownKeeps
<1>4. ASSUME NEW pn \in Panel \ {"none"}, OpenPanel(pn) PROVE Inductive'
  <2>1. At(page, pn)
    BY <1>1, <1>4 DEF At, OpenPanel
  <2>2. Shown(page, pn) /\ UNCHANGED <<role, view, db, job, own>>
    BY <1>4 DEF OpenPanel
  <2> QED
    BY <1>1, <2>1, <2>2, ShownKeeps
<1>5. ASSUME ClosePanel PROVE Inductive'
  <2>1. At(page, "none")
    BY <1>1 DEF At
  <2>2. Shown(page, "none") /\ UNCHANGED <<role, view, db, job, own>>
    BY <1>5 DEF ClosePanel
  <2> QED
    BY <1>1, <1>2, <2>1, <2>2, ShownKeeps
<1> QED
  BY <1>3, <1>4, <1>5

\* A step that leaves the screen, the rows and the writes alone keeps the invariant if it
\* keeps the marks on the copy and asks for nothing new.
LEMMA CopyKeeps ==
  ASSUME Inductive, UNCHANGED <<role, view, page, panel, db, job, own>>,
         entry' \in Copy(db), missed' \in BOOLEAN, entry'.asking => entry.asking,
         Marked(entry', own, missed', Mounted, Readable)
  PROVE  Inductive'
<1>1. /\ TypeOK /\ WritesTell /\ PagesFitPolicies /\ At(page, panel)
      /\ role' = role /\ view' = view /\ page' = page /\ panel' = panel /\ db' = db
      /\ job' = job /\ own' = own
  BY DEF Inductive
<1>2. (Mounted' <=> Mounted) /\ (Readable' <=> Readable) /\ At(page, panel)'
  BY <1>1 DEF Mounted, Readable, At
<1>3. TypeOK'
  BY <1>1 DEF TypeOK, Copy
<1>4. PagesFitPolicies' /\ WritesTell'
  BY <1>1, <1>2 DEF PagesFitPolicies, WritesTell
<1>5. CopiesMarked'
  BY <1>1, <1>2 DEF CopiesMarked, Marked
<1> QED
  BY <1>2, <1>3, <1>4, <1>5 DEF Inductive

\* What those steps start from.
LEMMA CopyFacts ==
  ASSUME Inductive
  PROVE  /\ db \in Nat /\ db # 0 /\ own \in 0 .. db /\ missed \in BOOLEAN
         /\ entry.has \in 0 .. db /\ entry.stale \in BOOLEAN
         /\ entry.asking \in BOOLEAN /\ entry.read \in 0 .. db /\ entry.tried \in BOOLEAN
         /\ entry.failed \in BOOLEAN
         /\ entry = [has |-> entry.has, stale |-> entry.stale, asking |-> entry.asking,
              read |-> entry.read, tried |-> entry.tried, failed |-> entry.failed]
         /\ Marked(entry, own, missed, Mounted, Readable)
         /\ Mounted => Readable
         /\ Mounted \in BOOLEAN /\ Readable \in BOOLEAN
<1>1. TypeOK /\ At(page, panel) /\ Marked(entry, own, missed, Mounted, Readable)
  BY MarkedIs DEF Inductive
<1>2. Mounted => Readable
  BY <1>1, OnScreen DEF TypeOK
<1>3. Mounted \in BOOLEAN /\ Readable \in BOOLEAN
  BY DEF Mounted, Readable
<1> QED
  BY <1>1, <1>2, <1>3 DEF TypeOK, Version

\* The server reads the rows for the request that is out: all that were written.
LEMMA ServerReadsKeeps ==
  ASSUME Inductive, ServerReads
  PROVE  Inductive'
<1>1. /\ db \in Nat /\ db # 0 /\ own \in 0 .. db /\ missed \in BOOLEAN
      /\ entry.has \in 0 .. db /\ entry.stale \in BOOLEAN
      /\ entry.asking \in BOOLEAN /\ entry.read \in 0 .. db /\ entry.tried \in BOOLEAN
      /\ entry.failed \in BOOLEAN
      /\ entry = [has |-> entry.has, stale |-> entry.stale, asking |-> entry.asking,
           read |-> entry.read, tried |-> entry.tried, failed |-> entry.failed]
      /\ Marked(entry, own, missed, Mounted, Readable)
  BY CopyFacts
<1>2. entry' = [has |-> entry.has, stale |-> entry.stale, asking |-> entry.asking,
           read |-> db, tried |-> entry.tried, failed |-> entry.failed]
  BY <1>1 DEF ServerReads
<1>3. entry' \in Copy(db) /\ (entry'.asking => entry.asking)
  BY <1>1, <1>2 DEF Copy
<1>4. missed' = missed
  BY DEF ServerReads
<1>5. Marked(entry', own, missed', Mounted, Readable)
  BY <1>1, <1>2, <1>4 DEF Marked
<1> QED
  BY <1>1, <1>3, <1>4, <1>5, CopyKeeps DEF ServerReads

\* The answer becomes the copy, and is as new as the writes or was let through.
LEMMA LandsKeeps ==
  ASSUME Inductive, Lands
  PROVE  Inductive'
<1>1. /\ db \in Nat /\ own \in 0 .. db /\ missed \in BOOLEAN
      /\ entry.asking /\ entry.read \in 1 .. db /\ missed' = missed
      /\ Marked(entry, own, missed, Mounted, Readable)
  BY CopyFacts DEF Lands
<1>2. entry' = [has |-> entry.read, stale |-> FALSE, asking |-> FALSE, read |-> 0,
                tried |-> FALSE, failed |-> FALSE]
  BY DEF Lands, Empty
<1>3. entry' \in Copy(db) /\ (entry'.asking => entry.asking)
  BY <1>1, <1>2 DEF Copy
<1>4. Marked(entry', own, missed', Mounted, Readable)
  BY <1>1, <1>2 DEF Marked
<1> QED
  BY <1>1, <1>3, <1>4, CopyKeeps DEF Lands

\* The request is sent again: whatever comes is read from now on.
LEMMA RetriesKeeps ==
  ASSUME Inductive, Retries
  PROVE  Inductive'
<1>1. /\ db \in Nat /\ own \in 0 .. db /\ entry.asking
      /\ entry.has \in 0 .. db /\ entry.stale \in BOOLEAN /\ entry.failed \in BOOLEAN
      /\ entry = [has |-> entry.has, stale |-> entry.stale, asking |-> entry.asking,
           read |-> entry.read, tried |-> entry.tried, failed |-> entry.failed]
      /\ Marked(entry, own, missed, Mounted, Readable) /\ ~missed'
  BY CopyFacts DEF Retries
<1>2. entry' = [has |-> entry.has, stale |-> entry.stale, asking |-> entry.asking,
                read |-> 0, tried |-> TRUE, failed |-> entry.failed]
  BY <1>1 DEF Retries
<1>3. entry' \in Copy(db) /\ (entry'.asking => entry.asking)
  BY <1>1, <1>2 DEF Copy
<1>4. Marked(entry', own, missed', Mounted, Readable)
  BY <1>1, <1>2 DEF Marked
<1>5. missed' \in BOOLEAN
  BY DEF Retries
<1> QED
  BY <1>1, <1>3, <1>4, <1>5, CopyKeeps DEF Retries

\* The copy stays, with an error.
LEMMA GivesUpKeeps ==
  ASSUME Inductive, GivesUp
  PROVE  Inductive'
<1>1. /\ db \in Nat /\ own \in 0 .. db /\ missed \in BOOLEAN /\ entry.asking
      /\ entry.has \in 0 .. db /\ entry.stale \in BOOLEAN /\ entry.tried \in BOOLEAN
      /\ entry = [has |-> entry.has, stale |-> entry.stale, asking |-> entry.asking,
           read |-> entry.read, tried |-> entry.tried, failed |-> entry.failed]
      /\ Marked(entry, own, missed, Mounted, Readable) /\ missed' = missed
  BY CopyFacts DEF GivesUp
<1>2. entry' = [has |-> entry.has, stale |-> entry.stale, asking |-> FALSE,
                read |-> 0, tried |-> entry.tried, failed |-> TRUE]
  BY <1>1 DEF GivesUp
<1>3. entry' \in Copy(db) /\ (entry'.asking => entry.asking)
  BY <1>1, <1>2 DEF Copy
<1>4. Marked(entry', own, missed', Mounted, Readable)
  BY <1>1, <1>2 DEF Marked
<1> QED
  BY <1>1, <1>3, <1>4, CopyKeeps DEF GivesUp

\* A copy that lacks no write gets old.
LEMMA AgesKeeps ==
  ASSUME Inductive, Ages
  PROVE  Inductive'
<1>1. /\ db \in Nat /\ own \in 0 .. db /\ missed \in BOOLEAN
      /\ entry.has \in 0 .. db /\ ~entry.stale /\ entry.asking \in BOOLEAN
      /\ entry.read \in 0 .. db /\ entry.tried \in BOOLEAN /\ entry.failed \in BOOLEAN
      /\ entry = [has |-> entry.has, stale |-> entry.stale, asking |-> entry.asking,
           read |-> entry.read, tried |-> entry.tried, failed |-> entry.failed]
      /\ Marked(entry, own, missed, Mounted, Readable) /\ missed' = missed
  BY CopyFacts DEF Ages
<1>2. entry' = [has |-> entry.has, stale |-> TRUE, asking |-> entry.asking,
                read |-> entry.read, tried |-> entry.tried, failed |-> entry.failed]
  BY <1>1 DEF Ages
<1>3. entry' \in Copy(db) /\ (entry'.asking => entry.asking)
  BY <1>1, <1>2 DEF Copy
<1>4. Marked(entry', own, missed', Mounted, Readable)
  BY <1>1, <1>2 DEF Marked
<1> QED
  BY <1>1, <1>3, <1>4, CopyKeeps DEF Ages

\* Nothing is left to lack a write.
LEMMA ForgottenKeeps ==
  ASSUME Inductive, Forgotten
  PROVE  Inductive'
<1>1. db \in Nat /\ own \in 0 .. db /\ ~missed' /\ missed' \in BOOLEAN /\ entry' = Empty
  BY CopyFacts DEF Forgotten
<1>2. entry' \in Copy(db) /\ entry'.has = 0 /\ ~entry'.asking
  BY <1>1, EmptyIs
<1>3. Marked(entry', own, missed', Mounted, Readable)
  BY <1>1, <1>2 DEF Marked
<1> QED
  BY <1>1, <1>2, <1>3, CopyKeeps DEF Forgotten

-----------------------------------------------------------------------------
(* The writes. *)

\* A step of one write, or of nobody, which leaves the screen alone, keeps the invariant
\* if the write is still one that was permitted and tells what it should.
LEMMA WriteKeeps ==
  ASSUME Inductive, UNCHANGED <<role, view, page, panel>>,
         db' \in Version, db <= db', own' \in 0 .. db', missed' \in BOOLEAN,
         entry' \in Copy(db'), entry'.asking => entry.asking \/ Mounted,
         Marked(entry', own', missed', Mounted, Readable),
         NEW j \in Job, NEW w \in Write(db'), job' = [job EXCEPT ![j] = w] \/ job' = job,
         w.at # "idle" => w.allowed, w.due /\ Readable => w.tells
  PROVE  Inductive'
<1>1. /\ TypeOK /\ WritesTell /\ PagesFitPolicies /\ At(page, panel)
      /\ role' = role /\ view' = view /\ page' = page /\ panel' = panel
      /\ role \in Role /\ view \in View /\ page \in Page /\ panel \in Panel
      /\ db \in Version \ {0} /\ job \in [Job -> Write(db)]
  BY Types DEF Inductive
<1>2. (Mounted' <=> Mounted) /\ (Readable' <=> Readable) /\ At(page, panel)'
  BY <1>1 DEF Mounted, Readable, At
<1>3. db \in Nat /\ db' \in Nat /\ db' # 0
  BY <1>1 DEF Version
<1>4. \A x \in Write(db) : x \in Write(db')
  BY <1>3 DEF Write
<1>5. /\ job' \in [Job -> Write(db')]
      /\ \A k \in Job : job'[k] = job[k] \/ job'[k] = w
  BY <1>1, <1>4
<1>6. TypeOK'
  BY <1>1, <1>3, <1>5 DEF TypeOK, Copy, Write
<1>7. WritesTell'
  BY <1>1, <1>2, <1>5 DEF WritesTell
<1>8. PagesFitPolicies'
  <2>1. \A k \in Job : job'[k].at # "idle" => job'[k].allowed
    BY <1>1, <1>5 DEF PagesFitPolicies
  <2>2. Mounted /\ ~Answers(role, view)
          => role = "User" /\ view \in {"users", "usersLookup"}
    BY <1>1, ReadsAnswered DEF Mounted
  <2> QED
    BY <1>1, <2>1, <2>2 DEF PagesFitPolicies
<1>9. CopiesMarked'
  BY <1>2 DEF CopiesMarked, Marked
<1> QED
  BY <1>2, <1>6, <1>7, <1>8, <1>9 DEF Inductive

\* What the steps of the writes start from.
LEMMA WriteFacts ==
  ASSUME Inductive
  PROVE  /\ role \in Role /\ view \in View /\ page \in Page /\ Landing(role, page) = page
         /\ db \in Version \ {0} /\ entry \in Copy(db)
         /\ job \in [Job -> Write(db)]
         /\ \A j \in Job : /\ job[j].at # "idle" => job[j].allowed
                           /\ job[j].due /\ Readable => job[j].tells
         /\ \A d \in Nat : d >= db => Copy(db) \subseteq Copy(d) /\ Free \in Write(d)
         /\ ~Free.due /\ Free.at = "idle"
<1>1. TypeOK /\ At(page, panel) /\ PagesFitPolicies /\ WritesTell
  BY DEF Inductive
<1>2. /\ role \in Role /\ view \in View /\ page \in Page /\ db \in Version \ {0}
      /\ entry \in Copy(db) /\ job \in [Job -> Write(db)] /\ db \in Nat
  BY <1>1, Types DEF Version
<1>3. \A d \in Nat : d >= db => Copy(db) \subseteq Copy(d)
  BY <1>2 DEF Copy
<1>4. \A d \in Nat : Free \in Write(d)
  BY DEF Free, Write
<1> QED
  BY <1>1, <1>2, <1>3, <1>4 DEF At, PagesFitPolicies, WritesTell, Free

\* A write that the page offers is permitted, and tells what it should.
LEMMA SubmitKeeps ==
  ASSUME Inductive, NEW j \in Job, NEW m \in Offers(role, page), Submit(j, m)
  PROVE  Inductive'
<1> DEFINE w == [at |-> "sent", touches |-> Touches(m, view), tells |-> Tells(m, view),
                 due |-> Touches(m, view) /\ ~KnownLag(m, view),
                 allowed |-> Permits(role, m), made |-> 0]
<1>1. /\ job' = [job EXCEPT ![j] = w]
      /\ UNCHANGED <<role, view, page, panel, db, entry, own, missed>>
  BY DEF Submit
<1>2. /\ role \in Role /\ view \in View /\ page \in Page /\ Landing(role, page) = page
      /\ db \in Version \ {0} /\ entry \in Copy(db) /\ db \in Nat
  BY WriteFacts DEF Version
<1>3. own \in 0 .. db /\ missed \in BOOLEAN /\ Marked(entry, own, missed, Mounted, Readable)
  BY CopyFacts
<1>4. w.allowed
  BY <1>2, OffersPermitted
<1>5. w.due /\ Readable => w.tells
  BY <1>2, OffersTell
<1>6. w \in Write(db)
  <2>1. /\ Touches(m, view) \in BOOLEAN /\ Tells(m, view) \in BOOLEAN
        /\ Permits(role, m) \in BOOLEAN
    BY DEF Touches, Tells, Permits
  <2>2. (Touches(m, view) /\ ~KnownLag(m, view)) \in BOOLEAN
    OBVIOUS
  <2> QED
    BY <1>2, <2>1, <2>2 DEF Write
<1> HIDE DEF w
<1>7. /\ w \in Write(db') /\ entry' \in Copy(db') /\ db' \in Version /\ db <= db'
      /\ own' \in 0 .. db' /\ missed' \in BOOLEAN /\ (entry'.asking => entry.asking)
      /\ Marked(entry', own', missed', Mounted, Readable)
  BY <1>1, <1>2, <1>3, <1>6
<1> QED
  BY <1>1, <1>4, <1>5, <1>7, WriteKeeps

\* A write is saved: the rows are newer than anything read or acknowledged.
LEMMA CommitKeeps ==
  ASSUME Inductive, NEW j \in Job, Commit(j)
  PROVE  Inductive'
<1> DEFINE n == IF job[j].touches THEN db + 1 ELSE 0
           w == [job[j] EXCEPT !.at = "done", !.made = n]
<1>1. /\ db \in Nat /\ db # 0 /\ db \in Version /\ entry \in Copy(db)
      /\ job \in [Job -> Write(db)] /\ job[j].allowed
      /\ job[j].due /\ Readable => job[j].tells
  BY WriteFacts DEF Version, Commit
<1>2. own \in 0 .. db /\ missed \in BOOLEAN /\ Marked(entry, own, missed, Mounted, Readable)
  BY CopyFacts
<1>3. /\ db' = (IF job[j].touches THEN db + 1 ELSE db)
      /\ job[j].touches => db <= MaxChanges
      /\ UNCHANGED <<role, view, page, panel, entry, own, missed>>
  BY DEF Commit
<1>4. db' \in Version /\ db <= db' /\ db' \in Nat /\ own' \in 0 .. db' /\ n \in 0 .. db'
  BY <1>1, <1>2, <1>3 DEF Version
<1>5. job' = [job EXCEPT ![j] = w]
  BY <1>1 DEF Commit
<1> HIDE DEF n
<1>6. /\ w \in Write(db') /\ w.due = job[j].due /\ w.tells = job[j].tells
      /\ w.allowed = job[j].allowed
  BY <1>1, <1>4 DEF Write
<1>7. entry' \in Copy(db')
  BY <1>1, <1>3, <1>4, WriteFacts
<1>8. w.allowed /\ (w.due /\ Readable => w.tells)
  BY <1>1, <1>6
<1> HIDE DEF w
<1> QED
  BY <1>2, <1>3, <1>4, <1>5, <1>6, <1>7, <1>8, WriteKeeps

\* Nobody hears of a write that fails.
LEMMA FailsKeeps ==
  ASSUME Inductive, NEW j \in Job, Fails(j)
  PROVE  Inductive'
<1>1. /\ job' = [job EXCEPT ![j] = Free]
      /\ UNCHANGED <<role, view, page, panel, db, entry, own, missed>>
  BY DEF Fails
<1>2. db \in Version /\ entry \in Copy(db) /\ db \in Nat
  BY WriteFacts DEF Version
<1>3. own \in 0 .. db /\ missed \in BOOLEAN /\ Marked(entry, own, missed, Mounted, Readable)
  BY CopyFacts
<1>4. Free \in Write(db) /\ ~Free.due /\ Free.at = "idle"
  BY <1>2, WriteFacts
<1>5. /\ Free \in Write(db') /\ entry' \in Copy(db') /\ db' \in Version /\ db <= db'
      /\ own' \in 0 .. db' /\ missed' \in BOOLEAN /\ (entry'.asking => entry.asking)
      /\ Marked(entry', own', missed', Mounted, Readable)
      /\ Free.at # "idle" => Free.allowed
      /\ Free.due /\ Readable => Free.tells
  BY <1>1, <1>2, <1>3, <1>4
<1> HIDE DEF Free
<1> QED
  BY <1>1, <1>5, WriteKeeps

\* A change of the rows by somebody else takes nothing from the copy.
LEMMA OthersChangeKeeps ==
  ASSUME Inductive, OthersChange
  PROVE  Inductive'
<1>1. db \in Nat /\ db # 0 /\ entry \in Copy(db) /\ TypeOK /\ At(page, panel)
      /\ PagesFitPolicies /\ WritesTell /\ CopiesMarked
  BY WriteFacts DEF Version, Inductive
<1>2. /\ db' = db + 1 /\ db <= MaxChanges
      /\ UNCHANGED <<role, view, page, panel, entry, job, own, missed>>
  BY DEF OthersChange
<1>3. TypeOK'
  BY <1>1, <1>2 DEF TypeOK, Version
<1>4. (Mounted' <=> Mounted) /\ (Readable' <=> Readable) /\ At(page, panel)'
  BY <1>1, <1>2 DEF Mounted, Readable, At
<1>5. PagesFitPolicies' /\ WritesTell' /\ CopiesMarked'
  BY <1>1, <1>2, <1>4 DEF PagesFitPolicies, WritesTell, CopiesMarked
<1> QED
  BY <1>3, <1>4, <1>5 DEF Inductive

\* What the cache is told of a write.
LEMMA InvalidatedIs ==
  ASSUME NEW d \in Nat, NEW e \in Copy(d)
  PROVE  /\ Restarts(e) =>
              /\ Invalidated(e) \in Copy(d) /\ Invalidated(e).has = e.has
              /\ Invalidated(e).stale /\ Invalidated(e).asking
              /\ Invalidated(e).read = 0
         /\ ~Restarts(e) =>
              \/ e = Empty /\ Invalidated(e) = e
              \/ /\ Invalidated(e) \in Copy(d) /\ Invalidated(e).stale
                 /\ Invalidated(e).has = e.has /\ Invalidated(e).read = e.read
                 /\ Invalidated(e).asking = e.asking
                 /\ Invalidated(e).failed = e.failed
<1>1. CASE Restarts(e)
  <2>1. Asked(e) \in Copy(d) /\ Asked(e).has = e.has /\ Asked(e).asking
        /\ Asked(e).read = 0
    BY AskedIs
  <2>2. Invalidated(e) = [Asked(e) EXCEPT !.stale = TRUE]
    BY <1>1 DEF Invalidated
  <2> QED
    BY <1>1, <2>1, <2>2 DEF Copy
<1>2. CASE ~Restarts(e) /\ e = Empty
  BY <1>2 DEF Invalidated
<1>3. CASE ~Restarts(e) /\ e # Empty
  <2>1. Invalidated(e) = [e EXCEPT !.stale = TRUE]
    BY <1>3 DEF Invalidated
  <2> QED
    BY <1>3, <2>1 DEF Copy
<1> QED
  BY <1>1, <1>2, <1>3

\* A write is acknowledged: what lacks it is read again, is marked, or was let through.
LEMMA AcknowledgedKeeps ==
  ASSUME Inductive, NEW j \in Job, Acknowledged(j)
  PROVE  Inductive'
<1> DEFINE w == job[j]
           late == w.due /\ entry.asking /\ entry.read \in 1 .. (w.made - 1)
<1>1. /\ w.at = "done"
      /\ job' = [job EXCEPT ![j] = Free]
      /\ own' = IF w.due /\ w.made > own THEN w.made ELSE own
      /\ entry' = IF w.tells THEN Invalidated(entry) ELSE entry
      /\ missed' = IF w.tells THEN ~Restarts(entry) /\ (missed \/ late) ELSE missed
      /\ UNCHANGED <<role, view, page, panel, db>>
  BY DEF Acknowledged
<1>2. /\ db \in Version /\ db \in Nat /\ entry \in Copy(db) /\ w \in Write(db)
      /\ w.due /\ Readable => w.tells
      /\ Free \in Write(db) /\ ~Free.due /\ Free.at = "idle"
  BY WriteFacts DEF Version
<1>3. /\ own \in 0 .. db /\ missed \in BOOLEAN /\ entry.asking \in BOOLEAN
      /\ entry.has \in 0 .. db /\ entry.read \in 0 .. db
      /\ Marked(entry, own, missed, Mounted, Readable)
      /\ Mounted => Readable
  BY CopyFacts
<1>4. w.made \in 0 .. db /\ w.due \in BOOLEAN /\ w.tells \in BOOLEAN
  BY <1>2 DEF Write
<1>5. own' \in 0 .. db
  BY <1>1, <1>3, <1>4
<1>6. missed' \in BOOLEAN
  <2>1. (~Restarts(entry) /\ (missed \/ late)) \in BOOLEAN
    OBVIOUS
  <2> QED
    BY <1>1, <1>3, <2>1
<1>7. /\ entry' \in Copy(db) /\ (entry'.asking => entry.asking \/ Mounted)
      /\ Marked(entry', own', missed', Mounted, Readable)
  <2>1. CASE ~w.tells
    <3>1. entry' = entry /\ (missed' <=> missed) /\ (Readable => own' = own)
      BY <1>1, <1>2, <2>1
    <3> QED
      BY <1>2, <1>3, <3>1 DEF Marked
  <2>2. CASE w.tells /\ Restarts(entry)
    <3>1. /\ entry' \in Copy(db) /\ entry'.has = entry.has /\ entry'.stale
          /\ entry'.asking /\ entry'.read = 0 /\ Mounted
      BY <1>1, <1>2, <2>2, InvalidatedIs DEF Restarts
    <3> QED
      BY <1>3, <1>5, <3>1 DEF Marked
  <2>3. CASE w.tells /\ ~Restarts(entry) /\ entry = Empty /\ Invalidated(entry) = entry
    <3>1. entry' = entry
      BY <1>1, <2>3
    <3> QED
      BY <1>2, <1>5, <2>3, <3>1, EmptyIs DEF Marked
  <2>4. CASE /\ w.tells /\ ~Restarts(entry)
             /\ Invalidated(entry) \in Copy(db) /\ Invalidated(entry).stale
             /\ Invalidated(entry).has = entry.has
             /\ Invalidated(entry).read = entry.read
             /\ Invalidated(entry).asking = entry.asking
             /\ Invalidated(entry).failed = entry.failed
    <3>1. /\ entry' \in Copy(db) /\ entry'.has = entry.has /\ entry'.stale
          /\ entry'.asking = entry.asking /\ entry'.read = entry.read
          /\ missed' <=> missed \/ late
      BY <1>1, <2>4
    <3>2. Mounted => entry.has = 0 /\ entry.asking
      BY <1>3, <2>4 DEF Restarts
    <3>3. ASSUME Readable, entry.asking, entry.read \in 1 .. own' - 1 PROVE missed'
      <4>1. CASE w.due /\ w.made > own
        BY <1>1, <1>3, <1>4, <3>1, <3>3, <4>1
      <4>2. CASE ~(w.due /\ w.made > own)
        BY <1>1, <1>3, <3>1, <3>3, <4>2 DEF Marked
      <4> QED
        BY <4>1, <4>2
    <3> QED
      BY <1>3, <1>5, <3>1, <3>2, <3>3 DEF Marked
  <2> QED
    BY <1>2, <2>1, <2>2, <2>3, <2>4, InvalidatedIs
<1>8. /\ Free \in Write(db') /\ entry' \in Copy(db') /\ db' \in Version /\ db <= db'
      /\ own' \in 0 .. db' /\ UNCHANGED <<role, view, page, panel>>
      /\ Free.at # "idle" => Free.allowed
      /\ Free.due /\ Readable => Free.tells
      /\ job' = [job EXCEPT ![j] = Free]
  BY <1>1, <1>2, <1>5, <1>7
<1> HIDE DEF w, late
<1> QED
  BY <1>6, <1>7, <1>8, WriteKeeps

-----------------------------------------------------------------------------
(* The theorems. *)

\* Every step keeps the inductive invariant.
LEMMA NextInductive == Inductive /\ [Next]_vars => Inductive'
<1> SUFFICES ASSUME Inductive, [Next]_vars PROVE Inductive'
  OBVIOUS
<1>1. CASE UNCHANGED vars
  <2>1. /\ role' = role /\ view' = view /\ page' = page /\ panel' = panel /\ db' = db
        /\ entry' = entry /\ job' = job /\ own' = own /\ missed' = missed
    BY <1>1 DEF vars
  <2> QED
    BY <2>1 DEF Inductive, TypeOK, At, PagesFitPolicies, WritesTell, CopiesMarked,
       Readable, Mounted, Version
<1>2. CASE Next
  <2>1. \/ \E p \in Page : Follow(p) \/ Visit(p)
        \/ \E pn \in Panel \ {"none"} : OpenPanel(pn)
        \/ ClosePanel
        \/ ServerReads \/ Lands \/ Retries \/ GivesUp \/ Ages \/ Forgotten
        \/ OthersChange
        \/ \E j \in Job : \/ \E m \in Offers(role, page) : Submit(j, m)
                          \/ Commit(j) \/ Fails(j) \/ Acknowledged(j)
    BY <1>2 DEF Next
  <2> QED
    BY <2>1, MovesKeep, ServerReadsKeeps, LandsKeeps, RetriesKeeps, GivesUpKeeps,
       AgesKeeps, ForgottenKeeps, OthersChangeKeeps, SubmitKeeps, CommitKeeps,
       FailsKeeps, AcknowledgedKeeps
<1> QED
  BY <1>1, <1>2

\* The inductive invariant holds: the run web_queries checks the same on an instance.
THEOREM InductiveHolds == Spec => []Inductive
BY InitInductive, NextInductive, PTL DEF Spec

\* Nothing is cached or read that the rows never were.
THEOREM TypeCorrect == Spec => []TypeOK
<1>1. Inductive => TypeOK
  BY DEF Inductive
<1> QED
  BY <1>1, InductiveHolds, PTL

\* Once a write of this tab is acknowledged, every list it changes shows it wherever the
\* user goes, except for the writes in KnownLag and for an answer that was already under
\* way for a list not read before.
THEOREM WritesAreShown == Spec => []OwnWritesShown
<1>1. Inductive => OwnWritesShown
  BY CopyFacts DEF Marked, OwnWritesShown
<1> QED
  BY <1>1, InductiveHolds, PTL

\* Whatever route a role reaches a page by, the page offers no write that is refused to
\* the role, and reads no list that is but for those read for everyone.
THEOREM PagesFit == Spec => []PagesFitPolicies
<1>1. Inductive => PagesFitPolicies
  BY DEF Inductive
<1> QED
  BY <1>1, InductiveHolds, PTL
=============================================================================
