----------------------------- MODULE WebQueries -----------------------------
(***************************************************************************)
(* What the screens of the web client (FinanceLedger.Web) show of the      *)
(* ledger: the routes, the pages, the react-query hooks and their cache.   *)
(*                                                                         *)
(* A page reads lists through hooks.  A hook caches what it read under a   *)
(* key and reads it anew when the page is opened and the copy is older     *)
(* than 30 seconds or invalidated.  A write tells the cache which keys it  *)
(* invalidates, once its answer arrives, and the pages live on meanwhile.  *)
(* The module follows one key, whichever, through every page and write of  *)
(* one role: what is in the cache is a version of the rows it is read from.*)
(***************************************************************************)
EXTENDS Naturals, FiniteSets

CONSTANTS
  Job,        \* the writes a tab may have out at once
  MaxChanges  \* bound: how often the rows change

ASSUME WebQueriesAssumption == MaxChanges \in Nat

VARIABLES
  role,   \* the role of the effective user (never changes)
  view,   \* the key that is followed (never changes)
  page,   \* the page on the screen
  panel,  \* the dialog over it that reads on its own
  db,     \* the version of the rows the key is read from
  entry,  \* the key in the query cache, and its request
  job,    \* the writes
  own,    \* the newest version an acknowledged write of this tab made
  missed  \* history: an answer read before such a write was let through

vars == <<role, view, page, panel, db, entry, job, own, missed>>

Role == {"AppAdmin", "Manager", "User"}
View == {"transactions", "usersLookup", "pettyCashBalance", "dashboard",
         "breakdown", "reports", "pettyCashRequests", "invoices", "cars",
         "branches", "users", "viewAsUsers", "auditlogs", "sites",
         "siteUsers", "feedback", "release-notes"}
Page == {"/", "/settings", "/feedback", "/whats-new", "/sites",
         "/transactions", "/petty-cash-requests", "/reports", "/cars",
         "/users", "/branches", "/audit-logs", "/invoices",
         "/accounts-payable"}
Panel == {"none", "breakdown", "viewAs"}
-----------------------------------------------------------------------------
(* The hooks: which writes invalidate which keys. *)

\* Fault: only the list itself is refreshed.
UseTransactionsListOnly ==
  [by |-> {"createTransaction", "updateTransaction", "deleteTransaction",
           "approveTransaction", "rejectTransaction"},
   keys |-> {"transactions"}]
UseTransactions ==
  [by |-> {"createTransaction", "updateTransaction", "deleteTransaction",
           "approveTransaction", "rejectTransaction"},
   keys |-> {"transactions", "dashboard", "pettyCashBalance", "reports"}]
UseInvoices ==
  [by |-> {"createInvoice", "markInvoicePaid", "deleteInvoice", "voidInvoice"},
   keys |-> {"invoices", "dashboard", "transactions", "reports", "cars"}]
UsePettyCashRequests ==
  [by |-> {"createPettyCash", "approvePettyCash", "rejectPettyCash",
           "deletePettyCash"},
   keys |-> {"pettyCashRequests"}]
UseApprovePettyCash ==
  [by |-> {"approvePettyCash"},
   keys |-> {"transactions", "dashboard", "pettyCashBalance", "reports"}]
UseCars == [by |-> {"createCar", "updateCar"}, keys |-> {"cars"}]
UseBranches == [by |-> {"createBranch"}, keys |-> {"branches"}]
UseUsers == [by |-> {"createUser", "updateUser"}, keys |-> {"users"}]
UseSites == [by |-> {"createSite", "updateSite"}, keys |-> {"sites"}]
UseFeedback == [by |-> {"createFeedback", "setSeverity"}, keys |-> {"feedback"}]
UseReleaseNotes ==
  [by |-> {"createNote", "updateNote", "deleteNote"}, keys |-> {"release-notes"}]

Hooks == {UseTransactions, UseInvoices, UsePettyCashRequests,
          UseApprovePettyCash, UseCars, UseBranches, UseUsers, UseSites,
          UseFeedback, UseReleaseNotes}

\* A key is invalidated with all that start with it.
Prefix(v) == CASE v = "breakdown" -> "dashboard"
               [] v = "siteUsers" -> "sites"
               [] v = "viewAsUsers" -> "users"
               [] OTHER -> v
Tells(m, v) == \E h \in Hooks : m \in h.by /\ Prefix(v) \in h.keys
-----------------------------------------------------------------------------
(* The server: the rows a list is made of, the rows a write changes, and   *)
(* who is answered.                                                        *)

Sources(v) ==
  CASE v \in {"transactions", "pettyCashBalance"} -> {"transactions"}
    [] v \in {"dashboard", "breakdown", "reports"} -> {"transactions", "roles"}
    [] v = "cars" -> {"cars", "debts", "invoices"}
    [] v \in {"users", "viewAsUsers", "siteUsers", "usersLookup"} -> {"users"}
    [] OTHER -> {v}

Audited == {"createTransaction", "updateTransaction", "deleteTransaction",
            "approveTransaction", "rejectTransaction", "createInvoice",
            "markInvoicePaid", "deleteInvoice", "voidInvoice",
            "createPettyCash", "approvePettyCash", "rejectPettyCash",
            "deletePettyCash", "createCar", "updateCar", "createBranch",
            "createUser", "updateUser", "resetPassword"}
Changes(m) ==
  (IF m \in Audited THEN {"auditlogs"} ELSE {}) \union
  CASE m \in UseTransactions.by -> {"transactions", "debts"}
    [] m \in {"createInvoice", "deleteInvoice"} -> {"invoices"}
    [] m \in {"markInvoicePaid", "voidInvoice"} -> {"invoices", "transactions"}
    [] m \in {"createPettyCash", "rejectPettyCash", "deletePettyCash"} ->
         {"pettyCashRequests"}
    [] m = "approvePettyCash" -> {"pettyCashRequests", "transactions"}
    [] m \in {"createCar", "updateCar"} -> {"cars"}
    [] m = "createBranch" -> {"branches"}
    [] m = "createUser" -> {"users"}
    [] m = "updateUser" -> {"users", "roles"}
    [] m = "createSite" -> {"sites", "users", "branches"}
    [] m = "updateSite" -> {"sites"}
    [] m \in UseFeedback.by -> {"feedback"}
    [] m \in UseReleaseNotes.by -> {"release-notes"}
    [] OTHER -> {}
Touches(m, v) == Changes(m) \intersect Sources(v) # {}

\* What the hooks leave out: a list goes on showing the old rows for up to
\* 30 seconds after these writes, and until it is opened again.
KnownLag(m, v) ==
  \/ v = "auditlogs" /\ m \in Audited
  \/ v = "cars" /\ m \in UseTransactions.by
  \/ v \in {"dashboard", "breakdown", "reports"} /\ m = "updateUser"
  \/ v = "usersLookup" /\ m \in UseUsers.by
  \/ v = "branches" /\ m = "createSite"

\* The policies ("ManagerOnly", "AppAdminOnly") and the checks in the
\* services.
Answers(r, v) ==
  CASE v \in {"users", "viewAsUsers", "usersLookup", "invoices", "auditlogs"} ->
         r = "Manager"
    [] v \in {"sites", "siteUsers"} -> r = "AppAdmin"
    [] OTHER -> TRUE
Permits(r, m) ==
  CASE m \in {"deleteTransaction", "approveTransaction", "rejectTransaction",
              "approvePettyCash", "rejectPettyCash", "deletePettyCash",
              "createBranch", "resetPassword"}
             \union UseInvoices.by \union UseUsers.by -> r = "Manager"
    [] m \in {"setSeverity"} \union UseSites.by \union UseReleaseNotes.by ->
         r = "AppAdmin"
    [] OTHER -> TRUE
-----------------------------------------------------------------------------
(* The pages: what each reads, and what it offers to a role. *)

TransactionsReads(r) ==
  {"transactions", "branches"} \union
  (IF r # "Manager" THEN {"pettyCashBalance"} ELSE {})
\* The form is part of the page even while it is closed.
TransactionFormReads == {"branches", "usersLookup", "cars"}

TransactionsOffers(r) ==
  {"createTransaction", "updateTransaction"} \union
  (IF r = "Manager"
     THEN {"approveTransaction", "rejectTransaction", "deleteTransaction"}
     ELSE {})

PettyCashReads == {"pettyCashRequests", "branches"}
PettyCashOffers(r) ==
  {"createPettyCash"} \union
  (IF r = "Manager"
     THEN {"approvePettyCash", "rejectPettyCash", "deletePettyCash"} ELSE {})

InvoicesReads == {"invoices", "branches", "cars"}
InvoicesOffers == UseInvoices.by
PayablesReads == {"cars", "branches"}
CarsReads == {"cars", "branches"}
CarsOffers == UseCars.by
UsersReads == {"users", "branches"}
UsersOffers == {"createUser", "updateUser", "resetPassword"}
BranchesPage == [reads |-> {"branches"}, offers |-> {"createBranch"}]
SitesReads == {"sites"}
SitesOffers == {"createSite", "updateSite"}
DashboardReads(pn) ==
  {"dashboard"} \union (IF pn = "breakdown" THEN {"breakdown"} ELSE {})

\* The list of users is for the manager's filter, but read for everyone.
ReportsReads == {"reports", "branches", "users"}
AuditLogsReads == {"auditlogs"}
FeedbackOffers(r) ==
  {"createFeedback"} \union (IF r = "AppAdmin" THEN {"setSeverity"} ELSE {})
WhatsNewOffers(r) == IF r = "AppAdmin" THEN UseReleaseNotes.by ELSE {}

\* The dialog in the layout, while it is open.
ViewAsReads(r) ==
  IF r = "AppAdmin" THEN {"sites", "siteUsers"} ELSE {"viewAsUsers"}

Reads(r, p, pn) ==
  (IF pn = "viewAs" THEN ViewAsReads(r) ELSE {}) \union
  CASE p = "/" -> DashboardReads(pn)
    [] p = "/transactions" -> TransactionsReads(r) \union TransactionFormReads
    [] p = "/petty-cash-requests" -> PettyCashReads
    [] p = "/reports" -> ReportsReads
    [] p = "/cars" -> CarsReads
    [] p = "/users" -> UsersReads
    [] p = "/branches" -> BranchesPage.reads
    [] p = "/audit-logs" -> AuditLogsReads
    [] p = "/invoices" -> InvoicesReads
    [] p = "/accounts-payable" -> PayablesReads
    [] p = "/sites" -> SitesReads
    [] p = "/feedback" -> {"feedback"}
    [] p = "/whats-new" -> {"release-notes"}
    [] OTHER -> {}
Offers(r, p) ==
  CASE p = "/transactions" -> TransactionsOffers(r)
    [] p = "/petty-cash-requests" -> PettyCashOffers(r)
    [] p = "/cars" -> CarsOffers
    [] p = "/users" -> UsersOffers
    [] p = "/branches" -> BranchesPage.offers
    [] p = "/invoices" -> InvoicesOffers
    [] p = "/sites" -> SitesOffers
    [] p = "/feedback" -> FeedbackOffers(r)
    [] p = "/whats-new" -> WhatsNewOffers(r)
    [] OTHER -> {}
-----------------------------------------------------------------------------
(* The routes. *)

\* Fault: the guards let everyone who is signed in through.
AllowedAll(p) == Role
Allowed(p) ==
  CASE p \in {"/", "/settings", "/feedback", "/whats-new"} -> Role
    [] p = "/sites" -> {"AppAdmin"}
    [] p \in {"/transactions", "/petty-cash-requests", "/reports", "/cars"} ->
         {"Manager", "User"}
    [] OTHER -> {"Manager"}

\* RoleGuard sends who is not allowed to "/", and Home sends the Application
\* Admin on to the sites.
Landing(r, p) ==
  IF r \in Allowed(p) /\ ~(p = "/" /\ r = "AppAdmin") THEN p
  ELSE IF r = "AppAdmin" THEN "/sites" ELSE "/"

\* The entries of the navigation.
Links(r) ==
  {"/settings", "/feedback", "/whats-new"} \union
  (IF r = "AppAdmin" THEN {"/sites"}
   ELSE {"/", "/transactions", "/petty-cash-requests", "/reports", "/cars"}) \union
  (IF r = "Manager" THEN {"/invoices", "/accounts-payable", "/users",
                          "/branches", "/audit-logs"} ELSE {})
-----------------------------------------------------------------------------
(* The query cache, as the client uses it. *)

\* A key nobody has asked for.  has: the version cached (0: none); read: the
\* version the server read for the request that is out (0: not yet).
Empty == [has |-> 0, stale |-> FALSE, asking |-> FALSE, read |-> 0,
          tried |-> FALSE, failed |-> FALSE]
Asked(e) == [e EXCEPT !.asking = TRUE, !.read = 0, !.tried = FALSE,
                      !.failed = @ /\ e.has # 0]

Mounted == view \in Reads(role, page, panel)

\* A page or panel that reads the key is shown: a copy that is missing or
\* stale is read again.
Shown(p, pn) ==
  LET mounts == /\ view \in Reads(role, p, pn)
                /\ p # page \/ ~Mounted
      asks == mounts /\ ~entry.asking /\ (entry.has = 0 \/ entry.stale)
  IN /\ page' = p
     /\ panel' = pn
     /\ entry' = IF asks THEN Asked(entry) ELSE entry
     /\ missed' = (missed /\ ~asks)

Free == [at |-> "idle", touches |-> FALSE, tells |-> FALSE, due |-> FALSE,
         allowed |-> FALSE, made |-> 0]

Init ==
  /\ role \in Role
  /\ view \in View
  /\ page = Landing(role, "/")
  /\ panel = "none"
  /\ db = 1
  /\ entry = IF Mounted THEN Asked(Empty) ELSE Empty
  /\ job = [j \in Job |-> Free]
  /\ own = 0
  /\ missed = FALSE

\* The writes that have to do with the key followed, or that are refused, and
\* the pages that do, or show nothing; no others are distinguished.
ConcernsKey(r, v, m) == Touches(m, v) \/ Tells(m, v) \/ ~Permits(r, m)
Concerns(m) == ConcernsKey(role, view, m)
Mattering ==
  [r \in Role, v \in View |->
     {p \in Page : \/ p = "/settings"
                   \/ \E pn \in Panel : v \in Reads(r, p, pn)
                   \/ \E m \in Offers(r, p) : ConcernsKey(r, v, m)}]
Matters(p) == p \in Mattering[role, view]

Follow(p) ==
  /\ panel = "none" /\ p \in Links(role)
  /\ Matters(Landing(role, p))
  /\ Shown(Landing(role, p), "none")
  /\ UNCHANGED <<role, view, db, job, own>>

\* A link or the history leads to an address that is not in the navigation of
\* the role.  (Within the tab: a load of the page starts with an empty cache.)
Visit(p) ==
  /\ panel = "none" /\ p \notin Links(role)
  /\ Matters(Landing(role, p))
  /\ Shown(Landing(role, p), "none")
  /\ UNCHANGED <<role, view, db, job, own>>

OpenPanel(pn) ==
  /\ panel = "none"
  /\ \/ pn = "breakdown" /\ page = "/" /\ entry.has # 0
     \/ pn = "viewAs" /\ role # "User"
  /\ Shown(page, pn)
  /\ UNCHANGED <<role, view, db, job, own>>

ClosePanel ==
  /\ panel # "none"
  /\ Shown(page, "none")
  /\ UNCHANGED <<role, view, db, job, own>>

\* The server reads for the request that is out.
ServerReads ==
  /\ entry.asking /\ entry.read = 0
  /\ Answers(role, view)
  /\ entry' = [entry EXCEPT !.read = db]
  /\ UNCHANGED <<role, view, page, panel, db, job, own, missed>>

Lands ==
  /\ entry.asking /\ entry.read # 0
  /\ entry' = [Empty EXCEPT !.has = entry.read]
  /\ UNCHANGED <<role, view, page, panel, db, job, own, missed>>

\* retry: 1.  The request failed (403, no answer) and is sent once more.
Retries ==
  /\ entry.asking /\ ~entry.tried
  /\ entry' = [entry EXCEPT !.tried = TRUE, !.read = 0]
  /\ missed' = FALSE
  /\ UNCHANGED <<role, view, page, panel, db, job, own>>

GivesUp ==
  /\ entry.asking /\ entry.tried
  /\ entry' = [entry EXCEPT !.asking = FALSE, !.read = 0, !.failed = TRUE]
  /\ UNCHANGED <<role, view, page, panel, db, job, own, missed>>

\* staleTime: 30 seconds.
Ages ==
  /\ entry.has # 0 /\ ~entry.stale
  /\ entry' = [entry EXCEPT !.stale = TRUE]
  /\ UNCHANGED <<role, view, page, panel, db, job, own, missed>>

\* A copy no page has shown for five minutes is dropped.
Forgotten ==
  /\ entry # Empty /\ ~Mounted /\ ~entry.asking
  /\ entry' = Empty
  /\ missed' = FALSE
  /\ UNCHANGED <<role, view, page, panel, db, job, own>>
-----------------------------------------------------------------------------
(* Writes: useMutation and onSuccess. *)

Submit(j, m) ==
  /\ job[j].at = "idle" /\ panel = "none"
  /\ m \in Offers(role, page) /\ Concerns(m)
  /\ job' = [job EXCEPT ![j] =
       [at |-> "sent", touches |-> Touches(m, view), tells |-> Tells(m, view),
        due |-> Touches(m, view) /\ ~KnownLag(m, view),
        allowed |-> Permits(role, m), made |-> 0]]
  /\ UNCHANGED <<role, view, page, panel, db, entry, own, missed>>

\* Fault: the write is answered before it is saved.
CommitUnsaved(j) ==
  /\ job[j].at = "sent" /\ job[j].allowed
  /\ job[j].touches => db <= MaxChanges
  /\ job' = [job EXCEPT ![j].at = "done",
                        ![j].made = IF job[j].touches THEN db + 1 ELSE 0]
  /\ UNCHANGED <<role, view, page, panel, db, entry, own, missed>>

Commit(j) ==
  /\ job[j].at = "sent" /\ job[j].allowed
  /\ job[j].touches => db <= MaxChanges
  /\ db' = IF job[j].touches THEN db + 1 ELSE db
  /\ job' = [job EXCEPT ![j].at = "done",
                        ![j].made = IF job[j].touches THEN db + 1 ELSE 0]
  /\ UNCHANGED <<role, view, page, panel, entry, own, missed>>

\* The write was refused, or its answer was lost, before or after the commit:
\* onSuccess does not run.
Fails(j) ==
  /\ job[j].at # "idle"
  /\ job' = [job EXCEPT ![j] = Free]
  /\ UNCHANGED <<role, view, page, panel, db, entry, own, missed>>

\* Fault: the copy is marked but not read again while it is on the screen.
RestartsNever(e) == FALSE

\* invalidateQueries reads the keys on the screen again: a request that is
\* out is cancelled for a new one, but only if there is a copy already.
Restarts(e) == Mounted /\ (e.has # 0 \/ ~e.asking)

Invalidated(e) ==
  IF Restarts(e) THEN [Asked(e) EXCEPT !.stale = TRUE]
  ELSE IF e = Empty THEN e ELSE [e EXCEPT !.stale = TRUE]

\* The answer to a write: onSuccess.
Acknowledged(j) ==
  LET w == job[j]
      late == w.due /\ entry.asking /\ entry.read \in 1 .. (w.made - 1)
  IN /\ w.at = "done"
     /\ job' = [job EXCEPT ![j] = Free]
     /\ own' = IF w.due /\ w.made > own THEN w.made ELSE own
     /\ entry' = IF w.tells THEN Invalidated(entry) ELSE entry
     /\ missed' = IF w.tells
                    THEN ~Restarts(entry) /\ (missed \/ late) ELSE missed
     /\ UNCHANGED <<role, view, page, panel, db>>

\* A change by somebody else, of which the client learns nothing.
OthersChange ==
  /\ db <= MaxChanges
  /\ db' = db + 1
  /\ UNCHANGED <<role, view, page, panel, entry, job, own, missed>>
-----------------------------------------------------------------------------
Answered == Lands \/ GivesUp \/ Retries

Next ==
  \/ \E p \in Page : Follow(p) \/ Visit(p)
  \/ \E pn \in Panel \ {"none"} : OpenPanel(pn)
  \/ ClosePanel
  \/ ServerReads \/ Lands \/ Retries \/ GivesUp \/ Ages \/ Forgotten
  \/ \E j \in Job :
       \/ \E m \in Offers(role, page) : Submit(j, m)
       \/ Commit(j) \/ Fails(j) \/ Acknowledged(j)
  \/ OthersChange

Spec == Init /\ [][Next]_vars

\* Every read is answered or gives up.
FairSpec == Spec /\ WF_vars(ServerReads) /\ WF_vars(Answered)
-----------------------------------------------------------------------------
Version == 0 .. MaxChanges + 1

\* Types; nothing is cached or read that the rows never were.
TypeOK ==
  /\ role \in Role /\ view \in View /\ page \in Page /\ panel \in Panel
  /\ db \in Version \ {0} /\ own \in 0 .. db /\ missed \in BOOLEAN
  /\ entry \in [has : 0 .. db, stale : BOOLEAN, asking : BOOLEAN,
                read : 0 .. db, tried : BOOLEAN, failed : BOOLEAN]
  /\ job \in [Job -> [at : {"idle", "sent", "done"}, touches : BOOLEAN,
                      tells : BOOLEAN, due : BOOLEAN, allowed : BOOLEAN,
                      made : 0 .. db]]

\* Once a write of this tab is acknowledged, every list it changes shows it
\* wherever the user goes ("they must never go stale relative to each
\* other"), except for the writes in KnownLag and for an answer that was
\* already under way for a list not read before.
OwnWritesShown ==
  Mounted /\ entry.has # 0 /\ ~entry.asking /\ ~entry.failed /\ ~missed
    => entry.has >= own

\* Whatever route a role reaches a page by, the page offers no write that the
\* policies and services refuse to the role, and reads no list that they refuse
\* to it but for the reports and the form of an entry of a plain user.
PagesFitPolicies ==
  /\ \A j \in Job : job[j].at # "idle" => job[j].allowed
  /\ entry.asking /\ ~Answers(role, view)
       => role = "User" /\ view \in {"users", "usersLookup"}

\* A list on the screen that lacks a write of this tab catches up, fails
\* with an error, or is left.
OwnWritesArrive ==
  Mounted /\ entry.has < own
    ~> \/ entry.has >= own \/ entry.failed \/ missed
       \/ ~Mounted
-----------------------------------------------------------------------------
(* The inductive strengthening of the invariants above. *)

\* The pages and dialogs a role can be at, and the keys it can come to see there.
At(p, pn) == Landing(role, p) = p /\ (pn = "viewAs" => role # "User")
Readable == \E p \in Page, pn \in Panel : At(p, pn) /\ view \in Reads(role, p, pn)

\* A write is one that the page offers: if it changes a list that the role can
\* see, and is not in KnownLag, it invalidates it.
WritesTell == \A j \in Job : job[j].due /\ ~job[j].tells => ~Readable

\* A list is read again only if there is no copy or the copy is stale; what is
\* read for it, and what is cached, has every acknowledged write, or the copy is
\* stale (and asked for or failed, on the screen), or an answer was let through.
CopiesMarked ==
  /\ entry.asking /\ entry.has # 0 => entry.stale
  /\ entry.asking /\ entry.read \in 1 .. own - 1 => missed \/ ~Readable
  /\ entry.has \in 1 .. own - 1 /\ ~missed =>
       \/ entry.stale /\ (Mounted => entry.failed \/ entry.asking)
       \/ ~Readable

Inductive ==
  /\ TypeOK /\ At(page, panel) /\ PagesFitPolicies /\ WritesTell /\ CopiesMarked

=============================================================================
