# Finance Ledger Pro in TLA+

TLA+ modules, TLC configurations and TLAPS proofs about this repository: an
ASP.NET Core API over Postgres (invoices, ledger entries, petty cash, audit
trail), a React web client, a React Native client with an offline outbox, and a
Google Sheets sync. Paths below are relative to the repository root.

To check: `tlc -config <X>.cfg <module>` for each run of the table, and
`tlapm <module>` for each module whose name ends in `Proofs`. Every invariant and
every action property that a passing run checks is stated by a theorem, and so is
each refinement; liveness is model-checked only (section 6).

## 1. The system

| Part | State | Operations | What makes it correct |
|------|-------|------------|-----------------------|
| **InvoiceService** (`src/FinanceLedger.Application/Services`) | rows of `invoices`: status, PPH23, two references to ledger entries | create, mark paid, void, delete | a Paid invoice names exactly the entries of its settlement; void removes them before it reopens; every entry of a settlement can be traced |
| **TransactionService** | rows of `transactions`: kind, amount, owner, approval status | create, update, approve, reject, delete, balance | approved entries are edited by managers only; a user's expenses stay within what was issued to the user |
| **PettyCashRequestService** | rows of `petty_cash_requests`: status, reference to the funding entry | submit, approve, reject, delete | decided once; an approved request names the entry issued for it, and every such entry is named |
| **AuditService** | rows of `audit_logs` | log | every committed change is logged, nothing else is |
| **RepositoryBase, LedgerDbContext** | the tables; `xmin` of each row | add, update, delete: one `SaveChanges` each | a save of a row that has moved on is refused |
| **Mobile outbox and sync** (`src/FinanceLedger.Mobile/src/offline`) | one JSON list in AsyncStorage, the `syncing` flag | enqueue, remove, mark failure, flush; triggers from NetInfo, background fetch, launch, button | a queued entry is never lost, is sent in order, once, and eventually |
| **Web session** (`src/FinanceLedger.Web/src`: `context/AuthContext.tsx`, `api/axiosClient.ts`, `api/tokenStore.ts`) | tokens and user in localStorage, shared by the tabs; the acted-as user in sessionStorage and in React state; a pending queue per tab | sign in, sign out, View as, request, 401, renewal, retry | each waiting request is settled; requests act as the user the banner names; changes as somebody else only where allowed; the cache holds the data of the user on the screen |
| **Web screens** (`pages`, `hooks`, `routes`) | the query cache; open dialogs and their forms | open a page, read, write, invalidate; open, fill in, send, close | a list shows what its user wrote; pages offer and ask what the server grants; what is entered is saved, once, and nothing else changes |
| **Mobile session** (mobile `api/client.ts`, `auth`) | two tokens and the user, three keys of SecureStore; the shared refresh promise; the user on the screens | sign in, sign out, request, 401, refresh, retry, cold start | the screens show whose tokens are stored, signed out means that none are left; one refresh for all, and no used token presented |
| **Google Sheets sync** (SyncService, Worker) | the sheet | timer tick, admin endpoint; the worker's channel for manual triggers has no writer | what is appended and how often |
| **Sites, users, branches** (TenantService, UserService, BranchService, SupabaseAuthClient) | local rows and external identities | create and update in several steps across both | no site without admin, no identity without row, claims equal to the row |
| **View as, in the API** (UserContextMiddleware) | per-request claims | act as another user, read-only unless asked | a read-only session writes nothing |
| **Files** | blobs and attachment rows | upload | no orphans either way |
| **Cars, dashboard, reports** | none of their own but the cars | sums over the ledger | agree with the ledger |
| **Feedback, release notes** | single rows | create, update, delete | |
| **Exports, e-mail, seeding, RLS** | none | | see section 8 |

How they interact: the web and mobile clients call the API over HTTP; each
request has a scoped `DbContext`, and the services call repositories, which
save at once. InvoiceService and PettyCashRequestService write ledger entries
through the repository, not through TransactionService; TransactionService
neither knows nor checks who names an entry. Every service calls AuditService
after a save. The mobile client talks to the API only through
`transactionsApi.create` and the read endpoints. The web client has a page per
kind of row; the pages share one query cache and one axios client, and the tabs
of a browser share the tokens.

What is hard in it:

* **No database transaction spans a service method.** Each `AddAsync`,
  `UpdateAsync`, `DeleteAsync` and `LogAsync` commits alone. Requests interleave
  between their saves, a conflict found by `xmin` comes after earlier saves have
  committed, and a disconnect (`CancellationToken`) or restart can end a
  request anywhere.
* **Checks are made on what was loaded.** `xmin` protects the row that is
  saved, and nothing protects what was read from other rows (the balance).
* **The outbox is a read, an await and a write of a whole list**, shared by the
  forms and the flush, over a network that loses answers.
* **The web client acts on answers that come late**: on a dialog that was closed
  and opened again, on a cache that was cleared for another user, on a tab
  whose tokens another tab has replaced.
* **Rules are written twice, apart**: what a role may do (routes, pages,
  policies, services), what a value may be (form schemas, validators), what a
  write changes (services) and which lists it makes stale (hooks).

`PROJECT.json` lists each such hazard at its line, with the properties about it.

## 2. Modules

| Module | What it is |
|--------|------------|
| `SettlementLifecycle` | abstract: what the invoice half promises, each request one step |
| `InvoiceSettlement` | InvoiceService and the manager's use of TransactionService, save by save |
| `MCInvoiceSettlement` | the same with symmetry, for TLC |
| `InvoiceSettlementProofs` | theorems about InvoiceSettlement |
| `PettyCash`, `MCPettyCash` | PettyCashRequestService and TransactionService with the balance |
| `PettyCashProofs` | theorems about PettyCash |
| `PettyCashBalanceProofs` | theorem about the balance of PettyCash, and the lemmas on sums it needs |
| `DurableQueue` | abstract: a durable FIFO queue |
| `Outbox`, `MCOutbox` | the mobile outbox, its forms, its flush and the device |
| `OutboxProofs` | theorems about Outbox |
| `WebSession`, `MCWebSession` | identity in the tabs of a browser: sign-in, View as, headers, renewal of the tokens |
| `WebSessionProofs` | theorems about WebSession |
| `MobileSession`, `MCMobileSession` | the session of the mobile client: sign-in, sign-out, the shared refresh, cold start |
| `MobileSessionProofs` | theorems about MobileSession |
| `WebQueries`, `MCWebQueries` | routes, pages, hooks and the query cache, against the rows and permissions of the server |
| `WebQueriesProofs` | theorems about WebQueries |
| `WebForms`, `MCWebForms` | the 27 dialogs, forms and icons that write, against the services and validators |
| `WebFormsProofs` | theorems about WebForms |

### InvoiceSettlement

`invoices` and `transactions` are the tables, `auditLog` the audit table. A
row's `ver` stands for `xmin`: it grows with each save, and a save is enabled
only while the row is at the version the request loaded (`Current`,
`CurrentTx`), else `StaleSave` ends the request, as `RepositoryBase.UpdateAsync`
does by throwing. `req[h]` is one HTTP request in flight: `pc` is the next
save, the other fields are its local variables (`seen` is the tracked entity,
`made` the ids of the entries MarkPaid has added). One action is one commit:

| Code | Actions, in order |
|------|-------------------|
| `CreateAsync` | `CreateInvoice`, `WriteAudit` |
| `MarkPaidAsync` | `BeginMarkPaid` (load, check), `AddEntry` (income), `WriteAudit`, `AddEntry` (PPH23, if any), `WriteAudit`, `SavePaid`, `WriteAudit` |
| `VoidAsync` | `BeginVoid`, then for each reference `FindEntry`, `RemoveEntry`, `WriteAudit`, or `SkipEntry`; `SaveVoid`, `WriteAudit` |
| `DeleteAsync` | `BeginDelete`, `RemoveInvoice`, `WriteAudit` |
| `TransactionService` delete, and update/approve/reject | `BeginEntryWrite`, `RemoveEntry` or `EditEntry`, `WriteAudit` |
| disconnect, restart, failed save | `Abort`, at any step |

Amounts are left out except for whether PPH23 is positive, the only thing the
control flow asks. `origin`, `stranded` and `aborts` are history: no action
reads them except for the bound on aborts.

Operators named `Fault` in their comments (here and in the other modules) are
wrong versions of the operator that follows them, and appear in no
specification; each shows that a property notices that mistake.

### PettyCash

The same scheme for petty cash requests and ledger entries. An entry has an
owner, a kind (`issue`, `variant`, `spend`, `income`: what the balance makes of
its type and category; `variant` is "Petty Cash" in another letter case, which
the checks ignore and the query counts as spent), an amount and a status. The
balance is two queries, so `ReadIssued` and `ReadSpent`, and then the insert or
the edit: four chances for another request to run. `BeginDecide` has no guard
on the status, because the code has none. Branch assignment, dates and texts
are left out.

### Outbox

`queue` is the stored list. A job is a form whose mutation is pending
(`useCreateTransaction`; the form's button is disabled meanwhile) or the flush
(`syncing`). Its `stage` is the await it is at, `todo` the entries it still has
to send, `copy` the list it read. `ReadList` and `WriteList` are the two halves
of `outbox.enqueue`, `remove` and `markFailure`; `edit` says which. A POST is
`Book` (the server commits) and `Answer` (the client learns it); `Timeout` may
fall before either, and then the request may still be served (`BookLate`).
`Refuse` is every failure the code treats alike: offline, 401 without session,
4xx. `StorageFails` is AsyncStorage rejecting the read or the write of a list: a form
reports it, and after a successful POST it makes `flushOutbox` mark the item failed,
as its catch block does. `ListFails` is the same of the listing a flush starts with,
which ends it. A list that does not parse is read as empty by the code; only `writeAll`
writes the key, so there is none. `Kill`
ends every job and keeps the stored list. Attempt counts and error texts are
left out: nothing reads them. The token itself and whose session it is are
left out: `signedIn` says only whether there is one.

### WebSession

`store` is localStorage (a pair of tokens, and the signed-in user), shared by
all tabs; `tab[t]` is what a tab has of its own. The acted-as user lies in it
twice, as in the code: `stored` (sessionStorage, from which the request
interceptor makes the headers) and `actAs` (React state, which the banner
shows). `owner`, `live` and `fresh` are the server's: whom a pair of tokens
belongs to, whose access token still counts, whose refresh token is unused.
`/login` is outside the guard of the routes: a tab that is signed in may sign in again,
and while it is about to (`SigningIn`) it is on that page and offers nothing else
(`InApp`). `torn` says that a start of View as has failed over one that stood, so
that `clearActAs` took the headers from under its banner. `call[c]` is a request: sent, or waiting in `pendingQueue` for the renewal.

| Code | Actions |
|------|---------|
| `login`, `logout`, `updateUser` | `BeginLogin`, `LoginDone`; `Logout`; `SaveProfile` |
| `startActingAs`, `setActingCanWrite`, `stopActingAs` | `StartActing` (headers on, `me()` sent), then `Answered` or `Refused`; `SetCanWrite`; `StopActing` |
| request interceptor | `Stamped`, in `Send` and in every retry |
| response interceptor | `Answered`, `Refused`, `Expired` (wait, and renew if nobody does), `Renewed`, `NotRenewed` |
| `handleAuthFailure` | `AuthFailure`: storage cleared, and the page loaded anew |
| the browser | `Reload`, `Reopen`; `Expire` of an access token |

`queryClient.clear()` marks the reads that are out as `dropped`: their answers
have no cache entry to land in. `strayed` and `allowed` are history: nothing
reads them.

### MobileSession

`store` is SecureStore: two tokens and the user, each written and deleted by a
promise of its own, so that `SaveLoginToken`, `SaveRefreshToken` and `DeleteKey`
are steps that may fall between each other's. `login` is the sign-in under way,
`refresh` the promise that requests share, `ending[e]` a sign-out: the user's
(`Button`), or that of a failed request, which clears the storage once by itself
and then, through the session-expired handler, a second time. `owner` and `fresh`
are the server's, as in WebSession.

| Code | Actions |
|------|---------|
| `login` | `BeginLogin`, `LoginAnswered` or `LoginRefused`, `SaveLoginToken` twice, `SaveLoginUser`, `LoggedIn`; or `LoginNotSaved` |
| `logout` | `Logout`, `DeleteKey` three times, `LoggedOut`; or `EndingFails` |
| response interceptor | `Settled`; `Unauthorized` (wait, and start the refresh if none is out); `Refreshed` (retry); `FailRefresh`, `DeleteKey`, `SessionExpired` (each request that waited by itself) |
| `performRefresh`, `RefreshAsync` | `PresentToken` or `NothingToPresent`; `RefreshAnswered`, `RefreshRefused` or `RefreshLost`; `SaveRefreshToken` twice; or `RefreshStorageFails` |
| the device, the network | `Restart`: the app is killed and reads the stored session at its next start; `ServedLate` |

Which token a request carries and when one runs out is left open: any request
may meet a 401, once. Any write or delete of SecureStore may be rejected, the read of
the refresh token too, and the clearing of the offline cache. Two things are simplified: when one
write of a `Promise.all` is rejected, what its other writes do later is not
followed, and a cold start reads both keys at once. `crossed` and `lost` are
history: no guard reads them. `crossed` is set where a sign-in, a sign-out and a
refresh overlap or one of the first two breaks off (killed, or rejected by the
storage), and cleared by the next sign-in that nothing overlaps.

### WebQueries

The cache is one entry per query key, the keys do not influence each other, and
so the module follows one key (`view`), whichever, for one role, whichever: TLC
takes every combination as an initial state. `db` counts the versions of the
rows the key is read from; `entry` is the cached version and the request that is
out. Which rows a list is made of (`Sources`), which rows a write changes
(`Changes`), whom the server answers (`Answers`) and lets write (`Permits`)
come from the controllers and services; which keys a write invalidates
(`Use...`), what a page reads and offers (`...Reads`, `...Offers`), who may open
it (`Allowed`) and is shown a link to it (`Links`) come from the hooks, pages and
routes. `Shown`, `Restarts` and `Invalidated` are react-query as the client
configures it. Writes take their time between `Submit`, `Commit` and
`Acknowledged`, and the user goes on to other pages meanwhile.

### WebForms

Also one dialog (`name`) at a time, with one of its fields (`field`), or none, that is
followed: all combinations are initial states. What is entered in it is
`dlg.entry`, a kind of value and which one; `Edit` changes it whenever the dialog is open,
also with a request out, as the code's fields are never disabled. A request carries
the entry of the moment it was made, and `saved` collects, per filling, the entries
of the requests the server accepted. A field the user leaves alone is sent as it was
loaded (`Loaded`), which for a date is its day. `Form`, `Confirm` and `Icon` are
the three shapes of dialog; each dialog is a record of what it shows, sends and
loads of the row, what keeps its button disabled, and what an accepted request
does to it. Values are kinds (`blank`, `long`, `future`, ...): a schema is the
kinds it lets through, a validator those it refuses. `row` is the row in the
database and `listed` the copy in the list, which is older after
`OthersChange`. `filling` numbers the times the dialog was filled in, so that an
answer can come to a later filling than the one it belongs to. The form's own
flag (`isSubmitting`) is cleared by whichever request of it ends first, the
flag of a mutation only by the end of the last one (`Done`).

## 3. Runs

| Run | Configuration | Shows |
|-----|---------------|-------|
| settlement | `InvoiceSettlement.cfg` | two requests interleave, one may be cut off: rows are never half settled, each entry is in one place, reopened invoices have no entries left, Paid invoices are not deleted, the audit trail is truthful and complete unless a request is cut, and the lifecycle of `SettlementLifecycle` is implemented |
| double_settlement | `DoubleSettlement.cfg` | **violation**: an untraceable income entry |
| petty_cash | `PettyCash.cfg` | two requests interleave: one decision wins, an approved request names its own funding, each funding entry is accounted for, users do not edit approved entries |
| petty_cash_serial | `PettyCashSerial.cfg` | one request at a time, which may be cut off: neither a new expense nor one that is edited overdraws the balance |
| outbox | `Outbox.cfg` | everything overlaps: what was reported saved is on the server once and in no list |
| outbox_serial | `OutboxSerial.cfg` | one job at a time: a durable FIFO queue, nothing lost, nothing sent twice without a loss, everything delivered |
| lost_entry | `LostEntry.cfg` | **violation**: a queued entry disappears |
| web_session | `WebSession.cfg` | one tab, View as, reloads, renewals: headers and banner agree in both directions, but for a start that fails over a standing View as; writes only where it was allowed; the cache is the shown user's; every request ends |
| mobile_session | `MobileSession.cfg` | two requests, two users, lost answers, a storage that rejects, kills: the screens show whose tokens are stored; a used refresh token is presented again only after an answer that was lost or not stored |
| web_queries | `WebQueries.cfg` | each role, key, page and write: own writes show and arrive, pages ask and offer what the server grants |
| web_forms | `WebForms.cfg` | each dialog and field: saved once, as entered, nothing else changed but dates cut to the day; what shuts by itself has saved what it shows, unless that was typed with the request out; refused only for a row that moved on or the kinds of values named in `PassedIsTaken` |
| user_lockout | `UserLockout.cfg` | **violation**: saving the form of a user deactivates the user |

Deadlock is not checked: each system may stop when every identifier or bound of
the instance has been used and every request has been answered.

### Bounds, and why they are enough

* Two handlers: every race in this code is between two requests, since each
  looks at one row of its own and one of another's; the proofs cover any number.
* One invoice and three entries let one settlement (two entries) race another's
  first entry; cross-invoice interference is covered by the proofs, which hold
  for any sets. One abort is one broken request; more add nothing to what a
  single one leaves behind, and again the proofs have no bound.
* `MaxEdits` and `MaxVer` stop repeated edits of one entry, which would count up
  `ver` forever.
* PettyCash uses one petty cash request and two entries in the concurrent run (so
  both approvals can book a funding entry), amounts 1 and 2 in the serial run so
  that an amount may fit or not. The serial run tells states apart without
  their audit trail (`VIEW Unlogged`): no guard reads it, and the
  property of the run is about the entries and the request alone, so states
  that differ in it have the same steps as far as these are concerned.
* Outbox: two forms, the flush, and three entries give every pair of jobs
  something to lose. `MaxLosses` counts lost answers, timeouts, failures of the
  storage and kills; `MaxOutages` counts losses of connectivity or session. `MaxBusy`
  bounds the jobs at work at one time. The code has no such limit: `MaxBusy = 1`
  asks what the outbox guarantees when its jobs happen not to overlap, and
  comparing it with `LostEntry.cfg` shows that overlap is what loses entries.

* WebSession: two requests let a start of View as overtake another, and one
  request wait while another renews. `MaxPairs` bounds the pairs of tokens
  issued: two are a sign-in and a renewal, or two users. Several tabs are left to
  the proofs.
* MobileSession: two requests share a refresh and fail together; the user's own
  sign-out makes three that may overlap. Two pairs of tokens as in WebSession.
* WebQueries: two writes may be out at once and the rows change twice, so that
  one answer can arrive between another's commit and its own. Keys and roles
  are not bounded: all are taken.
* WebForms: two fillings and two requests let an answer meet a later filling;
  two changes of the row are one of this dialog and one of somebody else.
  More fillings repeat the same overtaking. A field is entered at most twice per
  filling, so that a request may carry another entry than the dialog shows; and well
  the second time, since a refused value needs no second one. Of several kinds of
  value that schema and validator both take, one stands for all (`Taken`): they differ
  in nothing that follows. The constraint `Bounded` of `MCWebForms` leaves out what
  follows once two things happened that are each bounded by one elsewhere.

### Fairness

`Outbox`, `WebSession` and `WebQueries` have a `FairSpec`. In the web
modules it says that every request, and every renewal of the tokens, ends in one
of the ways the code provides for, if only by the browser giving up on it; the
user, other people, expiry and reloads owe nothing. For `Outbox`: weak fairness of each job's own step:
a promise that can settle does. Of `BeginFlush`: the background task registered
with the operating system keeps being run (`backgroundSync.ts`, 15 minutes is a
floor). Of `NetUp` and `SignIn`: connectivity returns and the user signs in
again; that is an assumption about the world, as is that the outages, bounded
by `MaxOutages`, end. No fairness is assumed of faults, of new entries or of
late requests. Nothing in the API modelled here retries or runs by itself, so it has no
liveness worth stating beyond "an HTTP request ends".

## 4. Findings

1. **Untraceable entries** (`double_settlement`). Two MarkPaid requests load the
   same Unpaid invoice. Both commit their income entry; one saves the invoice;
   the other meets the `xmin` conflict and answers 409, and its entry stays. The
   comment in `DeleteAsync` says such an entry must not exist.
   `EntryAccounted`, which is proved, says exactly how far this goes: an entry
   that no invoice names comes only from a MarkPaid that failed after committing it.
   `ApartIsTraceable` proves the other direction: without an overlap about one invoice,
   and without a cut-off request, there is none.
2. **Lost outbox entries** (`lost_entry`): the flush's `markFailure` writes back a
   list read before a form enqueued its entry.
3. **Saving a user locks the user out** (`user_lockout`). The form of a user
   (`pages/Users.tsx:112`) sends no `isActive`; `UpdateUserDto.IsActive` is a `bool`,
   so it becomes `false`, and `UserService.UpdateAsync` assigns it.

### Known limits

What the code does, met while modelling, that a reader of the properties has to
know: each is an exception a property names, or a reason why it is not stronger.
No document promises otherwise unless one is quoted.

* *Audit.* `LogAsync` is a save of its own, so a request cut off between the two
  leaves a change without an entry, although `docs/architecture.md:155` says "Every
  state change writes an immutable AuditLog entry". `LoggedUnlessCut` allows
  for exactly this.
* *Petty cash.* Two approvals of one request both book a funding entry, and the
  loser's stays (`PettyCashRequestService.cs:98`; `FundingAccounted` lists it among
  the stranded). Two expenses that overlap are checked against the same balance
  (`TransactionService.cs:57`), hence the serial run. An edit of an income or an
  issue entry into an expense adds its old amount to the balance although the
  balance had not counted it (`TransactionService.cs:105`), hence the wording of
  `WithinBalance`.
* *Outbox.* A flush stops at the first failure of any kind, so that an entry the
  server always refuses blocks those behind it (`syncService.ts:41`);
  `QueuedIsDelivered` is checked without such entries.
* *View as.* While a start is pending, the headers name a user whom no banner names
  yet. When it fails over a View as that stood, `clearActAs` (`AuthContext.tsx:94`)
  takes the headers of that one too, and its banner stays: requests then go as the
  admin, although the comment on the banner says that it is "always visible while
  "View as" is on, so an admin can never forget whose eyes they are looking through"
  (`ActingAsBanner.tsx:13-14`). `HeadersAreBannered` names this exception (`torn`),
  which lasts until View as is confirmed or stopped, or the tab signs in or out or is
  loaded anew; otherwise whom the banner names the headers name at any time, and whom
  the headers name the banner names once no start is pending. Reads that were sent
  before the headers changed may land in the new user's cache, or the reverse
  (`strayed`). Saving the profile
  during View as makes the acted-as user the signed-in one of the tab
  (`AuthContext.tsx:77-79`), beside tokens that stay the admin's.
* *Mobile session.* A sign-out during a refresh, or a refresh during a sign-out, may
  end with stored tokens of the user who signed out: `performRefresh` writes what
  it got whenever it gets it (`client.ts:50`), and the next cold start restores
  that session (`crossed` in `ScreenMatchesStorage`). A sign-out in which the storage
  rejects a delete leaves the screens as they are, over whatever keys are left. A refresh that fails for
  want of a network signs the user out as well (`client.ts:85-87`), although
  the comment on the handler says "when refresh fails irrecoverably (both tokens
  dead)" (`client.ts:11`). A request that waited is sent again with whatever token is
  stored then, another user's after a sign-in; `logout` leaves the query cache
  of react-query as it is.
* *Lists.* `KnownLag` names the lists a write changes and no hook invalidates: the
  audit log after any write, the debts of the cars after entries, the
  dashboard and the reports after a user's role, the lookup of users after users,
  the branches after a site. `missed` is an answer to an older read of a list
  that had no copy yet, which invalidation does not cancel.
* *Refused reads.* The lookup of users in the form of an entry is refused to
  plain users, although the comment on it says "any authenticated user needs
  this" (`TransactionsController.cs:27-29`; `UserService.cs:30`); the reports page
  reads the users for everyone (`Reports.tsx:62`). `PagesFitPolicies` excepts these two.
* *Forms.* A form that is closed with Escape and opened again while its request is
  out can be sent twice (`left` in `WrittenOnce`), and the first answer then closes the
  second filling. The fields stay enabled while a request is out
  (`TransactionFormDialog.tsx:199-351`, `Feedback.tsx:175-183`), so the answer also
  closes or empties the form over what was typed since, which is saved nowhere. Both are
  `Overtaken` in `SelfShutMeansSaved`. The forms of an entry and of a car load the day of
  a date only (`TransactionFormDialog.tsx:130`, `Cars.tsx:114`), while the columns are
  timestamps (`0001_init.sql:48,123`) and the entries of a settlement are dated
  `DateTime.UtcNow` (`InvoiceService.cs:156,176`): saving such a form unchanged moves
  the stored date to midnight (`TransactionService.cs:117`; `KnownCut`). The form of a user shows an
  e-mail address and a password ("leave blank to keep the current password",
  `Users.tsx:49-50`) that an update does not read (`KnownDropped`). The form of an entry
  erases its attachments (`KnownErased`). Text of white space, text that is too long
  and dates in the future pass the schemas of several forms and are refused by
  the server (`PassedIsTaken`).
* *Overwritten edits.* An edit loads the row anew and writes the whole form over it;
  what somebody else changed since the form was opened is undone without a
  conflict. `docs/api-reference.md:135-138` describes `If-Match` and `409 Conflict`
  for this; no controller reads the header. `KeepsTheRest` asks only about forms
  that show the current row.
* *Screens without state.* The password form of `Settings.tsx:73` sends nothing; the
  preview of `Invoices.tsx:189` adds texts; two uploads at once keep one file
  (`FileUpload.tsx:37`). These are outside what the modules tell apart.

## 5. What is proved

`InvoiceSettlementProofs` proves, for every set of invoices, entries and
handlers and every value of the bounds:

| Theorem | Statement |
|---------|-----------|
| `InductiveHolds` | `Spec => []Inductive` |
| `TypeCorrect` | `Spec => []TypeOK` |
| `NeverHalfSettled` | `Spec => []PaidIffLinked` |
| `NeverCrossed` | `Spec => []LinksOwnEntries` |
| `EveryEntryAccounted` | `Spec => []EntryAccounted` |
| `TrailNeverLies` | `Spec => []TrailTruthful` |
| `NothingUnlogged` | `Spec => []LoggedUnlessCut` |
| `ReopensClean` | `Spec => ReopenedWithoutEntries` |
| `PaidIsKept` | `Spec => PaidNeverDeleted` |
| `Implements` | `Spec => ImplementsLifecycle` |
| `ApartIsTraceable` | `Spec /\ []Apart => [](aborts = 0 => NoUntraceableEntry)` |

Assumptions: `ConstantsAssumption` (the null reference is no identifier, invoices and
entries have different ids, the bounds are naturals) and `NullIsNoEntry` (the
null reference is no audit entry).

The argument. None of the invariants is inductive alone, because they say
nothing of requests half way: that `SavePaid` links live entries of its own, or
that `SaveVoid` finds the entries gone, depends on what the request did before.
`Inductive` is `Coherent`, about tables and requests, and `Trail`, about the audit
entries. `Coherent` adds to the invariants, per request (`RequestOK`): the row it loaded is a past
version of the row in the table, and is that row if the versions agree
(`SeenIsPast`); what MarkPaid has added so far (`MadeSoFar`); which references
Void has dealt with (`VoidSoFar`). These are facts about a request that must
survive the steps of the others, and they do because rows only move forward
(`Forward`): a changed row has a higher version, an entry that is gone stays
gone. `Bystander` proves that once, for all actions; each action then has one
lemma for the request that takes the step. `Trail` joins the entries that are written
to those that requests have still to write: together they name each version
of a row at most once (`NamesOnce`), only versions the row has been through
(`NamesPast`), and all of them unless a request was cut off. It is the join that
steps preserve: a save adds the next version of its row to what is pending, and
`WriteAudit` only moves an entry from one side to the other. The refinement uses
`Inductive` to show that each save is a step of `SettlementLifecycle` and everything else
stutters.

TLC checks `Inductive` as an invariant of run `settlement`.

`ApartIsTraceable` is about the property that run `double_settlement` refutes. `Apart`
says that no two requests about one invoice overlap, which nothing in the code
sees to. `Settling` adds to `Inductive` that a MarkPaid on its way then has the row
as it is in the table, so that its save succeeds (`OwnApart` for the request's own
steps, `OthersApart` for those of the others): none is refused with its entries
already saved, and once every request is answered an entry can only be one that an
invoice names. So an overlap, or a request cut off, is the only way to an
untraceable entry.

`PettyCashProofs` proves, for every set of users, petty cash requests, entries
and handlers, every set of amounts and every value of the bounds:

| Theorem | Statement |
|---------|-----------|
| `InductiveHolds` | `Spec => []Inductive` |
| `ApprovedNamesIts` | `Spec => []ApprovedNamesOwnFunding` |
| `FundingIsAccounted` | `Spec => []FundingAccounted` |
| `DecidedForGood` | `Spec => DecidedOnce` |
| `ApprovedKept` | `Spec => ApprovedOnlyEditedByManager` |

Assumption: `ConstantsAssumption` of PettyCash (the null reference is no identifier,
a manager is no custodian, amounts are positive, the bounds are naturals).

The argument is the same one. `Inductive` joins to the types and the two funding
invariants what a request knows (`RequestOK`): the petty cash request it decides
on is in a status that admits the decision as long as the version it loaded is
the row's (`Loadable`); an approval between its two saves holds one entry,
booked for the request it decides on; an entry a user is editing was not Approved if its
version is still the one loaded. `Untouched` says that a row nobody has written is
blank, so that a funding entry taken for a second request cannot have been the
first one's. Without the clause on versions `DecidedOnce` and
`ApprovedOnlyEditedByManager` are not provable: they rest on the xmin comparison
alone. Of the balance this module needs only the type (`Sums`).
TLC checks this `Inductive` in run `petty_cash`.

`PettyCashBalanceProofs` proves, under the same assumption and for as many handlers
as there are, if no two of them are ever at work together (`Alone`):

| Theorem | Statement |
|---------|-----------|
| `AloneWithinBalance` | `Spec /\ []Alone => WithinBalance` |

The hypothesis is what the code leaves to chance: it takes no lock between the two
queries and the save. Run `petty_cash_serial` checks the same property with one
handler, where `Alone` always holds.

The argument. `Afforded` says what a request knows on its way from the queries to the
save: the issued half it read is still the issued half, the entry it edits is as
it was loaded, and past the check the amount is within the balance and what the
edit gives back. Nothing else saves meanwhile (`InFlight`: each step is of one
request, in flight before or after it), so each step keeps that, and the save then
takes the amount off the balance (`InsertTakes`, `EditTakes`). The latter two are about
sums, and need induction: the first part of the module shows that the recursive
function behind `SumFunctionOnSet` exists on the subsets of a finite set
(`FoldExists`), that its value for a set does not depend on what it is defined over
(`FoldLocal`), and that any element may be taken out of a sum (`SumLess`). The
provers cannot instantiate an induction theorem that takes a predicate; each
of these inductions is over a set instead, of what would be a counterexample, which
would have a member of least cardinality (`LeastNat`, `OneByOne`). That only finitely
many entries have been written is part of `Afforded`, so that the identifiers need
not be finite.

`WebSessionProofs` proves, for every set of tabs, of requests and of persons,
every relation `MayActAs` and any number of tokens:

| Theorem | Statement |
|---------|-----------|
| `InductiveHolds` | `Spec => []Inductive` |
| `NoneLeftWaiting` | `Spec => []NoneWaitsInVain` |
| `BannerTellsTheTruth` | `Spec => []HeadersAreBannered` |
| `PermissionWasGiven` | `Spec => []WritesWereAllowed` |
| `ScreensShowTheirOwn` | `Spec => []CacheIsOwnUnlessStrayed` |

Assumption: `WebSessionAssumption` (the null value is no person, tab or acted-as
user; `MayActAs` relates persons; the bound is a natural). No fairness is used.

The argument. The four invariants say nothing of the answer that is still to
come, and that answer is what could break them. `Inductive` adds, per tab that
has not strayed (`TabSound`), that the tokens in the shared store are those of
its user and that headers and banner agree, and per request (`CallSound`) that a
read whose answer may still land in the cache was stamped as the user the tab
shows now. A step is then a step of one tab: `StepOfTab` proves once that the
other tabs and their requests are left alone except that the store may have
changed under them, which marks them as strayed (`Aside`). What is shown of
each action is what it makes of its own tab (`StateGood`) and of its own
requests (`CallGood`). The two places that carry the weight are `Dropping`
(a cleared cache drops the reads under way, so sign-in, sign-out and View as
need nothing of them) and `RenewedStep` (what waited is stamped anew with
headers and tokens of this moment, which agree in a tab that has not strayed).
TLC checks this `Inductive` in run `web_session`.

`MobileSessionProofs` proves, for every set of requests and of persons and any
number of tokens:

| Theorem | Statement |
|---------|-----------|
| `InductiveHolds` | `Spec => []Inductive` |
| `ScreensMatch` | `Spec => []ScreenMatchesStorage` |
| `RefreshShared` | `Spec => []PresentedOnce` |
| `WaitersAreAnswered` | `Spec => []NoneWaitsInVain` |

Assumption: `MobileSessionAssumption` (the null value is no person, the user's
button is no request, the bound is a natural).

The argument. `ScreenMatchesStorage` speaks of the moments when nobody writes the
storage; what it says there depends on what the writers were doing before.
`Inductive` adds that: a sign-in that nothing overlaps has stored its own
pair and its user in the keys it is done with (`LoginSound`); a refresh that may still write
does so for the user on the screens (`RefreshSound`); a sign-out has the
refresh token among what it will delete, or it is gone (`EndingSound`). For
`PresentedOnce` it adds that the stored refresh token, and each one about to
be stored, is unused unless it counts as lost (`FreshKept`): a refresh reads a
token only where none of its predecessors is still to write. There is one lemma
per action, with one step per conjunct it can disturb.
TLC checks this `Inductive` in run `mobile_session`.

`OutboxProofs` proves, for every set of forms and of entries and every number of
losses and outages:

| Theorem | Statement |
|---------|-----------|
| `InductiveHolds` | `Spec => []Inductive` |
| `SavedForGood` | `Spec => []SavedIsFinal` |
| `SerialNeverLost` | `MaxBusy = 1` implies `Spec => []NeverLost` |
| `SerialBookedOnce` | `MaxBusy = 1` implies `Spec => []BookedOnceUnlessLost` |
| `SerialIsQueue` | `MaxBusy = 1` implies `Spec => ImplementsQueue` |

Assumption: `OutboxAssumption` (the flush is no form, refused entries are entries,
the bounds are naturals). The first two hold for every overlap of jobs; the last three
are about jobs that do not overlap, and `lost_entry` shows that `NeverLost` is false without
that: their assumption is what the code leaves to chance.

The argument. `SavedIsFinal` needs to know that the entry of a form at work is in
no list yet. `Inductive` says so from both sides: what a list names was told
"queued" (`OnlyQueued`), and a form at work holds one entry, told "waiting",
that no other form holds (`FormsApart`) and that the server has exactly if the
POST has succeeded (`FormSound`, `NewUnsent`). Lemmas on lists
(`AppendFacts`, `TailFacts`, `WithoutFacts`) give what each edit keeps. For jobs that do
not overlap, `Serial` adds that no copy is stale (`CopyFresh`), that what the flush has
left to send is the stored list itself (`ListingFresh`), and that it removes only what the
server has (`RemovedIsBooked`); a removal is then `DurableQueue`'s `Retire`,
because the entry it names is the first (`WithoutHead`). For `BookedOnceUnlessLost`,
`Unsent` adds that until something is lost no stored entry has been sent, except
the first one while the flush is on its way to remove it (`Removing`): whatever is
POSTed next is therefore POSTed for the first time. TLC checks `Inductive` of this
module in run `outbox`.

`WebQueriesProofs` proves, for every role, query key and number of changes:

| Theorem | Statement |
|---------|-----------|
| `InductiveHolds` | `Spec => []Inductive` |
| `TypeCorrect` | `Spec => []TypeOK` |
| `WritesAreShown` | `Spec => []OwnWritesShown` |
| `PagesFit` | `Spec => []PagesFitPolicies` |

Assumption: `WebQueriesAssumption` (the bound on changes is a natural).

The argument has two halves. The one is about the tables, which do not change: what
a role comes to when it asks for a page (`Landings`), that what it then reads is
answered (`ReadsAnswered`) and what it is offered is permitted (`OffersPermitted`), and
that each offered write invalidates every list it changes that the role can
see, `KnownLag` apart (`OffersTell`). The other is about the cache: a copy, or an
answer under way, that lacks a write which was acknowledged is marked stale,
and on the screen it is asked for again or its reading has failed
(`CopiesMarked`). `WritesTell` ties the two together: of a write that is due to show,
the invalidation is due as well. The exception is an answer to an older read
of a list without a copy (`missed`). TLC checks this `Inductive` in run `web_queries`.

`WebFormsProofs` proves, for every dialog, every field and value entered, any set of requests
and any number of fillings and changes:

| Theorem | Statement |
|---------|-----------|
| `InductiveHolds` | `Spec => []Inductive` |
| `TypeCorrect` | `Spec => []TypeOK` |
| `NeverWrittenTwice` | `Spec => []WrittenOnce` |
| `ShutIsSaved` | `Spec => SelfShutMeansSaved` |
| `ButtonsFitServices` | `Spec => []RefusedOnlyIfStale` |
| `SchemasFitValidators` | `Spec => []PassedIsTaken` |
| `SavesAsShown` | `Spec => SavesWhatItShows` |
| `RestIsKept` | `Spec => KeepsTheRest` |

Assumption: `WebFormsAssumption` (the null value is no request, there is at least one
filling, the bound on changes is a natural).

The argument. That a dialog is saved once depends on which of its requests it waits
for. `OneOut` says that until a form is left with its request out, there is at most
one, the one its button is disabled for, and that a filling that has been saved
is either about to close or closed. `FillingsCounted` keeps the answers of earlier
fillings apart from the present one's, and says that the entry of an accepted
request is among what was saved of its filling: a dialog that shuts by itself was
shut by such a request, and shows its entry unless `Overtaken`. That a refusal means a row that has moved on
needs that a copy as old as the row is the row (`CopiesTrue`) and that each
dialog was opened for a status in which the server accepts it (`OfferedFor`). What is
particular to the 27 dialogs is one table (`DialogFacts`), proved dialog by
dialog; the steps use nothing else about them. TLC checks this `Inductive` in run
`web_forms`.

## 6. What is only model-checked

Liveness under fairness: Outbox's `QueuedIsDelivered`, WebSession's `EveryCallSettles`
and WebQueries's `OwnWritesArrive`, on the instances of section 3. The prover does
not reach `WF_` and `ENABLED`. `Afforded`, `Serial` and `Unsent`, which strengthen the
properties of jobs and requests that do not overlap, are stated beside their proofs
and are no property of a run.

## 7. Plan

1. Proofs: `FairSpec` apart, every property has its theorem. What is added below is
   written to be proved about as well; the lemmas on sums serve `Reports`.
2. `MobileSession` composed with `Outbox`, for entries sent under another user's
   session.
3. `SheetsSync`: the timer loop, and an append that may fail after writing.
4. `Provisioning`: identity provider and tables in separate steps.
5. `InvoiceAmounts`, `Reports`: rounding, totals (`income - PPH23 = total`), remaining
   debt and periods against a reference definition.

## 8. What is not modelled

The Sheets sync, the steps of provisioning
across the identity provider and the tables, the sums of dashboard and reports:
on the plan above. Left out for good: files (an upload is two saves of one
request, and nothing reads the blob in between), exports and e-mail (formatting and
outbound I/O), row-level security and seeding (database configuration), read
caches of the mobile client (copies that are never written back), and in the web
client filters, paging, texts, themes and charts.
