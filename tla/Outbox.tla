------------------------------- MODULE Outbox -------------------------------
(***************************************************************************)
(* The offline outbox of the mobile app (FinanceLedger.Mobile):            *)
(* useCreateTransaction, offline/outbox.ts, offline/syncService.ts and the *)
(* triggers that start a sync.                                             *)
(*                                                                         *)
(* The queue is one JSON list under one AsyncStorage key.  enqueue, remove *)
(* and markFailure each read the whole list, await, and write a whole list *)
(* back; nothing excludes the others in between.  A job is one entry form  *)
(* waiting for its mutation (a form is disabled while it waits), or the    *)
(* one flush that the syncing flag allows.                                 *)
(***************************************************************************)
EXTENDS Naturals, FiniteSets, Sequences, SequencesExt

CONSTANTS
  Form,        \* the entry forms: the income screen and the expense screen
  Flush,       \* the flush job
  Entry,       \* the transactions a user may type in
  Rejected,    \* those the server answers with 4xx whenever they are sent
  MaxBusy,     \* bound: jobs in progress at once
  MaxLosses,   \* bound: lost answers, timeouts, failed storage, app kills
  MaxOutages   \* bound: times connectivity or the session is lost

ASSUME OutboxAssumption ==
  /\ Flush \notin Form
  /\ Rejected \subseteq Entry
  /\ MaxBusy \in Nat \ {0}
  /\ MaxLosses \in Nat
  /\ MaxOutages \in Nat

VARIABLES
  queue,     \* the stored list, by entry (a localId is drawn once per entry)
  job,       \* per job: its stage, the entries still to send, the list read
  told,      \* per entry: what the form was told of it
  booked,    \* per entry: how many transactions the server made of it
  late,      \* entries whose abandoned request the server may still serve
  online,    \* NetInfo: connected and reachable
  signedIn,  \* tokens are stored
  losses,
  outages

vars == <<queue, job, told, booked, late, online, signedIn, losses, outages>>

Job == Form \union {Flush}
Idle == [stage |-> "idle", todo |-> <<>>, copy |-> <<>>, edit |-> "none"]
Current(j) == Head(job[j].todo)
Busy == {j \in Job : job[j].stage # "idle"}
RoomForJob == Cardinality(Busy) < MaxBusy

Init ==
  /\ queue = <<>>
  /\ job = [j \in Job |-> Idle]
  /\ told = [e \in Entry |-> "new"]
  /\ booked = [e \in Entry |-> 0]
  /\ late = {}
  /\ online = TRUE
  /\ signedIn = TRUE
  /\ losses = 0
  /\ outages = 0

Tell(j, answer) ==
  told' = IF j \in Form THEN [told EXCEPT ![Current(j)] = answer] ELSE told

\* The job goes on to read the list, in order to edit it.
ToEdit(j, edit) ==
  job' = [job EXCEPT ![j].stage = "reading", ![j].edit = edit]

\* Fault: the flush drops the entry whose POST threw.
AfterFailureDrop(j) == ToEdit(j, IF j \in Form THEN "enqueue" ELSE "remove")

\* What each job does with a POST that threw: both of its catch blocks.
AfterFailure(j) == ToEdit(j, IF j \in Form THEN "enqueue" ELSE "markFailure")
-----------------------------------------------------------------------------
(* Entry forms: useCreateTransaction. *)

\* Fault: a second tap on Save, the button not disabled, submits the entry again.
BeginCreateAgain(f, e) ==
  /\ job[f].stage = "idle"
  /\ signedIn
  /\ RoomForJob
  /\ told[e] \in {"new", "queued"}
  /\ told' = [told EXCEPT ![e] = "waiting"]
  /\ job' = [job EXCEPT ![f].stage = "asking", ![f].todo = <<e>>]
  /\ UNCHANGED <<queue, booked, late, online, signedIn, losses, outages>>

BeginCreate(f, e) ==
  /\ job[f].stage = "idle"
  /\ signedIn
  /\ RoomForJob
  /\ told[e] = "new"
  /\ told' = [told EXCEPT ![e] = "waiting"]
  /\ job' = [job EXCEPT ![f].stage = "asking", ![f].todo = <<e>>]
  /\ UNCHANGED <<queue, booked, late, online, signedIn, losses, outages>>

\* await isOnline(): offline, the entry goes straight to the outbox.
AskOnline(f) ==
  /\ job[f].stage = "asking"
  /\ IF online THEN job' = [job EXCEPT ![f].stage = "posting"]
               ELSE ToEdit(f, "enqueue")
  /\ UNCHANGED <<queue, told, booked, late, online, signedIn, losses, outages>>
-----------------------------------------------------------------------------
(* The flush: runSync, flushOutbox. *)

StartedFlush == [job EXCEPT ![Flush].stage = "listing"]

\* A background fetch, a launch of the app, or "Sync now"; a second flush
\* returns at once while syncing is set.
BeginFlush ==
  /\ job[Flush].stage = "idle"
  /\ RoomForJob
  /\ job' = StartedFlush
  /\ UNCHANGED <<queue, told, booked, late, online, signedIn, losses, outages>>

ListQueue ==
  /\ job[Flush].stage = "listing"
  /\ job' = IF queue = <<>>
            THEN [job EXCEPT ![Flush] = Idle]
            ELSE [job EXCEPT ![Flush].stage = "posting", ![Flush].todo = queue]
  /\ UNCHANGED <<queue, told, booked, late, online, signedIn, losses, outages>>
-----------------------------------------------------------------------------
(* POST /transactions, for a form or for the flush. *)

\* The server commits the transaction; the answer is still on its way.
Book(j) ==
  /\ job[j].stage = "posting"
  /\ online /\ signedIn
  /\ Current(j) \notin Rejected
  /\ booked' = [booked EXCEPT ![Current(j)] = @ + 1]
  /\ job' = [job EXCEPT ![j].stage = "answered"]
  /\ UNCHANGED <<queue, told, late, online, signedIn, losses, outages>>

\* Fault: the form queues its entry whatever the POST returned.
AnswerQueued(j) ==
  /\ job[j].stage = "answered"
  /\ Tell(j, "saved")
  /\ ToEdit(j, IF j \in Form THEN "enqueue" ELSE "remove")
  /\ UNCHANGED <<queue, booked, late, online, signedIn, losses, outages>>

\* Fault: the flush leaves the entry it sent in the list.
AnswerUnremoved(j) ==
  /\ job[j].stage = "answered"
  /\ Tell(j, "saved")
  /\ IF j \in Form THEN job' = [job EXCEPT ![j] = Idle] ELSE ToEdit(j, "markFailure")
  /\ UNCHANGED <<queue, booked, late, online, signedIn, losses, outages>>

\* The form is done; the flush goes on to remove the entry it sent.
Answer(j) ==
  /\ job[j].stage = "answered"
  /\ Tell(j, "saved")
  /\ IF j \in Form THEN job' = [job EXCEPT ![j] = Idle] ELSE ToEdit(j, "remove")
  /\ UNCHANGED <<queue, booked, late, online, signedIn, losses, outages>>

\* No connection, no session (401 and no refresh token), or a 4xx.
Refuse(j) ==
  /\ job[j].stage = "posting"
  /\ ~online \/ ~signedIn \/ Current(j) \in Rejected
  /\ AfterFailure(j)
  /\ UNCHANGED <<queue, told, booked, late, online, signedIn, losses, outages>>

\* axios gives up after 15 s: before the server served the request, which it
\* may still do, or with the answer on its way.
Timeout(j) ==
  /\ losses < MaxLosses
  /\ \/ /\ job[j].stage = "posting"
        /\ online /\ signedIn
        /\ late' = late \union ({Current(j)} \ Rejected)
     \/ /\ job[j].stage = "answered"
        /\ UNCHANGED late
  /\ losses' = losses + 1
  /\ AfterFailure(j)
  /\ UNCHANGED <<queue, told, booked, online, signedIn, outages>>

BookLate(e) ==
  /\ e \in late
  /\ late' = late \ {e}
  /\ booked' = [booked EXCEPT ![e] = @ + 1]
  /\ UNCHANGED <<queue, job, told, online, signedIn, losses, outages>>
-----------------------------------------------------------------------------
(* outbox.enqueue, outbox.remove, outbox.markFailure: a read, an await, a  *)
(* write.  markFailure changes only the attempt count and the message of   *)
(* an item, which nothing reads, so it writes back the entries it read.    *)
(* Only writeAll writes the key, so what is there parses.                  *)

ReadList(j) ==
  /\ job[j].stage = "reading"
  /\ job' = [job EXCEPT ![j].stage = "writing", ![j].copy = queue]
  /\ UNCHANGED <<queue, told, booked, late, online, signedIn, losses, outages>>

\* A list without an entry, which it names at most once.
Without(list, e) ==
  IF e \in ToSet(list) THEN RemoveAt(list, CHOOSE i \in DOMAIN list : list[i] = e) ELSE list

\* Fault: enqueue puts the new item at the front.
EditedFront(j) ==
  CASE job[j].edit = "enqueue" -> <<Current(j)>> \o job[j].copy
    [] job[j].edit = "remove" -> Without(job[j].copy, Current(j))
    [] OTHER -> job[j].copy

Edited(j) ==
  CASE job[j].edit = "enqueue" -> Append(job[j].copy, Current(j))
    [] job[j].edit = "remove" -> Without(job[j].copy, Current(j))
    [] OTHER -> job[j].copy

\* Fault: no finally, so a flush that fails leaves syncing set.
AfterWriteStuck(j) ==
  CASE job[j].edit = "markFailure" -> [job EXCEPT ![j].stage = "stuck"]
    [] job[j].edit = "remove" /\ Len(job[j].todo) > 1 ->
         [job EXCEPT ![j] = [Idle EXCEPT !.stage = "posting", !.todo = Tail(job[j].todo)]]
    [] OTHER -> [job EXCEPT ![j] = Idle]

\* An enqueue ends the form's wait, a failure ends the flush ("stop on the
\* first failure"), a removal goes on to the next entry of the listing.
AfterWrite(j) ==
  IF job[j].edit = "remove" /\ Len(job[j].todo) > 1
  THEN [job EXCEPT ![j] = [Idle EXCEPT !.stage = "posting", !.todo = Tail(job[j].todo)]]
  ELSE [job EXCEPT ![j] = Idle]

WriteList(j) ==
  /\ job[j].stage = "writing"
  /\ queue' = Edited(j)
  /\ Tell(j, "queued")
  /\ job' = AfterWrite(j)
  /\ UNCHANGED <<booked, late, online, signedIn, losses, outages>>

\* AsyncStorage.getItem or setItem rejects.  The form reports that it could not
\* save; a failed remove is caught like a failed POST; a failed markFailure ends
\* the flush, and so does a failed listing.
StorageFails(j) ==
  /\ job[j].stage \in {"reading", "writing"}
  /\ losses < MaxLosses
  /\ losses' = losses + 1
  /\ Tell(j, "failed")
  /\ IF job[j].edit = "remove" THEN ToEdit(j, "markFailure")
                               ELSE job' = [job EXCEPT ![j] = Idle]
  /\ UNCHANGED <<queue, booked, late, online, signedIn, outages>>

ListFails ==
  /\ job[Flush].stage = "listing"
  /\ losses < MaxLosses
  /\ losses' = losses + 1
  /\ job' = [job EXCEPT ![Flush] = Idle]
  /\ UNCHANGED <<queue, told, booked, late, online, signedIn, outages>>
-----------------------------------------------------------------------------
(* The device. *)

\* The process dies; only what AsyncStorage and SecureStore hold survives.
Kill ==
  /\ Busy # {}
  /\ losses < MaxLosses
  /\ losses' = losses + 1
  /\ job' = [j \in Job |-> Idle]
  /\ told' = [e \in Entry |-> IF told[e] = "waiting" THEN "unknown" ELSE told[e]]
  /\ UNCHANGED <<queue, booked, late, online, signedIn, outages>>

NetDown ==
  /\ online
  /\ outages < MaxOutages
  /\ online' = FALSE
  /\ outages' = outages + 1
  /\ UNCHANGED <<queue, job, told, booked, late, signedIn, losses>>

\* The offline -> online transition runs a sync, unless one is running.
NetUp ==
  /\ ~online
  /\ online' = TRUE
  /\ job' = IF job[Flush].stage = "idle" /\ RoomForJob THEN StartedFlush ELSE job
  /\ UNCHANGED <<queue, told, booked, late, signedIn, losses, outages>>

\* A logout, or a refresh that fails: the tokens are cleared, the outbox is not.
SignOut ==
  /\ signedIn
  /\ outages < MaxOutages
  /\ signedIn' = FALSE
  /\ outages' = outages + 1
  /\ UNCHANGED <<queue, job, told, booked, late, online, losses>>

SignIn ==
  /\ ~signedIn
  /\ online
  /\ signedIn' = TRUE
  /\ UNCHANGED <<queue, job, told, booked, late, online, losses, outages>>
-----------------------------------------------------------------------------
\* What job j does when nothing goes wrong around it.
JobStep(j) ==
  \/ j \in Form /\ AskOnline(j)
  \/ j = Flush /\ ListQueue
  \/ Book(j) \/ Answer(j) \/ Refuse(j)
  \/ ReadList(j) \/ WriteList(j)

Next ==
  \/ \E f \in Form, e \in Entry : BeginCreate(f, e)
  \/ BeginFlush
  \/ \E j \in Job : JobStep(j)
  \/ \E j \in Job : Timeout(j) \/ StorageFails(j)
  \/ ListFails
  \/ \E e \in Entry : BookLate(e)
  \/ Kill \/ NetDown \/ NetUp \/ SignOut \/ SignIn

Spec == Init /\ [][Next]_vars

\* An await that can settle does; the operating system keeps running the
\* registered background task; connectivity comes back; the user signs in again.
Fairness ==
  /\ \A j \in Job : WF_vars(JobStep(j))
  /\ WF_vars(BeginFlush)
  /\ WF_vars(NetUp)
  /\ WF_vars(SignIn)

FairSpec == Spec /\ Fairness
-----------------------------------------------------------------------------
(* Properties *)

JobState == [
  stage : {"idle", "asking", "listing", "posting", "answered", "reading", "writing"},
  todo : Seq(Entry), copy : Seq(Entry),
  edit : {"none", "enqueue", "remove", "markFailure"}]

\* Types; the stored list, and every copy of it that a job holds, never names an
\* entry twice.
TypeOK ==
  /\ queue \in Seq(Entry) /\ IsInjective(queue)
  /\ job \in [Job -> JobState]
  /\ \A j \in Job :
       /\ IsInjective(job[j].todo) /\ IsInjective(job[j].copy)
       /\ job[j].stage \notin {"idle", "listing"} => job[j].todo # <<>>
  /\ job[Flush].edit # "enqueue"
  /\ told \in [Entry -> {"new", "waiting", "saved", "queued", "failed", "unknown"}]
  /\ booked \in [Entry -> Nat]
  /\ late \subseteq Entry
  /\ online \in BOOLEAN /\ signedIn \in BOOLEAN
  /\ losses \in 0..MaxLosses /\ outages \in 0..MaxOutages

\* An entry whose form was told "saved successfully" is on the server exactly
\* once and is in no list that could send it again, however the forms and the
\* flush overlap (useCreateTransaction: the POST that succeeds never enqueues).
SavedIsFinal ==
  \A e \in Entry : told[e] = "saved" =>
    /\ booked[e] = 1
    /\ e \notin late
    /\ e \notin ToSet(queue)
    /\ \A j \in Job : e \notin ToSet(job[j].todo) \union ToSet(job[j].copy)

\* Only what a form was told is queued is in the stored list, in a copy of it, or
\* in what the flush has still to send.
OnlyQueued ==
  \A e \in Entry : told[e] # "queued" =>
    /\ e \notin ToSet(queue) /\ e \notin ToSet(job[Flush].todo)
    /\ \A j \in Job : e \notin ToSet(job[j].copy)

\* A form at work waits for one entry, of its own, which the server has once the
\* form's POST has succeeded and not before.
FormSound ==
  \A f \in Form :
    LET stage == job[f].stage IN
    /\ stage = "idle" => job[f].todo = <<>>
    /\ stage # "idle" => /\ \E e \in Entry : job[f].todo = <<e>>
                         /\ told[Current(f)] = "waiting"
    /\ stage \in {"reading", "writing"} => job[f].edit = "enqueue"
    /\ stage \in {"asking", "posting"} => booked[Current(f)] = 0 /\ Current(f) \notin late
    /\ stage = "answered" => booked[Current(f)] = 1 /\ Current(f) \notin late
FormsApart ==
  \A f, g \in Form \cap Busy : Current(f) = Current(g) => f = g
NewUnsent == \A e \in Entry : told[e] = "new" => booked[e] = 0 /\ e \notin late

\* All of this together is preserved by every step.
Inductive ==
  TypeOK /\ OnlyQueued /\ FormSound /\ FormsApart /\ NewUnsent /\ SavedIsFinal

\* An entry whose form was told it is queued is in the stored list or on the
\* server: "so we never lose the user's entry" (useCreateTransaction).
NeverLost ==
  \A e \in Entry : told[e] = "queued" => e \in ToSet(queue) \/ booked[e] > 0

\* While no answer is lost, the storage never fails and nothing is killed, no
\* typed entry becomes two transactions, whatever connectivity and the session
\* do: a flush sends an entry again only after such a loss (flushOutbox: create,
\* then remove).
BookedOnceUnlessLost == losses = 0 => \A e \in Entry : booked[e] <= 1

\* The stored list is a durable FIFO queue: entries join at the back, once, and
\* leave from the front, once the server has them (outbox: "Durable FIFO
\* queue"; flushOutbox: "to preserve FIFO ordering").
Queue == INSTANCE DurableQueue WITH
  pending <- queue,
  accepted <- {e \in Entry : told[e] = "queued"},
  delivered <- {e \in Entry : booked[e] > 0}
ImplementsQueue == Queue!Spec

\* A queued entry reaches the server: "the sync service flushes the outbox when
\* connectivity returns" (useCreateTransaction).  An entry that the server
\* answers with 4xx cannot, and is not asked to.
QueuedIsDelivered ==
  \A e \in Entry \ Rejected : told[e] = "queued" ~> booked[e] > 0
=============================================================================
