---------------------------- MODULE OutboxProofs ----------------------------
(***************************************************************************)
(* What Outbox says of the stored list, for any number of forms, entries,  *)
(* losses and outages.                                                     *)
(*                                                                         *)
(* However jobs overlap (InductiveHolds, SavedForGood): no copy of the     *)
(* list names an entry twice, and an entry that was saved is in none of    *)
(* them.  FormSound and OnlyQueued are why: until its form ends, an entry  *)
(* is in that form's hands only.                                           *)
(*                                                                         *)
(* When no two jobs overlap (SerialNeverLost, SerialIsQueue and            *)
(* SerialBookedOnce): no queued entry is lost, the list is a FIFO queue,   *)
(* and no entry is booked twice but after a loss.  Serial is why: then no  *)
(* copy of the list is stale when it is written back; and Unsent: what is  *)
(* stored was not sent.                                                    *)
(***************************************************************************)
EXTENDS Outbox, SequenceTheorems, FiniteSetTheorems, TLAPS

USE OutboxAssumption
-----------------------------------------------------------------------------
(* Lists of entries. *)

\* The positions of a list, and the entries at them.
LEMMA ListFacts ==
  ASSUME NEW s \in Seq(Entry)
  PROVE  /\ Len(s) \in Nat /\ DOMAIN s = 1 .. Len(s)
         /\ \A i \in 1 .. Len(s) : s[i] \in Entry
         /\ ToSet(s) \subseteq Entry
         /\ s # <<>> => Len(s) > 0 /\ Head(s) \in Entry /\ Head(s) \in ToSet(s)
<1>1. Len(s) \in Nat /\ DOMAIN s = 1 .. Len(s) /\ \A i \in 1 .. Len(s) : s[i] \in Entry
  BY LenProperties, ElementOfSeq
<1>2. ASSUME s # <<>>
      PROVE  Len(s) > 0 /\ Head(s) = s[1]
  BY <1>1, <1>2, EmptySeq
<1>3. QED
  BY <1>1, <1>2 DEF ToSet

\* The empty list, and a list of one entry.
LEMMA ShortLists ==
  /\ <<>> \in Seq(Entry) /\ IsInjective(<<>>) /\ ToSet(<<>>) = {}
  /\ \A e \in Entry : /\ <<e>> \in Seq(Entry) /\ <<e>> # <<>> /\ Head(<<e>>) = e
                      /\ IsInjective(<<e>>) /\ ToSet(<<e>>) = {e} /\ Len(<<e>>) = 1
<1>1. <<>> \in Seq(Entry) /\ IsInjective(<<>>) /\ ToSet(<<>>) = {}
  BY DEF IsInjective, ToSet
<1>2. ASSUME NEW e \in Entry
      PROVE  /\ <<e>> \in Seq(Entry) /\ <<e>> # <<>> /\ Head(<<e>>) = e
             /\ IsInjective(<<e>>) /\ ToSet(<<e>>) = {e} /\ Len(<<e>>) = 1
  BY DEF IsInjective, ToSet
<1>3. QED
  BY <1>1, <1>2

\* enqueue's new list.
LEMMA AppendFacts ==
  ASSUME NEW s \in Seq(Entry), NEW e \in Entry, IsInjective(s), e \notin ToSet(s)
  PROVE  /\ Append(s, e) \in Seq(Entry)
         /\ IsInjective(Append(s, e))
         /\ ToSet(Append(s, e)) = ToSet(s) \union {e}
<1> DEFINE t == Append(s, e)
<1>1. /\ t \in Seq(Entry) /\ Len(t) = Len(s) + 1
      /\ \A i \in 1 .. Len(s) : t[i] = s[i]
      /\ t[Len(s) + 1] = e
  BY AppendProperties
<1>2. /\ DOMAIN s = 1 .. Len(s) /\ DOMAIN t = 1 .. Len(s) + 1 /\ Len(s) \in Nat
  BY <1>1, ListFacts
<1>3. \A i \in 1 .. Len(s) : s[i] # e
  BY <1>2 DEF ToSet
<1> HIDE DEF t
<1>4. IsInjective(t)
  BY <1>1, <1>2, <1>3 DEF IsInjective
<1>5. ToSet(t) = ToSet(s) \union {e}
  <2>1. ASSUME NEW x \in ToSet(t)
        PROVE  x \in ToSet(s) \union {e}
    BY <1>1, <1>2 DEF ToSet
  <2>2. ASSUME NEW x \in ToSet(s) \union {e}
        PROVE  x \in ToSet(t)
    <3>1. CASE x = e
      BY <1>1, <1>2, <3>1 DEF ToSet
    <3>2. CASE x \in ToSet(s)
      <4>1. PICK i \in 1 .. Len(s) : x = s[i]
        BY <1>2, <3>2 DEF ToSet
      <4>2. i \in DOMAIN t /\ t[i] = x
        BY <1>1, <1>2, <4>1
      <4>3. QED
        BY <4>2 DEF ToSet
    <3>3. QED
      BY <3>1, <3>2
  <2>3. QED
    BY <2>1, <2>2
<1>6. QED
  BY <1>1, <1>4, <1>5 DEF t

\* What the flush has left to send after its first entry.
LEMMA TailFacts ==
  ASSUME NEW s \in Seq(Entry), IsInjective(s), s # <<>>
  PROVE  /\ Tail(s) \in Seq(Entry) /\ IsInjective(Tail(s))
         /\ ToSet(Tail(s)) \subseteq ToSet(s)
         /\ Len(s) > 1 => Tail(s) # <<>>
<1> DEFINE t == Tail(s)
<1>1. /\ t \in Seq(Entry) /\ Len(t) = Len(s) - 1
      /\ \A i \in 1 .. Len(t) : t[i] = s[i + 1]
  BY HeadTailProperties
<1>2. /\ DOMAIN s = 1 .. Len(s) /\ DOMAIN t = 1 .. Len(s) - 1 /\ Len(s) \in Nat
  BY <1>1, ListFacts
<1> HIDE DEF t
<1>3. IsInjective(t)
  BY <1>1, <1>2 DEF IsInjective
<1>4. ToSet(t) \subseteq ToSet(s)
  BY <1>1, <1>2 DEF ToSet
<1>5. Len(s) > 1 => t # <<>>
  BY <1>1, <1>2, EmptySeq
<1>6. QED
  BY <1>1, <1>3, <1>4, <1>5 DEF t

\* remove's new list.
LEMMA WithoutFacts ==
  ASSUME NEW s \in Seq(Entry), NEW e \in Entry, IsInjective(s)
  PROVE  /\ Without(s, e) \in Seq(Entry)
         /\ IsInjective(Without(s, e))
         /\ ToSet(Without(s, e)) = ToSet(s) \ {e}
<1>1. CASE e \notin ToSet(s)
  BY <1>1 DEF Without
<1>2. CASE e \in ToSet(s)
  <2> DEFINE k == CHOOSE i \in DOMAIN s : s[i] = e
             front == SubSeq(s, 1, k - 1)
             back == SubSeq(s, k + 1, Len(s))
             t == front \o back
  <2>1. Len(s) \in Nat /\ DOMAIN s = 1 .. Len(s) /\ \A i \in 1 .. Len(s) : s[i] \in Entry
    BY ListFacts
  <2>2. k \in 1 .. Len(s) /\ s[k] = e
    BY <1>2, <2>1 DEF ToSet
  <2>3. Without(s, e) = t
    BY <1>2 DEF Without, RemoveAt
  <2> HIDE DEF k
  <2>4. /\ front \in Seq(Entry) /\ Len(front) = k - 1
        /\ \A i \in 1 .. k - 1 : front[i] = s[i]
    BY <2>1, <2>2, SubSeqProperties
  <2>5. /\ back \in Seq(Entry) /\ Len(back) = Len(s) - k
        /\ \A i \in 1 .. Len(s) - k : back[i] = s[k + i]
    <3>1. k \in Int /\ Len(s) \in Int /\ Len(s) - (k + 1) + 1 = Len(s) - k
      BY <2>1, <2>2
    <3>2. /\ back \in Seq(Entry)
          /\ Len(back) = IF k + 1 <= Len(s) THEN Len(s) - (k + 1) + 1 ELSE 0
          /\ \A i \in 1 .. Len(s) - (k + 1) + 1 : back[i] = s[(k + 1) + i - 1]
      <4>1. k + 1 \in Int /\ \A i \in (k + 1) .. Len(s) : s[i] \in Entry
        BY <2>1, <2>2
      <4> HIDE DEF back
      <4>2. QED
        BY <3>1, <4>1, SubSeqProperties DEF back
    <3> HIDE DEF back
    <3>3. \A i \in 1 .. Len(s) - k : (k + 1) + i - 1 = k + i
      BY <3>1
    <3>4. Len(back) = Len(s) - k
      <4>1. CASE k + 1 <= Len(s)
        BY <3>1, <3>2, <4>1
      <4>2. CASE ~(k + 1 <= Len(s))
        <5>1. Len(back) = 0
          BY <3>2, <4>2
        <5>2. k = Len(s)
          <6>1. Len(s) \in Nat /\ k \in 1 .. Len(s)
            BY <2>1, <2>2
          <6> HIDE DEF front, back, t
          <6>2. QED
            BY <4>2, <6>1
        <5>3. QED
          BY <3>1, <5>1, <5>2
      <4>3. QED
        BY <4>1, <4>2
    <3>5. ASSUME NEW i \in 1 .. Len(s) - k
          PROVE  back[i] = s[k + i]
      <4>1. back[i] = s[(k + 1) + i - 1]
        BY <3>1, <3>2
      <4>2. QED
        BY <3>3, <4>1
    <3>6. QED
      BY <3>2, <3>4, <3>5
  <2> HIDE DEF front, back
  <2>6. /\ t \in Seq(Entry) /\ Len(t) = Len(s) - 1
        /\ \A i \in 1 .. Len(s) - 1 : t[i] = IF i < k THEN s[i] ELSE s[i + 1]
    <3>1. /\ t \in Seq(Entry) /\ Len(t) = (k - 1) + (Len(s) - k)
          /\ \A i \in 1 .. (k - 1) + (Len(s) - k) :
               t[i] = IF i <= k - 1 THEN front[i] ELSE back[i - (k - 1)]
      <4>1. /\ t \in Seq(Entry) /\ Len(t) = Len(front) + Len(back)
            /\ \A i \in 1 .. Len(front) + Len(back) :
                 t[i] = IF i <= Len(front) THEN front[i] ELSE back[i - Len(front)]
        BY <2>4, <2>5, ConcatProperties
      <4>2. QED
        BY <2>4, <2>5, <4>1
    <3> HIDE DEF t
    <3>2. ASSUME NEW i \in 1 .. Len(s) - 1, i < k
          PROVE  t[i] = s[i]
      BY <2>1, <2>2, <2>4, <3>1, <3>2
    <3>3. ASSUME NEW i \in 1 .. Len(s) - 1, ~(i < k)
          PROVE  t[i] = s[i + 1]
      <4>1. i - (k - 1) \in 1 .. Len(s) - k /\ k + (i - (k - 1)) = i + 1
        BY <2>1, <2>2, <3>3
      <4>2. t[i] = back[i - (k - 1)]
        BY <2>1, <2>2, <3>1, <3>3
      <4>3. QED
        BY <2>5, <4>1, <4>2
    <3>4. QED
      BY <2>1, <2>2, <3>1, <3>2, <3>3
  <2>7. DOMAIN t = 1 .. Len(s) - 1
    BY <2>6, ListFacts
  <2> HIDE DEF t
  <2>8. IsInjective(t)
    <3>1. SUFFICES ASSUME NEW a \in 1 .. Len(s) - 1, NEW b \in 1 .. Len(s) - 1,
                          t[a] = t[b]
                   PROVE  a = b
      BY <2>7 DEF IsInjective
    <3>2. \A i, j \in 1 .. Len(s) : s[i] = s[j] => i = j
      BY <2>1 DEF IsInjective
    <3>3. CASE a < k /\ b < k
      BY <2>1, <2>2, <2>6, <3>1, <3>2, <3>3
    <3>4. CASE a < k /\ ~(b < k)
      BY <2>1, <2>2, <2>6, <3>1, <3>2, <3>4
    <3>5. CASE ~(a < k) /\ b < k
      BY <2>1, <2>2, <2>6, <3>1, <3>2, <3>5
    <3>6. CASE ~(a < k) /\ ~(b < k)
      <4>1. t[a] = s[a + 1] /\ t[b] = s[b + 1] /\ a + 1 \in 1 .. Len(s) /\ b + 1 \in 1 .. Len(s)
        BY <2>1, <2>6, <3>6
      <4>2. a + 1 = b + 1
        BY <3>1, <3>2, <4>1
      <4>3. QED
        BY <4>2
    <3>7. QED
      BY <3>3, <3>4, <3>5, <3>6
  <2>9. ToSet(t) = ToSet(s) \ {e}
    <3>1. ASSUME NEW x \in ToSet(t)
          PROVE  x \in ToSet(s) \ {e}
      <4>1. PICK i \in 1 .. Len(s) - 1 : x = t[i]
        BY <2>7 DEF ToSet
      <4>2. PICK j \in 1 .. Len(s) : x = s[j] /\ j # k
        <5>1. CASE i < k
          BY <2>1, <2>2, <2>6, <4>1, <5>1
        <5>2. CASE ~(i < k)
          BY <2>1, <2>2, <2>6, <4>1, <5>2
        <5>3. QED
          BY <5>1, <5>2
      <4>3. QED
        BY <2>1, <2>2, <4>2 DEF ToSet, IsInjective
    <3>2. ASSUME NEW x \in ToSet(s) \ {e}
          PROVE  x \in ToSet(t)
      <4>1. PICK j \in 1 .. Len(s) : x = s[j] /\ j # k
        BY <2>1, <2>2 DEF ToSet
      <4>2. CASE j < k
        <5>1. j \in 1 .. Len(s) - 1 /\ t[j] = x
          BY <2>1, <2>2, <2>6, <4>1, <4>2
        <5>2. QED
          BY <2>7, <5>1 DEF ToSet
      <4>3. CASE j > k
        <5>1. j - 1 \in 1 .. Len(s) - 1 /\ t[j - 1] = s[(j - 1) + 1] /\ (j - 1) + 1 = j
          BY <2>1, <2>2, <2>6, <4>1, <4>3
        <5>2. QED
          BY <2>7, <4>1, <5>1 DEF ToSet
      <4>4. QED
        BY <2>1, <2>2, <4>1, <4>2, <4>3
    <3>3. QED
      BY <3>1, <3>2
  <2>10. QED
    BY <2>3, <2>6, <2>8, <2>9
<1>3. QED
  BY <1>1, <1>2
-----------------------------------------------------------------------------
(* Jobs. *)

\* A form at work holds one entry.
LEMMA FormFacts ==
  ASSUME Inductive, NEW f \in Form
  PROVE  /\ job[f].stage = "idle" => job[f].todo = <<>> /\ ToSet(job[f].todo) = {}
         /\ job[f].stage # "idle" =>
              /\ Current(f) \in Entry
              /\ job[f].todo = <<Current(f)>> /\ ToSet(job[f].todo) = {Current(f)}
              /\ Len(job[f].todo) = 1
              /\ told[Current(f)] = "waiting"
<1>1. CASE job[f].stage = "idle"
  BY <1>1, ShortLists DEF Inductive, FormSound
<1>2. CASE job[f].stage # "idle"
  <2>1. PICK e \in Entry : job[f].todo = <<e>>
    BY <1>2 DEF Inductive, FormSound
  <2>2. Current(f) = e
    BY <2>1, ShortLists DEF Current
  <2>3. told[Current(f)] = "waiting"
    BY <1>2 DEF Inductive, FormSound
  <2>4. QED
    BY <1>2, <2>1, <2>2, <2>3, ShortLists
<1>3. QED
  BY <1>1, <1>2

\* What the invariant says of one job.
LEMMA JobFacts ==
  ASSUME Inductive, NEW j \in Job
  PROVE  /\ job[j] \in JobState
         /\ job[j].todo \in Seq(Entry) /\ IsInjective(job[j].todo)
         /\ job[j].copy \in Seq(Entry) /\ IsInjective(job[j].copy)
         /\ job[j].stage \notin {"idle", "listing"} =>
              /\ job[j].todo # <<>> /\ Current(j) \in Entry
              /\ Current(j) \in ToSet(job[j].todo)
              /\ told[Current(j)] \notin {"new", "saved"}
<1>1. /\ job[j] \in JobState
      /\ job[j].todo \in Seq(Entry) /\ IsInjective(job[j].todo)
      /\ job[j].copy \in Seq(Entry) /\ IsInjective(job[j].copy)
      /\ job[j].stage \notin {"idle", "listing"} => job[j].todo # <<>>
  BY DEF Inductive, TypeOK, JobState
<1>2. ASSUME job[j].stage \notin {"idle", "listing"}
      PROVE  /\ Current(j) \in Entry /\ Current(j) \in ToSet(job[j].todo)
             /\ told[Current(j)] \notin {"new", "saved"}
  <2>1. Current(j) \in Entry /\ Current(j) \in ToSet(job[j].todo)
    BY <1>1, <1>2, ListFacts DEF Current
  <2>2. CASE j \in Form
    BY <1>2, <2>2, FormFacts
  <2>3. CASE j = Flush
    BY <2>1, <2>3 DEF Inductive, OnlyQueued
  <2>4. QED
    BY <2>1, <2>2, <2>3 DEF Job
<1>3. QED
  BY <1>1, <1>2

\* The entry of a form at work is in no list but its own.
LEMMA OwnEntry ==
  ASSUME Inductive, NEW f \in Form, job[f].stage # "idle"
  PROVE  /\ Current(f) \notin ToSet(queue)
         /\ \A j \in Job : Current(f) \notin ToSet(job[j].copy)
         /\ \A j \in Job \ {f} : Current(f) \notin ToSet(job[j].todo)
<1>1. Current(f) \in Entry /\ told[Current(f)] = "waiting"
  BY FormFacts
<1>2. /\ Current(f) \notin ToSet(queue) /\ Current(f) \notin ToSet(job[Flush].todo)
      /\ \A j \in Job : Current(f) \notin ToSet(job[j].copy)
  BY <1>1 DEF Inductive, OnlyQueued
<1>3. ASSUME NEW g \in Form \ {f}
      PROVE  Current(f) \notin ToSet(job[g].todo)
  <2>1. CASE job[g].stage = "idle"
    BY <2>1, FormFacts
  <2>2. CASE job[g].stage # "idle"
    BY <2>2, FormFacts DEF Inductive, FormsApart, Busy, Job
  <2>3. QED
    BY <2>1, <2>2
<1>4. QED
  BY <1>2, <1>3 DEF Job

\* A step that moves job j to another stage, and leaves the lists alone.
LEMMA Restaged ==
  ASSUME Inductive, NEW j \in Job,
         job[j].stage # "idle" \/ j = Flush,
         job' \in [Job -> JobState],
         \A k \in Job : job'[k].todo = job[k].todo /\ job'[k].copy = job[k].copy,
         \A k \in Job \ {j} : job'[k] = job[k],
         j \in Form => job'[j].stage # "idle",
         job'[j].stage \in {"idle", "listing"} \/ job[j].stage \notin {"idle", "listing"},
         job'[Flush].edit # "enqueue",
         UNCHANGED <<queue, told>>
  PROVE  /\ /\ queue' \in Seq(Entry) /\ IsInjective(queue')
            /\ \A k \in Job :
                 /\ IsInjective(job'[k].todo) /\ IsInjective(job'[k].copy)
                 /\ job'[k].stage \notin {"idle", "listing"} => job'[k].todo # <<>>
            /\ told' \in [Entry -> {"new", "waiting", "saved", "queued", "failed", "unknown"}]
         /\ OnlyQueued'
         /\ FormsApart'
         /\ \A k \in Job : Current(k)' = Current(k)
<1>1. \A k \in Job : Current(k)' = Current(k)
  BY DEF Current
<1>2. \A k \in Job : /\ IsInjective(job'[k].todo) /\ IsInjective(job'[k].copy)
                     /\ job'[k].stage \notin {"idle", "listing"} => job'[k].todo # <<>>
  BY JobFacts
<1>3. OnlyQueued'
  BY DEF Inductive, OnlyQueued, Job
<1>4. FormsApart'
  <2>1. \A f \in Form : f \in Busy' => f \in Busy
    BY DEF Busy, Job
  <2>2. QED
    BY <1>1, <2>1 DEF Inductive, FormsApart, Job
<1>5. QED
  BY <1>1, <1>2, <1>3, <1>4 DEF Inductive, TypeOK
-----------------------------------------------------------------------------
(* The forms and the flush. *)

\* A form takes an entry.
LEMMA BeginCreateStep ==
  ASSUME Inductive, NEW f \in Form, NEW e \in Entry, BeginCreate(f, e)
  PROVE  Inductive'
<1>1. /\ job' \in [Job -> JobState]
      /\ job'[f].stage = "asking" /\ job'[f].todo = <<e>> /\ job'[f].copy = job[f].copy
      /\ \A k \in Job \ {f} : job'[k] = job[k]
      /\ f \in Job /\ f # Flush
  BY ShortLists DEF Inductive, TypeOK, JobState, Job, BeginCreate
<1>2. /\ told[e] = "new" /\ told' = [told EXCEPT ![e] = "waiting"]
      /\ UNCHANGED <<queue, booked, late, online, signedIn, losses, outages>>
  BY DEF BeginCreate
<1>3. TypeOK'
  <2>1. \A j \in Job :
          /\ IsInjective(job'[j].todo) /\ IsInjective(job'[j].copy)
          /\ job'[j].stage \notin {"idle", "listing"} => job'[j].todo # <<>>
    BY <1>1, ShortLists, JobFacts
  <2>2. job'[Flush].edit # "enqueue"
    BY <1>1 DEF Inductive, TypeOK, Job
  <2>3. QED
    BY <1>1, <1>2, <2>1, <2>2 DEF Inductive, TypeOK
<1>4. OnlyQueued'
  BY <1>1, <1>2 DEF Inductive, TypeOK, OnlyQueued, Job
<1>5. Current(f)' = e /\ \A g \in Form \ {f} : Current(g)' = Current(g)
  BY <1>1, ShortLists DEF Current, Job
<1>6. \A g \in Form \ {f} : job[g].stage # "idle" => Current(g) # e /\ Current(g) \in Entry
  BY <1>2, FormFacts
<1>7. FormSound'
  <2>1. ASSUME NEW g \in Form
        PROVE  /\ job'[g].stage = "idle" => job'[g].todo = <<>>
               /\ job'[g].stage # "idle" => /\ \E d \in Entry : job'[g].todo = <<d>>
                                            /\ told'[Current(g)'] = "waiting"
               /\ job'[g].stage \in {"reading", "writing"} => job'[g].edit = "enqueue"
               /\ job'[g].stage \in {"asking", "posting"} =>
                    booked'[Current(g)'] = 0 /\ Current(g)' \notin late'
               /\ job'[g].stage = "answered" =>
                    booked'[Current(g)'] = 1 /\ Current(g)' \notin late'
    <3>1. CASE g = f
      BY <1>1, <1>2, <1>5, <3>1 DEF Inductive, TypeOK, NewUnsent
    <3>2. CASE g # f
      <4>1. job'[g] = job[g] /\ Current(g)' = Current(g)
        BY <1>1, <1>5, <3>2 DEF Job
      <4>2. job[g].stage # "idle" => told'[Current(g)] = told[Current(g)]
        BY <1>2, <1>6, <3>2 DEF Inductive, TypeOK
      <4>3. QED
        BY <1>2, <4>1, <4>2 DEF Inductive, FormSound
    <3>3. QED
      BY <3>1, <3>2
  <2>2. QED
    BY <2>1 DEF FormSound
<1>8. FormsApart'
  <2>1. \A g \in Form \ {f} : g \in Busy' => job[g].stage # "idle"
    BY <1>1 DEF Busy, Job
  <2>2. QED
    BY <1>5, <1>6, <2>1 DEF Inductive, FormsApart, Busy, Job
<1>9. NewUnsent'
  BY <1>2 DEF Inductive, TypeOK, NewUnsent
<1>10. SavedIsFinal'
  <2>1. \A d \in Entry : told'[d] = "saved" => told[d] = "saved" /\ d # e
    BY <1>2 DEF Inductive, TypeOK
  <2>2. \A j \in Job : ToSet(job'[j].copy) = ToSet(job[j].copy)
    BY <1>1
  <2>3. \A d \in Entry \ {e} : \A j \in Job :
          d \notin ToSet(job[j].todo) => d \notin ToSet(job'[j].todo)
    BY <1>1, ShortLists
  <2>4. QED
    BY <1>2, <2>1, <2>2, <2>3 DEF Inductive, SavedIsFinal
<1>11. QED
  BY <1>3, <1>4, <1>7, <1>8, <1>9, <1>10 DEF Inductive

\* It learns whether the device is online.
LEMMA AskOnlineStep ==
  ASSUME Inductive, NEW f \in Form, AskOnline(f)
  PROVE  Inductive'
<1>1. /\ job' \in [Job -> JobState]
      /\ \A k \in Job : job'[k].todo = job[k].todo /\ job'[k].copy = job[k].copy
      /\ \A k \in Job \ {f} : job'[k] = job[k]
      /\ f \in Job /\ f # Flush /\ job[f].stage = "asking"
      /\ \/ job'[f].stage = "posting"
         \/ job'[f].stage = "reading" /\ job'[f].edit = "enqueue"
  <2>1. f \in Job /\ f # Flush /\ job[f].stage = "asking" /\ job \in [Job -> JobState]
    BY DEF Inductive, TypeOK, Job, AskOnline
  <2>2. CASE online
    <3>1. job' = [job EXCEPT ![f].stage = "posting"]
      BY <2>2 DEF AskOnline
    <3>2. QED
      BY <2>1, <3>1 DEF JobState
  <2>3. CASE ~online
    <3>1. job' = [job EXCEPT ![f].stage = "reading", ![f].edit = "enqueue"]
      BY <2>3 DEF AskOnline, ToEdit
    <3>2. QED
      BY <2>1, <3>1 DEF JobState
  <2>4. QED
    BY <2>2, <2>3
<1>2. UNCHANGED <<queue, told, booked, late, online, signedIn, losses, outages>>
  BY DEF AskOnline, ToEdit
<1>3. job'[Flush].edit # "enqueue"
  BY <1>1 DEF Inductive, TypeOK, Job
<1>4. /\ /\ queue' \in Seq(Entry) /\ IsInjective(queue')
         /\ \A k \in Job :
              /\ IsInjective(job'[k].todo) /\ IsInjective(job'[k].copy)
              /\ job'[k].stage \notin {"idle", "listing"} => job'[k].todo # <<>>
         /\ told' \in [Entry -> {"new", "waiting", "saved", "queued", "failed", "unknown"}]
      /\ OnlyQueued'
      /\ FormsApart'
      /\ \A k \in Job : Current(k)' = Current(k)
  BY <1>1, <1>2, <1>3, Restaged DEF Job
<1>5. TypeOK'
  BY <1>1, <1>2, <1>3, <1>4 DEF Inductive, TypeOK
<1>6. FormSound'
  BY <1>1, <1>2, <1>4 DEF Inductive, FormSound, Job
<1>7. NewUnsent' /\ SavedIsFinal'
  BY <1>1, <1>2 DEF Inductive, NewUnsent, SavedIsFinal
<1>8. QED
  BY <1>4, <1>5, <1>6, <1>7 DEF Inductive

\* A flush begins.
LEMMA BeginFlushStep ==
  ASSUME Inductive, BeginFlush
  PROVE  Inductive'
<1>1. /\ job' \in [Job -> JobState]
      /\ \A k \in Job : job'[k].todo = job[k].todo /\ job'[k].copy = job[k].copy
      /\ \A k \in Job \ {Flush} : job'[k] = job[k]
      /\ Flush \in Job /\ Flush \notin Form
      /\ job'[Flush].stage = "listing" /\ job'[Flush].edit = job[Flush].edit
  BY JobFacts DEF Inductive, TypeOK, JobState, Job, BeginFlush, StartedFlush
<1>2. UNCHANGED <<queue, told, booked, late, online, signedIn, losses, outages>>
  BY DEF BeginFlush, StartedFlush
<1>3. job'[Flush].edit # "enqueue"
  BY <1>1 DEF Inductive, TypeOK, Job
<1>4. /\ /\ queue' \in Seq(Entry) /\ IsInjective(queue')
         /\ \A k \in Job :
              /\ IsInjective(job'[k].todo) /\ IsInjective(job'[k].copy)
              /\ job'[k].stage \notin {"idle", "listing"} => job'[k].todo # <<>>
         /\ told' \in [Entry -> {"new", "waiting", "saved", "queued", "failed", "unknown"}]
      /\ OnlyQueued'
      /\ FormsApart'
      /\ \A k \in Job : Current(k)' = Current(k)
  BY <1>1, <1>2, <1>3, Restaged DEF Job
<1>5. TypeOK'
  BY <1>1, <1>2, <1>3, <1>4 DEF Inductive, TypeOK
<1>6. FormSound'
  BY <1>1, <1>2, <1>4 DEF Inductive, FormSound, Job
<1>7. NewUnsent' /\ SavedIsFinal'
  BY <1>1, <1>2 DEF Inductive, NewUnsent, SavedIsFinal
<1>8. QED
  BY <1>4, <1>5, <1>6, <1>7 DEF Inductive

\* It lists the queue, and is done if there is nothing in it.
LEMMA ListQueueStep ==
  ASSUME Inductive, ListQueue
  PROVE  Inductive'
<1>1. Flush \in Job /\ Flush \notin Form /\ queue \in Seq(Entry) /\ IsInjective(queue)
  BY DEF Inductive, TypeOK, Job
<1>2. /\ job' \in [Job -> JobState]
      /\ \A k \in Job \ {Flush} : job'[k] = job[k]
      /\ job'[Flush].edit # "enqueue"
      /\ \/ job'[Flush].stage = "idle" /\ job'[Flush].todo = <<>> /\ job'[Flush].copy = <<>>
         \/ /\ job'[Flush].stage = "posting" /\ job'[Flush].todo = queue /\ queue # <<>>
            /\ job'[Flush].copy = job[Flush].copy
  <2>1. CASE queue = <<>>
    BY <1>1, <2>1, ShortLists DEF Inductive, TypeOK, JobState, ListQueue, Idle
  <2>2. CASE queue # <<>>
    BY <1>1, <2>2 DEF Inductive, TypeOK, JobState, ListQueue
  <2>3. QED
    BY <2>1, <2>2
<1>3. UNCHANGED <<queue, told, booked, late, online, signedIn, losses, outages>>
  BY DEF ListQueue
<1>4. ToSet(job'[Flush].todo) \subseteq ToSet(queue)
      /\ \A k \in Job : ToSet(job'[k].copy) \subseteq ToSet(job[k].copy)
  BY <1>2, ShortLists
<1>5. TypeOK'
  <2>1. \A k \in Job :
          /\ IsInjective(job'[k].todo) /\ IsInjective(job'[k].copy)
          /\ job'[k].stage \notin {"idle", "listing"} => job'[k].todo # <<>>
    BY <1>1, <1>2, ShortLists, JobFacts
  <2>2. QED
    BY <1>2, <1>3, <2>1 DEF Inductive, TypeOK
<1>6. OnlyQueued'
  BY <1>3, <1>4 DEF Inductive, OnlyQueued
<1>7. FormSound' /\ FormsApart'
  <2>1. \A f \in Form : f \in Job /\ job'[f] = job[f]
    BY <1>1, <1>2 DEF Job
  <2>2. \A f \in Form : Current(f)' = Current(f) /\ (f \in Busy)' = (f \in Busy)
    BY <2>1 DEF Current, Busy
  <2>3. FormSound'
    BY <1>3, <2>1, <2>2 DEF Inductive, FormSound
  <2>4. FormsApart'
    BY <2>2 DEF Inductive, FormsApart
  <2>5. QED
    BY <2>3, <2>4
<1>8. NewUnsent'
  BY <1>3 DEF Inductive, NewUnsent
<1>9. SavedIsFinal'
  BY <1>2, <1>3, <1>4 DEF Inductive, SavedIsFinal
<1>10. QED
  BY <1>5, <1>6, <1>7, <1>8, <1>9 DEF Inductive
-----------------------------------------------------------------------------
(* POST /transactions. *)

\* The server commits the transaction of a POST.
LEMMA BookStep ==
  ASSUME Inductive, NEW j \in Job, Book(j)
  PROVE  Inductive'
<1>1. /\ job' \in [Job -> JobState]
      /\ \A k \in Job : job'[k].todo = job[k].todo /\ job'[k].copy = job[k].copy
      /\ \A k \in Job \ {j} : job'[k] = job[k]
      /\ job[j].stage = "posting" /\ job'[j].stage = "answered"
      /\ job'[j].edit = job[j].edit
  BY JobFacts DEF Inductive, TypeOK, JobState, Job, Book
<1>2. /\ Current(j) \in Entry /\ booked' = [booked EXCEPT ![Current(j)] = @ + 1]
      /\ UNCHANGED <<queue, told, late, online, signedIn, losses, outages>>
  BY <1>1, JobFacts DEF Book
<1>3. job'[Flush].edit # "enqueue"
  BY <1>1 DEF Inductive, TypeOK, Job
<1>4. /\ /\ queue' \in Seq(Entry) /\ IsInjective(queue')
         /\ \A k \in Job :
              /\ IsInjective(job'[k].todo) /\ IsInjective(job'[k].copy)
              /\ job'[k].stage \notin {"idle", "listing"} => job'[k].todo # <<>>
         /\ told' \in [Entry -> {"new", "waiting", "saved", "queued", "failed", "unknown"}]
      /\ OnlyQueued'
      /\ FormsApart'
      /\ \A k \in Job : Current(k)' = Current(k)
  BY <1>1, <1>2, <1>3, Restaged DEF Job
<1>5. TypeOK'
  BY <1>1, <1>2, <1>3, <1>4 DEF Inductive, TypeOK
<1>6. \A e \in Entry \ {Current(j)} : booked'[e] = booked[e]
  BY <1>2 DEF Inductive, TypeOK
<1>7. ASSUME NEW f \in Form
      PROVE  /\ job'[f].stage = "idle" => job'[f].todo = <<>>
             /\ job'[f].stage # "idle" => /\ \E d \in Entry : job'[f].todo = <<d>>
                                          /\ told'[Current(f)'] = "waiting"
             /\ job'[f].stage \in {"reading", "writing"} => job'[f].edit = "enqueue"
             /\ job'[f].stage \in {"asking", "posting"} =>
                  booked'[Current(f)'] = 0 /\ Current(f)' \notin late'
             /\ job'[f].stage = "answered" =>
                  booked'[Current(f)'] = 1 /\ Current(f)' \notin late'
  <2>1. CASE f = j
    BY <1>1, <1>2, <1>4, <2>1 DEF Inductive, TypeOK, FormSound
  <2>2. CASE f # j
    <3>1. job'[f] = job[f] /\ Current(f)' = Current(f)
      BY <1>1, <1>4, <2>2 DEF Job
    <3>2. job[f].stage # "idle" => Current(f) # Current(j)
      BY <1>1, <2>2, JobFacts, OwnEntry
    <3>3. job[f].stage # "idle" => booked'[Current(f)] = booked[Current(f)]
      BY <1>6, <3>2, FormFacts
    <3>4. QED
      BY <1>2, <3>1, <3>3 DEF Inductive, FormSound
  <2>3. QED
    BY <2>1, <2>2
<1>8. FormSound'
  BY <1>7 DEF FormSound
<1>9. \A e \in Entry : told[e] \in {"new", "saved"} => booked'[e] = booked[e]
  BY <1>1, <1>6, JobFacts
<1>10. NewUnsent' /\ SavedIsFinal'
  BY <1>1, <1>2, <1>9 DEF Inductive, NewUnsent, SavedIsFinal
<1>11. QED
  BY <1>4, <1>5, <1>8, <1>10 DEF Inductive

\* The POST is refused.
LEMMA RefuseStep ==
  ASSUME Inductive, NEW j \in Job, Refuse(j)
  PROVE  Inductive'
<1>1. /\ job' \in [Job -> JobState]
      /\ \A k \in Job : job'[k].todo = job[k].todo /\ job'[k].copy = job[k].copy
      /\ \A k \in Job \ {j} : job'[k] = job[k]
      /\ job[j].stage \notin {"idle", "listing"} /\ job'[j].stage = "reading"
      /\ job'[j].edit = IF j \in Form THEN "enqueue" ELSE "markFailure"
  BY JobFacts DEF Inductive, TypeOK, JobState, Job, Refuse, AfterFailure, ToEdit
<1>2. UNCHANGED <<queue, told, booked, late, online, signedIn, losses, outages>>
  BY DEF Refuse, AfterFailure, ToEdit
<1>3. job'[Flush].edit # "enqueue"
  BY <1>1 DEF Inductive, TypeOK, Job
<1>4. /\ /\ queue' \in Seq(Entry) /\ IsInjective(queue')
         /\ \A k \in Job :
              /\ IsInjective(job'[k].todo) /\ IsInjective(job'[k].copy)
              /\ job'[k].stage \notin {"idle", "listing"} => job'[k].todo # <<>>
         /\ told' \in [Entry -> {"new", "waiting", "saved", "queued", "failed", "unknown"}]
      /\ OnlyQueued'
      /\ FormsApart'
      /\ \A k \in Job : Current(k)' = Current(k)
  BY <1>1, <1>2, <1>3, Restaged DEF Job
<1>5. TypeOK'
  BY <1>1, <1>2, <1>3, <1>4 DEF Inductive, TypeOK
<1>6. FormSound'
  BY <1>1, <1>2, <1>4 DEF Inductive, FormSound, Job
<1>7. NewUnsent' /\ SavedIsFinal'
  BY <1>1, <1>2 DEF Inductive, NewUnsent, SavedIsFinal
<1>8. QED
  BY <1>4, <1>5, <1>6, <1>7 DEF Inductive

\* The POST times out.
LEMMA TimeoutStep ==
  ASSUME Inductive, NEW j \in Job, Timeout(j)
  PROVE  Inductive'
<1>1. /\ job' \in [Job -> JobState]
      /\ \A k \in Job : job'[k].todo = job[k].todo /\ job'[k].copy = job[k].copy
      /\ \A k \in Job \ {j} : job'[k] = job[k]
      /\ job[j].stage \notin {"idle", "listing"} /\ job'[j].stage = "reading"
      /\ job'[j].edit = IF j \in Form THEN "enqueue" ELSE "markFailure"
  BY JobFacts DEF Inductive, TypeOK, JobState, Job, Timeout, AfterFailure, ToEdit
<1>2. /\ Current(j) \in Entry /\ late' \subseteq late \union {Current(j)}
      /\ losses' = losses + 1 /\ losses < MaxLosses
      /\ UNCHANGED <<queue, told, booked, online, signedIn, outages>>
  BY <1>1, JobFacts DEF Timeout, AfterFailure, ToEdit
<1>3. job'[Flush].edit # "enqueue"
  BY <1>1 DEF Inductive, TypeOK, Job
<1>4. /\ /\ queue' \in Seq(Entry) /\ IsInjective(queue')
         /\ \A k \in Job :
              /\ IsInjective(job'[k].todo) /\ IsInjective(job'[k].copy)
              /\ job'[k].stage \notin {"idle", "listing"} => job'[k].todo # <<>>
         /\ told' \in [Entry -> {"new", "waiting", "saved", "queued", "failed", "unknown"}]
      /\ OnlyQueued'
      /\ FormsApart'
      /\ \A k \in Job : Current(k)' = Current(k)
  BY <1>1, <1>2, <1>3, Restaged DEF Job
<1>5. TypeOK'
  BY <1>1, <1>2, <1>3, <1>4 DEF Inductive, TypeOK
<1>6. ASSUME NEW f \in Form
      PROVE  /\ job'[f].stage = "idle" => job'[f].todo = <<>>
             /\ job'[f].stage # "idle" => /\ \E d \in Entry : job'[f].todo = <<d>>
                                          /\ told'[Current(f)'] = "waiting"
             /\ job'[f].stage \in {"reading", "writing"} => job'[f].edit = "enqueue"
             /\ job'[f].stage \in {"asking", "posting"} =>
                  booked'[Current(f)'] = 0 /\ Current(f)' \notin late'
             /\ job'[f].stage = "answered" =>
                  booked'[Current(f)'] = 1 /\ Current(f)' \notin late'
  <2>1. CASE f = j
    BY <1>1, <1>2, <1>4, <2>1 DEF Inductive, FormSound
  <2>2. CASE f # j
    <3>1. job'[f] = job[f] /\ Current(f)' = Current(f)
      BY <1>1, <1>4, <2>2 DEF Job
    <3>2. job[f].stage # "idle" => Current(f) # Current(j)
      BY <1>1, <2>2, JobFacts, OwnEntry
    <3>3. QED
      BY <1>2, <3>1, <3>2 DEF Inductive, FormSound
  <2>3. QED
    BY <2>1, <2>2
<1>7. FormSound'
  BY <1>6 DEF FormSound
<1>8. told[Current(j)] \notin {"new", "saved"}
  BY <1>1, JobFacts
<1>9. NewUnsent' /\ SavedIsFinal'
  BY <1>1, <1>2, <1>8 DEF Inductive, NewUnsent, SavedIsFinal
<1>10. QED
  BY <1>4, <1>5, <1>7, <1>9 DEF Inductive

\* The answer arrives: the form is done, the flush goes on to remove the entry.
LEMMA AnswerStep ==
  ASSUME Inductive, NEW j \in Job, Answer(j)
  PROVE  Inductive'
<1>1. CASE j \in Form
  <2>1. /\ job' \in [Job -> JobState]
        /\ \A k \in Job \ {j} : job'[k] = job[k]
        /\ job'[j].stage = "idle" /\ job'[j].todo = <<>> /\ job'[j].copy = <<>>
        /\ job[j].stage = "answered"
    <3>1. job[j].stage = "answered" /\ job' = [job EXCEPT ![j] = Idle]
      BY <1>1 DEF Answer
    <3>2. job \in [Job -> JobState]
      BY DEF Inductive, TypeOK
    <3>3. QED
      BY <3>1, <3>2, ShortLists DEF JobState, Idle
  <2>2. told' = [told EXCEPT ![Current(j)] = "saved"] /\ Current(j) \in Entry
    BY <1>1, <2>1, FormFacts DEF Answer, Tell
  <2>3. UNCHANGED <<queue, booked, late, online, signedIn, losses, outages>>
    BY DEF Answer
  <2>4. j # Flush /\ job'[Flush] = job[Flush]
    BY <1>1, <2>1 DEF Job
  <2>5. TypeOK'
    <3>1. \A k \in Job :
            /\ IsInjective(job'[k].todo) /\ IsInjective(job'[k].copy)
            /\ job'[k].stage \notin {"idle", "listing"} => job'[k].todo # <<>>
      BY <2>1, ShortLists, JobFacts
    <3>2. QED
      BY <2>1, <2>2, <2>3, <2>4, <3>1 DEF Inductive, TypeOK
  <2>6. \A k \in Job : ToSet(job'[k].copy) \subseteq ToSet(job[k].copy)
    BY <2>1, ShortLists
  <2>7. told[Current(j)] = "waiting"
    BY <1>1, <2>1, FormFacts
  <2>8. OnlyQueued'
    BY <2>2, <2>3, <2>4, <2>6, <2>7 DEF Inductive, TypeOK, OnlyQueued
  <2>9. \A f \in Form \ {j} :
          /\ f \in Job /\ job'[f] = job[f] /\ Current(f)' = Current(f)
          /\ job[f].stage # "idle" => told'[Current(f)] = told[Current(f)]
    BY <1>1, <2>1, <2>2, FormFacts DEF Inductive, TypeOK, FormsApart, Busy, Job, Current
  <2>10. FormSound'
    BY <2>1, <2>3, <2>9 DEF Inductive, FormSound
  <2>11. FormsApart'
    BY <2>1, <2>9 DEF Inductive, FormsApart, Busy
  <2>12. NewUnsent'
    BY <2>2, <2>3 DEF Inductive, TypeOK, NewUnsent
  <2>13. SavedIsFinal'
    <3>1. \A k \in Job : ToSet(job'[k].todo) \subseteq ToSet(job[k].todo)
      BY <2>1, ShortLists
    <3>2. /\ booked'[Current(j)] = 1 /\ Current(j) \notin late'
          /\ Current(j) \notin ToSet(queue')
      BY <1>1, <2>1, <2>3, OwnEntry DEF Inductive, FormSound
    <3>3. \A k \in Job : Current(j) \notin ToSet(job'[k].todo) \union ToSet(job'[k].copy)
      BY <1>1, <2>1, <2>6, <3>1, OwnEntry, ShortLists
    <3>4. \A e \in Entry \ {Current(j)} : told'[e] = told[e]
      BY <2>2 DEF Inductive, TypeOK
    <3>5. QED
      BY <2>3, <2>6, <3>1, <3>2, <3>3, <3>4 DEF Inductive, SavedIsFinal
  <2>14. QED
    BY <2>5, <2>8, <2>10, <2>11, <2>12, <2>13 DEF Inductive
<1>2. CASE j = Flush
  <2>1. /\ job' \in [Job -> JobState]
        /\ \A k \in Job : job'[k].todo = job[k].todo /\ job'[k].copy = job[k].copy
        /\ \A k \in Job \ {j} : job'[k] = job[k]
        /\ job[j].stage = "answered" /\ job'[j].stage = "reading" /\ job'[j].edit = "remove"
        /\ j \notin Form
    <3>1. /\ j \notin Form /\ job[j].stage = "answered"
          /\ job' = [job EXCEPT ![j].stage = "reading", ![j].edit = "remove"]
      BY <1>2 DEF Answer, ToEdit
    <3>2. job \in [Job -> JobState]
      BY DEF Inductive, TypeOK
    <3>3. QED
      BY <3>1, <3>2 DEF JobState
  <2>2. UNCHANGED <<queue, told, booked, late, online, signedIn, losses, outages>>
    BY <2>1 DEF Answer, Tell
  <2>3. /\ /\ queue' \in Seq(Entry) /\ IsInjective(queue')
           /\ \A k \in Job :
                /\ IsInjective(job'[k].todo) /\ IsInjective(job'[k].copy)
                /\ job'[k].stage \notin {"idle", "listing"} => job'[k].todo # <<>>
           /\ told' \in [Entry -> {"new", "waiting", "saved", "queued", "failed", "unknown"}]
        /\ OnlyQueued'
        /\ FormsApart'
        /\ \A k \in Job : Current(k)' = Current(k)
    BY <1>2, <2>1, <2>2, Restaged
  <2>4. TypeOK'
    BY <1>2, <2>1, <2>2, <2>3 DEF Inductive, TypeOK
  <2>5. FormSound'
    BY <2>1, <2>2, <2>3 DEF Inductive, FormSound, Job
  <2>6. NewUnsent' /\ SavedIsFinal'
    BY <2>1, <2>2 DEF Inductive, NewUnsent, SavedIsFinal
  <2>7. QED
    BY <2>3, <2>4, <2>5, <2>6 DEF Inductive
<1>3. QED
  BY <1>1, <1>2 DEF Job

\* The server commits an abandoned POST, which no form waits for.
LEMMA BookLateStep ==
  ASSUME Inductive, NEW e \in Entry, BookLate(e)
  PROVE  Inductive'
<1>1. TypeOK'
  BY DEF Inductive, TypeOK, BookLate
<1>2. OnlyQueued'
  BY DEF Inductive, OnlyQueued, BookLate
<1>3. FormSound'
  BY FormFacts DEF Inductive, TypeOK, FormSound, Current, BookLate
<1>4. FormsApart'
  BY DEF Inductive, FormsApart, Busy, Current, BookLate
<1>5. NewUnsent' /\ SavedIsFinal'
  BY DEF Inductive, TypeOK, NewUnsent, SavedIsFinal, BookLate
<1>6. QED
  BY <1>1, <1>2, <1>3, <1>4, <1>5 DEF Inductive
-----------------------------------------------------------------------------
(* outbox.enqueue, outbox.remove, outbox.markFailure. *)

\* A job reads the stored list.
LEMMA ReadListStep ==
  ASSUME Inductive, NEW j \in Job, ReadList(j)
  PROVE  Inductive'
<1>1. /\ job' \in [Job -> JobState]
      /\ \A k \in Job \ {j} : job'[k] = job[k]
      /\ job'[j].todo = job[j].todo /\ job'[j].edit = job[j].edit /\ job'[j].copy = queue
      /\ job[j].stage = "reading" /\ job'[j].stage = "writing"
  BY DEF Inductive, TypeOK, JobState, ReadList
<1>2. UNCHANGED <<queue, told, booked, late, online, signedIn, losses, outages>>
  BY DEF ReadList
<1>3. \A k \in Job : /\ job'[k].todo = job[k].todo /\ job'[k].edit = job[k].edit
                     /\ Current(k)' = Current(k)
                     /\ job'[k].copy = job[k].copy \/ job'[k].copy = queue
  BY <1>1 DEF Current
<1>4. TypeOK'
  <2>1. \A k \in Job :
          /\ IsInjective(job'[k].todo) /\ IsInjective(job'[k].copy)
          /\ job'[k].stage \notin {"idle", "listing"} => job'[k].todo # <<>>
    BY <1>1, <1>3, JobFacts DEF Inductive, TypeOK
  <2>2. QED
    BY <1>1, <1>2, <1>3, <2>1 DEF Inductive, TypeOK, Job
<1>5. OnlyQueued'
  BY <1>2, <1>3 DEF Inductive, OnlyQueued, Job
<1>6. FormSound'
  BY <1>1, <1>2, <1>3 DEF Inductive, FormSound, Job
<1>7. FormsApart'
  BY <1>1, <1>3 DEF Inductive, FormsApart, Busy, Job
<1>8. NewUnsent' /\ SavedIsFinal'
  BY <1>2, <1>3 DEF Inductive, NewUnsent, SavedIsFinal
<1>9. QED
  BY <1>4, <1>5, <1>6, <1>7, <1>8 DEF Inductive

\* A form that is told how its entry ended, and not that it was saved, leaves
\* the rest of the invariant as it was.
LEMMA FormEnds ==
  ASSUME Inductive, NEW f \in Form, NEW answer \in {"queued", "failed"},
         job[f].stage # "idle",
         told' = [told EXCEPT ![Current(f)] = answer],
         job' = [job EXCEPT ![f] = Idle],
         queue' \in Seq(Entry), IsInjective(queue'),
         ToSet(queue') \subseteq
           UNION {ToSet(queue), ToSet(job[f].copy), IF answer = "queued" THEN {Current(f)} ELSE {}},
         losses' \in 0 .. MaxLosses,
         UNCHANGED <<booked, late, online, signedIn, outages>>
  PROVE  Inductive'
<1>1. /\ job' \in [Job -> JobState]
      /\ \A k \in Job \ {f} : job'[k] = job[k]
      /\ job'[f].stage = "idle" /\ job'[f].todo = <<>> /\ job'[f].copy = <<>>
      /\ f \in Job /\ f # Flush /\ Flush \in Job
  BY ShortLists DEF Inductive, TypeOK, JobState, Job, Idle
<1>2. Current(f) \in Entry /\ told[Current(f)] = "waiting"
  BY FormFacts
<1>3. /\ told' \in [Entry -> {"new", "waiting", "saved", "queued", "failed", "unknown"}]
      /\ told'[Current(f)] = answer
      /\ \A e \in Entry \ {Current(f)} : told'[e] = told[e]
  BY <1>2 DEF Inductive, TypeOK
<1>4. \A k \in Job : /\ ToSet(job'[k].copy) \subseteq ToSet(job[k].copy)
                     /\ ToSet(job'[k].todo) \subseteq ToSet(job[k].todo)
  BY <1>1, ShortLists
<1>5. TypeOK'
  <2>1. \A k \in Job :
          /\ IsInjective(job'[k].todo) /\ IsInjective(job'[k].copy)
          /\ job'[k].stage \notin {"idle", "listing"} => job'[k].todo # <<>>
    BY <1>1, ShortLists, JobFacts
  <2>2. QED
    BY <1>1, <1>3, <2>1 DEF Inductive, TypeOK
<1>6. /\ Current(f) \notin ToSet(queue)
      /\ \A k \in Job : Current(f) \notin ToSet(job[k].copy)
      /\ Current(f) \notin ToSet(job[Flush].todo)
  BY <1>1, OwnEntry
<1>7. OnlyQueued'
  <2>1. ASSUME NEW e \in Entry, told'[e] # "queued"
        PROVE  /\ e \notin ToSet(queue') /\ e \notin ToSet(job'[Flush].todo)
               /\ \A k \in Job : e \notin ToSet(job'[k].copy)
    <3>1. CASE e = Current(f)
      BY <1>1, <1>3, <1>4, <1>6, <2>1, <3>1
    <3>2. CASE e # Current(f)
      <4>1. told[e] # "queued"
        BY <1>3, <2>1, <3>2
      <4>2. /\ e \notin ToSet(queue) /\ e \notin ToSet(job[Flush].todo)
            /\ \A k \in Job : e \notin ToSet(job[k].copy)
        BY <4>1 DEF Inductive, OnlyQueued
      <4>3. QED
        BY <1>1, <1>4, <3>2, <4>2
    <3>3. QED
      BY <3>1, <3>2
  <2>2. QED
    BY <2>1 DEF OnlyQueued
<1>8. \A g \in Form \ {f} :
        /\ g \in Job /\ job'[g] = job[g] /\ Current(g)' = Current(g)
        /\ job[g].stage # "idle" => told'[Current(g)] = told[Current(g)]
  BY <1>1, <1>3, FormFacts DEF Inductive, FormsApart, Busy, Job, Current
<1>9. FormSound'
  BY <1>1, <1>8 DEF Inductive, FormSound
<1>10. FormsApart'
  BY <1>1, <1>8 DEF Inductive, FormsApart, Busy
<1>11. NewUnsent'
  BY <1>3 DEF Inductive, NewUnsent
<1>12. SavedIsFinal'
  <2>1. \A e \in Entry : told'[e] = "saved" => e # Current(f) /\ told[e] = "saved"
    BY <1>3
  <2>2. QED
    BY <1>1, <1>4, <2>1 DEF Inductive, SavedIsFinal
<1>13. QED
  BY <1>5, <1>7, <1>9, <1>10, <1>11, <1>12 DEF Inductive

\* The flush goes on: it is done, or it sends what is left of its listing.
LEMMA FlushGoesOn ==
  ASSUME Inductive,
         job' \in [Job -> JobState], \A k \in Job \ {Flush} : job'[k] = job[k],
         job'[Flush].edit # "enqueue",
         IsInjective(job'[Flush].todo), IsInjective(job'[Flush].copy),
         ToSet(job'[Flush].todo) \subseteq ToSet(job[Flush].todo),
         ToSet(job'[Flush].copy) \subseteq ToSet(job[Flush].copy),
         job'[Flush].stage \notin {"idle", "listing"} => job'[Flush].todo # <<>>,
         queue' \in Seq(Entry), IsInjective(queue'),
         ToSet(queue') \subseteq ToSet(queue) \union ToSet(job[Flush].copy),
         losses' \in 0 .. MaxLosses,
         UNCHANGED <<told, booked, late, online, signedIn, outages>>
  PROVE  Inductive'
<1>1. Flush \in Job /\ Flush \notin Form /\ Form \subseteq Job
  BY DEF Job
<1>2. \A k \in Job : /\ ToSet(job'[k].copy) \subseteq ToSet(job[k].copy)
                     /\ ToSet(job'[k].todo) \subseteq ToSet(job[k].todo)
  OBVIOUS
<1>3. TypeOK'
  <2>1. \A k \in Job :
          /\ IsInjective(job'[k].todo) /\ IsInjective(job'[k].copy)
          /\ job'[k].stage \notin {"idle", "listing"} => job'[k].todo # <<>>
    BY JobFacts
  <2>2. QED
    BY <2>1 DEF Inductive, TypeOK
<1>4. OnlyQueued'
  BY <1>1, <1>2 DEF Inductive, OnlyQueued
<1>5. \A f \in Form : job'[f] = job[f] /\ Current(f)' = Current(f)
  BY <1>1 DEF Current
<1>6. FormSound'
  BY <1>5 DEF Inductive, FormSound
<1>7. FormsApart'
  BY <1>1, <1>5 DEF Inductive, FormsApart, Busy
<1>8. NewUnsent'
  BY DEF Inductive, NewUnsent
<1>9. SavedIsFinal'
  BY <1>1, <1>2 DEF Inductive, SavedIsFinal
<1>10. QED
  BY <1>3, <1>4, <1>6, <1>7, <1>8, <1>9 DEF Inductive

\* A job writes its list: the form is done, the flush goes on.
LEMMA WriteListStep ==
  ASSUME Inductive, NEW j \in Job, WriteList(j)
  PROVE  Inductive'
<1>1. /\ job[j].stage = "writing" /\ queue' = Edited(j) /\ job' = AfterWrite(j)
      /\ UNCHANGED <<booked, late, online, signedIn, losses, outages>>
      /\ told' = IF j \in Form THEN [told EXCEPT ![Current(j)] = "queued"] ELSE told
  BY DEF WriteList, Tell
<1>2. /\ job[j].copy \in Seq(Entry) /\ IsInjective(job[j].copy) /\ Current(j) \in Entry
  BY <1>1, JobFacts
<1>3. losses' \in 0 .. MaxLosses
  BY <1>1 DEF Inductive, TypeOK
<1>4. CASE j \in Form
  <2>1. job[j].edit = "enqueue"
    BY <1>1, <1>4 DEF Inductive, FormSound
  <2>2. queue' = Append(job[j].copy, Current(j)) /\ job' = [job EXCEPT ![j] = Idle]
    BY <1>1, <2>1 DEF Edited, AfterWrite
  <2>3. Current(j) \notin ToSet(job[j].copy)
    BY <1>1, <1>4, OwnEntry
  <2>4. /\ queue' \in Seq(Entry) /\ IsInjective(queue')
        /\ ToSet(queue') = ToSet(job[j].copy) \union {Current(j)}
    BY <1>2, <2>2, <2>3, AppendFacts
  <2>5. QED
    BY <1>1, <1>3, <1>4, <2>2, <2>4, FormEnds
<1>5. CASE j = Flush
  <2>1. j \notin Form /\ job[j].edit # "enqueue"
    BY <1>5 DEF Inductive, TypeOK
  <2>2. queue' = Without(job[j].copy, Current(j)) \/ queue' = job[j].copy
    BY <1>1, <2>1 DEF Edited
  <2>3. /\ queue' \in Seq(Entry) /\ IsInjective(queue')
        /\ ToSet(queue') \subseteq ToSet(job[j].copy)
    BY <1>2, <2>2, WithoutFacts
  <2>4. /\ job' \in [Job -> JobState] /\ \A k \in Job \ {j} : job'[k] = job[k]
        /\ job'[j].edit # "enqueue" /\ job'[j].copy = <<>>
        /\ \/ job'[j].stage = "idle" /\ job'[j].todo = <<>>
           \/ Len(job[j].todo) > 1 /\ job'[j].todo = Tail(job[j].todo)
    <3>1. CASE job[j].edit = "remove" /\ Len(job[j].todo) > 1
      <4> DEFINE next == [Idle EXCEPT !.stage = "posting", !.todo = Tail(job[j].todo)]
      <4>1. Tail(job[j].todo) \in Seq(Entry)
        BY <1>1, JobFacts, TailFacts
      <4>2. Idle \in JobState /\ Idle.copy = <<>> /\ Idle.edit = "none"
        BY ShortLists DEF Idle, JobState
      <4>3. next \in JobState /\ next.copy = <<>> /\ next.edit = "none"
            /\ next.todo = Tail(job[j].todo)
        BY <4>1, <4>2 DEF JobState
      <4>4. job' = [job EXCEPT ![j] = next] /\ job \in [Job -> JobState]
        BY <1>1, <3>1 DEF AfterWrite, Inductive, TypeOK
      <4> HIDE DEF next
      <4>5. QED
        BY <3>1, <4>3, <4>4
    <3>2. CASE ~(job[j].edit = "remove" /\ Len(job[j].todo) > 1)
      <4>1. job' = [job EXCEPT ![j] = Idle]
        BY <1>1, <3>2 DEF AfterWrite
      <4>2. QED
        BY <4>1, ShortLists DEF Inductive, TypeOK, JobState, Idle
    <3>3. QED
      BY <3>1, <3>2
  <2>5. /\ IsInjective(job'[j].todo) /\ IsInjective(job'[j].copy)
        /\ ToSet(job'[j].todo) \subseteq ToSet(job[j].todo)
        /\ ToSet(job'[j].copy) \subseteq ToSet(job[j].copy)
        /\ job'[j].stage \notin {"idle", "listing"} => job'[j].todo # <<>>
    <3>1. job[j].todo \in Seq(Entry) /\ IsInjective(job[j].todo) /\ job[j].todo # <<>>
      BY <1>1, JobFacts
    <3>2. CASE job'[j].stage = "idle" /\ job'[j].todo = <<>>
      BY <2>4, <3>2, ShortLists
    <3>3. CASE Len(job[j].todo) > 1 /\ job'[j].todo = Tail(job[j].todo)
      BY <2>4, <3>1, <3>3, TailFacts, ShortLists
    <3>4. QED
      BY <2>4, <3>2, <3>3
  <2>6. QED
    BY <1>1, <1>3, <1>5, <2>1, <2>3, <2>4, <2>5, FlushGoesOn
<1>6. QED
  BY <1>4, <1>5 DEF Job

\* The read or the write is rejected.
LEMMA StorageFailsStep ==
  ASSUME Inductive, NEW j \in Job, StorageFails(j)
  PROVE  Inductive'
<1>1. /\ job[j].stage \in {"reading", "writing"}
      /\ losses < MaxLosses /\ losses' = losses + 1
      /\ UNCHANGED <<queue, booked, late, online, signedIn, outages>>
      /\ told' = IF j \in Form THEN [told EXCEPT ![Current(j)] = "failed"] ELSE told
      /\ IF job[j].edit = "remove" THEN ToEdit(j, "markFailure")
                                   ELSE job' = [job EXCEPT ![j] = Idle]
  BY DEF StorageFails, Tell
<1>2. losses' \in 0 .. MaxLosses /\ queue' \in Seq(Entry) /\ IsInjective(queue')
  BY <1>1 DEF Inductive, TypeOK
<1>3. CASE j \in Form
  <2>1. job[j].edit = "enqueue"
    BY <1>1, <1>3 DEF Inductive, FormSound
  <2>2. job' = [job EXCEPT ![j] = Idle]
    BY <1>1, <2>1
  <2>3. QED
    BY <1>1, <1>2, <1>3, <2>2, FormEnds
<1>4. CASE j = Flush
  <2>1. j \notin Form
    BY <1>4
  <2>2. /\ job' \in [Job -> JobState] /\ \A k \in Job \ {j} : job'[k] = job[k]
        /\ job'[j].edit # "enqueue"
        /\ \/ job'[j].stage = "idle" /\ job'[j].todo = <<>> /\ job'[j].copy = <<>>
           \/ job'[j].todo = job[j].todo /\ job'[j].copy = job[j].copy
    <3>0. job \in [Job -> JobState]
      BY DEF Inductive, TypeOK
    <3>1. CASE job[j].edit = "remove"
      <4>1. job' = [job EXCEPT ![j].stage = "reading", ![j].edit = "markFailure"]
        BY <1>1, <3>1 DEF ToEdit
      <4>2. QED
        BY <3>0, <4>1 DEF JobState
    <3>2. CASE job[j].edit # "remove"
      <4>1. job' = [job EXCEPT ![j] = Idle]
        BY <1>1, <3>2
      <4>2. QED
        BY <3>0, <4>1, ShortLists DEF JobState, Idle
    <3>3. QED
      BY <3>1, <3>2
  <2>3. /\ IsInjective(job'[j].todo) /\ IsInjective(job'[j].copy)
        /\ ToSet(job'[j].todo) \subseteq ToSet(job[j].todo)
        /\ ToSet(job'[j].copy) \subseteq ToSet(job[j].copy)
        /\ job'[j].stage \notin {"idle", "listing"} => job'[j].todo # <<>>
    BY <1>1, <2>2, JobFacts, ShortLists
  <2>4. QED
    BY <1>1, <1>2, <1>4, <2>1, <2>2, <2>3, FlushGoesOn
<1>5. QED
  BY <1>3, <1>4 DEF Job

\* The flush's first read is rejected.
LEMMA ListFailsStep ==
  ASSUME Inductive, ListFails
  PROVE  Inductive'
<1>1. /\ job' = [job EXCEPT ![Flush] = Idle]
      /\ losses < MaxLosses /\ losses' = losses + 1
      /\ UNCHANGED <<queue, told, booked, late, online, signedIn, outages>>
  BY DEF ListFails
<1>2. losses' \in 0 .. MaxLosses /\ queue' \in Seq(Entry) /\ IsInjective(queue')
  BY <1>1 DEF Inductive, TypeOK
<1>3. Flush \in Job /\ job \in [Job -> JobState]
  BY DEF Inductive, TypeOK, Job
<1>4. /\ job' \in [Job -> JobState] /\ \A k \in Job \ {Flush} : job'[k] = job[k]
      /\ job'[Flush].stage = "idle" /\ job'[Flush].edit = "none"
      /\ job'[Flush].todo = <<>> /\ job'[Flush].copy = <<>>
  BY <1>1, <1>3, ShortLists DEF JobState, Idle
<1>5. /\ IsInjective(job'[Flush].todo) /\ IsInjective(job'[Flush].copy)
      /\ ToSet(job'[Flush].todo) \subseteq ToSet(job[Flush].todo)
      /\ ToSet(job'[Flush].copy) \subseteq ToSet(job[Flush].copy)
  BY <1>3, <1>4, JobFacts, ShortLists
<1>6. QED
  BY <1>1, <1>2, <1>4, <1>5, FlushGoesOn
-----------------------------------------------------------------------------
(* The device. *)

\* The process dies, and every job with it.
LEMMA KillStep ==
  ASSUME Inductive, Kill
  PROVE  Inductive'
<1>1. /\ job' \in [Job -> JobState]
      /\ \A k \in Job : /\ job'[k].stage = "idle" /\ job'[k].edit = "none"
                        /\ job'[k].todo = <<>> /\ job'[k].copy = <<>>
  BY ShortLists DEF Kill, Idle, JobState
<1>2. /\ told' \in [Entry -> {"new", "waiting", "saved", "queued", "failed", "unknown"}]
      /\ \A e \in Entry : \A answer \in {"new", "saved", "queued"} :
           told'[e] = answer <=> told[e] = answer
  BY DEF Inductive, TypeOK, Kill
<1>3. /\ UNCHANGED <<queue, booked, late, online, signedIn, outages>>
      /\ losses < MaxLosses /\ losses' = losses + 1
  BY DEF Kill
<1>4. Flush \in Job /\ Form \subseteq Job
  BY DEF Job
<1>5. TypeOK'
  BY <1>1, <1>2, <1>3, <1>4, ShortLists DEF Inductive, TypeOK
<1>6. OnlyQueued'
  BY <1>1, <1>2, <1>3, <1>4, ShortLists DEF Inductive, OnlyQueued
<1>7. FormSound' /\ FormsApart'
  BY <1>1, <1>4 DEF FormSound, FormsApart, Busy
<1>8. NewUnsent' /\ SavedIsFinal'
  BY <1>1, <1>2, <1>3, ShortLists DEF Inductive, NewUnsent, SavedIsFinal
<1>9. QED
  BY <1>5, <1>6, <1>7, <1>8 DEF Inductive

\* Connectivity is lost, or the session ends, or the user signs in again.
LEMMA OutageStep ==
  ASSUME Inductive, NetDown \/ SignOut \/ SignIn
  PROVE  Inductive'
<1>1. UNCHANGED <<queue, job, told, booked, late, losses>>
  BY DEF NetDown, SignOut, SignIn
<1>2. TypeOK'
  <2>1. online' \in BOOLEAN /\ signedIn' \in BOOLEAN /\ outages' \in 0 .. MaxOutages
    <3>1. CASE NetDown
      <4>1. /\ online' = FALSE /\ signedIn' = signedIn
            /\ outages' = outages + 1 /\ outages < MaxOutages
        BY <3>1 DEF NetDown
      <4>2. outages \in 0 .. MaxOutages /\ online \in BOOLEAN /\ signedIn \in BOOLEAN
        BY DEF Inductive, TypeOK
      <4>3. outages' \in 0 .. MaxOutages
        BY <4>1, <4>2 DEF OutboxAssumption
      <4>4. QED
        BY <4>1, <4>2, <4>3
    <3>2. CASE SignOut
      <4>1. /\ online' = online /\ signedIn' = FALSE
            /\ outages' = outages + 1 /\ outages < MaxOutages
        BY <3>2 DEF SignOut
      <4>2. outages \in 0 .. MaxOutages /\ online \in BOOLEAN /\ signedIn \in BOOLEAN
        BY DEF Inductive, TypeOK
      <4>3. outages' \in 0 .. MaxOutages
        BY <4>1, <4>2 DEF OutboxAssumption
      <4>4. QED
        BY <4>1, <4>2, <4>3
    <3>3. CASE SignIn
      BY <3>3 DEF Inductive, TypeOK, SignIn
    <3>4. QED
      BY <3>1, <3>2, <3>3
  <2>2. QED
    BY <1>1, <2>1 DEF Inductive, TypeOK
<1>3. OnlyQueued' /\ FormSound' /\ FormsApart' /\ NewUnsent' /\ SavedIsFinal'
  BY <1>1 DEF Inductive, OnlyQueued, FormSound, FormsApart, NewUnsent, SavedIsFinal,
    Current, Busy
<1>4. QED
  BY <1>2, <1>3 DEF Inductive

\* Connectivity returns, and a sync starts unless one is running.
LEMMA NetUpStep ==
  ASSUME Inductive, NetUp
  PROVE  Inductive'
<1>1. /\ Flush \in Job /\ Flush \notin Form
      /\ \A k \in Job \ {Flush} : job'[k] = job[k]
      /\ job'[Flush].todo = job[Flush].todo /\ job'[Flush].copy = job[Flush].copy
      /\ job'[Flush].edit = job[Flush].edit
      /\ job'[Flush].stage \in {job[Flush].stage, "listing"}
      /\ job' \in [Job -> JobState]
  <2>1. CASE job' = job
    BY <2>1 DEF Inductive, TypeOK, Job
  <2>2. CASE job' = StartedFlush
    <3>1. job \in [Job -> JobState] /\ Flush \in Job /\ Flush \notin Form
      BY DEF Inductive, TypeOK, Job
    <3>2. QED
      BY <2>2, <3>1 DEF JobState, StartedFlush
  <2>3. QED
    BY <2>1, <2>2 DEF NetUp
<1>2. /\ UNCHANGED <<queue, told, booked, late, signedIn, losses, outages>>
      /\ online' \in BOOLEAN
  BY DEF NetUp
<1>3. TypeOK'
  <2>1. \A k \in Job :
          /\ IsInjective(job'[k].todo) /\ IsInjective(job'[k].copy)
          /\ job'[k].stage \notin {"idle", "listing"} => job'[k].todo # <<>>
    BY <1>1, JobFacts
  <2>2. QED
    BY <1>1, <1>2, <2>1 DEF Inductive, TypeOK
<1>4. \A f \in Form : f \in Job /\ job'[f] = job[f] /\ Current(f)' = Current(f)
  BY <1>1 DEF Current, Job
<1>5. OnlyQueued'
  BY <1>1, <1>2 DEF Inductive, OnlyQueued
<1>6. FormSound'
  BY <1>2, <1>4 DEF Inductive, FormSound
<1>7. FormsApart'
  BY <1>4 DEF Inductive, FormsApart, Busy
<1>8. NewUnsent' /\ SavedIsFinal'
  BY <1>1, <1>2 DEF Inductive, NewUnsent, SavedIsFinal
<1>9. QED
  BY <1>3, <1>5, <1>6, <1>7, <1>8 DEF Inductive
-----------------------------------------------------------------------------
(* The theorems. *)

\* A fresh installation satisfies the invariant.
LEMMA InitInductive == Init => Inductive
<1> SUFFICES ASSUME Init
             PROVE  Inductive
  OBVIOUS
<1>1. \A j \in Job : /\ job[j].stage = "idle" /\ job[j].edit = "none"
                     /\ job[j].todo = <<>> /\ job[j].copy = <<>>
  BY DEF Init, Idle
<1>2. Flush \in Job /\ Form \subseteq Job
  BY DEF Job
<1>3. TypeOK
  <2>1. job \in [Job -> JobState]
    BY ShortLists DEF Init, Idle, JobState
  <2>2. QED
    BY <1>1, <1>2, <2>1, ShortLists DEF Init, TypeOK
<1>4. OnlyQueued
  BY <1>1, <1>2, ShortLists DEF Init, OnlyQueued
<1>5. FormSound /\ FormsApart
  BY <1>1, <1>2 DEF FormSound, FormsApart, Busy
<1>6. NewUnsent /\ SavedIsFinal
  BY DEF Init, NewUnsent, SavedIsFinal
<1>7. QED
  BY <1>3, <1>4, <1>5, <1>6 DEF Inductive

\* Every step keeps it.
LEMMA NextInductive == Inductive /\ [Next]_vars => Inductive'
<1> SUFFICES ASSUME Inductive, [Next]_vars
             PROVE  Inductive'
  OBVIOUS
<1>1. ASSUME NEW f \in Form, NEW e \in Entry, BeginCreate(f, e)
      PROVE  Inductive'
  BY <1>1, BeginCreateStep
<1>2. CASE BeginFlush
  BY <1>2, BeginFlushStep
<1>3. ASSUME NEW j \in Job, JobStep(j)
      PROVE  Inductive'
  <2>1. CASE j \in Form /\ AskOnline(j)
    BY <2>1, AskOnlineStep
  <2>2. CASE ListQueue
    BY <2>2, ListQueueStep
  <2>3. CASE Book(j)
    BY <2>3, BookStep
  <2>4. CASE Answer(j)
    BY <2>4, AnswerStep
  <2>5. CASE Refuse(j)
    BY <2>5, RefuseStep
  <2>6. CASE ReadList(j)
    BY <2>6, ReadListStep
  <2>7. CASE WriteList(j)
    BY <2>7, WriteListStep
  <2>8. QED
    BY <1>3, <2>1, <2>2, <2>3, <2>4, <2>5, <2>6, <2>7 DEF JobStep
<1>4. ASSUME NEW j \in Job, Timeout(j) \/ StorageFails(j)
      PROVE  Inductive'
  BY <1>4, TimeoutStep, StorageFailsStep
<1>5. ASSUME NEW e \in Entry, BookLate(e)
      PROVE  Inductive'
  BY <1>5, BookLateStep
<1>6. CASE Kill
  BY <1>6, KillStep
<1>7. CASE NetDown \/ SignOut \/ SignIn
  BY <1>7, OutageStep
<1>8. CASE NetUp
  BY <1>8, NetUpStep
<1>9. CASE UNCHANGED vars
  BY <1>9 DEF vars, Inductive, TypeOK, OnlyQueued, FormSound, FormsApart, NewUnsent,
    SavedIsFinal, Current, Busy
<1>10. CASE ListFails
  BY <1>10, ListFailsStep
<1>11. QED
  BY <1>1, <1>2, <1>3, <1>4, <1>5, <1>6, <1>7, <1>8, <1>9, <1>10 DEF Next

\* However many forms and syncs overlap, and whatever is lost, killed or offline:
\* no stored list and no copy of it names an entry twice, only entries whose form
\* was told so are in one, and a form at work owns its entry.
THEOREM InductiveHolds == Spec => []Inductive
<1>1. QED
  BY InitInductive, NextInductive, PTL DEF Spec

\* An entry whose form was told "saved successfully" is on the server exactly
\* once, and nothing on the device can send it again.
THEOREM SavedForGood == Spec => []SavedIsFinal
<1>1. Inductive => SavedIsFinal
  BY DEF Inductive
<1>2. QED
  BY <1>1, InductiveHolds, PTL
-----------------------------------------------------------------------------
(* The queue, when jobs do not overlap (MaxBusy = 1): no read of the list is  *)
(* stale when it is written back, what the flush has left to send is what is *)
(* stored, and an entry is removed only once the server has it.              *)

Sending == {"posting", "answered", "reading", "writing"}
OneBusy == \A j, k \in Busy : j = k
CopyFresh == \A j \in Job : job[j].stage = "writing" => job[j].copy = queue
ListingFresh == job[Flush].stage \in Sending => job[Flush].todo = queue
RemovedIsBooked ==
  \/ job[Flush].stage = "answered"
  \/ job[Flush].stage \in {"reading", "writing"} /\ job[Flush].edit = "remove"
  => booked[Current(Flush)] > 0
Serial == OneBusy /\ CopyFresh /\ ListingFresh /\ RemovedIsBooked /\ NeverLost

Accepted == {e \in Entry : told[e] = "queued"}
Delivered == {e \in Entry : booked[e] > 0}
QueueStep == [Queue!Next]_<<queue, Accepted, Delivered>>

\* The entry at the front of a list is removed by taking its tail.
LEMMA WithoutHead ==
  ASSUME NEW s \in Seq(Entry), IsInjective(s), s # <<>>
  PROVE  Without(s, Head(s)) = Tail(s)
<1>1. /\ Len(s) \in Nat \ {0} /\ DOMAIN s = 1 .. Len(s) /\ Head(s) = s[1]
      /\ Head(s) \in ToSet(s) /\ \A i \in 1 .. Len(s) : s[i] \in Entry
  BY ListFacts, EmptySeq
<1>2. (CHOOSE i \in DOMAIN s : s[i] = Head(s)) = 1
  BY <1>1 DEF IsInjective
<1>3. Without(s, Head(s)) = SubSeq(s, 1, 1 - 1) \o SubSeq(s, 1 + 1, Len(s))
  BY <1>1, <1>2 DEF Without, RemoveAt
<1>4. SubSeq(s, 1, 1 - 1) = <<>> /\ SubSeq(s, 1 + 1, Len(s)) = Tail(s)
  BY <1>1, SubSeqEmpty, TailIsSubSeq
<1>5. Tail(s) \in Seq(Entry)
  BY HeadTailProperties
<1>6. QED
  BY <1>3, <1>4, <1>5, ConcatEmptySeq

\* While a job is at work no other is.
LEMMA Alone ==
  ASSUME Serial, NEW j \in Job, job[j].stage # "idle"
  PROVE  /\ \A k \in Job \ {j} : job[k].stage = "idle"
         /\ ~RoomForJob \/ MaxBusy # 1
<1>1. \A k \in Job \ {j} : job[k].stage = "idle"
  BY DEF Serial, OneBusy, Busy
<1>2. Busy = {j}
  BY <1>1 DEF Busy
<1>3. Cardinality(Busy) = 1
  BY <1>2, FS_Singleton
<1>4. QED
  BY <1>1, <1>3 DEF RoomForJob

\* What a step of job j must show for the rest to follow.
LEMMA SerialAlone ==
  ASSUME Serial, NEW j \in Job, \A k \in Job \ {j} : job[k].stage = "idle",
         \A k \in Job \ {j} : job'[k] = job[k],
         job'[j].stage = "writing" => job'[j].copy = queue',
         j = Flush => ListingFresh' /\ RemovedIsBooked',
         NeverLost'
  PROVE  Serial'
<1>1. Flush \in Job
  BY DEF Job
<1>2. OneBusy'
  BY DEF OneBusy, Busy
<1>3. CopyFresh'
  BY DEF CopyFresh
<1>4. ListingFresh' /\ RemovedIsBooked'
  BY <1>1 DEF ListingFresh, RemovedIsBooked, Sending
<1>5. QED
  BY <1>2, <1>3, <1>4 DEF Serial

\* A step that changes neither the list nor who is queued nor whom the server has.
LEMMA Stutters ==
  ASSUME NeverLost, queue' = queue,
         \A e \in Entry : told'[e] = "queued" <=> told[e] = "queued",
         \A e \in Entry : booked'[e] > 0 <=> booked[e] > 0
  PROVE  NeverLost' /\ QueueStep
<1>1. Accepted' = Accepted /\ Delivered' = Delivered
  BY DEF Accepted, Delivered
<1>2. QED
  BY <1>1 DEF NeverLost, QueueStep

\* A step that makes the server commit an entry.
LEMMA Delivers ==
  ASSUME Inductive, NeverLost, NEW e \in Entry, booked' = [booked EXCEPT ![e] = @ + 1],
         UNCHANGED <<queue, told>>
  PROVE  NeverLost' /\ QueueStep
<1>1. \A d \in Entry : booked'[d] > 0 <=> booked[d] > 0 \/ d = e
  BY DEF Inductive, TypeOK
<1>2. Accepted' = Accepted /\ Delivered' = Delivered \union {e}
  BY <1>1 DEF Accepted, Delivered
<1>3. NeverLost'
  BY <1>1 DEF NeverLost
<1>4. Queue!Deliver(e)
  BY <1>2 DEF Queue!Deliver, Accepted, Delivered
<1>5. QED
  BY <1>3, <1>4 DEF QueueStep, Queue!Next

\* An idle job starts.
LEMMA StartSerial ==
  ASSUME MaxBusy = 1, Inductive, Serial,
         (\E f \in Form, e \in Entry : BeginCreate(f, e)) \/ BeginFlush \/ NetUp
  PROVE  Serial' /\ QueueStep
<1>1. CASE NetUp /\ job' = job
  <2>1. UNCHANGED <<queue, job, told, booked>>
    BY <1>1 DEF NetUp
  <2>2. QED
    BY <2>1, Stutters DEF Serial, OneBusy, Busy, CopyFresh, ListingFresh, RemovedIsBooked,
      Current
<1>2. ASSUME RoomForJob, NEW j \in Job, \A k \in Job \ {j} : job'[k] = job[k],
             job'[j].stage \in {"asking", "listing"},
             UNCHANGED <<queue, booked>>,
             \A e \in Entry : told'[e] = "queued" <=> told[e] = "queued"
      PROVE  Serial' /\ QueueStep
  <2>1. \A k \in Job : job[k].stage = "idle"
    BY <1>2, Alone
  <2>2. NeverLost' /\ QueueStep
    BY <1>2, Stutters DEF Serial
  <2>3. j = Flush => ListingFresh' /\ RemovedIsBooked'
    BY <1>2 DEF ListingFresh, RemovedIsBooked, Sending
  <2>4. QED
    BY <1>2, <2>1, <2>2, <2>3, SerialAlone
<1>3. ASSUME NEW f \in Form, NEW e \in Entry, BeginCreate(f, e)
      PROVE  Serial' /\ QueueStep
  <2>1. /\ RoomForJob /\ f \in Job /\ \A k \in Job \ {f} : job'[k] = job[k]
        /\ job'[f].stage = "asking" /\ UNCHANGED <<queue, booked>>
    BY <1>3 DEF BeginCreate, Inductive, TypeOK, JobState, Job
  <2>2. \A d \in Entry : told'[d] = "queued" <=> told[d] = "queued"
    BY <1>3 DEF BeginCreate, Inductive, TypeOK
  <2>3. QED
    BY <1>2, <2>1, <2>2
<1>4. CASE RoomForJob /\ job' = StartedFlush /\ (BeginFlush \/ NetUp)
  <2>1. /\ Flush \in Job /\ \A k \in Job \ {Flush} : job'[k] = job[k]
        /\ job'[Flush].stage = "listing"
    BY <1>4 DEF StartedFlush, Inductive, TypeOK, JobState, Job
  <2>2. UNCHANGED <<queue, booked, told>>
    BY <1>4 DEF BeginFlush, NetUp
  <2>3. QED
    BY <1>2, <1>4, <2>1, <2>2
<1>5. QED
  BY <1>1, <1>3, <1>4 DEF BeginFlush, NetUp

\* A job at work, up to the answer to its POST, and when it reads the list.
LEMMA WorkSerial ==
  ASSUME MaxBusy = 1, Inductive, Serial, NEW j \in Job,
         \/ j \in Form /\ AskOnline(j)
         \/ j = Flush /\ ListQueue
         \/ Book(j) \/ Answer(j) \/ Refuse(j) \/ Timeout(j) \/ ReadList(j)
  PROVE  Serial' /\ QueueStep
<1>1. job \in [Job -> JobState] /\ Flush \in Job /\ Flush \notin Form /\ NeverLost
  BY DEF Inductive, TypeOK, Job, Serial
<1>2. job[j].stage # "idle" /\ \A k \in Job \ {j} : job'[k] = job[k]
  <2>1. CASE j \in Form /\ AskOnline(j)
    BY <1>1, <2>1 DEF AskOnline, ToEdit
  <2>2. CASE j = Flush /\ ListQueue
    BY <1>1, <2>2 DEF ListQueue
  <2>3. CASE Book(j) \/ ReadList(j) \/ Answer(j)
    BY <1>1, <2>3 DEF Book, ReadList, Answer, ToEdit
  <2>4. CASE Refuse(j) \/ Timeout(j)
    BY <1>1, <2>4 DEF Refuse, Timeout, AfterFailure, ToEdit
  <2>5. QED
    BY <2>1, <2>2, <2>3, <2>4
<1>3. \A k \in Job \ {j} : job[k].stage = "idle"
  BY <1>2, Alone
<1>4. NeverLost' /\ QueueStep
  <2>1. CASE Book(j)
    <3>1. Current(j) \in Entry
      BY <2>1, JobFacts DEF Book
    <3>2. QED
      BY <1>1, <2>1, <3>1, Delivers DEF Book
  <2>2. CASE Answer(j)
    <3>1. job[j].stage = "answered" /\ UNCHANGED <<queue, booked>> /\ Tell(j, "saved")
      BY <2>2 DEF Answer
    <3>2. \A e \in Entry : told'[e] = "queued" <=> told[e] = "queued"
      BY <3>1, FormFacts DEF Tell, Inductive, TypeOK
    <3>3. QED
      BY <1>1, <3>1, <3>2, Stutters
  <2>3. CASE ~Book(j) /\ ~Answer(j)
    <3>1. UNCHANGED <<queue, told, booked>>
      BY <2>3 DEF AskOnline, ListQueue, Refuse, Timeout, ReadList
    <3>2. QED
      BY <1>1, <3>1, Stutters
  <2>4. QED
    BY <2>1, <2>2, <2>3
<1>5. job'[j].stage = "writing" => job'[j].copy = queue'
  <2>1. CASE ReadList(j)
    BY <1>1, <2>1 DEF ReadList, JobState
  <2>2. CASE ~ReadList(j)
    <3>1. job'[j].stage # "writing"
      <4>1. CASE j \in Form /\ AskOnline(j)
        BY <1>1, <4>1 DEF AskOnline, ToEdit, JobState
      <4>2. CASE j = Flush /\ ListQueue
        BY <1>1, <4>2 DEF ListQueue, Idle, JobState
      <4>3. CASE Book(j)
        BY <1>1, <4>3 DEF Book, JobState
      <4>4. CASE Answer(j)
        BY <1>1, <4>4 DEF Answer, ToEdit, Idle, JobState
      <4>5. CASE Refuse(j) \/ Timeout(j)
        BY <1>1, <4>5 DEF Refuse, Timeout, AfterFailure, ToEdit, JobState
      <4>6. QED
        BY <2>2, <4>1, <4>2, <4>3, <4>4, <4>5
    <3>2. QED
      BY <3>1
  <2>3. QED
    BY <2>1, <2>2
<1>6. ASSUME j = Flush
      PROVE  ListingFresh' /\ RemovedIsBooked'
  <2>1. ListingFresh /\ RemovedIsBooked
    BY DEF Serial
  <2>2. CASE ListQueue
    <3>1. queue' = queue /\ job[Flush].stage = "listing"
      BY <2>2 DEF ListQueue
    <3>2. \/ job'[Flush].stage = "idle"
          \/ job'[Flush].stage = "posting" /\ job'[Flush].todo = queue
      BY <1>1, <2>2 DEF ListQueue, Idle, JobState
    <3>3. QED
      BY <3>1, <3>2 DEF ListingFresh, RemovedIsBooked, Sending
  <2>3. ASSUME job[Flush].stage \in Sending, queue' = queue, job'[Flush].todo = job[Flush].todo,
               \/ job'[Flush].stage = "answered" /\ booked'[Current(Flush)] > 0
               \/ job'[Flush].stage \in {"reading", "writing"} /\ job'[Flush].edit # "remove"
               \/ /\ job'[Flush].stage \in {"reading", "writing"}
                  /\ booked[Current(Flush)] > 0 /\ booked' = booked
               \/ /\ job[Flush].stage = "reading" /\ job'[Flush].stage = "writing"
                  /\ job'[Flush].edit = job[Flush].edit /\ booked' = booked
        PROVE  ListingFresh' /\ RemovedIsBooked'
    <3>1. Current(Flush)' = Current(Flush)
      BY <2>3 DEF Current
    <3>2. ListingFresh'
      BY <2>1, <2>3 DEF ListingFresh
    <3>3. RemovedIsBooked'
      BY <2>1, <2>3, <3>1 DEF RemovedIsBooked
    <3>4. QED
      BY <3>2, <3>3
  <2>4. CASE Book(Flush)
    <3>1. /\ job[Flush].stage = "posting" /\ job'[Flush].stage = "answered" /\ queue' = queue
          /\ job'[Flush].todo = job[Flush].todo
      BY <1>1, <2>4 DEF Book, JobState
    <3>2. booked'[Current(Flush)] > 0
      <4>1. Current(Flush) \in Entry /\ booked \in [Entry -> Nat]
        BY <1>1, <3>1, JobFacts DEF Inductive, TypeOK
      <4>2. booked' = [booked EXCEPT ![Current(Flush)] = @ + 1]
        BY <2>4 DEF Book
      <4>3. QED
        BY <4>1, <4>2
    <3>3. QED
      BY <2>3, <3>1, <3>2 DEF Sending
  <2>5. CASE Answer(Flush)
    <3>1. /\ job[Flush].stage = "answered" /\ job'[Flush].stage = "reading"
          /\ job'[Flush].todo = job[Flush].todo
      BY <1>1, <2>5 DEF Answer, ToEdit, JobState
    <3>2. queue' = queue /\ booked' = booked
      BY <2>5 DEF Answer
    <3>3. QED
      BY <2>1, <2>3, <3>1, <3>2 DEF Sending, RemovedIsBooked
  <2>6. CASE Refuse(Flush) \/ Timeout(Flush)
    <3>1. /\ job[Flush].stage \in {"posting", "answered"}
          /\ job' = [job EXCEPT ![Flush].stage = "reading", ![Flush].edit = "markFailure"]
      BY <1>1, <2>6 DEF Refuse, Timeout, AfterFailure, ToEdit
    <3>2. /\ job'[Flush].stage = "reading" /\ job'[Flush].edit = "markFailure"
          /\ job'[Flush].todo = job[Flush].todo
      BY <1>1, <3>1 DEF JobState
    <3>3. queue' = queue
      BY <2>6 DEF Refuse, Timeout
    <3>4. QED
      BY <2>3, <3>1, <3>2, <3>3 DEF Sending
  <2>7. CASE ReadList(Flush)
    <3>1. /\ job[Flush].stage = "reading" /\ job'[Flush].stage = "writing"
          /\ job'[Flush].todo = job[Flush].todo /\ job'[Flush].edit = job[Flush].edit
      BY <1>1, <2>7 DEF ReadList, JobState
    <3>2. queue' = queue /\ booked' = booked
      BY <2>7 DEF ReadList
    <3>3. QED
      BY <2>3, <3>1, <3>2 DEF Sending
  <2>8. QED
    BY <1>1, <1>6, <2>2, <2>4, <2>5, <2>6, <2>7
<1>7. QED
  BY <1>2, <1>3, <1>4, <1>5, <1>6, SerialAlone

\* A form's entry joins the queue; the flush removes the first, or none.
LEMMA WriteSerial ==
  ASSUME MaxBusy = 1, Inductive, Serial, NEW j \in Job, WriteList(j)
  PROVE  Serial' /\ QueueStep
<1>1. /\ job[j].stage = "writing" /\ queue' = Edited(j) /\ job' = AfterWrite(j)
      /\ booked' = booked
      /\ told' = IF j \in Form THEN [told EXCEPT ![Current(j)] = "queued"] ELSE told
  BY DEF WriteList, Tell
<1>2. /\ job \in [Job -> JobState] /\ Flush \in Job /\ Flush \notin Form /\ NeverLost
      /\ queue \in Seq(Entry) /\ IsInjective(queue)
  BY DEF Inductive, TypeOK, Job, Serial
<1>3. \A k \in Job \ {j} : job[k].stage = "idle"
  BY <1>1, Alone
<1>4. job[j].copy = queue /\ Current(j) \in Entry
  BY <1>1, JobFacts DEF Serial, CopyFresh
<1>5. CASE j \in Form
  <2>1. job[j].edit = "enqueue"
    BY <1>1, <1>5 DEF Inductive, FormSound
  <2>2. queue' = Append(queue, Current(j)) /\ job' = [job EXCEPT ![j] = Idle]
    BY <1>1, <1>4, <2>1 DEF Edited, AfterWrite
  <2>3. Current(j) \notin ToSet(queue) /\ told[Current(j)] = "waiting"
    BY <1>1, <1>5, OwnEntry, FormFacts
  <2>4. ToSet(queue') = ToSet(queue) \union {Current(j)}
    BY <1>2, <1>4, <2>2, <2>3, AppendFacts
  <2>5. \A e \in Entry : told'[e] = "queued" <=> told[e] = "queued" \/ e = Current(j)
    BY <1>1, <1>4, <1>5 DEF Inductive, TypeOK
  <2>6. NeverLost'
    BY <1>1, <1>2, <2>4, <2>5 DEF NeverLost
  <2>7. QueueStep
    <3>1. /\ Accepted' = Accepted \union {Current(j)} /\ Delivered' = Delivered
          /\ Current(j) \notin Accepted
      BY <1>1, <1>4, <2>3, <2>5 DEF Accepted, Delivered
    <3>2. PICK e \in Entry : e = Current(j)
      BY <1>4
    <3>3. Queue!Accept(e)
      BY <2>2, <3>1, <3>2 DEF Queue!Accept, Accepted, Delivered
    <3>4. QED
      BY <3>3 DEF QueueStep, Queue!Next
  <2>8. job'[j].stage = "idle" /\ \A k \in Job \ {j} : job'[k] = job[k]
    BY <1>2, <2>2 DEF Idle
  <2>9. QED
    BY <1>2, <1>3, <1>5, <2>6, <2>7, <2>8, SerialAlone
<1>6. CASE j = Flush
  <2>1. told' = told /\ job[j].edit # "enqueue"
    BY <1>1, <1>2, <1>6 DEF Inductive, TypeOK
  <2>2. job[j].todo = queue /\ queue # <<>> /\ Current(j) = Head(queue)
    BY <1>1, <1>6, JobFacts DEF Serial, ListingFresh, Sending, Current
  <2>3. \A k \in Job \ {j} : job'[k] = job[k]
    BY <1>1, <1>2 DEF AfterWrite
  <2>4. CASE job[j].edit = "remove"
    <3>1. queue' = Tail(queue)
      BY <1>1, <1>2, <1>4, <2>2, <2>4, WithoutHead DEF Edited
    <3>2. booked[Head(queue)] > 0
      BY <1>1, <1>6, <2>2, <2>4 DEF Serial, RemovedIsBooked
    <3>3. ToSet(queue') = ToSet(queue) \ {Head(queue)}
      BY <1>2, <1>4, <2>2, <3>1, WithoutHead, WithoutFacts
    <3>4. NeverLost'
      BY <1>1, <1>2, <2>1, <3>2, <3>3 DEF NeverLost
    <3>5. QueueStep
      <4>1. Accepted' = Accepted /\ Delivered' = Delivered
        BY <1>1, <2>1 DEF Accepted, Delivered
      <4>2. Head(queue) \in Delivered
        BY <1>4, <2>2, <3>2 DEF Delivered
      <4>3. Queue!Retire
        BY <2>2, <3>1, <4>1, <4>2 DEF Queue!Retire, Accepted, Delivered
      <4>4. QED
        BY <4>3 DEF QueueStep, Queue!Next
    <3>6. \/ job'[j].stage = "idle"
          \/ job'[j].stage = "posting" /\ job'[j].todo = Tail(job[j].todo)
      <4>1. CASE Len(job[j].todo) > 1
        <5> DEFINE next == [Idle EXCEPT !.stage = "posting", !.todo = Tail(job[j].todo)]
        <5>1. next.stage = "posting" /\ next.todo = Tail(job[j].todo)
          BY DEF Idle
        <5>2. job' = [job EXCEPT ![j] = next]
          BY <1>1, <2>4, <4>1 DEF AfterWrite
        <5> HIDE DEF next
        <5>3. QED
          BY <1>2, <5>1, <5>2
      <4>2. CASE ~(Len(job[j].todo) > 1)
        <5>1. job' = [job EXCEPT ![j] = Idle]
          BY <1>1, <4>2 DEF AfterWrite
        <5>2. QED
          BY <1>2, <5>1 DEF Idle
      <4>3. QED
        BY <4>1, <4>2
    <3>7. ListingFresh' /\ RemovedIsBooked'
      BY <1>6, <2>2, <3>1, <3>6 DEF ListingFresh, RemovedIsBooked, Sending
    <3>8. QED
      BY <1>3, <2>3, <3>4, <3>5, <3>6, <3>7, SerialAlone
  <2>5. CASE job[j].edit # "remove"
    <3>1. queue' = queue /\ job' = [job EXCEPT ![j] = Idle]
      BY <1>1, <1>4, <2>1, <2>5 DEF Edited, AfterWrite
    <3>2. job'[j].stage = "idle"
      BY <1>2, <3>1 DEF Idle
    <3>3. NeverLost' /\ QueueStep
      BY <1>1, <1>2, <2>1, <3>1, Stutters
    <3>4. ListingFresh' /\ RemovedIsBooked'
      BY <1>6, <3>2 DEF ListingFresh, RemovedIsBooked, Sending
    <3>5. QED
      BY <1>3, <2>3, <3>2, <3>3, <3>4, SerialAlone
  <2>6. QED
    BY <2>4, <2>5
<1>7. QED
  BY <1>5, <1>6 DEF Job

\* A read or a write is rejected: nothing that was stored changes.
LEMMA FailSerial ==
  ASSUME MaxBusy = 1, Inductive, Serial, NEW j \in Job, StorageFails(j)
  PROVE  Serial' /\ QueueStep
<1>1. /\ job[j].stage \in {"reading", "writing"} /\ UNCHANGED <<queue, booked>>
      /\ told' = IF j \in Form THEN [told EXCEPT ![Current(j)] = "failed"] ELSE told
      /\ IF job[j].edit = "remove" THEN ToEdit(j, "markFailure")
                                   ELSE job' = [job EXCEPT ![j] = Idle]
  BY DEF StorageFails, Tell
<1>2. job \in [Job -> JobState] /\ NeverLost /\ told \in [Entry ->
        {"new", "waiting", "saved", "queued", "failed", "unknown"}]
  BY DEF Inductive, TypeOK, Serial
<1>3. \A k \in Job \ {j} : job[k].stage = "idle" /\ job'[k] = job[k]
  BY <1>1, <1>2, Alone DEF ToEdit
<1>4. /\ job'[j].stage \in {"idle", "reading"} /\ job'[j].edit # "remove"
      /\ job'[j].stage = "reading" => job'[j].todo = job[j].todo
  BY <1>1, <1>2 DEF ToEdit, Idle, JobState
<1>5. NeverLost' /\ QueueStep
  <2>1. \A e \in Entry : told'[e] = "queued" <=> told[e] = "queued"
    BY <1>1, <1>2, FormFacts
  <2>2. QED
    BY <1>1, <1>2, <2>1, Stutters
<1>6. j = Flush => ListingFresh' /\ RemovedIsBooked'
  BY <1>1, <1>4 DEF Serial, ListingFresh, RemovedIsBooked, Sending
<1>7. QED
  BY <1>3, <1>4, <1>5, <1>6, SerialAlone

LEMMA ListFailsSerial ==
  ASSUME MaxBusy = 1, Inductive, Serial, ListFails
  PROVE  Serial' /\ QueueStep
<1>1. /\ job[Flush].stage = "listing" /\ job' = [job EXCEPT ![Flush] = Idle]
      /\ UNCHANGED <<queue, told, booked>>
  BY DEF ListFails
<1>2. job \in [Job -> JobState] /\ NeverLost /\ Flush \in Job
  BY DEF Inductive, TypeOK, Serial, Job
<1>3. \A k \in Job \ {Flush} : job[k].stage = "idle" /\ job'[k] = job[k]
  BY <1>1, <1>2, Alone
<1>4. job'[Flush].stage = "idle"
  BY <1>1, <1>2 DEF Idle
<1>5. NeverLost' /\ QueueStep
  BY <1>1, <1>2, Stutters
<1>6. ListingFresh' /\ RemovedIsBooked'
  BY <1>4 DEF ListingFresh, RemovedIsBooked, Sending
<1>7. QED
  BY <1>2, <1>3, <1>4, <1>5, <1>6, SerialAlone

\* The device, and the server committing an abandoned POST.
LEMMA AroundSerial ==
  ASSUME MaxBusy = 1, Inductive, Serial,
         \/ \E e \in Entry : BookLate(e)
         \/ Kill \/ NetDown \/ SignOut \/ SignIn \/ UNCHANGED vars
  PROVE  Serial' /\ QueueStep
<1>1. NeverLost
  BY DEF Serial
<1>2. ASSUME NEW e \in Entry, BookLate(e)
      PROVE  Serial' /\ QueueStep
  <2>1. /\ UNCHANGED <<queue, job, told>> /\ booked' = [booked EXCEPT ![e] = @ + 1]
    BY <1>2 DEF BookLate
  <2>2. NeverLost' /\ QueueStep
    BY <1>1, <2>1, Delivers
  <2>3. \A d \in Entry : booked[d] > 0 => booked'[d] > 0
    BY <2>1 DEF Inductive, TypeOK
  <2>4. OneBusy' /\ CopyFresh' /\ ListingFresh'
    BY <2>1 DEF Serial, OneBusy, Busy, CopyFresh, ListingFresh
  <2>5. RemovedIsBooked'
    <3>1. Flush \in Job
      BY DEF Job
    <3>2. QED
      BY <2>1, <2>3, <3>1, JobFacts DEF Serial, RemovedIsBooked, Current
  <2>6. QED
    BY <2>2, <2>4, <2>5 DEF Serial
<1>3. CASE Kill
  <2>1. \A k \in Job : job'[k].stage = "idle"
    BY <1>3 DEF Kill, Idle
  <2>2. \A e \in Entry : told'[e] = "queued" <=> told[e] = "queued"
    BY <1>3 DEF Kill
  <2>3. NeverLost' /\ QueueStep
    BY <1>1, <1>3, <2>2, Stutters DEF Kill
  <2>4. Flush \in Job
    BY DEF Job
  <2>5. QED
    BY <2>1, <2>3, <2>4 DEF Serial, OneBusy, Busy, CopyFresh, ListingFresh, RemovedIsBooked,
      Sending
<1>4. CASE NetDown \/ SignOut \/ SignIn \/ UNCHANGED vars
  <2>1. UNCHANGED <<queue, job, told, booked>>
    BY <1>4 DEF NetDown, SignOut, SignIn, vars
  <2>2. QED
    BY <1>1, <2>1, Stutters DEF Serial, OneBusy, Busy, CopyFresh, ListingFresh,
      RemovedIsBooked, Current
<1>5. QED
  BY <1>2, <1>3, <1>4

LEMMA SerialInit == Init => Serial
<1> SUFFICES ASSUME Init
             PROVE  Serial
  OBVIOUS
<1>1. Flush \in Job /\ \A j \in Job : job[j].stage = "idle"
  BY DEF Init, Idle, Job
<1>2. QED
  BY <1>1 DEF Init, Serial, OneBusy, Busy, CopyFresh, ListingFresh, RemovedIsBooked,
    Sending, NeverLost

LEMMA SerialNext ==
  ASSUME MaxBusy = 1
  PROVE  Inductive /\ Serial /\ [Next]_vars => Serial' /\ QueueStep
<1> SUFFICES ASSUME Inductive, Serial, [Next]_vars
             PROVE  Serial' /\ QueueStep
  OBVIOUS
<1>1. CASE (\E f \in Form, e \in Entry : BeginCreate(f, e)) \/ BeginFlush \/ NetUp
  BY <1>1, StartSerial
<1>2. ASSUME NEW j \in Job, JobStep(j) \/ Timeout(j) \/ StorageFails(j)
      PROVE  Serial' /\ QueueStep
  BY <1>2, WorkSerial, WriteSerial, FailSerial DEF JobStep
<1>3. CASE \/ \E e \in Entry : BookLate(e)
           \/ Kill \/ NetDown \/ SignOut \/ SignIn \/ UNCHANGED vars
  BY <1>3, AroundSerial
<1>4. CASE ListFails
  BY <1>4, ListFailsSerial
<1>5. QED
  BY <1>1, <1>2, <1>3, <1>4 DEF Next

\* When no two jobs overlap, an entry that a form was told is queued is in the
\* stored list or on the server, whatever read or write fails and whenever the app dies.
THEOREM SerialNeverLost ==
  ASSUME MaxBusy = 1
  PROVE  Spec => []NeverLost
<1>1. Init => Serial
  BY SerialInit
<1>2. Inductive /\ Serial /\ [Next]_vars => Serial'
  BY SerialNext
<1>3. Serial => NeverLost
  BY DEF Serial
<1>4. QED
  BY <1>1, <1>2, <1>3, InductiveHolds, PTL DEF Spec

\* When no two jobs overlap, the read-await-write of one stored list implements
\* the durable FIFO queue that the outbox promises: every step joins an entry at
\* the back, removes the first once the server has it, or changes nothing of it.
THEOREM SerialIsQueue ==
  ASSUME MaxBusy = 1
  PROVE  Spec => ImplementsQueue
<1>1. Init => Serial
  BY SerialInit
<1>2. Inductive /\ Serial /\ [Next]_vars => Serial' /\ QueueStep
  BY SerialNext
<1>3. Init => Queue!Init
  BY DEF Init, Queue!Init
<1>4. QueueStep => [Queue!Next]_<<queue, {e \in Entry : told[e] = "queued"},
                                   {e \in Entry : booked[e] > 0}>>
  BY DEF QueueStep, Accepted, Delivered
<1>5. QED
  BY <1>1, <1>2, <1>3, <1>4, InductiveHolds, PTL DEF Spec, ImplementsQueue, Queue!Spec
-----------------------------------------------------------------------------
(* No entry becomes two transactions, when jobs do not overlap and nothing is *)
(* lost: what the flush has still to send was not sent, because the removal   *)
(* of what was sent is written back before the next listing.                  *)

\* The flush's first entry is on its way out of the list: the server has it.
Removing ==
  \/ job[Flush].stage = "answered"
  \/ job[Flush].stage \in {"reading", "writing"} /\ job[Flush].edit = "remove"
\* Until something is lost, what is stored or about to be has not been sent, but for the
\* entry on its way out.
Unsent ==
  losses = 0 =>
    /\ late = {}
    /\ \A e \in ToSet(queue) : booked[e] = 0 \/ (Removing /\ e = Current(Flush))
    /\ \A f \in Form : job[f].stage \in {"reading", "writing"} => booked[Current(f)] = 0
    /\ \A e \in Entry : booked[e] <= 1

\* What such a step starts from.
LEMMA OnceFacts ==
  ASSUME Inductive, losses' = 0, [Next]_vars
  PROVE  /\ losses = 0 /\ job \in [Job -> JobState] /\ booked \in [Entry -> Nat]
         /\ Flush \in Job /\ Flush \notin Form /\ Form \subseteq Job
         /\ \A j \in Job : ~Timeout(j) /\ ~StorageFails(j)
         /\ ~ListFails /\ ~Kill
<1>1. /\ losses \in Nat /\ job \in [Job -> JobState] /\ booked \in [Entry -> Nat]
  BY DEF Inductive, TypeOK
<1>2. \A j \in Job : ~Timeout(j) /\ ~StorageFails(j)
  BY <1>1 DEF Timeout, StorageFails
<1>3. ~ListFails /\ ~Kill
  BY <1>1 DEF ListFails, Kill
<1>4. losses' = losses
  <2>1. CASE UNCHANGED vars
    BY <2>1 DEF vars
  <2>2. CASE Next
    BY <1>2, <1>3, <2>2 DEF Next, BeginCreate, BeginFlush, JobStep, AskOnline, ListQueue,
       Book, Answer, Refuse, ReadList, WriteList, BookLate, NetDown, NetUp, SignOut, SignIn
  <2>3. QED
    BY <2>1, <2>2
<1>5. QED
  BY <1>1, <1>2, <1>3, <1>4 DEF Job

\* A step that sends nothing and changes no list.
LEMMA OnceKept ==
  ASSUME Unsent, losses = 0, UNCHANGED <<queue, booked, late>>,
         Flush \in Job, Form \subseteq Job,
         NEW j \in Job, \A k \in Job \ {j} : job'[k] = job[k],
         j = Flush /\ Removing => Removing' /\ Current(Flush)' = Current(Flush),
         j \in Form /\ job'[j].stage \in {"reading", "writing"} => booked[Current(j)'] = 0
  PROVE  Unsent'
<1>1. Removing => Removing' /\ Current(Flush)' = Current(Flush)
  BY DEF Removing, Current
<1>2. \A f \in Form : job'[f].stage \in {"reading", "writing"} => booked[Current(f)'] = 0
  <2> SUFFICES ASSUME NEW f \in Form, job'[f].stage \in {"reading", "writing"}
               PROVE  booked[Current(f)'] = 0
    OBVIOUS
  <2>1. CASE f = j
    BY <2>1
  <2>2. CASE f # j
    <3>1. job'[f] = job[f]
      BY <2>2
    <3>2. QED
      BY <3>1 DEF Unsent, Current
  <2>3. QED
    BY <2>1, <2>2
<1>3. QED
  BY <1>1, <1>2 DEF Unsent, Current

\* The steps that send nothing and change no list.
LEMMA OnceQuiet ==
  ASSUME Inductive, Unsent, losses' = 0, [Next]_vars,
         \/ \E f \in Form, e \in Entry : BeginCreate(f, e)
         \/ BeginFlush \/ NetUp \/ NetDown \/ SignOut \/ SignIn \/ UNCHANGED vars
         \/ \E j \in Job : \/ j \in Form /\ AskOnline(j)
                           \/ j = Flush /\ ListQueue
                           \/ Answer(j) \/ Refuse(j) \/ ReadList(j)
  PROVE  Unsent'
<1>1. /\ losses = 0 /\ job \in [Job -> JobState] /\ booked \in [Entry -> Nat]
      /\ Flush \in Job /\ Flush \notin Form /\ Form \subseteq Job
  BY OnceFacts
<1>2. ASSUME UNCHANGED <<queue, job, booked, late>>
      PROVE  Unsent'
  BY <1>1, <1>2 DEF Unsent, Removing, Current
<1>3. ASSUME NEW f \in Form, NEW e \in Entry, BeginCreate(f, e)
      PROVE  Unsent'
  <2>1. /\ \A k \in Job \ {f} : job'[k] = job[k]
        /\ job'[f].stage = "asking" /\ UNCHANGED <<queue, booked, late>>
    BY <1>1, <1>3 DEF BeginCreate, JobState
  <2>2. QED
    BY <1>1, <2>1, OnceKept
<1>4. CASE BeginFlush \/ NetUp
  <2>1. CASE job' = job
    BY <1>2, <1>4, <2>1 DEF BeginFlush, NetUp
  <2>2. CASE job[Flush].stage = "idle" /\ job' = StartedFlush
    <3>1. /\ \A k \in Job \ {Flush} : job'[k] = job[k]
          /\ ~Removing
      BY <1>1, <2>2 DEF StartedFlush, Removing
    <3>2. UNCHANGED <<queue, booked, late>>
      BY <1>4 DEF BeginFlush, NetUp
    <3>3. QED
      BY <1>1, <3>1, <3>2, OnceKept
  <2>3. QED
    BY <1>4, <2>1, <2>2 DEF BeginFlush, NetUp
<1>5. CASE NetDown \/ SignOut \/ SignIn \/ UNCHANGED vars
  BY <1>2, <1>5 DEF NetDown, SignOut, SignIn, vars
<1>6. ASSUME NEW f \in Form, AskOnline(f)
      PROVE  Unsent'
  <2>1. /\ job[f].stage = "asking" /\ \A k \in Job \ {f} : job'[k] = job[k]
        /\ job'[f].todo = job[f].todo /\ UNCHANGED <<queue, booked, late>>
    <3>1. job[f].stage = "asking" /\ UNCHANGED <<queue, booked, late>> /\ f \in Job
      BY <1>1, <1>6 DEF AskOnline
    <3>2. CASE online
      BY <1>1, <1>6, <3>1, <3>2 DEF AskOnline, JobState
    <3>3. CASE ~online
      BY <1>1, <1>6, <3>1, <3>3 DEF AskOnline, ToEdit, JobState
    <3>4. QED
      BY <3>1, <3>2, <3>3
  <2>2. booked[Current(f)] = 0 /\ Current(f)' = Current(f)
    BY <2>1 DEF Inductive, FormSound, Current
  <2>3. QED
    BY <1>1, <2>1, <2>2, OnceKept
<1>7. CASE ListQueue
  <2>1. /\ job[Flush].stage = "listing" /\ \A k \in Job \ {Flush} : job'[k] = job[k]
        /\ UNCHANGED <<queue, booked, late>>
    BY <1>1, <1>7 DEF ListQueue
  <2>2. QED
    BY <1>1, <2>1, OnceKept DEF Removing
<1>8. ASSUME NEW j \in Job, Answer(j)
      PROVE  Unsent'
  <2>1. /\ job[j].stage = "answered" /\ \A k \in Job \ {j} : job'[k] = job[k]
        /\ UNCHANGED <<queue, booked, late>>
        /\ j \in Form => job'[j].stage = "idle"
    BY <1>1, <1>8 DEF Answer, ToEdit, Idle
  <2>2. j = Flush => Removing' /\ Current(Flush)' = Current(Flush)
    BY <1>1, <1>8 DEF Answer, ToEdit, JobState, Removing, Current
  <2>3. QED
    BY <1>1, <2>1, <2>2, OnceKept
<1>9. ASSUME NEW j \in Job, Refuse(j)
      PROVE  Unsent'
  <2>1. /\ job[j].stage = "posting" /\ \A k \in Job \ {j} : job'[k] = job[k]
        /\ job'[j].todo = job[j].todo /\ UNCHANGED <<queue, booked, late>>
    BY <1>1, <1>9 DEF Refuse, AfterFailure, ToEdit, JobState
  <2>2. j \in Form => booked[Current(j)] = 0 /\ Current(j)' = Current(j)
    BY <2>1 DEF Inductive, FormSound, Current
  <2>3. QED
    BY <1>1, <2>1, <2>2, OnceKept DEF Removing
<1>10. ASSUME NEW j \in Job, ReadList(j)
       PROVE  Unsent'
  <2>1. /\ job[j].stage = "reading" /\ \A k \in Job \ {j} : job'[k] = job[k]
        /\ job'[j].todo = job[j].todo /\ job'[j].edit = job[j].edit
        /\ job'[j].stage = "writing" /\ UNCHANGED <<queue, booked, late>>
    BY <1>1, <1>10 DEF ReadList, JobState
  <2>2. Current(j)' = Current(j)
    BY <2>1 DEF Current
  <2>3. j \in Form => booked[Current(j)] = 0
    BY <1>1, <2>1 DEF Unsent
  <2>4. QED
    BY <1>1, <2>1, <2>2, <2>3, OnceKept DEF Removing
<1>11. QED
  BY <1>3, <1>4, <1>5, <1>6, <1>7, <1>8, <1>9, <1>10

\* An entry is sent that the server does not have.
LEMMA OnceBooks ==
  ASSUME MaxBusy = 1, Inductive, Serial, Unsent, losses' = 0, [Next]_vars,
         NEW j \in Job, Book(j)
  PROVE  Unsent'
<1>1. /\ losses = 0 /\ job \in [Job -> JobState] /\ booked \in [Entry -> Nat]
      /\ Flush \in Job /\ Flush \notin Form /\ Form \subseteq Job
  BY OnceFacts
<1>2. /\ job[j].stage = "posting" /\ Current(j) \in Entry
      /\ booked' = [booked EXCEPT ![Current(j)] = @ + 1]
      /\ job' = [job EXCEPT ![j].stage = "answered"]
      /\ queue' = queue /\ late' = late
  BY JobFacts DEF Book
<1>3. /\ \A k \in Job \ {j} : job[k].stage = "idle" /\ job'[k] = job[k]
      /\ job'[j].stage = "answered" /\ job'[j].todo = job[j].todo
  BY <1>1, <1>2, Alone DEF JobState
<1>4. j = Flush => ~Removing
  BY <1>2 DEF Removing
<1>5. booked[Current(j)] = 0
  <2>1. CASE j \in Form
    BY <1>2, <2>1 DEF Inductive, FormSound
  <2>2. CASE j = Flush
    <3>1. Current(j) \in ToSet(queue)
      BY <1>2, <2>2, JobFacts DEF Serial, ListingFresh, Sending
    <3>2. QED
      BY <1>1, <1>4, <2>2, <3>1 DEF Unsent
  <2>3. QED
    BY <2>1, <2>2 DEF Job
<1>6. \A e \in Entry : booked'[e] = IF e = Current(j) THEN 1 ELSE booked[e]
  BY <1>1, <1>2, <1>5
<1>7. \A e \in Entry : booked'[e] <= 1
  BY <1>1, <1>6 DEF Unsent
<1>8. \A f \in Form : job'[f].stage \notin {"reading", "writing"}
  BY <1>1, <1>3
<1>9. ASSUME NEW e \in ToSet(queue)
      PROVE  booked'[e] = 0 \/ (Removing' /\ e = Current(Flush)')
  <2>1. e \in Entry
    BY ListFacts DEF Inductive, TypeOK
  <2>2. CASE j \in Form
    <3>1. e # Current(j) /\ ~Removing
      BY <1>1, <1>2, <1>3, <2>2, OwnEntry DEF Removing
    <3>2. QED
      BY <1>1, <1>6, <2>1, <3>1 DEF Unsent
  <2>3. CASE j = Flush
    <3>1. Removing' /\ Current(Flush)' = Current(Flush)
      BY <1>3, <2>3 DEF Removing, Current
    <3>2. QED
      BY <1>1, <1>4, <1>6, <2>1, <2>3, <3>1 DEF Unsent
  <2>4. QED
    BY <2>2, <2>3 DEF Job
<1>10. QED
  BY <1>1, <1>2, <1>7, <1>8, <1>9 DEF Unsent

\* What joins the list was not sent; what was sent leaves it.
LEMMA OnceWrites ==
  ASSUME MaxBusy = 1, Inductive, Serial, Unsent, losses' = 0, [Next]_vars,
         NEW j \in Job, WriteList(j)
  PROVE  Unsent'
<1>1. /\ losses = 0 /\ job \in [Job -> JobState] /\ booked \in [Entry -> Nat]
      /\ Flush \in Job /\ Flush \notin Form /\ Form \subseteq Job
      /\ queue \in Seq(Entry) /\ IsInjective(queue)
  BY OnceFacts DEF Inductive, TypeOK
<1>2. /\ job[j].stage = "writing" /\ queue' = Edited(j) /\ job' = AfterWrite(j)
      /\ booked' = booked /\ late' = late
  BY DEF WriteList
<1>3. \A k \in Job \ {j} : job[k].stage = "idle" /\ job'[k] = job[k]
  BY <1>1, <1>2, Alone DEF AfterWrite
<1>4. job[j].copy = queue /\ Current(j) \in Entry
  BY <1>2, JobFacts DEF Serial, CopyFresh
<1>5. ASSUME NEW e \in ToSet(queue')
      PROVE  booked[e] = 0
  <2>1. CASE j \in Form
    <3>1. job[j].edit = "enqueue"
      BY <1>2, <2>1 DEF Inductive, FormSound
    <3>2. queue' = Append(queue, Current(j))
      BY <1>2, <1>4, <3>1 DEF Edited
    <3>3. Current(j) \notin ToSet(queue)
      BY <1>2, <2>1, OwnEntry
    <3>4. e \in ToSet(queue) \/ e = Current(j)
      BY <1>1, <1>4, <3>2, <3>3, <1>5, AppendFacts
    <3>5. ~Removing
      BY <1>1, <1>3, <2>1 DEF Removing
    <3>6. QED
      BY <1>1, <1>2, <2>1, <3>4, <3>5 DEF Unsent
  <2>2. CASE j = Flush /\ job[j].edit = "remove"
    <3>1. ToSet(queue') = ToSet(queue) \ {Current(Flush)}
      BY <1>1, <1>2, <1>4, <2>2, WithoutFacts DEF Edited
    <3>2. QED
      BY <1>1, <1>5, <3>1 DEF Unsent
  <2>3. CASE j = Flush /\ job[j].edit # "remove"
    <3>1. job[j].edit # "enqueue"
      BY <2>3 DEF Inductive, TypeOK
    <3>2. queue' = queue /\ ~Removing
      BY <1>2, <1>4, <2>3, <3>1 DEF Edited, Removing
    <3>3. QED
      BY <1>1, <1>5, <3>2 DEF Unsent
  <2>4. QED
    BY <2>1, <2>2, <2>3 DEF Job
<1>6. \A f \in Form : job'[f].stage \notin {"reading", "writing"}
  <2> SUFFICES ASSUME NEW f \in Form
               PROVE  job'[f].stage \notin {"reading", "writing"}
    OBVIOUS
  <2>1. CASE f = j
    <3>1. job[j].edit = "enqueue"
      BY <1>2, <2>1 DEF Inductive, FormSound
    <3>2. job' = [job EXCEPT ![j] = Idle]
      BY <1>2, <3>1 DEF AfterWrite
    <3>3. QED
      BY <1>1, <2>1, <3>2 DEF Idle
  <2>2. CASE f # j
    BY <1>1, <1>3, <2>2
  <2>3. QED
    BY <2>1, <2>2
<1>7. QED
  BY <1>1, <1>2, <1>5, <1>6 DEF Unsent

\* When no two jobs overlap, no typed entry becomes two transactions while no answer is
\* lost, the storage never fails and nothing is killed, whatever connectivity and the
\* session do.
THEOREM SerialBookedOnce ==
  ASSUME MaxBusy = 1
  PROVE  Spec => []BookedOnceUnlessLost
<1>1. Init => Serial /\ Unsent
  <2>1. Init => Unsent
    BY ListFacts, EmptySeq DEF Init, Unsent, ToSet, Idle, Job
  <2>2. QED
    BY <2>1, SerialInit
<1>2. Inductive /\ Serial /\ Unsent /\ [Next]_vars => Serial' /\ Unsent'
  <2> SUFFICES ASSUME Inductive, Serial, Unsent, [Next]_vars
               PROVE  Serial' /\ Unsent'
    OBVIOUS
  <2>1. Serial'
    BY SerialNext
  <2>2. CASE losses' # 0
    BY <2>1, <2>2 DEF Unsent
  <2>3. CASE losses' = 0
    <3>1. /\ \A j \in Job : ~Timeout(j) /\ ~StorageFails(j)
          /\ ~ListFails /\ ~Kill
      BY <2>3, OnceFacts
    <3>2. ~(\E e \in Entry : BookLate(e))
      BY <2>3, OnceFacts DEF Unsent, BookLate
    <3>3. ASSUME NEW j \in Job, Book(j) \/ WriteList(j)
          PROVE  Unsent'
      BY <2>3, <3>3, OnceBooks, OnceWrites
    <3>4. CASE ~(\E j \in Job : Book(j) \/ WriteList(j))
      <4>1. \/ \E f \in Form, e \in Entry : BeginCreate(f, e)
            \/ BeginFlush \/ NetUp \/ NetDown \/ SignOut \/ SignIn \/ UNCHANGED vars
            \/ \E j \in Job : \/ j \in Form /\ AskOnline(j)
                              \/ j = Flush /\ ListQueue
                              \/ Answer(j) \/ Refuse(j) \/ ReadList(j)
        BY <3>1, <3>2, <3>4 DEF Next, JobStep
      <4>2. QED
        BY <2>1, <2>3, <4>1, OnceQuiet
    <3>5. QED
      BY <2>1, <3>3, <3>4
  <2>4. QED
    BY <2>2, <2>3
<1>3. Unsent => BookedOnceUnlessLost
  BY DEF Unsent, BookedOnceUnlessLost
<1>4. QED
  BY <1>1, <1>2, <1>3, InductiveHolds, PTL DEF Spec
=============================================================================
