----------------------- MODULE PettyCashBalanceProofs -----------------------
(***************************************************************************)
(* WithinBalance of PettyCash, as long as no two requests overlap, for any *)
(* number of users, petty cash requests, entries, amounts and handlers.    *)
(*                                                                         *)
(* The balance is a sum over the entries of a user, so the first part is   *)
(* about sums: that the recursive function behind SumFunctionOnSet exists  *)
(* for a finite set, and that any element may be taken out of the sum.     *)
(* The induction is over sets of subsets, by the least cardinality that    *)
(* would not fit (OneByOne).                                               *)
(***************************************************************************)
EXTENDS PettyCashProofs, WellFoundedInduction, FiniteSetTheorems

-----------------------------------------------------------------------------
(* SumFunctionOnSet without its folds: the function that adds a[x] for an    *)
(* element x it picks to what it gives for the rest.                         *)
Pick(s) == CHOOSE x \in s : TRUE
IsFold(f, a, D) == f = [s \in D |-> IF s = {} THEN 0 ELSE a[Pick(s)] + f[s \ {Pick(s)}]]
Fold(a, S) == CHOOSE f : IsFold(f, a, SUBSET S)

\* A set of naturals has a least element.
LEMMA LeastNat ==
  ASSUME NEW T, T \subseteq Nat, T # {}
  PROVE  \E n \in T : \A m \in T : n <= m
<1> DEFINE R == {ss \in Nat \X Nat : ss[1] < ss[2]}
<1>1. IsWellFoundedOn(R, Nat)
  BY NatLessThanWellFounded DEF OpToRel
<1>2. \E n \in T : \A m \in T : <<m, n>> \notin R
  <2> HIDE DEF R
  <2> QED
    BY <1>1, WFMin, Zenon
<1>3. PICK n \in T : \A m \in T : <<m, n>> \notin R
  BY <1>2
<1>4. ASSUME NEW m \in T PROVE n <= m
  <2>1. n \in Nat /\ m \in Nat /\ <<m, n>> \notin R
    BY <1>3
  <2>2. ~ (m < n)
    <3>1. <<m, n>> \in R <=> <<m, n>> \in Nat \X Nat /\ m < n
      OBVIOUS
    <3>2. QED
      BY <2>1, <3>1
  <2>3. QED
    BY <2>1, <2>2
<1>5. QED
  BY <1>3, <1>4

\* What holds of a set whenever it holds of the set less any one element holds
\* of every finite set.
LEMMA OneByOne ==
  ASSUME NEW S, IsFiniteSet(S), NEW P,
         \A s \in SUBSET S : (\A x \in s : s \ {x} \in P) => s \in P
  PROVE  S \in P
<1> DEFINE B == (SUBSET S) \ P
           T == {Cardinality(s) : s \in B}
<1>1. SUFFICES ASSUME S \notin P PROVE FALSE
  OBVIOUS
<1>2. T \subseteq Nat /\ T # {}
  BY <1>1, FS_Subset, FS_CardinalityType
<1>3. PICK s \in B : \A r \in B : Cardinality(s) <= Cardinality(r)
  <2>1. PICK n \in T : \A m \in T : n <= m
    <3> HIDE DEF T
    <3> QED
      BY <1>2, LeastNat
  <2>2. PICK s \in B : n = Cardinality(s)
    BY <2>1
  <2>3. \A r \in B : Cardinality(r) \in T
    OBVIOUS
  <2>4. QED
    BY <2>1, <2>2, <2>3
<1>4. ASSUME NEW x \in s PROVE s \ {x} \in P
  <2>1. IsFiniteSet(s) /\ Cardinality(s \ {x}) = Cardinality(s) - 1 /\ Cardinality(s) \in Nat
    BY FS_Subset, FS_RemoveElement, FS_CardinalityType
  <2>2. QED
    BY <1>3, <2>1
<1>5. s \in P
  BY <1>4, <1>3
<1>6. QED
  BY <1>3, <1>5

\* The element picked is one of the set's.
LEMMA PickIn == ASSUME NEW s, s # {} PROVE Pick(s) \in s
BY DEF Pick

\* The recursive function exists on the subsets of a finite set.
LEMMA FoldExists ==
  ASSUME NEW a, NEW S, IsFiniteSet(S)
  PROVE  IsFold(Fold(a, S), a, SUBSET S)
<1> DEFINE D(n) == {s \in SUBSET S : Cardinality(s) <= n}
           T == {n \in Nat : ~ \E f : IsFold(f, a, D(n))}
<1>1. \A s \in SUBSET S : /\ IsFiniteSet(s) /\ Cardinality(s) \in Nat
                          /\ Cardinality(s) <= Cardinality(S)
                          /\ Cardinality(s) = 0 <=> s = {}
                          /\ \A x \in s : Cardinality(s \ {x}) = Cardinality(s) - 1
  BY FS_Subset, FS_CardinalityType, FS_EmptySet, FS_RemoveElement
<1>2. T = {}
  <2>1. SUFFICES ASSUME T # {} PROVE FALSE
    OBVIOUS
  <2>2. PICK n \in T : \A m \in T : n <= m
    BY <2>1, LeastNat
  <2>3. n # 0
    <3>1. SUFFICES ASSUME n = 0 PROVE FALSE
      OBVIOUS
    <3>2. D(0) = {{}}
      BY <1>1
    <3>3. IsFold([s \in D(0) |-> 0], a, D(0))
      BY <3>2 DEF IsFold
    <3>4. QED
      BY <3>1, <3>3
  <2>4. n - 1 \in Nat /\ n - 1 \notin T
    <3>1. n \in Nat /\ n - 1 \in Nat /\ ~ (n <= n - 1)
      BY <2>3
    <3> HIDE DEF T
    <3>2. QED
      BY <2>2, <3>1
  <2>5. PICK g : IsFold(g, a, D(n - 1))
    BY <2>4
  <2> DEFINE f == [s \in D(n) |-> IF s = {} THEN 0 ELSE a[Pick(s)] + g[s \ {Pick(s)}]]
  <2>6. ASSUME NEW s \in D(n), s # {} PROVE f[s \ {Pick(s)}] = g[s \ {Pick(s)}]
    <3> DEFINE r == s \ {Pick(s)}
    <3>1. r \in D(n - 1)
      BY <1>1, <2>6, <2>4, PickIn
    <3>2. r \in D(n)
      BY <1>1, <2>4, <3>1
    <3>3. g[r] = IF r = {} THEN 0 ELSE a[Pick(r)] + g[r \ {Pick(r)}]
      BY <2>5, <3>1 DEF IsFold
    <3>4. QED
      BY <3>2, <3>3
  <2>7. f = [s \in D(n) |-> IF s = {} THEN 0 ELSE a[Pick(s)] + f[s \ {Pick(s)}]]
    BY <2>6
  <2>8. IsFold(f, a, D(n))
    BY <2>7 DEF IsFold
  <2>9. QED
    BY <2>8
<1>3. Cardinality(S) \in Nat /\ D(Cardinality(S)) = SUBSET S
  BY <1>1, FS_CardinalityType
<1>4. \E f : IsFold(f, a, SUBSET S)
  BY <1>2, <1>3
<1>5. QED
  BY <1>4 DEF Fold

\* What it gives for a set does not depend on the set it is defined over.
LEMMA FoldLocal ==
  ASSUME NEW a, NEW S, IsFiniteSet(S), NEW R \in SUBSET S
  PROVE  Fold(a, S)[R] = Fold(a, R)[R]
<1> DEFINE P == {s \in SUBSET S : \A Q \in SUBSET S : s \subseteq Q =>
                                    Fold(a, Q)[s] = Fold(a, s)[s]}
<1>1. ASSUME NEW s \in SUBSET S, \A x \in s : s \ {x} \in P
      PROVE  s \in P
  <2>1. ASSUME NEW Q \in SUBSET S, s \subseteq Q
        PROVE  Fold(a, Q)[s] = Fold(a, s)[s]
    <3>1. ASSUME NEW q \in SUBSET S, s \subseteq q
          PROVE  Fold(a, q)[s] = IF s = {} THEN 0
                                 ELSE a[Pick(s)] + Fold(a, q)[s \ {Pick(s)}]
      <4>1. IsFold(Fold(a, q), a, SUBSET q)
        BY FS_Subset, FoldExists
      <4>2. QED
        BY <3>1, <4>1 DEF IsFold
    <3>2. CASE s = {}
      BY <2>1, <3>1, <3>2
    <3>3. CASE s # {}
      <4> DEFINE r == s \ {Pick(s)}
      <4>1. r \in P
        BY <1>1, <3>3, PickIn
      <4>2. Fold(a, Q)[r] = Fold(a, r)[r] /\ Fold(a, s)[r] = Fold(a, r)[r]
        BY <2>1, <4>1
      <4>3. QED
        BY <2>1, <3>1, <3>3, <4>2
    <3>4. QED
      BY <3>2, <3>3
  <2>2. QED
    BY <2>1
<1>2. R \in P
  <2> HIDE DEF P
  <2>1. \A s \in SUBSET R : (\A x \in s : s \ {x} \in P) => s \in P
    BY <1>1
  <2>2. IsFiniteSet(R)
    BY FS_Subset
  <2>3. QED
    BY <2>1, <2>2, OneByOne
<1>3. QED
  BY <1>2

\* The sum of the library is this function.
LEMMA SumIs ==
  ASSUME NEW a, NEW S
  PROVE  SumFunctionOnSet(a, S) = Fold(a, S)[S]
BY DEF SumFunctionOnSet, FoldFunctionOnSet, MapThenFoldSet, Fold, IsFold, Pick

\* Nothing sums up to 0; anything else to the amount picked and the sum of the rest.
LEMMA SumPick ==
  ASSUME NEW a, NEW S, IsFiniteSet(S)
  PROVE  /\ S = {} => SumFunctionOnSet(a, S) = 0
         /\ S # {} => SumFunctionOnSet(a, S) = a[Pick(S)] + SumFunctionOnSet(a, S \ {Pick(S)})
<1>1. IsFold(Fold(a, S), a, SUBSET S)
  BY FoldExists
<1>2. Fold(a, S)[S] = IF S = {} THEN 0 ELSE a[Pick(S)] + Fold(a, S)[S \ {Pick(S)}]
  BY <1>1 DEF IsFold
<1>3. Fold(a, S)[S \ {Pick(S)}] = Fold(a, S \ {Pick(S)})[S \ {Pick(S)}]
  BY FoldLocal
<1>4. QED
  BY <1>2, <1>3, SumIs

\* Sums of integers are integers, and depend on what is summed up alone.
LEMMA SumSame ==
  ASSUME NEW S, IsFiniteSet(S), NEW a, NEW b,
         \A x \in S : a[x] \in Int /\ b[x] = a[x]
  PROVE  SumFunctionOnSet(a, S) \in Int /\ SumFunctionOnSet(b, S) = SumFunctionOnSet(a, S)
<1> DEFINE P == {s \in SUBSET S : SumFunctionOnSet(a, s) \in Int
                                    /\ SumFunctionOnSet(b, s) = SumFunctionOnSet(a, s)}
<1>1. ASSUME NEW s \in SUBSET S, \A x \in s : s \ {x} \in P
      PROVE  s \in P
  <2>1. IsFiniteSet(s)
    BY FS_Subset
  <2>2. CASE s = {}
    <3>1. SumFunctionOnSet(a, s) = 0 /\ SumFunctionOnSet(b, s) = 0
      BY <2>1, <2>2, SumPick
    <3>2. QED
      BY <3>1
  <2>3. CASE s # {}
    <3>1. Pick(s) \in s
      BY <2>3, PickIn
    <3>2. s \ {Pick(s)} \in P
      BY <1>1, <3>1
    <3>3. /\ SumFunctionOnSet(a, s) = a[Pick(s)] + SumFunctionOnSet(a, s \ {Pick(s)})
          /\ SumFunctionOnSet(b, s) = b[Pick(s)] + SumFunctionOnSet(b, s \ {Pick(s)})
      BY <2>1, <2>3, SumPick
    <3>4. QED
      BY <3>1, <3>2, <3>3
  <2>4. QED
    BY <2>2, <2>3
<1>2. S \in P
  <2> HIDE DEF P
  <2> QED
    BY <1>1, OneByOne
<1>3. QED
  BY <1>2

\* Any element may be taken out first.
LEMMA SumLess ==
  ASSUME NEW S, IsFiniteSet(S), NEW a, \A x \in S : a[x] \in Int, NEW y \in S
  PROVE  SumFunctionOnSet(a, S) = a[y] + SumFunctionOnSet(a, S \ {y})
<1> DEFINE P == {s \in SUBSET S : \A x \in s :
                    SumFunctionOnSet(a, s) = a[x] + SumFunctionOnSet(a, s \ {x})}
<1>1. ASSUME NEW s \in SUBSET S, \A x \in s : s \ {x} \in P
      PROVE  s \in P
  <2>1. ASSUME NEW x \in s PROVE SumFunctionOnSet(a, s) = a[x] + SumFunctionOnSet(a, s \ {x})
    <3> DEFINE p == Pick(s)
               r == s \ {x, p}
    <3>1. IsFiniteSet(s) /\ p \in s
      BY FS_Subset, PickIn
    <3>2. SumFunctionOnSet(a, s) = a[p] + SumFunctionOnSet(a, s \ {p})
      BY <3>1, SumPick
    <3>3. CASE x = p
      BY <3>2, <3>3
    <3>4. CASE x # p
      <4>1. s \ {p} \in P /\ x \in s \ {p} /\ s \ {x} \in P /\ p \in s \ {x}
        BY <1>1, <3>1, <3>4
      <4>2. (s \ {p}) \ {x} = r /\ (s \ {x}) \ {p} = r
        OBVIOUS
      <4>3. /\ SumFunctionOnSet(a, s \ {p}) = a[x] + SumFunctionOnSet(a, r)
            /\ SumFunctionOnSet(a, s \ {x}) = a[p] + SumFunctionOnSet(a, r)
        BY <4>1, <4>2
      <4>4. IsFiniteSet(r) /\ r \subseteq S
        BY FS_Subset
      <4>5. SumFunctionOnSet(a, r) \in Int /\ a[x] \in Int /\ a[p] \in Int
        BY <3>1, <4>4, SumSame
      <4>6. QED
        BY <3>2, <4>3, <4>5
    <3>5. QED
      BY <3>3, <3>4
  <2>2. QED
    BY <2>1
<1>2. S \in P
  <2> HIDE DEF P
  <2> QED
    BY <1>1, OneByOne
<1>3. QED
  BY <1>2

-----------------------------------------------------------------------------
(* The balance.                                                             *)

\* No two requests overlap.
Alone == \A g, h \in Handler : req[g].pc # "idle" /\ req[h].pc # "idle" => g = h

\* The steps of one request.
StepOf(h) ==
  \/ WriteAudit(h) \/ StaleSave(h) \/ Abort(h)
  \/ \E a \in Actor, p \in Petty, m \in Amount : SubmitPetty(h, a, p, m)
  \/ \E p \in Petty : BeginApprove(h, p) \/ BeginReject(h, p) \/ BeginRemovePetty(h, p)
  \/ \E t \in Tx : AddFunding(h, t) \/ InsertEntry(h, t)
  \/ SaveApproval(h) \/ SaveRejection(h) \/ RemovePetty(h)
  \/ \E a \in Actor, f \in Form : BeginCreate(h, a, f)
  \/ \E a \in Actor, t \in Tx, f \in Form : BeginEdit(h, a, t, f)
  \/ ReadIssued(h) \/ ReadSpent(h) \/ SaveEdit(h)
  \/ \E t \in Tx, v \in Verdict : BeginDecide(h, t, v)
  \/ SaveDecision(h)
  \/ \E t \in Tx : BeginRemoveEntry(h, t)
  \/ RemoveEntry(h)

\* The entries there are, or were.
Written == {t \in Tx : entries[t].state # "free"}

(* What a request that goes by the balance knows, as long as nothing else is   *)
(* served: the first half of the balance is as it was read, the entry it edits *)
(* is as it was loaded, and once the check is passed the amount is within the  *)
(* balance and what the edit gives back.                                      *)
Affords(h) ==
  req[h].pc \in Expensing =>
    /\ req[h].t = None => req[h].had = 0 /\ req[h].pc # "saveEdit"
    /\ req[h].t # None => /\ req[h].pc # "insert"
                          /\ entries[req[h].t].state = "live"
                          /\ entries[req[h].t].amount = req[h].had
                          /\ req[h].actor # Manager => entries[req[h].t].owner = req[h].actor
    /\ req[h].pc = "readSpent" => req[h].issued = Issued(req[h].actor)
    /\ req[h].pc \in {"insert", "saveEdit"} /\ Checked(req[h].actor, req[h].form) =>
         req[h].form.amount <= Balance(req[h].actor) + req[h].had

Afforded == IsFiniteSet(Written) /\ \A h \in Handler : Affords(h)

\* What is entered is a number, and the null reference is no entry.
LEMMA Numbers == Amount \cup {0} \subseteq Int /\ None \notin Tx
BY ConstantsAssumption DEF ConstantsAssumption

\* Both halves of the balance are integers.
LEMMA HalvesType ==
  ASSUME TypeOK, IsFiniteSet(Written), NEW u
  PROVE  Issued(u) \in Int /\ Spent(u) \in Int
<1> DEFINE a == [t \in Tx |-> entries[t].amount]
<1>1. ASSUME NEW S, S \subseteq Written PROVE Total(S) \in Int
  <2>1. IsFiniteSet(S)
    BY <1>1, FS_Subset
  <2>2. \A t \in S : a[t] \in Int
    BY <1>1, Numbers DEF Written, TypeOK, EntryRow
  <2>3. Total(S) = SumFunctionOnSet(a, S)
    BY DEF Total
  <2> HIDE DEF a
  <2>4. QED
    BY <2>1, <2>2, <2>3, SumSame
<1>2. /\ {t \in Mine(u) : entries[t].kind = "issue"} \subseteq Written
      /\ {t \in Mine(u) : entries[t].kind \in {"variant", "spend"}} \subseteq Written
  BY DEF Mine, Written
<1>3. QED
  BY <1>1, <1>2 DEF Issued, Spent

\* A request that starts on an entry, or on a new one, has read nothing yet.
LEMMA BeginAffords ==
  ASSUME Inductive, NEW h \in Handler, NEW a \in Actor, NEW f \in Form,
         BeginCreate(h, a, f) \/ \E t \in Tx : BeginEdit(h, a, t, f)
  PROVE  Affords(h)'
<1>1. req[h] = Idle /\ req[h] \in Request /\ h \in DOMAIN req
  BY Blank DEF BeginCreate, BeginEdit, Inductive, TypeOK
<1>2. CASE BeginCreate(h, a, f)
  <2> DEFINE r == [Idle EXCEPT !.pc = IF Checked(a, f) THEN "readIssued" ELSE "insert",
                               !.actor = a, !.form = f]
  <2>1. req'[h] = r
    BY <1>1, <1>2 DEF BeginCreate
  <2>2. /\ r.t = None /\ r.had = 0 /\ r.actor = a /\ r.form = f
        /\ r.pc = IF Checked(a, f) THEN "readIssued" ELSE "insert"
    BY DEF Idle
  <2> HIDE DEF r
  <2>3. QED
    BY <2>1, <2>2 DEF Affords
<1>3. ASSUME NEW t \in Tx, BeginEdit(h, a, t, f) PROVE Affords(h)'
  <2> DEFINE r == [Idle EXCEPT !.pc = IF Checked(a, f) THEN "readIssued" ELSE "saveEdit",
                               !.actor = a, !.form = f, !.t = t, !.ver = entries[t].ver,
                               !.had = entries[t].amount]
  <2>1. req'[h] = r /\ UNCHANGED entries
    BY <1>1, <1>3 DEF BeginEdit
  <2>2. /\ r.t = t /\ r.had = entries[t].amount /\ r.actor = a /\ r.form = f
        /\ r.pc = IF Checked(a, f) THEN "readIssued" ELSE "saveEdit"
    BY DEF Idle
  <2>3. entries[t].state = "live" /\ (a # Manager => entries[t].owner = a) /\ t # None
    BY <1>3, Numbers DEF BeginEdit
  <2> HIDE DEF r
  <2>4. QED
    BY <2>1, <2>2, <2>3 DEF Affords
<1>4. QED
  BY <1>2, <1>3

\* The two queries and the check: nothing is saved in between.
LEMMA ReadAffords ==
  ASSUME Inductive, Afforded, NEW h \in Handler, ReadIssued(h) \/ ReadSpent(h)
  PROVE  Affords(h)'
<1>1. /\ req[h] \in Request /\ Affords(h) /\ UNCHANGED entries /\ h \in DOMAIN req
      /\ req[h].pc \in Expensing
  BY DEF ReadIssued, ReadSpent, Inductive, TypeOK, Afforded, Expensing
<1>2. \A u : /\ Issued(u)' = Issued(u) /\ Balance(u)' = Balance(u)
             /\ Issued(u) \in Int /\ Spent(u) \in Int
  BY <1>1, HalvesType DEF Balance, Issued, Spent, Total, Mine, Inductive, Afforded
<1>3. CASE ReadIssued(h)
  <2> DEFINE r == [req[h] EXCEPT !.pc = "readSpent", !.issued = Issued(req[h].actor)]
  <2>1. req'[h] = r
    BY <1>1, <1>3 DEF ReadIssued
  <2>2. /\ r.pc = "readSpent" /\ r.issued = Issued(req[h].actor) /\ r.actor = req[h].actor
        /\ r.t = req[h].t /\ r.had = req[h].had /\ r.form = req[h].form
    BY <1>1 DEF Request
  <2> HIDE DEF r
  <2>3. QED
    BY <1>1, <1>2, <2>1, <2>2 DEF Affords
<1>4. CASE ReadSpent(h)
  <2> DEFINE next == IF req[h].t = None THEN "insert" ELSE "saveEdit"
             r == [req[h] EXCEPT !.pc = next]
             had == req[h].had
             asked == req[h].form.amount
             available == req[h].issued - Spent(req[h].actor) + had
  <2>1. req'[h] = IF asked > available THEN Idle ELSE r
    BY <1>1, <1>4 DEF ReadSpent
  <2>2. CASE asked > available
    BY <2>1, <2>2 DEF Affords, Idle, Expensing
  <2>3. CASE ~ (asked > available)
    <3>1. req'[h] = r
      BY <2>1, <2>3
    <3>2. /\ r.pc = next /\ r.actor = req[h].actor
          /\ r.t = req[h].t /\ r.had = req[h].had /\ r.form = req[h].form
      BY <1>1 DEF Request
    <3>3. req[h].issued = Issued(req[h].actor)
      BY <1>1, <1>4 DEF ReadSpent, Affords
    <3>4. had \in Int /\ asked \in Int
      <4>1. req[h].form \in Form
        BY <1>1 DEF Inductive, RequestOK
      <4>2. QED
        BY <1>1, <4>1, Numbers DEF Request, Form
    <3>5. asked <= Balance(req[h].actor) + had
      BY <1>2, <2>3, <3>3, <3>4 DEF Balance
    <3> HIDE DEF r
    <3>6. QED
      BY <1>1, <1>2, <3>1, <3>2, <3>5 DEF Affords
  <2>4. QED
    BY <2>2, <2>3
<1>5. QED
  BY <1>3, <1>4

\* Every other step takes a request to where it does not go by the balance.
LEMMA OthersAfford ==
  ASSUME Inductive, NEW h \in Handler,
         \/ WriteAudit(h) \/ StaleSave(h) \/ Abort(h)
         \/ \E a \in Actor, p \in Petty, m \in Amount : SubmitPetty(h, a, p, m)
         \/ \E p \in Petty : BeginApprove(h, p) \/ BeginReject(h, p) \/ BeginRemovePetty(h, p)
         \/ \E t \in Tx : AddFunding(h, t) \/ InsertEntry(h, t)
         \/ SaveApproval(h) \/ SaveRejection(h) \/ RemovePetty(h) \/ SaveEdit(h)
         \/ \E t \in Tx, v \in Verdict : BeginDecide(h, t, v)
         \/ SaveDecision(h)
         \/ \E t \in Tx : BeginRemoveEntry(h, t)
         \/ RemoveEntry(h)
  PROVE  Affords(h)'
<1>1. req[h] \in Request /\ req \in [Handler -> Request] /\ RequestOK(h)
  BY DEF Inductive, TypeOK
<1>2. SUFFICES req'[h].pc \notin Expensing
  BY DEF Affords
<1>3. CASE WriteAudit(h)
  <2>1. CASE req[h].then = "idle"
    BY <1>1, <1>3, <2>1 DEF WriteAudit, Idle, Expensing
  <2>2. CASE req[h].then # "idle"
    <3>1. req[h].then = "saveApproval"
      BY <1>1, <2>2 DEF Request
    <3>2. req'[h] = [req[h] EXCEPT !.pc = "saveApproval", !.log = None, !.then = "idle"]
      BY <1>1, <1>3, <3>1 DEF WriteAudit
    <3>3. req'[h].pc = "saveApproval"
      BY <1>1, <3>2 DEF Request
    <3>4. QED
      BY <3>3 DEF Expensing
  <2>3. QED
    BY <2>1, <2>2
<1>4. CASE StaleSave(h) \/ Abort(h)
  BY <1>1, <1>4 DEF StaleSave, Abort, Idle, Expensing
<1>5. ASSUME NEW e, Saved(h, e) PROVE req'[h].pc \notin Expensing
  BY <1>1, <1>5 DEF Saved, Idle, Expensing
<1>6. CASE \/ \E a \in Actor, p \in Petty, m \in Amount : SubmitPetty(h, a, p, m)
           \/ \E t \in Tx : InsertEntry(h, t)
           \/ SaveApproval(h) \/ SaveRejection(h) \/ RemovePetty(h) \/ SaveEdit(h)
           \/ SaveDecision(h) \/ RemoveEntry(h)
  BY <1>5, <1>6 DEF SubmitPetty, InsertEntry, SaveApproval, SaveRejection, RemovePetty,
     SavePetty, SaveEdit, SaveDecision, RemoveEntry
<1>7. ASSUME NEW p \in Petty, BeginApprove(h, p) \/ BeginReject(h, p) \/ BeginRemovePetty(h, p)
      PROVE  req'[h].pc \notin Expensing
  <2>1. PICK next \in Deciding :
          req' = [req EXCEPT ![h].pc = next, ![h].actor = Manager, ![h].p = p,
                             ![h].ver = petty[p].ver]
    BY <1>7 DEF BeginApprove, BeginReject, BeginRemovePetty, Load, Deciding, SavesPetty
  <2>2. req'[h] = [req[h] EXCEPT !.pc = next, !.actor = Manager, !.p = p,
                                 !.ver = petty[p].ver]
    BY <1>1, <2>1
  <2>3. req'[h].pc = next
    BY <1>1, <2>2 DEF Request
  <2>4. QED
    BY <2>3 DEF Expensing, Deciding, SavesPetty
<1>8. ASSUME NEW t \in Tx, AddFunding(h, t)
      PROVE  req'[h].pc \notin Expensing
  BY <1>1, <1>8 DEF AddFunding, Request, Expensing
<1>9. ASSUME NEW t \in Tx, BeginRemoveEntry(h, t)
      PROVE  req'[h].pc \notin Expensing
  <2>1. req'[h].pc = "removeEntry"
    BY <1>1, <1>9 DEF BeginRemoveEntry, Request
  <2>2. QED
    BY <2>1 DEF Expensing
<1>10. ASSUME NEW t \in Tx, NEW v \in Verdict, BeginDecide(h, t, v)
       PROVE  req'[h].pc \notin Expensing
  <2>1. req'[h].pc = "saveDecision"
    BY <1>1, <1>10 DEF BeginDecide, Request
  <2>2. QED
    BY <2>1 DEF Expensing
<1>11. QED
  BY <1>3, <1>4, <1>6, <1>7, <1>8, <1>9, <1>10

\* A step writes one entry at most.
LEMMA WrittenFinite ==
  ASSUME Inductive, IsFiniteSet(Written), Next
  PROVE  IsFiniteSet(Written')
<1>1. ASSUME NEW t, \A x \in Tx \ {t} : entries'[x] = entries[x]
      PROVE  IsFiniteSet(Written')
  <2>1. Written' \subseteq Written \cup {t}
    BY <1>1 DEF Written
  <2>2. IsFiniteSet(Written \cup {t})
    BY FS_AddElement
  <2>3. QED
    BY <2>1, <2>2, FS_Subset
<1>2. CASE UNCHANGED entries
  BY <1>1, <1>2
<1>3. PICK h \in Handler : StepOf(h)
  BY DEF Next, StepOf
<1>4. CASE \E t \in Tx : AddFunding(h, t) \/ InsertEntry(h, t)
  <2>1. PICK t \in Tx : \A x \in Tx \ {t} : entries'[x] = entries[x]
    BY <1>4 DEF AddFunding, InsertEntry, Inductive, TypeOK
  <2>2. QED
    BY <1>1, <2>1
<1>5. CASE SaveEdit(h) \/ SaveDecision(h) \/ RemoveEntry(h)
  <2>1. \A x \in Tx \ {req[h].t} : entries'[x] = entries[x]
    BY <1>5 DEF SaveEdit, SaveDecision, RemoveEntry, Inductive, TypeOK
  <2>2. QED
    BY <1>1, <2>1
<1>6. CASE \/ WriteAudit(h) \/ StaleSave(h) \/ Abort(h) \/ ReadIssued(h) \/ ReadSpent(h)
           \/ SaveApproval(h) \/ SaveRejection(h) \/ RemovePetty(h)
           \/ \E a \in Actor, p \in Petty, m \in Amount : SubmitPetty(h, a, p, m)
           \/ \E p \in Petty : BeginApprove(h, p) \/ BeginReject(h, p) \/ BeginRemovePetty(h, p)
  BY <1>2, <1>6 DEF WriteAudit, StaleSave, Abort, ReadIssued, ReadSpent, SaveApproval,
     SaveRejection, RemovePetty, SavePetty, SubmitPetty, BeginApprove, BeginReject,
     BeginRemovePetty, Load
<1>7. CASE \/ \E a \in Actor, f \in Form : BeginCreate(h, a, f)
           \/ \E a \in Actor, t \in Tx, f \in Form : BeginEdit(h, a, t, f)
           \/ \E t \in Tx, v \in Verdict : BeginDecide(h, t, v)
           \/ \E t \in Tx : BeginRemoveEntry(h, t)
  <2>1. ASSUME NEW a, NEW f, NEW t, NEW v,
               \/ BeginCreate(h, a, f) \/ BeginEdit(h, a, t, f)
               \/ BeginDecide(h, t, v) \/ BeginRemoveEntry(h, t)
        PROVE  UNCHANGED entries
    BY <2>1 DEF BeginCreate, BeginEdit, BeginDecide, BeginRemoveEntry
  <2>2. UNCHANGED entries
    BY <1>7, <2>1
  <2>3. QED
    BY <1>2, <2>2
<1>8. QED
  BY <1>3, <1>4, <1>5, <1>6, <1>7 DEF StepOf

\* A step is one request's, which is in flight before it or after it.
LEMMA InFlight ==
  ASSUME Inductive, NEW h \in Handler, StepOf(h)
  PROVE  /\ \A g \in Handler \ {h} : req'[g] = req[g]
         /\ req[h].pc # "idle" \/ req'[h].pc # "idle"
<1>1. req[h] \in Request /\ req \in [Handler -> Request]
  BY DEF Inductive, TypeOK
<1>2. CASE \/ WriteAudit(h) \/ StaleSave(h) \/ Abort(h) \/ ReadIssued(h) \/ ReadSpent(h)
           \/ \E t \in Tx : AddFunding(h, t) \/ InsertEntry(h, t)
           \/ SaveApproval(h) \/ SaveRejection(h) \/ RemovePetty(h)
           \/ SaveEdit(h) \/ SaveDecision(h) \/ RemoveEntry(h)
  BY <1>1, <1>2 DEF WriteAudit, StaleSave, Abort, ReadIssued, ReadSpent, AddFunding, InsertEntry,
     SaveApproval, SaveRejection, RemovePetty, SavePetty, SaveEdit, SaveDecision, RemoveEntry,
     Saved, SavesPetty, SavesEntry
<1>3. CASE \E a \in Actor, p \in Petty, m \in Amount : SubmitPetty(h, a, p, m)
  BY <1>1, <1>3 DEF SubmitPetty, Saved, Idle
<1>4. ASSUME NEW p \in Petty, BeginApprove(h, p) \/ BeginReject(h, p) \/ BeginRemovePetty(h, p)
      PROVE  (\A g \in Handler \ {h} : req'[g] = req[g]) /\ req'[h].pc # "idle"
  <2>1. PICK next \in Deciding :
          req' = [req EXCEPT ![h].pc = next, ![h].actor = Manager, ![h].p = p,
                             ![h].ver = petty[p].ver]
    BY <1>4 DEF BeginApprove, BeginReject, BeginRemovePetty, Load, Deciding, SavesPetty
  <2>2. req'[h] = [req[h] EXCEPT !.pc = next, !.actor = Manager, !.p = p,
                                 !.ver = petty[p].ver]
    BY <1>1, <2>1
  <2>3. req'[h].pc = next
    BY <1>1, <2>2 DEF Request
  <2>4. QED
    BY <1>1, <2>1, <2>3 DEF Deciding, SavesPetty
<1>5. ASSUME NEW a, NEW f, NEW t, NEW v,
             \/ BeginCreate(h, a, f) \/ BeginEdit(h, a, t, f)
             \/ BeginDecide(h, t, v) \/ BeginRemoveEntry(h, t)
      PROVE  (\A g \in Handler \ {h} : req'[g] = req[g]) /\ req'[h].pc # "idle"
  <2>1. CASE BeginCreate(h, a, f)
    BY <1>1, <2>1 DEF BeginCreate, Request
  <2>2. CASE BeginEdit(h, a, t, f)
    BY <1>1, <2>2 DEF BeginEdit, Request
  <2>3. CASE BeginDecide(h, t, v)
    BY <1>1, <2>3 DEF BeginDecide, Request
  <2>4. CASE BeginRemoveEntry(h, t)
    BY <1>1, <2>4 DEF BeginRemoveEntry, Request
  <2>5. QED
    BY <1>5, <2>1, <2>2, <2>3, <2>4
<1>6. QED
  BY <1>2, <1>3, <1>4, <1>5 DEF StepOf

\* While no two requests overlap, every step keeps what the request knows.
LEMMA NextAfforded ==
  ASSUME Alone, Alone', Inductive, Afforded, [Next]_vars
  PROVE  Afforded'
<1>1. CASE UNCHANGED vars
  <2>1. UNCHANGED <<entries, req>>
    BY <1>1 DEF vars
  <2>2. Written' = Written /\ \A h \in Handler : Affords(h)' = Affords(h)
    BY <2>1 DEF Written, Affords, Issued, Balance, Spent, Total, Mine
  <2>3. QED
    BY <2>2 DEF Afforded
<1>2. CASE Next
  <2>1. IsFiniteSet(Written')
    BY <1>2, WrittenFinite DEF Afforded
  <2>2. PICK h \in Handler : StepOf(h)
    BY <1>2 DEF Next, StepOf
  <2>3. ASSUME NEW a \in Actor, NEW f \in Form,
               BeginCreate(h, a, f) \/ \E t \in Tx : BeginEdit(h, a, t, f)
        PROVE  Affords(h)'
    BY <2>3, BeginAffords
  <2>4. ASSUME ReadIssued(h) \/ ReadSpent(h)
        PROVE  Affords(h)'
    BY <2>4, ReadAffords
  <2>5. Affords(h)'
    BY <2>2, <2>3, <2>4, OthersAfford DEF StepOf
  <2>6. ASSUME NEW g \in Handler \ {h} PROVE Affords(g)'
    <3>1. req'[g] = req[g] /\ (req[h].pc # "idle" \/ req'[h].pc # "idle")
      BY <1>2, <2>2, InFlight
    <3>2. req'[g].pc = "idle"
      BY <3>1 DEF Alone
    <3>3. QED
      BY <3>2 DEF Affords, Expensing
  <2>7. QED
    BY <2>1, <2>5, <2>6 DEF Afforded
<1>3. QED
  BY <1>1, <1>2

\* Initially nothing is written and nobody goes by the balance.
LEMMA InitAfforded == Init => Afforded
<1>1. SUFFICES ASSUME Init PROVE Afforded
  OBVIOUS
<1>2. Written = {}
  BY <1>1 DEF Init, Written, NoEntry
<1>3. \A h \in Handler : Affords(h)
  BY <1>1 DEF Init, Affords, Idle, Expensing
<1>4. QED
  BY <1>2, <1>3, FS_EmptySet DEF Afforded

\* Booking an expense on a blank entry takes its amount off the balance.
LEMMA InsertTakes ==
  ASSUME TypeOK, TypeOK', IsFiniteSet(Written), NEW t \in Tx, NEW u \in User,
         entries[t].state = "free",
         entries'[t].state = "live", entries'[t].owner = u, entries'[t].kind = "spend",
         \A x \in Tx \ {t} : entries'[x] = entries[x]
  PROVE  Balance(u)' = Balance(u) - entries'[t].amount
<1> DEFINE a == [x \in Tx |-> entries[x].amount]
           b == [x \in Tx |-> entries'[x].amount]
           I == {x \in Mine(u) : entries[x].kind = "issue"}
           S == {x \in Mine(u) : entries[x].kind \in {"variant", "spend"}}
<1>1. /\ I \subseteq Written /\ S \subseteq Written /\ t \notin Written
      /\ I' = I /\ S' = S \cup {t} /\ Written \subseteq Tx
  BY DEF Mine, Written
<1>2. IsFiniteSet(I) /\ IsFiniteSet(S) /\ IsFiniteSet(S \cup {t})
  BY <1>1, FS_Subset, FS_AddElement
<1>3. /\ \A x \in Tx : a[x] \in Int /\ b[x] \in Int
      /\ \A x \in Tx \ {t} : b[x] = a[x]
      /\ b[t] = entries'[t].amount
  BY Numbers DEF TypeOK, EntryRow
<1>4. /\ Issued(u) = SumFunctionOnSet(a, I) /\ Issued(u)' = SumFunctionOnSet(b, I)
      /\ Spent(u) = SumFunctionOnSet(a, S) /\ Spent(u)' = SumFunctionOnSet(b, S \cup {t})
  BY <1>1 DEF Issued, Spent, Total
<1> HIDE DEF a, b, I, S
<1>5. SumFunctionOnSet(b, I) = SumFunctionOnSet(a, I) /\ SumFunctionOnSet(a, I) \in Int
  BY <1>1, <1>2, <1>3, SumSame
<1>6. SumFunctionOnSet(b, S) = SumFunctionOnSet(a, S) /\ SumFunctionOnSet(a, S) \in Int
  BY <1>1, <1>2, <1>3, SumSame
<1>7. SumFunctionOnSet(b, S \cup {t}) = b[t] + SumFunctionOnSet(b, S)
  <2>1. (S \cup {t}) \ {t} = S /\ \A x \in S \cup {t} : b[x] \in Int
    BY <1>1, <1>3
  <2>2. SumFunctionOnSet(b, S \cup {t}) = b[t] + SumFunctionOnSet(b, (S \cup {t}) \ {t})
    BY <1>2, <2>1, SumLess
  <2>3. QED
    BY <2>1, <2>2
<1>8. Balance(u) = Issued(u) - Spent(u) /\ Balance(u)' = Issued(u)' - Spent(u)'
  BY DEF Balance
<1>9. QED
  BY <1>3, <1>4, <1>5, <1>6, <1>7, <1>8

\* Writing one expense over another gives the old amount back and takes the new one.
LEMMA EditTakes ==
  ASSUME TypeOK, TypeOK', IsFiniteSet(Written), NEW t \in Tx, NEW u \in User,
         entries[t].state = "live", entries[t].owner = u,
         entries[t].kind \in {"variant", "spend"},
         entries'[t].state = "live", entries'[t].owner = u, entries'[t].kind = "spend",
         \A x \in Tx \ {t} : entries'[x] = entries[x]
  PROVE  Balance(u)' = Balance(u) + entries[t].amount - entries'[t].amount
<1> DEFINE a == [x \in Tx |-> entries[x].amount]
           b == [x \in Tx |-> entries'[x].amount]
           I == {x \in Mine(u) : entries[x].kind = "issue"}
           S == {x \in Mine(u) : entries[x].kind \in {"variant", "spend"}}
<1>1. /\ I \subseteq Written /\ S \subseteq Written /\ t \in S /\ t \notin I
      /\ I' = I /\ S' = S /\ Written \subseteq Tx
  BY DEF Mine, Written
<1>2. IsFiniteSet(I) /\ IsFiniteSet(S) /\ IsFiniteSet(S \ {t})
  BY <1>1, FS_Subset
<1>3. /\ \A x \in Tx : a[x] \in Int /\ b[x] \in Int
      /\ \A x \in Tx \ {t} : b[x] = a[x]
      /\ a[t] = entries[t].amount /\ b[t] = entries'[t].amount
  BY Numbers DEF TypeOK, EntryRow
<1>4. /\ Issued(u) = SumFunctionOnSet(a, I) /\ Issued(u)' = SumFunctionOnSet(b, I)
      /\ Spent(u) = SumFunctionOnSet(a, S) /\ Spent(u)' = SumFunctionOnSet(b, S)
  BY <1>1 DEF Issued, Spent, Total
<1> HIDE DEF a, b, I, S
<1>5. SumFunctionOnSet(b, I) = SumFunctionOnSet(a, I) /\ SumFunctionOnSet(a, I) \in Int
  BY <1>1, <1>2, <1>3, SumSame
<1>6. /\ SumFunctionOnSet(b, S \ {t}) = SumFunctionOnSet(a, S \ {t})
      /\ SumFunctionOnSet(a, S \ {t}) \in Int
  BY <1>1, <1>2, <1>3, SumSame
<1>7. /\ SumFunctionOnSet(a, S) = a[t] + SumFunctionOnSet(a, S \ {t})
      /\ SumFunctionOnSet(b, S) = b[t] + SumFunctionOnSet(b, S \ {t})
  BY <1>1, <1>2, <1>3, SumLess
<1>8. Balance(u) = Issued(u) - Spent(u) /\ Balance(u)' = Issued(u)' - Spent(u)'
  BY DEF Balance
<1>9. QED
  BY <1>3, <1>4, <1>5, <1>6, <1>7, <1>8

(* While requests do not overlap, no checked expense of a user takes the     *)
(* user's petty cash balance below zero, neither a new one nor one written   *)
(* over another expense: TransactionService.CreateAsync and UpdateAsync.     *)
THEOREM AloneWithinBalance == Spec /\ []Alone => WithinBalance
<1> DEFINE Within ==
      \A h \in Handler, u \in User :
        /\ req[h].actor = u /\ Checked(u, req[h].form)
        /\ \/ \E t \in Tx : InsertEntry(h, t)
           \/ SaveEdit(h) /\ entries[req[h].t].kind \in {"variant", "spend"}
        => Balance(u)' >= 0
<1>1. ASSUME Inductive, Inductive', Afforded, Next PROVE Within
  <2>1. SUFFICES ASSUME NEW h \in Handler, NEW u \in User,
                        req[h].actor = u, Checked(u, req[h].form),
                        \/ \E t \in Tx : InsertEntry(h, t)
                        \/ SaveEdit(h) /\ entries[req[h].t].kind \in {"variant", "spend"}
                 PROVE  Balance(u)' >= 0
    OBVIOUS
  <2> DEFINE f == req[h].form
  <2>2. /\ req[h] \in Request /\ RequestOK(h) /\ Affords(h) /\ TypeOK /\ TypeOK'
        /\ req[h].pc \in {"insert", "saveEdit"} /\ f.kind = "spend"
        /\ u # Manager
    BY <1>1, <2>1 DEF Inductive, TypeOK, Afforded, InsertEntry, SaveEdit, Checked
  <2>3. /\ f \in Form /\ f.amount \in Int /\ req[h].had \in Int
        /\ f.amount <= Balance(u) + req[h].had
    <3>1. f \in Form
      BY <2>2 DEF RequestOK, Expensing
    <3>2. QED
      BY <2>1, <2>2, <3>1, Numbers DEF Affords, Expensing, Form, Request
  <2>4. Balance(u) \in Int
    BY <1>1, HalvesType DEF Inductive, Afforded, Balance
  <2>5. CASE \E t \in Tx : InsertEntry(h, t)
    <3>1. PICK t \in Tx : InsertEntry(h, t)
      BY <2>5
    <3>2. /\ entries[t].state = "free" /\ entries'[t].state = "live"
          /\ entries'[t].owner = u /\ entries'[t].kind = "spend"
          /\ entries'[t].amount = f.amount
          /\ \A x \in Tx \ {t} : entries'[x] = entries[x]
      BY <2>1, <2>2, <3>1 DEF InsertEntry, TypeOK
    <3>3. Balance(u)' = Balance(u) - f.amount
      BY <1>1, <2>2, <3>2, InsertTakes DEF Afforded
    <3>4. req[h].had = 0
      BY <2>2, <3>1 DEF InsertEntry, Affords, Expensing
    <3>5. QED
      BY <2>3, <2>4, <3>3, <3>4
  <2>6. CASE SaveEdit(h) /\ entries[req[h].t].kind \in {"variant", "spend"}
    <3> DEFINE t == req[h].t
    <3>1. /\ t \in Tx /\ t # None /\ entries[t].state = "live" /\ entries[t].owner = u
          /\ entries[t].amount = req[h].had
      BY <2>1, <2>2, <2>6, Numbers DEF SaveEdit, Affords, Expensing, RequestOK, SavesEntry
    <3>2. /\ entries'[t].state = "live" /\ entries'[t].owner = u
          /\ entries'[t].kind = "spend" /\ entries'[t].amount = f.amount
          /\ \A x \in Tx \ {t} : entries'[x] = entries[x]
      BY <2>2, <2>6, <3>1 DEF SaveEdit, TypeOK, EntryRow
    <3>3. Balance(u)' = Balance(u) + req[h].had - f.amount
      BY <1>1, <2>2, <2>6, <3>1, <3>2, EditTakes DEF Afforded
    <3>4. QED
      BY <2>3, <2>4, <3>3
  <2>7. QED
    BY <2>1, <2>5, <2>6
<1> HIDE DEF Within
<1>2. Inductive /\ Inductive' /\ Afforded /\ [Next]_vars =>
        [\A h \in Handler, u \in User :
           /\ req[h].actor = u /\ Checked(u, req[h].form)
           /\ \/ \E t \in Tx : InsertEntry(h, t)
              \/ SaveEdit(h) /\ entries[req[h].t].kind \in {"variant", "spend"}
           => Balance(u)' >= 0]_vars
  BY <1>1 DEF Within
<1>3. Init => Afforded
  BY InitAfforded
<1>4. Alone /\ Alone' /\ Inductive /\ Afforded /\ [Next]_vars => Afforded'
  BY NextAfforded
<1>5. QED
  BY <1>2, <1>3, <1>4, InductiveHolds, PTL DEF Spec, WithinBalance
=============================================================================
