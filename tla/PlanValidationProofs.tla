------------------------ MODULE PlanValidationProofs ------------------------
(***************************************************************************)
(* Proofs about PlanValidation: the sort accepts exactly the well-formed   *)
(* plans without a dependency cycle, and the order it returns runs every   *)
(* task once and after its dependencies - for every set of plans.          *)
(***************************************************************************)
EXTENDS PlanValidation, FiniteSetTheorems, FunctionTheorems, SequenceTheorems, TLAPS

-----------------------------------------------------------------------------
(* Sequences. *)

(* The entries of a concatenation are the entries of its two parts. *)
LEMMA EntriesConcat ==
  ASSUME NEW T, NEW s \in Seq(T), NEW t \in Seq(T)
  PROVE  Entries(s \o t) = Entries(s) \cup Entries(t)
<1>1. /\ DOMAIN s = 1..Len(s) /\ DOMAIN t = 1..Len(t) /\ DOMAIN (s \o t) = 1..(Len(s) + Len(t))
      /\ Len(s) \in Nat /\ Len(t) \in Nat
  BY ConcatProperties, LenProperties
<1>2. ASSUME NEW x \in Entries(s \o t) PROVE x \in Entries(s) \cup Entries(t)
  BY <1>1, <1>2, ConcatProperties DEF Entries
<1>3. ASSUME NEW x \in Entries(s) PROVE x \in Entries(s \o t)
  <2>1. PICK i \in 1..Len(s) : x = s[i]
    BY <1>1 DEF Entries
  <2>2. i \in 1..(Len(s) + Len(t)) /\ (s \o t)[i] = x
    BY <1>1, <2>1, ConcatProperties
  <2> QED BY <1>1, <2>2 DEF Entries
<1>4. ASSUME NEW x \in Entries(t) PROVE x \in Entries(s \o t)
  <2>1. PICK i \in 1..Len(t) : x = t[i]
    BY <1>1 DEF Entries
  <2>2. /\ Len(s) + i \in 1..(Len(s) + Len(t))
        /\ ~(Len(s) + i <= Len(s))
        /\ (Len(s) + i) - Len(s) = i
    BY <1>1
  <2>3. (s \o t)[Len(s) + i] = x
    BY <2>1, <2>2, ConcatProperties
  <2> QED BY <1>1, <2>2, <2>3 DEF Entries
<1> QED BY <1>2, <1>3, <1>4

(* Two disjoint sequences without repetitions concatenate to one. *)
LEMMA DistinctConcat ==
  ASSUME NEW T, NEW s \in Seq(T), NEW t \in Seq(T),
         Distinct(s), Distinct(t), Entries(s) \cap Entries(t) = {}
  PROVE  Distinct(s \o t)
<1>1. /\ DOMAIN s = 1..Len(s) /\ DOMAIN t = 1..Len(t) /\ DOMAIN (s \o t) = 1..(Len(s) + Len(t))
      /\ Len(s) \in Nat /\ Len(t) \in Nat
  BY ConcatProperties, LenProperties
<1>2. SUFFICES ASSUME NEW i \in 1..(Len(s) + Len(t)), NEW j \in 1..(Len(s) + Len(t)),
                      (s \o t)[i] = (s \o t)[j]
               PROVE  i = j
  BY <1>1 DEF Distinct
<1>3. /\ (s \o t)[i] = IF i <= Len(s) THEN s[i] ELSE t[i - Len(s)]
      /\ (s \o t)[j] = IF j <= Len(s) THEN s[j] ELSE t[j - Len(s)]
  BY ConcatProperties
<1>4. CASE i <= Len(s) /\ j <= Len(s)
  <2>1. i \in 1..Len(s) /\ j \in 1..Len(s)
    BY <1>1, <1>4
  <2>2. s[i] = s[j]
    BY <1>2, <1>3, <1>4
  <2> QED BY <1>1, <2>1, <2>2 DEF Distinct
<1>5. CASE ~(i <= Len(s)) /\ ~(j <= Len(s))
  <2>1. i - Len(s) \in 1..Len(t) /\ j - Len(s) \in 1..Len(t)
    BY <1>1, <1>5
  <2>2. t[i - Len(s)] = t[j - Len(s)]
    BY <1>2, <1>3, <1>5
  <2>3. i - Len(s) = j - Len(s)
    BY <1>1, <2>1, <2>2 DEF Distinct
  <2> QED BY <1>1, <2>3
<1>6. CASE i <= Len(s) /\ ~(j <= Len(s))
  <2>1. i \in 1..Len(s) /\ j - Len(s) \in 1..Len(t)
    BY <1>1, <1>6
  <2>2. s[i] = t[j - Len(s)]
    BY <1>2, <1>3, <1>6
  <2>3. s[i] \in Entries(s) /\ t[j - Len(s)] \in Entries(t)
    BY <1>1, <2>1 DEF Entries
  <2> QED BY <2>2, <2>3
<1>7. CASE ~(i <= Len(s)) /\ j <= Len(s)
  <2>1. j \in 1..Len(s) /\ i - Len(s) \in 1..Len(t)
    BY <1>1, <1>7
  <2>2. s[j] = t[i - Len(s)]
    BY <1>2, <1>3, <1>7
  <2>3. s[j] \in Entries(s) /\ t[i - Len(s)] \in Entries(t)
    BY <1>1, <2>1 DEF Entries
  <2> QED BY <2>2, <2>3
<1> QED BY <1>4, <1>5, <1>6, <1>7

(* sorted(S): a sequence over S, with every member of S exactly once. *)
LEMMA SortingsProperties ==
  ASSUME NEW S \in SUBSET Nat, IsFiniteSet(S), NEW s \in Sortings(S)
  PROVE  s \in Seq(S) /\ Entries(s) = S /\ Distinct(s)
<1>1. Cardinality(S) \in Nat
  BY FS_CardinalityType
<1>2. s \in [1..Cardinality(S) -> S]
  BY DEF Sortings
<1>3. s \in Seq(S)
  BY <1>1, <1>2, SeqDef
<1>4. Entries(s) = S
  BY <1>2 DEF Sortings, Entries
<1>5. ASSUME NEW i \in 1..Cardinality(S), NEW j \in 1..Cardinality(S), s[i] = s[j] PROVE i = j
  <2>1. s[i] \in Nat /\ s[j] \in Nat /\ (i < j => s[i] < s[j]) /\ (j < i => s[j] < s[i])
    BY <1>2 DEF Sortings
  <2> QED BY <1>1, <1>5, <2>1
<1>6. DOMAIN s = 1..Cardinality(S)
  BY <1>2
<1> QED BY <1>3, <1>4, <1>5, <1>6 DEF Distinct

(* Concatenation under a name of its own, so that the provers instantiate  *)
(* associativity with it.                                                  *)
Concat(s, t) == s \o t

(* Concatenation is associative. *)
LEMMA ConcatRegroups ==
  \A T : \A a, b, c \in Seq(T) : Concat(Concat(a, b), c) = Concat(a, Concat(b, c))
<1>1. SUFFICES ASSUME NEW T, NEW a \in Seq(T), NEW b \in Seq(T), NEW c \in Seq(T)
               PROVE  (a \o b) \o c = a \o (b \o c)
  BY DEF Concat
<1> QED BY ConcatAssociative

Advance(s, q, r) == Append(s, Head(q)) \o (Tail(q) \o r)

(* Moving the head of the queue to the end of the order and queueing r     *)
(* extends the concatenation of the two by r.                              *)
LEMMA PopConcat ==
  \A T : \A s, q, r \in Seq(T) : q # <<>> => Advance(s, q, r) = (s \o q) \o r
<1> SUFFICES ASSUME NEW T, NEW s \in Seq(T), NEW q \in Seq(T), NEW r \in Seq(T), q # <<>>
             PROVE  Append(s, Head(q)) \o (Tail(q) \o r) = (s \o q) \o r
  BY DEF Advance
<1>1. q = <<Head(q)>> \o Tail(q)
  <2>1. Head(q) \in T /\ Tail(q) \in Seq(T) /\ Len(Tail(q)) = Len(q) - 1
        /\ \A i \in 1..Len(Tail(q)) : Tail(q)[i] = q[i + 1]
    BY HeadTailProperties
  <2>2. Len(q) \in Nat \ {0} /\ Head(q) = q[1]
    BY EmptySeq
  <2>3. <<Head(q)>> \in Seq(T) /\ Len(<<Head(q)>>) = 1 /\ <<Head(q)>>[1] = Head(q)
    BY <2>1
  <2>4. /\ <<Head(q)>> \o Tail(q) \in Seq(T)
        /\ Len(<<Head(q)>> \o Tail(q)) = Len(q)
        /\ \A i \in 1..Len(q) : (<<Head(q)>> \o Tail(q))[i] = IF i <= 1 THEN <<Head(q)>>[i] ELSE Tail(q)[i - 1]
    BY <2>1, <2>2, <2>3, ConcatProperties
  <2>5. ASSUME NEW i \in 1..Len(q) PROVE (<<Head(q)>> \o Tail(q))[i] = q[i]
    <3>1. CASE i = 1
      BY <2>2, <2>3, <2>4, <3>1
    <3>2. CASE i # 1
      <4>1. i - 1 \in 1..Len(Tail(q)) /\ (i - 1) + 1 = i /\ ~(i <= 1)
        BY <2>1, <2>2, <3>2
      <4> QED BY <2>1, <2>4, <4>1
    <3> QED BY <3>1, <3>2
  <2> QED BY <2>4, <2>5, SeqEqual
<1>2. Head(q) \in T /\ Tail(q) \in Seq(T) /\ <<Head(q)>> \in Seq(T)
  BY HeadTailProperties
<1>3. PICK u \in Seq(T), v \in Seq(T) : u = <<Head(q)>> /\ v = Tail(q)
  BY <1>2
<1>4. q = u \o v /\ Append(s, Head(q)) = s \o u
  BY <1>1, <1>2, <1>3, AppendIsConcat
<1>5. Concat(v, r) \in Seq(T)
  BY ConcatProperties DEF Concat
<1>6. Concat(Concat(s, u), Concat(v, r)) = Concat(s, Concat(u, Concat(v, r)))
  BY <1>5, ConcatRegroups
<1>7. Concat(u, Concat(v, r)) = Concat(Concat(u, v), r)
  BY ConcatRegroups
<1>8. Concat(s, Concat(q, r)) = Concat(Concat(s, q), r)
  BY ConcatRegroups
<1>9. Concat(Append(s, Head(q)), Concat(Tail(q), r)) = Concat(Concat(s, q), r)
  BY <1>3, <1>4, <1>6, <1>7, <1>8 DEF Concat
<1> QED BY <1>9 DEF Concat

(* A sequence without repetitions has as many entries as positions. *)
LEMMA DistinctCardinality ==
  ASSUME NEW T, NEW s \in Seq(T), Distinct(s)
  PROVE  IsFiniteSet(Entries(s)) /\ Cardinality(Entries(s)) = Len(s)
<1>1. Len(s) \in Nat /\ DOMAIN s = 1..Len(s) /\ s \in [1..Len(s) -> T]
  BY LenProperties
<1>2. IsFiniteSet(1..Len(s)) /\ Cardinality(1..Len(s)) = Len(s)
  BY <1>1, FS_Interval
<1>3. s \in Surjection(1..Len(s), Entries(s))
  BY <1>1 DEF Surjection, Entries
<1>4. s \in Injection(1..Len(s), Entries(s))
  BY <1>1, <1>3 DEF Surjection, Injection, IsInjective, Distinct
<1> QED BY <1>2, <1>3, <1>4, FS_Surjection

-----------------------------------------------------------------------------
(* The dependency graph of a plan. *)

(* The positions of a sequence are finitely many. *)
LEMMA DomainFinite ==
  ASSUME NEW S, NEW s \in Seq(S)
  PROVE  IsFiniteSet(DOMAIN s)
<1>1. DOMAIN s = 1..Len(s) /\ Len(s) \in Nat
  BY LenProperties
<1> QED BY <1>1, FS_Interval

(* A plan has finitely many tasks and dependency entries. *)
LEMMA PlanFinite ==
  ASSUME NEW p \in Seq(PlannedTask)
  PROVE  IsFiniteSet(Edges(p)) /\ IsFiniteSet(Ids(p)) /\ Ids(p) \subseteq Nat
<1> DEFINE Row(i) == {<<i, j>> : j \in DOMAIN p[i].dependencies}
<1>1. /\ DOMAIN p = 1..Len(p) /\ Len(p) \in Nat
      /\ IsFiniteSet(DOMAIN p)
      /\ \A i \in DOMAIN p : p[i] \in PlannedTask
  BY LenProperties, ElementOfSeq, FS_Interval
<1>2. ASSUME NEW i \in DOMAIN p PROVE IsFiniteSet(Row(i))
  <2>1. p[i].dependencies \in Seq(Nat)
    BY <1>1 DEF PlannedTask
  <2>2. IsFiniteSet(DOMAIN p[i].dependencies)
    BY <2>1, DomainFinite, Zenon
  <2>3. [j \in DOMAIN p[i].dependencies |-> <<i, j>>] \in Surjection(DOMAIN p[i].dependencies, Row(i))
    BY DEF Surjection
  <2> QED BY <2>2, <2>3, FS_Surjection
<1>3. [i \in DOMAIN p |-> Row(i)] \in Surjection(DOMAIN p, {Row(i) : i \in DOMAIN p})
  BY DEF Surjection
<1>4. IsFiniteSet({Row(i) : i \in DOMAIN p})
  BY <1>1, <1>3, FS_Surjection
<1>5. IsFiniteSet(Edges(p))
  BY <1>2, <1>4, FS_UNION DEF Edges
<1>6. [i \in DOMAIN p |-> p[i].id] \in Surjection(DOMAIN p, Ids(p))
  BY DEF Surjection, Ids
<1>7. Ids(p) \subseteq Nat
  BY <1>1 DEF Ids, PlannedTask
<1> QED BY <1>1, <1>5, <1>6, <1>7, FS_Surjection

Unmet(p, c, D) == {e \in EdgesInto(p, c) : Parent(p, e) \notin D}

(* Ordering one more task t takes exactly the entries naming t off the     *)
(* count of unmet entries.                                                 *)
LEMMA CountSplit ==
  ASSUME NEW p \in Seq(PlannedTask), NEW c, NEW D, NEW t, t \notin D
  PROVE  /\ Cardinality(Unmet(p, c, D)) \in Nat
         /\ Cardinality(Unmet(p, c, D \cup {t})) \in Nat
         /\ Cardinality(EdgesBetween(p, t, c)) \in Nat
         /\ Cardinality(Unmet(p, c, D \cup {t}))
              = Cardinality(Unmet(p, c, D)) - Cardinality(EdgesBetween(p, t, c))
<1> DEFINE A == Unmet(p, c, D \cup {t})
           B == EdgesBetween(p, t, c)
<1>1. A \subseteq Edges(p) /\ B \subseteq Edges(p) /\ Unmet(p, c, D) \subseteq Edges(p)
  BY DEF Unmet, EdgesBetween, EdgesInto
<1>2. IsFiniteSet(A) /\ IsFiniteSet(B) /\ IsFiniteSet(Unmet(p, c, D))
  BY <1>1, PlanFinite, FS_Subset
<1>3. Unmet(p, c, D) = A \cup B /\ A \cap B = {}
  BY DEF Unmet, EdgesBetween
<1>4. Cardinality(A \cup B) = Cardinality(A) + Cardinality(B) - Cardinality(A \cap B)
  BY <1>2, FS_Union
<1>5. Cardinality(A \cap B) = 0
  BY <1>3, FS_EmptySet
<1>6. Cardinality(A) \in Nat /\ Cardinality(B) \in Nat /\ Cardinality(Unmet(p, c, D)) \in Nat
  BY <1>2, FS_CardinalityType
<1>7. Cardinality(Unmet(p, c, D)) = Cardinality(A) + Cardinality(B)
  BY <1>3, <1>4, <1>5, <1>6
<1> QED BY <1>6, <1>7

(* A task has no unmet entry exactly when all its dependencies are in D. *)
LEMMA CountZero ==
  ASSUME NEW p \in Seq(PlannedTask), NEW c, NEW D
  PROVE  Cardinality(Unmet(p, c, D)) = 0 <=> Dependencies(p, c) \subseteq D
<1>1. Unmet(p, c, D) \subseteq Edges(p)
  BY DEF Unmet, EdgesInto
<1>2. IsFiniteSet(Unmet(p, c, D))
  BY <1>1, PlanFinite, FS_Subset
<1>3. Cardinality(Unmet(p, c, D)) = 0 <=> Unmet(p, c, D) = {}
  BY <1>2, FS_EmptySet
<1> QED BY <1>3 DEF Unmet, Dependencies

-----------------------------------------------------------------------------
(* The inductive invariant. *)

Scheduled == ordered \o queue

(* While sorting, a task has been scheduled exactly when none of its       *)
(* dependency entries is unmet.                                            *)
ScheduledIffMet ==
  verdict = "sorting" =>
    \A c \in Ids(plan) : incoming[c] = 0 <=> c \in Entries(Scheduled)

OrderedAfterDependencies ==
  \A j \in DOMAIN ordered : \A d \in Dependencies(plan, ordered[j]) :
    \E i \in 1..(j - 1) : ordered[i] = d

(* A task of a set that waits for itself never enters the queue: this is   *)
(* what makes the acceptance of a plan mean that it has no cycle.          *)
DeadlockedNeverScheduled ==
  \A S \in SUBSET Ids(plan) : Deadlocked(plan, S) => S \cap Entries(Scheduled) = {}

VerdictJustified ==
  /\ verdict \in {"none", "checking"} => queue = <<>> /\ ordered = <<>>
  /\ verdict \in {"sorting", "valid"} => WellFormed(plan)
  /\ verdict = "valid" => queue = <<>> /\ AllOrdered
  /\ verdict = "PlanValidationError" /\ WellFormed(plan) => Cyclic(plan)

PlanInv ==
  /\ PlanTypeOK
  /\ CountersExact
  /\ ScheduledOnce
  /\ ScheduledIffMet
  /\ OrderedAfterDependencies
  /\ DeadlockedNeverScheduled
  /\ VerdictJustified

(* The initial state satisfies the invariant. *)
LEMMA PlanInitInv == PlanInit => PlanInv
<1> SUFFICES ASSUME PlanInit PROVE PlanInv
  OBVIOUS
<1>1. Scheduled = <<>> /\ DOMAIN <<>> = {}
  BY ConcatEmptySeq, EmptySeq DEF PlanInit, Scheduled
<1>2. PlanTypeOK
  BY EmptySeq DEF PlanInit, PlanTypeOK, Verdicts
<1>3. CountersExact /\ ScheduledIffMet /\ VerdictJustified
  BY DEF PlanInit, CountersExact, ScheduledIffMet, VerdictJustified
<1>4. ScheduledOnce
  BY <1>1 DEF ScheduledOnce, Distinct, Scheduled
<1>5. OrderedAfterDependencies
  BY <1>1 DEF PlanInit, OrderedAfterDependencies
<1>6. DeadlockedNeverScheduled
  BY <1>1 DEF DeadlockedNeverScheduled, Entries
<1> QED BY <1>2, <1>3, <1>4, <1>5, <1>6 DEF PlanInv

(* Receiving a plan. *)
LEMMA SubmitInv ==
  ASSUME PlanInv, NEW p \in Plans, Submit(p)
  PROVE  PlanInv'
<1>1. /\ verdict = "none" /\ verdict' = "checking" /\ plan' = p
      /\ queue = <<>> /\ ordered = <<>> /\ queue' = <<>> /\ ordered' = <<>>
  BY DEF Submit, PlanInv, VerdictJustified
<1>2. Scheduled' = <<>> /\ DOMAIN <<>> = {}
  BY <1>1, ConcatEmptySeq, EmptySeq DEF Scheduled
<1>3. PlanTypeOK'
  BY <1>1, EmptySeq, PlansAssumption DEF PlanTypeOK, Verdicts
<1>4. CountersExact' /\ ScheduledIffMet' /\ VerdictJustified'
  BY <1>1 DEF CountersExact, ScheduledIffMet, VerdictJustified
<1>5. ScheduledOnce'
  BY <1>2 DEF ScheduledOnce, Distinct, Scheduled
<1>6. OrderedAfterDependencies'
  BY <1>1, <1>2 DEF OrderedAfterDependencies
<1>7. DeadlockedNeverScheduled'
  BY <1>2 DEF DeadlockedNeverScheduled, Entries
<1> QED BY <1>3, <1>4, <1>5, <1>6, <1>7 DEF PlanInv

(* The counters are computed and the tasks without dependencies queued. *)
LEMMA StartSortInv ==
  ASSUME PlanInv, StartSort
  PROVE  PlanInv'
<1> DEFINE Roots == {c \in Ids(plan) : incoming'[c] = 0}
<1>1. /\ verdict' = "sorting" /\ plan' = plan /\ ordered' = <<>> /\ WellFormed(plan)
      /\ incoming' = IncomingCount(plan) /\ queue' \in Sortings(Roots)
      /\ plan \in Seq(PlannedTask)
  BY DEF StartSort, PlanInv, PlanTypeOK
<1>2. IsFiniteSet(Ids(plan)) /\ Ids(plan) \subseteq Nat
  BY <1>1, PlanFinite
<1>3. IsFiniteSet(Roots) /\ Roots \subseteq Nat
  BY <1>2, FS_Subset
<1>4. queue' \in Seq(Roots) /\ Entries(queue') = Roots /\ Distinct(queue')
  BY <1>1, <1>3, SortingsProperties
<1>5. queue' \in Seq(Ids(plan))
  BY <1>4, SeqMonotonic
<1>6. Scheduled' = queue'
  BY <1>1, <1>5, ConcatEmptySeq DEF Scheduled
<1>7. \A c \in Ids(plan) : /\ EdgesInto(plan, c) = Unmet(plan, c, {})
                           /\ incoming'[c] = Cardinality(Unmet(plan, c, {}))
                           /\ incoming'[c] \in Nat
  <2>1. SUFFICES ASSUME NEW c \in Ids(plan)
                 PROVE  /\ EdgesInto(plan, c) = Unmet(plan, c, {})
                        /\ incoming'[c] = Cardinality(Unmet(plan, c, {}))
                        /\ incoming'[c] \in Nat
    OBVIOUS
  <2>2. EdgesInto(plan, c) = Unmet(plan, c, {})
    BY DEF Unmet
  <2>3. EdgesInto(plan, c) \subseteq Edges(plan)
    BY DEF EdgesInto
  <2>4. Cardinality(EdgesInto(plan, c)) \in Nat
    BY <1>1, <2>3, PlanFinite, FS_Subset, FS_CardinalityType
  <2> QED BY <1>1, <2>2, <2>4 DEF IncomingCount
<1>8. Entries(<<>>) = {}
  BY EmptySeq DEF Entries
<1>9. PlanTypeOK'
  BY <1>1, <1>5, <1>7, EmptySeq DEF PlanTypeOK, Verdicts, IncomingCount
<1>10. CountersExact'
  BY <1>1, <1>7, <1>8 DEF CountersExact, Unmet
<1>11. ScheduledOnce'
  BY <1>4, <1>6 DEF ScheduledOnce, Scheduled
<1>12. ScheduledIffMet'
  BY <1>1, <1>4, <1>6 DEF ScheduledIffMet
<1>13. OrderedAfterDependencies'
  BY <1>1 DEF OrderedAfterDependencies
<1>14. DeadlockedNeverScheduled'
  <2>1. ASSUME NEW S \in SUBSET Ids(plan), Deadlocked(plan, S), NEW c \in S, c \in Roots
        PROVE  FALSE
    <3>1. Dependencies(plan, c) \subseteq {}
      BY <1>1, <1>7, <2>1, CountZero
    <3> QED BY <2>1, <3>1 DEF Deadlocked
  <2> QED BY <1>1, <1>4, <1>6, <2>1 DEF DeadlockedNeverScheduled
<1>15. VerdictJustified'
  BY <1>1 DEF VerdictJustified
<1> QED BY <1>9, <1>10, <1>11, <1>12, <1>13, <1>14, <1>15 DEF PlanInv

(* The head of the queue is ordered and its children are decremented. *)
LEMMA PopInv ==
  ASSUME PlanInv, Pop
  PROVE  PlanInv'
<1> DEFINE h == Head(queue)
           New == Released(h)
<1>1. /\ verdict = "sorting" /\ verdict' = "sorting" /\ plan' = plan /\ queue # <<>>
      /\ ordered' = Append(ordered, h) /\ incoming' = Decremented(h)
      /\ plan \in Seq(PlannedTask) /\ WellFormed(plan)
      /\ queue \in Seq(Ids(plan)) /\ ordered \in Seq(Ids(plan))
      /\ incoming \in [Ids(plan) -> Int]
  BY DEF Pop, PlanInv, PlanTypeOK, VerdictJustified
<1>2. PICK r \in Sortings(New) : queue' = Tail(queue) \o r
  BY DEF Pop
<1>3. IsFiniteSet(Ids(plan)) /\ Ids(plan) \subseteq Nat
  BY <1>1, PlanFinite
<1>4. New \subseteq Ids(plan) /\ IsFiniteSet(New) /\ New \subseteq Nat
  BY <1>3, FS_Subset DEF Released
<1>5. r \in Seq(New) /\ Entries(r) = New /\ Distinct(r)
  BY <1>4, SortingsProperties
<1>6. r \in Seq(Ids(plan))
  BY <1>4, <1>5, SeqMonotonic
<1>7. h \in Ids(plan) /\ Tail(queue) \in Seq(Ids(plan)) /\ h = queue[1] /\ 1 \in DOMAIN queue
  BY <1>1, HeadTailProperties, EmptySeq, LenProperties
<1>8. ordered' \in Seq(Ids(plan)) /\ queue' \in Seq(Ids(plan))
  BY <1>1, <1>2, <1>6, <1>7, AppendProperties, ConcatProperties
<1>9. Scheduled' = Scheduled \o r /\ Scheduled \in Seq(Ids(plan))
  <2>1. ordered \o queue \in Seq(Ids(plan))
    BY <1>1, ConcatProperties
  <2>2. Append(ordered, h) \o (Tail(queue) \o r) = (ordered \o queue) \o r
    <3>1. ordered \in Seq(Ids(plan)) /\ queue \in Seq(Ids(plan)) /\ queue # <<>>
      BY <1>1
    <3>2. \A s, q, x \in Seq(Ids(plan)) : q # <<>> => Advance(s, q, x) = (s \o q) \o x
      BY PopConcat
    <3>3. Advance(ordered, queue, r) = (ordered \o queue) \o r
      BY <1>6, <3>1, <3>2
    <3> QED BY <3>3 DEF Advance
  <2> QED BY <1>1, <1>2, <2>1, <2>2 DEF Scheduled
<1>10. Entries(Scheduled) = Entries(ordered) \cup Entries(queue)
  BY <1>1, EntriesConcat DEF Scheduled
<1>11. Entries(Scheduled') = Entries(Scheduled) \cup New
  BY <1>5, <1>6, <1>9, EntriesConcat
<1>12. h \in Entries(queue)
  BY <1>7 DEF Entries
<1>13. h \notin Entries(ordered)
  <2>1. SUFFICES ASSUME NEW i \in DOMAIN ordered, ordered[i] = h
                 PROVE  FALSE
    BY DEF Entries
  <2>2. /\ Len(ordered) \in Nat /\ Len(queue) \in Nat /\ DOMAIN ordered = 1..Len(ordered)
        /\ DOMAIN queue = 1..Len(queue)
        /\ DOMAIN Scheduled = 1..(Len(ordered) + Len(queue))
    BY <1>1, ConcatProperties, LenProperties DEF Scheduled
  <2>3. /\ i \in 1..(Len(ordered) + Len(queue)) /\ i <= Len(ordered)
        /\ Len(ordered) + 1 \in 1..(Len(ordered) + Len(queue))
        /\ ~(Len(ordered) + 1 <= Len(ordered)) /\ (Len(ordered) + 1) - Len(ordered) = 1
    BY <1>7, <2>1, <2>2
  <2>4. Scheduled[i] = h /\ Scheduled[Len(ordered) + 1] = h
    BY <1>1, <1>7, <2>1, <2>3, ConcatProperties DEF Scheduled
  <2>5. i = Len(ordered) + 1
    BY <2>2, <2>3, <2>4 DEF PlanInv, ScheduledOnce, Distinct, Scheduled
  <2> QED BY <2>2, <2>3, <2>5
<1>14. Entries(ordered') = Entries(ordered) \cup {h}
  <2>1. ordered' = ordered \o <<h>> /\ <<h>> \in Seq(Ids(plan))
    BY <1>1, <1>7, AppendIsConcat
  <2>2. Entries(<<h>>) = {h}
    BY DEF Entries
  <2>3. Entries(ordered \o <<h>>) = Entries(ordered) \cup Entries(<<h>>)
    <3>1. \A s, t \in Seq(Ids(plan)) : Entries(s \o t) = Entries(s) \cup Entries(t)
      BY EntriesConcat
    <3>2. ordered \in Seq(Ids(plan))
      BY <1>1
    <3> QED BY <2>1, <3>1, <3>2
  <2> QED BY <2>1, <2>2, <2>3
<1>15. \A c \in Ids(plan) : /\ incoming[c] = Cardinality(Unmet(plan, c, Entries(ordered)))
                            /\ incoming'[c] = Cardinality(Unmet(plan, c, Entries(ordered')))
                            /\ incoming'[c] = incoming[c] - Cardinality(EdgesBetween(plan, h, c))
                            /\ incoming[c] \in Nat /\ incoming'[c] \in Nat
                            /\ Cardinality(EdgesBetween(plan, h, c)) \in Nat
  <2>1. TAKE c \in Ids(plan)
  <2>2. incoming[c] = Cardinality(Unmet(plan, c, Entries(ordered)))
    BY <1>1 DEF PlanInv, CountersExact, Unmet
  <2>3. incoming'[c] = incoming[c] - Cardinality(EdgesBetween(plan, h, c))
    BY <1>1 DEF Decremented
  <2>4. /\ Cardinality(Unmet(plan, c, Entries(ordered))) \in Nat
        /\ Cardinality(Unmet(plan, c, Entries(ordered) \cup {h})) \in Nat
        /\ Cardinality(EdgesBetween(plan, h, c)) \in Nat
        /\ Cardinality(Unmet(plan, c, Entries(ordered) \cup {h}))
             = Cardinality(Unmet(plan, c, Entries(ordered))) - Cardinality(EdgesBetween(plan, h, c))
    BY <1>1, <1>13, CountSplit
  <2> QED BY <1>14, <2>2, <2>3, <2>4
<1>16. \A c \in Ids(plan) : incoming[c] = 0 <=> c \in Entries(Scheduled)
  BY <1>1 DEF PlanInv, ScheduledIffMet
<1>17. New \cap Entries(Scheduled) = {}
  BY <1>15, <1>16 DEF Released
<1>18. \A c \in Ids(plan) : incoming'[c] = 0 <=> c \in Entries(Scheduled')
  <2>1. TAKE c \in Ids(plan)
  <2>2. CASE incoming[c] = 0
    BY <1>11, <1>15, <1>16, <2>2
  <2>3. CASE incoming[c] # 0
    <3>1. c \notin Entries(Scheduled)
      BY <1>16, <2>3
    <3>2. incoming'[c] = 0 <=> incoming[c] \in 1..Cardinality(EdgesBetween(plan, h, c))
      BY <1>15, <2>3
    <3> QED BY <1>11, <3>1, <3>2 DEF Released
  <2> QED BY <2>2, <2>3
<1>19. \A d \in Dependencies(plan, h) : d \in Entries(ordered)
  <2>1. incoming[h] = 0
    BY <1>7, <1>10, <1>12, <1>16
  <2> QED BY <1>1, <1>7, <1>15, <2>1, CountZero
<1>20. PlanTypeOK'
  <2>1. incoming' \in [Ids(plan) -> Int]
    BY <1>1, <1>15 DEF Decremented
  <2> QED BY <1>1, <1>8, <2>1 DEF PlanTypeOK, Verdicts
<1>21. CountersExact'
  BY <1>1, <1>15 DEF CountersExact, Unmet
<1>22. ScheduledOnce'
  BY <1>5, <1>6, <1>9, <1>17, DistinctConcat DEF PlanInv, ScheduledOnce, Scheduled
<1>23. ScheduledIffMet'
  BY <1>1, <1>18 DEF ScheduledIffMet
<1>24. OrderedAfterDependencies'
  <2>1. /\ Len(ordered) \in Nat /\ DOMAIN ordered = 1..Len(ordered)
        /\ DOMAIN ordered' = 1..(Len(ordered) + 1)
        /\ \A i \in 1..Len(ordered) : ordered'[i] = ordered[i]
        /\ ordered'[Len(ordered) + 1] = h
    BY <1>1, <1>7, <1>8, AppendProperties, LenProperties
  <2>2. SUFFICES ASSUME NEW j \in 1..(Len(ordered) + 1), NEW d \in Dependencies(plan, ordered'[j])
                 PROVE  \E i \in 1..(j - 1) : ordered'[i] = d
    BY <1>1, <2>1 DEF OrderedAfterDependencies
  <2>3. CASE j \in 1..Len(ordered)
    <3>1. d \in Dependencies(plan, ordered[j])
      BY <2>1, <2>2, <2>3
    <3>2. PICK i \in 1..(j - 1) : ordered[i] = d
      BY <2>1, <2>3, <3>1 DEF PlanInv, OrderedAfterDependencies
    <3>3. i \in 1..Len(ordered)
      BY <2>1, <2>3, <3>2
    <3> QED BY <2>1, <3>2, <3>3
  <2>4. CASE j = Len(ordered) + 1
    <3>1. d \in Entries(ordered)
      BY <1>19, <2>1, <2>2, <2>4
    <3>2. PICK i \in 1..Len(ordered) : ordered[i] = d
      BY <2>1, <3>1 DEF Entries
    <3>3. i \in 1..(j - 1) /\ ordered'[i] = d
      BY <2>1, <2>4, <3>2
    <3> QED BY <3>3
  <2> QED BY <2>1, <2>2, <2>3, <2>4
<1>25. DeadlockedNeverScheduled'
  <2>1. SUFFICES ASSUME NEW S \in SUBSET Ids(plan), Deadlocked(plan, S),
                        NEW c \in S, c \in Entries(Scheduled')
                 PROVE  FALSE
    BY <1>1 DEF DeadlockedNeverScheduled
  <2>2. S \cap Entries(Scheduled) = {}
    BY <2>1 DEF PlanInv, DeadlockedNeverScheduled
  <2>3. incoming'[c] = 0
    BY <1>18, <2>1
  <2>4. Dependencies(plan, c) \subseteq Entries(ordered')
    BY <1>1, <1>15, <2>1, <2>3, CountZero
  <2>5. Entries(ordered') \subseteq Entries(Scheduled)
    BY <1>10, <1>12, <1>14
  <2> QED BY <2>1, <2>2, <2>4, <2>5 DEF Deadlocked
<1>26. VerdictJustified'
  BY <1>1 DEF VerdictJustified
<1> QED BY <1>20, <1>21, <1>22, <1>23, <1>24, <1>25, <1>26 DEF PlanInv

(* The sort ends with tasks left: they form a set that waits for itself. *)
LEMMA RefuseCycleInv ==
  ASSUME PlanInv, RefuseCycle
  PROVE  PlanInv'
<1> DEFINE Left == Ids(plan) \ Entries(ordered)
<1>1. /\ verdict = "sorting" /\ verdict' = "PlanValidationError" /\ queue = <<>>
      /\ Len(ordered) # Cardinality(Ids(plan))
      /\ plan' = plan /\ incoming' = incoming /\ queue' = queue /\ ordered' = ordered
      /\ plan \in Seq(PlannedTask) /\ WellFormed(plan) /\ ordered \in Seq(Ids(plan))
  BY DEF RefuseCycle, AllOrdered, PlanInv, PlanTypeOK, VerdictJustified
<1>2. Scheduled = ordered
  BY <1>1, ConcatEmptySeq DEF Scheduled
<1>3. Left # {}
  <2>1. Cardinality(Entries(ordered)) = Len(ordered)
    BY <1>1, <1>2, DistinctCardinality DEF PlanInv, ScheduledOnce, Scheduled
  <2>2. Entries(ordered) \subseteq Ids(plan)
    BY <1>1, LenProperties, ElementOfSeq DEF Entries
  <2>3. Left = {} => Entries(ordered) = Ids(plan)
    BY <2>2
  <2> QED BY <1>1, <2>1, <2>3
<1>4. ASSUME NEW c \in Left PROVE Dependencies(plan, c) \cap Left # {}
  <2>1. incoming[c] # 0
    BY <1>1, <1>2, <1>4 DEF PlanInv, ScheduledIffMet
  <2>2. incoming[c] = Cardinality(Unmet(plan, c, Entries(ordered)))
    BY <1>1 DEF PlanInv, CountersExact, Unmet
  <2>3. PICK d \in Dependencies(plan, c) : d \notin Entries(ordered)
    BY <1>1, <2>1, <2>2, CountZero
  <2>4. d \in Ids(plan)
    BY <1>1, <2>3 DEF WellFormed, KnownDependencies, Dependencies, EdgesInto
  <2> QED BY <2>3, <2>4
<1>5. Cyclic(plan)
  <2>1. Deadlocked(plan, Left)
    BY <1>3, <1>4 DEF Deadlocked
  <2> QED BY <2>1 DEF Cyclic
<1> QED BY <1>1, <1>5 DEF PlanInv, PlanTypeOK, Verdicts, CountersExact, ScheduledOnce, ScheduledIffMet,
           OrderedAfterDependencies, DeadlockedNeverScheduled, VerdictJustified, Scheduled

(* Every step preserves the invariant. *)
LEMMA PlanStepInv == PlanInv /\ [PlanNext]_planVars => PlanInv'
<1> SUFFICES ASSUME PlanInv, [PlanNext]_planVars PROVE PlanInv'
  OBVIOUS
<1> USE DEF PlanInv, PlanTypeOK, Verdicts, CountersExact, ScheduledOnce, ScheduledIffMet,
            OrderedAfterDependencies, DeadlockedNeverScheduled, VerdictJustified, Scheduled
<1>1. ASSUME NEW p \in Plans, Submit(p) PROVE PlanInv'
  BY <1>1, SubmitInv
<1>2. CASE RefuseTooManyTasks
  BY <1>2 DEF RefuseTooManyTasks
<1>3. CASE RefuseMalformed
  BY <1>3 DEF RefuseMalformed
<1>4. CASE StartSort
  BY <1>4, StartSortInv
<1>5. CASE Pop
  BY <1>5, PopInv
<1>6. CASE AcceptPlan
  BY <1>6 DEF AcceptPlan, AllOrdered
<1>7. CASE RefuseCycle
  BY <1>7, RefuseCycleInv
<1>8. CASE UNCHANGED planVars
  BY <1>8 DEF planVars, AllOrdered
<1> QED BY <1>1, <1>2, <1>3, <1>4, <1>5, <1>6, <1>7, <1>8 DEF PlanNext, ValidationStep

(* The invariant holds in every reachable state. *)
THEOREM PlanInvariance == PlanSpec => []PlanInv
<1>1. PlanInit => PlanInv
  BY PlanInitInv
<1>2. PlanInv /\ [PlanNext]_planVars => PlanInv'
  BY PlanStepInv
<1> QED BY <1>1, <1>2, PTL DEF PlanSpec

(* The variables keep their types. *)
THEOREM PlanTypeCorrect == PlanSpec => []PlanTypeOK
<1>1. PlanInv => PlanTypeOK
  BY DEF PlanInv
<1> QED BY <1>1, PlanInvariance, PTL

(* incoming[c] counts exactly the unmet entries of c, duplicates included. *)
THEOREM CountersStayExact == PlanSpec => []CountersExact
<1>1. PlanInv => CountersExact
  BY DEF PlanInv
<1> QED BY <1>1, PlanInvariance, PTL

(* No task enters the queue twice, however often a dependency is listed:   *)
(* a task is queued exactly when its last unmet entry is met.              *)
THEOREM TasksScheduledOnce == PlanSpec => []ScheduledOnce
<1>1. PlanInv => ScheduledOnce
  BY DEF PlanInv
<1> QED BY <1>1, PlanInvariance, PTL

(* The accepted order is complete and runs dependencies first. *)
THEOREM OrderIsTopological == PlanSpec => [](ScheduledOnce /\ OrderRespectsDependencies)
<1>1. ASSUME PlanInv PROVE ScheduledOnce /\ OrderRespectsDependencies
  <2>1. ScheduledOnce /\ OrderedAfterDependencies /\ plan \in Seq(PlannedTask) /\ ordered \in Seq(Ids(plan))
    BY <1>1 DEF PlanInv, PlanTypeOK
  <2>2. ASSUME verdict = "valid" PROVE Entries(ordered) = Ids(plan)
    <3>1. queue = <<>> /\ Len(ordered) = Cardinality(Ids(plan))
      BY <1>1, <2>2 DEF PlanInv, VerdictJustified, AllOrdered
    <3>2. Distinct(ordered)
      BY <2>1, <3>1, ConcatEmptySeq DEF ScheduledOnce
    <3>3. Cardinality(Entries(ordered)) = Len(ordered)
      BY <2>1, <3>2, DistinctCardinality
    <3>4. Entries(ordered) \in SUBSET Ids(plan)
      BY <2>1, LenProperties, ElementOfSeq DEF Entries
    <3> QED BY <2>1, <3>1, <3>3, <3>4, PlanFinite, FS_Subset
  <2> QED BY <2>1, <2>2 DEF OrderRespectsDependencies, OrderedAfterDependencies
<1> QED BY <1>1, PlanInvariance, PTL

(* validate_plan refuses a well-formed plan after sorting it if and only   *)
(* if some of its tasks wait for one another.                              *)
THEOREM CyclesExactlyRefused == PlanSpec => []RefusedIffCyclic
<1>1. ASSUME PlanInv, ScheduledOnce /\ OrderRespectsDependencies PROVE RefusedIffCyclic
  <2>1. ASSUME verdict = "valid", Cyclic(plan) PROVE FALSE
    <3>1. PICK S \in SUBSET Ids(plan) : Deadlocked(plan, S)
      BY <2>1 DEF Cyclic
    <3>2. S \cap Entries(Scheduled) = {}
      BY <1>1, <3>1 DEF PlanInv, DeadlockedNeverScheduled
    <3>3. Entries(ordered) = Ids(plan) /\ Scheduled = ordered
      BY <1>1, <2>1, ConcatEmptySeq
      DEF PlanInv, PlanTypeOK, VerdictJustified, OrderRespectsDependencies, Scheduled
    <3> QED BY <3>1, <3>2, <3>3 DEF Deadlocked
  <2>2. verdict = "PlanValidationError" /\ WellFormed(plan) => Cyclic(plan)
    BY <1>1 DEF PlanInv, VerdictJustified
  <2> QED BY <2>1, <2>2 DEF RefusedIffCyclic
<1> QED BY <1>1, PlanInvariance, OrderIsTopological, PTL

=============================================================================
