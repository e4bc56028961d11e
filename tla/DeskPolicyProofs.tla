---------------------------- MODULE DeskPolicyProofs ----------------------------
(***************************************************************************)
(* Proofs about DeskPolicy, for every set of profiles, every universe and  *)
(* every list of proposals: the two sorts rearrange a list into order, the *)
(* loop of apply_policy keeps the floors and the caps and skips no name    *)
(* without need, every change between two books is told once, a proposal   *)
(* and an appetite decide the book, and a tighter appetite never takes     *)
(* more names.                                                             *)
(***************************************************************************)
EXTENDS DeskPolicy, FiniteSetTheorems, FunctionTheorems, WellFoundedInduction, TLAPS

--------------------------------------------------------------------------------
(* Sorting. *)

(* before[i] are the positions ahead of i in a strict total order.          *)
IsOrder(before, D) == /\ before \in [D -> SUBSET D]
                      /\ \A i \in D : i \notin before[i]
                      /\ \A i, j \in D : i = j \/ i \in before[j] \/ j \in before[i]
                      /\ \A i, j \in D : i \in before[j] => before[i] \subseteq before[j]

(* sorted puts every element somewhere: the element at p[k] comes k-th, p is *)
(* onto, and what comes earlier is ahead in the order.                      *)
LEMMA SortedIsInOrder ==
  ASSUME NEW recs \in Seq(Rec), NEW before, IsOrder(before, DOMAIN recs)
  PROVE  \E p \in Surjection(DOMAIN recs, DOMAIN recs) :
            /\ Sorted(recs, before) = [k \in DOMAIN recs |-> recs[p[k]]]
            /\ \A k, l \in DOMAIN recs : k < l => p[k] \in before[p[l]]
<1> DEFINE n == Len(recs)
           D == DOMAIN recs
           place == [i \in D |-> Cardinality(before[i]) + 1]
           p == [k \in D |-> CHOOSE i \in D : Cardinality(before[i]) + 1 = k]
<1>1. n \in Nat /\ D = 1..n /\ IsFiniteSet(D) /\ Cardinality(D) = n
  <2>1. n \in Nat /\ D = 1..n
    OBVIOUS
  <2>2. IsFiniteSet(1..n) /\ Cardinality(1..n) = IF 1 > n THEN 0 ELSE n - 1 + 1
    BY <2>1, FS_Interval
  <2> HIDE DEF n, D
  <2> QED
    BY <2>1, <2>2
<1>2. ASSUME NEW i \in D
      PROVE  /\ IsFiniteSet(before[i]) /\ Cardinality(before[i]) \in Nat
             /\ Cardinality(before[i]) + 1 \in D
  <2>1. before[i] \in SUBSET (D \ {i})
    BY DEF IsOrder
  <2>2. IsFiniteSet(D \ {i}) /\ Cardinality(D \ {i}) = n - 1
    BY <1>1, FS_RemoveElement
  <2>3. IsFiniteSet(before[i]) /\ Cardinality(before[i]) <= n - 1
    BY <2>1, <2>2, FS_Subset
  <2>4. Cardinality(before[i]) \in Nat
    BY <2>3, FS_CardinalityType
  <2> QED
    BY <2>3, <2>4, <1>1
<1>3. ASSUME NEW i \in D, NEW j \in D, i \in before[j]
      PROVE  place[i] < place[j]
  <2>1. before[i] \in SUBSET before[j] /\ i \notin before[i]
    BY <1>3 DEF IsOrder
  <2>2. Cardinality(before[i]) <= Cardinality(before[j])
        /\ Cardinality(before[i]) # Cardinality(before[j])
    BY <1>2, <1>3, <2>1, FS_Subset
  <2> QED
    BY <1>2, <2>2
<1>4. place \in [D -> D]
  BY <1>2
<1>5. place \in Injection(D, D)
  <2>1. ASSUME NEW i \in D, NEW j \in D, place[i] = place[j]
        PROVE  i = j
    <3> HIDE DEF place
    <3>1. place[i] \in Int /\ place[j] \in Int
      BY <1>1, <1>4
    <3>2. i \notin before[j] /\ j \notin before[i]
      BY <1>3, <2>1, <3>1
    <3> QED
      BY <3>2 DEF IsOrder
  <2> QED
    BY <1>4, <2>1 DEF Injection, IsInjective
<1>6. place \in Surjection(D, D)
  BY <1>1, <1>5, FS_Injection
<1>7. \A k \in D : \E i \in D : Cardinality(before[i]) + 1 = k
  BY <1>6 DEF Surjection
<1>8. \A k \in D : p[k] \in D /\ place[p[k]] = k
  BY <1>7
<1>9. p \in Surjection(D, D)
  <2>1. p \in [D -> D]
    BY <1>7
  <2>2. ASSUME NEW i \in D
        PROVE  p[place[i]] = i
    <3>1. place[i] \in D /\ p[place[i]] \in D /\ place[p[place[i]]] = place[i]
      BY <1>4, <1>8
    <3> HIDE DEF p, place
    <3> QED
      BY <1>5, <3>1 DEF Injection, IsInjective
  <2> HIDE DEF p, place
  <2> QED
    BY <2>1, <2>2, <1>4 DEF Surjection
<1>10. Sorted(recs, before) = [k \in D |-> recs[p[k]]]
  BY DEF Sorted
<1> HIDE DEF p, place, n, D
<1>11. ASSUME NEW k \in D, NEW l \in D, k < l
       PROVE  p[k] \in before[p[l]]
  <2>1. p[k] \in D /\ p[l] \in D /\ place[p[k]] = k /\ place[p[l]] = l
    BY <1>8
  <2>2. p[l] \notin before[p[k]] /\ p[k] # p[l]
    BY <1>1, <1>3, <2>1, <1>11
  <2> QED
    BY <2>1, <2>2 DEF IsOrder, D
<1> QED
  BY <1>9, <1>10, <1>11 DEF D

(* Whatever the order, sorting a list of recommendations gives one.         *)
LEMMA SortedIsList ==
  ASSUME NEW recs \in Seq(Rec), NEW before, IsOrder(before, DOMAIN recs)
  PROVE  /\ Sorted(recs, before) \in Seq(Rec)
         /\ DOMAIN Sorted(recs, before) = DOMAIN recs
         /\ Tickers(Sorted(recs, before)) = Tickers(recs)
<1>1. PICK p \in Surjection(DOMAIN recs, DOMAIN recs) :
             Sorted(recs, before) = [k \in DOMAIN recs |-> recs[p[k]]]
  BY SortedIsInOrder
<1>2. /\ p \in [DOMAIN recs -> DOMAIN recs]
      /\ \A i \in DOMAIN recs : \E k \in DOMAIN recs : p[k] = i
  BY DEF Surjection
<1>3. Len(recs) \in Nat /\ DOMAIN recs = 1..Len(recs)
  OBVIOUS
<1>4. \A k \in DOMAIN recs : recs[k] \in Rec
  OBVIOUS
<1>5. [k \in DOMAIN recs |-> recs[p[k]]] \in Seq(Rec)
  <2>1. \A k \in 1..Len(recs) : recs[p[k]] \in Rec
    BY <1>2, <1>3, <1>4
  <2> QED
    BY <1>3, <2>1
<1>6. Tickers(Sorted(recs, before)) = {recs[p[k]].ticker : k \in DOMAIN recs}
  BY <1>1 DEF Tickers
<1>7. {recs[p[k]].ticker : k \in DOMAIN recs} = {recs[i].ticker : i \in DOMAIN recs}
  <2>1. ASSUME NEW i \in DOMAIN recs
        PROVE  recs[i].ticker \in {recs[p[k]].ticker : k \in DOMAIN recs}
    BY <1>2
  <2>2. ASSUME NEW k \in DOMAIN recs
        PROVE  recs[p[k]].ticker \in {recs[i].ticker : i \in DOMAIN recs}
    BY <1>2
  <2> QED
    BY <2>1, <2>2
<1> QED
  BY <1>1, <1>5, <1>6, <1>7 DEF Tickers

(* The fields the two sorts compare are numbers.                            *)
LEMMA KeysAreNumbers ==
  ASSUME NEW recs \in Seq(Rec), NEW k \in DOMAIN recs
  PROVE  /\ recs[k].conviction \in Int /\ recs[k].composite \in Int
         /\ recs[k].ticker \in Int /\ Rank[recs[k].action] \in Int
<1>1. recs[k] \in Rec
  OBVIOUS
<1>2. recs[k].conviction \in Unit /\ recs[k].composite \in Unit
  BY <1>1 DEF Rec
<1>3. \A u \in Unit : u \in Int
  BY DEF Unit
<1>4. recs[k].ticker \in Nat /\ recs[k].action \in Actions
  BY <1>1 DEF Rec
<1>5. \A a \in Actions : Rank[a] \in Int
  BY DEF Actions, Rank
<1> QED
  BY <1>2, <1>3, <1>4, <1>5

(* The key of the first sort is a total order, ties by position.             *)
LEMMA HigherIsOrder ==
  ASSUME NEW recs \in Seq(Rec)
  PROVE  IsOrder([i \in DOMAIN recs |-> {j \in DOMAIN recs : Higher(recs, j, i)}], DOMAIN recs)
<1> DEFINE D == DOMAIN recs
<1>1. D \subseteq Int
  OBVIOUS
<1>2. \A i \in D : ~Higher(recs, i, i)
  BY <1>1, KeysAreNumbers DEF Higher
<1>3. \A i, j \in D : i = j \/ Higher(recs, i, j) \/ Higher(recs, j, i)
  BY <1>1, KeysAreNumbers DEF Higher
<1>4. \A i, j, k \in D : Higher(recs, k, i) /\ Higher(recs, i, j) => Higher(recs, k, j)
  BY <1>1, KeysAreNumbers DEF Higher
<1> QED
  BY <1>2, <1>3, <1>4 DEF IsOrder

(* So is that of the second.                                                 *)
LEMMA ListedIsOrder ==
  ASSUME NEW recs \in Seq(Rec)
  PROVE  IsOrder([i \in DOMAIN recs |-> {j \in DOMAIN recs : Listed(recs, j, i)}], DOMAIN recs)
<1> DEFINE D == DOMAIN recs
<1>1. D \subseteq Int
  OBVIOUS
<1>2. \A i \in D : ~Listed(recs, i, i)
  BY <1>1, KeysAreNumbers DEF Listed
<1>3. \A i, j \in D : i = j \/ Listed(recs, i, j) \/ Listed(recs, j, i)
  BY <1>1, KeysAreNumbers DEF Listed
<1>4. \A i, j, k \in D : Listed(recs, k, i) /\ Listed(recs, i, j) => Listed(recs, k, j)
  BY <1>1, KeysAreNumbers DEF Listed
<1> QED
  BY <1>2, <1>3, <1>4 DEF IsOrder

(* What apply_policy ranks comes out complete, the more convincing first.   *)
LEMMA RankedIsSorted ==
  ASSUME NEW recs \in Seq(Rec)
  PROVE  /\ Ranked(recs) \in Seq(Rec)
         /\ DOMAIN Ranked(recs) = DOMAIN recs
         /\ Tickers(Ranked(recs)) = Tickers(recs)
         /\ \A k, l \in DOMAIN Ranked(recs) :
              k < l => Ranked(recs)[k].conviction >= Ranked(recs)[l].conviction
<1> DEFINE D == DOMAIN recs
           before == [i \in D |-> {j \in D : Higher(recs, j, i)}]
<1>2. IsOrder(before, D)
  BY HigherIsOrder
<1>3. \A i, j \in D : i \in before[j] => recs[i].conviction >= recs[j].conviction
  BY KeysAreNumbers DEF Higher
<1>4. Ranked(recs) = Sorted(recs, before)
  BY DEF Ranked
<1> HIDE DEF before
<1>5. PICK p \in Surjection(D, D) :
             /\ Sorted(recs, before) = [k \in D |-> recs[p[k]]]
             /\ \A k, l \in D : k < l => p[k] \in before[p[l]]
  BY <1>2, SortedIsInOrder
<1>6. p \in [D -> D]
  BY DEF Surjection
<1>7. \A k, l \in D : k < l => recs[p[k]].conviction >= recs[p[l]].conviction
  BY <1>3, <1>5, <1>6
<1>8. /\ Sorted(recs, before) \in Seq(Rec) /\ DOMAIN Sorted(recs, before) = D
      /\ Tickers(Sorted(recs, before)) = Tickers(recs)
  BY <1>2, SortedIsList
<1> QED
  BY <1>4, <1>5, <1>7, <1>8

(* A book holds the names it was made from, none lost and none added.       *)
LEMMA BookIsList ==
  ASSUME NEW recs \in Seq(Rec)
  PROVE  /\ Book(recs) \in Seq(Rec)
         /\ Tickers(Book(recs)) = Tickers(recs)
<1> DEFINE D == DOMAIN recs
           before == [i \in D |-> {j \in D : Listed(recs, j, i)}]
<1>2. IsOrder(before, D)
  BY ListedIsOrder
<1> HIDE DEF before
<1> QED
  BY <1>2, SortedIsList DEF Book, before

--------------------------------------------------------------------------------
(* The loop of apply_policy. *)

(* A recommendation's sector is one the counts know.                        *)
LEMMA SectorKnown == \A r \in Rec : SectorKey(r) \in Sectors
  BY PolicyAssumption DEF SectorKey, Rec

(* The profile in use has its two caps.                                     *)
LEMMA CapsAreNumbers ==
  TypeOK => Profile.max_accumulate \in Nat /\ Profile.max_per_sector \in Nat
<1> SUFFICES ASSUME TypeOK PROVE Profile.max_accumulate \in Nat /\ Profile.max_per_sector \in Nat
  OBVIOUS
<1>1. task.appetite \in Appetites
  BY DEF TypeOK
<1> QED
  BY <1>1, PolicyAssumption DEF Profile, Thresholds

(* What is taken is a finite set of positions already decided.              *)
LEMMA TakenIsFinite ==
  ASSUME TypeOK
  PROVE  /\ Len(verdict) \in Nat /\ Decided = 1..Len(verdict)
         /\ Taken \subseteq Decided /\ IsFiniteSet(Taken)
         /\ \A s : TakenIn(s) \subseteq Taken /\ IsFiniteSet(TakenIn(s))
<1>1. Len(verdict) \in Nat /\ IsFiniteSet(1..Len(verdict))
  <2>1. Len(verdict) \in Nat
    BY DEF TypeOK
  <2> QED
    BY <2>1, FS_Interval
<1>2. Taken \in SUBSET (1..Len(verdict)) /\ \A s : TakenIn(s) \in SUBSET Taken
  BY DEF Taken, TakenIn, Decided
<1>3. IsFiniteSet(Taken)
  BY <1>1, <1>2, FS_Subset
<1>4. \A s : IsFiniteSet(TakenIn(s))
  BY <1>2, <1>3, FS_Subset
<1> QED
  BY <1>1, <1>2, <1>3, <1>4 DEF Decided

(* One pass of the loop keeps what it has to keep.                          *)
LEMMA ConsiderKeeps ==
  ASSUME IInv, Consider
  PROVE  IInv'
<1> DEFINE p == Profile
           k == Len(verdict) + 1
           r == ranked[k]
           s == SectorKey(r)
<1>1. /\ TypeOK /\ Ahead /\ InOrder /\ Counted /\ Capped /\ Cleared /\ Beaten
      /\ ranked \in Seq(Rec) /\ verdict \in Seq(Actions)
      /\ spent \in [Sectors -> Nat] /\ taken \in Nat
  BY DEF IInv, TypeOK
<1>2. /\ Len(verdict) \in Nat /\ k \in Nat /\ k \in DOMAIN ranked
      /\ Decided = 1..Len(verdict) /\ k \notin Decided
  BY <1>1 DEF Consider, Decided
<1>3. r \in Rec /\ s \in Sectors
  <2>1. r \in Rec
    BY <1>1, <1>2
  <2> QED
    BY <2>1, SectorKnown
<1>4. p.max_accumulate \in Nat /\ p.max_per_sector \in Nat
  BY <1>1, CapsAreNumbers
<1>5. PICK a \in Actions :
        /\ verdict' = Append(verdict, a)
        /\ spent' = [spent EXCEPT ![s] = @ + Cost(a)]
        /\ taken' = taken + Cost(a)
        /\ a = "accumulate" => /\ Clears(r, p)
                               /\ ~Full(spent[s], p.max_per_sector)
                               /\ ~Full(taken, p.max_accumulate)
        /\ a # "accumulate" => \/ ~Clears(r, p)
                               \/ Full(spent[s], p.max_per_sector)
                               \/ Full(taken, p.max_accumulate)
  <2> DEFINE demoted == IF Priced(r) = "accumulate" THEN "watch" ELSE Priced(r)
             a == IF \/ ~Clears(r, p)
                     \/ Full(spent[s], p.max_per_sector)
                     \/ Full(taken, p.max_accumulate)
                  THEN demoted ELSE "accumulate"
  <2>1. r.action \in Actions
    BY <1>3 DEF Rec
  <2>2. demoted \in Actions /\ demoted # "accumulate"
    BY <2>1 DEF Priced, Actions
  <2>3. /\ verdict' = Append(verdict, a)
        /\ spent' = [spent EXCEPT ![s] = @ + Cost(a)]
        /\ taken' = taken + Cost(a)
    BY DEF Consider, Profile
  <2> HIDE DEF demoted
  <2>4. a \in Actions
    BY <2>2 DEF Actions
  <2> QED
    BY <2>2, <2>3, <2>4
<1>6. UNCHANGED <<runs, task, raw, ranked, view>> /\ Profile' = p
  BY DEF Consider, Profile
<1>7. /\ Cost(a) \in Nat
      /\ a = "accumulate" => Cost(a) = 1
      /\ a # "accumulate" => Cost(a) = 0
  BY DEF Cost
<1>8. /\ Len(verdict') = k /\ verdict'[k] = a
      /\ \A i \in Decided : verdict'[i] = verdict[i]
  BY <1>1, <1>2, <1>5
<1>9. /\ IsFiniteSet(Taken) /\ Taken \subseteq Decided /\ k \notin Taken
      /\ \A q : IsFiniteSet(TakenIn(q)) /\ TakenIn(q) \subseteq Taken /\ k \notin TakenIn(q)
  BY <1>1, <1>2, TakenIsFinite
<1>10. Decided' = Decided \cup {k}
  BY <1>2, <1>8 DEF Decided
<1>11. /\ a = "accumulate" => Taken' = Taken \cup {k}
       /\ a # "accumulate" => Taken' = Taken
  BY <1>2, <1>8, <1>10 DEF Taken
<1>12. ASSUME NEW q \in Sectors
       PROVE  /\ a = "accumulate" /\ q = s => TakenIn(q)' = TakenIn(q) \cup {k}
              /\ ~(a = "accumulate" /\ q = s) => TakenIn(q)' = TakenIn(q)
  BY <1>6, <1>11 DEF TakenIn
<1> HIDE DEF p, k, r, s
<1>13. TypeOK'
  <2>1. verdict' \in Seq(Actions)
    BY <1>1, <1>5
  <2>2. spent' \in [Sectors -> Nat]
    BY <1>1, <1>3, <1>5, <1>7
  <2>3. taken' \in Nat
    BY <1>1, <1>5, <1>7
  <2> QED
    BY <1>1, <1>6, <2>1, <2>2, <2>3 DEF TypeOK
<1>14. Ahead' /\ InOrder'
  BY <1>1, <1>2, <1>6, <1>8 DEF Ahead, InOrder
<1>15. Counted'
  <2>1. taken' = Cardinality(Taken')
    BY <1>1, <1>5, <1>7, <1>9, <1>11, FS_AddElement DEF Counted
  <2>2. ASSUME NEW q \in Sectors
        PROVE  spent'[q] = Cardinality(TakenIn(q)')
    <3>1. spent[q] = Cardinality(TakenIn(q)) /\ spent[q] \in Nat
      BY <1>1 DEF Counted
    <3>2. CASE a = "accumulate" /\ q = s
      <4>1. spent'[q] = spent[q] + 1
        BY <1>1, <1>5, <1>7, <3>2
      <4>2. Cardinality(TakenIn(q)') = Cardinality(TakenIn(q)) + 1
        BY <1>9, <1>12, <3>2, FS_AddElement
      <4> QED
        BY <3>1, <4>1, <4>2
    <3>3. CASE ~(a = "accumulate" /\ q = s)
      <4>1. spent'[q] = spent[q]
        BY <1>1, <1>5, <1>7, <3>1, <3>3
      <4> QED
        BY <1>12, <3>1, <3>3, <4>1
    <3> QED
      BY <3>2, <3>3
  <2> QED
    BY <2>1, <2>2 DEF Counted
<1>16. Capped'
  <2>1. taken' <= p.max_accumulate
    BY <1>1, <1>4, <1>5, <1>7 DEF Capped, Full, p
  <2>2. ASSUME NEW q \in Sectors
        PROVE  spent'[q] <= p.max_per_sector
    BY <1>1, <1>4, <1>5, <1>7 DEF Capped, Full, p
  <2> QED
    BY <1>6, <2>1, <2>2 DEF Capped
<1>17. Cleared'
  <2>1. \A i \in Taken : Clears(ranked[i], p)
    BY <1>1 DEF Cleared, p
  <2>2. \A i \in Taken' : Clears(ranked[i], p)
    BY <1>5, <1>11, <2>1 DEF r
  <2> QED
    BY <1>6, <2>2 DEF Cleared
<1>18. Beaten'
  <2> SUFFICES ASSUME NEW i \in Decided' \ Taken', Clears(ranked[i], p),
                      NEW q, q = SectorKey(ranked[i])
               PROVE  \/ Cardinality({j \in TakenIn(q)' : j < i}) >= p.max_per_sector
                      \/ Cardinality({j \in Taken' : j < i}) >= p.max_accumulate
    BY <1>6 DEF Beaten
  <2>1. i \in DOMAIN ranked /\ q \in Sectors
    <3>1. i \in DOMAIN ranked
      BY <1>1, <1>2, <1>10 DEF Ahead
    <3> QED
      BY <1>1, <3>1, SectorKnown
  <2>2. CASE i \in Decided
    <3>1. i \notin Taken /\ i < k /\ i \in Nat
      BY <1>2, <1>11, <2>2 DEF k
    <3>2. \/ Cardinality({j \in TakenIn(q) : j < i}) >= p.max_per_sector
          \/ Cardinality({j \in Taken : j < i}) >= p.max_accumulate
      BY <1>1, <2>2, <3>1 DEF Beaten, p
    <3>3. ~(k < i)
      BY <1>2, <3>1
    <3>4. {j \in TakenIn(q)' : j < i} = {j \in TakenIn(q) : j < i}
      BY <1>12, <2>1, <3>3
    <3>5. {j \in Taken' : j < i} = {j \in Taken : j < i}
      BY <1>11, <3>3
    <3> QED
      BY <3>2, <3>4, <3>5
  <2>3. CASE i = k
    <3>1. a # "accumulate" /\ q = s
      BY <1>11, <2>3 DEF r, s
    <3>2. \/ Full(spent[s], p.max_per_sector)
          \/ Full(taken, p.max_accumulate)
      BY <1>5, <2>3, <3>1 DEF r
    <3>3. \A j \in Decided : j < k
      BY <1>2 DEF k
    <3>4. {j \in TakenIn(q)' : j < i} = TakenIn(s)
      BY <1>9, <1>12, <2>1, <2>3, <3>1, <3>3
    <3>5. {j \in Taken' : j < i} = Taken
      BY <1>9, <1>11, <2>3, <3>1, <3>3
    <3>6. spent[s] = Cardinality(TakenIn(s)) /\ taken = Cardinality(Taken)
      BY <1>1, <1>3 DEF Counted
    <3> QED
      BY <3>2, <3>4, <3>5, <3>6 DEF Full
  <2> QED
    BY <1>10, <2>2, <2>3
<1> QED
  BY <1>13, <1>14, <1>15, <1>16, <1>17, <1>18 DEF IInv

(* NoTask and NoView have an appetite.                                      *)
LEMMA SomeAppetite == (CHOOSE a \in Appetites : TRUE) \in Appetites
  BY PolicyAssumption

LEMMA InitHolds == Init => IInv
<1> SUFFICES ASSUME Init PROVE IInv
  OBVIOUS
<1>1. /\ raw = <<>> /\ ranked = <<>> /\ verdict = <<>>
      /\ spent = [s \in Sectors |-> 0] /\ taken = 0
  BY DEF Init
<1>2. TypeOK
  <2>1. /\ task \in [kind : {"none", "run", "view"}, run : Nat, appetite : Appetites]
        /\ view \in [run : Nat, appetite : Appetites, repoliced : BOOLEAN, book : Seq(Rec)]
    <3> DEFINE a == CHOOSE x \in Appetites : TRUE
    <3>1. a \in Appetites
      BY SomeAppetite
    <3>2. /\ task = [kind |-> "none", run |-> 0, appetite |-> a]
          /\ view = [run |-> 0, appetite |-> a, repoliced |-> FALSE, book |-> <<>>]
      BY DEF Init, NoTask, NoView
    <3> HIDE DEF a
    <3> QED
      BY <3>1, <3>2
  <2>2. OldRun \in Run
    <3> DEFINE a == CHOOSE x \in Appetites : TRUE
               recs == CHOOSE x \in Raws : TRUE
    <3>1. a \in Appetites
      BY SomeAppetite
    <3>2. recs \in Seq(Rec)
      BY PolicyAssumption
    <3>3. OldRun = [raw |-> <<>>, book |-> Book(recs), appetite |-> a]
      BY DEF OldRun
    <3> HIDE DEF a, recs
    <3>4. Book(recs) \in Seq(Rec)
      BY <3>2, BookIsList
    <3> QED
      BY <3>1, <3>3, <3>4 DEF Run
  <2>3. runs \in Seq(Run)
    <3>1. runs = <<>> \/ runs = <<OldRun>>
      BY DEF Init
    <3>2. <<>> \in Seq(Run)
      OBVIOUS
    <3> HIDE DEF OldRun
    <3>3. <<OldRun>> \in Seq(Run)
      BY <2>2
    <3> QED
      BY <3>1, <3>2, <3>3
  <2> QED
    BY <1>1, <2>1, <2>3 DEF TypeOK
<1>3. Ahead /\ InOrder
  BY <1>1 DEF Ahead, InOrder
<1>4. Decided = {} /\ Taken = {} /\ \A s \in Sectors : TakenIn(s) = {}
  BY <1>1 DEF Decided, Taken, TakenIn
<1>5. Counted
  BY <1>1, <1>4, FS_EmptySet DEF Counted
<1>6. Capped
  BY <1>1, <1>2, CapsAreNumbers DEF Capped
<1>7. Cleared /\ Beaten
  BY <1>4 DEF Cleared, Beaten
<1> QED
  BY <1>2, <1>3, <1>5, <1>6, <1>7 DEF IInv

(* Where apply_policy begins, and where it is over, nothing is decided,      *)
(* taken or counted.                                                        *)
LEMMA NothingTaken ==
  ASSUME verdict' = <<>>, taken' = 0, spent' = [s \in Sectors |-> 0],
         task'.appetite \in Appetites
  PROVE  Counted' /\ Capped' /\ Cleared' /\ Beaten'
<1>1. Decided' = {} /\ Taken' = {} /\ \A s \in Sectors : TakenIn(s)' = {}
  BY DEF Decided, Taken, TakenIn
<1>2. Counted'
  BY <1>1, FS_EmptySet DEF Counted
<1>3. Capped'
  <2>1. Profile'.max_accumulate \in Nat /\ Profile'.max_per_sector \in Nat
    BY PolicyAssumption DEF Profile, Thresholds
  <2> QED
    BY <2>1 DEF Capped
<1> QED
  BY <1>1, <1>2, <1>3 DEF Cleared, Beaten

(* Calling apply_policy establishes what its loop keeps.                    *)
LEMMA ApplyEstablishes ==
  ASSUME TypeOK, NEW kind \in {"run", "view"}, NEW n \in Nat, NEW a \in Appetites,
         NEW recs \in Seq(Rec), Apply(kind, n, a, recs), view' = NoView, UNCHANGED runs
  PROVE  IInv'
<1>1. /\ task' = [kind |-> kind, run |-> n, appetite |-> a]
      /\ raw' = recs /\ ranked' = Ranked(recs) /\ verdict' = <<>>
      /\ spent' = [s \in Sectors |-> 0] /\ taken' = 0
  BY DEF Apply
<1>2. task' \in [kind : {"none", "run", "view"}, run : Nat, appetite : Appetites]
  BY <1>1
<1>3. view' \in [run : Nat, appetite : Appetites, repoliced : BOOLEAN, book : Seq(Rec)]
  <2> DEFINE b == CHOOSE x \in Appetites : TRUE
  <2>1. b \in Appetites
    BY SomeAppetite
  <2>2. view' = [run |-> 0, appetite |-> b, repoliced |-> FALSE, book |-> <<>>]
    BY DEF NoView
  <2> HIDE DEF b
  <2> QED
    BY <2>1, <2>2
<1>4. ranked' \in Seq(Rec) /\ InOrder'
  BY <1>1, RankedIsSorted DEF InOrder
<1>5. TypeOK'
  BY <1>1, <1>2, <1>3, <1>4 DEF TypeOK
<1>6. Ahead'
  BY <1>1, <1>4 DEF Ahead
<1>7. Counted' /\ Capped' /\ Cleared' /\ Beaten'
  BY <1>1, <1>2, NothingTaken
<1> QED
  BY <1>4, <1>5, <1>6, <1>7 DEF IInv

LEMMA ProposeKeeps ==
  ASSUME IInv, NEW recs \in Raws, NEW a \in Appetites, Propose(recs, a)
  PROVE  IInv'
<1>1. TypeOK /\ recs \in Seq(Rec)
  BY PolicyAssumption DEF IInv
<1>2. Len(runs) + 1 \in Nat
  BY <1>1 DEF TypeOK
<1> QED
  BY <1>1, <1>2, ApplyEstablishes DEF Propose

LEMMA LookKeeps ==
  ASSUME IInv, NEW n \in 1..MaxRuns, NEW a \in Appetites, Look(n, a)
  PROVE  IInv'
<1>1. TypeOK /\ n \in Nat /\ runs[n] \in Run
  BY DEF IInv, TypeOK, Look
<1>2. CASE runs[n].raw = <<>> \/ runs[n].appetite = a
  <2>1. /\ view' = [run |-> n, appetite |-> a, repoliced |-> FALSE, book |-> runs[n].book]
        /\ UNCHANGED <<runs, task, loop>>
    BY <1>2 DEF Look
  <2>2. runs[n].book \in Seq(Rec)
    BY <1>1 DEF Run
  <2>3. view' \in [run : Nat, appetite : Appetites, repoliced : BOOLEAN, book : Seq(Rec)]
    BY <1>1, <2>1, <2>2
  <2>4. TypeOK'
    BY <1>1, <2>1, <2>3 DEF TypeOK, loop
  <2>5. Ahead' /\ InOrder' /\ Counted' /\ Capped' /\ Cleared' /\ Beaten'
    BY <2>1 DEF IInv, loop, Ahead, InOrder, Counted, Capped, Cleared, Beaten, Decided, Taken,
                TakenIn, Profile
  <2> QED
    BY <2>4, <2>5 DEF IInv
<1>3. CASE ~(runs[n].raw = <<>> \/ runs[n].appetite = a)
  <2>1. runs[n].raw \in Seq(Rec)
    BY <1>1 DEF Run
  <2>2. Apply("view", n, a, runs[n].raw) /\ view' = NoView /\ UNCHANGED runs
    BY <1>3 DEF Look, Source
  <2> QED
    BY <1>1, <2>1, <2>2, ApplyEstablishes
<1> QED
  BY <1>2, <1>3

LEMMA DeliverKeeps ==
  ASSUME IInv, Deliver
  PROVE  IInv'
<1> DEFINE recs == [i \in DOMAIN ranked |-> [ranked[i] EXCEPT !.action = verdict[i]]]
           book == Book(recs)
<1>1. TypeOK /\ task.run \in Nat /\ task.appetite \in Appetites
  BY DEF IInv, TypeOK
<1>2. recs \in Seq(Rec)
  <2>1. /\ Len(ranked) \in Nat /\ DOMAIN ranked = 1..Len(ranked) /\ DOMAIN verdict = 1..Len(ranked)
        /\ \A i \in 1..Len(ranked) : ranked[i] \in Rec /\ verdict[i] \in Actions
    BY <1>1 DEF TypeOK, Deliver
  <2>2. ASSUME NEW i \in 1..Len(ranked)
        PROVE  [ranked[i] EXCEPT !.action = verdict[i]] \in Rec
    BY <2>1 DEF Rec
  <2> QED
    BY <2>1, <2>2
<1>3. book \in Seq(Rec)
  <2> HIDE DEF recs
  <2> QED
    BY <1>2, BookIsList
<1>4. /\ \/ /\ runs' = Append(runs, [raw |-> raw, book |-> book, appetite |-> task.appetite])
            /\ UNCHANGED view
         \/ /\ view' = [run |-> task.run, appetite |-> task.appetite,
                         repoliced |-> TRUE, book |-> book]
            /\ UNCHANGED runs
      /\ task' = NoTask
      /\ raw' = <<>> /\ ranked' = <<>> /\ verdict' = <<>>
      /\ spent' = [s \in Sectors |-> 0] /\ taken' = 0
  BY DEF Deliver
<1> HIDE DEF book
<1>5. runs' \in Seq(Run)
  <2>1. [raw |-> raw, book |-> book, appetite |-> task.appetite] \in Run
    BY <1>1, <1>3 DEF TypeOK, Run
  <2>2. runs \in Seq(Run)
    BY <1>1 DEF TypeOK
  <2> HIDE DEF Run
  <2>3. Append(runs, [raw |-> raw, book |-> book, appetite |-> task.appetite]) \in Seq(Run)
    BY <2>1, <2>2
  <2> QED
    BY <1>4, <2>2, <2>3
<1>6. view' \in [run : Nat, appetite : Appetites, repoliced : BOOLEAN, book : Seq(Rec)]
  <2> DEFINE View == [run : Nat, appetite : Appetites, repoliced : BOOLEAN, book : Seq(Rec)]
  <2>1. view \in View
    BY <1>1 DEF TypeOK
  <2>2. [run |-> task.run, appetite |-> task.appetite, repoliced |-> TRUE, book |-> book] \in View
    BY <1>1, <1>3
  <2> HIDE DEF View
  <2>3. view' \in View
    BY <1>4, <2>1, <2>2
  <2> QED
    BY <2>3 DEF View
<1>7. task' \in [kind : {"none", "run", "view"}, run : Nat, appetite : Appetites]
  <2> DEFINE b == CHOOSE x \in Appetites : TRUE
  <2>1. b \in Appetites
    BY SomeAppetite
  <2>2. task' = [kind |-> "none", run |-> 0, appetite |-> b]
    BY <1>4 DEF NoTask
  <2> HIDE DEF b
  <2> QED
    BY <2>1, <2>2
<1>8. TypeOK'
  BY <1>4, <1>5, <1>6, <1>7 DEF TypeOK
<1>9. Ahead' /\ InOrder'
  BY <1>4 DEF Ahead, InOrder
<1>10. Counted' /\ Capped' /\ Cleared' /\ Beaten'
  BY <1>4, <1>7, NothingTaken
<1> QED
  BY <1>8, <1>9, <1>10 DEF IInv

(* The loop's invariant holds in every reachable state.                     *)
THEOREM Invariance == Spec => []IInv
<1>1. Init => IInv
  BY InitHolds
<1>2. IInv /\ [Next]_vars => IInv'
  <2> SUFFICES ASSUME IInv, [Next]_vars PROVE IInv'
    OBVIOUS
  <2>1. ASSUME NEW recs \in Raws, NEW a \in Appetites, Propose(recs, a) PROVE IInv'
    BY <2>1, ProposeKeeps
  <2>2. ASSUME NEW n \in 1..MaxRuns, NEW a \in Appetites, Look(n, a) PROVE IInv'
    BY <2>2, LookKeeps
  <2>3. CASE Consider
    BY <2>3, ConsiderKeeps
  <2>4. CASE Deliver
    BY <2>4, DeliverKeeps
  <2>5. CASE UNCHANGED vars
    <3>1. UNCHANGED <<runs, task, view, raw, ranked, verdict, spent, taken>>
      BY <2>5 DEF vars, loop
    <3>2. TypeOK'
      BY <3>1 DEF IInv, TypeOK
    <3>3. Ahead' /\ InOrder' /\ Counted' /\ Capped' /\ Cleared' /\ Beaten'
      BY <3>1 DEF IInv, Ahead, InOrder, Counted, Capped, Cleared, Beaten,
                  Decided, Taken, TakenIn, Profile
    <3> QED
      BY <3>2, <3>3 DEF IInv
  <2> QED
    BY <2>1, <2>2, <2>3, <2>4, <2>5 DEF Next
<1> QED
  BY <1>1, <1>2, PTL DEF Spec

(* README.md:39 "Agents propose. Policy disposes": no proposal gets past a   *)
(* floor or a cap.                                                          *)
THEOREM Disposes == Spec => []PolicyDisposes
<1>1. IInv => PolicyDisposes
  <2> SUFFICES ASSUME IInv PROVE PolicyDisposes
    OBVIOUS
  <2>1. TypeOK /\ Counted /\ Capped /\ Cleared
    BY DEF IInv
  <2>2. \A i \in Taken : Clears(ranked[i], Profile)
    BY <2>1 DEF Cleared
  <2>3. \A i \in Taken : ranked[i].action = "accumulate" /\ ~ranked[i].cheap
    BY <2>2 DEF Clears, Priced
  <2>4. /\ Cardinality(Taken) <= Profile.max_accumulate
        /\ \A s \in Sectors : Cardinality(TakenIn(s)) <= Profile.max_per_sector
    BY <2>1 DEF Counted, Capped
  <2> QED
    BY <2>2, <2>3, <2>4 DEF PolicyDisposes
<1> QED
  BY <1>1, Invariance, PTL

(* The caps hold back a name only for names of equal or higher conviction.  *)
THEOREM NoneSkipped == Spec => []NoNameSkipped
<1>1. IInv => NoNameSkipped
  <2> SUFFICES ASSUME IInv, NEW i \in Decided \ Taken, Clears(ranked[i], Profile),
                      NEW better,
                      better = {j \in Taken : ranked[j].conviction >= ranked[i].conviction},
                      NEW s, s = SectorKey(ranked[i])
               PROVE  \/ Cardinality(better \cap TakenIn(s)) = Profile.max_per_sector
                      \/ Cardinality(better) = Profile.max_accumulate
    BY DEF NoNameSkipped
  <2>1. /\ TypeOK /\ Ahead /\ InOrder /\ Counted /\ Capped /\ Beaten
        /\ Profile.max_accumulate \in Nat /\ Profile.max_per_sector \in Nat
    BY CapsAreNumbers DEF IInv
  <2>2. /\ Decided \subseteq DOMAIN ranked /\ Taken \subseteq Decided /\ IsFiniteSet(Taken)
        /\ TakenIn(s) \subseteq Taken /\ IsFiniteSet(TakenIn(s))
    <3>1. Decided = 1..Len(verdict) /\ DOMAIN ranked = 1..Len(ranked)
          /\ Len(verdict) \in Nat /\ Len(ranked) \in Nat
      BY <2>1 DEF TypeOK, Decided
    <3> QED
      BY <2>1, <3>1, TakenIsFinite DEF Ahead
  <2>3. s \in Sectors
    BY <2>1, <2>2, SectorKnown DEF TypeOK
  <2>4. \A j \in Taken : j < i => j \in better
    BY <2>1, <2>2 DEF InOrder
  <2>5. CASE Cardinality({j \in TakenIn(s) : j < i}) >= Profile.max_per_sector
    <3> DEFINE A == {j \in TakenIn(s) : j < i}
               B == better \cap TakenIn(s)
    <3>1. A \in SUBSET B /\ B \in SUBSET TakenIn(s)
      BY <2>2, <2>4
    <3>2. IsFiniteSet(B) /\ Cardinality(B) <= Cardinality(TakenIn(s))
      BY <2>2, <3>1, FS_Subset
    <3>3. IsFiniteSet(A) /\ Cardinality(A) <= Cardinality(B)
      BY <3>1, <3>2, FS_Subset
    <3>4. Cardinality(A) \in Nat /\ Cardinality(B) \in Nat /\ Cardinality(TakenIn(s)) \in Nat
      BY <2>2, <3>2, <3>3, FS_CardinalityType
    <3>5. Cardinality(TakenIn(s)) <= Profile.max_per_sector
      BY <2>1, <2>3 DEF Counted, Capped
    <3> HIDE DEF A, B
    <3>6. Cardinality(A) >= Profile.max_per_sector
      BY <2>5 DEF A
    <3>7. Cardinality(B) = Profile.max_per_sector
      BY <2>1, <3>2, <3>3, <3>4, <3>5, <3>6
    <3> QED
      BY <3>7 DEF B
  <2>6. CASE Cardinality({j \in Taken : j < i}) >= Profile.max_accumulate
    <3> DEFINE A == {j \in Taken : j < i}
    <3>1. A \in SUBSET better /\ better \in SUBSET Taken
      BY <2>4
    <3>2. IsFiniteSet(better) /\ Cardinality(better) <= Cardinality(Taken)
      BY <2>2, <3>1, FS_Subset
    <3>3. IsFiniteSet(A) /\ Cardinality(A) <= Cardinality(better)
      BY <3>1, <3>2, FS_Subset
    <3>4. Cardinality(A) \in Nat /\ Cardinality(better) \in Nat /\ Cardinality(Taken) \in Nat
      BY <2>2, <3>2, <3>3, FS_CardinalityType
    <3>5. Cardinality(Taken) <= Profile.max_accumulate
      BY <2>1 DEF Counted, Capped
    <3> HIDE DEF A
    <3>6. Cardinality(A) >= Profile.max_accumulate
      BY <2>6 DEF A
    <3> QED
      BY <2>1, <3>2, <3>3, <3>4, <3>5, <3>6
  <2>7. \/ Cardinality({j \in TakenIn(s) : j < i}) >= Profile.max_per_sector
        \/ Cardinality({j \in Taken : j < i}) >= Profile.max_accumulate
    BY <2>1 DEF Beaten
  <2> QED
    BY <2>5, <2>6, <2>7
<1> QED
  BY <1>1, Invariance, PTL

--------------------------------------------------------------------------------
(* The changes between two books. *)

(* A name of a book has one of the four actions there.                      *)
LEMMA ActionOfNamed ==
  ASSUME NEW book \in Seq(Rec), NEW t \in Tickers(book)
  PROVE  ActionOf(book, t) \in Actions
<1> DEFINE i == CHOOSE k \in DOMAIN book : book[k].ticker = t
<1>1. i \in DOMAIN book
  BY DEF Tickers
<1>2. book[i] \in Rec
  BY <1>1
<1> QED
  BY <1>2 DEF ActionOf, Rec

(* Two actions differ exactly when their ranks do, so the sign of the step  *)
(* says which way a name moved.                                             *)
LEMMA RankSeparates ==
  ASSUME NEW x \in Actions, NEW y \in Actions
  PROVE  /\ Rank[x] - Rank[y] \in Int /\ Rank[y] - Rank[x] = -(Rank[x] - Rank[y])
         /\ Rank[x] - Rank[y] = 0 <=> x = y
  BY DEF Actions, Rank

(* Of any two lists of recommendations, every name is in one list of the    *)
(* changes if it changed and in none if it did not.                         *)
LEMMA EveryChangeTold ==
  ASSUME NEW a \in Seq(Rec), NEW b \in Seq(Rec)
  PROVE  ChangesTold(a, b)
<1> DEFINE there == Diff(a, b)
           back == Diff(b, a)
           lists == {"upgrades", "downgrades", "added", "dropped"}
           In(t) == {k \in lists : t \in there[k]}
           same(t) == t \in Tickers(a) \cap Tickers(b) /\ ActionOf(a, t) = ActionOf(b, t)
<1>1. ASSUME NEW t
      PROVE  /\ t \in there["added"] <=> t \in Tickers(a) /\ t \notin Tickers(b)
             /\ t \in there["dropped"] <=> t \notin Tickers(a) /\ t \in Tickers(b)
             /\ t \in there["upgrades"] <=> /\ t \in Tickers(a) /\ t \in Tickers(b)
                                            /\ Step(a, b, t) < 0
             /\ t \in there["downgrades"] <=> /\ t \in Tickers(a) /\ t \in Tickers(b)
                                              /\ Step(a, b, t) > 0
  BY DEF Diff, Raised
<1>2. ASSUME NEW t \in Tickers(a) \cap Tickers(b)
      PROVE  /\ Step(a, b, t) \in Int /\ Step(b, a, t) = -Step(a, b, t)
             /\ Step(a, b, t) = 0 <=> ActionOf(a, t) = ActionOf(b, t)
  BY ActionOfNamed, RankSeparates DEF Step
<1>3. ASSUME NEW t \in Tickers(a) \cup Tickers(b)
      PROVE  Cardinality(In(t)) = IF same(t) THEN 0 ELSE 1
  <2> HIDE DEF there
  <2>1. CASE same(t)
    <3>1. Step(a, b, t) = 0
      BY <1>2, <2>1
    <3>2. In(t) = {}
      BY <1>1, <2>1, <3>1
    <3> QED
      BY <2>1, <3>2, FS_EmptySet
  <2>2. CASE t \in Tickers(a) /\ t \notin Tickers(b)
    <3>1. In(t) = {"added"}
      BY <1>1, <2>2
    <3> QED
      BY <2>2, <3>1, FS_Singleton
  <2>3. CASE t \notin Tickers(a) /\ t \in Tickers(b)
    <3>1. In(t) = {"dropped"}
      BY <1>1, <2>3
    <3> QED
      BY <2>3, <3>1, FS_Singleton
  <2>4. CASE t \in Tickers(a) \cap Tickers(b) /\ ActionOf(a, t) # ActionOf(b, t)
    <3>1. Step(a, b, t) \in Int /\ Step(a, b, t) # 0
      BY <1>2, <2>4
    <3>2. CASE Step(a, b, t) < 0
      <4>1. In(t) = {"upgrades"}
        BY <1>1, <2>4, <3>1, <3>2
      <4> QED
        BY <2>4, <4>1, FS_Singleton
    <3>3. CASE Step(a, b, t) > 0
      <4>1. In(t) = {"downgrades"}
        BY <1>1, <2>4, <3>1, <3>3
      <4> QED
        BY <2>4, <4>1, FS_Singleton
    <3> QED
      BY <3>1, <3>2, <3>3
  <2> QED
    BY <2>1, <2>2, <2>3, <2>4
<1>4. there.upgrades = back.downgrades
  <2>1. there.upgrades = {t \in Tickers(a) \cap Tickers(b) : Step(a, b, t) < 0}
    BY DEF Diff, Raised
  <2>2. back.downgrades = {t \in Tickers(b) \cap Tickers(a) : Step(b, a, t) > 0}
    BY DEF Diff
  <2>3. \A t \in Tickers(a) \cap Tickers(b) : Step(a, b, t) < 0 <=> Step(b, a, t) > 0
    BY <1>2
  <2> QED
    BY <2>1, <2>2, <2>3
<1>5. there.added = back.dropped
  BY DEF Diff
<1> QED
  BY <1>3, <1>4, <1>5 DEF ChangesTold

(* book_changes tells every move between two runs' books once, and the      *)
(* changes back are the same, mirrored.                                     *)
THEOREM ChangesAreComplete == Spec => []ChangesComplete
<1>1. IInv => ChangesComplete
  <2> SUFFICES ASSUME IInv, NEW m \in DOMAIN runs, NEW n \in DOMAIN runs
               PROVE  ChangesTold(runs[m].book, runs[n].book)
    BY DEF ChangesComplete
  <2>1. runs[m] \in Run /\ runs[n] \in Run
    BY DEF IInv, TypeOK
  <2>2. runs[m].book \in Seq(Rec) /\ runs[n].book \in Seq(Rec)
    BY <2>1 DEF Run
  <2> QED
    BY <2>2, EveryChangeTold
<1> QED
  BY <1>1, Invariance, PTL

--------------------------------------------------------------------------------
(* What the policy makes of a proposal: nothing but the proposal and the    *)
(* appetite decide it.                                                      *)

TakenBy(v)     == {i \in DOMAIN v : v[i] = "accumulate"}
Earlier(v, i)  == {j \in TakenBy(v) : j < i}
InSector(recs, S, s) == {i \in S : SectorKey(recs[i]) = s}

(* The verdict on the i-th name, from those on the names before it.         *)
Given(recs, p, v, i) ==
  LET r == recs[i]
  IN  IF \/ ~Clears(r, p)
         \/ Full(Cardinality(InSector(recs, Earlier(v, i), SectorKey(r))), p.max_per_sector)
         \/ Full(Cardinality(Earlier(v, i)), p.max_accumulate)
      THEN IF Priced(r) = "accumulate" THEN "watch" ELSE Priced(r)
      ELSE "accumulate"
Follows(recs, p, v) == \A i \in DOMAIN v : v[i] = Given(recs, p, v, i)

(* The caps, the floors and what a refused name was refused for, of a list  *)
(* of verdicts.                                                             *)
Filled(recs, p, v) ==
  /\ \A i \in TakenBy(v) : Clears(recs[i], p)
  /\ Cardinality(TakenBy(v)) <= p.max_accumulate
  /\ \A s \in Sectors : Cardinality(InSector(recs, TakenBy(v), s)) <= p.max_per_sector
  /\ \A i \in DOMAIN v \ TakenBy(v) : Clears(recs[i], p) =>
       \/ Cardinality(InSector(recs, TakenBy(v), SectorKey(recs[i]))) >= p.max_per_sector
       \/ Cardinality(TakenBy(v)) >= p.max_accumulate

Stamped(recs, v) == [i \in DOMAIN recs |-> [recs[i] EXCEPT !.action = v[i]]]

MadeFrom(recs, a, book) ==
  \E v \in Seq(Actions) : /\ Len(v) = Len(Ranked(recs))
                          /\ Follows(Ranked(recs), Profiles[a], v)
                          /\ Filled(Ranked(recs), Profiles[a], v)
                          /\ book = Book(Stamped(Ranked(recs), v))

(* The verdicts are those of the loop on a proposal, and every book, of a   *)
(* run and of the last look, was made by the policy from a run's proposal.  *)
Underway == task.kind # "none" => /\ raw \in Raws /\ ranked = Ranked(raw)
                                  /\ Follows(ranked, Profile, verdict)
Sourced  == task.kind = "view" => task.run \in DOMAIN runs /\ raw = runs[task.run].raw
RunsMade == \A n \in DOMAIN runs : runs[n].raw # <<>> =>
              runs[n].raw \in Raws /\ MadeFrom(runs[n].raw, runs[n].appetite, runs[n].book)
ViewMade == view.repoliced => /\ view.run \in DOMAIN runs /\ runs[view.run].raw # <<>>
                              /\ MadeFrom(runs[view.run].raw, view.appetite, view.book)
Made == Underway /\ Sourced /\ RunsMade /\ ViewMade

(* A set of positions has a first member.                                   *)
LEMMA FirstOf ==
  ASSUME NEW n \in Nat, NEW S \in SUBSET (1..n), S # {}
  PROVE  \E p \in S : \A q \in S : p <= q
<1> DEFINE T == {1..p : p \in S}
<1>1. T \subseteq FiniteSubsetsOf(1..n) /\ T # {}
  <2>1. \A p \in S : 1..p \subseteq 1..n /\ IsFiniteSet(1..p)
    BY FS_Interval
  <2> QED
    BY <2>1 DEF FiniteSubsetsOf
<1>2. IsWellFoundedOn(StrictSubsetOrdering(1..n), FiniteSubsetsOf(1..n))
  BY FS_StrictSubsetOrderingWellFounded
<1>3. PICK x \in T : \A y \in T : ~(<<y, x>> \in StrictSubsetOrdering(1..n))
  <2> HIDE DEF T
  <2> QED
    BY <1>1, <1>2, WFMin
<1>4. PICK p \in S : x = 1..p
  OBVIOUS
<1>5. ASSUME NEW q \in S, q < p PROVE FALSE
  <2>1. /\ 1..q \subseteq 1..p /\ p \in 1..p /\ p \notin 1..q
        /\ 1..q \subseteq 1..n /\ 1..p \subseteq 1..n
    BY <1>5
  <2>2. <<1..q, 1..p>> \in StrictSubsetOrdering(1..n)
    BY <2>1 DEF StrictSubsetOrdering
  <2> QED
    BY <1>3, <1>4, <2>2
<1>6. \A q \in S : p <= q
  BY <1>5
<1> QED
  BY <1>6

(* A verdict depends on the earlier ones only: where they agree, it does.   *)
LEMMA GivenByEarlier ==
  ASSUME NEW recs, NEW p, NEW v, NEW w, NEW i, Earlier(v, i) = Earlier(w, i)
  PROVE  Given(recs, p, v, i) = Given(recs, p, w, i)
  BY DEF Given

(* So the ranking and the profile decide them all: where two lists of       *)
(* verdicts first differed, the loop would have seen the same counts.       *)
LEMMA FollowsDecides ==
  ASSUME NEW recs, NEW p, NEW v \in Seq(Actions), NEW w \in Seq(Actions),
         Len(v) = Len(w), Follows(recs, p, v), Follows(recs, p, w)
  PROVE  v = w
<1> DEFINE n == Len(v)
           S == {i \in 1..n : v[i] # w[i]}
<1>1. n \in Nat /\ DOMAIN v = 1..n /\ DOMAIN w = 1..n
  OBVIOUS
<1>2. CASE S = {}
  <2>1. \A i \in 1..n : v[i] = w[i]
    BY <1>2
  <2> QED
    BY <1>1, <2>1
<1>3. CASE S # {}
  <2>1. PICK i \in S : \A j \in S : i <= j
    <3>1. S \in SUBSET (1..n)
      OBVIOUS
    <3> HIDE DEF S, n
    <3> QED
      BY <1>1, <1>3, <3>1, FirstOf
  <2>2. \A j \in 1..n : j < i => v[j] = w[j]
    BY <1>1, <2>1
  <2>3. Earlier(v, i) = Earlier(w, i)
    BY <1>1, <2>2 DEF Earlier, TakenBy
  <2>4. v[i] = w[i]
    BY <1>1, <2>1, <2>3, GivenByEarlier DEF Follows
  <2> QED
    BY <2>1, <2>4
<1> QED
  BY <1>2, <1>3

(* Of one proposal and one appetite there is one book.                      *)
LEMMA OneBook ==
  ASSUME NEW recs, NEW a, NEW b, NEW c, MadeFrom(recs, a, b), MadeFrom(recs, a, c)
  PROVE  b = c
<1>1. PICK v \in Seq(Actions) : /\ Len(v) = Len(Ranked(recs))
                                /\ Follows(Ranked(recs), Profiles[a], v)
                                /\ b = Book(Stamped(Ranked(recs), v))
  BY DEF MadeFrom
<1>2. PICK w \in Seq(Actions) : /\ Len(w) = Len(Ranked(recs))
                                /\ Follows(Ranked(recs), Profiles[a], w)
                                /\ c = Book(Stamped(Ranked(recs), w))
  BY DEF MadeFrom
<1>3. v = w
  BY <1>1, <1>2, FollowsDecides
<1> QED
  BY <1>1, <1>2, <1>3

(* The counters of the loop are what Given counts.                          *)
LEMMA ConsiderFollows ==
  ASSUME IInv, Consider, Follows(ranked, Profile, verdict)
  PROVE  Follows(ranked', Profile', verdict')
<1> DEFINE k == Len(verdict) + 1
           r == ranked[k]
           s == SectorKey(r)
<1>1. /\ ranked \in Seq(Rec) /\ verdict \in Seq(Actions) /\ Counted
      /\ Len(verdict) \in Nat /\ DOMAIN verdict = 1..Len(verdict) /\ Decided = 1..Len(verdict)
  BY DEF IInv, TypeOK, Decided
<1>2. r \in Rec /\ s \in Sectors
  <2>1. k \in DOMAIN ranked
    BY <1>1 DEF Consider
  <2> QED
    BY <1>1, <2>1, SectorKnown
<1>3. ranked' = ranked /\ Profile' = Profile
  BY DEF Consider, Profile
<1>4. PICK a :
        /\ verdict' = Append(verdict, a)
        /\ a = IF \/ ~Clears(r, Profile)
                  \/ Full(spent[s], Profile.max_per_sector)
                  \/ Full(taken, Profile.max_accumulate)
               THEN IF Priced(r) = "accumulate" THEN "watch" ELSE Priced(r)
               ELSE "accumulate"
  BY DEF Consider, Profile
<1>5. DOMAIN verdict' = 1..k /\ verdict'[k] = a /\ \A i \in 1..Len(verdict) : verdict'[i] = verdict[i]
  BY <1>1, <1>4
<1>6. ASSUME NEW i \in 1..k
      PROVE  Earlier(verdict', i) = Earlier(verdict, i)
  BY <1>1, <1>5 DEF Earlier, TakenBy
<1>7. Earlier(verdict, k) = Taken
  BY <1>1 DEF Earlier, TakenBy, Taken
<1>8. taken = Cardinality(Taken) /\ spent[s] = Cardinality(InSector(ranked, Taken, s))
  BY <1>1, <1>2 DEF Counted, TakenIn, InSector
<1>9. a = Given(ranked, Profile, verdict, k)
  BY <1>4, <1>7, <1>8 DEF Given
<1>10. ASSUME NEW i \in 1..k
       PROVE  verdict'[i] = Given(ranked, Profile, verdict', i)
  <2>1. Given(ranked, Profile, verdict', i) = Given(ranked, Profile, verdict, i)
    BY <1>6, GivenByEarlier
  <2>2. CASE i = k
    BY <1>5, <1>9, <2>1, <2>2
  <2>3. CASE i \in 1..Len(verdict)
    BY <1>1, <1>5, <2>1, <2>3 DEF Follows
  <2> QED
    BY <1>1, <2>2, <2>3
<1> QED
  BY <1>3, <1>5, <1>10 DEF Follows

(* Verdicts on a whole ranking that obey the loop's invariant fill the book. *)
LEMMA LoopFills ==
  ASSUME IInv, Len(verdict) = Len(ranked)
  PROVE  Filled(ranked, Profile, verdict)
<1>1. /\ TypeOK /\ Counted /\ Capped /\ Cleared /\ Beaten
      /\ ranked \in Seq(Rec) /\ verdict \in Seq(Actions)
      /\ Len(verdict) \in Nat /\ DOMAIN verdict = 1..Len(verdict) /\ DOMAIN ranked = DOMAIN verdict
      /\ Decided = DOMAIN verdict
  BY DEF IInv, TypeOK, Decided
<1>2. TakenBy(verdict) = Taken /\ \A s : InSector(ranked, TakenBy(verdict), s) = TakenIn(s)
  BY <1>1 DEF TakenBy, Taken, InSector, TakenIn
<1>3. Profile.max_accumulate \in Nat /\ Profile.max_per_sector \in Nat
  BY <1>1, CapsAreNumbers
<1>4. ASSUME NEW i \in Decided \ Taken, Clears(ranked[i], Profile), NEW s, s = SectorKey(ranked[i])
      PROVE  \/ Cardinality(TakenIn(s)) >= Profile.max_per_sector
             \/ Cardinality(Taken) >= Profile.max_accumulate
  <2>1. \/ Cardinality({j \in TakenIn(s) : j < i}) >= Profile.max_per_sector
        \/ Cardinality({j \in Taken : j < i}) >= Profile.max_accumulate
    BY <1>1, <1>4 DEF Beaten
  <2>2. ASSUME NEW T, IsFiniteSet(T)
        PROVE  /\ Cardinality({j \in T : j < i}) \in Nat /\ Cardinality(T) \in Nat
               /\ Cardinality({j \in T : j < i}) <= Cardinality(T)
    BY <2>2, FS_Subset, FS_CardinalityType
  <2>3. IsFiniteSet(Taken) /\ IsFiniteSet(TakenIn(s))
    BY <1>1, TakenIsFinite
  <2>4. /\ Cardinality({j \in TakenIn(s) : j < i}) \in Nat /\ Cardinality(TakenIn(s)) \in Nat
        /\ Cardinality({j \in TakenIn(s) : j < i}) <= Cardinality(TakenIn(s))
    BY <2>2, <2>3
  <2>5. /\ Cardinality({j \in Taken : j < i}) \in Nat /\ Cardinality(Taken) \in Nat
        /\ Cardinality({j \in Taken : j < i}) <= Cardinality(Taken)
    BY <2>2, <2>3
  <2> QED
    BY <1>3, <2>1, <2>4, <2>5
<1>5. /\ \A i \in Taken : Clears(ranked[i], Profile)
      /\ Cardinality(Taken) <= Profile.max_accumulate
      /\ \A s \in Sectors : Cardinality(TakenIn(s)) <= Profile.max_per_sector
  BY <1>1 DEF Cleared, Counted, Capped
<1> QED
  BY <1>1, <1>2, <1>4, <1>5 DEF Filled

(* What Deliver hands over is made by the policy.                           *)
LEMMA DeliverMakes ==
  ASSUME IInv, Made, Deliver
  PROVE  \E book : /\ MadeFrom(raw, task.appetite, book)
                   /\ IF task.kind = "run"
                      THEN /\ runs' = Append(runs, [raw |-> raw, book |-> book,
                                                    appetite |-> task.appetite])
                           /\ UNCHANGED view
                      ELSE /\ view' = [run |-> task.run, appetite |-> task.appetite,
                                       repoliced |-> TRUE, book |-> book]
                           /\ UNCHANGED runs
<1> DEFINE book == Book(Stamped(ranked, verdict))
<1>1. IF task.kind = "run"
      THEN /\ runs' = Append(runs, [raw |-> raw, book |-> book, appetite |-> task.appetite])
           /\ UNCHANGED view
      ELSE /\ view' = [run |-> task.run, appetite |-> task.appetite,
                       repoliced |-> TRUE, book |-> book]
           /\ UNCHANGED runs
  BY DEF Deliver, Stamped
<1>2. ranked = Ranked(raw) /\ Follows(ranked, Profile, verdict) /\ Len(verdict) = Len(ranked)
  BY DEF Made, Underway, Deliver
<1>3. Filled(ranked, Profile, verdict)
  BY <1>2, LoopFills
<1>4. verdict \in Seq(Actions)
  BY DEF IInv, TypeOK
<1>5. MadeFrom(raw, task.appetite, book)
  BY <1>2, <1>3, <1>4 DEF MadeFrom, Profile
<1> HIDE DEF book
<1> QED
  BY <1>1, <1>5

(* Every book, of a run and of a look, goes back to a proposal.             *)
LEMMA InitMade == Init => Made
<1> SUFFICES ASSUME Init PROVE Made
  OBVIOUS
<1>1. task.kind = "none" /\ view.repoliced = FALSE
  BY DEF Init, NoTask, NoView
<1>2. \A n \in DOMAIN runs : runs[n].raw = <<>>
  BY DEF Init, OldRun
<1> QED
  BY <1>1, <1>2 DEF Made, Underway, Sourced, RunsMade, ViewMade

(* At the start of apply_policy there is no verdict to account for.         *)
LEMMA ApplyMade ==
  ASSUME Made, NEW kind, NEW n, NEW a, NEW recs \in Raws, Apply(kind, n, a, recs),
         view' = NoView, UNCHANGED runs, kind = "view" => n \in DOMAIN runs /\ recs = runs[n].raw
  PROVE  Made'
<1>1. /\ task' = [kind |-> kind, run |-> n, appetite |-> a]
      /\ raw' = recs /\ ranked' = Ranked(recs) /\ verdict' = <<>>
  BY DEF Apply
<1>2. Underway'
  BY <1>1 DEF Underway, Follows
<1>3. Sourced'
  BY <1>1 DEF Sourced
<1>4. RunsMade'
  BY DEF Made, RunsMade
<1>5. ViewMade'
  BY DEF ViewMade, NoView
<1> QED
  BY <1>2, <1>3, <1>4, <1>5 DEF Made

LEMMA LookMade ==
  ASSUME IInv, Made, NEW n \in 1..MaxRuns, NEW a \in Appetites, Look(n, a)
  PROVE  Made'
<1>1. n \in DOMAIN runs
  BY DEF Look
<1>2. CASE runs[n].raw = <<>> \/ runs[n].appetite = a
  <2>1. /\ view' = [run |-> n, appetite |-> a, repoliced |-> FALSE, book |-> runs[n].book]
        /\ UNCHANGED <<runs, task, loop>>
    BY <1>2 DEF Look
  <2>2. UNCHANGED <<runs, task, raw, ranked, verdict>> /\ view'.repoliced = FALSE
    BY <2>1 DEF loop
  <2> QED
    BY <2>2 DEF Made, Underway, Sourced, RunsMade, ViewMade, Profile
<1>3. CASE ~(runs[n].raw = <<>> \/ runs[n].appetite = a)
  <2>1. Apply("view", n, a, runs[n].raw) /\ view' = NoView /\ UNCHANGED runs
    BY <1>3 DEF Look, Source
  <2>2. runs[n].raw \in Raws
    BY <1>1, <1>3 DEF Made, RunsMade
  <2> QED
    BY <1>1, <2>1, <2>2, ApplyMade
<1> QED
  BY <1>2, <1>3

LEMMA DeliverMade ==
  ASSUME IInv, Made, Deliver
  PROVE  Made'
<1>1. PICK book : /\ MadeFrom(raw, task.appetite, book)
                  /\ IF task.kind = "run"
                     THEN /\ runs' = Append(runs, [raw |-> raw, book |-> book,
                                                   appetite |-> task.appetite])
                          /\ UNCHANGED view
                     ELSE /\ view' = [run |-> task.run, appetite |-> task.appetite,
                                      repoliced |-> TRUE, book |-> book]
                          /\ UNCHANGED runs
  BY DeliverMakes
<1>2. raw \in Raws /\ raw # <<>> /\ runs \in Seq(Run) /\ task.kind \in {"run", "view"}
  <2>1. task.kind # "none" /\ task.kind \in {"none", "run", "view"} /\ runs \in Seq(Run)
    BY DEF Deliver, IInv, TypeOK
  <2>2. raw \in Raws
    BY <2>1 DEF Made, Underway
  <2> QED
    BY <2>1, <2>2, PolicyAssumption
<1>3. task'.kind = "none"
  BY DEF Deliver, NoTask
<1>4. Underway' /\ Sourced'
  BY <1>3 DEF Underway, Sourced
<1>5. CASE task.kind = "run"
  <2> DEFINE run == [raw |-> raw, book |-> book, appetite |-> task.appetite]
  <2>1. runs' = Append(runs, run) /\ UNCHANGED view
    BY <1>1, <1>5
  <2>2. /\ run.raw \in Raws /\ MadeFrom(run.raw, run.appetite, run.book)
    BY <1>1, <1>2
  <2> HIDE DEF run
  <2>3. /\ DOMAIN runs' = DOMAIN runs \cup {Len(runs) + 1} /\ runs'[Len(runs) + 1] = run
        /\ \A n \in DOMAIN runs : runs'[n] = runs[n]
    BY <1>2, <2>1
  <2>4. ASSUME NEW n \in DOMAIN runs', runs'[n].raw # <<>>
        PROVE  runs'[n].raw \in Raws /\ MadeFrom(runs'[n].raw, runs'[n].appetite, runs'[n].book)
    BY <2>2, <2>3, <2>4 DEF Made, RunsMade
  <2>5. RunsMade'
    BY <2>4 DEF RunsMade, MadeFrom
  <2>6. ViewMade'
    BY <2>1, <2>3 DEF Made, ViewMade
  <2> QED
    BY <1>4, <2>5, <2>6 DEF Made
<1>6. CASE task.kind = "view"
  <2>1. /\ view' = [run |-> task.run, appetite |-> task.appetite, repoliced |-> TRUE, book |-> book]
        /\ UNCHANGED runs
    BY <1>1, <1>6
  <2>2. RunsMade'
    BY <2>1 DEF Made, RunsMade
  <2>3. task.run \in DOMAIN runs /\ raw = runs[task.run].raw
    BY <1>6 DEF Made, Sourced
  <2>4. ViewMade'
    BY <1>1, <1>2, <2>1, <2>3 DEF ViewMade
  <2> QED
    BY <1>4, <2>2, <2>4 DEF Made
<1> QED
  BY <1>2, <1>5, <1>6

LEMMA BooksMade == Spec => [](IInv /\ Made)
<1>1. Init => Made
  BY InitMade
<1>2. IInv /\ Made /\ [Next]_vars => Made'
  <2> SUFFICES ASSUME IInv, Made, [Next]_vars PROVE Made'
    OBVIOUS
  <2>1. ASSUME NEW recs \in Raws, NEW a \in Appetites, Propose(recs, a) PROVE Made'
    BY <2>1, ApplyMade DEF Propose
  <2>2. ASSUME NEW n \in 1..MaxRuns, NEW a \in Appetites, Look(n, a) PROVE Made'
    BY <2>2, LookMade
  <2>3. CASE Consider
    <3>1. UNCHANGED <<runs, task, raw, ranked, view>>
      BY <2>3 DEF Consider
    <3>2. Underway'
      <4>1. task.kind # "none" /\ Follows(ranked, Profile, verdict)
        BY <2>3 DEF Consider, Made, Underway
      <4>2. Follows(ranked', Profile', verdict')
        BY <2>3, <4>1, ConsiderFollows
      <4> QED
        BY <3>1, <4>1, <4>2 DEF Made, Underway
    <3> QED
      BY <3>1, <3>2 DEF Made, Sourced, RunsMade, ViewMade
  <2>4. CASE Deliver
    BY <2>4, DeliverMade
  <2>5. CASE UNCHANGED vars
    <3>1. UNCHANGED <<runs, task, view, raw, ranked, verdict>>
      BY <2>5 DEF vars, loop
    <3> QED
      BY <3>1 DEF Made, Underway, Sourced, RunsMade, ViewMade, Profile
  <2> QED
    BY <2>1, <2>2, <2>3, <2>4, <2>5 DEF Next
<1> QED
  BY <1>1, <1>2, Invariance, PTL DEF Spec

(* repolicy: the book of a look at another appetite is the one that a run   *)
(* of that appetite makes of the same proposal.                             *)
THEOREM ViewsAreExact == Spec => []ViewIsExact
<1>1. Made => ViewIsExact
  <2> SUFFICES ASSUME Made, view.repoliced, NEW n \in DOMAIN runs,
                      runs[n].raw = runs[view.run].raw, runs[n].appetite = view.appetite
               PROVE  runs[n].book = view.book
    BY DEF ViewIsExact
  <2>1. runs[view.run].raw # <<>> /\ MadeFrom(runs[view.run].raw, view.appetite, view.book)
    BY DEF Made, ViewMade
  <2>2. MadeFrom(runs[n].raw, runs[n].appetite, runs[n].book)
    BY <2>1 DEF Made, RunsMade
  <2> QED
    BY <2>1, <2>2, OneBook
<1> QED
  BY <1>1, BooksMade, PTL

--------------------------------------------------------------------------------
(* A tighter appetite never takes more names. *)

(* A smaller finite set fits into a larger one.                             *)
LEMMA FitsInto ==
  ASSUME NEW S, NEW T, IsFiniteSet(S), IsFiniteSet(T), Cardinality(S) <= Cardinality(T)
  PROVE  Injection(S, T) # {}
<1>1. /\ Cardinality(S) \in Nat /\ ExistsBijection(1..Cardinality(S), S)
      /\ Cardinality(T) \in Nat /\ ExistsBijection(1..Cardinality(T), T)
  BY FS_CardinalityType
<1>2. ExistsInjection(S, 1..Cardinality(S))
  BY <1>1, Fun_ExistsBijEquiv
<1>3. ExistsInjection(1..Cardinality(S), 1..Cardinality(T))
  BY <1>1, Fun_NatInjLeq
<1>4. ExistsInjection(1..Cardinality(T), T)
  BY <1>1, Fun_ExistsBijEquiv
<1>5. ExistsInjection(S, T)
  BY <1>2, <1>3, <1>4, Fun_ExistsInjTransitive
<1> QED
  BY <1>5, Fun_ExistsInj

(* What has no more members in any sector has no more members.              *)
LEMMA SectorBySector ==
  ASSUME NEW recs, NEW P, NEW Q, IsFiniteSet(P), IsFiniteSet(Q),
         \A s : Cardinality(InSector(recs, P, s)) <= Cardinality(InSector(recs, Q, s))
  PROVE  Cardinality(P) <= Cardinality(Q)
<1> DEFINE key(i) == SectorKey(recs[i])
           into(s) == CHOOSE g : g \in Injection(InSector(recs, P, s), InSector(recs, Q, s))
           f == [i \in P |-> into(key(i))[i]]
<1>1. ASSUME NEW s
      PROVE  into(s) \in Injection(InSector(recs, P, s), InSector(recs, Q, s))
  <2>1. InSector(recs, P, s) \in SUBSET P /\ InSector(recs, Q, s) \in SUBSET Q
    BY DEF InSector
  <2>2. IsFiniteSet(InSector(recs, P, s)) /\ IsFiniteSet(InSector(recs, Q, s))
    BY <2>1, FS_Subset
  <2>3. Injection(InSector(recs, P, s), InSector(recs, Q, s)) # {}
    BY <2>2, FitsInto
  <2> QED
    BY <2>3
<1> HIDE DEF into
<1>2. ASSUME NEW i \in P
      PROVE  f[i] \in InSector(recs, Q, key(i)) /\ f[i] = into(key(i))[i]
  <2>1. i \in InSector(recs, P, key(i))
    BY DEF InSector
  <2>2. into(key(i)) \in [InSector(recs, P, key(i)) -> InSector(recs, Q, key(i))]
    BY <1>1 DEF Injection
  <2> QED
    BY <2>1, <2>2
<1>3. ASSUME NEW i \in P, NEW j \in P, f[i] = f[j]
      PROVE  i = j
  <2>1. key(i) = key(j)
    BY <1>2, <1>3 DEF InSector
  <2>2. i \in InSector(recs, P, key(i)) /\ j \in InSector(recs, P, key(i))
    BY <2>1 DEF InSector
  <2>3. into(key(i))[i] = into(key(i))[j]
    BY <1>2, <1>3, <2>1
  <2> HIDE DEF f, key
  <2> QED
    BY <1>1, <2>2, <2>3, Fun_InjectionProperties
<1>4. f \in [P -> Q]
  BY <1>2 DEF InSector
<1> HIDE DEF f
<1>5. f \in Injection(P, Q)
  BY <1>3, <1>4, Fun_IsInj
<1> QED
  BY <1>5, FS_Injection

(* A name that clears the floors of a tighter appetite clears the looser's. *)
LEMMA TighterClears ==
  ASSUME NEW r \in Rec, NEW a \in Appetites, NEW b \in Appetites, Tighter(a, b),
         Clears(r, Profiles[a])
  PROVE  Clears(r, Profiles[b])
<1>1. Profiles[a] \in Thresholds /\ Profiles[b] \in Thresholds
  BY PolicyAssumption
<1>2. /\ r.quality \in Int /\ r.risk \in Int /\ r.source_quality \in Int /\ r.sources \in Int
      /\ r.conviction \in Int
  <2>1. /\ r.quality \in Unit /\ r.risk \in Unit /\ r.source_quality \in Unit /\ r.sources \in Nat
        /\ r.conviction \in Unit
    BY DEF Rec
  <2> QED
    BY <2>1 DEF Unit
<1>3. ASSUME NEW p \in Thresholds
      PROVE  /\ p.quality \in Int /\ p.risk \in Int /\ p.source_quality \in Int
             /\ p.sources \in Int /\ p.conviction \in Int
  BY DEF Thresholds, Unit
<1> QED
  BY <1>1, <1>2, <1>3 DEF Clears, Calm, Tighter

(* On one ranking a tighter appetite takes no more names: unless the looser *)
(* book is full, it is in every sector full or left no clearing name out.   *)
LEMMA TighterTakesFewer ==
  ASSUME NEW recs \in Seq(Rec), NEW a \in Appetites, NEW b \in Appetites, Tighter(a, b),
         NEW v \in Seq(Actions), NEW w \in Seq(Actions), Len(v) = Len(recs), Len(w) = Len(recs),
         Filled(recs, Profiles[a], v), Filled(recs, Profiles[b], w)
  PROVE  Cardinality(TakenBy(v)) <= Cardinality(TakenBy(w))
<1> DEFINE P == TakenBy(v)
           Q == TakenBy(w)
           p == Profiles[a]
           q == Profiles[b]
<1> SUFFICES Cardinality(P) <= Cardinality(Q)
  OBVIOUS
<1>1. /\ p.max_accumulate \in Nat /\ p.max_per_sector \in Nat
      /\ q.max_accumulate \in Nat /\ q.max_per_sector \in Nat
      /\ p.max_accumulate <= q.max_accumulate /\ p.max_per_sector <= q.max_per_sector
  <2>1. p \in Thresholds /\ q \in Thresholds
    BY PolicyAssumption
  <2> QED
    BY <2>1 DEF Thresholds, Tighter
<1>2. /\ Len(recs) \in Nat /\ DOMAIN recs = 1..Len(recs) /\ DOMAIN v = DOMAIN recs
      /\ DOMAIN w = DOMAIN recs /\ P \in SUBSET (1..Len(recs)) /\ Q \in SUBSET (1..Len(recs))
  BY DEF TakenBy
<1>3. /\ IsFiniteSet(P) /\ IsFiniteSet(Q) /\ Cardinality(P) \in Nat /\ Cardinality(Q) \in Nat
  <2>1. IsFiniteSet(1..Len(recs))
    BY <1>2, FS_Interval
  <2> HIDE DEF P, Q
  <2>2. IsFiniteSet(P) /\ IsFiniteSet(Q)
    BY <1>2, <2>1, FS_Subset
  <2> QED
    BY <2>2, FS_CardinalityType
<1>4. /\ Cardinality(P) <= p.max_accumulate
      /\ \A s \in Sectors : Cardinality(InSector(recs, P, s)) <= p.max_per_sector
      /\ \A i \in P : Clears(recs[i], p)
      /\ \A i \in DOMAIN w \ Q : Clears(recs[i], q) =>
           \/ Cardinality(InSector(recs, Q, SectorKey(recs[i]))) >= q.max_per_sector
           \/ Cardinality(Q) >= q.max_accumulate
  BY DEF Filled
<1> HIDE DEF P, Q
<1>5. CASE Cardinality(Q) >= q.max_accumulate
  BY <1>1, <1>3, <1>4, <1>5
<1>6. CASE ~(Cardinality(Q) >= q.max_accumulate)
  <2>1. ASSUME NEW s
        PROVE  Cardinality(InSector(recs, P, s)) <= Cardinality(InSector(recs, Q, s))
    <3> DEFINE Ps == InSector(recs, P, s)
               Qs == InSector(recs, Q, s)
    <3> SUFFICES Cardinality(Ps) <= Cardinality(Qs)
      OBVIOUS
    <3>1. /\ Ps \in SUBSET P /\ Qs \in SUBSET Q
      BY DEF InSector
    <3>2. /\ IsFiniteSet(Ps) /\ IsFiniteSet(Qs)
      BY <1>3, <3>1, FS_Subset
    <3>3. Cardinality(Ps) \in Nat /\ Cardinality(Qs) \in Nat
      BY <3>2, FS_CardinalityType
    <3>4. CASE Ps \subseteq Qs
      <4>1. Ps \in SUBSET Qs
        BY <3>4
      <4> QED
        BY <3>2, <4>1, FS_Subset
    <3>5. CASE ~(Ps \subseteq Qs)
      <4>1. PICK i \in Ps : i \notin Qs
        BY <3>5
      <4>2. i \in P /\ SectorKey(recs[i]) = s /\ i \notin Q /\ i \in DOMAIN recs
        BY <1>2, <4>1 DEF InSector
      <4>3. recs[i] \in Rec
        BY <4>2
      <4>4. s \in Sectors
        BY <4>2, <4>3, SectorKnown
      <4>5. Clears(recs[i], q)
        BY <1>4, <4>2, <4>3, TighterClears
      <4>6. Cardinality(Qs) >= q.max_per_sector
        BY <1>2, <1>4, <1>6, <4>2, <4>5
      <4>7. Cardinality(Ps) <= p.max_per_sector
        BY <1>4, <4>4
      <4> HIDE DEF Ps, Qs, p, q
      <4> QED
        BY <1>1, <3>3, <4>6, <4>7
    <3> QED
      BY <3>4, <3>5
  <2> QED
    BY <1>3, <2>1, SectorBySector
<1> QED
  BY <1>5, <1>6

(* Every name is in a list once.                                            *)
Once(recs) == \A i, j \in DOMAIN recs : recs[i].ticker = recs[j].ticker => i = j

(* Ranking a list repeats no name.                                          *)
LEMMA RankedOnce ==
  ASSUME NEW recs \in Seq(Rec), Once(recs)
  PROVE  Once(Ranked(recs))
<1> DEFINE D == DOMAIN recs
           before == [i \in D |-> {j \in D : Higher(recs, j, i)}]
<1>1. IsOrder(before, D)
  BY HigherIsOrder
<1>2. Ranked(recs) = Sorted(recs, before)
  BY DEF Ranked
<1> HIDE DEF before
<1>3. PICK p \in Surjection(D, D) :
             /\ Sorted(recs, before) = [k \in D |-> recs[p[k]]]
             /\ \A k, l \in D : k < l => p[k] \in before[p[l]]
  BY <1>1, SortedIsInOrder
<1>4. IsFiniteSet(D)
  <2>1. D = 1..Len(recs) /\ Len(recs) \in Nat
    OBVIOUS
  <2> QED
    BY <2>1, FS_Interval
<1>5. p \in Injection(D, D)
  BY <1>4, FS_SurjSameCardinalityImpliesInj
<1>6. p \in [D -> D] /\ \A k, l \in D : p[k] = p[l] => k = l
  BY <1>5, Fun_InjectionProperties
<1>7. DOMAIN Ranked(recs) = D /\ \A k \in D : Ranked(recs)[k] = recs[p[k]]
  BY <1>2, <1>3
<1> QED
  BY <1>6, <1>7 DEF Once

(* A book says accumulate of the names with that verdict.                   *)
LEMMA AccumulatedAreTaken ==
  ASSUME NEW recs \in Seq(Rec), NEW v \in Seq(Actions), Len(v) = Len(recs)
  PROVE  Accumulated(Book(Stamped(recs, v))) = {recs[i].ticker : i \in TakenBy(v)}
<1> DEFINE D == DOMAIN recs
           marked == Stamped(recs, v)
           before == [i \in DOMAIN marked |-> {j \in DOMAIN marked : Listed(marked, j, i)}]
<1>1. /\ Len(recs) \in Nat /\ D = 1..Len(recs) /\ DOMAIN v = D /\ DOMAIN marked = D
      /\ \A i \in D : recs[i] \in Rec /\ v[i] \in Actions
  BY DEF Stamped
<1>2. ASSUME NEW i \in D
      PROVE  /\ marked[i] \in Rec /\ marked[i].action = v[i] /\ marked[i].ticker = recs[i].ticker
  <2>1. marked[i] = [recs[i] EXCEPT !.action = v[i]]
    BY <1>1 DEF Stamped
  <2> QED
    BY <1>1, <2>1 DEF Rec
<1>3. marked \in Seq(Rec)
  <2>1. marked = [i \in 1..Len(recs) |-> marked[i]]
    BY <1>1 DEF Stamped
  <2> HIDE DEF marked
  <2> QED
    BY <1>1, <1>2, <2>1
<1> HIDE DEF marked
<1>4. IsOrder(before, DOMAIN marked)
  BY <1>3, ListedIsOrder
<1>5. Book(marked) = Sorted(marked, before)
  BY DEF Book
<1> HIDE DEF before
<1>6. PICK p \in Surjection(DOMAIN marked, DOMAIN marked) :
             Sorted(marked, before) = [k \in DOMAIN marked |-> marked[p[k]]]
  BY <1>3, <1>4, SortedIsInOrder
<1>7. /\ p \in [D -> D] /\ \A i \in D : \E k \in D : p[k] = i
  <2>1. p \in Surjection(D, D)
    BY <1>1
  <2> QED
    BY <2>1, Fun_SurjectionProperties
<1>8. /\ DOMAIN Book(marked) = D
      /\ \A k \in D : Book(marked)[k] = marked[p[k]]
  BY <1>1, <1>5, <1>6
<1> DEFINE told == Accumulated(Book(marked))
           names == {recs[i].ticker : i \in TakenBy(v)}
<1>9. ASSUME NEW t \in told PROVE t \in names
  <2>1. PICK k \in D : Book(marked)[k].action = "accumulate" /\ t = Book(marked)[k].ticker
    BY <1>8, <1>9 DEF Accumulated
  <2>2. p[k] \in D /\ v[p[k]] = "accumulate" /\ t = recs[p[k]].ticker
    BY <1>2, <1>7, <1>8, <2>1
  <2> QED
    BY <1>1, <2>2 DEF TakenBy
<1>10. ASSUME NEW t \in names PROVE t \in told
  <2>1. PICK i \in D : v[i] = "accumulate" /\ t = recs[i].ticker
    BY <1>1, <1>10 DEF TakenBy
  <2>2. PICK k \in D : p[k] = i
    BY <1>7
  <2>3. Book(marked)[k].action = "accumulate" /\ Book(marked)[k].ticker = t
    BY <1>2, <1>8, <2>1, <2>2
  <2> QED
    BY <1>8, <2>3 DEF Accumulated
<1> HIDE DEF told, names
<1>11. told = names
  BY <1>9, <1>10
<1> QED
  BY <1>11 DEF told, names, marked

(* So it takes as many names as there are such verdicts.                    *)
LEMMA AccumulatedCount ==
  ASSUME NEW recs \in Seq(Rec), Once(recs), NEW v \in Seq(Actions), Len(v) = Len(recs)
  PROVE  Cardinality(Accumulated(Book(Stamped(recs, v)))) = Cardinality(TakenBy(v))
<1> DEFINE T == TakenBy(v)
           names == {recs[i].ticker : i \in T}
           f == [i \in T |-> recs[i].ticker]
<1>1. Len(recs) \in Nat /\ DOMAIN recs = 1..Len(recs) /\ T \in SUBSET (1..Len(recs))
  BY DEF TakenBy
<1>2. IsFiniteSet(T)
  <2>1. IsFiniteSet(1..Len(recs))
    BY <1>1, FS_Interval
  <2> HIDE DEF T
  <2> QED
    BY <1>1, <2>1, FS_Subset
<1> HIDE DEF T
<1>3. f \in [T -> names] /\ \A t \in names : \E i \in T : f[i] = t
  OBVIOUS
<1>4. \A i, j \in T : f[i] = f[j] => i = j
  BY <1>1 DEF Once
<1> HIDE DEF names, f
<1>5. f \in Bijection(T, names)
  BY <1>3, <1>4, Fun_IsBij
<1>6. ExistsBijection(T, names)
  BY <1>5, Fun_ExistsBij
<1>7. Cardinality(names) = Cardinality(T)
  BY <1>2, <1>6, FS_Bijection
<1> QED
  BY <1>7, AccumulatedAreTaken DEF names, T

(* Of one proposal, the book of a tighter appetite says accumulate of no    *)
(* more names.                                                              *)
LEMMA TighterBookIsSmaller ==
  ASSUME NEW recs \in Raws, NEW a \in Appetites, NEW b \in Appetites, Tighter(a, b),
         NEW x, NEW y, MadeFrom(recs, a, x), MadeFrom(recs, b, y)
  PROVE  Cardinality(Accumulated(x)) <= Cardinality(Accumulated(y))
<1>1. recs \in Seq(Rec) /\ Once(recs)
  BY PolicyAssumption, NamesAssumption DEF Once
<1>2. Ranked(recs) \in Seq(Rec) /\ Once(Ranked(recs))
  BY <1>1, RankedIsSorted, RankedOnce
<1>3. PICK v \in Seq(Actions) : /\ Len(v) = Len(Ranked(recs))
                                /\ Filled(Ranked(recs), Profiles[a], v)
                                /\ x = Book(Stamped(Ranked(recs), v))
  BY DEF MadeFrom
<1>4. PICK w \in Seq(Actions) : /\ Len(w) = Len(Ranked(recs))
                                /\ Filled(Ranked(recs), Profiles[b], w)
                                /\ y = Book(Stamped(Ranked(recs), w))
  BY DEF MadeFrom
<1>5. Cardinality(TakenBy(v)) <= Cardinality(TakenBy(w))
  BY <1>2, <1>3, <1>4, TighterTakesFewer
<1>6. /\ Cardinality(Accumulated(x)) = Cardinality(TakenBy(v))
      /\ Cardinality(Accumulated(y)) = Cardinality(TakenBy(w))
  BY <1>2, <1>3, <1>4, AccumulatedCount
<1> QED
  BY <1>5, <1>6

(* test_auth.py:265 "Tighter policy can only shrink the accumulate book;    *)
(* looser can only grow it", of any proposal, profiles and pair of          *)
(* appetites of which one is the tighter in every respect.                  *)
THEOREM TighterAlwaysShrinks == Spec => []TighterShrinks
<1>1. IInv /\ Made => TighterShrinks
  <2> SUFFICES ASSUME IInv, Made, view.repoliced,
                      NEW run, run = runs[view.run]
               PROVE  /\ Tighter(view.appetite, run.appetite) =>
                           Cardinality(Accumulated(view.book)) <= Cardinality(Accumulated(run.book))
                      /\ Tighter(run.appetite, view.appetite) =>
                           Cardinality(Accumulated(run.book)) <= Cardinality(Accumulated(view.book))
    BY DEF TighterShrinks
  <2>1. view.run \in DOMAIN runs /\ run.raw # <<>> /\ MadeFrom(run.raw, view.appetite, view.book)
    BY DEF Made, ViewMade
  <2>2. run.raw \in Raws /\ MadeFrom(run.raw, run.appetite, run.book)
    BY <2>1 DEF Made, RunsMade
  <2>3. view.appetite \in Appetites /\ run.appetite \in Appetites
    <3>1. run \in Run
      BY <2>1 DEF IInv, TypeOK
    <3> QED
      BY <3>1 DEF IInv, TypeOK, Run
  <2> QED
    BY <2>1, <2>2, <2>3, TighterBookIsSmaller
<1> QED
  BY <1>1, BooksMade, PTL
================================================================================
