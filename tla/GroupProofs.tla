----------------------------- MODULE GroupProofs -----------------------------
(***************************************************************************)
(* Proofs about what a group does around one meeting (Group), for any number *)
(* of people, polls, times, things and notes: polls first, then each of the  *)
(* other parts alone, and the whole.                                         *)
(***************************************************************************)
EXTENDS Group, Integers, FiniteSetTheorems, TLAPS

------------------------------------------------------------------------------
(* Polls.                                                                    *)


(* Nobody votes and nobody closes a poll in a draft, and only in a draft a   *)
(* poll is deleted: what was answered or closed is past deletion.           *)
Settled(p) == polls[p] # None /\ phase # "draft"
AnsweredIsSettled ==
    \A p \in PollIds :
        /\ \A u \in Users : votes[p][u] # {} => Settled(p)
        /\ p \in Listed /\ polls[p].state = "closed" => Settled(p)

PInv == TypeOK /\ AnsweredIsSettled

(* A listed poll has a row, and only a listed one.                           *)
LEMMA RowsAreListed ==
    ASSUME TypeOK
    PROVE  /\ \A p \in Listed : p \in PollIds /\ polls[p] \in Row /\ polls[p] # None
           /\ \A r \in Row : r # None
BY PollsAssumption DEF TypeOK, Listed

LEMMA InitEstablishes == Init => PInv
<1> SUFFICES ASSUME Init PROVE PInv
  OBVIOUS
<1>1. TypeOK
  BY PollsAssumption DEF Init, TypeOK, NoVotes
<1>2. AnsweredIsSettled
  BY DEF Init, AnsweredIsSettled, NoVotes, Listed
<1> QED
  BY <1>1, <1>2 DEF PInv

LEMMA StepPreserves == PInv /\ [Next]_vars => PInv'
<1> SUFFICES ASSUME TypeOK, AnsweredIsSettled, [Next]_vars
             PROVE  TypeOK' /\ AnsweredIsSettled'
  BY DEF PInv
<1> USE PollsAssumption
<1>t. ASSUME Touch PROVE version' \in 1..MaxVersion
  BY <1>t DEF Touch, TypeOK
<1>1. ASSUME NEW p \in PollIds, NEW u \in Users, NEW mode \in {"single", "multiple"},
             NEW revote \in BOOLEAN, NEW due \in {"never", "ahead"},
             Create(p, u, mode, revote, due)
      PROVE  TypeOK' /\ AnsweredIsSettled'
  <2> DEFINE row == [by |-> u, mode |-> mode, revote |-> revote, due |-> due,
                     state |-> "open", chosen |-> None]
  <2>1. row \in Row /\ row.state = "open"
    BY DEF Row
  <2>2. polls' = [polls EXCEPT ![p] = row] /\ polls' \in [PollIds -> Row \cup {None}]
    BY <1>1, <2>1 DEF Create, TypeOK
  <2>3. TypeOK'
    BY <1>1, <1>t, <2>2 DEF Create, TypeOK
  <2>4. \A q \in PollIds : polls'[q] = IF q = p THEN row ELSE polls[q]
    BY <2>2 DEF TypeOK
  <2>5. polls[p] = None
    BY <1>1 DEF Create, Listed
  <2> HIDE DEF row
  <2>6. AnsweredIsSettled'
    BY <1>1, <2>1, <2>4, <2>5 DEF Create, AnsweredIsSettled, Settled, Listed
  <2> QED
    BY <2>3, <2>6
<1>2. ASSUME NEW p \in PollIds, Delete(p)
      PROVE  TypeOK' /\ AnsweredIsSettled'
  <2>1. TypeOK'
    BY <1>2, <1>t DEF Delete, TypeOK, NoVotes
  <2>2. \A q \in PollIds : /\ polls'[q] = IF q = p THEN None ELSE polls[q]
                           /\ votes'[q] = IF q = p THEN NoVotes ELSE votes[q]
    BY <1>2 DEF Delete, TypeOK
  <2>3. AnsweredIsSettled'
    BY <1>2, <2>2 DEF Delete, AnsweredIsSettled, Settled, Listed, NoVotes
  <2> QED
    BY <2>1, <2>3
<1>3. ASSUME NEW p \in PollIds, polls[p] \in Row,
             NEW r \in Row, polls' = [polls EXCEPT ![p] = r],
             r.state = "closed" => polls[p].state = "closed" \/ phase # "draft",
             version' \in 1..MaxVersion, UNCHANGED <<phase, members, votes, ballots>>
      PROVE  TypeOK' /\ AnsweredIsSettled'
  <2>1. TypeOK'
    BY <1>3 DEF TypeOK
  <2>2. \A q \in PollIds : polls'[q] = IF q = p THEN r ELSE polls[q]
    BY <1>3 DEF TypeOK
  <2>3. AnsweredIsSettled'
    BY <1>3, <2>2 DEF AnsweredIsSettled, Settled, Listed
  <2> QED
    BY <2>1, <2>3
<1>4. ASSUME NEW p \in PollIds, DeadlinePasses(p)
      PROVE  TypeOK' /\ AnsweredIsSettled'
  <2> DEFINE r == [polls[p] EXCEPT !.due = "passed"]
  <2>1. polls[p] \in Row
    BY <1>4, RowsAreListed DEF DeadlinePasses
  <2>2. r \in Row /\ r.state = polls[p].state
    BY <2>1 DEF Row
  <2>3. polls' = [polls EXCEPT ![p] = r]
    BY <1>4 DEF DeadlinePasses
  <2>4. version' \in 1..MaxVersion
    BY <1>4 DEF DeadlinePasses, TypeOK
  <2> HIDE DEF r
  <2> QED
    BY <1>3, <1>4, <2>1, <2>2, <2>3, <2>4 DEF DeadlinePasses
<1>5. ASSUME NEW p \in PollIds, NEW u \in Users, NEW chosen \in SUBSET Options,
             Vote(p, u, chosen)
      PROVE  TypeOK' /\ AnsweredIsSettled'
  <2>1. TypeOK'
    BY <1>5, <1>t DEF Vote, Records, TypeOK
  <2>2. phase # "draft" /\ polls[p] # None /\ polls' = polls /\ phase' = phase
    BY <1>5 DEF Vote, Deciding, IsOpen, Listed
  <2>3. \A q \in PollIds : q # p => votes'[q] = votes[q]
    BY <1>5 DEF Vote, TypeOK
  <2>4. AnsweredIsSettled'
    BY <2>2, <2>3 DEF AnsweredIsSettled, Settled, Listed
  <2> QED
    BY <2>1, <2>4
<1>6. ASSUME NEW p \in PollIds, NEW u \in Users, NEW chosen \in Options \cup {None},
             Close(p, u, chosen)
      PROVE  TypeOK' /\ AnsweredIsSettled'
  <2> DEFINE r == [polls[p] EXCEPT !.state = "closed", !.chosen = chosen]
  <2>1. polls[p] \in Row
    BY <1>6, RowsAreListed DEF Close, IsOpen
  <2>2. r \in Row
    BY <2>1 DEF Row
  <2>3. polls' = [polls EXCEPT ![p] = r]
    BY <1>6 DEF Close, TypeOK
  <2>4. version' \in 1..MaxVersion /\ phase # "draft"
    BY <1>6, <1>t DEF Close, Deciding
  <2> HIDE DEF r
  <2> QED
    BY <1>3, <1>6, <2>1, <2>2, <2>3, <2>4 DEF Close
<1>7. ASSUME NEW next \in {"collecting", "scheduled", "over"}, Advance(next)
      PROVE  TypeOK' /\ AnsweredIsSettled'
  <2>1. TypeOK'
    BY <1>7, <1>t DEF Advance, TypeOK
  <2>2. AnsweredIsSettled'
    BY <1>7 DEF Advance, AnsweredIsSettled, Settled, Listed
  <2> QED
    BY <2>1, <2>2
<1>8. ASSUME NEW u \in Users, Join(u)
      PROVE  TypeOK' /\ AnsweredIsSettled'
  <2>1. TypeOK'
    BY <1>8, <1>t DEF Join, TypeOK
  <2>2. AnsweredIsSettled'
    BY <1>8 DEF Join, AnsweredIsSettled, Settled, Listed
  <2> QED
    BY <2>1, <2>2
<1>9. CASE UNCHANGED vars
  BY <1>9 DEF vars, TypeOK, AnsweredIsSettled, Settled, Listed
<1> QED
  BY <1>1, <1>2, <1>4, <1>5, <1>6, <1>7, <1>8, <1>9 DEF Next

LEMMA InvariantHolds == Spec => []PInv
BY InitEstablishes, StepPreserves, PTL DEF Spec

(* Polls, votes and ballots stay of their types.                             *)
THEOREM PollsAreTyped == Spec => []TypeOK
<1>1. PInv => TypeOK
  BY DEF PInv
<1> QED
  BY <1>1, InvariantHolds, PTL

(* Whatever requests interleave with deadlines and the meeting's own steps,  *)
(* no step takes back a final answer, deletes its poll or moves an outcome.  *)
THEOREM AnswersStayFinal == Spec => FinalAnswersStay
<1> DEFINE Stay ==
      \A p \in Listed :
         /\ \A u \in Users : Final(p, u) /\ votes[p][u] # {} =>
               p \in Listed' /\ votes'[p][u] = votes[p][u]
         /\ polls[p].state = "closed" => p \in Listed' /\ polls'[p].chosen = polls[p].chosen
<1>1. ASSUME PInv, [Next]_vars PROVE [Stay]_vars
  <2> SUFFICES ASSUME Next PROVE Stay
    BY <1>1
  <2>0. TypeOK /\ AnsweredIsSettled
    BY <1>1 DEF PInv
  <2> USE <2>0, PollsAssumption
  <2>a. ASSUME NEW p \in Listed
        PROVE  p \in PollIds /\ polls[p] \in Row /\ polls[p] # None
    BY RowsAreListed
  <2>1. ASSUME NEW q \in PollIds, NEW v \in Users, NEW mode \in {"single", "multiple"},
               NEW revote \in BOOLEAN, NEW due \in {"never", "ahead"},
               Create(q, v, mode, revote, due)
        PROVE  Stay
    <3>1. \A p \in Listed : polls'[p] = polls[p] /\ votes' = votes
      BY <2>1, <2>a DEF Create, TypeOK
    <3> QED
      BY <3>1, <2>a DEF Listed
  <2>2. ASSUME NEW q \in PollIds, Delete(q)
        PROVE  Stay
    <3>1. ASSUME NEW p \in Listed,
                 polls[p].state = "closed" \/ \E u \in Users : votes[p][u] # {}
          PROVE  polls'[p] = polls[p] /\ votes'[p] = votes[p]
      <4>1. p # q
        BY <2>2, <2>a, <3>1 DEF Delete, InDraft, AnsweredIsSettled, Settled
      <4> QED
        BY <2>2, <2>a, <4>1 DEF Delete, TypeOK
    <3> QED
      BY <3>1, <2>a DEF Listed
  <2>3. ASSUME NEW q \in PollIds, DeadlinePasses(q)
        PROVE  Stay
    <3>1. ASSUME NEW p \in Listed
          PROVE  polls'[p] # None /\ polls'[p].chosen = polls[p].chosen
      <4>1. polls'[p] = IF p = q THEN [polls[p] EXCEPT !.due = "passed"] ELSE polls[p]
        BY <2>3, <2>a DEF DeadlinePasses, TypeOK
      <4>2. [polls[p] EXCEPT !.due = "passed"] \in Row
        BY <2>a DEF Row
      <4>3. [polls[p] EXCEPT !.due = "passed"].chosen = polls[p].chosen
        BY <2>a DEF Row
      <4> QED
        BY <4>1, <4>2, <4>3, <2>a, RowsAreListed
    <3> QED
      BY <2>3, <2>a, <3>1 DEF DeadlinePasses, Listed
  <2>4. ASSUME NEW q \in PollIds, NEW v \in Users, NEW chosen \in SUBSET Options,
               Vote(q, v, chosen)
        PROVE  Stay
    <3>1. polls' = polls /\ Listed' = Listed
      BY <2>4 DEF Vote, Listed
    <3>2. ASSUME NEW p \in Listed, NEW u \in Users, Final(p, u), votes[p][u] # {}
          PROVE  votes'[p][u] = votes[p][u]
      <4>1. p # q \/ u # v
        BY <2>4, <3>2 DEF Vote, Deciding, IsOpen, InTime, MayRevote, Final
      <4> QED
        BY <2>4, <2>a, <4>1 DEF Vote, TypeOK
    <3> QED
      BY <3>1, <3>2
  <2>5. ASSUME NEW q \in PollIds, NEW v \in Users, NEW chosen \in Options \cup {None},
               Close(q, v, chosen)
        PROVE  Stay
    <3> DEFINE r == [polls[q] EXCEPT !.state = "closed", !.chosen = chosen]
    <3>1. polls[q].state # "closed" /\ polls[q] \in Row
      BY <2>5, <2>a DEF Close, IsOpen
    <3>2. r \in Row
      BY <3>1 DEF Row
    <3>3. polls' = [polls EXCEPT ![q] = r] /\ votes' = votes
      BY <2>5 DEF Close, TypeOK
    <3> HIDE DEF r
    <3>4. ASSUME NEW p \in Listed
          PROVE  polls'[p] # None /\ (p # q => polls'[p] = polls[p])
      BY <2>a, <3>2, <3>3, RowsAreListed DEF TypeOK
    <3> QED
      BY <2>a, <3>1, <3>3, <3>4 DEF Listed
  <2>6. ASSUME NEW next \in {"collecting", "scheduled", "over"}, Advance(next)
        PROVE  Stay
    BY <2>6 DEF Advance, Listed
  <2>7. ASSUME NEW u \in Users, Join(u)
        PROVE  Stay
    BY <2>7 DEF Join, Listed
  <2> QED
    BY <2>1, <2>2, <2>3, <2>4, <2>5, <2>6, <2>7 DEF Next
<1> QED
  BY <1>1, InvariantHolds, PTL DEF Spec, FinalAnswersStay

(* What a participant sees of the polls moves with the version.              *)
THEOREM PollsTellEveryChange == Spec => VersionTracksPolls
<1>1. ASSUME PInv, [Next]_vars
      PROVE  [Visible' # Visible => version' = version + 1]_vars
  <2> SUFFICES ASSUME Next, ~Touch PROVE Visible' = Visible
    BY <1>1 DEF Touch
  <2>1. PICK p \in PollIds : DeadlinePasses(p)
    BY DEF Next, Create, Delete, Vote, Close, Advance, Join
  <2>2. polls[p] \in Row /\ TypeOK
    BY <1>1, <2>1, RowsAreListed DEF DeadlinePasses, PInv
  <2> DEFINE r == [polls[p] EXCEPT !.due = "passed"]
  <2>3. r \in Row /\ r.state = polls[p].state
    BY <2>2 DEF Row
  <2>4. \A q \in PollIds : polls'[q] = IF q = p THEN r ELSE polls[q]
    BY <2>1, <2>2 DEF DeadlinePasses, TypeOK
  <2> HIDE DEF r
  <2>5. Listed' = Listed
    BY <2>2, <2>3, <2>4, PollsAssumption DEF Listed
  <2>6. \A q \in Listed : polls'[q].state = polls[q].state
    BY <2>3, <2>4 DEF Listed
  <2>7. {q \in Listed : polls[q].state = "closed"}' = {q \in Listed : polls[q].state = "closed"}
    BY <2>5, <2>6
  <2> QED
    BY <2>1, <2>5, <2>7 DEF DeadlinePasses, Visible
<1> QED
  BY <1>1, InvariantHolds, PTL DEF Spec, VersionTracksPolls

------------------------------------------------------------------------------
(* Induction over numbers and finite sets, as the absence of a least         *)
(* counterexample.                                                           *)

LEMMA LeastMember ==
  ASSUME NEW S, S \subseteq Nat, S # {}
  PROVE  \E m \in S : \A k \in S : m <= k
<1> PICK n \in S : TRUE
  OBVIOUS
<1> DEFINE Smaller == StrictSubsetOrdering(0..n)
           Below == {0..m : m \in {k \in S : k <= n}}
<1>1. IsWellFoundedOn(Smaller, FiniteSubsetsOf(0..n))
  BY FS_StrictSubsetOrderingWellFounded, FS_Interval
<1>2. Below \subseteq FiniteSubsetsOf(0..n) /\ Below # {}
  <2>1. 0..n \in Below
    BY n \in Nat
  <2>2. ASSUME NEW k \in S, k <= n PROVE 0..k \in FiniteSubsetsOf(0..n)
    <3>1. k \in Nat /\ n \in Nat /\ 0..k \subseteq 0..n
      BY <2>2
    <3>2. IsFiniteSet(0..k)
      BY <3>1, FS_Interval
    <3> QED
      BY <3>1, <3>2 DEF FiniteSubsetsOf
  <2> QED
    BY <2>1, <2>2
<1> HIDE DEF Smaller
<1>3. PICK x \in Below : \A y \in Below : <<y, x>> \notin Smaller
  <2> HIDE DEF Below
  <2> QED
    BY <1>1, <1>2, WFMin
<1>4. PICK m \in S : m <= n /\ x = 0..m
  OBVIOUS
<1>5. ASSUME NEW k \in S, k < m PROVE FALSE
  <2>1. k \in Nat /\ m \in Nat /\ n \in Nat /\ k <= n
    BY <1>4, <1>5
  <2>2. /\ 0..k \subseteq 0..n /\ 0..m \subseteq 0..n /\ 0..k \subseteq 0..m
        /\ m \notin 0..k /\ m \in 0..m
    BY <1>4, <1>5, <2>1
  <2>3. <<0..k, 0..m>> \in Smaller
    BY <2>2 DEF Smaller, StrictSubsetOrdering
  <2>4. 0..k \in Below
    BY <2>1
  <2> QED
    BY <2>3, <2>4, <1>3, <1>4
<1> QED
  BY <1>5

LEMMA LeastSubset ==
  ASSUME NEW S, IsFiniteSet(S), NEW B \in SUBSET SUBSET S, B # {}
  PROVE  \E T \in B : \A x \in T : T \ {x} \notin B
<1>1. IsWellFoundedOn(StrictSubsetOrdering(S), FiniteSubsetsOf(S))
  BY FS_StrictSubsetOrderingWellFounded
<1>2. B \subseteq FiniteSubsetsOf(S)
  BY FS_Subset DEF FiniteSubsetsOf
<1>3. PICK T \in B : \A U \in B : <<U, T>> \notin StrictSubsetOrdering(S)
  BY <1>1, <1>2, WFMin
<1>4. ASSUME NEW x \in T, T \ {x} \in B PROVE FALSE
  BY <1>3, <1>4 DEF StrictSubsetOrdering
<1> QED
  BY <1>4

------------------------------------------------------------------------------
(* Sums over finite sets, as MapThenSumSet computes them.                    *)

Plus(f, T, g) ==
    IF T = {} THEN 0
    ELSE LET x == CHOOSE y \in T : TRUE IN f[x] + g[T \ {x}]
Sums(f, S, g) == g = [T \in SUBSET S |-> Plus(f, T, g)]
SumOf(f, S) == (CHOOSE g : Sums(f, S, g))[S]

(* There is such a function: one that is right for sets of up to n elements  *)
(* gives one that is right for sets of up to n + 1.                          *)
LEMMA SumsExist ==
  ASSUME NEW f, NEW S, IsFiniteSet(S)
  PROVE  \E g : Sums(f, S, g)
<1> DEFINE RightTo(n, g) == \A T \in SUBSET S : Cardinality(T) <= n => g[T] = Plus(f, T, g)
           Bad == {n \in Nat : ~ \E g : RightTo(n, g)}
<1>0. \A T \in SUBSET S : IsFiniteSet(T) /\ Cardinality(T) \in Nat
  BY FS_Subset, FS_CardinalityType
<1>1. ASSUME NEW T \in SUBSET S, NEW x \in T
      PROVE  T \ {x} \in SUBSET S /\ Cardinality(T \ {x}) = Cardinality(T) - 1
  BY <1>0, FS_RemoveElement
<1>2. 0 \notin Bad
  <2> DEFINE g == [T \in SUBSET S |-> 0]
  <2>1. \A T \in SUBSET S : Cardinality(T) <= 0 => T = {}
    BY <1>0, FS_EmptySet
  <2>2. RightTo(0, g)
    BY <2>1 DEF Plus
  <2> QED
    BY <2>2
<1>3. ASSUME NEW m \in Nat, NEW g, RightTo(m, g) PROVE m + 1 \notin Bad
  <2> DEFINE h == [T \in SUBSET S |-> Plus(f, T, g)]
  <2>1. ASSUME NEW T \in SUBSET S, Cardinality(T) <= m + 1
        PROVE  h[T] = Plus(f, T, h)
    <3>1. CASE T = {}
      BY <3>1 DEF Plus
    <3>2. CASE T # {}
      <4> DEFINE x == CHOOSE y \in T : TRUE
      <4>1. x \in T
        BY <3>2
      <4> HIDE DEF x
      <4>2. T \ {x} \in SUBSET S /\ Cardinality(T \ {x}) <= m
        BY <2>1, <4>1, <1>1, <1>0
      <4>3. g[T \ {x}] = Plus(f, T \ {x}, g)
        BY <4>2, <1>3
      <4>4. h[T \ {x}] = g[T \ {x}]
        BY <4>2, <4>3
      <4>5. Plus(f, T, h) = f[x] + h[T \ {x}] /\ Plus(f, T, g) = f[x] + g[T \ {x}]
        BY <3>2 DEF Plus, x
      <4> QED
        BY <4>4, <4>5
    <3> QED
      BY <3>1, <3>2
  <2>2. RightTo(m + 1, h)
    BY <2>1
  <2> QED
    BY <2>2
<1>4. Bad = {}
  <2> SUFFICES ASSUME Bad # {} PROVE FALSE
    OBVIOUS
  <2>1. PICK m \in Bad : \A k \in Bad : m <= k
    <3>1. Bad \subseteq Nat
      OBVIOUS
    <3> HIDE DEF Bad
    <3> QED
      BY <3>1, LeastMember
  <2>2. m - 1 \in Nat /\ m - 1 \notin Bad
    BY <1>2, <2>1
  <2>3. PICK g : RightTo(m - 1, g)
    BY <2>2
  <2>4. (m - 1) + 1 \notin Bad
    BY <1>3, <2>2, <2>3
  <2> QED
    BY <2>1, <2>2, <2>4
<1>5. PICK g : RightTo(Cardinality(S), g)
  BY <1>0, <1>4
<1>6. \A T \in SUBSET S : Cardinality(T) <= Cardinality(S)
  BY FS_Subset
<1> DEFINE h == [T \in SUBSET S |-> g[T]]
<1>7. ASSUME NEW T \in SUBSET S PROVE h[T] = Plus(f, T, h)
  <2>1. g[T] = Plus(f, T, g)
    BY <1>5, <1>6
  <2>2. Plus(f, T, h) = Plus(f, T, g)
    BY DEF Plus
  <2> QED
    BY <2>1, <2>2
<1>8. Sums(f, S, h)
  BY <1>7 DEF Sums
<1> QED
  BY <1>8

LEMMA SumsStep ==
  ASSUME NEW f, NEW S, NEW g, Sums(f, S, g), NEW T \in SUBSET S
  PROVE  T # {} => \E x \in T : T \ {x} \in SUBSET S /\ g[T] = f[x] + g[T \ {x}]
                     /\ x = CHOOSE y \in T : TRUE
BY DEF Sums, Plus

LEMMA SumsOfNone ==
  ASSUME NEW f, NEW S, NEW g, Sums(f, S, g)
  PROVE  g[{}] = 0
BY DEF Sums, Plus

(* What a sum is made of.                                                    *)
LEMMA SumOfZeros ==
  ASSUME NEW f, NEW S, IsFiniteSet(S), \A x \in S : f[x] = 0
  PROVE  SumOf(f, S) = 0
<1> DEFINE g == CHOOSE h : Sums(f, S, h)
           Bad == {T \in SUBSET S : g[T] # 0}
<1>1. Sums(f, S, g)
  BY SumsExist
<1> HIDE DEF g
<1>2. Bad = {}
  <2> SUFFICES ASSUME Bad # {} PROVE FALSE
    OBVIOUS
  <2>1. PICK T \in Bad : \A x \in T : T \ {x} \notin Bad
    <3>1. Bad \in SUBSET SUBSET S
      OBVIOUS
    <3> HIDE DEF Bad
    <3> QED
      BY <3>1, LeastSubset
  <2>2. T # {}
    BY <1>1, SumsOfNone
  <2>3. PICK x \in T : T \ {x} \in SUBSET S /\ g[T] = f[x] + g[T \ {x}]
    BY <1>1, <2>2, SumsStep
  <2> QED
    BY <2>1, <2>3
<1> QED
  BY <1>2 DEF SumOf, g

LEMMA SumIsNatural ==
  ASSUME NEW f, NEW S, IsFiniteSet(S), \A x \in S : f[x] \in Nat
  PROVE  SumOf(f, S) \in Nat
<1> DEFINE g == CHOOSE h : Sums(f, S, h)
           Bad == {T \in SUBSET S : g[T] \notin Nat}
<1>1. Sums(f, S, g)
  BY SumsExist
<1> HIDE DEF g
<1>2. Bad = {}
  <2> SUFFICES ASSUME Bad # {} PROVE FALSE
    OBVIOUS
  <2>1. PICK T \in Bad : \A x \in T : T \ {x} \notin Bad
    <3>1. Bad \in SUBSET SUBSET S
      OBVIOUS
    <3> HIDE DEF Bad
    <3> QED
      BY <3>1, LeastSubset
  <2>2. T # {}
    BY <1>1, SumsOfNone
  <2>3. PICK x \in T : T \ {x} \in SUBSET S /\ g[T] = f[x] + g[T \ {x}]
    BY <1>1, <2>2, SumsStep
  <2> QED
    BY <2>1, <2>3
<1> QED
  BY <1>2 DEF SumOf, g

(* Changing one summand changes the sum by as much.                          *)
LEMMA SumChanges ==
  ASSUME NEW S, IsFiniteSet(S), NEW e \in [S -> Nat], NEW f \in [S -> Nat], NEW w \in S,
         \A x \in S \ {w} : f[x] = e[x]
  PROVE  SumOf(f, S) = SumOf(e, S) - e[w] + f[w]
<1> DEFINE g == CHOOSE k : Sums(e, S, k)
           h == CHOOSE k : Sums(f, S, k)
           Agree(T) == /\ g[T] \in Int /\ h[T] \in Int
                       /\ h[T] = IF w \in T THEN g[T] - e[w] + f[w] ELSE g[T]
           Bad == {T \in SUBSET S : ~Agree(T)}
<1>1. Sums(e, S, g) /\ Sums(f, S, h)
  BY SumsExist
<1> HIDE DEF g, h
<1>2. Bad = {}
  <2> SUFFICES ASSUME Bad # {} PROVE FALSE
    OBVIOUS
  <2>1. PICK T \in Bad : \A x \in T : T \ {x} \notin Bad
    <3>1. Bad \in SUBSET SUBSET S
      OBVIOUS
    <3> HIDE DEF Bad
    <3> QED
      BY <3>1, LeastSubset
  <2>2. T # {}
    <3>1. g[{}] = 0 /\ h[{}] = 0
      BY <1>1, SumsOfNone
    <3>2. Agree({})
      BY <3>1
    <3> QED
      BY <2>1, <3>2
  <2>3. PICK x \in T : /\ T \ {x} \in SUBSET S
                       /\ g[T] = e[x] + g[T \ {x}] /\ h[T] = f[x] + h[T \ {x}]
    <3>1. \E x \in T : /\ T \ {x} \in SUBSET S /\ g[T] = e[x] + g[T \ {x}]
                        /\ x = CHOOSE y \in T : TRUE
      BY <1>1, <2>2, SumsStep
    <3>2. \E x \in T : h[T] = f[x] + h[T \ {x}] /\ x = CHOOSE y \in T : TRUE
      BY <1>1, <2>2, SumsStep
    <3> QED
      BY <3>1, <3>2
  <2>4. Agree(T \ {x})
    BY <2>1, <2>3
  <2>5. x \in S /\ e[x] \in Int /\ f[x] \in Int /\ e[w] \in Int /\ f[w] \in Int
    OBVIOUS
  <2>6. Agree(T)
    <3>1. CASE x = w
      BY <2>3, <2>4, <2>5, <3>1
    <3>2. CASE x # w
      BY <2>3, <2>4, <2>5, <3>2
    <3> QED
      BY <3>1, <3>2
  <2> QED
    BY <2>1, <2>6
<1>3. Agree(S)
  BY <1>2
<1> QED
  BY <1>3 DEF SumOf, g, h
------------------------------------------------------------------------------
(* Things to bring.                                                          *)

ListInv == List!TypeOK /\ List!ClaimsFit /\ List!CompletedMeetingIsReady

LEMMA ListConstants ==
  /\ Owner \in Group /\ IsFiniteSet(Group) /\ Amount \in Nat /\ MaxListVersion \in Nat \ {0}
  /\ \A r \in List!Row : r # None
  BY ListAssumed DEF List!PreparationAssumption, List!IsFiniteSet, IsFiniteSet

(* What is claimed of a thing is the sum of what each has claimed.           *)
LEMMA ClaimedIsSum ==
  ASSUME NEW i
  PROVE  List!Claimed(i) = SumOf(claims[i], Group) /\ List!Claimed(i)' = SumOf(claims'[i], Group)
  BY DEF List!Claimed, List!MapThenSumSet, List!MapThenFoldSet, SumOf, Sums, Plus

LEMMA ClaimedIsNatural ==
  ASSUME List!TypeOK, NEW i \in Items
  PROVE  List!Claimed(i) \in Nat
  <1>1. claims[i] \in [Group -> 0..Amount]
    BY DEF List!TypeOK
  <1>2. \A u \in Group : claims[i][u] \in Nat
    BY <1>1, ListConstants
  <1> QED
    BY <1>2, ListConstants, SumIsNatural, ClaimedIsSum

(* A thing that is not on the list is claimed by nobody.                     *)
LEMMA UnlistedIsUnclaimed ==
  ASSUME List!TypeOK, List!ClaimsFit, NEW i \in Items, i \notin List!Listed
  PROVE  List!Claimed(i) = 0
  <1>1. \A u \in Group : claims[i][u] = 0
    BY ListConstants DEF List!TypeOK, List!ClaimsFit
  <1> QED
    BY <1>1, ListConstants, SumOfZeros, ClaimedIsSum

LEMMA ClaimMovesTheSum ==
  ASSUME List!TypeOK, NEW i \in Items, NEW u \in Group, NEW quantity \in 0..Amount,
         List!StoreClaim(i, u, quantity)
  PROVE  /\ List!Claimed(i)' = List!Claimed(i) - claims[i][u] + quantity
         /\ \A j \in Items \ {i} : List!Claimed(j)' = List!Claimed(j)
         /\ claims' \in [Items -> [Group -> 0..Amount]]
         /\ \A j \in Items, v \in Group :
              claims'[j][v] = IF j = i /\ v = u THEN quantity ELSE claims[j][v]
  <1>1. /\ claims \in [Items -> [Group -> 0..Amount]]
        /\ claims' = [claims EXCEPT ![i][u] = quantity]
    BY DEF List!TypeOK, List!StoreClaim
  <1>2. claims' \in [Items -> [Group -> 0..Amount]]
    BY <1>1
  <1>3. \A j \in Items, v \in Group :
          claims'[j][v] = IF j = i /\ v = u THEN quantity ELSE claims[j][v]
    BY <1>1
  <1>4. \A j \in Items \ {i} : claims'[j] = claims[j]
    BY <1>1
  <1>5. claims[i] \in [Group -> Nat] /\ claims'[i] \in [Group -> Nat]
    <2>1. 0..Amount \subseteq Nat
      BY ListConstants
    <2>2. claims[i] \in [Group -> 0..Amount] /\ claims'[i] \in [Group -> 0..Amount]
      BY <1>1, <1>2
    <2> QED
      BY <2>1, <2>2
  <1>6. /\ \A v \in Group \ {u} : claims'[i][v] = claims[i][v]
        /\ claims'[i][u] = quantity
    BY <1>3
  <1>7. SumOf(claims'[i], Group) = SumOf(claims[i], Group) - claims[i][u] + claims'[i][u]
    BY <1>5, <1>6, ListConstants, SumChanges
  <1> QED
    BY <1>2, <1>3, <1>4, <1>6, <1>7, ClaimedIsSum

(* Writing a row whose claims it allows, while the list may be edited.       *)
LEMMA RowHolds ==
  ASSUME ListInv, List!Editable, NEW i \in Items, NEW r \in List!Row,
         rows' = [rows EXCEPT ![i] = r],
         IF r.status = "completed" THEN List!Claimed(i) = r.needed
                                   ELSE List!Claimed(i) <= r.needed,
         listVersion' \in 1..MaxListVersion, UNCHANGED <<state, helpers, claims>>
  PROVE  ListInv'
  <1>1. List!TypeOK'
    BY DEF ListInv, List!TypeOK
  <1>2. \A j \in Items : rows'[j] = IF j = i THEN r ELSE rows[j]
    BY DEF ListInv, List!TypeOK
  <1>3. \A j \in Items : List!Claimed(j)' = List!Claimed(j)
    BY ClaimedIsSum
  <1>4. List!ClaimsFit'
    <2>1. ASSUME NEW j \in List!Listed'
          PROVE  (IF rows[j].status = "completed" THEN List!Claimed(j) = rows[j].needed
                                                 ELSE List!Claimed(j) <= rows[j].needed)'
      <3>1. CASE j = i
        BY <2>1, <3>1, <1>2, <1>3 DEF List!Listed
      <3>2. CASE j # i
        BY <2>1, <3>2, <1>2, <1>3 DEF ListInv, List!ClaimsFit, List!Listed
      <3> QED
        BY <3>1, <3>2
    <2>2. \A j \in Items : j \in List!Listed => j \in List!Listed'
      BY <1>2, ListConstants DEF List!Listed
    <2>3. (\A j \in Items, u \in Group :
             claims[j][u] > 0 => j \in List!Listed /\ u \in helpers)'
      BY <2>2 DEF ListInv, List!ClaimsFit
    <2> QED
      BY <2>1, <2>3 DEF List!ClaimsFit
  <1>5. List!CompletedMeetingIsReady'
    BY DEF List!Editable, List!CompletedMeetingIsReady
  <1> QED
    BY <1>1, <1>4, <1>5 DEF ListInv

LEMMA ListInitHolds == List!Init => ListInv
  <1> SUFFICES ASSUME List!Init PROVE ListInv
    OBVIOUS
  <1>1. List!TypeOK
    BY ListConstants DEF List!Init, List!TypeOK
  <1>2. List!ClaimsFit
    BY DEF List!Init, List!ClaimsFit, List!Listed
  <1>3. List!CompletedMeetingIsReady
    BY DEF List!Init, List!CompletedMeetingIsReady
  <1> QED
    BY <1>1, <1>2, <1>3 DEF ListInv

LEMMA ListNextHolds == ListInv /\ [List!Next]_List!vars => ListInv'
  <1> SUFFICES ASSUME ListInv, [List!Next]_List!vars PROVE ListInv'
    OBVIOUS
  <1> USE ListConstants
  <1>t. ASSUME List!Touch PROVE listVersion' \in 1..MaxListVersion
    BY <1>t DEF List!Touch, ListInv, List!TypeOK
  <1>l. \A j \in List!Listed : j \in Items /\ rows[j] \in List!Row
    BY DEF ListInv, List!TypeOK, List!Listed
  <1>1. ASSUME NEW i \in Items, NEW name \in Names, NEW needed \in 1..Amount,
               List!Create(i, name, needed)
        PROVE  ListInv'
    <2> DEFINE r == [name |-> name, needed |-> needed, status |-> "open"]
    <2>1. r \in List!Row /\ r.status = "open" /\ r.needed = needed
      BY DEF List!Row
    <2>2. List!Claimed(i) <= needed
      <3>1. List!Claimed(i) = 0
        BY <1>1, UnlistedIsUnclaimed DEF List!Create, ListInv
      <3> QED
        BY <3>1
    <2>3. rows' = [rows EXCEPT ![i] = r] /\ UNCHANGED <<state, helpers, claims>>
      BY <1>1 DEF List!Create
    <2>4. List!Editable /\ listVersion' \in 1..MaxListVersion
      BY <1>1, <1>t DEF List!Create
    <2> HIDE DEF r
    <2> QED
      BY <2>1, <2>2, <2>3, <2>4, RowHolds
  <1>2. ASSUME NEW i \in Items, NEW name \in Names, NEW needed \in 1..Amount,
               List!Update(i, name, needed)
        PROVE  ListInv'
    <2> DEFINE r == [rows[i] EXCEPT !.name = name, !.needed = needed]
    <2>1. rows[i] \in List!Row /\ rows[i].status = "open"
      BY <1>2, <1>l DEF List!Update, List!IsOpen, List!Open
    <2>2. r \in List!Row /\ r.status = "open" /\ r.needed = needed
      BY <2>1 DEF List!Row
    <2>3. rows' = [rows EXCEPT ![i] = r] /\ UNCHANGED <<state, helpers, claims>>
      BY <1>2 DEF List!Update, ListInv, List!TypeOK
    <2>4. List!Editable /\ listVersion' \in 1..MaxListVersion
      BY <1>2, <1>t DEF List!Update
    <2>5. List!Claimed(i) <= needed
      BY <1>2, ClaimedIsNatural DEF List!Update, List!CoversClaims, ListInv
    <2> HIDE DEF r
    <2> QED
      BY <2>2, <2>3, <2>4, <2>5, RowHolds
  <1>3. ASSUME NEW i \in Items, NEW status \in {"open", "completed"},
               List!SetStatus(i, status)
        PROVE  ListInv'
    <2> DEFINE r == [rows[i] EXCEPT !.status = status]
    <2>1. i \in List!Listed /\ rows[i] \in List!Row
      BY <1>3, <1>l DEF List!SetStatus
    <2>2. r \in List!Row /\ r.status = status /\ r.needed = rows[i].needed
      BY <2>1 DEF List!Row
    <2>3. rows' = [rows EXCEPT ![i] = r] /\ UNCHANGED <<state, helpers, claims>>
      BY <1>3 DEF List!SetStatus, ListInv, List!TypeOK
    <2>4. List!Editable /\ listVersion' \in 1..MaxListVersion
      BY <1>3, <1>t DEF List!SetStatus
    <2>5. IF status = "completed" THEN List!Claimed(i) = rows[i].needed
                                  ELSE List!Claimed(i) <= rows[i].needed
      BY <1>3, <2>1 DEF List!SetStatus, List!FullyClaimed, ListInv, List!ClaimsFit, List!Row
    <2> HIDE DEF r
    <2> QED
      BY <2>2, <2>3, <2>4, <2>5, RowHolds
  <1>4. ASSUME NEW i \in Items, List!Delete(i)
        PROVE  ListInv'
    <2>1. /\ rows' = [rows EXCEPT ![i] = None]
          /\ claims' = [claims EXCEPT ![i] = [u \in Group |-> 0]]
          /\ UNCHANGED <<state, helpers>> /\ List!Editable
      BY <1>4 DEF List!Delete
    <2>2. List!TypeOK'
      BY <2>1, <1>4, <1>t DEF List!Delete, ListInv, List!TypeOK
    <2>3. \A j \in Items : /\ rows'[j] = IF j = i THEN None ELSE rows[j]
                           /\ claims'[j] = IF j = i THEN [u \in Group |-> 0] ELSE claims[j]
      BY <2>1 DEF ListInv, List!TypeOK
    <2>4. \A j \in Items \ {i} : List!Claimed(j)' = List!Claimed(j)
      BY <2>3, ClaimedIsSum
    <2>5. List!ClaimsFit'
      BY <2>1, <2>3, <2>4 DEF ListInv, List!ClaimsFit, List!Listed
    <2>6. List!CompletedMeetingIsReady'
      BY <2>1 DEF List!Editable, List!CompletedMeetingIsReady
    <2> QED
      BY <2>2, <2>5, <2>6 DEF ListInv
  <1>5. ASSUME NEW i \in Items, NEW u \in Group, NEW quantity \in 0..Amount,
               List!SetClaim(i, u, quantity)
        PROVE  ListInv'
    <2>1. /\ List!StoreClaim(i, u, quantity) /\ UNCHANGED <<state, helpers, rows>>
          /\ List!Editable /\ u \in helpers /\ List!Fits(i, u, quantity)
          /\ i \in List!Listed /\ rows[i].status = "open" /\ rows[i] \in List!Row
      BY <1>5, <1>l DEF List!SetClaim, List!Participates, List!IsOpen, List!Open
    <2>2. List!TypeOK'
      BY <2>1, <1>5, <1>t, ClaimMovesTheSum DEF List!SetClaim, ListInv, List!TypeOK
    <2>3. List!Claimed(i)' <= rows[i].needed
      BY <2>1, ClaimMovesTheSum DEF List!Fits, ListInv
    <2>4. \A j \in Items \ {i} : List!Claimed(j)' = List!Claimed(j)
      BY <2>1, ClaimMovesTheSum DEF ListInv
    <2>5. List!Listed' = List!Listed
      BY <2>1 DEF List!Listed
    <2>6. \A j \in Items, v \in Group :
            claims'[j][v] = IF j = i /\ v = u THEN quantity ELSE claims[j][v]
      BY <2>1, ClaimMovesTheSum DEF ListInv
    <2>7. List!ClaimsFit'
      <3>1. ASSUME NEW j \in List!Listed
            PROVE  (IF rows[j].status = "completed" THEN List!Claimed(j) = rows[j].needed
                                                   ELSE List!Claimed(j) <= rows[j].needed)'
        BY <2>1, <2>3, <2>4, <1>l DEF ListInv, List!ClaimsFit
      <3>2. (\A j \in Items, v \in Group :
               claims[j][v] > 0 => j \in List!Listed /\ v \in helpers)'
        BY <2>1, <2>5, <2>6 DEF ListInv, List!ClaimsFit
      <3> QED
        BY <2>5, <3>1, <3>2 DEF List!ClaimsFit
    <2>8. List!CompletedMeetingIsReady'
      BY <2>1 DEF List!Editable, List!CompletedMeetingIsReady
    <2> QED
      BY <2>2, <2>7, <2>8 DEF ListInv
  <1>6. ASSUME UNCHANGED <<rows, claims>>, helpers \subseteq helpers', helpers' \subseteq Group,
               state' \in {"scheduled", "completed", "cancelled"},
               listVersion' \in 1..MaxListVersion,
               state' = "completed" => state = "completed" \/ List!NothingOpen
        PROVE  ListInv'
    <2>1. List!TypeOK'
      BY <1>6 DEF ListInv, List!TypeOK
    <2>2. \A j \in Items : List!Claimed(j)' = List!Claimed(j)
      BY <1>6, ClaimedIsSum
    <2>3. List!Listed' = List!Listed
      BY <1>6 DEF List!Listed
    <2>4. List!ClaimsFit'
      BY <1>6, <1>l, <2>2, <2>3 DEF ListInv, List!ClaimsFit
    <2>5. List!CompletedMeetingIsReady'
      <3>1. CASE state = "completed"
        BY <1>6, <1>l, <2>2, <2>3, <3>1 DEF ListInv, List!CompletedMeetingIsReady
      <3>2. CASE List!NothingOpen
        <4>1. \A j \in List!Listed : rows[j].status = "completed"
          BY <1>l, <3>2 DEF List!NothingOpen, List!Open, List!Row
        <4> QED
          BY <1>6, <1>l, <2>2, <2>3, <4>1 DEF ListInv, List!ClaimsFit,
             List!CompletedMeetingIsReady
      <3> QED
        BY <1>6, <3>1, <3>2 DEF List!CompletedMeetingIsReady
    <2> QED
      BY <2>1, <2>4, <2>5 DEF ListInv
  <1>7. ASSUME NEW u \in Group, List!Join(u) PROVE ListInv'
    BY <1>6, <1>7, <1>t DEF List!Join, ListInv, List!TypeOK
  <1>8. CASE List!Complete
    BY <1>6, <1>8, <1>t DEF List!Complete, ListInv, List!TypeOK
  <1>9. CASE List!Cancel
    BY <1>6, <1>9, <1>t DEF List!Cancel, ListInv, List!TypeOK
  <1>10. CASE UNCHANGED List!vars
    BY <1>6, <1>10 DEF List!vars, ListInv, List!TypeOK
  <1> QED
    BY <1>1, <1>2, <1>3, <1>4, <1>5, <1>7, <1>8, <1>9, <1>10 DEF List!Next

LEMMA ListInductive == List!Spec => []ListInv
  BY ListInitHolds, ListNextHolds, PTL DEF List!Spec

LEMMA ListTellsEveryChange == List!Spec => List!VersionTracksList
  <1>1. ASSUME [List!Next]_List!vars
        PROVE  [<<rows, claims, helpers, state>>' # <<rows, claims, helpers, state>> =>
                  listVersion' = listVersion + 1]_List!vars
    <2> SUFFICES ASSUME List!Next PROVE listVersion' = listVersion + 1
      BY <1>1
    <2> QED
      BY DEF List!Next, List!Create, List!Update, List!Delete, List!SetClaim, List!SetStatus,
         List!Join, List!Complete, List!Cancel, List!Touch
  <1> QED
    BY <1>1, PTL DEF List!Spec, List!VersionTracksList
------------------------------------------------------------------------------
(* Notes.                                                                    *)

LEMMA NotesInductive == Note!Spec => []Note!TypeOK
  <1> USE NoteAssumed DEF Note!NotesAssumption
  <1>1. Note!Init => Note!TypeOK
    BY DEF Note!Init, Note!TypeOK, Note!Note, Note!States, Note!Times
  <1>2. Note!TypeOK /\ [Note!Next]_Note!vars => Note!TypeOK'
    <2> SUFFICES ASSUME Note!TypeOK, [Note!Next]_Note!vars PROVE Note!TypeOK'
      OBVIOUS
    <2>t. noteVersion < MaxNoteVersion => Note!TouchMeeting \in 1..MaxNoteVersion
      BY DEF Note!TypeOK, Note!TouchMeeting
    <2>1. ASSUME NEW p \in People, NEW text \in Note!Note, Note!Ask(p, text)
          PROVE  Note!TypeOK'
      <3> DEFINE asked == [text |-> text, state |-> noteState, time |-> noteTime]
      <3>1. asked \in Note!Waiting
        BY DEF Note!TypeOK, Note!Waiting
      <3>2. tx' = [tx EXCEPT ![p] = asked]
        BY <2>1 DEF Note!Ask
      <3> HIDE DEF asked
      <3> QED
        BY <2>1, <3>1, <3>2 DEF Note!Ask, Note!TypeOK
    <2>2. ASSUME NEW p \in People, Note!Change(p) PROVE Note!TypeOK'
      <3>1. tx[p] \in Note!Waiting
        BY <2>2 DEF Note!Change, Note!TypeOK
      <3>2. Note!Stored(p) \in Note!Note
        BY <3>1 DEF Note!Stored, Note!Waiting
      <3> QED
        BY <2>2, <2>t, <3>2 DEF Note!Change, Note!TypeOK
    <2>3. ASSUME NEW p \in People, Note!Leave(p) PROVE Note!TypeOK'
      BY <2>3 DEF Note!Leave, Note!TypeOK
    <2>4. CASE Note!MoveOn
      BY <2>4, <2>t DEF Note!MoveOn, Note!TypeOK, Note!States, Note!Times
    <2>5. CASE Note!Reschedule
      BY <2>5, <2>t DEF Note!Reschedule, Note!TypeOK, Note!Times
    <2>6. CASE Note!GrowOld
      BY <2>6 DEF Note!GrowOld, Note!TypeOK, Note!Times
    <2>7. CASE UNCHANGED Note!vars
      BY <2>7 DEF Note!vars, Note!TypeOK
    <2> QED
      BY <2>1, <2>2, <2>3, <2>4, <2>5, <2>6, <2>7 DEF Note!Next
  <1> QED
    BY <1>1, <1>2, PTL DEF Note!Spec

(* Only a change that was authorised moves a note, and that of its author.   *)
LEMMA NoteSteps ==
  ASSUME Note!TypeOK, [Note!Next]_Note!vars
  PROVE  \/ notes' = notes
         \/ \E p \in People : /\ Note!Change(p)
                              /\ \A q \in People \ {p} : notes'[q] = notes[q]
  <1>1. ASSUME NEW p \in People, Note!Change(p)
        PROVE  \A q \in People \ {p} : notes'[q] = notes[q]
    BY <1>1 DEF Note!Change, Note!TypeOK
  <1> QED
    BY <1>1 DEF Note!Next, Note!vars, Note!Ask, Note!Leave, Note!MoveOn, Note!Reschedule,
       Note!GrowOld

LEMMA NotesAdmit == Note!Spec => Note!AdmittedWhileActive
  <1> DEFINE Admit ==
        \A p \in People :
           notes'[p] # notes[p] =>
              /\ noteState # "over"
              /\ ~Note!Archived \/ ~(tx[p].state = "scheduled" /\ tx[p].time = "past")
  <1>1. ASSUME Note!TypeOK, [Note!Next]_Note!vars PROVE [Admit]_Note!vars
    BY <1>1, NoteSteps DEF Note!Change, Note!AuthorizeMutation, Note!ArchivedThen,
       Note!StateNow, Note!Archived
  <1> QED
    BY <1>1, NotesInductive, PTL DEF Note!Spec, Note!AdmittedWhileActive

LEMMA NotesTellEveryChange == Note!Spec => Note!VersionTracksNotes
  <1>1. ASSUME Note!TypeOK, [Note!Next]_Note!vars
        PROVE  [notes' # notes => noteVersion' > noteVersion]_Note!vars
    BY <1>1, NoteSteps DEF Note!Change, Note!TouchMeeting, Note!TypeOK
  <1> QED
    BY <1>1, NotesInductive, PTL DEF Note!Spec, Note!VersionTracksNotes
------------------------------------------------------------------------------
(* Answers about times.                                                      *)

LEMMA ViewConstants ==
  /\ Owner \in Group /\ IsFiniteSet(Group)
  /\ Scope \in View!Seq(Plans \cup {None}) /\ Start \in [View!TimeOptions -> Int]
  /\ None \notin View!TimeOptions
  /\ \A S : View!Cardinality(S) = Cardinality(S)
  BY ViewAssumed DEF View!ViewAssumption, View!TimeOptions, View!IsFiniteSet, IsFiniteSet,
     View!Cardinality, Cardinality

LEMMA TimesAreNumbered ==
  /\ View!Len(Scope) \in Nat
  /\ View!TimeOptions = 1..View!Len(Scope)
  BY ViewConstants DEF View!TimeOptions

(* Participants are of the group, and so are those counted among them.       *)
LEMMA CountIsNatural ==
  ASSUME NEW S \in SUBSET Group
  PROVE  IsFiniteSet(S) /\ Cardinality(S) \in Nat /\ Cardinality(S) <= Cardinality(Group)
         /\ Cardinality(Group) \in Nat
  BY ViewConstants, FS_Subset, FS_CardinalityType

(* What the ranking compares are numbers.                                    *)
Numbers(counts) ==
    \A t \in View!TimeOptions :
        /\ counts[t].unavailable \in Int /\ counts[t].score \in Int
        /\ counts[t].preferred \in Int /\ counts[t].answered \in Int

LEMMA TalliesAreNumbers ==
  ASSUME NEW found
  PROVE  Numbers(View!Tallies(found))
  <1> SUFFICES ASSUME NEW t \in View!TimeOptions
               PROVE  /\ View!Tallies(found)[t].unavailable \in Int
                      /\ View!Tallies(found)[t].score \in Int
                      /\ View!Tallies(found)[t].preferred \in Int
                      /\ View!Tallies(found)[t].answered \in Int
    BY DEF Numbers
  <1>1. ASSUME NEW status PROVE View!Count(found, t, status) \in Int
    <2> DEFINE S == {u \in Group : found[u][t] = status}
    <2>1. Cardinality(S) \in Nat
      BY CountIsNatural
    <2> QED
      BY <2>1, ViewConstants DEF View!Count
  <1>2. /\ View!Tally(found, t).unavailable = View!Count(found, t, "unavailable")
        /\ View!Tally(found, t).score =
             3 * View!Count(found, t, "preferred") + 2 * View!Count(found, t, "available")
               + View!Count(found, t, "if_needed") - 4 * View!Count(found, t, "unavailable")
        /\ View!Tally(found, t).preferred = View!Count(found, t, "preferred")
        /\ View!Tally(found, t).answered =
             View!Count(found, t, "preferred") + View!Count(found, t, "available")
               + View!Count(found, t, "if_needed") + View!Count(found, t, "unavailable")
    BY DEF View!Tally
  <1>3. /\ View!Tally(found, t).unavailable \in Int /\ View!Tally(found, t).score \in Int
        /\ View!Tally(found, t).preferred \in Int /\ View!Tally(found, t).answered \in Int
    BY <1>1, <1>2
  <1> QED
    BY <1>3 DEF View!Tallies

(* The comparison of the code, key by key, is the order of the merits.       *)
LEMMA RankingIsByMerit ==
  ASSUME NEW counts, NEW l \in View!TimeOptions, NEW r \in View!TimeOptions, Numbers(counts)
  PROVE  View!Better(counts, l, r) <=> View!RanksBefore(counts, l, r)
  <1> DEFINE L == View!Merits(counts, l)
             R == View!Merits(counts, r)
  <1>1. /\ L[1] = -counts[l].unavailable /\ L[2] = counts[l].score
        /\ L[3] = counts[l].preferred /\ L[4] = counts[l].answered
        /\ L[5] = -Start[l] /\ L[6] = -l
    BY DEF View!Merits
  <1>2. /\ R[1] = -counts[r].unavailable /\ R[2] = counts[r].score
        /\ R[3] = counts[r].preferred /\ R[4] = counts[r].answered
        /\ R[5] = -Start[r] /\ R[6] = -r
    BY DEF View!Merits
  <1>3. Start[l] \in Int /\ Start[r] \in Int /\ l \in Int /\ r \in Int
    BY ViewConstants, TimesAreNumbered
  <1>4. View!Better(counts, l, r) <=>
            \E i \in 1..6 : L[i] > R[i] /\ \A j \in 1..6 : j < i => L[j] = R[j]
    BY DEF View!Better
  <1> HIDE DEF L, R
  <1>5. View!Better(counts, l, r) <=>
            \/ L[1] > R[1]
            \/ L[1] = R[1] /\ L[2] > R[2]
            \/ L[1] = R[1] /\ L[2] = R[2] /\ L[3] > R[3]
            \/ L[1] = R[1] /\ L[2] = R[2] /\ L[3] = R[3] /\ L[4] > R[4]
            \/ L[1] = R[1] /\ L[2] = R[2] /\ L[3] = R[3] /\ L[4] = R[4] /\ L[5] > R[5]
            \/ L[1] = R[1] /\ L[2] = R[2] /\ L[3] = R[3] /\ L[4] = R[4] /\ L[5] = R[5]
                 /\ L[6] > R[6]
    BY <1>4
  <1> QED
    BY <1>1, <1>2, <1>3, <1>5 DEF View!RanksBefore, Numbers

(* What the loop over the items keeps is no worse than any it has passed.    *)
NoWorse(counts, l, r) == ~View!RanksBefore(counts, r, l)

LEMMA RankingIsTotal ==
  ASSUME NEW counts, NEW l \in View!TimeOptions, NEW r \in View!TimeOptions, Numbers(counts)
  PROVE  IF View!RanksBefore(counts, l, r) THEN NoWorse(counts, l, r) ELSE NoWorse(counts, r, l)
  <1>1. Start[l] \in Int /\ Start[r] \in Int /\ l \in Int /\ r \in Int
    BY ViewConstants, TimesAreNumbered
  <1> QED
    BY <1>1 DEF View!RanksBefore, NoWorse, Numbers

LEMMA RankingIsTransitive ==
  ASSUME NEW counts, Numbers(counts),
         NEW k \in View!TimeOptions, NEW l \in View!TimeOptions, NEW r \in View!TimeOptions,
         NoWorse(counts, k, l), NoWorse(counts, l, r)
  PROVE  NoWorse(counts, k, r)
  <1>1. /\ Start[k] \in Int /\ Start[l] \in Int /\ Start[r] \in Int
        /\ k \in Int /\ l \in Int /\ r \in Int
    BY ViewConstants, TimesAreNumbered
  <1> QED
    BY <1>1 DEF View!RanksBefore, NoWorse, Numbers

Kept(p, counts, best, n) ==
    IF n = 0 THEN None
    ELSE IF View!Suits(p, n) /\ (best[n-1] = None \/ View!RanksBefore(counts, n, best[n-1]))
         THEN n ELSE best[n-1]
Loop(p, counts, best) == best = [n \in 0..View!Len(Scope) |-> Kept(p, counts, best, n)]

LEMMA BestIsTheLoops ==
  ASSUME NEW p, NEW counts
  PROVE  View!Best(p, counts) = (CHOOSE best : Loop(p, counts, best))[View!Len(Scope)]
  BY DEF View!Best, Loop, Kept

LEMMA LoopExists ==
  ASSUME NEW p, NEW counts
  PROVE  \E best : Loop(p, counts, best)
  <1> DEFINE last == View!Len(Scope)
             RightTo(n, best) == \A k \in 0..last : k <= n => best[k] = Kept(p, counts, best, k)
             Bad == {n \in Nat : ~ \E best : RightTo(n, best)}
  <1>0. last \in Nat
    BY TimesAreNumbered
  <1> HIDE DEF last
  <1>1. 0 \notin Bad
    <2> DEFINE best == [k \in 0..last |-> None]
    <2>1. RightTo(0, best)
      BY <1>0 DEF Kept
    <2> QED
      BY <2>1
  <1>2. ASSUME NEW m \in Nat, NEW best, RightTo(m, best) PROVE m + 1 \notin Bad
    <2> DEFINE next == [k \in 0..last |-> Kept(p, counts, best, k)]
    <2>1. ASSUME NEW k \in 0..last, k <= m + 1 PROVE next[k] = Kept(p, counts, next, k)
      <3>1. CASE k = 0
        BY <3>1 DEF Kept
      <3>2. CASE k # 0
        <4>1. k - 1 \in 0..last /\ k - 1 <= m
          BY <1>0, <2>1, <3>2
        <4>2. next[k-1] = best[k-1]
          BY <1>2, <4>1
        <4>3. Kept(p, counts, next, k) = Kept(p, counts, best, k)
          BY <4>2 DEF Kept
        <4> QED
          BY <4>3
      <3> QED
        BY <3>1, <3>2
    <2>2. RightTo(m + 1, next)
      BY <2>1
    <2> QED
      BY <2>2
  <1>3. Bad = {}
    <2> SUFFICES ASSUME Bad # {} PROVE FALSE
      OBVIOUS
    <2>1. PICK m \in Bad : \A k \in Bad : m <= k
      <3>1. Bad \subseteq Nat
        OBVIOUS
      <3> HIDE DEF Bad
      <3> QED
        BY <3>1, LeastMember
    <2>2. m - 1 \in Nat /\ m - 1 \notin Bad
      BY <1>1, <2>1
    <2>3. PICK best : RightTo(m - 1, best)
      BY <2>2
    <2>4. (m - 1) + 1 \notin Bad
      BY <1>2, <2>2, <2>3
    <2> QED
      BY <2>1, <2>2, <2>4
  <1>4. PICK best : RightTo(last, best)
    BY <1>0, <1>3
  <1> DEFINE same == [k \in 0..last |-> best[k]]
  <1>5. ASSUME NEW k \in 0..last PROVE same[k] = Kept(p, counts, same, k)
    <2>1. best[k] = Kept(p, counts, best, k)
      BY <1>0, <1>4
    <2>2. Kept(p, counts, same, k) = Kept(p, counts, best, k)
      <3>1. CASE k = 0
        BY <3>1 DEF Kept
      <3>2. CASE k # 0
        <4>1. k - 1 \in 0..last
          BY <1>0, <3>2
        <4>2. same[k-1] = best[k-1]
          BY <4>1
        <4> QED
          BY <4>2 DEF Kept
      <3> QED
        BY <3>1, <3>2
    <2> QED
      BY <2>1, <2>2
  <1>6. Loop(p, counts, same)
    BY <1>5 DEF Loop, last
  <1> QED
    BY <1>6

(* A recommendation suits its plan, and no time that does is better.         *)
Recommends(p, counts, best, n) ==
    LET suiting == {t \in 1..n : View!Suits(p, t)}
    IN IF suiting = {} THEN best = None
       ELSE best \in suiting /\ \A t \in suiting : NoWorse(counts, best, t)

LEMMA BestIsBest ==
  ASSUME NEW p, NEW counts, Numbers(counts)
  PROVE  Recommends(p, counts, View!Best(p, counts), View!Len(Scope))
  <1> DEFINE last == View!Len(Scope)
             best == CHOOSE b : Loop(p, counts, b)
             Bad == {n \in 0..last : ~Recommends(p, counts, best[n], n)}
  <1>0. last \in Nat /\ View!TimeOptions = 1..last
    BY TimesAreNumbered
  <1>1. Loop(p, counts, best)
    BY LoopExists
  <1>2. \A n \in 0..last : best[n] = Kept(p, counts, best, n)
    BY <1>1 DEF Loop
  <1> HIDE DEF last, best
  <1>3. 0 \notin Bad
    BY <1>0, <1>2 DEF Kept, Recommends
  <1>4. ASSUME NEW n \in 1..last, Recommends(p, counts, best[n-1], n - 1)
        PROVE  Recommends(p, counts, best[n], n)
    <2> DEFINE before == {t \in 1..(n-1) : View!Suits(p, t)}
               suiting == {t \in 1..n : View!Suits(p, t)}
    <2>0. n \in View!TimeOptions /\ n \in 0..last /\ n # 0 /\ n \in Int
      BY <1>0
    <2>1. 1..n = (1..(n-1)) \cup {n} /\ before \subseteq View!TimeOptions
      BY <1>0
    <2>2. best[n] = IF View!Suits(p, n)
                       /\ (best[n-1] = None \/ View!RanksBefore(counts, n, best[n-1]))
                    THEN n ELSE best[n-1]
      BY <1>2, <2>0 DEF Kept
    <2>3. suiting = IF View!Suits(p, n) THEN before \cup {n} ELSE before
      BY <2>1
    <2>4. IF before = {} THEN best[n-1] = None
          ELSE best[n-1] \in before /\ \A t \in before : NoWorse(counts, best[n-1], t)
      BY <1>4 DEF Recommends
    <2>5. NoWorse(counts, n, n)
      BY <2>0, RankingIsTotal
    <2> HIDE DEF before, suiting
    <2>6. IF suiting = {} THEN best[n] = None
          ELSE best[n] \in suiting /\ \A t \in suiting : NoWorse(counts, best[n], t)
      <3>1. CASE ~View!Suits(p, n)
        BY <2>2, <2>3, <2>4, <3>1
      <3>2. CASE View!Suits(p, n) /\ before = {}
        BY <2>2, <2>3, <2>4, <2>5, <3>2
      <3>3. CASE View!Suits(p, n) /\ before # {}
        <4>1. /\ best[n-1] \in before /\ best[n-1] \in View!TimeOptions
              /\ best[n-1] # None
          BY <2>1, <2>4, <3>3, ViewConstants
        <4>2. CASE View!RanksBefore(counts, n, best[n-1])
          <5>1. NoWorse(counts, n, best[n-1])
            BY <2>0, <4>1, <4>2, RankingIsTotal
          <5>2. \A t \in before : NoWorse(counts, n, t)
            BY <2>0, <2>1, <2>4, <3>3, <4>1, <5>1, RankingIsTransitive
          <5> QED
            BY <2>2, <2>3, <2>5, <3>3, <4>2, <5>2
        <4>3. CASE ~View!RanksBefore(counts, n, best[n-1])
          <5>1. NoWorse(counts, best[n-1], n)
            BY <2>0, <4>1, <4>3, RankingIsTotal
          <5> QED
            BY <2>2, <2>3, <2>4, <3>3, <4>1, <4>3, <5>1
        <4> QED
          BY <4>2, <4>3
      <3> QED
        BY <3>1, <3>2, <3>3
    <2> QED
      BY <2>6 DEF Recommends, suiting
  <1>5. Bad = {}
    <2> SUFFICES ASSUME Bad # {} PROVE FALSE
      OBVIOUS
    <2>1. PICK m \in Bad : \A k \in Bad : m <= k
      <3>1. Bad \subseteq Nat
        BY <1>0
      <3> HIDE DEF Bad
      <3> QED
        BY <3>1, LeastMember
    <2>2. m \in 1..last /\ m - 1 \in 0..last /\ m - 1 \notin Bad
      BY <1>0, <1>3, <2>1
    <2> QED
      BY <1>4, <2>1, <2>2
  <1>6. Recommends(p, counts, best[last], last)
    BY <1>0, <1>5
  <1> QED
    BY <1>6, BestIsTheLoops DEF best, last

(* Only participants have answered.                                          *)
OnlyMembersAnswer ==
    \A u \in Group, t \in View!TimeOptions : answers[u][t] # None => u \in viewers

ViewInv == View!TypeOK /\ OnlyMembersAnswer

LEMMA ViewInitHolds == View!Init => ViewInv
  <1> SUFFICES ASSUME View!Init PROVE ViewInv
    OBVIOUS
  <1>1. Cardinality(Group) \in Nat
    BY CountIsNatural
  <1>2. 0 \in -Cardinality(Group)..Cardinality(Group)
    BY <1>1
  <1>3. View!TypeOK
    BY <1>2, ViewConstants DEF View!Init, View!TypeOK, View!NoView
  <1> QED
    BY <1>3 DEF ViewInv, View!Init, OnlyMembersAnswer

LEMMA EmptyViewIsTyped ==
  View!NoView \in [unanswered : [View!TimeOptions -> -Cardinality(Group)..Cardinality(Group)],
                   best : [Plans -> View!TimeOptions \cup {None}]]
  <1>1. Cardinality(Group) \in Nat
    BY CountIsNatural
  <1>2. 0 \in -Cardinality(Group)..Cardinality(Group)
    BY <1>1
  <1> QED
    BY <1>2 DEF View!NoView

LEMMA ViewNextHolds == ViewInv /\ [View!Next]_View!vars => ViewInv'
  <1> SUFFICES ASSUME ViewInv, [View!Next]_View!vars PROVE ViewInv'
    OBVIOUS
  <1>0. Owner \in Group /\ \A S : View!Cardinality(S) = Cardinality(S)
    BY ViewConstants
  <1>1. ASSUME NEW u \in Group, View!Join(u) PROVE ViewInv'
    BY <1>0, <1>1, EmptyViewIsTyped DEF View!Join, ViewInv, View!TypeOK, OnlyMembersAnswer
  <1>2. ASSUME NEW u \in Group, NEW t \in View!TimeOptions, NEW a \in View!Statuses \cup {None},
               View!SetStatus(u, t, a)
        PROVE  ViewInv'
    <2>1. answers' \in [Group -> [View!TimeOptions -> View!Statuses \cup {None}]]
      BY <1>2 DEF View!SetStatus, ViewInv, View!TypeOK
    <2>2. \A w \in Group \ {u} : answers'[w] = answers[w]
      BY <1>2 DEF View!SetStatus, ViewInv, View!TypeOK
    <2>3. OnlyMembersAnswer'
      BY <1>2, <2>2 DEF View!SetStatus, ViewInv, OnlyMembersAnswer
    <2> QED
      BY <1>0, <1>2, <2>1, <2>3, EmptyViewIsTyped DEF View!SetStatus, ViewInv, View!TypeOK
  <1>3. CASE View!ListParticipants
    BY <1>0, <1>3, EmptyViewIsTyped DEF View!ListParticipants, ViewInv, View!TypeOK,
       OnlyMembersAnswer
  <1>4. CASE View!ListVotes
    <2>1. \A t \in View!TimeOptions :
            View!Unanswered(seen, answers, t) \in -Cardinality(Group)..Cardinality(Group)
      <3> TAKE t \in View!TimeOptions
      <3> DEFINE A == {u \in Group : answers[u][t] # None}
      <3>1. seen \in SUBSET Group /\ A \in SUBSET Group
        BY DEF ViewInv, View!TypeOK
      <3>2. View!Unanswered(seen, answers, t) = Cardinality(seen) - Cardinality(A)
        BY <1>0 DEF View!Unanswered
      <3> HIDE DEF A
      <3>3. Cardinality(seen) \in 0..Cardinality(Group)
        BY <3>1, CountIsNatural
      <3>4. Cardinality(A) \in 0..Cardinality(Group) /\ Cardinality(Group) \in Nat
        BY <3>1, CountIsNatural
      <3> QED
        BY <3>2, <3>3, <3>4
    <2>2. \A p \in Plans : View!Best(p, View!Tallies(answers)) \in View!TimeOptions \cup {None}
      <3> TAKE p \in Plans
      <3>1. Recommends(p, View!Tallies(answers), View!Best(p, View!Tallies(answers)),
                       View!Len(Scope))
        BY BestIsBest, TalliesAreNumbers
      <3> QED
        BY <3>1, TimesAreNumbered DEF Recommends
    <2>3. View!BuildView(seen, answers) \in
            [unanswered : [View!TimeOptions -> -Cardinality(Group)..Cardinality(Group)],
             best : [Plans -> View!TimeOptions \cup {None}]]
      BY <2>1, <2>2 DEF View!BuildView
    <2> QED
      BY <1>0, <1>4, <2>3 DEF View!ListVotes, ViewInv, View!TypeOK, OnlyMembersAnswer
  <1>5. CASE UNCHANGED View!vars
    BY <1>5 DEF View!vars, ViewInv, View!TypeOK, OnlyMembersAnswer
  <1> QED
    BY <1>1, <1>2, <1>3, <1>4, <1>5 DEF View!Next

LEMMA ViewInductive == View!Spec => []ViewInv
  BY ViewInitHolds, ViewNextHolds, PTL DEF View!Spec

LEMMA QuietViewsAreExact == View!Spec => View!ExactWhenQuiet
  <1> DEFINE Exact == View!ListVotes /\ seen = viewers =>
                        \A t \in View!TimeOptions : view'.unanswered[t] = View!Missing(t)
  <1>1. ASSUME ViewInv, [View!Next]_View!vars PROVE [Exact]_View!vars
    <2> SUFFICES ASSUME View!ListVotes, seen = viewers, NEW t \in View!TimeOptions
                 PROVE  view'.unanswered[t] = View!Missing(t)
      BY DEF View!ListVotes
    <2> DEFINE A == {u \in Group : answers[u][t] # None}
               M == {u \in viewers : answers[u][t] = None}
    <2>1. viewers \in SUBSET Group
      BY <1>1 DEF ViewInv, View!TypeOK
    <2>2. M = viewers \ A /\ viewers \cap A = A
      BY <1>1, <2>1 DEF ViewInv, OnlyMembersAnswer
    <2>3. Cardinality(M) = Cardinality(viewers) - Cardinality(A)
      BY <2>1, <2>2, CountIsNatural, FS_Difference
    <2>4. view'.unanswered[t] = View!Unanswered(viewers, answers, t)
      BY DEF View!ListVotes, View!BuildView
    <2> QED
      BY <2>3, <2>4, ViewConstants DEF View!Unanswered, View!Missing
  <1> QED
    BY <1>1, ViewInductive, PTL DEF View!Spec, View!ExactWhenQuiet

LEMMA RecommendationsAreBest == View!Spec => View!RecommendsBest
  <1> DEFINE Best == View!ListVotes =>
                       \A p \in Plans : View!Recommended(p, View!Tallies(answers))
  <1>1. ASSUME [View!Next]_View!vars PROVE [Best]_View!vars
    <2> SUFFICES ASSUME View!ListVotes, NEW p \in Plans
                 PROVE  View!Recommended(p, View!Tallies(answers))
      OBVIOUS
    <2> DEFINE counts == View!Tallies(answers)
    <2>1. Recommends(p, counts, View!Best(p, counts), View!Len(Scope))
      BY BestIsBest, TalliesAreNumbers
    <2>2. view'.best[p] = View!Best(p, counts)
      BY DEF View!ListVotes, View!BuildView
    <2>3. {t \in 1..View!Len(Scope) : View!Suits(p, t)}
             = {t \in View!TimeOptions : Scope[t] \in {None, p}}
      BY TimesAreNumbered DEF View!Suits
    <2>4. Numbers(counts)
      BY TalliesAreNumbers
    <2> HIDE DEF counts
    <2>5. View!Recommended(p, counts)
      BY <2>1, <2>2, <2>3, <2>4, RankingIsByMerit DEF Recommends, NoWorse, View!Recommended
    <2> QED
      BY <2>5 DEF counts
  <1> QED
    BY <1>1, PTL DEF View!Spec, View!RecommendsBest
------------------------------------------------------------------------------
(* The composition.                                                          *)

(* Each part of the composition behaves as it does alone.                    *)
THEOREM GroupAreTheirParts == GroupSpec => Spec /\ View!Spec /\ List!Spec /\ Note!Spec
  <1> DEFINE Step == [GroupNext]_<<part, vars, viewVars, listVars, noteVars>>
  <1>1. GroupInit => Init /\ View!Init /\ List!Init /\ Note!Init
    BY DEF GroupInit
  <1>2. Step => [Next]_vars
    BY DEF GroupNext, vars
  <1>3. Step => [View!Next]_View!vars
    BY DEF GroupNext, View!vars, viewVars
  <1>4. Step => [List!Next]_List!vars
    BY DEF GroupNext, List!vars, listVars
  <1>5. Step => [Note!Next]_Note!vars
    BY DEF GroupNext, Note!vars, noteVars
  <1> QED
    BY <1>1, <1>2, <1>3, <1>4, <1>5, PTL
       DEF GroupSpec, Spec, View!Spec, List!Spec, Note!Spec

(* The four are of their types.                                              *)
THEOREM GroupIsTyped == GroupSpec => []GroupTypeOK
  <1>1. /\ PInv /\ ViewInv /\ ListInv /\ Note!TypeOK => GroupTypeOK
    BY DEF PInv, ViewInv, ListInv, GroupTypeOK
  <1> QED
    BY <1>1, GroupAreTheirParts, InvariantHolds, ViewInductive, ListInductive, NotesInductive, PTL

(* A view counts exactly the participants who have not answered, unless      *)
(* somebody joins between its two reads, for every group and every order of  *)
(* joins and answers.                                                        *)
THEOREM ViewsAreExactWhenQuiet == GroupSpec => ExactWhenQuiet
  BY GroupAreTheirParts, QuietViewsAreExact, PTL DEF ExactWhenQuiet

(* A recommended time suits its plan and none is better, however many times  *)
(* and answers there are: what the loop of buildView keeps is no worse than  *)
(* what it has passed.                                                       *)
THEOREM TheBestIsRecommended == GroupSpec => RecommendsBest
  BY GroupAreTheirParts, RecommendationsAreBest, PTL DEF RecommendsBest

(* No more is claimed than is needed, by participants, and what is marked as *)
(* completed is covered, for any number of claims of any size.               *)
THEOREM ClaimsStayWithinNeeds == GroupSpec => []ClaimsFit
  <1>1. ListInv => ClaimsFit
    BY DEF ListInv, ClaimsFit
  <1> QED
    BY <1>1, GroupAreTheirParts, ListInductive, PTL

(* A completed meeting left nothing undone.                                  *)
THEOREM CompletedMeetingsAreReady == GroupSpec => []CompletedMeetingIsReady
  <1>1. ListInv => CompletedMeetingIsReady
    BY DEF ListInv, CompletedMeetingIsReady
  <1> QED
    BY <1>1, GroupAreTheirParts, ListInductive, PTL

(* No note changes in an archive, but for a request that was there before    *)
(* it was one.                                                               *)
THEOREM NotesAreAdmittedWhileActive == GroupSpec => AdmittedWhileActive
  BY GroupAreTheirParts, NotesAdmit, PTL DEF AdmittedWhileActive

(* What a participant sees of the list, the polls and the notes never        *)
(* changes without the version.                                              *)
THEOREM EveryChangeIsTold == GroupSpec => EveryChangeTells
  BY GroupAreTheirParts, ListTellsEveryChange, PollsTellEveryChange, NotesTellEveryChange, PTL
     DEF EveryChangeTells
==============================================================================
