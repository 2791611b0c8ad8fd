-------------------------- MODULE DrawAnalysisProofs --------------------------
(***************************************************************************)
(* Theorems about DrawAnalysis and NumberCombinations for every wheel,     *)
(* every range of numbers and every table of draws.                        *)
(***************************************************************************)
EXTENDS NumberCombinations, FiniteSetTheorems, WellFoundedInduction, TLAPS

-----------------------------------------------------------------------------
(* The wheel                                                               *)

(* An animal has its place. *)
LEMMA IndexTyped ==
    ASSUME NEW a \in Animals
    PROVE  IndexOf(a) \in 1 .. Wheel /\ Zodiac[IndexOf(a)] = a
  BY DEF IndexOf, Animals

(* What the division by the size of the wheel leaves. *)
LEMMA Modulo ==
    ASSUME NEW w \in Nat \ {0}, NEW q \in Int, NEW r \in 0 .. w - 1
    PROVE  (q * w + r) % w = r
  OBVIOUS

(* What Reverse returns: as many of the same, from the last to the first. *)
LEMMA ReverseValue ==
    ASSUME NEW S, NEW s \in Seq(S)
    PROVE  /\ Reverse(s) \in Seq(S) /\ Len(Reverse(s)) = Len(s)
           /\ \A i \in 1 .. Len(s) : Reverse(s)[i] = s[Len(s) - i + 1]
  <1>1. \A i \in 1 .. Len(s) : Len(s) - i + 1 \in 1 .. Len(s)
    OBVIOUS
  <1> QED BY <1>1 DEF Reverse

(* The assignment goes backwards from the anchor, around the wheel. *)
LEMMA AssignmentValue ==
    ASSUME NEW anchor \in Animals, NEW k \in 1 .. Wheel
    PROVE  Assignment(anchor)[k] =
              Zodiac[IF k <= IndexOf(anchor) THEN IndexOf(anchor) + 1 - k
                     ELSE Wheel + IndexOf(anchor) + 1 - k]
  <1> DEFINE a == IndexOf(anchor)
             front == SubSeq(Zodiac, 1, a)
             back == SubSeq(Zodiac, a + 1, Wheel)
  <1>1. a \in 1 .. Wheel
    BY IndexTyped
  <1>2. Zodiac \in Seq(Animals) /\ Wheel \in Nat /\ Wheel = Len(Zodiac)
    BY ZodiacType DEF Wheel
  <1> HIDE DEF a
  <1>3. /\ front \in Seq(Animals) /\ Len(front) = a
        /\ \A i \in 1 .. a : front[i] = Zodiac[i]
    BY <1>1, <1>2
  <1>4. /\ back \in Seq(Animals) /\ Len(back) = Wheel - a
        /\ \A i \in 1 .. Wheel - a : back[i] = Zodiac[a + i]
    BY <1>1, <1>2
  <1> HIDE DEF front, back
  <1>5. /\ Reverse(front) \in Seq(Animals) /\ Len(Reverse(front)) = a
        /\ \A i \in 1 .. a : Reverse(front)[i] = Zodiac[a + 1 - i]
    <2>1. \A i \in 1 .. a : a - i + 1 \in 1 .. a /\ a - i + 1 = a + 1 - i
      BY <1>1
    <2>2. /\ Reverse(front) \in Seq(Animals) /\ Len(Reverse(front)) = a
          /\ \A i \in 1 .. a : Reverse(front)[i] = front[a - i + 1]
      BY <1>3, ReverseValue
    <2> QED BY <2>1, <2>2, <1>3
  <1>6. /\ Reverse(back) \in Seq(Animals) /\ Len(Reverse(back)) = Wheel - a
        /\ \A i \in 1 .. Wheel - a : Reverse(back)[i] = Zodiac[Wheel + 1 - i]
    <2>1. \A i \in 1 .. Wheel - a : /\ (Wheel - a) - i + 1 \in 1 .. Wheel - a
                                    /\ a + ((Wheel - a) - i + 1) = Wheel + 1 - i
      BY <1>1, <1>2
    <2>2. /\ Reverse(back) \in Seq(Animals) /\ Len(Reverse(back)) = Wheel - a
          /\ \A i \in 1 .. Wheel - a : Reverse(back)[i] = back[(Wheel - a) - i + 1]
      BY <1>4, ReverseValue
    <2> QED BY <2>1, <2>2, <1>4
  <1>7. Assignment(anchor) = Reverse(front) \o Reverse(back)
    BY DEF Assignment, a, front, back
  <1>8. CASE k <= a
    <2>1. Assignment(anchor)[k] = Reverse(front)[k]
      BY <1>1, <1>5, <1>6, <1>7, <1>8
    <2> QED BY <2>1, <1>1, <1>5, <1>8 DEF a
  <1>9. CASE ~ k <= a
    <2>1. k - a \in 1 .. Wheel - a
      BY <1>1, <1>2, <1>9
    <2>2. Assignment(anchor)[k] = Reverse(back)[k - a]
      BY <1>1, <1>2, <1>5, <1>6, <1>7, <1>9, <2>1
    <2>3. Wheel + 1 - (k - a) = Wheel + a + 1 - k
      BY <1>1, <1>2
    <2> QED BY <2>1, <2>2, <2>3, <1>6, <1>9 DEF a
  <1> QED BY <1>8, <1>9

(* The mapping of zodiac.py (75-88) is the wheel turned backwards, for     *)
(* every number of animals and of numbers.                                 *)
LEMMA MappingValue ==
    ASSUME NEW anchor \in Animals, NEW n \in Numbers
    PROVE  ZodiacForNumber(n, anchor) = Zodiac[((IndexOf(anchor) - n) % Wheel) + 1]
  <1> DEFINE a == IndexOf(anchor)
             q == (n - 1) \div Wheel
             r == (n - 1) % Wheel
  <1>1. a \in 1 .. Wheel /\ n \in Int
    BY IndexTyped DEF Numbers
  <1>2. Wheel \in Nat \ {0}
    BY ZodiacType, <1>1 DEF Wheel
  <1>3. q \in Int /\ r \in 0 .. Wheel - 1 /\ n - 1 = q * Wheel + r
    BY <1>1, <1>2
  <1>4. ZodiacForNumber(n, anchor) = Assignment(anchor)[r + 1]
    BY DEF ZodiacForNumber, ZodiacMapping
  <1> HIDE DEF a, q, r
  <1>5. r + 1 \in 1 .. Wheel
    BY <1>2, <1>3
  <1>6. ZodiacForNumber(n, anchor) =
            Zodiac[IF r + 1 <= a THEN a - r ELSE Wheel + a - r]
    <2>1. a + 1 - (r + 1) = a - r /\ Wheel + a + 1 - (r + 1) = Wheel + a - r
      BY <1>1, <1>2, <1>3
    <2> QED BY <1>4, <1>5, <2>1, AssignmentValue DEF a
  <1>7. CASE r + 1 <= a
    <2>1. a - n = (0 - q) * Wheel + (a - r - 1)
      BY <1>1, <1>2, <1>3
    <2>2. a - r - 1 \in 0 .. Wheel - 1 /\ 0 - q \in Int
      BY <1>1, <1>2, <1>3, <1>7
    <2>3. (a - n) % Wheel = a - r - 1
      BY <1>2, <2>1, <2>2, Modulo
    <2>4. ((a - n) % Wheel) + 1 = a - r
      BY <2>3, <1>1, <1>3
    <2> QED BY <2>4, <1>6, <1>7 DEF a
  <1>8. CASE ~ r + 1 <= a
    <2>1. a - n = (0 - q - 1) * Wheel + (Wheel + a - r - 1)
      BY <1>1, <1>2, <1>3
    <2>2. Wheel + a - r - 1 \in 0 .. Wheel - 1 /\ 0 - q - 1 \in Int
      BY <1>1, <1>2, <1>3, <1>8
    <2>3. (a - n) % Wheel = Wheel + a - r - 1
      BY <1>2, <2>1, <2>2, Modulo
    <2>4. ((a - n) % Wheel) + 1 = Wheel + a - r
      BY <2>3, <1>1, <1>2, <1>3
    <2> QED BY <2>4, <1>6, <1>8 DEF a
  <1> QED BY <1>7, <1>8

-----------------------------------------------------------------------------
(* The order of the draws                                                  *)

LEMMA LeastNat ==
    ASSUME NEW S \in SUBSET Nat, S # {}
    PROVE  \E m \in S : \A n \in S : m <= n
  <1> DEFINE R == OpToRel(<, Nat)
  <1>1. IsWellFoundedOn(R, Nat)
    BY NatLessThanWellFounded
  <1>2. \A x, y \in Nat : <<x, y>> \in R <=> x < y
    BY DEF OpToRel
  <1> HIDE DEF R
  <1>3. PICK m \in S : \A y \in S : ~ (<<y, m>> \in R)
    BY <1>1, WFMin
  <1>4. \A n \in S : ~ n < m
    BY <1>2, <1>3
  <1>5. \A n \in S : m <= n
    BY <1>4
  <1> QED BY <1>5

(* The order of the query is strict and total, for draws of one time too.  *)
LEMMA OrderTotal ==
    ASSUME NEW i \in Issues, NEW j \in Issues
    PROVE  /\ Earlier(i, j) \/ Earlier(j, i) \/ i = j
           /\ ~ (Earlier(i, j) /\ Earlier(j, i))
           /\ ~ Earlier(i, i)
  BY TablesType DEF Earlier

LEMMA OrderTransitive ==
    ASSUME NEW i \in Issues, NEW j \in Issues, NEW k \in Issues,
           Earlier(i, j), Earlier(j, k)
    PROVE  Earlier(i, k)
  BY TablesType DEF Earlier

(* A draw that is not the last has a next one. *)
LEMMA FollowingExists ==
    ASSUME NEW S \in SUBSET Issues, NEW i \in S, After(S, i) # {}
    PROVE  Following(S, i) \in S
  <1> DEFINE T == After(S, i)
             times == {OpenTime[j] : j \in T}
  <1>1. T \in SUBSET S /\ T # {}
    BY DEF After
  <1> HIDE DEF T
  <1>2. times \in SUBSET Nat /\ times # {}
    BY <1>1, TablesType
  <1>3. PICK first \in times : \A time \in times : first <= time
    BY <1>2, LeastNat
  <1> DEFINE among == {j \in T : OpenTime[j] = first}
  <1>4. among \in SUBSET Nat /\ among # {}
    BY <1>1, <1>3, TablesType
  <1>5. PICK j \in among : \A k \in among : j <= k
    BY <1>4, LeastNat
  <1>6. j \in T /\ \A k \in T : ~ Earlier(k, j)
    <2> SUFFICES ASSUME NEW k \in T, Earlier(k, j) PROVE FALSE
      BY <1>5
    <2>1. OpenTime[k] \in Nat /\ OpenTime[j] = first /\ first \in Nat /\ k \in Nat /\ j \in Nat
      BY <1>1, <1>2, <1>3, <1>5, TablesType
    <2>2. first <= OpenTime[k]
      BY <1>3
    <2>3. OpenTime[k] = first /\ k < j
      BY <2>1, <2>2 DEF Earlier
    <2> QED BY <2>1, <2>3, <1>5
  <1>7. Following(S, i) \in T
    BY <1>6 DEF Following, T
  <1> QED BY <1>1, <1>7

-----------------------------------------------------------------------------
(* What is analysed for an issue                                           *)

(* The analysis of an issue is of that issue and the draws before it.      *)
LEMMA ThroughTarget ==
    ASSUME NEW i \in OrderedRecords
    PROVE  /\ Through(i) \subseteq OrderedRecords /\ Through(i) \subseteq Issues
           /\ i \in Through(i) /\ Latest(Through(i)) = i
           /\ \A j \in OrderedRecords : j \in Through(i) <=> j = i \/ Earlier(j, i)
           /\ \A j \in Through(i) : After(Through(i), j) # {} <=> Earlier(j, i)
  <1>1. OrderedRecords \subseteq Issues
    BY DEF OrderedRecords
  <1>2. \A j \in OrderedRecords : j \in Through(i) <=> j = i \/ Earlier(j, i)
    BY <1>1, OrderTotal DEF Through, After
  <1>3. Through(i) \subseteq OrderedRecords /\ i \in Through(i)
    BY <1>2 DEF Through
  <1>4. ASSUME NEW j \in Through(i)
        PROVE  After(Through(i), j) # {} <=> Earlier(j, i)
    <2>1. CASE j = i
      BY <1>1, <1>2, <1>3, <2>1, OrderTotal DEF After
    <2>2. CASE Earlier(j, i)
      BY <1>3, <2>2 DEF After
    <2> QED BY <1>2, <1>3, <2>1, <2>2
  <1>5. Latest(Through(i)) = i
    <2>1. After(Through(i), i) = {}
      BY <1>1, <1>2, <1>3, OrderTotal DEF After
    <2>2. \A j \in Through(i) : After(Through(i), j) = {} => j = i
      BY <1>2, <1>3, <1>4
    <2> QED BY <1>3, <2>1, <2>2 DEF Latest
  <1> QED BY <1>1, <1>2, <1>3, <1>4, <1>5

(* Its samples follow the draws before it whose special has its animal.    *)
LEMMA MatchedThrough ==
    ASSUME NEW i \in OrderedRecords
    PROVE  Matched(Through(i)) =
              {j \in OrderedRecords : Earlier(j, i) /\ SpecialZodiac(j) = SpecialZodiac(i)}
  BY ThroughTarget DEF Matched

LEMMA TwoRecords ==
    ASSUME NEW S, IsFiniteSet(S), NEW x \in S, NEW y \in S, x # y
    PROVE  ~ Cardinality(S) < 2
  <1>1. IsFiniteSet({x}) /\ Cardinality({x}) = 1
    BY FS_Singleton
  <1>2. Cardinality({x} \cup {y}) = 2
    BY <1>1, FS_AddElement
  <1>3. Cardinality({x} \cup {y}) <= Cardinality(S) /\ Cardinality(S) \in Nat
    BY FS_Subset, FS_CardinalityType
  <1> QED BY <1>2, <1>3

LEMMA SucceedsIffPreviouslySeen ==
    ASSUME NEW i \in OrderedRecords
    PROVE  CalculateTransitionForIssue(i).refused = "none" <=> PreviouslySeen(i)
  <1>1. CalculateTransitionForIssue(i).refused = Refusal(Through(i))
    BY DEF CalculateTransitionForIssue, Transition
  <1>2. ASSUME PreviouslySeen(i) PROVE Refusal(Through(i)) = "none"
    <2>1. PICK j \in OrderedRecords : Earlier(j, i) /\ SpecialZodiac(j) = SpecialZodiac(i)
      BY <1>2 DEF PreviouslySeen
    <2>2. Matched(Through(i)) # {}
      BY <2>1, MatchedThrough
    <2>3. i \in Through(i) /\ j \in Through(i) /\ i # j
      <3>1. OrderedRecords \subseteq Issues
        BY DEF OrderedRecords
      <3> QED BY <2>1, <3>1, ThroughTarget, OrderTotal
    <2>4. IsFiniteSet(Through(i))
      BY ThroughTarget, TablesType, FS_Subset
    <2>5. ~ Cardinality(Through(i)) < 2
      BY <2>3, <2>4, TwoRecords
    <2> QED BY <2>2, <2>5 DEF Refusal
  <1>3. ASSUME ~ PreviouslySeen(i) PROVE Refusal(Through(i)) # "none"
    <2>1. Matched(Through(i)) = {}
      BY <1>3, MatchedThrough DEF PreviouslySeen
    <2> QED BY <2>1 DEF Refusal
  <1> QED BY <1>1, <1>2, <1>3

(* The list of analysis.py 97-110 is, in every state and for every table,  *)
(* that of the issues, but the latest, whose analysis (113-225) succeeds.  *)
LEMMA ListedIffAnalysableHolds == ListedIffAnalysable
  BY SucceedsIffPreviouslySeen DEF ListedIffAnalysable, ListHistoricalAnalysisIssues

-----------------------------------------------------------------------------
(* Steps                                                                   *)

LEMMA TypeStep == TypeOK /\ [Next]_draws => TypeOK'
  BY DEF TypeOK, Next, Store

(* TypeOK: the table holds a row or none for every issue. *)
THEOREM TypeCorrect == Spec => []TypeOK
  <1>1. InitDraws => TypeOK
    BY DEF InitDraws, TypeOK
  <1> QED BY <1>1, TypeStep, PTL DEF Spec

(* A step adds one issue and leaves the rows there are alone. *)
LEMMA OneMoreIssue ==
    ASSUME TypeOK, Next
    PROVE  \E x \in Issues \ OrderedRecords :
              /\ OrderedRecords' = OrderedRecords \cup {x}
              /\ \A j \in OrderedRecords : draws'[j] = draws[j]
  <1>1. PICK x \in Issues, d \in Draws : Store(x, d)
    BY DEF Next
  <1>2. d # NoDraw
    BY NoDrawType
  <1> QED BY <1>1, <1>2 DEF TypeOK, Store, OrderedRecords

LEMMA SameSpecial ==
    ASSUME NEW i, draws'[i] = draws[i]
    PROVE  SpecialZodiac(i)' = SpecialZodiac(i)
  BY DEF SpecialZodiac, ZodiacForNumber

LEMMA ListedForGoodStep ==
    ASSUME TypeOK, Next
    PROVE  ListHistoricalAnalysisIssues \subseteq ListHistoricalAnalysisIssues'
  <1>1. PICK x \in Issues \ OrderedRecords :
            /\ OrderedRecords' = OrderedRecords \cup {x}
            /\ \A j \in OrderedRecords : draws'[j] = draws[j]
    BY OneMoreIssue
  <1> SUFFICES ASSUME NEW i \in ListHistoricalAnalysisIssues
               PROVE  i \in ListHistoricalAnalysisIssues'
    OBVIOUS
  <1>2. i \in OrderedRecords /\ After(OrderedRecords, i) # {} /\ PreviouslySeen(i)
    BY DEF ListHistoricalAnalysisIssues
  <1>3. After(OrderedRecords', i) # {}
    BY <1>1, <1>2 DEF After
  <1>4. PICK j \in OrderedRecords : Earlier(j, i) /\ SpecialZodiac(j) = SpecialZodiac(i)
    BY <1>2 DEF PreviouslySeen
  <1>5. SpecialZodiac(j)' = SpecialZodiac(i)'
    BY <1>1, <1>2, <1>4, SameSpecial
  <1>6. PreviouslySeen(i)'
    BY <1>1, <1>4, <1>5 DEF PreviouslySeen
  <1> QED BY <1>1, <1>2, <1>3, <1>6 DEF ListHistoricalAnalysisIssues

(* ListedForGood: an issue once offered for historical analysis stays so.  *)
THEOREM ListedForGoodHolds == Spec => ListedForGood
  <1>1. TypeOK /\ [Next]_draws
            => [ListHistoricalAnalysisIssues \subseteq ListHistoricalAnalysisIssues']_draws
    BY ListedForGoodStep
  <1> QED BY <1>1, TypeCorrect, PTL DEF Spec, ListedForGood

(* A draw after an issue does not get into what is analysed for it. *)
LEMMA SameThrough ==
    ASSUME TypeOK, Next, NEW i \in OrderedRecords,
           \A j \in OrderedRecords' \ OrderedRecords : Earlier(i, j)
    PROVE  /\ Through(i)' = Through(i)
           /\ \A j \in Through(i) : draws'[j] = draws[j]
  <1>1. PICK x \in Issues \ OrderedRecords :
            /\ OrderedRecords' = OrderedRecords \cup {x}
            /\ \A j \in OrderedRecords : draws'[j] = draws[j]
    BY OneMoreIssue
  <1>2. Earlier(i, x)
    BY <1>1
  <1>3. Through(i)' = Through(i)
    BY <1>1, <1>2 DEF Through, After
  <1> QED BY <1>1, <1>3 DEF Through

LEMMA SameMatched ==
    ASSUME TypeOK, Next, NEW i \in OrderedRecords,
           \A j \in OrderedRecords' \ OrderedRecords : Earlier(i, j)
    PROVE  Matched(Through(i))' = Matched(Through(i))
  <1>1. PICK T : T = Through(i) /\ Through(i)' = T
    BY SameThrough
  <1>2. i \in T /\ Latest(T) = i
    BY <1>1, ThroughTarget
  <1>3. \A j \in T : SpecialZodiac(j)' = SpecialZodiac(j)
    BY <1>1, SameThrough, SameSpecial
  <1>4. Matched(T)' = Matched(T)
    BY <1>2, <1>3 DEF Matched
  <1>5. Matched(Through(i))' = Matched(T)'
    BY <1>1 DEF Matched, SpecialZodiac
  <1> QED BY <1>1, <1>4, <1>5

LEMMA SameOccurrences ==
    ASSUME TypeOK, Next, NEW i \in OrderedRecords,
           \A j \in OrderedRecords' \ OrderedRecords : Earlier(i, j)
    PROVE  Occurrences(Through(i))' = Occurrences(Through(i))
  <1>1. PICK T : T = Through(i) /\ Through(i)' = T
    BY SameThrough
  <1>2. PICK M : M = Matched(T) /\ M = Matched(Through(i))'
    BY <1>1, SameMatched
  <1>3. \A j \in M : j \in T /\ After(T, j) # {}
    BY <1>2 DEF Matched
  <1>4. T \in SUBSET Issues
    BY <1>1, ThroughTarget
  <1>5. \A j \in M : Following(T, j) \in T
    BY <1>3, <1>4, FollowingExists
  <1>6. \A j \in M : draws'[Following(T, j)] = draws[Following(T, j)]
    BY <1>1, <1>5, SameThrough
  <1>7. \A j \in M : SampleOf(T, j)' = SampleOf(T, j)
    BY <1>6 DEF SampleOf
  <1>8. Occurrences(Through(i)) = UNION {SampleOf(T, j) : j \in M}
    BY <1>1, <1>2 DEF Occurrences
  <1>9. Occurrences(Through(i))' = UNION {SampleOf(T, j)' : j \in M}
    BY <1>1, <1>2 DEF Occurrences, SampleOf
  <1>10. {SampleOf(T, j)' : j \in M} = {SampleOf(T, j) : j \in M}
    BY <1>7
  <1> QED BY <1>8, <1>9, <1>10

LEMMA HistoryStep ==
    ASSUME TypeOK, Next, NEW i \in OrderedRecords,
           \A j \in OrderedRecords' \ OrderedRecords : Earlier(i, j)
    PROVE  /\ Refusal(Through(i))' = Refusal(Through(i))
           /\ Occurrences(Through(i))' = Occurrences(Through(i))
  <1>1. Through(i)' = Through(i) /\ Matched(Through(i))' = Matched(Through(i))
    BY SameThrough, SameMatched
  <1>2. Refusal(Through(i))' = Refusal(Through(i))
    BY <1>1 DEF Refusal
  <1> QED BY <1>2, SameOccurrences

(* HistoryIsStable: what is analysed for an issue does not change when     *)
(* draws after it come in.                                                 *)
THEOREM HistoryIsStableHolds == Spec => HistoryIsStable
  <1> DEFINE Stable == \A i \in OrderedRecords :
          (\A j \in OrderedRecords' \ OrderedRecords : Earlier(i, j)) =>
              /\ Refusal(Through(i))' = Refusal(Through(i))
              /\ Occurrences(Through(i))' = Occurrences(Through(i))
  <1>1. TypeOK /\ Next => Stable
    BY HistoryStep
  <1> HIDE DEF Stable
  <1>2. TypeOK /\ [Next]_draws => [Stable]_draws
    BY <1>1
  <1>3. Spec => [][Stable]_draws
    BY <1>2, TypeCorrect, PTL DEF Spec
  <1> QED BY <1>3 DEF HistoryIsStable, Stable

(* ListedIffAnalysable: the issues offered for historical analysis are     *)
(* those whose analysis succeeds.                                          *)
THEOREM ListedAlwaysAnalysable == Spec => []ListedIffAnalysable
  BY ListedIffAnalysableHolds, PTL

(* ZodiacWheel: under every stored anchor the numbers go backwards around  *)
(* the wheel.                                                              *)
THEOREM ZodiacWheelHolds == Spec => []ZodiacWheel
  <1>1. TypeOK => ZodiacWheel
    <2> SUFFICES ASSUME TypeOK, NEW i \in OrderedRecords, NEW n \in Numbers
                 PROVE  ZodiacForNumber(n, draws[i].anchor)
                            = Zodiac[((IndexOf(draws[i].anchor) - n) % Wheel) + 1]
      BY DEF ZodiacWheel
    <2>1. draws[i].anchor \in Animals
      BY DrawsType DEF TypeOK, OrderedRecords, Draw
    <2> QED BY <2>1, MappingValue
  <1> QED BY <1>1, TypeCorrect, PTL

-----------------------------------------------------------------------------
(* Sums                                                                    *)

(* What the sum over a set takes an element by element.                    *)
Pick(s) == CHOOSE x \in s : TRUE

SummedBy(g, w, S) ==
    g = [s \in SUBSET S |-> IF s = {} THEN 0 ELSE w[Pick(s)] + g[s \ {Pick(s)}]]

(* c is worth w of every element, in whatever order they are taken away.   *)
Additive(c, w, S) ==
    /\ c \in [SUBSET S -> Nat] /\ c[{}] = 0
    /\ \A T \in SUBSET S : \A x \in T : c[T] = w[x] + c[T \ {x}]

(* There is one such sum: of two, a least set they differ on loses an      *)
(* element and is smaller.                                                 *)
LEMMA SumUnique ==
    ASSUME NEW S, IsFiniteSet(S), NEW w, NEW c, NEW g,
           Additive(c, w, S), SummedBy(g, w, S)
    PROVE  g[S] = c[S]
  <1> DEFINE Differ == {T \in SUBSET S : g[T] # c[T]}
             sizes == {Cardinality(T) : T \in Differ}
  <1>1. \A T \in SUBSET S : g[T] = IF T = {} THEN 0 ELSE w[Pick(T)] + g[T \ {Pick(T)}]
    BY DEF SummedBy
  <1>2. SUFFICES ASSUME Differ # {} PROVE FALSE
    OBVIOUS
  <1>3. \A T \in SUBSET S : IsFiniteSet(T) /\ Cardinality(T) \in Nat
    BY FS_Subset, FS_CardinalityType
  <1>4. sizes \in SUBSET Nat /\ sizes # {}
    BY <1>2, <1>3
  <1>5. PICK least \in sizes : \A n \in sizes : least <= n
    BY <1>4, LeastNat
  <1>6. PICK T \in Differ : least = Cardinality(T)
    BY <1>5
  <1>7. T \in SUBSET S /\ g[T] # c[T]
    BY <1>6
  <1>8. T # {}
    BY <1>1, <1>7 DEF Additive
  <1> DEFINE x == Pick(T)
             rest == T \ {x}
  <1>9. x \in T
    BY <1>8 DEF Pick
  <1>10. Cardinality(rest) = Cardinality(T) - 1
    BY <1>3, <1>7, <1>9, FS_RemoveElement
  <1>11. g[rest] = c[rest]
    <2> SUFFICES ASSUME g[rest] # c[rest] PROVE FALSE
      OBVIOUS
    <2>1. rest \in Differ
      BY <1>7
    <2>2. Cardinality(rest) \in sizes
      BY <2>1
    <2>3. Cardinality(T) <= Cardinality(rest)
      BY <1>5, <1>6, <2>2
    <2> QED BY <1>3, <1>7, <1>10, <2>3
  <1>12. g[T] = w[x] + g[rest]
    BY <1>1, <1>7, <1>8
  <1>13. c[T] = w[x] + c[rest]
    BY <1>7, <1>9 DEF Additive
  <1> QED BY <1>7, <1>11, <1>12, <1>13

(* So the total of a ranking is any sum of its counts. *)
LEMMA TotalIs ==
    ASSUME NEW R, IsFiniteSet(R), NEW c, Additive(c, [e \in R |-> e.occurrences], R)
    PROVE  Total(R) = c[R]
  <1> DEFINE w == [e \in R |-> e.occurrences]
             Sums(g) == g = [s \in SUBSET R |->
                                IF s = {} THEN 0
                                ELSE Pick(s).occurrences + g[s \ {Pick(s)}]]
             G == CHOOSE g : Sums(g)
  <1>1. \A s \in SUBSET R : s # {} => Pick(s) \in s /\ w[Pick(s)] = Pick(s).occurrences
    BY DEF Pick
  <1>2. Sums(c)
    BY <1>1 DEF Additive
  <1>3. Total(R) = G[R]
    BY DEF Total, MapThenSumSet, MapThenFoldSet, Pick
  <1>4. Sums(G)
    BY <1>2
  <1> HIDE DEF G
  <1>5. SummedBy(G, w, R)
    BY <1>1, <1>4 DEF SummedBy
  <1> QED BY <1>3, <1>5, SumUnique

-----------------------------------------------------------------------------
(* The counts                                                              *)

(* A ranking of S that counts for each the elements of O that have it as   *)
(* their key counts every element of O once.                               *)
LEMMA RankingTotal ==
    ASSUME NEW S, IsFiniteSet(S), NEW O, IsFiniteSet(O), NEW key, NEW having, NEW R,
           \A o \in O : \E e \in R : e.of = key[o],
           \A x \in S : \A o : o \in having[x] <=> o \in O /\ key[o] = x,
           \A e \in R : e.of \in S /\ e.occurrences = Cardinality(having[e.of]),
           \A d, e \in R : d.of = e.of => d = e
    PROVE  Total(R) = Cardinality(O)
  <1> DEFINE w == [e \in R |-> e.occurrences]
             Those(T) == {o \in O : \E e \in T : e.of = key[o]}
             c == [T \in SUBSET R |-> Cardinality(Those(T))]
  <1>1. IsFiniteSet(R)
    <2> DEFINE name == [e \in R |-> e.of]
    <2>1. name \in Injection(R, S)
      BY DEF Injection, IsInjective
    <2> QED BY <2>1, FS_Injection
  <1>2. \A T : IsFiniteSet(Those(T)) /\ Cardinality(Those(T)) \in Nat
    BY FS_Subset, FS_CardinalityType
  <1>3. ASSUME NEW T \in SUBSET R, NEW x \in T
        PROVE  c[T] = w[x] + c[T \ {x}]
    <2> DEFINE mine == having[x.of]
               rest == Those(T \ {x})
    <2>1. Those(T) = mine \cup rest /\ mine \cap rest = {} /\ mine \in SUBSET O
      OBVIOUS
    <2>2. w[x] = Cardinality(mine) /\ c[T] = Cardinality(Those(T)) /\ c[T \ {x}] = Cardinality(rest)
      OBVIOUS
    <2>3. IsFiniteSet(mine) /\ Cardinality(mine) \in Nat
      BY <2>1, FS_Subset, FS_CardinalityType
    <2> HIDE DEF mine, Those, c
    <2>4. Cardinality(mine \cap rest) = 0
      BY <2>1, FS_EmptySet
    <2>5. Cardinality(mine \cup rest)
            = Cardinality(mine) + Cardinality(rest) - Cardinality(mine \cap rest)
      BY <1>2, <2>3, FS_Union
    <2> QED BY <1>2, <2>1, <2>2, <2>3, <2>4, <2>5
  <1>4. c \in [SUBSET R -> Nat] /\ c[{}] = 0
    <2>1. Those({}) = {}
      OBVIOUS
    <2> QED BY <1>2, <2>1, FS_EmptySet
  <1>5. Total(R) = c[R]
    <2>1. Additive(c, w, R)
      BY <1>3, <1>4 DEF Additive
    <2> HIDE DEF c
    <2> QED BY <1>1, <2>1, TotalIs
  <1>6. Those(R) = O
    OBVIOUS
  <1> QED BY <1>5, <1>6

(* The rank of x in Ranked. *)
Place(S, Count(_), Tie(_, _), x) ==
    LET Precedes(y, z) == Count(y) > Count(z) \/ (Count(y) = Count(z) /\ Tie(y, z))
    IN 1 + Cardinality({y \in S : Precedes(y, x)})

LEMMA ZodiacTotal ==
    ASSUME NEW all, IsFiniteSet(all), \A o \in all : o.zodiac \in Animals
    PROVE  /\ Total(ZodiacRanking(all)) = Cardinality(all)
           /\ \A e \in ZodiacRanking(all) :
                 e.of \in Animals /\ e.occurrences = Cardinality({o \in all : o.zodiac = e.of})
  <1> DEFINE Count(a) == Cardinality({o \in all : o.zodiac = a})
             Rank(a) == Place(Animals, Count, Canonical, a)
             R == ZodiacRanking(all)
             key == [o \in all |-> o.zodiac]
             having == [a \in Animals |-> {o \in all : o.zodiac = a}]
  <1>1. R = {[of |-> a, occurrences |-> Count(a), rank |-> Rank(a)] : a \in Animals}
    BY DEF ZodiacRanking, Ranked, Place
  <1>2. IsFiniteSet(Animals)
    <2>1. Wheel \in Nat /\ \A i \in 1 .. Wheel : Zodiac[i] \in Animals
      BY ZodiacType DEF Wheel, Animals
    <2>2. [i \in 1 .. Wheel |-> Zodiac[i]] \in Surjection(1 .. Wheel, Animals)
      BY <2>1 DEF Surjection, Animals
    <2> QED BY <2>1, <2>2, FS_Surjection, FS_Interval
  <1>3. /\ \A a \in Animals : \E e \in R : e.of = a
        /\ \A e \in R : e.of \in Animals /\ e.occurrences = Count(e.of)
        /\ \A d, e \in R : d.of = e.of => d = e
    <2> HIDE DEF R, Count, Rank
    <2>1. \A a \in Animals : [of |-> a, occurrences |-> Count(a), rank |-> Rank(a)] \in R
      BY <1>1
    <2>2. \A e \in R : /\ e.of \in Animals
                       /\ e = [of |-> e.of, occurrences |-> Count(e.of), rank |-> Rank(e.of)]
      BY <1>1
    <2>3. \A a \in Animals : \E e \in R : e.of = a
      <3> SUFFICES ASSUME NEW a \in Animals PROVE \E e \in R : e.of = a
        OBVIOUS
      <3>1. [of |-> a, occurrences |-> Count(a), rank |-> Rank(a)] \in R
        BY <2>1
      <3> QED BY <3>1
    <2>4. \A d, e \in R : d.of = e.of => d = e
      BY <2>2
    <2> QED BY <2>2, <2>3, <2>4
  <1>4. \A o \in all : \E e \in R : e.of = key[o]
    BY <1>3
  <1>5. \A a \in Animals : \A o : o \in having[a] <=> o \in all /\ key[o] = a
    OBVIOUS
  <1>6. \A e \in R : e.of \in Animals /\ e.occurrences = Cardinality(having[e.of])
    BY <1>3
  <1>7. Total(R) = Cardinality(all)
    <2> HIDE DEF R, key, having
    <2> QED BY <1>2, <1>3, <1>4, <1>5, <1>6, RankingTotal, SMTT(30)
  <1> QED BY <1>3, <1>7

LEMMA NumberTotal ==
    ASSUME NEW mine, IsFiniteSet(mine)
    PROVE  Total(NumberRanking(mine)) = Cardinality(mine)
  <1> DEFINE S == {o.number : o \in mine}
             Count(n) == Cardinality({o \in mine : o.number = n})
             Less(m, n) == m < n
             Rank(n) == Place(S, Count, Less, n)
             R == NumberRanking(mine)
             key == [o \in mine |-> o.number]
             having == [n \in S |-> {o \in mine : o.number = n}]
  <1>1. R = {[of |-> n, occurrences |-> Count(n), rank |-> Rank(n)] : n \in S}
    BY DEF NumberRanking, Ranked, Place
  <1>2. IsFiniteSet(S)
    <2>1. key \in Surjection(mine, S)
      BY DEF Surjection
    <2> QED BY <2>1, FS_Surjection
  <1>3. /\ \A n \in S : \E e \in R : e.of = n
        /\ \A e \in R : e.of \in S /\ e.occurrences = Count(e.of)
        /\ \A d, e \in R : d.of = e.of => d = e
    <2> HIDE DEF R, Count, Rank, S
    <2>1. \A n \in S : [of |-> n, occurrences |-> Count(n), rank |-> Rank(n)] \in R
      BY <1>1
    <2>2. \A e \in R : /\ e.of \in S
                       /\ e = [of |-> e.of, occurrences |-> Count(e.of), rank |-> Rank(e.of)]
      BY <1>1
    <2>3. \A n \in S : \E e \in R : e.of = n
      <3> SUFFICES ASSUME NEW n \in S PROVE \E e \in R : e.of = n
        OBVIOUS
      <3>1. [of |-> n, occurrences |-> Count(n), rank |-> Rank(n)] \in R
        BY <2>1
      <3> QED BY <3>1
    <2>4. \A d, e \in R : d.of = e.of => d = e
      BY <2>2
    <2> QED BY <2>2, <2>3, <2>4
  <1>4. \A o \in mine : \E e \in R : e.of = key[o]
    BY <1>3
  <1>5. \A n \in S : \A o : o \in having[n] <=> o \in mine /\ key[o] = n
    OBVIOUS
  <1>6. \A e \in R : e.of \in S /\ e.occurrences = Cardinality(having[e.of])
    BY <1>3
  <1>7. \A d, e \in R : d.of = e.of => d = e
    BY <1>3
  <1>8. Total(R) = Cardinality(mine)
    <2> HIDE DEF R, key, having, S
    <2> QED BY <1>2, <1>4, <1>5, <1>6, <1>7, RankingTotal, SMTT(30)
  <1> QED BY <1>8

(* The sizes of sets of which no two share an element add up.              *)
LEMMA DisjointUnion ==
    ASSUME NEW M, IsFiniteSet(M), NEW part, NEW w,
           \A x \in M : IsFiniteSet(part[x]) /\ Cardinality(part[x]) = w[x],
           \A x, y \in M : x # y => part[x] \cap part[y] = {},
           NEW U, \A o : o \in U <=> \E x \in M : o \in part[x]
    PROVE  IsFiniteSet(U) /\ \E c : Additive(c, w, M) /\ c[M] = Cardinality(U)
  <1> DEFINE All(T) == UNION {part[x] : x \in T}
             c == [T \in SUBSET M |-> Cardinality(All(T))]
  <1>1. ASSUME NEW T \in SUBSET M
        PROVE  IsFiniteSet(All(T)) /\ Cardinality(All(T)) \in Nat
    <2> DEFINE parts == {part[x] : x \in T}
    <2>1. [x \in T |-> part[x]] \in Surjection(T, parts)
      BY DEF Surjection
    <2>2. IsFiniteSet(T)
      BY FS_Subset
    <2>3. IsFiniteSet(parts) /\ \A p \in parts : IsFiniteSet(p)
      BY <2>1, <2>2, FS_Surjection
    <2> HIDE DEF parts
    <2>4. IsFiniteSet(UNION parts)
      BY <2>3, FS_UNION
    <2> QED BY <2>4, FS_CardinalityType DEF parts
  <1>2. ASSUME NEW T \in SUBSET M, NEW x \in T
        PROVE  Cardinality(All(T)) = w[x] + Cardinality(All(T \ {x}))
    <2> DEFINE rest == All(T \ {x})
    <2>1. All(T) = part[x] \cup rest /\ part[x] \cap rest = {}
      OBVIOUS
    <2>2. IsFiniteSet(part[x]) /\ Cardinality(part[x]) = w[x] /\ Cardinality(part[x]) \in Nat
      BY FS_CardinalityType
    <2>3. IsFiniteSet(rest) /\ Cardinality(rest) \in Nat
      BY <1>1
    <2> HIDE DEF All
    <2>4. Cardinality(part[x] \cap rest) = 0
      BY <2>1, FS_EmptySet
    <2>5. Cardinality(part[x] \cup rest)
            = Cardinality(part[x]) + Cardinality(rest) - Cardinality(part[x] \cap rest)
      BY <2>2, <2>3, FS_Union
    <2> QED BY <2>1, <2>2, <2>3, <2>4, <2>5
  <1>3. Additive(c, w, M)
    <2>1. All({}) = {} /\ Cardinality({}) = 0
      BY FS_EmptySet
    <2>2. c \in [SUBSET M -> Nat] /\ c[{}] = 0
      BY <1>1, <2>1
    <2>3. \A T \in SUBSET M : \A x \in T : c[T] = w[x] + c[T \ {x}]
      <3> HIDE DEF All
      <3> QED BY <1>2
    <2> QED BY <2>2, <2>3 DEF Additive
  <1>4. All(M) = U
    OBVIOUS
  <1> QED BY <1>1, <1>3, <1>4

(* As many sets of one size as there are elements of M, and none in two.   *)
LEMMA UniformUnion ==
    ASSUME NEW M, IsFiniteSet(M), NEW part, NEW k \in Nat,
           \A x \in M : IsFiniteSet(part[x]) /\ Cardinality(part[x]) = k,
           \A x, y \in M : x # y => part[x] \cap part[y] = {}
    PROVE  /\ IsFiniteSet(UNION {part[x] : x \in M})
           /\ Cardinality(UNION {part[x] : x \in M}) = Cardinality(M) * k
  <1> DEFINE All == UNION {part[x] : x \in M}
             w == [x \in M |-> k]
             d == [T \in SUBSET M |-> Cardinality(T) * k]
  <1>1. IsFiniteSet(All) /\ \E c : Additive(c, w, M) /\ c[M] = Cardinality(All)
    <2>1. \A x \in M : IsFiniteSet(part[x]) /\ Cardinality(part[x]) = w[x]
      OBVIOUS
    <2>2. \A o : o \in All <=> \E x \in M : o \in part[x]
      OBVIOUS
    <2> HIDE DEF w, All
    <2> QED BY <2>1, <2>2, DisjointUnion
  <1>2. PICK c : Additive(c, w, M) /\ c[M] = Cardinality(All)
    BY <1>1
  <1>3. \A T \in SUBSET M : IsFiniteSet(T) /\ Cardinality(T) \in Nat
    BY FS_Subset, FS_CardinalityType
  <1>4. ASSUME NEW T \in SUBSET M, NEW x \in T
        PROVE  Cardinality(T) * k = k + Cardinality(T \ {x}) * k
    <2>1. PICK m \in Nat : m = Cardinality(T \ {x})
      BY <1>3
    <2>2. IsFiniteSet(T) /\ Cardinality(T) \in Nat
      BY <1>3
    <2>3. Cardinality(T \ {x}) = Cardinality(T) - 1
      BY <2>2, FS_RemoveElement
    <2>4. Cardinality(T) = m + 1
      BY <2>1, <2>2, <2>3
    <2>5. (m + 1) * k = k + m * k
      OBVIOUS
    <2> QED BY <2>1, <2>4, <2>5
  <1>5. Additive(d, w, M)
    <2>1. d \in [SUBSET M -> Nat]
      <3>1. \A m \in Nat : m * k \in Nat
        OBVIOUS
      <3> QED BY <1>3, <3>1
    <2>2. d[{}] = 0
      <3>1. Cardinality({}) = 0 /\ 0 * k = 0 /\ {} \in SUBSET M
        BY FS_EmptySet
      <3>2. d[{}] = Cardinality({}) * k
        OBVIOUS
      <3> QED BY <3>1, <3>2
    <2>3. \A T \in SUBSET M : \A x \in T : d[T] = w[x] + d[T \ {x}]
      BY <1>4
    <2> QED BY <2>1, <2>2, <2>3 DEF Additive
  <1>6. c[M] = d[M]
    <2> HIDE DEF d
    <2>1. SummedBy(c, w, M)
      BY <1>2 DEF Additive, SummedBy, Pick
    <2> QED BY <1>2, <1>5, <2>1, SumUnique
  <1> QED BY <1>1, <1>2, <1>6

(* A sample: each of its regular numbers once, with its animal. *)
LEMMA SampleCount ==
    ASSUME TypeOK, NEW T \in SUBSET OrderedRecords, NEW i \in Matched(T)
    PROVE  /\ IsFiniteSet(SampleOf(T, i))
           /\ Cardinality(SampleOf(T, i)) = RegularCount
           /\ \A o \in SampleOf(T, i) : /\ o.condition = i
                                        /\ o.zodiac \in Animals /\ o.number \in Numbers
  <1>1. PICK sample : sample = draws[Following(T, i)]
    OBVIOUS
  <1>2. sample \in Draws
    <2>1. T \in SUBSET Issues /\ i \in T /\ After(T, i) # {}
      BY DEF OrderedRecords, Matched
    <2>2. Following(T, i) \in OrderedRecords
      BY <2>1, FollowingExists
    <2> QED BY <1>1, <2>2 DEF TypeOK, OrderedRecords
  <1>3. /\ sample.regular \subseteq Numbers /\ sample.anchor \in Animals
        /\ Cardinality(sample.regular) = RegularCount
    BY <1>2, DrawsType DEF Draw
  <1>4. \A n \in sample.regular : ZodiacForNumber(n, sample.anchor) \in Animals
    <2> SUFFICES ASSUME NEW n \in sample.regular
                 PROVE  ZodiacForNumber(n, sample.anchor) \in Animals
      OBVIOUS
    <2>1. PICK x : x = ((IndexOf(sample.anchor) - n) % Wheel) + 1
      OBVIOUS
    <2>2. ZodiacForNumber(n, sample.anchor) = Zodiac[x]
      BY <1>3, <2>1, MappingValue
    <2>3. x \in 1 .. Wheel
      <3>1. IndexOf(sample.anchor) \in 1 .. Wheel /\ n \in Int
        BY <1>3, IndexTyped DEF Numbers
      <3>2. Wheel \in Nat
        BY ZodiacType DEF Wheel
      <3> QED BY <2>1, <3>1, <3>2
    <2> QED BY <2>2, <2>3 DEF Animals
  <1> DEFINE Occurrence(n) ==
                [condition |-> i, number |-> n, zodiac |-> ZodiacForNumber(n, sample.anchor)]
             f == [n \in sample.regular |-> Occurrence(n)]
  <1>5. SampleOf(T, i) = {Occurrence(n) : n \in sample.regular}
    BY <1>1 DEF SampleOf
  <1>6. f \in Bijection(sample.regular, SampleOf(T, i))
    <2>1. \A m, n \in sample.regular : f[m] = f[n] => m = n
      OBVIOUS
    <2>2. f \in Surjection(sample.regular, SampleOf(T, i))
      BY <1>5 DEF Surjection
    <2> HIDE DEF f
    <2> QED BY <2>1, <2>2 DEF Bijection, Injection, IsInjective, Surjection
  <1>7. IsFiniteSet(sample.regular)
    <2>1. IsFiniteSet(Numbers)
      BY MaxNumberType, FS_Interval DEF Numbers
    <2> QED BY <1>3, <2>1, FS_Subset
  <1>8. IsFiniteSet(SampleOf(T, i)) /\ Cardinality(SampleOf(T, i)) = RegularCount
    BY <1>3, <1>6, <1>7, FS_Bijection DEF ExistsBijection
  <1> QED BY <1>3, <1>4, <1>5, <1>8

LEMMA OccurrencesCount ==
    ASSUME TypeOK, NEW T \in SUBSET OrderedRecords
    PROVE  /\ IsFiniteSet(Occurrences(T))
           /\ Cardinality(Occurrences(T)) = Cardinality(Matched(T)) * RegularCount
           /\ \A o \in Occurrences(T) : o.zodiac \in Animals /\ o.number \in Numbers
  <1> DEFINE M == Matched(T)
             part == [i \in M |-> SampleOf(T, i)]
  <1>1. IsFiniteSet(M)
    <2>1. M \subseteq Issues
      BY DEF Matched, OrderedRecords
    <2> QED BY <2>1, TablesType, FS_Subset
  <1>2. \A i \in M : IsFiniteSet(part[i]) /\ Cardinality(part[i]) = RegularCount
    BY SampleCount
  <1>3. \A i, j \in M : i # j => part[i] \cap part[j] = {}
    BY SampleCount
  <1>4. Occurrences(T) = UNION {part[i] : i \in M}
    <2>1. \A i \in M : part[i] = SampleOf(T, i)
      OBVIOUS
    <2> HIDE DEF part
    <2> QED BY <2>1 DEF Occurrences
  <1>5. \A o \in Occurrences(T) : o.zodiac \in Animals /\ o.number \in Numbers
    BY SampleCount DEF Occurrences
  <1> HIDE DEF M, part
  <1>6. /\ IsFiniteSet(UNION {part[i] : i \in M})
        /\ Cardinality(UNION {part[i] : i \in M}) = Cardinality(M) * RegularCount
    BY <1>1, <1>2, <1>3, RegularCountType, UniformUnion
  <1> QED BY <1>4, <1>5, <1>6 DEF M

(* The counts of every analysis add up: those of the animals to the        *)
(* samples' numbers, and those of an animal's numbers to the animal's.     *)
LEMMA CountsOfTable == TypeOK => CountsAddUp
  <1> SUFFICES ASSUME TypeOK, NEW i \in OrderedRecords,
                      CalculateTransitionForIssue(i).refused = "none"
               PROVE  LET result == CalculateTransitionForIssue(i)
                      IN /\ Total(result.ranking) = result.total
                         /\ \A entry \in result.ranking :
                               Total(result.numbers[entry.of]) = entry.occurrences
    BY DEF CountsAddUp
  <1>1. PICK T : T = Through(i) /\ T \in SUBSET OrderedRecords
    BY ThroughTarget
  <1>2. PICK all : all = Occurrences(T)
    OBVIOUS
  <1>3. PICK result : result = CalculateTransitionForIssue(i)
    OBVIOUS
  <1>4. result = Transition(T) /\ result.refused = "none"
    BY <1>1, <1>3 DEF CalculateTransitionForIssue
  <1>5. Refusal(T) = "none"
    BY <1>4 DEF Transition
  <1>6. /\ result.total = Cardinality(Matched(T)) * RegularCount
        /\ result.ranking = ZodiacRanking(all)
        /\ result.numbers = [a \in Animals |-> NumberRanking({o \in all : o.zodiac = a})]
    BY <1>2, <1>4, <1>5, Zenon DEF Transition
  <1>7. /\ IsFiniteSet(all) /\ Cardinality(all) = Cardinality(Matched(T)) * RegularCount
        /\ \A o \in all : o.zodiac \in Animals
    BY <1>1, <1>2, OccurrencesCount
  <1>8. Total(result.ranking) = result.total
    BY <1>6, <1>7, ZodiacTotal
  <1>9. ASSUME NEW entry \in result.ranking
        PROVE  Total(result.numbers[entry.of]) = entry.occurrences
    <2>1. PICK mine : mine = {o \in all : o.zodiac = entry.of}
      OBVIOUS
    <2>2. entry.of \in Animals /\ entry.occurrences = Cardinality(mine)
      BY <1>6, <1>7, <2>1, ZodiacTotal
    <2>3. result.numbers[entry.of] = NumberRanking(mine)
      BY <1>6, <2>1, <2>2
    <2>4. IsFiniteSet(mine)
      BY <1>7, <2>1, FS_Subset
    <2> QED BY <2>2, <2>3, <2>4, NumberTotal
  <1> QED BY <1>3, <1>8, <1>9

(* CountsAddUp: the counts of an analysis add up to the denominator it     *)
(* states, and an animal's to those of its numbers (analysis.py 173-225).  *)
THEOREM CountsAlwaysAddUp == Spec => []CountsAddUp
  BY CountsOfTable, TypeCorrect, PTL

-----------------------------------------------------------------------------
(* Number combinations                                                     *)

(* What the requests do beside the draws does not show in them: whatever   *)
(* holds of DrawAnalysis holds while combinations are asked for.           *)
THEOREM CombinationsOnlyRead == CombinationSpec => Spec
  <1>1. Init => InitDraws
    BY DEF Init
  <1>2. [NextRequest]_vars => [Next]_draws
    BY DEF NextRequest, StoreDraw, FirstReading, SecondReading, Next, vars
  <1> QED BY <1>1, <1>2, PTL DEF CombinationSpec, Spec

(* CombinationSpec, too, has the properties of DrawAnalysis. *)
THEOREM AnalysisUndisturbed ==
    CombinationSpec => /\ [](ZodiacWheel /\ CountsAddUp /\ ListedIffAnalysable)
                       /\ HistoryIsStable /\ ListedForGood
  BY CombinationsOnlyRead, ZodiacWheelHolds, CountsAlwaysAddUp, ListedAlwaysAnalysable,
     HistoryIsStableHolds, ListedForGoodHolds, PTL

(* What was read is still there. *)
ReadingStored == records \subseteq OrderedRecords

LEMMA ReadingStep ==
    ASSUME TypeOK, ReadingStored, [NextRequest]_vars
    PROVE  ReadingStored'
  <1>1. CASE StoreDraw
    <2>1. OrderedRecords \subseteq OrderedRecords' /\ records' = records
      BY <1>1, NoDrawType DEF StoreDraw, Store, OrderedRecords, TypeOK
    <2> QED BY <2>1 DEF ReadingStored
  <1>2. CASE FirstReading
    BY <1>2 DEF FirstReading, ReadingStored, OrderedRecords
  <1>3. CASE SecondReading
    BY <1>3 DEF SecondReading, ReadingStored
  <1>4. CASE UNCHANGED vars
    BY <1>4 DEF vars, ReadingStored, OrderedRecords
  <1> QED BY <1>1, <1>2, <1>3, <1>4 DEF NextRequest

THEOREM ReadingInvariance == CombinationSpec => [](TypeOK /\ ReadingStored)
  <1>1. Init => ReadingStored
    BY DEF Init, ReadingStored
  <1>2. TypeOK /\ ReadingStored /\ [NextRequest]_vars => ReadingStored'
    BY ReadingStep
  <1> QED BY <1>1, <1>2, CombinationsOnlyRead, TypeCorrect, PTL DEF CombinationSpec

(* Some draw is the last: one that the fewest are after. *)
LEMMA LatestExists ==
    ASSUME NEW S \in SUBSET Issues, S # {}
    PROVE  Latest(S) \in S /\ After(S, Latest(S)) = {}
  <1> DEFINE behind == {Cardinality(After(S, i)) : i \in S}
  <1>1. \A i \in S : IsFiniteSet(After(S, i)) /\ Cardinality(After(S, i)) \in Nat
    BY TablesType, FS_Subset, FS_CardinalityType DEF After
  <1>2. behind \in SUBSET Nat /\ behind # {}
    BY <1>1
  <1>3. PICK least \in behind : \A n \in behind : least <= n
    BY <1>2, LeastNat
  <1>4. PICK i \in S : least = Cardinality(After(S, i))
    BY <1>3
  <1>5. After(S, i) = {}
    <2> SUFFICES ASSUME NEW j \in After(S, i) PROVE FALSE
      OBVIOUS
    <2>1. j \in S /\ Earlier(i, j)
      BY DEF After
    <2>2. After(S, j) \subseteq After(S, i) /\ j \notin After(S, j)
      BY <2>1, OrderTotal, OrderTransitive DEF After
    <2>3. After(S, j) \subseteq After(S, i) \ {j}
      BY <2>2
    <2>4. Cardinality(After(S, j)) <= Cardinality(After(S, i) \ {j})
      BY <1>1, <2>3, FS_RemoveElement, FS_Subset
    <2>5. Cardinality(After(S, i) \ {j}) = Cardinality(After(S, i)) - 1
      BY <1>1, FS_RemoveElement
    <2>6. least <= Cardinality(After(S, j))
      BY <1>3, <2>1
    <2> QED BY <1>1, <1>4, <2>1, <2>4, <2>5, <2>6
  <1> QED BY <1>5 DEF Latest

(* An answer that is not a refusal comes from these. *)
LEMMA AnswerOf ==
    ASSUME SecondReading, Answered'
    PROVE  /\ Transition(OrderedRecords).refused = "none"
           /\ reply' = BuildNumberCombinations(Transition(OrderedRecords),
                          Occurrences(OrderedRecords), BeforeTheLatest(records))
  BY DEF SecondReading, Answered

LEMMA ComparedStep ==
    ASSUME ReadingStored, SecondReading, Answered'
    PROVE  /\ \A i \in reply'.recent : Earlier(i, reply'.latest)
           /\ records = OrderedRecords =>
                 reply'.recent = {i \in OrderedRecords :
                     Cardinality(After(OrderedRecords, i)) \in 1 .. RecentDraws}
  <1>1. PICK t : t = Transition(OrderedRecords)
    OBVIOUS
  <1>2. PICK all : all = Occurrences(OrderedRecords)
    OBVIOUS
  <1>3. t.refused = "none" /\ reply' = BuildNumberCombinations(t, all, BeforeTheLatest(records))
    BY <1>1, <1>2, AnswerOf
  <1>4. reply'.refused = "none"
    BY DEF Answered
  <1>5. reply'.latest = t.latest /\ reply'.recent = BeforeTheLatest(records)
    BY <1>3, <1>4 DEF BuildNumberCombinations, RefusedWith
  <1>6. Refusal(OrderedRecords) = "none"
    BY <1>1, <1>3 DEF Transition
  <1>7. t.latest = Latest(OrderedRecords)
    BY <1>1, <1>6 DEF Transition
  <1>8. OrderedRecords \in SUBSET Issues /\ OrderedRecords # {}
    BY <1>6 DEF Refusal, Matched, OrderedRecords
  <1>9. ASSUME NEW i \in BeforeTheLatest(records)
        PROVE  Earlier(i, Latest(OrderedRecords))
    <2>1. i \in OrderedRecords /\ Cardinality(After(records, i)) \in 1 .. RecentDraws
      BY DEF BeforeTheLatest, ReadingStored
    <2>2. After(records, i) # {}
      BY <2>1, FS_EmptySet, RecentType
    <2>3. After(OrderedRecords, i) # {}
      BY <2>2 DEF After, ReadingStored
    <2>4. Latest(OrderedRecords) \in OrderedRecords /\ After(OrderedRecords, Latest(OrderedRecords)) = {}
      BY <1>8, LatestExists
    <2> QED BY <1>8, <2>1, <2>3, <2>4, OrderTotal DEF After
  <1>10. records = OrderedRecords =>
            BeforeTheLatest(records) = {i \in OrderedRecords :
                 Cardinality(After(OrderedRecords, i)) \in 1 .. RecentDraws}
    BY DEF BeforeTheLatest
  <1> QED BY <1>5, <1>7, <1>9, <1>10

(* ComparedWithEarlierDraws: an answer compares with draws before the one  *)
(* it names, and with exactly the last ones if nothing came in between.    *)
THEOREM ComparedWithEarlierDrawsHolds == CombinationSpec => ComparedWithEarlierDraws
  <1> DEFINE Compared == SecondReading /\ Answered' =>
                /\ \A i \in reply'.recent : Earlier(i, reply'.latest)
                /\ records = OrderedRecords =>
                      reply'.recent = {i \in OrderedRecords :
                          Cardinality(After(OrderedRecords, i)) \in 1 .. RecentDraws}
  <1>1. ReadingStored => Compared
    BY ComparedStep
  <1> HIDE DEF Compared
  <1>2. CombinationSpec => [][Compared]_vars
    BY <1>1, ReadingInvariance, PTL DEF CombinationSpec
  <1> QED BY <1>2, PTL DEF ComparedWithEarlierDraws, Compared

-----------------------------------------------------------------------------
(* Groups of candidates                                                    *)

Candidate == [number : Numbers, historical : Nat, recent : Nat]

(* The totals of a group are such sums. *)
LEMMA HistoricalIs ==
    ASSUME NEW G, IsFiniteSet(G), NEW c, Additive(c, [x \in G |-> x.historical], G)
    PROVE  HistoricalTotal(G) = c[G]
  <1> DEFINE w == [x \in G |-> x.historical]
             Sums(g) == g = [s \in SUBSET G |->
                                IF s = {} THEN 0
                                ELSE Pick(s).historical + g[s \ {Pick(s)}]]
             sum == CHOOSE g : Sums(g)
  <1>1. \A s \in SUBSET G : s # {} => Pick(s) \in s /\ w[Pick(s)] = Pick(s).historical
    BY DEF Pick
  <1>2. Sums(c)
    BY <1>1 DEF Additive
  <1>3. HistoricalTotal(G) = sum[G]
    BY DEF HistoricalTotal, MapThenSumSet, MapThenFoldSet, Pick
  <1>4. Sums(sum)
    BY <1>2
  <1> HIDE DEF sum
  <1>5. SummedBy(sum, w, G)
    BY <1>1, <1>4 DEF SummedBy
  <1> QED BY <1>3, <1>5, SumUnique

LEMMA RecentIs ==
    ASSUME NEW G, IsFiniteSet(G), NEW c, Additive(c, [x \in G |-> x.recent], G)
    PROVE  RecentTotal(G) = c[G]
  <1> DEFINE w == [x \in G |-> x.recent]
             Sums(g) == g = [s \in SUBSET G |->
                                IF s = {} THEN 0
                                ELSE Pick(s).recent + g[s \ {Pick(s)}]]
             sum == CHOOSE g : Sums(g)
  <1>1. \A s \in SUBSET G : s # {} => Pick(s) \in s /\ w[Pick(s)] = Pick(s).recent
    BY DEF Pick
  <1>2. Sums(c)
    BY <1>1 DEF Additive
  <1>3. RecentTotal(G) = sum[G]
    BY DEF RecentTotal, MapThenSumSet, MapThenFoldSet, Pick
  <1>4. Sums(sum)
    BY <1>2
  <1> HIDE DEF sum
  <1>5. SummedBy(sum, w, G)
    BY <1>1, <1>4 DEF SummedBy
  <1> QED BY <1>3, <1>5, SumUnique

(* A sum of natural numbers exists: the size of as many disjoint sets.     *)
LEMMA SumExists ==
    ASSUME NEW S, IsFiniteSet(S), NEW w \in [S -> Nat]
    PROVE  \E c : Additive(c, w, S)
  <1> DEFINE part == [x \in S |-> {x} \X (1 .. w[x])]
  <1>1. ASSUME NEW x \in S
        PROVE  IsFiniteSet(part[x]) /\ Cardinality(part[x]) = w[x]
    <2>1. IsFiniteSet(1 .. w[x]) /\ Cardinality(1 .. w[x]) = w[x]
      BY FS_Interval
    <2>2. IsFiniteSet({x}) /\ Cardinality({x}) = 1
      BY FS_Singleton
    <2>3. /\ IsFiniteSet({x} \X (1 .. w[x]))
          /\ Cardinality({x} \X (1 .. w[x])) = Cardinality({x}) * Cardinality(1 .. w[x])
      BY <2>1, <2>2, FS_Product
    <2>4. 1 * w[x] = w[x]
      OBVIOUS
    <2> QED BY <2>1, <2>2, <2>3, <2>4
  <1>2. \A x, y \in S : x # y => part[x] \cap part[y] = {}
    OBVIOUS
  <1>3. PICK U : \A o : o \in U <=> \E x \in S : o \in part[x]
    <2>1. \A o : o \in UNION {part[x] : x \in S} <=> \E x \in S : o \in part[x]
      OBVIOUS
    <2> QED BY <2>1
  <1> HIDE DEF part
  <1> QED BY <1>1, <1>2, <1>3, DisjointUnion

(* A sum over a set is one over its subsets. *)
LEMMA Restricted ==
    ASSUME NEW S, NEW T \in SUBSET S, NEW w, NEW v, NEW c, NEW e, Additive(c, w, S),
           \A x \in T : v[x] = w[x],
           e = [U \in SUBSET T |-> c[U]]
    PROVE  Additive(e, v, T)
  BY DEF Additive

(* The totals of a group lose what one candidate contributes.              *)
LEMMA TotalsWithout ==
    ASSUME NEW G \in SUBSET Candidate, IsFiniteSet(G), NEW x \in G
    PROVE  LET rest == G \ {x} IN
           /\ HistoricalTotal(rest) \in Nat /\ RecentTotal(rest) \in Nat
           /\ HistoricalTotal(G) = x.historical + HistoricalTotal(rest)
           /\ RecentTotal(G) = x.recent + RecentTotal(rest)
  <1> DEFINE rest == G \ {x}
             w == [y \in G |-> y.historical]
             v == [y \in rest |-> y.historical]
             r == [y \in G |-> y.recent]
             q == [y \in rest |-> y.recent]
  <1>1. IsFiniteSet(rest) /\ rest \in SUBSET G
    BY FS_RemoveElement
  <1>2. w \in [G -> Nat] /\ r \in [G -> Nat]
    BY DEF Candidate
  <1>3. PICK c : Additive(c, w, G)
    BY <1>2, SumExists
  <1>4. PICK d : Additive(d, r, G)
    BY <1>2, SumExists
  <1> DEFINE less == [U \in SUBSET rest |-> c[U]]
             fewer == [U \in SUBSET rest |-> d[U]]
  <1>5. Additive(less, v, rest) /\ Additive(fewer, q, rest)
    <2>1. (\A y \in rest : v[y] = w[y]) /\ (\A y \in rest : q[y] = r[y])
      OBVIOUS
    <2>2. /\ less = [U \in SUBSET rest |-> c[U]]
          /\ fewer = [U \in SUBSET rest |-> d[U]]
      OBVIOUS
    <2> HIDE DEF v, w, q, r, rest, less, fewer
    <2> QED BY <1>1, <1>3, <1>4, <2>1, <2>2, Restricted
  <1>6. HistoricalTotal(G) = c[G] /\ RecentTotal(G) = d[G]
    BY <1>3, <1>4, HistoricalIs, RecentIs
  <1>7. HistoricalTotal(rest) = less[rest] /\ RecentTotal(rest) = fewer[rest]
    <2> HIDE DEF less, fewer
    <2> QED BY <1>1, <1>5, HistoricalIs, RecentIs
  <1>8. less[rest] = c[rest] /\ fewer[rest] = d[rest]
    OBVIOUS
  <1>9. /\ c[rest] \in Nat /\ c[G] = x.historical + c[rest]
        /\ d[rest] \in Nat /\ d[G] = x.recent + d[rest]
    BY <1>1, <1>3, <1>4 DEF Additive
  <1> QED BY <1>6, <1>7, <1>8, <1>9

LEMMA TotalsTyped ==
    ASSUME NEW G \in SUBSET Candidate, IsFiniteSet(G)
    PROVE  HistoricalTotal(G) \in Nat /\ RecentTotal(G) \in Nat
  <1> DEFINE w == [y \in G |-> y.historical]
             r == [y \in G |-> y.recent]
  <1>1. w \in [G -> Nat] /\ r \in [G -> Nat]
    BY DEF Candidate
  <1>2. PICK c : Additive(c, w, G)
    BY <1>1, SumExists
  <1>3. PICK d : Additive(d, r, G)
    BY <1>1, SumExists
  <1>4. HistoricalTotal(G) = c[G] /\ RecentTotal(G) = d[G]
    BY <1>2, <1>3, HistoricalIs, RecentIs
  <1> QED BY <1>2, <1>3, <1>4 DEF Additive

(* The comparison of tuples: at the first number they differ in.           *)
LEMMA TupleOrder ==
    ASSUME NEW g \in SUBSET Nat, NEW h \in SUBSET Nat
    PROVE  TupleBefore(g, h) <=>
              \E x \in g : x \notin h /\ \A y \in Nat : y < x => (y \in g <=> y \in h)
  <1> DEFINE D == SymDiff(g, h)
  <1>1. \A x : x \in D <=> (x \in g /\ x \notin h) \/ (x \in h /\ x \notin g)
    BY DEF SymDiff
  <1>2. D \in SUBSET Nat
    BY <1>1
  <1> HIDE DEF D
  <1>3. ASSUME D # {}
        PROVE  Min(D) \in D /\ \A y \in D : Min(D) <= y
    <2>1. \E m \in D : \A n \in D : m <= n
      BY <1>2, <1>3, LeastNat
    <2> QED BY <2>1 DEF Min
  <1>4. ASSUME TupleBefore(g, h)
        PROVE  \E x \in g : x \notin h /\ \A y \in Nat : y < x => (y \in g <=> y \in h)
    <2>1. g # h /\ Min(D) \in g
      BY <1>4 DEF TupleBefore, D
    <2>2. D # {}
      BY <1>1, <2>1
    <2>3. PICK m : m = Min(D)
      OBVIOUS
    <2>4. m \in D /\ m \in g /\ \A y \in D : m <= y
      BY <1>3, <2>1, <2>2, <2>3
    <2> QED BY <1>1, <1>2, <2>4
  <1>5. ASSUME NEW x \in g, x \notin h, \A y \in Nat : y < x => (y \in g <=> y \in h)
        PROVE  TupleBefore(g, h)
    <2>1. x \in D
      BY <1>1, <1>5
    <2>2. PICK m : m = Min(D)
      OBVIOUS
    <2>3. m \in D /\ m <= x
      BY <1>3, <2>1, <2>2
    <2>4. m = x
      BY <1>1, <1>2, <1>5, <2>1, <2>3
    <2> QED BY <1>5, <2>2, <2>4 DEF TupleBefore, D
  <1> QED BY <1>4, <1>5

LEMMA TupleTransitive ==
    ASSUME NEW f \in SUBSET Nat, NEW g \in SUBSET Nat, NEW h \in SUBSET Nat,
           TupleBefore(f, g), TupleBefore(g, h)
    PROVE  TupleBefore(f, h)
  <1>1. PICK x \in f : x \notin g /\ \A y \in Nat : y < x => (y \in f <=> y \in g)
    BY TupleOrder
  <1>2. PICK z \in g : z \notin h /\ \A y \in Nat : y < z => (y \in g <=> y \in h)
    BY TupleOrder
  <1>3. x \in Nat /\ z \in Nat /\ x # z
    BY <1>1, <1>2
  <1>4. CASE x < z
    <2>1. x \notin h /\ \A y \in Nat : y < x => (y \in f <=> y \in h)
      BY <1>1, <1>2, <1>3, <1>4
    <2> QED BY <1>1, <2>1, TupleOrder
  <1>5. CASE z < x
    <2>1. z \in f /\ \A y \in Nat : y < z => (y \in f <=> y \in h)
      BY <1>1, <1>2, <1>3, <1>5
    <2> QED BY <1>2, <2>1, TupleOrder
  <1> QED BY <1>3, <1>4, <1>5

LEMMA GroupTransitive ==
    ASSUME NEW f \in SUBSET Candidate, IsFiniteSet(f),
           NEW g \in SUBSET Candidate, IsFiniteSet(g),
           NEW h \in SUBSET Candidate, IsFiniteSet(h),
           GroupBefore(f, g), GroupBefore(g, h)
    PROVE  GroupBefore(f, h)
  <1>1. /\ HistoricalTotal(f) \in Nat /\ RecentTotal(f) \in Nat
        /\ HistoricalTotal(g) \in Nat /\ RecentTotal(g) \in Nat
        /\ HistoricalTotal(h) \in Nat /\ RecentTotal(h) \in Nat
    BY TotalsTyped
  <1>2. /\ NumbersOf(f) \in SUBSET Nat /\ NumbersOf(g) \in SUBSET Nat
        /\ NumbersOf(h) \in SUBSET Nat
    BY DEF NumbersOf, Candidate, Numbers
  <1>3. TupleBefore(NumbersOf(f), NumbersOf(g)) /\ TupleBefore(NumbersOf(g), NumbersOf(h))
          => TupleBefore(NumbersOf(f), NumbersOf(h))
    BY <1>2, TupleTransitive
  <1> QED BY <1>1, <1>3 DEF GroupBefore, Above, Level

(* To replace a candidate by a better one makes the group better.          *)
LEMMA BetterGroup ==
    ASSUME NEW C \in SUBSET Candidate, \A c, d \in C : c.number = d.number => c = d,
           NEW G \in SUBSET C, IsFiniteSet(G),
           NEW out \in G, NEW in \in C, in \notin G, CandidateBefore(in, out)
    PROVE  GroupBefore((G \ {out}) \cup {in}, G)
  <1>1. PICK H : H = (G \ {out}) \cup {in}
    OBVIOUS
  <1>2. IsFiniteSet(H) /\ H \in SUBSET C /\ in \in H /\ H \ {in} = G \ {out}
    <2>1. IsFiniteSet(G \ {out})
      BY FS_RemoveElement
    <2>2. IsFiniteSet(H)
      BY <1>1, <2>1, FS_AddElement
    <2> QED BY <1>1, <2>2
  <1>3. PICK rest : rest = G \ {out}
    OBVIOUS
  <1>4. /\ HistoricalTotal(rest) \in Nat /\ RecentTotal(rest) \in Nat
        /\ HistoricalTotal(G) = out.historical + HistoricalTotal(rest)
        /\ RecentTotal(G) = out.recent + RecentTotal(rest)
    BY <1>3, TotalsWithout
  <1>5. /\ HistoricalTotal(H) = in.historical + HistoricalTotal(rest)
        /\ RecentTotal(H) = in.recent + RecentTotal(rest)
    BY <1>2, <1>3, TotalsWithout
  <1>6. /\ in.historical \in Nat /\ in.recent \in Nat /\ in.number \in Nat
        /\ out.historical \in Nat /\ out.recent \in Nat /\ out.number \in Nat
    BY DEF Candidate, Numbers
  <1>7. CASE Above(in.historical, in.recent, out.historical, out.recent)
    <2>1. Above(HistoricalTotal(H), RecentTotal(H), HistoricalTotal(G), RecentTotal(G))
      BY <1>4, <1>5, <1>6, <1>7 DEF Above
    <2> QED BY <1>1, <2>1 DEF GroupBefore
  <1>8. CASE /\ Level(in.historical, in.recent, out.historical, out.recent)
             /\ in.number < out.number
    <2>1. Level(HistoricalTotal(H), RecentTotal(H), HistoricalTotal(G), RecentTotal(G))
      BY <1>4, <1>5, <1>6, <1>8 DEF Level
    <2>2. NumbersOf(H) \in SUBSET Nat /\ NumbersOf(G) \in SUBSET Nat
      BY <1>2 DEF NumbersOf, Candidate, Numbers
    <2>3. in.number \in NumbersOf(H) /\ in.number \notin NumbersOf(G)
      BY <1>2 DEF NumbersOf
    <2>4. \A y \in Nat : y < in.number => (y \in NumbersOf(H) <=> y \in NumbersOf(G))
      BY <1>1, <1>6, <1>8 DEF NumbersOf
    <2>5. TupleBefore(NumbersOf(H), NumbersOf(G))
      BY <2>2, <2>3, <2>4, TupleOrder
    <2> QED BY <1>1, <2>1, <2>5 DEF GroupBefore
  <1> QED BY <1>7, <1>8 DEF CandidateBefore

(* What an answer is made of: candidates that their numbers tell apart, and *)
(* the first groups of them.                                               *)
AnswerInv ==
    Answered =>
        /\ reply.candidates \subseteq Candidate
        /\ \A c, d \in reply.candidates : c.number = d.number => c = d
        /\ reply.combinations =
              Top(kSubset(3, reply.candidates), CombinationCount, GroupBefore)

LEMMA FiniteCandidates ==
    ASSUME NEW C \in SUBSET Candidate, \A c, d \in C : c.number = d.number => c = d
    PROVE  IsFiniteSet(C)
  <1> DEFINE f == [c \in C |-> c.number]
  <1>1. f \in Injection(C, Numbers)
    BY DEF Injection, IsInjective, Candidate
  <1>2. IsFiniteSet(Numbers)
    BY MaxNumberType, FS_Interval DEF Numbers
  <1> QED BY <1>1, <1>2, FS_Injection

LEMMA GroupsFollow == AnswerInv => GroupsFollowCandidates
  <1> SUFFICES ASSUME AnswerInv, Answered,
                      NEW group \in reply.combinations,
                      NEW out \in reply.candidates, NEW in \in reply.candidates,
                      out \in group, in \notin group, CandidateBefore(in, out)
               PROVE  (group \ {out}) \cup {in} \in reply.combinations
    BY DEF GroupsFollowCandidates
  <1>1. PICK C : C = reply.candidates
    OBVIOUS
  <1>2. C \in SUBSET Candidate /\ \A c, d \in C : c.number = d.number => c = d
    BY <1>1 DEF AnswerInv
  <1>3. IsFiniteSet(C)
    BY <1>2, FiniteCandidates
  <1>4. PICK K : K = {g \in SUBSET C : Cardinality(g) = 3}
    OBVIOUS
  <1>5. IsFiniteSet(K)
    BY <1>3, <1>4, FS_SUBSET, FS_Subset
  <1>6. reply.combinations = {g \in K : Cardinality({h \in K : GroupBefore(h, g)}) < CombinationCount}
    BY <1>1, <1>4 DEF AnswerInv, Top, kSubset
  <1>7. PICK better : better = (group \ {out}) \cup {in}
    OBVIOUS
  <1>8. \A g \in K : g \in SUBSET Candidate /\ g \in SUBSET C /\ IsFiniteSet(g)
    BY <1>2, <1>3, <1>4, FS_Subset
  <1>9. group \in K
    BY <1>6
  <1>10. better \in K
    <2>1. IsFiniteSet(group) /\ Cardinality(group) = 3 /\ group \in SUBSET C
      BY <1>4, <1>8, <1>9
    <2>2. IsFiniteSet(group \ {out}) /\ Cardinality(group \ {out}) = 2
      BY <2>1, FS_RemoveElement
    <2>3. Cardinality(better) = 3
      BY <1>7, <2>2, FS_AddElement
    <2> QED BY <1>1, <1>4, <1>7, <2>1, <2>3
  <1>11. GroupBefore(better, group)
    BY <1>1, <1>2, <1>7, <1>8, <1>9, BetterGroup
  <1>12. {h \in K : GroupBefore(h, better)} \subseteq {h \in K : GroupBefore(h, group)}
    BY <1>8, <1>9, <1>10, <1>11, GroupTransitive
  <1>13. Cardinality({h \in K : GroupBefore(h, better)})
           <= Cardinality({h \in K : GroupBefore(h, group)})
    BY <1>5, <1>12, FS_Subset
  <1>14. /\ Cardinality({h \in K : GroupBefore(h, better)}) \in Nat
         /\ Cardinality({h \in K : GroupBefore(h, group)}) \in Nat
    BY <1>5, FS_Subset, FS_CardinalityType
  <1>15. Cardinality({h \in K : GroupBefore(h, better)}) < CombinationCount
    BY <1>6, <1>13, <1>14, CombinationType
  <1> QED BY <1>6, <1>7, <1>10, <1>15

(* What is compared has been counted, and once for a number.               *)
LEMMA ComparableTyped ==
    ASSUME TypeOK, NEW recent \in SUBSET OrderedRecords,
           NEW counted, IsFiniteSet(counted), \A o \in counted : o.number \in Numbers
    PROVE  /\ Comparable(counted, recent) \subseteq Candidate
           /\ \A c, d \in Comparable(counted, recent) : c.number = d.number => c = d
  <1>1. \A n : Historical(counted, n) \in Nat
    BY FS_Subset, FS_CardinalityType DEF Historical
  <1>2. \A n : Recent(recent, n) \in Nat
    <2>1. IsFiniteSet(recent)
      BY TablesType, FS_Subset DEF OrderedRecords
    <2> QED BY <2>1, FS_Subset, FS_CardinalityType DEF Recent
  <1> HIDE DEF Historical, Recent
  <1>3. \A c \in Comparable(counted, recent) :
            /\ c.number \in Numbers
            /\ c = [number |-> c.number, historical |-> Historical(counted, c.number),
                    recent |-> Recent(recent, c.number)]
    BY DEF Comparable
  <1> QED BY <1>1, <1>2, <1>3 DEF Candidate

LEMMA AnswerStep ==
    ASSUME TypeOK, ReadingStored, AnswerInv, [NextRequest]_vars
    PROVE  AnswerInv'
  <1>1. CASE reply' = reply
    BY <1>1 DEF AnswerInv, Answered
  <1>2. CASE FirstReading
    BY <1>1, <1>2 DEF FirstReading, RefusedWith, AnswerInv, Answered
  <1>3. ASSUME SecondReading, Answered' PROVE AnswerInv'
    <2>1. PICK t : t = Transition(OrderedRecords)
      OBVIOUS
    <2>2. PICK all : all = Occurrences(OrderedRecords)
      OBVIOUS
    <2>3. PICK recent : recent = BeforeTheLatest(records)
      OBVIOUS
    <2>4. reply' = BuildNumberCombinations(t, all, recent) /\ reply'.refused = "none"
      BY <1>3, <2>1, <2>2, <2>3, AnswerOf DEF Answered
    <2>5. PICK counted : counted = {o \in all : o.zodiac \in TopSix(t.ranking)}
      OBVIOUS
    <2>6. /\ reply'.candidates = Top(Comparable(counted, recent), CandidateCount, CandidateBefore)
          /\ reply'.combinations =
                Top(kSubset(3, reply'.candidates), CombinationCount, GroupBefore)
      BY <2>4, <2>5 DEF BuildNumberCombinations, RefusedWith
    <2>7. reply'.candidates \subseteq Comparable(counted, recent)
      BY <2>6 DEF Top
    <2>8. IsFiniteSet(counted) /\ \A o \in counted : o.number \in Numbers
      BY <2>2, <2>5, OccurrencesCount, FS_Subset
    <2>9. recent \in SUBSET OrderedRecords
      BY <2>3 DEF BeforeTheLatest, ReadingStored
    <2>10. /\ reply'.candidates \subseteq Candidate
           /\ \A c, d \in reply'.candidates : c.number = d.number => c = d
      BY <2>7, <2>8, <2>9, ComparableTyped
    <2> QED BY <2>6, <2>10 DEF AnswerInv
  <1>4. ASSUME ~ Answered' PROVE AnswerInv'
    BY <1>4 DEF AnswerInv
  <1>5. reply' = reply \/ FirstReading \/ SecondReading
    BY DEF NextRequest, StoreDraw, vars
  <1>6. CASE SecondReading
    BY <1>3, <1>4, <1>6
  <1> QED BY <1>1, <1>2, <1>5, <1>6

(* GroupsFollowCandidates: a group in which a better candidate replaces    *)
(* another is shown where the group was (combinations.py 163-204).         *)
THEOREM GroupsFollowCandidatesHolds == CombinationSpec => []GroupsFollowCandidates
  <1>1. Init => AnswerInv
    BY DEF Init, RefusedWith, AnswerInv, Answered
  <1>2. TypeOK /\ ReadingStored /\ AnswerInv /\ [NextRequest]_vars => AnswerInv'
    BY AnswerStep
  <1>3. CombinationSpec => []AnswerInv
    BY <1>1, <1>2, ReadingInvariance, PTL DEF CombinationSpec
  <1> QED BY <1>3, GroupsFollow, PTL
=============================================================================
