-------------------------- MODULE DrawPagesProofs --------------------------
(***************************************************************************)
(* Theorems about DrawPages for every finite set of issues, every page     *)
(* size and every number of clicks, calls and losses.                      *)
(***************************************************************************)
EXTENDS DrawPages, FiniteSetTheorems, SequenceTheorems, TLAPS

-----------------------------------------------------------------------------
(* The invariant                                                           *)

(* How many draws come before this one in the table. *)
Rank(S, i) == Cardinality({j \in S : j > i})

Total == Cardinality(InScope)

Has(k, stages) == asked[k].stage \in stages

Latest == asked[Len(asked)]

(* What a call holds was true of the draws when it was read, and the draws *)
(* have only become more.  Who waits has asked for the page he is at, and  *)
(* it has rows if there are any.                                           *)
AskInv(k) ==
    /\ asked[k].page >= 1
    /\ Has(k, {"counted", "served"}) => asked[k].total <= Total
    /\ Has(k, {"served"}) =>
           /\ asked[k].base \subseteq InScope
           /\ asked[k].rows = {i \in asked[k].base :
                  Rank(asked[k].base, i) \in
                      Offset(asked[k].page) .. Offset(asked[k].page) + PageSize - 1}
    /\ ~ hasty => asked[k].page = drawPage
    /\ ~ hasty /\ Has(k, {"served"}) /\ asked[k].total > 0 => asked[k].rows # {}

(* The calls that are late are those before some call; the last call is    *)
(* for the page the tab is at, unless it is late; and the table is labelled*)
(* right, or will be by a call that is not late.                           *)
Labelled ==
    /\ \A i, j \in DOMAIN asked : i < j /\ asked[j].late => asked[i].late
    /\ asked # <<>> => Latest.page = drawPage \/ Latest.late
    /\ shown.of # 0 /\ (asked = <<>> \/ Latest.late) => shown.label = shown.of \/ shown.late

(* What is shown to one who waits is the page he asked for. *)
ShownInv ==
    ~ hasty /\ shown.of # 0 =>
        /\ shown.label = shown.of
        /\ shown.total <= Total
        /\ shown.rows = {} => shown.total = 0
        /\ shown.next => shown.label < Pages(shown.total)

(* The page asked for by one who waits begins before the last draw. *)
PageInv == ~ hasty => drawPage = 1 \/ Offset(drawPage) < Total

(* The draws a walk has not seen of those it began with come after the     *)
(* pages it has looked at, now and in what is read for the next page.      *)
WalkInv ==
    walk # NoWalk =>
        /\ walk.page >= 1 /\ shown.of = walk.page
        /\ walk.base \subseteq InScope
        /\ \A k \in DOMAIN asked : Has(k, {"served"}) => walk.base \subseteq asked[k].base
        /\ \A i \in walk.base \ walk.seen :
              /\ Rank(InScope, i) >= walk.page * PageSize
              /\ \A k \in DOMAIN asked :
                    Has(k, {"served"}) => Rank(asked[k].base, i) >= walk.page * PageSize
              /\ \A j \in shown.rows : i < j
              /\ shown.next \/ shown.moved \/ shown.label # shown.of

IInv ==
    /\ TypeOK /\ drawPage <= count + 1
    /\ \A k \in DOMAIN asked : AskInv(k)
    /\ Labelled
    /\ ShownInv
    /\ PageInv
    /\ WalkInv

-----------------------------------------------------------------------------
(* Ranks                                                                   *)

LEMMA RankFacts ==
    ASSUME NEW S \in SUBSET Issues, NEW i \in Issues
    PROVE  /\ IsFiniteSet(S) /\ Cardinality(S) \in Nat
           /\ Rank(S, i) \in Nat
           /\ i \in S => Rank(S, i) < Cardinality(S)
  <1> DEFINE above == {j \in S : j > i}
  <1>1. IsFiniteSet(S) /\ Cardinality(S) \in Nat
    BY IssuesType, FS_Subset, FS_CardinalityType
  <1>2. IsFiniteSet(above) /\ Cardinality(above) \in Nat /\ Cardinality(above) <= Cardinality(S)
    BY <1>1, above \in SUBSET S, FS_Subset, FS_CardinalityType
  <1>3. ASSUME i \in S PROVE Cardinality(above) # Cardinality(S)
    <2>1. i \notin above
      BY IssuesType
    <2>2. Cardinality(S) = Cardinality(above) => S = above
      BY <1>1, above \in SUBSET S, FS_Subset
    <2> QED BY <1>3, <2>1, <2>2
  <1>4. Rank(S, i) = Cardinality(above)
    BY DEF Rank
  <1> HIDE DEF above
  <1> QED BY <1>1, <1>2, <1>3, <1>4

(* A draw that is stored moves the others to later places, never earlier.  *)
LEMMA RankGrows ==
    ASSUME NEW T \in SUBSET Issues, NEW S \in SUBSET T, NEW i \in Issues
    PROVE  Cardinality(S) <= Cardinality(T) /\ Rank(S, i) <= Rank(T, i)
  <1> DEFINE aboveS == {j \in S : j > i}  aboveT == {j \in T : j > i}
  <1>1. IsFiniteSet(T)
    BY RankFacts
  <1>2. Cardinality(S) <= Cardinality(T)
    BY <1>1, FS_Subset
  <1>3. IsFiniteSet(aboveT)
    BY <1>1, aboveT \in SUBSET T, FS_Subset
  <1>4. Cardinality(aboveS) <= Cardinality(aboveT)
    BY <1>3, aboveS \in SUBSET aboveT, FS_Subset
  <1> QED BY <1>2, <1>4 DEF Rank

LEMMA RankOrders ==
    ASSUME NEW S \in SUBSET Issues, NEW i \in S, NEW j \in S, Rank(S, j) < Rank(S, i)
    PROVE  i < j
  <1> DEFINE aboveI == {h \in S : h > i}  aboveJ == {h \in S : h > j}
  <1> SUFFICES ASSUME ~ i < j PROVE FALSE
    OBVIOUS
  <1>1. i \in Nat /\ j \in Nat /\ S \subseteq Nat
    BY IssuesType
  <1>2. aboveI \subseteq aboveJ
    <2> SUFFICES ASSUME NEW h \in S, h > i PROVE h > j
      OBVIOUS
    <2> QED BY <1>1
  <1>3. IsFiniteSet(aboveJ)
    BY RankFacts, aboveJ \in SUBSET S, FS_Subset
  <1>4. Cardinality(aboveI) <= Cardinality(aboveJ)
    BY <1>2, <1>3, FS_Subset
  <1>5. Cardinality(aboveI) = Rank(S, i) /\ Cardinality(aboveJ) = Rank(S, j)
    BY DEF Rank
  <1>6. Rank(S, i) \in Nat /\ Rank(S, j) \in Nat
    BY RankFacts
  <1> HIDE DEF aboveI, aboveJ
  <1> QED BY <1>4, <1>5, <1>6

(* Every place of the table is taken: ranks are different, and there are   *)
(* as many of them as draws.                                               *)
LEMMA RankOnto ==
    ASSUME NEW S \in SUBSET Issues, NEW n \in Nat, n < Cardinality(S)
    PROVE  \E i \in S : Rank(S, i) = n
  <1> DEFINE places == 0 .. Cardinality(S) - 1
             f == [i \in S |-> Rank(S, i)]
  <1>1. IsFiniteSet(S) /\ Cardinality(S) \in Nat
    BY IssuesType, FS_Subset, FS_CardinalityType
  <1>2. IsFiniteSet(places) /\ Cardinality(places) = Cardinality(S)
    <2> DEFINE m == Cardinality(S)
    <2>1. m \in Nat /\ 0 \in Int /\ m - 1 \in Int /\ n < m
      BY <1>1
    <2> HIDE DEF m
    <2>2. IsFiniteSet(0 .. m - 1) /\ Cardinality(0 .. m - 1) = IF 0 > m - 1 THEN 0 ELSE m - 1 - 0 + 1
      BY <2>1, FS_Interval
    <2>3. Cardinality(0 .. m - 1) = m
      BY <2>1, <2>2
    <2> QED BY <2>2, <2>3 DEF m
  <1>3. f \in [S -> places]
    <2>1. \A i \in S : Rank(S, i) \in Nat /\ Rank(S, i) < Cardinality(S)
      BY RankFacts
    <2>2. \A i \in S : Rank(S, i) \in places
      BY <1>1, <2>1
    <2> QED BY <2>2
  <1>4. ASSUME NEW i \in S, NEW j \in S, i < j PROVE Rank(S, j) < Rank(S, i)
    <2> DEFINE above == {h \in S : h > i}  beyond == {h \in S : h > j}
    <2>1. i \in Nat /\ j \in Nat /\ S \subseteq Nat
      BY IssuesType
    <2>2. beyond \subseteq above /\ j \in above /\ j \notin beyond
      <3>1. j > i /\ ~ j > j
        BY <1>4, <2>1
      <3>2. \A h \in S : h > j => h > i
        BY <1>4, <2>1
      <3> QED BY <3>1, <3>2
    <2>3. IsFiniteSet(above)
      BY <1>1, above \in SUBSET S, FS_Subset
    <2>4. Cardinality(beyond) <= Cardinality(above) /\ Cardinality(beyond) # Cardinality(above)
      BY <2>2, <2>3, FS_Subset
    <2>5. Cardinality(above) = Rank(S, i) /\ Cardinality(beyond) = Rank(S, j)
      BY DEF Rank
    <2>6. Rank(S, i) \in Nat /\ Rank(S, j) \in Nat
      BY RankFacts
    <2> HIDE DEF above, beyond
    <2> QED BY <2>4, <2>5, <2>6
  <1>5. \A i, j \in S : Rank(S, i) = Rank(S, j) => i = j
    <2> SUFFICES ASSUME NEW i \in S, NEW j \in S, Rank(S, i) = Rank(S, j), i # j PROVE FALSE
      OBVIOUS
    <2>1. i \in Nat /\ j \in Nat
      BY IssuesType
    <2>2. Rank(S, i) \in Nat
      BY RankFacts
    <2>3. CASE i < j
      BY <1>4, <2>2, <2>3
    <2>4. CASE j < i
      BY <1>4, <2>2, <2>4
    <2> QED BY <2>1, <2>3, <2>4
  <1>6. f \in Injection(S, places)
    BY <1>3, <1>5 DEF Injection, IsInjective
  <1>7. f \in Surjection(S, places)
    <2> HIDE DEF f, places
    <2> QED BY <1>2, <1>6, FS_Injection
  <1>8. n \in places
    BY <1>1
  <1> QED BY <1>7, <1>8 DEF Surjection

-----------------------------------------------------------------------------
(* Pages                                                                   *)

LEMMA OffsetFacts ==
    ASSUME NEW page \in Nat
    PROVE  /\ page >= 1 => Offset(page) \in Nat
           /\ Offset(1) = 0
           /\ Offset(page) \in Int /\ page * PageSize \in Nat
           /\ Offset(page + 1) = page * PageSize
           /\ Offset(page) + PageSize = page * PageSize
           /\ (page + 1) * PageSize = page * PageSize + PageSize
  BY SizesType DEF Offset

LEMMA PagesIs ==
    ASSUME NEW total \in Nat
    PROVE  LET full == (total + PageSize - 1) \div PageSize
           IN  Pages(total) = IF full > 1 THEN full ELSE 1
  <1> DEFINE full == (total + PageSize - 1) \div PageSize
  <1>1. full \in Int
    BY SizesType
  <1> HIDE DEF full
  <1>2. Max({1, full}) \in {1, full} /\ \A y \in {1, full} : Max({1, full}) >= y
    <2>1. \E x \in {1, full} : \A y \in {1, full} : x >= y
      BY <1>1
    <2> QED BY <2>1 DEF Max
  <1>3. Max({1, full}) = IF full > 1 THEN full ELSE 1
    BY <1>1, <1>2
  <1>4. Pages(total) = Max({1, full})
    BY DEF Pages, full
  <1> QED BY <1>3, <1>4 DEF full

(* A page after the first that is one of the pages has a first row. *)
LEMMA PageBeginsInside ==
    ASSUME NEW total \in Nat, NEW page \in Nat, page >= 1, page < Pages(total)
    PROVE  Offset(page + 1) < total
  <1> DEFINE full == (total + PageSize - 1) \div PageSize
  <1>1. full \in Int /\ full > page
    BY PagesIs, SizesType
  <1>2. PageSize * full <= total + PageSize - 1
    BY SizesType
  <1> HIDE DEF full
  <1>3. PageSize * (page + 1) <= PageSize * full
    BY <1>1, SizesType
  <1>4. PageSize * (page + 1) = Offset(page + 1) + PageSize /\ Offset(page + 1) \in Int
    BY SizesType DEF Offset
  <1>5. PageSize * full \in Int /\ PageSize \in Nat
    BY <1>1, SizesType
  <1> QED BY <1>2, <1>3, <1>4, <1>5

(* While there are draws after a page, it is not the last one. *)
LEMMA PageIsNotTheLast ==
    ASSUME NEW total \in Nat, NEW page \in Nat, page * PageSize < total
    PROVE  page < Pages(total)
  <1> DEFINE full == (total + PageSize - 1) \div PageSize
  <1>1. full \in Int
    BY SizesType
  <1>2. total + PageSize - 1 < PageSize * (full + 1)
    BY SizesType
  <1>3. Pages(total) = IF full > 1 THEN full ELSE 1
    BY PagesIs
  <1> HIDE DEF full
  <1>4. PageSize * (full + 1) = PageSize * full + PageSize /\ PageSize * full \in Int
    BY <1>1, SizesType
  <1>5. PageSize * page < PageSize * full
    BY <1>2, <1>4, SizesType
  <1>6. page < full
    <2> SUFFICES ASSUME full <= page PROVE FALSE
      BY <1>1
    <2>1. PageSize * full <= PageSize * page
      BY <1>1, SizesType
    <2> QED BY <1>4, <1>5, <2>1, SizesType
  <1> QED BY <1>1, <1>3, <1>6

-----------------------------------------------------------------------------
(* Calls                                                                   *)

LEMMA ScopeFacts ==
    ASSUME TypeOK
    PROVE  InScope \in SUBSET Issues /\ IsFiniteSet(InScope) /\ Total \in Nat
  <1>1. InScope \in SUBSET Issues
    BY DEF TypeOK, InScope
  <1> QED BY <1>1, IssuesType, FS_Subset, FS_CardinalityType DEF Total

LEMMA CallFields ==
    ASSUME TypeOK
    PROVE  /\ Len(asked) \in Nat /\ DOMAIN asked = 1 .. Len(asked)
           /\ \A k \in DOMAIN asked :
                  /\ asked[k] \in Ask
                  /\ asked[k].page \in Nat /\ asked[k].stage \in Stages /\ asked[k].total \in Nat
                  /\ asked[k].rows \in SUBSET Issues /\ asked[k].base \in SUBSET Issues
                  /\ asked[k].late \in BOOLEAN
           /\ asked # <<>> <=> Len(asked) >= 1
           /\ asked # <<>> => Len(asked) \in DOMAIN asked
  <1>1. asked \in Seq(Ask)
    BY DEF TypeOK
  <1>2. Len(asked) \in Nat /\ DOMAIN asked = 1 .. Len(asked)
    BY <1>1, LenProperties
  <1>3. \A k \in DOMAIN asked : asked[k] \in Ask
    BY <1>1, <1>2, ElementOfSeq
  <1>4. asked # <<>> <=> Len(asked) >= 1
    BY <1>1, <1>2, EmptySeq
  <1>5. asked # <<>> => Len(asked) \in DOMAIN asked
    BY <1>2, <1>4
  <1>6. \A a \in Ask : /\ a.page \in Nat /\ a.stage \in Stages /\ a.total \in Nat
                       /\ a.rows \in SUBSET Issues /\ a.base \in SUBSET Issues
                       /\ a.late \in BOOLEAN
    BY DEF Ask
  <1> QED BY <1>2, <1>3, <1>4, <1>5, <1>6

LEMMA ShownFields ==
    ASSUME TypeOK
    PROVE  /\ shown.of \in Nat /\ shown.label \in Nat /\ shown.total \in Nat
           /\ shown.rows \in SUBSET Issues /\ shown.moved \in BOOLEAN /\ shown.late \in BOOLEAN
           /\ shown.previous \in BOOLEAN /\ shown.next \in BOOLEAN
           /\ drawPage \in Nat /\ drawPage >= 1 /\ count \in Nat /\ MaxAsked \in Nat
  BY SizesType DEF TypeOK, Shown

(* A call that is over is gone from the list, those sent before it are     *)
(* late from now on, and nothing else about the others changes.            *)
LEMMA WithoutFacts ==
    ASSUME TypeOK, NEW k \in DOMAIN asked
    PROVE  /\ Without(k) \in Seq(Ask) /\ Len(Without(k)) = Len(asked) - 1
           /\ \A j \in 1 .. Len(asked) - 1 :
                  Without(k)[j] = IF j < k THEN [asked[j] EXCEPT !.late = TRUE] ELSE asked[j + 1]
  <1> DEFINE n == Len(asked)
             marked == [i \in DOMAIN asked |->
                           IF i < k THEN [asked[i] EXCEPT !.late = TRUE] ELSE asked[i]]
             before == SubSeq(marked, 1, k - 1)
             after == SubSeq(marked, k + 1, Len(marked))
  <1>1. n \in Nat /\ DOMAIN asked = 1 .. n /\ k \in 1 .. n
    BY CallFields
  <1>2. \A i \in 1 .. n : marked[i] \in Ask
    <2>1. \A i \in 1 .. n : asked[i] \in Ask /\ [asked[i] EXCEPT !.late = TRUE] \in Ask
      BY <1>1, CallFields DEF Ask
    <2> QED BY <1>1, <2>1
  <1>3. marked \in Seq(Ask) /\ Len(marked) = n
    <2>1. marked \in [1 .. n -> Ask]
      BY <1>1, <1>2
    <2>2. marked \in Seq(Ask)
      BY <1>1, <2>1, SeqDef
    <2> QED BY <1>1, <2>1, <2>2, LenProperties
  <1> HIDE DEF n
  <1>4. before \in Seq(Ask) /\ Len(before) = k - 1 /\ \A i \in 1 .. k - 1 : before[i] = marked[i]
    <2> HIDE DEF marked
    <2>1. \A i \in 1 .. k - 1 : marked[i] \in Ask
      BY <1>1, <1>2
    <2> QED BY <1>1, <2>1, SubSeqProperties
  <1>5. after \in Seq(Ask) /\ Len(after) = n - k /\ \A i \in 1 .. n - k : after[i] = marked[k + i]
    <2> HIDE DEF marked
    <2>1. \A i \in k + 1 .. n : marked[i] \in Ask
      BY <1>1, <1>2
    <2>2. /\ SubSeq(marked, k + 1, n) \in Seq(Ask)
          /\ Len(SubSeq(marked, k + 1, n)) = IF k + 1 <= n THEN n - (k + 1) + 1 ELSE 0
          /\ \A i \in 1 .. n - (k + 1) + 1 : SubSeq(marked, k + 1, n)[i] = marked[k + 1 + i - 1]
      BY <1>1, <2>1, k + 1 \in Int, n \in Int, SubSeqProperties
    <2> QED BY <1>1, <1>3, <2>2
  <1>6. Without(k) = before \o after
    BY DEF Without, RemoveAt
  <1> HIDE DEF before, after
  <1>7. /\ before \o after \in Seq(Ask) /\ Len(before \o after) = n - 1
        /\ \A i \in 1 .. n - 1 : (before \o after)[i] = IF i <= k - 1 THEN before[i] ELSE after[i - (k - 1)]
    <2>1. /\ before \o after \in Seq(Ask)
          /\ Len(before \o after) = Len(before) + Len(after)
          /\ \A i \in 1 .. Len(before) + Len(after) :
                (before \o after)[i] = IF i <= Len(before) THEN before[i] ELSE after[i - Len(before)]
      <3>1. before \in Seq(Ask) /\ after \in Seq(Ask)
        BY <1>4, <1>5
      <3> HIDE DEF marked
      <3> QED BY ONLY <3>1, ConcatProperties
    <2>2. Len(before) + Len(after) = n - 1
      BY <1>1, <1>4, <1>5
    <2> QED BY <1>4, <2>1, <2>2
  <1>8. ASSUME NEW j \in 1 .. n - 1
        PROVE  (before \o after)[j] = IF j < k THEN [asked[j] EXCEPT !.late = TRUE] ELSE asked[j + 1]
    <2>1. CASE j < k
      <3>1. (before \o after)[j] = marked[j] /\ j \in DOMAIN asked
        <4> HIDE DEF marked
        <4> QED BY <1>1, <1>4, <1>7, <1>8, <2>1
      <3> QED BY <2>1, <3>1
    <2>2. CASE ~ j < k
      <3>1. (before \o after)[j] = after[j - (k - 1)]
        BY <1>1, <1>7, <2>2
      <3>2. j - (k - 1) \in 1 .. n - k /\ k + (j - (k - 1)) = j + 1 /\ j + 1 \in 1 .. n /\ ~ j + 1 < k
        BY <1>1, <2>2
      <3>3. after[j - (k - 1)] = marked[j + 1]
        BY <1>5, <3>2
      <3> QED BY <1>1, <2>2, <3>1, <3>2, <3>3
    <2> QED BY <2>1, <2>2
  <1> QED BY <1>6, <1>7, <1>8 DEF n

LEMMA CallsKept ==
    ASSUME TypeOK, NEW k \in DOMAIN asked, NEW j \in 1 .. Len(asked) - 1
    PROVE  LET kept == Without(k)[j]  h == IF j < k THEN j ELSE j + 1
           IN  /\ h \in DOMAIN asked
               /\ kept.page = asked[h].page /\ kept.stage = asked[h].stage
               /\ kept.total = asked[h].total /\ kept.rows = asked[h].rows
               /\ kept.base = asked[h].base
               /\ kept.late = (j < k \/ asked[h].late)
  <1>1. Len(asked) \in Nat /\ k \in 1 .. Len(asked) /\ DOMAIN asked = 1 .. Len(asked)
    BY CallFields
  <1>2. \A a \in Ask : LET b == [a EXCEPT !.late = TRUE]
                       IN  /\ b.page = a.page /\ b.stage = a.stage /\ b.total = a.total
                           /\ b.rows = a.rows /\ b.base = a.base /\ b.late = TRUE
    BY DEF Ask
  <1>3. CASE j < k
    <2>1. j \in DOMAIN asked
      BY <1>1, <1>3
    <2>2. asked[j] \in Ask /\ Without(k)[j] = [asked[j] EXCEPT !.late = TRUE]
      BY <1>3, <2>1, WithoutFacts, CallFields
    <2> QED BY <1>2, <1>3, <2>1, <2>2
  <1>4. CASE ~ j < k
    <2>1. j + 1 \in DOMAIN asked
      BY <1>1, <1>4
    <2>2. asked[j + 1].late \in BOOLEAN /\ Without(k)[j] = asked[j + 1]
      BY <1>4, <2>1, WithoutFacts, CallFields
    <2> QED BY <1>4, <2>1, <2>2
  <1> QED BY <1>3, <1>4

-----------------------------------------------------------------------------
(* The service                                                             *)

LEMMA InitHolds == Init => IInv
  <1> SUFFICES ASSUME Init PROVE IInv
    OBVIOUS
  <1>1. DOMAIN asked = {} /\ asked \in Seq(Ask) /\ Len(asked) = 0
    BY EmptySeq DEF Init
  <1>2. Empty \in Shown /\ Empty.of = 0
    BY DEF Empty, Shown
  <1>3. TypeOK /\ drawPage <= count + 1
    <2>1. MaxAsked \in Nat /\ MaxPending \in Nat /\ MaxLost \in Nat
      BY SizesType
    <2>2. drawPage \in 1 .. MaxAsked + 1 /\ count \in 0 .. MaxAsked /\ lost \in 0 .. MaxLost
      BY <2>1 DEF Init
    <2>3. Len(asked) <= MaxPending /\ drawPage <= count + 1
      BY <1>1, <2>1 DEF Init
    <2> QED BY <1>1, <1>2, <2>2, <2>3 DEF Init, TypeOK
  <1>4. Labelled /\ ShownInv /\ PageInv /\ WalkInv
    BY <1>1, <1>2 DEF Init, Labelled, ShownInv, PageInv, WalkInv
  <1> QED BY <1>1, <1>3, <1>4 DEF IInv

LEMMA StoreDrawKeeps == ASSUME IInv, NEW i \in Issues, StoreDraw(i) PROVE IInv'
  <1> USE DEF StoreDraw
  <1>1. TypeOK /\ TypeOK' /\ InScope \subseteq InScope'
    BY DEF IInv, TypeOK, InScope
  <1>2. InScope \in SUBSET Issues /\ InScope' \in SUBSET Issues /\ Total \in Nat /\ Total' \in Nat
    <2>1. InScope' \in SUBSET Issues
      BY <1>1 DEF TypeOK, InScope
    <2> QED BY <1>1, <2>1, ScopeFacts, RankFacts, IssuesType, FS_Subset, FS_CardinalityType DEF Total
  <1>3. Total <= Total'
    BY <1>1, <1>2, RankGrows, FS_Subset, IssuesType DEF Total
  <1>4. ASSUME NEW k \in DOMAIN asked PROVE AskInv(k)'
    <2>1. AskInv(k) /\ asked[k].total \in Nat
      BY <1>1, CallFields DEF IInv
    <2> QED BY <1>1, <1>2, <1>3, <2>1 DEF AskInv, Has
  <1>5. Labelled'
    BY DEF IInv, Labelled, Latest
  <1>6. ShownInv'
    <2>1. shown.total \in Nat
      BY <1>1, ShownFields
    <2> QED BY <1>2, <1>3, <2>1 DEF IInv, ShownInv
  <1>7. PageInv'
    <2>1. Offset(drawPage) \in Int
      BY <1>1, ShownFields, OffsetFacts
    <2> QED BY <1>2, <1>3, <2>1 DEF IInv, PageInv
  <1>8. WalkInv'
    <2> SUFFICES ASSUME walk # NoWalk PROVE WalkInv'
      BY DEF WalkInv
    <2>1. WalkInv /\ walk.page \in Nat /\ walk.base \subseteq Issues
      BY <1>1 DEF IInv, TypeOK
    <2>2. ASSUME NEW h \in Issues, Rank(InScope, h) >= walk.page * PageSize
          PROVE  Rank(InScope', h) >= walk.page * PageSize
      <3>1. Rank(InScope, h) <= Rank(InScope', h)
        BY <1>1, <1>2, RankGrows
      <3>2. Rank(InScope, h) \in Nat /\ Rank(InScope', h) \in Nat /\ walk.page * PageSize \in Nat
        BY <1>2, <2>1, RankFacts, OffsetFacts
      <3> QED BY <2>2, <3>1, <3>2
    <2> QED BY <1>1, <2>1, <2>2 DEF WalkInv, Has
  <1> QED BY <1>1, <1>4, <1>5, <1>6, <1>7, <1>8 DEF IInv

(* The parts of the invariant a query does not touch. *)
LEMMA AnsweringKeeps ==
    ASSUME IInv, NEW k \in DOMAIN asked, NEW row \in Ask,
           asked' = [asked EXCEPT ![k] = row], Answering,
           row.page = asked[k].page, row.late = asked[k].late
    PROVE  /\ TypeOK' /\ DOMAIN asked' = DOMAIN asked /\ InScope' = InScope /\ Total' = Total
           /\ \A j \in DOMAIN asked : asked'[j] = IF j = k THEN row ELSE asked[j]
           /\ \A j \in DOMAIN asked : j # k => AskInv(j)'
           /\ Labelled' /\ ShownInv' /\ PageInv' /\ drawPage' <= count' + 1
  <1> USE DEF Answering
  <1>1. TypeOK /\ InScope' = InScope /\ Total' = Total
    BY DEF IInv, InScope, Total
  <1>2. /\ asked' \in Seq(Ask) /\ Len(asked') = Len(asked) /\ DOMAIN asked' = DOMAIN asked
        /\ \A j \in DOMAIN asked : asked'[j] = IF j = k THEN row ELSE asked[j]
    <2>1. asked \in Seq(Ask) /\ DOMAIN asked = 1 .. Len(asked)
      BY <1>1, CallFields DEF TypeOK
    <2> QED BY <2>1, ExceptSeq
  <1>3. TypeOK'
    BY <1>1, <1>2 DEF TypeOK
  <1>4. ASSUME NEW j \in DOMAIN asked, j # k PROVE AskInv(j)'
    BY <1>1, <1>2, <1>4 DEF IInv, AskInv, Has
  <1>5. Labelled'
    <2>1. \A j \in DOMAIN asked : asked'[j].page = asked[j].page /\ asked'[j].late = asked[j].late
      BY <1>2
    <2>2. asked' = <<>> <=> asked = <<>>
      BY <1>1, <1>2, CallFields, EmptySeq
    <2>3. asked # <<>> => Latest'.page = Latest.page /\ Latest'.late = Latest.late
      BY <1>1, <1>2, <2>1, CallFields DEF Latest
    <2> QED BY <1>2, <2>1, <2>2, <2>3 DEF IInv, Labelled
  <1>6. ShownInv' /\ PageInv' /\ drawPage' <= count' + 1
    BY <1>1 DEF IInv, ShownInv, PageInv
  <1> QED BY <1>1, <1>2, <1>3, <1>4, <1>5, <1>6

LEMMA CountKeeps == ASSUME IInv, NEW k \in DOMAIN asked, Count(k) PROVE IInv'
  <1>1. TypeOK /\ AskInv(k) /\ asked[k] \in Ask /\ asked[k].late \in BOOLEAN
    BY CallFields DEF IInv
  <1>2. Total \in Nat
    BY <1>1, ScopeFacts
  <1>3. PICK row \in Ask : /\ row = [asked[k] EXCEPT !.stage = "counted", !.total = Total]
                           /\ row.stage = "counted" /\ row.total = Total
                           /\ row.page = asked[k].page /\ row.late = asked[k].late
    <2>1. \A a \in Ask, t \in Nat :
              LET r == [a EXCEPT !.stage = "counted", !.total = t]
              IN  r \in Ask /\ r.stage = "counted" /\ r.total = t /\ r.page = a.page /\ r.late = a.late
      BY DEF Ask, Stages
    <2> DEFINE r == [asked[k] EXCEPT !.stage = "counted", !.total = Total]
    <2>2. /\ r \in Ask /\ r.stage = "counted" /\ r.total = Total
          /\ r.page = asked[k].page /\ r.late = asked[k].late
      BY ONLY <1>1, <1>2, <2>1
    <2> QED BY ONLY <2>2
  <1>4. asked' = [asked EXCEPT ![k] = row] /\ Answering
    BY <1>3 DEF Count, Total
  <1>5. /\ TypeOK' /\ DOMAIN asked' = DOMAIN asked /\ InScope' = InScope /\ Total' = Total
        /\ \A j \in DOMAIN asked : asked'[j] = IF j = k THEN row ELSE asked[j]
        /\ \A j \in DOMAIN asked : j # k => AskInv(j)'
        /\ Labelled' /\ ShownInv' /\ PageInv' /\ drawPage' <= count' + 1
    BY <1>3, <1>4, AnsweringKeeps
  <1>6. AskInv(k)'
    <2>1. asked'[k] = row /\ Total' = Total /\ hasty' = hasty /\ drawPage' = drawPage
      BY <1>4, <1>5 DEF Answering
    <2>2. row.page >= 1 /\ (~ hasty => row.page = drawPage)
      BY <1>1, <1>3 DEF AskInv
    <2> QED BY <1>2, <1>3, <2>1, <2>2 DEF AskInv, Has
  <1>7. WalkInv'
    BY <1>3, <1>4, <1>5 DEF IInv, WalkInv, Has, Answering
  <1> QED BY <1>5, <1>6, <1>7 DEF IInv

(* One who waits is given rows if there are any: the page begins before    *)
(* the last draw, and every place has its draw.                            *)
LEMMA RowsKeeps == ASSUME IInv, NEW k \in DOMAIN asked, Rows(k) PROVE IInv'
  <1>1. TypeOK /\ AskInv(k) /\ asked[k] \in Ask /\ asked[k].page \in Nat /\ asked[k].total \in Nat
    BY CallFields DEF IInv
  <1>2. InScope \in SUBSET Issues /\ Total \in Nat
    BY <1>1, ScopeFacts
  <1> DEFINE page == asked[k].page
             rows == {i \in InScope : Rank(InScope, i) \in Offset(page) .. Offset(page) + PageSize - 1}
  <1>3. RowsOf(page) = rows /\ rows \in SUBSET Issues
    BY <1>2 DEF RowsOf, Rank
  <1>4. PICK row \in Ask : /\ row = [asked[k] EXCEPT !.stage = "served", !.rows = RowsOf(page), !.base = InScope]
                           /\ row.stage = "served" /\ row.rows = rows /\ row.base = InScope
                           /\ row.total = asked[k].total
                           /\ row.page = page /\ row.late = asked[k].late
    <2> HIDE DEF rows
    <2> DEFINE r == [asked[k] EXCEPT !.stage = "served", !.rows = RowsOf(page), !.base = InScope]
    <2>2. /\ r \in Ask /\ r.stage = "served" /\ r.rows = rows /\ r.base = InScope
          /\ r.total = asked[k].total /\ r.page = page /\ r.late = asked[k].late
      <3>1. PICK a \in Ask, t \in SUBSET Issues, b \in SUBSET Issues :
                a = asked[k] /\ t = rows /\ b = InScope
        BY <1>1, <1>2, <1>3, Zenon
      <3>2. LET q == [a EXCEPT !.stage = "served", !.rows = t, !.base = b]
            IN  /\ q \in Ask /\ q.stage = "served" /\ q.rows = t /\ q.base = b
                /\ q.total = a.total /\ q.page = a.page /\ q.late = a.late
        BY DEF Ask, Stages
      <3> QED BY ONLY <1>3, <3>1, <3>2, Zenon
    <2> QED BY ONLY <2>2
  <1>5. asked' = [asked EXCEPT ![k] = row] /\ Answering
    BY <1>4 DEF Rows
  <1>6. /\ TypeOK' /\ DOMAIN asked' = DOMAIN asked /\ InScope' = InScope /\ Total' = Total
        /\ \A j \in DOMAIN asked : asked'[j] = IF j = k THEN row ELSE asked[j]
        /\ \A j \in DOMAIN asked : j # k => AskInv(j)'
        /\ Labelled' /\ ShownInv' /\ PageInv' /\ drawPage' <= count' + 1
    BY <1>4, <1>5, AnsweringKeeps
  <1>7. asked[k].total <= Total
    BY <1>1 DEF Rows, AskInv, Has
  <1>8. ASSUME ~ hasty, asked[k].total > 0 PROVE rows # {}
    <2>1. page = drawPage /\ page >= 1 /\ (page = 1 \/ Offset(page) < Total)
      BY <1>1, <1>8 DEF AskInv, PageInv, IInv
    <2>2. Offset(page) \in Nat /\ Offset(page) < Total
      BY <1>1, <1>2, <1>7, <1>8, <2>1, OffsetFacts
    <2>3. PICK i \in InScope : Rank(InScope, i) = Offset(page)
      BY <1>2, <2>2, RankOnto DEF Total
    <2>4. i \in rows
      BY <2>2, <2>3, SizesType
    <2> QED BY <2>4
  <1>9. AskInv(k)'
    <2>1. asked'[k] = row /\ InScope' = InScope /\ Total' = Total /\ hasty' = hasty /\ drawPage' = drawPage
      BY <1>5, <1>6 DEF Answering
    <2>2. page >= 1 /\ (~ hasty => page = drawPage)
      BY <1>1 DEF AskInv
    <2> QED BY <1>4, <1>7, <1>8, <2>1, <2>2 DEF AskInv, Has
  <1>10. WalkInv'
    <2> SUFFICES ASSUME walk # NoWalk PROVE WalkInv'
      BY <1>5 DEF WalkInv, Answering
    <2>1. WalkInv /\ walk' = walk /\ shown' = shown
      BY <1>5 DEF IInv, Answering
    <2>2. ASSUME NEW j \in DOMAIN asked, asked'[j].stage = "served"
          PROVE  asked'[j].base = InScope \/ (asked[j].stage = "served" /\ asked'[j] = asked[j])
      BY <1>4, <1>6, <2>2
    <2> QED BY <1>6, <2>1, <2>2 DEF WalkInv, Has
  <1> QED BY <1>6, <1>9, <1>10 DEF IInv

-----------------------------------------------------------------------------
(* The browser                                                             *)

(* A page is asked for, by one who did not wait or for a page that begins  *)
(* before the last draw.                                                   *)
LEMMA AskForKeeps ==
    ASSUME IInv, NEW page \in Nat, page >= 1, page <= drawPage + 1, AskFor(page),
           hasty' \in BOOLEAN,
           ~ hasty' => /\ ~ hasty
                       /\ page = drawPage \/ asked = <<>>
                       /\ page = 1 \/ Offset(page) < Total
    PROVE  IInv'
  <1> DEFINE n == Len(asked)
  <1>1. TypeOK /\ n \in Nat /\ DOMAIN asked = 1 .. n /\ InScope' = InScope /\ Total' = Total
    BY CallFields DEF IInv, AskFor, InScope, Total
  <1>2. PICK call \in Ask :
            /\ call = [page |-> page, stage |-> "sent", total |-> 0, rows |-> {},
                       base |-> {}, late |-> FALSE]
            /\ call.page = page /\ call.stage = "sent" /\ call.late = FALSE
    <2> DEFINE r == [page |-> page, stage |-> "sent", total |-> 0, rows |-> {},
                     base |-> {}, late |-> FALSE]
    <2>1. r \in Ask
      BY DEF Ask, Stages
    <2>2. r.page = page /\ r.stage = "sent" /\ r.late = FALSE
      OBVIOUS
    <2> QED BY ONLY <2>1, <2>2
  <1>3. asked' = Append(asked, call)
    BY <1>2 DEF AskFor
  <1>4. /\ asked' \in Seq(Ask) /\ asked' # <<>> /\ Len(asked') = n + 1 /\ DOMAIN asked' = 1 .. n + 1
        /\ \A k \in 1 .. n : asked'[k] = asked[k]
        /\ asked'[n + 1] = call
    <2>1. asked \in Seq(Ask)
      BY <1>1 DEF TypeOK
    <2>2. /\ Append(asked, call) \in Seq(Ask)
          /\ Append(asked, call) # <<>> /\ Len(Append(asked, call)) = Len(asked) + 1
          /\ \A k \in 1 .. Len(asked) : Append(asked, call)[k] = asked[k]
          /\ Append(asked, call)[Len(asked) + 1] = call
      BY <2>1, AppendProperties
    <2>3. DOMAIN asked' = 1 .. Len(asked')
      BY <1>3, <2>2, LenProperties
    <2> QED BY <1>3, <2>2, <2>3
  <1> HIDE DEF n
  <1>5. /\ draws' = draws /\ drawPage' = page /\ shown' = shown /\ lost' = lost /\ walk' = walk
        /\ count' = count + 1 /\ count < MaxAsked /\ n < MaxPending
        /\ drawPage \in Nat /\ count \in Nat /\ MaxAsked \in Nat /\ drawPage <= count + 1
        /\ MaxPending \in Nat
    BY <1>1, ShownFields, SizesType DEF AskFor, IInv, n
  <1>6. drawPage' <= count' + 1 /\ drawPage' \in 1 .. MaxAsked + 1 /\ count' \in 0 .. MaxAsked
    BY <1>5
  <1>7. TypeOK'
    BY <1>1, <1>4, <1>5, <1>6 DEF TypeOK
  <1>8. ASSUME NEW k \in 1 .. n + 1 PROVE AskInv(k)'
    <2>1. CASE k \in 1 .. n
      <3>1. AskInv(k) /\ asked'[k] = asked[k] /\ (~ hasty' => page = drawPage)
        <4>1. asked # <<>>
          BY <1>1, <2>1, CallFields DEF n
        <4> QED BY <1>1, <1>4, <2>1, <4>1 DEF IInv
      <3> QED BY <1>1, <1>5, <3>1 DEF AskInv, Has
    <2>2. CASE k \notin 1 .. n
      <3>1. asked'[k] = call
        BY <1>1, <1>4, <1>8, <2>2
      <3> QED BY <1>2, <1>5, <3>1 DEF AskInv, Has
    <2> QED BY <2>1, <2>2
  <1>9. Labelled'
    <2>1. Latest' = call
      BY <1>4 DEF Latest
    <2>2. ASSUME NEW i \in 1 .. n + 1, NEW j \in 1 .. n + 1, i < j, asked'[j].late
          PROVE  asked'[i].late
      <3>1. j # n + 1
        BY <1>2, <1>4, <2>2
      <3>2. i \in 1 .. n /\ j \in 1 .. n
        BY <1>1, <2>2, <3>1
      <3> QED BY <1>1, <1>4, <2>2, <3>2 DEF IInv, Labelled
    <2> QED BY <1>2, <1>4, <1>5, <2>1, <2>2 DEF Labelled
  <1>10. ShownInv' /\ PageInv'
    BY <1>1, <1>5 DEF IInv, ShownInv, PageInv
  <1>11. WalkInv'
    <2> SUFFICES ASSUME walk # NoWalk PROVE WalkInv'
      BY <1>5 DEF WalkInv
    <2>1. WalkInv /\ walk' = walk /\ shown' = shown
      BY <1>5 DEF IInv
    <2>2. ASSUME NEW k \in 1 .. n + 1, asked'[k].stage = "served"
          PROVE  k \in DOMAIN asked /\ asked'[k] = asked[k] /\ asked[k].stage = "served"
      BY <1>1, <1>2, <1>4, <2>2
    <2> QED BY <1>1, <1>4, <2>1, <2>2 DEF WalkInv, Has
  <1> QED BY <1>4, <1>6, <1>7, <1>8, <1>9, <1>10, <1>11 DEF IInv

LEMMA OpenViewKeeps == ASSUME IInv, OpenView PROVE IInv'
  <1>1. TypeOK /\ drawPage \in Nat /\ drawPage >= 1 /\ hasty \in BOOLEAN
    BY ShownFields DEF IInv, TypeOK
  <1>2. AskFor(drawPage) /\ hasty' = hasty /\ (~ hasty => drawPage = 1 \/ Offset(drawPage) < Total)
    BY DEF OpenView, IInv, PageInv
  <1> QED BY <1>1, <1>2, AskForKeeps

LEMMA drawsPreviousKeeps == ASSUME IInv, drawsPrevious PROVE IInv'
  <1>1. TypeOK /\ drawPage \in Nat /\ drawPage > 1 /\ hasty \in BOOLEAN
    BY ShownFields DEF IInv, TypeOK, drawsPrevious
  <1>2. AskFor(drawPage - 1) /\ hasty' = (hasty \/ InHaste)
    BY DEF drawsPrevious
  <1>3. Offset(drawPage - 1) < Offset(drawPage) /\ Offset(drawPage - 1) \in Int /\ Offset(drawPage) \in Int
    <2>1. Offset(drawPage - 1 + 1) = (drawPage - 1) * PageSize
          /\ Offset(drawPage - 1) + PageSize = (drawPage - 1) * PageSize
          /\ Offset(drawPage - 1) \in Int
      BY <1>1, drawPage - 1 \in Nat, OffsetFacts
    <2>2. drawPage - 1 + 1 = drawPage
      BY <1>1
    <2> QED BY <2>1, <2>2, SizesType
  <1>4. ~ hasty => Offset(drawPage - 1) < Total
    <2>1. Total \in Nat
      BY <1>1, ScopeFacts
    <2> QED BY <1>1, <1>3, <2>1 DEF IInv, PageInv
  <1>5. ~ hasty' => ~ hasty /\ asked = <<>>
    BY <1>1, <1>2 DEF InHaste
  <1>6. hasty' \in BOOLEAN
    BY <1>2
  <1>7. drawPage - 1 \in Nat /\ drawPage - 1 >= 1 /\ drawPage - 1 <= drawPage + 1
    BY <1>1
  <1> QED BY <1>2, <1>4, <1>5, <1>6, <1>7, AskForKeeps

(* The page shown to one who waits is the one he is at, and by its total   *)
(* it is not the last.                                                     *)
LEMMA drawsNextKeeps == ASSUME IInv, drawsNext PROVE IInv'
  <1>1. TypeOK /\ drawPage \in Nat /\ drawPage >= 1 /\ hasty \in BOOLEAN /\ shown.total \in Nat
    BY ShownFields DEF IInv, TypeOK
  <1>2. shown.next /\ AskFor(drawPage + 1) /\ hasty' = (hasty \/ InHaste)
    BY DEF drawsNext
  <1>3. ~ hasty' => ~ hasty /\ asked = <<>> /\ shown.of = drawPage
    BY <1>1, <1>2 DEF InHaste
  <1>4. ~ hasty' => Offset(drawPage + 1) < Total
    <2> SUFFICES ASSUME ~ hasty' PROVE Offset(drawPage + 1) < Total
      OBVIOUS
    <2>1. drawPage < Pages(shown.total) /\ shown.total <= Total
      <3>1. shown.of # 0 /\ shown.of = drawPage /\ ~ hasty
        BY <1>1, <1>3
      <3> QED BY <1>2, <3>1 DEF IInv, ShownInv
    <2>2. Offset(drawPage + 1) < shown.total
      BY <1>1, <2>1, PageBeginsInside
    <2>3. Total \in Nat /\ Offset(drawPage + 1) \in Int
      BY <1>1, ScopeFacts, OffsetFacts
    <2> QED BY <1>1, <2>1, <2>2, <2>3
  <1>5. hasty' \in BOOLEAN
    BY <1>2
  <1>6. drawPage + 1 \in Nat /\ drawPage + 1 >= 1 /\ drawPage + 1 <= drawPage + 1
    BY <1>1
  <1> QED BY <1>2, <1>3, <1>4, <1>5, <1>6, AskForKeeps

(* A call that is over: the others stay what they were, and a call that is *)
(* shown when nothing but late ones is left was for the page of the tab,   *)
(* or is late itself.                                                      *)
LEMMA CallOver ==
    ASSUME IInv, NEW k \in DOMAIN asked, asked' = Without(k),
           UNCHANGED <<draws, drawPage, count, hasty>>
    PROVE  /\ asked' \in Seq(Ask) /\ Len(asked') = Len(asked) - 1
           /\ DOMAIN asked' = 1 .. Len(asked) - 1
           /\ \A j \in DOMAIN asked' :
                  \E h \in DOMAIN asked : /\ asked'[j].stage = asked[h].stage
                                          /\ asked'[j].base = asked[h].base
           /\ \A j \in DOMAIN asked' : AskInv(j)'
           /\ \A i, j \in DOMAIN asked' : i < j /\ asked'[j].late => asked'[i].late
           /\ asked' # <<>> => Latest'.page = drawPage' \/ Latest'.late
           /\ asked' = <<>> \/ Latest'.late =>
                  /\ asked[k].late \/ asked[k].page = drawPage
                  /\ asked[k].late => Latest.late
  <1> DEFINE n == Len(asked)
  <1>1. TypeOK /\ n \in Nat /\ DOMAIN asked = 1 .. n /\ k \in 1 .. n /\ Labelled
        /\ InScope' = InScope /\ Total' = Total
    BY CallFields DEF IInv, InScope, Total
  <1>2. asked' \in Seq(Ask) /\ Len(asked') = n - 1 /\ DOMAIN asked' = 1 .. n - 1
    <2>1. asked' \in Seq(Ask) /\ Len(asked') = n - 1
      BY <1>1, WithoutFacts
    <2> QED BY <2>1, LenProperties
  <1>3. ASSUME NEW j \in 1 .. n - 1
        PROVE  LET h == IF j < k THEN j ELSE j + 1
               IN  /\ h \in 1 .. n
                   /\ asked'[j].page = asked[h].page /\ asked'[j].stage = asked[h].stage
                   /\ asked'[j].total = asked[h].total /\ asked'[j].rows = asked[h].rows
                   /\ asked'[j].base = asked[h].base
                   /\ asked'[j].late = (j < k \/ asked[h].late)
    BY <1>1, CallsKept
  <1>4. \A i \in 1 .. n : asked[i].late \in BOOLEAN
    BY <1>1, CallFields
  <1> HIDE DEF n
  <1>5. ASSUME NEW j \in 1 .. n - 1
        PROVE  /\ AskInv(j)'
               /\ \E h \in 1 .. n : asked'[j].stage = asked[h].stage /\ asked'[j].base = asked[h].base
    <2>1. PICK h : h = IF j < k THEN j ELSE j + 1
      OBVIOUS
    <2>2. /\ h \in 1 .. n
          /\ asked'[j].page = asked[h].page /\ asked'[j].stage = asked[h].stage
          /\ asked'[j].total = asked[h].total /\ asked'[j].rows = asked[h].rows
          /\ asked'[j].base = asked[h].base
      BY <1>3, <2>1
    <2>3. AskInv(h)
      BY <1>1, <2>2 DEF IInv
    <2> QED BY <1>1, <2>2, <2>3 DEF AskInv, Has
  <1>6. ASSUME NEW i \in 1 .. n - 1, NEW j \in 1 .. n - 1, i < j, asked'[j].late
        PROVE  asked'[i].late
    <2>1. CASE i < k
      BY <1>3, <2>1
    <2>2. CASE ~ i < k
      <3>1. ~ j < k /\ i + 1 < j + 1 /\ i + 1 \in 1 .. n /\ j + 1 \in 1 .. n
        BY <1>1, <1>6, <2>2
      <3>2. asked[j + 1].late
        BY <1>3, <1>6, <3>1
      <3>3. asked[i + 1].late
        BY <1>1, <3>1, <3>2 DEF Labelled
      <3> QED BY <1>3, <2>2, <3>3
    <2> QED BY <2>1, <2>2
  <1>7. asked' # <<>> => n - 1 \in 1 .. n - 1 /\ Latest' = asked'[n - 1]
    <2>1. asked' # <<>> => Len(asked') # 0
      BY <1>2, EmptySeq
    <2> QED BY <1>1, <1>2, <2>1 DEF Latest
  <1>8. asked # <<>> /\ Latest = asked[n] /\ n \in 1 .. n
    <2>1. n >= 1
      BY <1>1
    <2> QED BY <1>1, <2>1, CallFields DEF Latest, n
  <1>9. asked' # <<>> => Latest'.page = drawPage' \/ Latest'.late
    <2> SUFFICES ASSUME asked' # <<>> PROVE Latest'.page = drawPage' \/ Latest'.late
      OBVIOUS
    <2>1. CASE k = n
      <3>1. n - 1 < k
        BY <1>1, <2>1
      <3> QED BY <1>3, <1>7, <3>1
    <2>2. CASE k # n
      <3>1. ~ n - 1 < k /\ n - 1 + 1 = n
        BY <1>1, <2>2
      <3>2. Latest'.page = Latest.page /\ Latest'.late = Latest.late
        BY <1>3, <1>4, <1>7, <1>8, <3>1
      <3> QED BY <1>1, <1>8, <3>2 DEF Labelled
    <2> QED BY <2>1, <2>2
  <1>10. ASSUME asked' = <<>> \/ Latest'.late
         PROVE  (asked[k].late \/ asked[k].page = drawPage) /\ (asked[k].late => Latest.late)
    <2>1. CASE k = n
      BY <1>1, <1>8, <2>1 DEF Labelled
    <2>2. CASE k # n
      <3>1. ~ n - 1 < k /\ n - 1 + 1 = n /\ k < n /\ Len(asked') # 0
        BY <1>1, <1>2, <2>2
      <3>2. Latest'.late
        BY <1>10, <3>1, EmptySeq
      <3>3. n - 1 \in 1 .. n - 1 /\ Latest' = asked'[n - 1]
        BY <1>7, <3>1, EmptySeq
      <3>4. Latest.late
        BY <1>3, <1>4, <1>8, <3>1, <3>2, <3>3
      <3>5. asked[k].late
        BY <1>1, <1>8, <3>1, <3>4 DEF Labelled
      <3> QED BY <3>4, <3>5
    <2> QED BY <2>1, <2>2
  <1>11. Len(asked') = Len(asked) - 1 /\ DOMAIN asked' = 1 .. Len(asked) - 1
    BY <1>2 DEF n
  <1> QED BY <1>1, <1>2, <1>5, <1>6, <1>9, <1>10, <1>11

LEMMA LoseKeeps == ASSUME IInv, NEW k \in DOMAIN asked, Lose(k) PROVE IInv'
  <1>1. TypeOK /\ asked[k].late \in BOOLEAN /\ Len(asked) \in Nat /\ InScope' = InScope /\ Total' = Total
    BY CallFields DEF IInv, Lose, InScope, Total
  <1>2. /\ draws' = draws /\ drawPage' = drawPage /\ count' = count /\ hasty' = hasty /\ walk' = walk
        /\ asked' = Without(k)
    BY DEF Lose
  <1>3. /\ asked' \in Seq(Ask) /\ Len(asked') = Len(asked) - 1
        /\ DOMAIN asked' = 1 .. Len(asked) - 1
        /\ \A j \in DOMAIN asked' :
               \E h \in DOMAIN asked : /\ asked'[j].stage = asked[h].stage
                                       /\ asked'[j].base = asked[h].base
        /\ \A j \in DOMAIN asked' : AskInv(j)'
        /\ \A i, j \in DOMAIN asked' : i < j /\ asked'[j].late => asked'[i].late
        /\ asked' # <<>> => Latest'.page = drawPage' \/ Latest'.late
        /\ asked' = <<>> \/ Latest'.late =>
               /\ asked[k].late \/ asked[k].page = drawPage
               /\ asked[k].late => Latest.late
    BY <1>2, CallOver
  <1>4. /\ shown' \in Shown
        /\ shown'.of = shown.of /\ shown'.label = shown.label /\ shown'.total = shown.total
        /\ shown'.rows = shown.rows /\ shown'.next = shown.next /\ shown'.moved = shown.moved
        /\ shown'.late = (shown.late \/ ~ asked[k].late)
    <2>1. shown \in Shown /\ shown' = [shown EXCEPT !.late = @ \/ ~ asked[k].late]
      BY <1>1 DEF Lose, TypeOK
    <2>2. (shown.late \/ ~ asked[k].late) \in BOOLEAN
      OBVIOUS
    <2>3. \A t \in Shown, b \in BOOLEAN :
              LET r == [t EXCEPT !.late = b]
              IN  /\ r \in Shown /\ r.of = t.of /\ r.label = t.label /\ r.total = t.total
                  /\ r.rows = t.rows /\ r.next = t.next /\ r.moved = t.moved /\ r.late = b
      BY DEF Shown
    <2> QED BY <2>1, <2>2, <2>3
  <1>5. lost' \in 0 .. MaxLost
    BY <1>1, SizesType DEF Lose, TypeOK
  <1>6. TypeOK' /\ drawPage' <= count' + 1
    <2>1. Len(asked') <= MaxPending
      BY <1>1, <1>3, SizesType DEF TypeOK
    <2> QED BY <1>1, <1>2, <1>3, <1>4, <1>5, <2>1 DEF IInv, TypeOK
  <1>7. Labelled'
    <2>1. ASSUME shown.of # 0, asked' = <<>> \/ Latest'.late
          PROVE  shown.label = shown.of \/ shown'.late
      <3>1. CASE ~ asked[k].late
        BY <1>4, <3>1
      <3>2. CASE asked[k].late
        <4>1. Latest.late
          BY <1>3, <2>1, <3>2
        <4>2. shown.label = shown.of \/ shown.late
          BY <2>1, <4>1 DEF IInv, Labelled
        <4> QED BY <1>4, <4>2
      <3> QED BY <3>1, <3>2
    <2> QED BY <1>3, <1>4, <2>1 DEF Labelled
  <1>8. ShownInv' /\ PageInv'
    BY <1>1, <1>2, <1>4 DEF IInv, ShownInv, PageInv
  <1>9. WalkInv'
    <2> SUFFICES ASSUME walk # NoWalk PROVE WalkInv'
      BY <1>2 DEF WalkInv
    <2>1. WalkInv
      BY DEF IInv
    <2>2. ASSUME NEW j \in DOMAIN asked', asked'[j].stage = "served"
          PROVE  /\ walk.base \subseteq asked'[j].base
                 /\ \A i \in walk.base \ walk.seen :
                        Rank(asked'[j].base, i) >= walk.page * PageSize
      <3>1. PICK h \in DOMAIN asked : asked[h].stage = "served" /\ asked'[j].base = asked[h].base
        BY <1>3, <2>2
      <3> QED BY <2>1, <3>1 DEF WalkInv, Has
    <2> QED BY <1>1, <1>2, <1>4, <2>1, <2>2 DEF WalkInv, Has
  <1> QED BY <1>3, <1>6, <1>7, <1>8, <1>9 DEF IInv

(* A draw of an answer that its page leaves out, and that does not come    *)
(* before the page, comes after it: it is older than all that is shown,    *)
(* and the next button, unless the count was made before, leads there.     *)
LEMMA AfterThePage ==
    ASSUME IInv, NEW k \in DOMAIN asked, Has(k, {"served"}),
           NEW i \in asked[k].base, i \notin asked[k].rows,
           Rank(asked[k].base, i) >= Offset(asked[k].page)
    PROVE  /\ Rank(asked[k].base, i) >= asked[k].page * PageSize
           /\ Rank(InScope, i) >= asked[k].page * PageSize
           /\ \A j \in asked[k].rows : i < j
           /\ asked[k].total = Cardinality(asked[k].base) => asked[k].page < Pages(asked[k].total)
  <1> DEFINE page == asked[k].page  base == asked[k].base  rows == asked[k].rows
             full == page * PageSize
  <1>1. TypeOK /\ AskInv(k) /\ page \in Nat /\ page >= 1 /\ base \in SUBSET Issues
        /\ asked[k].total \in Nat /\ i \in Issues
    BY CallFields DEF IInv, AskInv
  <1>2. /\ base \subseteq InScope
        /\ rows = {h \in base : Rank(base, h) \in Offset(page) .. Offset(page) + PageSize - 1}
    BY <1>1 DEF AskInv
  <1>3. /\ Offset(page) \in Nat /\ full \in Nat /\ Offset(page) + PageSize = full
        /\ PageSize \in Nat
    BY <1>1, OffsetFacts, SizesType
  <1>4. Rank(base, i) \in Nat /\ Rank(base, i) < Cardinality(base) /\ Cardinality(base) \in Nat
    BY <1>1, RankFacts
  <1> HIDE DEF full
  <1>5. Rank(base, i) >= full
    <2> SUFFICES ASSUME Rank(base, i) < full PROVE FALSE
      BY <1>3, <1>4
    <2>1. Rank(base, i) \in Offset(page) .. Offset(page) + PageSize - 1
      BY <1>3, <1>4
    <2> QED BY <1>2, <2>1
  <1>6. Rank(InScope, i) >= full
    <2>1. InScope \in SUBSET Issues
      BY <1>1, ScopeFacts
    <2>2. Rank(base, i) <= Rank(InScope, i) /\ Rank(InScope, i) \in Nat
      BY <1>1, <1>2, <2>1, RankGrows, RankFacts
    <2> QED BY <1>3, <1>4, <1>5, <2>2
  <1>7. ASSUME NEW j \in rows PROVE i < j
    <2>1. j \in base /\ Rank(base, j) \in Offset(page) .. Offset(page) + PageSize - 1
      BY <1>2, <1>7
    <2>2. Rank(base, j) < Rank(base, i)
      BY <1>3, <1>4, <1>5, <2>1
    <2> QED BY <1>1, <2>1, <2>2, RankOrders
  <1>8. asked[k].total = Cardinality(base) => page < Pages(asked[k].total)
    <2>1. full < Cardinality(base)
      BY <1>3, <1>4, <1>5
    <2> QED BY <1>1, <2>1, PageIsNotTheLast DEF full
  <1> QED BY <1>5, <1>6, <1>7, <1>8 DEF full

LEMMA loadDrawsKeeps == ASSUME IInv, NEW k \in DOMAIN asked, loadDraws(k) PROVE IInv'
  <1> DEFINE call == asked[k]
  <1>1. /\ TypeOK /\ Len(asked) \in Nat /\ DOMAIN asked = 1 .. Len(asked)
        /\ InScope' = InScope /\ Total' = Total
        /\ call.page \in Nat /\ call.total \in Nat /\ call.rows \in SUBSET Issues
        /\ call.base \in SUBSET Issues /\ call.late \in BOOLEAN
    BY CallFields DEF IInv, loadDraws, InScope, Total
  <1>2. /\ draws' = draws /\ drawPage' = drawPage /\ count' = count /\ hasty' = hasty
        /\ lost' = lost
        /\ asked' = Without(k) /\ shown' = Display(asked[k]) /\ walk' = Walked(asked[k])
        /\ asked[k].stage = "served"
    BY DEF loadDraws
  <1>3. /\ asked' \in Seq(Ask) /\ Len(asked') = Len(asked) - 1
        /\ DOMAIN asked' = 1 .. Len(asked) - 1
        /\ \A j \in DOMAIN asked' : AskInv(j)'
        /\ \A i, j \in DOMAIN asked' : i < j /\ asked'[j].late => asked'[i].late
        /\ asked' # <<>> => Latest'.page = drawPage' \/ Latest'.late
        /\ asked' = <<>> \/ Latest'.late => call.late \/ call.page = drawPage
    BY <1>2, CallOver
  <1>4. AskInv(k) /\ Has(k, {"served"})
    BY <1>2 DEF IInv, Has
  <1>5. /\ shown'.of = call.page /\ shown'.label = drawPage /\ shown'.total = call.total
        /\ shown'.rows = call.rows /\ shown'.late = call.late
        /\ shown'.moved = (call.total # Cardinality(call.base))
        /\ shown'.next = (drawPage < Pages(call.total))
    BY <1>2 DEF Display
  <1>6. shown' \in Shown
    <2>1. drawPage \in Nat
      BY <1>1, ShownFields
    <2> QED BY <1>1, <1>2, <2>1 DEF Display, Shown
  <1>7. walk' = NoWalk \/ walk' \in [page : Nat, base : SUBSET Issues, seen : SUBSET Issues]
    <2>1. walk # NoWalk => [walk EXCEPT !.page = call.page, !.seen = @ \cup call.rows]
              \in [page : Nat, base : SUBSET Issues, seen : SUBSET Issues]
      BY <1>1 DEF TypeOK
    <2> QED BY <1>1, <1>2, <2>1 DEF Walked
  <1>8. TypeOK' /\ drawPage' <= count' + 1
    <2>1. Len(asked') <= MaxPending
      BY <1>1, <1>3, SizesType DEF TypeOK
    <2> QED BY <1>1, <1>2, <1>3, <1>6, <1>7, <2>1 DEF IInv, TypeOK
  <1>9. Labelled'
    BY <1>2, <1>3, <1>5 DEF Labelled
  <1>10. ShownInv'
    <2> SUFFICES ASSUME ~ hasty PROVE ShownInv'
      BY <1>2 DEF ShownInv
    <2>1. call.page = drawPage /\ call.total <= Total /\ (call.total > 0 => call.rows # {})
      BY <1>4 DEF AskInv, Has
    <2>2. shown'.label = shown'.of /\ shown'.total <= Total'
      BY <1>1, <1>5, <2>1
    <2>3. shown'.rows = {} => shown'.total = 0
      BY <1>1, <1>5, <2>1
    <2>4. shown'.next => shown'.label < Pages(shown'.total)
      BY <1>5
    <2> QED BY <2>2, <2>3, <2>4 DEF ShownInv
  <1>11. PageInv'
    BY <1>1, <1>2 DEF IInv, PageInv
  <1>12. WalkInv'
    <2>1. CASE walk' = NoWalk
      BY <2>1 DEF WalkInv
    <2>2. CASE walk' # NoWalk
      <3>1. Len(asked) <= 1 /\ DOMAIN asked' = {}
        <4>1. ~ Len(asked) > 1
          BY <1>2, <2>2 DEF Walked
        <4> QED BY <1>1, <1>3, <4>1
      <3>2. /\ walk'.page = call.page /\ walk'.base \subseteq call.base
            /\ \A i \in walk'.base \ walk'.seen :
                   i \notin call.rows /\ Rank(call.base, i) >= Offset(call.page)
        <4>1. CASE call.page = 1
          <5>1. walk' = [page |-> 1, base |-> call.base, seen |-> call.rows]
            BY <1>1, <1>2, <3>1, <4>1 DEF Walked
          <5>2. \A i \in call.base : Rank(call.base, i) \in Nat
            BY <1>1, RankFacts
          <5>3. Offset(call.page) = 0
            BY <4>1, OffsetFacts
          <5> QED BY <4>1, <5>1, <5>2, <5>3
        <4>2. CASE call.page # 1
          <5>1. walk # NoWalk /\ call.page = walk.page + 1
                /\ walk' = [walk EXCEPT !.page = call.page, !.seen = @ \cup call.rows]
            BY <1>1, <1>2, <2>2, <3>1, <4>2 DEF Walked
          <5>2. walk \in [page : Nat, base : SUBSET Issues, seen : SUBSET Issues]
            BY <1>1, <5>1 DEF TypeOK
          <5>3. walk'.page = call.page /\ walk'.base = walk.base /\ walk'.seen = walk.seen \cup call.rows
            BY <5>1, <5>2
          <5>4. /\ walk.base \subseteq call.base
                /\ \A i \in walk.base \ walk.seen : Rank(call.base, i) >= walk.page * PageSize
            BY <1>4, <5>1 DEF IInv, WalkInv
          <5>5. Offset(call.page) = walk.page * PageSize
            BY <5>1, <5>2, OffsetFacts
          <5> QED BY <5>3, <5>4, <5>5
        <4> QED BY <4>1, <4>2
      <3>3. call.page >= 1 /\ call.base \subseteq InScope
        BY <1>4 DEF AskInv
      <3>4. ASSUME NEW i \in walk'.base \ walk'.seen
            PROVE  /\ Rank(InScope', i) >= call.page * PageSize
                   /\ \A j \in shown'.rows : i < j
                   /\ shown'.next \/ shown'.moved \/ shown'.label # shown'.of
        <4>1. /\ Rank(InScope, i) >= call.page * PageSize
              /\ \A j \in call.rows : i < j
              /\ call.total = Cardinality(call.base) => call.page < Pages(call.total)
          BY <1>4, <3>2, <3>4, AfterThePage
        <4> QED BY <1>1, <1>5, <4>1
      <3> QED BY <1>1, <1>5, <3>1, <3>2, <3>3, <3>4 DEF WalkInv
    <2> QED BY <2>1, <2>2
  <1> QED BY <1>3, <1>8, <1>9, <1>10, <1>11, <1>12 DEF IInv

-----------------------------------------------------------------------------
(* Theorems                                                                *)

LEMMA StutterKeeps == ASSUME IInv, UNCHANGED vars PROVE IInv'
  <1> USE DEF vars
  <1>1. TypeOK' /\ drawPage' <= count' + 1
    BY DEF IInv, TypeOK
  <1>2. \A k \in DOMAIN asked' : AskInv(k)'
    BY DEF IInv, AskInv, Has, InScope, Total
  <1>3. Labelled'
    BY DEF IInv, Labelled, Latest
  <1>4. ShownInv' /\ PageInv'
    BY DEF IInv, ShownInv, PageInv, InScope, Total
  <1>5. WalkInv'
    BY DEF IInv, WalkInv, Has, InScope
  <1> QED BY <1>1, <1>2, <1>3, <1>4, <1>5 DEF IInv

(* The invariant is inductive: it holds in every state of every behaviour  *)
(* of the table and its buttons, whatever is stored meanwhile.             *)
THEOREM Invariance == Spec => []IInv
  <1>1. Init => IInv
    BY InitHolds
  <1>2. IInv /\ [Next]_vars => IInv'
    <2> SUFFICES ASSUME IInv, [Next]_vars PROVE IInv'
      OBVIOUS
    <2>1. CASE UNCHANGED vars
      BY <2>1, StutterKeeps
    <2>2. CASE \E i \in Issues : StoreDraw(i)
      BY <2>2, StoreDrawKeeps
    <2>3. CASE OpenView \/ drawsPrevious \/ drawsNext
      BY <2>3, OpenViewKeeps, drawsPreviousKeeps, drawsNextKeeps
    <2>4. CASE \E k \in DOMAIN asked : Count(k) \/ Rows(k) \/ loadDraws(k) \/ Lose(k)
      BY <2>4, CountKeeps, RowsKeeps, loadDrawsKeeps, LoseKeeps
    <2> QED BY <2>1, <2>2, <2>3, <2>4 DEF Next
  <1> QED BY <1>1, <1>2, PTL DEF Spec

(* Page, calls and table keep their types: the page never goes below the   *)
(* first, nor further than the clicks there were.                          *)
THEOREM TypeCorrect == Spec => []TypeOK
  <1>1. IInv => TypeOK
    BY DEF IInv
  <1> QED BY <1>1, Invariance, PTL

(* When every answer is there, the label names the page whose rows are     *)
(* shown, unless a call sent later was over before (app.js 460-476,        *)
(* 591-592).                                                               *)
THEOREM SettledPageIsLabelledHolds == Spec => []SettledPageIsLabelled
  <1>1. IInv => SettledPageIsLabelled
    BY DEF IInv, Labelled, SettledPageIsLabelled
  <1> QED BY <1>1, Invariance, PTL

(* Who waits for each answer never gets past the end of the table: the     *)
(* count, and the draws, only grow (api.py 193-209).                       *)
THEOREM NeverPastTheEndHolds == Spec => []NeverPastTheEnd
  <1>1. IInv => NeverPastTheEnd
    BY ShownFields DEF IInv, ShownInv, NeverPastTheEnd
  <1> QED BY <1>1, Invariance, PTL

(* Who looks at page after page misses no draw that was there when he      *)
(* began, whatever is stored meanwhile (api.py 199-209).                   *)
THEOREM NothingSkippedHolds == Spec => []NothingSkipped
  <1>1. IInv => NothingSkipped
    BY DEF IInv, WalkInv, NothingSkipped
  <1> QED BY <1>1, Invariance, PTL

=============================================================================
