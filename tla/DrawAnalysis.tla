----------------------------- MODULE DrawAnalysis -----------------------------
(***************************************************************************)
(* The zodiac of a number and the transition statistics: zodiac.py and     *)
(* analysis.py over the table draw_records.                                *)
(*                                                                         *)
(* For a draw, take the draws before it whose special number has the same  *)
(* animal, and count the animals of the regular numbers of the draw after  *)
(* each of those.  Every draw is read with the anchor of its own row.      *)
(*                                                                         *)
(* Draws arrive in any order, because a history import fills gaps, and are *)
(* never changed (Ingestion.tla proves it); a batch that is committed at   *)
(* once is here several steps with no reader between them.  Every stored   *)
(* issue is in the approved scope, so the queries' bound on the issue      *)
(* leaves none out.                                                        *)
(***************************************************************************)
EXTENDS Integers, Sequences, FiniteSets, FiniteSetsExt, SequencesExt

CONSTANTS
    Zodiac,        \* the animals in canonical order
    MaxNumber,     \* numbers are drawn from 1 .. MaxNumber
    RegularCount,  \* regular numbers in a draw
    Issues,        \* the issues there may be
    OpenTime,      \* when each is drawn
    Draws,         \* the contents a row of draw_records may have
    NoDraw

Wheel == Len(Zodiac)
Animals == {Zodiac[i] : i \in 1 .. Wheel}
Numbers == 1 .. MaxNumber
Draw == [regular : SUBSET Numbers, special : Numbers, anchor : Animals]

ASSUME ZodiacType == /\ Zodiac \in Seq(Animals)
                     /\ Zodiac # <<>>
                     /\ \A i, j \in 1 .. Wheel : Zodiac[i] = Zodiac[j] => i = j
ASSUME MaxNumberType == MaxNumber \in Nat
ASSUME RegularCountType == RegularCount \in Nat
ASSUME TablesType == Issues \subseteq Nat /\ IsFiniteSet(Issues) /\ OpenTime \in [Issues -> Nat]
ASSUME DrawsType == /\ Draws \subseteq Draw
                    /\ \A d \in Draws : /\ Cardinality(d.regular) = RegularCount
                                        /\ d.special \notin d.regular
ASSUME NoDrawType == NoDraw \notin Draws

VARIABLE draws     \* the table draw_records: [Issues -> Draws \cup {NoDraw}]

-----------------------------------------------------------------------------
(* zodiac.py                                                               *)

IndexOf(animal) == CHOOSE i \in 1 .. Wheel : Zodiac[i] = animal

(* The animals from the anchor backwards, then from the last backwards.    *)
(* Faulty variants, here and below, stand before what they replace when    *)
(* the properties' strength is measured.                                   *)
ForwardAssignment(anchor) ==
    LET a == IndexOf(anchor) IN SubSeq(Zodiac, a, Wheel) \o SubSeq(Zodiac, 1, a - 1)
Assignment(anchor) ==
    LET a == IndexOf(anchor)
    IN Reverse(SubSeq(Zodiac, 1, a)) \o Reverse(SubSeq(Zodiac, a + 1, Wheel))

(* The k-th animal of the assignment gets k, k + 12, k + 24, ...           *)
ZodiacMapping ==
    [anchor \in Animals |->
        [number \in Numbers |-> Assignment(anchor)[((number - 1) % Wheel) + 1]]]

ZodiacForNumber(number, anchor) == ZodiacMapping[anchor][number]

-----------------------------------------------------------------------------
(* The draws in the order of the query, which is strict and total: a list  *)
(* of rows is the set of their issues, and a rank is a number of           *)
(* predecessors.                                                           *)

Earlier(i, j) == OpenTime[i] < OpenTime[j] \/ (OpenTime[i] = OpenTime[j] /\ i < j)

OrderedRecords == {i \in Issues : draws[i] # NoDraw}

After(records, i) == {j \in records : Earlier(i, j)}
Latest(records) == CHOOSE i \in records : After(records, i) = {}
Following(records, i) == CHOOSE j \in After(records, i) : \A k \in After(records, i) : ~ Earlier(k, j)

SpecialZodiac(i) == ZodiacForNumber(draws[i].special, draws[i].anchor)

-----------------------------------------------------------------------------
(* analysis.py: the analysis of the latest of the records                  *)

Matched(records) ==
    {i \in records : /\ After(records, i) # {}
                     /\ SpecialZodiac(i) = SpecialZodiac(Latest(records))}

(* Each regular number of a sample with its animal, counted once each.     *)
CountedOnceInAll(records, i) ==
    LET sample == draws[Following(records, i)]
    IN {[number |-> n, zodiac |-> ZodiacForNumber(n, sample.anchor)] : n \in sample.regular}
SampleOf(records, i) ==
    LET sample == draws[Following(records, i)]
    IN {[condition |-> i, number |-> n, zodiac |-> ZodiacForNumber(n, sample.anchor)]
           : n \in sample.regular}

Occurrences(records) == UNION {SampleOf(records, i) : i \in Matched(records)}

(* What is counted, ranked by its count and then by Tie. *)
Ranked(S, Count(_), Tie(_, _)) ==
    LET Precedes(y, x) == Count(y) > Count(x) \/ (Count(y) = Count(x) /\ Tie(y, x))
    IN {[of |-> x, occurrences |-> Count(x),
         rank |-> 1 + Cardinality({y \in S : Precedes(y, x)})] : x \in S}

Canonical(a, b) == IndexOf(a) < IndexOf(b)

ZodiacRanking(all) ==
    Ranked(Animals, LAMBDA a : Cardinality({o \in all : o.zodiac = a}), Canonical)

NumberRanking(mine) ==
    Ranked({o.number : o \in mine}, LAMBDA n : Cardinality({o \in mine : o.number = n}),
           LAMBDA m, n : m < n)

Refusal(records) ==
    IF Cardinality(records) < 2 THEN "INSUFFICIENT_HISTORY"
    ELSE IF Matched(records) = {} THEN "INSUFFICIENT_MATCHED_HISTORY" ELSE "none"

Transition(records) ==
    IF Refusal(records) # "none" THEN [refused |-> Refusal(records)]
    ELSE [refused |-> "none",
          latest |-> Latest(records),
          transitions |-> {<<i, Following(records, i)>> : i \in Matched(records)},
          total |-> Cardinality(Matched(records)) * RegularCount,
          ranking |-> ZodiacRanking(Occurrences(records)),
          numbers |-> [a \in Animals |->
                         NumberRanking({o \in Occurrences(records) : o.zodiac = a})]]

Untruncated(target) == OrderedRecords
Through(target) == OrderedRecords \ After(OrderedRecords, target)

CalculateTransitionForIssue(issue) ==
    IF issue \notin OrderedRecords THEN [refused |-> "ANALYSIS_ISSUE_NOT_FOUND"]
    ELSE Transition(Through(issue))

(* Every draw but the latest, when its animal was seen before it. *)
SeenJustBefore(i) ==
    \E j \in OrderedRecords : /\ Earlier(j, i) /\ i = Following(OrderedRecords, j)
                              /\ SpecialZodiac(j) = SpecialZodiac(i)
SeenAnywhere(i) == \E j \in OrderedRecords \ {i} : SpecialZodiac(j) = SpecialZodiac(i)
PreviouslySeen(i) ==
    \E j \in OrderedRecords : Earlier(j, i) /\ SpecialZodiac(j) = SpecialZodiac(i)

ListHistoricalAnalysisIssues ==
    {i \in OrderedRecords : After(OrderedRecords, i) # {} /\ PreviouslySeen(i)}

-----------------------------------------------------------------------------
InitDraws == draws = [i \in Issues |-> NoDraw]

Store(i, d) == draws[i] = NoDraw /\ draws' = [draws EXCEPT ![i] = d]

Next == \E i \in Issues, d \in Draws : Store(i, d)

Spec == InitDraws /\ [][Next]_draws

-----------------------------------------------------------------------------
(* Properties                                                              *)

TypeOK == draws \in [Issues -> Draws \cup {NoDraw}]

(* Under every draw's anchor number 1 is the anchor's own, and each next   *)
(* number is the animal's before it on the wheel, all the way to the last  *)
(* number (zodiac.py 75-88).                                               *)
ZodiacWheel ==
    \A i \in OrderedRecords, n \in Numbers :
        LET anchor == draws[i].anchor
        IN ZodiacForNumber(n, anchor) = Zodiac[((IndexOf(anchor) - n) % Wheel) + 1]

Total(ranking) == MapThenSumSet(LAMBDA entry : entry.occurrences, ranking)

(* PRD.md acceptance 9 and analysis.py 195: the counts of the animals add  *)
(* up to the stated denominator, and an animal's count to its numbers':    *)
(* every number of every sample has exactly one animal.                    *)
CountsAddUp ==
    \A i \in OrderedRecords :
        LET result == CalculateTransitionForIssue(i) IN
        result.refused = "none" =>
            /\ Total(result.ranking) = result.total
            /\ \A entry \in result.ranking : Total(result.numbers[entry.of]) = entry.occurrences

(* The issues offered for historical analysis are those, of all but the    *)
(* latest, whose analysis succeeds: two separate loops of analysis.py      *)
(* (114-127 and 173-193) agree on it for every table.                      *)
ListedIffAnalysable ==
    ListHistoricalAnalysisIssues =
        {i \in OrderedRecords : /\ After(OrderedRecords, i) # {}
                                /\ CalculateTransitionForIssue(i).refused = "none"}

(* PRD.md acceptance 10: what is analysed for an issue, whether it is      *)
(* refused and every occurrence that is counted, does not change when      *)
(* draws after it come in (analysis.py 145-158).                           *)
HistoryIsStable ==
    [][\A i \in OrderedRecords :
          (\A j \in OrderedRecords' \ OrderedRecords : Earlier(i, j)) =>
              /\ Refusal(Through(i))' = Refusal(Through(i))
              /\ Occurrences(Through(i))' = Occurrences(Through(i))]_draws

(* An issue that is offered stays so, whatever is stored later and         *)
(* wherever in the order it falls (analysis.py 114-127).                   *)
ListedForGood == [][ListHistoricalAnalysisIssues \subseteq ListHistoricalAnalysisIssues']_draws
=============================================================================
