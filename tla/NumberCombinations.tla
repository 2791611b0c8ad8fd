-------------------------- MODULE NumberCombinations --------------------------
(***************************************************************************)
(* The number comparison of combinations.py, as the endpoint runs it while *)
(* synchronizations commit: the draws are read, and the transition         *)
(* analysis reads them again.  The database isolates statements, not       *)
(* transactions, so the second reading may find draws the first did not.   *)
(*                                                                         *)
(* Rows never change, so a list of rows is the set of their issues.        *)
(***************************************************************************)
EXTENDS DrawAnalysis

CONSTANTS
    TopAnimals,        \* animals at the top of the ranking that count
    RecentDraws,       \* RECENT_DRAW_COUNT
    CandidateCount,    \* CANDIDATE_COUNT
    CombinationCount   \* COMBINATION_COUNT

ASSUME TopType == TopAnimals \in 1 .. Wheel
ASSUME RecentType == RecentDraws \in Nat \ {0}
ASSUME CandidateType == CandidateCount \in Nat /\ CandidateCount >= 3
ASSUME CombinationType == CombinationCount \in Nat \ {0}

VARIABLES
    records,     \* what the first query returned: a set of issues
    reply        \* the last answer: refused, or the analysis

(* No request is under way when nothing has been read.                     *)
Idle == records = {}

RefusedWith(code) == [refused |-> code]

Init == InitDraws /\ records = {} /\ reply = RefusedWith("NOT_ASKED")

-----------------------------------------------------------------------------
(* build_number_combinations.  counted are the occurrences that count for  *)
(* the history, recent the draws compared with.                            *)

Top(S, n, Before(_, _)) == {x \in S : Cardinality({y \in S : Before(y, x)}) < n}

TopSix(ranking) == {entry.of : entry \in {e \in ranking : e.rank <= TopAnimals}}

Historical(counted, n) == Cardinality({o \in counted : o.number = n})
Recent(recent, n) == Cardinality({i \in recent : n \in draws[i].regular})

Comparable(counted, recent) ==
    {[number |-> n, historical |-> Historical(counted, n), recent |-> Recent(recent, n)] :
        n \in {o.number : o \in counted} \cap UNION {draws[i].regular : i \in recent}}

(* More in all, then more in the history; what is left is the recent count, *)
(* which those two determine, and the numbers.                              *)
Above(h1, r1, h2, r2) == h1 + r1 > h2 + r2 \/ (h1 + r1 = h2 + r2 /\ h1 > h2)
Level(h1, r1, h2, r2) == h1 = h2 /\ r1 = r2

CandidateBefore(c, d) ==
    \/ Above(c.historical, c.recent, d.historical, d.recent)
    \/ Level(c.historical, c.recent, d.historical, d.recent) /\ c.number < d.number

HistoricalTotal(group) == MapThenSumSet(LAMBDA c : c.historical, group)
RecentTotal(group) == MapThenSumSet(LAMBDA c : c.recent, group)
NumbersOf(group) == {c.number : c \in group}

(* Of two sorted tuples of one length, the one that has the least number   *)
(* only one of them has.                                                   *)
TupleBefore(g, h) == g # h /\ Min(SymDiff(g, h)) \in g

LargerNumbersFirst(g, h) ==
    \/ Above(HistoricalTotal(g), RecentTotal(g), HistoricalTotal(h), RecentTotal(h))
    \/ /\ Level(HistoricalTotal(g), RecentTotal(g), HistoricalTotal(h), RecentTotal(h))
       /\ TupleBefore(NumbersOf(h), NumbersOf(g))
GroupBefore(g, h) ==
    \/ Above(HistoricalTotal(g), RecentTotal(g), HistoricalTotal(h), RecentTotal(h))
    \/ /\ Level(HistoricalTotal(g), RecentTotal(g), HistoricalTotal(h), RecentTotal(h))
       /\ TupleBefore(NumbersOf(g), NumbersOf(h))

BuildNumberCombinations(transition, occurrences, recent) ==
    LET counted == {o \in occurrences : o.zodiac \in TopSix(transition.ranking)}
        candidates == Top(Comparable(counted, recent), CandidateCount, CandidateBefore)
    IN IF Cardinality(candidates) < CandidateCount
       THEN RefusedWith("INSUFFICIENT_COMBINATION_CANDIDATES")
       ELSE [refused |-> "none",
             latest |-> transition.latest,
             samples |-> transition.transitions,
             recent |-> recent,
             candidates |-> candidates,
             combinations |-> Top(kSubset(3, candidates), CombinationCount, GroupBefore)]

-----------------------------------------------------------------------------
(* calculate_latest_number_combinations                                    *)

(* records[-21:-1]: the twenty before the last.                            *)
WithTheLatest(read) == {i \in read : Cardinality(After(read, i)) < RecentDraws}
BeforeTheLatest(read) == {i \in read : Cardinality(After(read, i)) \in 1 .. RecentDraws}

(* With no draw at all the request is refused as well; it is left out. *)
FirstReading ==
    /\ Idle /\ OrderedRecords # {}
    /\ IF Cardinality(OrderedRecords) < RecentDraws + 1
       THEN reply' = RefusedWith("INSUFFICIENT_RECENT_HISTORY") /\ UNCHANGED records
       ELSE records' = OrderedRecords /\ UNCHANGED reply
    /\ UNCHANGED draws

SecondReading ==
    /\ ~ Idle
    /\ LET transition == Transition(OrderedRecords)
       IN reply' = IF transition.refused # "none" THEN transition
                   ELSE BuildNumberCombinations(
                            transition, Occurrences(OrderedRecords), BeforeTheLatest(records))
    /\ records' = {}
    /\ UNCHANGED draws

StoreDraw == (\E i \in Issues, d \in Draws : Store(i, d)) /\ UNCHANGED <<records, reply>>

NextRequest == StoreDraw \/ FirstReading \/ SecondReading

vars == <<draws, records, reply>>

CombinationSpec == Init /\ [][NextRequest]_vars

-----------------------------------------------------------------------------
(* Properties                                                              *)

Answered == reply.refused = "none"

(* The two sortings agree: wherever one candidate of a group that is shown *)
(* is replaced by a candidate ranked above it, the group is shown as well; *)
(* so the first three candidates are a group that is shown                 *)
(* (combinations.py 163-204).                                              *)
GroupsFollowCandidates ==
    Answered =>
        \A group \in reply.combinations, out \in reply.candidates, in \in reply.candidates :
            out \in group /\ in \notin group /\ CandidateBefore(in, out)
                => (group \ {out}) \cup {in} \in reply.combinations

(* PRD.md acceptance 11: an answer compares with draws before the latest   *)
(* one it names, whatever was stored between the two readings; and with    *)
(* exactly the last ones before it when nothing was (combinations.py       *)
(* 104-119).  Storing in between does make an answer name a draw that is   *)
(* not the next after those it compares with.                              *)
ComparedWithEarlierDraws ==
    [][SecondReading /\ Answered' =>
          /\ \A i \in reply'.recent : Earlier(i, reply'.latest)
          /\ records = OrderedRecords =>
                reply'.recent = {i \in OrderedRecords :
                    Cardinality(After(OrderedRecords, i)) \in 1 .. RecentDraws}]_vars
=============================================================================
