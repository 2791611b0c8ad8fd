------------------------- MODULE MCNumberCombinations -------------------------
(* An instance of NumberCombinations for TLC: the real wheel and numbers,  *)
(* and a few draws whose numbers overlap and whose specials and anchors    *)
(* repeat, differ and wrap around.                                         *)
EXTENDS NumberCombinations

MCZodiac == <<"rat", "ox", "tiger", "rabbit", "dragon", "snake",
              "horse", "goat", "monkey", "rooster", "dog", "pig">>

(* Issue 3 is drawn at the time of issue 1 and issue 4 at that of issue 2. *)
MCOpenTime == [i \in Issues |-> CASE i = 3 -> 1 [] i = 4 -> 2 [] OTHER -> i]

Drawn(regular, special, anchor) == [regular |-> regular, special |-> special, anchor |-> anchor]

(* The specials: 17 is the tiger's under the horse and 18 under the goat,  *)
(* 29 the goat's under the pig.                                            *)
MCDraws == {
    Drawn({1, 2, 13, 25, 37, 49}, 17, "horse"),
    Drawn({1, 2, 5, 25, 30, 49}, 17, "horse"),
    Drawn({1, 2, 5, 13, 38, 49}, 18, "goat"),
    Drawn({1, 2, 5, 8, 25, 49}, 29, "pig")}
=============================================================================
