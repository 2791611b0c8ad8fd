----------------------------- MODULE DrawLedger -----------------------------
(***************************************************************************)
(* What the draw table promises to everything that reads it (analysis,     *)
(* combinations, the draw list): an append-only ledger that grows by whole *)
(* batches.  A batch is either confirmed, each entry carrying the zodiac   *)
(* anchor the history interface gave for it, or inherited, every entry     *)
(* carrying one anchor that an earlier confirmed entry bears.              *)
(*                                                                         *)
(* Ingestion.tla implements this ledger with worker processes, database    *)
(* transactions, failures and crashes.                                     *)
(***************************************************************************)
EXTENDS Integers

CONSTANTS
    Issues,        \* issue identifiers, ordered as integers
    Scope,         \* the issues the project may hold
    Bodies,        \* what an entry says: the numbers and the opening time
    Anchors,       \* zodiac animals an entry may be anchored at
    NoDraw         \* no entry for this issue

VARIABLE ledger    \* [Issues -> Entry \cup {NoDraw}]

Entry == [body : Bodies, anchor : Anchors, kind : {"history", "current"}]

Held == {i \in Issues : ledger[i] # NoDraw}

ConfirmedAnchors == {ledger[i].anchor : i \in {h \in Held : ledger[h].kind = "history"}}

Init == ledger = [i \in Issues |-> NoDraw]

(* The entries of New appear together; the ones already held stay as they are. *)
Grow(New, kind) ==
    /\ New # {}
    /\ New \subseteq Scope \ Held
    /\ \A i \in Issues \ New : ledger'[i] = ledger[i]
    /\ \A i \in New : ledger'[i] \in Entry /\ ledger'[i].kind = kind
    /\ ledger' \in [Issues -> Entry \cup {NoDraw}]

Confirm(New) == Grow(New, "history")

Inherit(New) ==
    /\ Grow(New, "current")
    /\ \E a \in ConfirmedAnchors : \A i \in New : ledger'[i].anchor = a

Next == \E New \in SUBSET Issues : Confirm(New) \/ Inherit(New)

Spec == Init /\ [][Next]_ledger

=============================================================================
