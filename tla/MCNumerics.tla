----------------------------- MODULE MCNumerics -----------------------------
(* The keys of the ticks at the protocol's range, walked around its ends,   *)
(* zero and page bounds; and the arithmetic at small widths, every operand. *)
EXTENDS TickSlabIndexer, Numerics

Lowest == -887272
Around(t) == {u \in t - 70 .. t + 70 : u >= Lowest - 1 /\ u <= -Lowest}
Windows == Around(Lowest) \cup Around(0) \cup Around(-Lowest) \cup Around(32767)
             \cup Around(-32768) \cup Around(-524288)
Chosen == {1, 2, 3, 7, 8, 10, 60, 200, 16383, 16384, 32767}

\* The source's table for a coarser base: six entries, prices of ten fractional bits.
Table == <<15621, 14894, 13540, 11190, 7643, 3565>>

MCInit == \/ WalkInit /\ tick = 0 /\ spacing = 1
          \/ KeyInit /\ walk = "tick" /\ number = 0

MCNext == \/ walk = "tick" /\ KeyStep /\ UNCHANGED <<walk, number>>
          \/ walk # "tick" /\ WalkStep /\ UNCHANGED <<tick, spacing>>

MCSpec == MCInit /\ [][MCNext]_<<tick, spacing, walk, number>>
=============================================================================
