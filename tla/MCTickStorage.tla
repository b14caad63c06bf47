---------------------------- MODULE MCTickStorage ----------------------------
(* The paged store, in which the bitmap is the set it implements, and the   *)
(* three-layer bitmap, as two machines of which an initial state picks one. *)
EXTENDS TickSlab, HierBitmap, TLC

VARIABLE part   \* the machine that runs

MCInit == part \in {"slab", "bitmap"} /\ Init /\ BitmapInit

MCNext == \/ part = "slab" /\ Next /\ UNCHANGED <<part, bitmapVars>>
          \/ part = "bitmap" /\ BitmapNext /\ UNCHANGED <<part, vars>>

MCSpec == MCInit /\ [][MCNext]_<<part, vars, bitmapVars>>

\* The allocator's keys and the tick infos are interchangeable.
Symmetry == Permutations(SlabKeys) \cup Permutations(Infos)
=============================================================================
