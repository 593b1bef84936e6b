------------------------------ MODULE MCDamage ------------------------------
(* Instances of Damage for TLC: two regions of different rows and columns,  *)
(* whose bounding box merge_damage misses.                                  *)
EXTENDS Damage, TLC

Region(x, y) == [x |-> x, y |-> y, width |-> 1, height |-> 1]

MCRects == {Region(1, 0), Region(0, 2)}

Symmetry == Permutations(Buffers)
=============================================================================
