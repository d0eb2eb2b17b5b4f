------------------------ MODULE MCConcurrencyGroups ------------------------
(* Small instance of ConcurrencyGroups: three groups, and calls whose group *)
(* sets overlap in a cycle, the shape that deadlocks without sorting.       *)
EXTENDS ConcurrencyGroups

CONSTANTS c1, c2, c3, c4, c5

MCCall == {c1, c2, c3, c4, c5}
MCGroups ==
  [c \in MCCall |->
     CASE c = c1 -> {1, 2}
       [] c = c2 -> {2, 3}
       [] c = c3 -> {1, 3}
       [] c = c4 -> {1, 2, 3}
       [] OTHER  -> {}]
=============================================================================
