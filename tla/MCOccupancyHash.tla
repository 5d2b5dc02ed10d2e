--------------------------- MODULE MCOccupancyHash ---------------------------
(* Instances of OccupancyHash for TLC.                                     *)
EXTENDS OccupancyHash
CONSTANTS c1, c2, c3, master, candidate
MCChars == {c1, c2, c3}
MCHashes == {master, candidate}
MCMaster == {master}
\* The zeroed memory of a new stack, and two traces of an earlier frame.
MCResidues ==
  {[count |-> [c \in MCChars |-> 0], index |-> <<>>],
   [count |-> [c \in MCChars |-> IF c = c1 THEN 1 ELSE 0], index |-> <<>>],
   [count |-> [c \in MCChars |-> IF c = c2 THEN 2 ELSE 0], index |-> <<c2>>]}
=============================================================================
