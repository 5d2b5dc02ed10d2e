--------------------------- MODULE MCCombineSubsets ---------------------------
(* Instances of CombineSubsets for TLC: words of one, two and four letters,    *)
(* "abba" among them, and phrases of four letters, or of five, which are too   *)
(* long for two hashes in candidate_count_arr.                                 *)
EXTENDS CombineSubsets
CONSTANTS a, b, blank

MCChars == {a, b}
MCWords == <<<<a>>, <<a, a>>, <<a, b>>, <<a, b, b, a>>, <<b>>, <<b, a>>>>

TwoWords == <<a, b, blank, a, b>>
OneWord == <<a, b, b, a>>
LongWord == <<b, a, a, b, a>>

Calls(words, dicts, excludes, directly, cpus) ==
  [word : words, dict : dicts, excludeset : excludes, allow_dupes : BOOLEAN,
   output_directly : directly, print_subset : {FALSE}, cpu_tot : cpus]

\* The same calls with -s.
Printing(calls) == {[call EXCEPT !.print_subset = TRUE] : call \in calls}

MCInputs ==
  Calls({TwoWords}, SUBSET (1 .. 6), {{}, {5}}, {TRUE}, {2})
  \union Calls({OneWord}, {2 .. 6, {1, 3, 4, 5}, {3, 4}}, {{}}, {TRUE}, {3})
  \union Calls({OneWord}, SUBSET (1 .. 6), {{}}, {FALSE}, {1})
  \union Calls({OneWord}, {{3, 4, 6}}, {{}}, {FALSE}, {2})
  \union Calls({LongWord}, {{1, 5}}, {{}}, {TRUE}, {2})
  \union Printing(Calls({TwoWords}, SUBSET (1 .. 6), {{}}, {FALSE}, {1}))
  \union Printing(Calls({TwoWords}, {{1, 3}, {1, 2, 5}}, {{}}, {TRUE}, {2}))
=============================================================================
