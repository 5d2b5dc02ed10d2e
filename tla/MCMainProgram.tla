---------------------------- MODULE MCMainProgram ----------------------------
(* Instances of MainProgram for TLC: right and wrong argument lists.           *)
EXTENDS MainProgram

Flag(letter) == [flag |-> letter, digit |-> -1, text |-> "", items |-> {}]
Verbosity(n) == [flag |-> "v", digit |-> n, text |-> "", items |-> {}]
Exclude(items) == [flag |-> "e", digit |-> -1, text |-> "", items |-> items]
Part(text) == [flag |-> "none", digit |-> -1, text |-> text, items |-> {}]

hello == Part("hello")
blank == Part("blank")
MCArgs == {Flag("b"), Flag("o"), Flag("x"), Verbosity(0), Exclude({"", "alb"}), hello, blank}

\* All lists of one argument, and some of two and three.
MCArgLists ==
  (UNION {[1 .. n -> MCArgs] : n \in 0 .. 1})
  \union {list \in [1 .. 2 -> MCArgs] : list[2] = hello => list[1].flag \in {"o", "x"}}
  \union {list \in [1 .. 3 -> MCArgs] : list[2] = hello /\ list[3] \in {Flag("b"), Flag("x")}}
  \union {<<Exclude({"", "alb"}), Verbosity(0), hello>>, <<Flag("b"), Verbosity(-1), hello>>}
=============================================================================
