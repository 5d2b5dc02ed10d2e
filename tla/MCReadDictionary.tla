--------------------------- MODULE MCReadDictionary ---------------------------
(* Instances of ReadDictionary for TLC: words of one to four letters over a, b *)
(* and c, one with a capital and one with a letter that is not ASCII's (195,   *)
(* 177 is an n with a tilde).                                                  *)
EXTENDS ReadDictionary

a == 97
b == 98
c == 99

Short == {<<a>>, <<b>>, <<a, b>>, <<b, a>>, <<a, 67>>, <<195, 177>>, <<a, 195>>}
Long == {<<a, b, c>>, <<c, b, a, b>>, <<b, b, b>>, <<a, a>>}
MCWords == Short \union Long
MCLetters == {a, b, 195}

File(lines, terminated) == [lines |-> lines, terminated |-> terminated]

\* One file of up to three lines, in any order.
Single == {<<File(lines, ended)>> : lines \in UNION {[1 .. n -> MCWords] : n \in 0 .. 3},
                                    ended \in BOOLEAN}

\* More lines, without a line twice, and a second file with words of the first.
Sorted4 == {<<<<a>>, <<a, a>>, <<a, b>>, <<a, 67>>, <<b, a>>>>,
            <<<<b, b, b>>, <<b>>, <<a, 195>>, <<a, b, c>>, <<195, 177>>, <<a, 67>>, <<a, a>>>>}
Double == {<<File(one, ended), File(two, ~ended)>> :
             one \in Sorted4, two \in [1 .. 2 -> MCWords], ended \in BOOLEAN}

MCDictionaries == {<<file[1]>> : file \in Single} \union Double
=============================================================================
