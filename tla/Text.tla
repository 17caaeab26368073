---- MODULE Text ----
(***************************************************************************)
(* Searching in a string (src/src/utils/string.hpp).  A text is a sequence *)
(* of characters; positions begin at 1 and 0 is npos.                      *)
(***************************************************************************)
EXTENDS Integers, Sequences, FiniteSets, SequencesExt

(* find(substr): where pattern first occurs.  The code compares at every   *)
(* position from the left.                                                 *)
Find(text, pattern) ==
    LET found == {i \in 1..(Len(text) - Len(pattern) + 1) :
                    SubSeq(text, i, i + Len(pattern) - 1) = pattern}
    IN  IF found = {} THEN 0 ELSE CHOOSE i \in found : \A j \in found : i <= j

(* find_first_of and find(c): where a character of a set first occurs.     *)
FindFirstOf(text, set) == SelectInSeq(text, LAMBDA c : c \in set)

(* substr(0, n) and substr(n) at the first character of a set.             *)
Before(text, set) ==
    LET i == FindFirstOf(text, set) IN IF i = 0 THEN text ELSE SubSeq(text, 1, i - 1)
From(text, set) ==
    LET i == FindFirstOf(text, set) IN IF i = 0 THEN <<>> ELSE SubSeq(text, i, Len(text))

(* What is left when the characters of a set are taken off an end.         *)
StripStart(text, set) ==
    LET i == SelectInSeq(text, LAMBDA c : c \notin set)
    IN  IF i = 0 THEN <<>> ELSE SubSeq(text, i, Len(text))
StripEnd(text, set) ==
    SubSeq(text, 1, SelectLastInSeq(text, LAMBDA c : c \notin set))
====
