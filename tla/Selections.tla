----------------------------- MODULE Selections -----------------------------
(* The selection of a list comprehension, by places: what is selected is a set, so
   that facts about it can be stated for every selection there is. *)
EXTENDS Naturals, Sequences

\* The members of s at the places in I, in their order.
SelectAt(s, I) ==
    LET kept[n \in 0 .. Len(s)] ==
            IF n = 0 THEN << >>
            ELSE IF n \in I THEN Append(kept[n - 1], s[n]) ELSE kept[n - 1]
    IN  kept[Len(s)]
=============================================================================
