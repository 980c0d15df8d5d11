------------------------------- MODULE Lists --------------------------------
(* A list without some of its members, as filter makes it.                 *)
EXTENDS Integers, Sequences

Without(s, gone) ==
    LET upTo[k \in 0..Len(s)] ==
            IF k = 0 THEN <<>>
            ELSE IF s[k] \in gone THEN upTo[k - 1] ELSE Append(upTo[k - 1], s[k])
    IN  upTo[Len(s)]
=============================================================================
