-------------------------------- MODULE Lists ---------------------------------
(* Operators on sequences that several components share. *)
EXTENDS Integers, Sequences

\* seq.filter(x => !gone.has(x)): what stays is in its order.
Without(seq, gone) ==
    LET kept[i \in 0 .. Len(seq)] ==
            IF i = 0 THEN <<>>
            ELSE IF seq[i] \in gone THEN kept[i - 1]
            ELSE Append(kept[i - 1], seq[i])
    IN kept[Len(seq)]
===============================================================================
