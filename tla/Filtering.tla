------------------------------- MODULE Filtering -------------------------------
(* The subsequence of the members of S in s: what SelectSeq gives for the test    *)
(* "is in S", as a recursive function, whose definition the proofs can expand.    *)
EXTENDS Integers, Sequences

Filter(s, S) ==
  LET Upto[i \in 0..Len(s)] ==
        IF i = 0 THEN <<>>
        ELSE IF s[i] \in S THEN Append(Upto[i - 1], s[i]) ELSE Upto[i - 1]
  IN Upto[Len(s)]
=============================================================================
