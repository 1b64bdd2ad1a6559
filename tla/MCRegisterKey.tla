--------------------------- MODULE MCRegisterKey ---------------------------
EXTENDS RegisterKey, SequencesExt

(* Any order of the managed peers will do.                                 *)
SomeRank == LET order == SetToSeq(Managed)
            IN  [x \in Managed |-> CHOOSE i \in DOMAIN order : order[i] = x]
=============================================================================
