----------------------------- MODULE MCTextIndex -----------------------------
(* Small instances of TextIndex for TLC. *)
EXTENDS TextIndex

(* Counts that differ in one term, in the other and in both; the terms 3    *)
(* and 4 are those LMDB may refuse.                                         *)
FewDocuments ==
    {[t \in {1} |-> 1], [t \in {1, 2} |-> IF t = 1 THEN 2 ELSE 1],
     [t \in {2, 3} |-> 1], [t \in {4} |-> 1], [t \in {} |-> 1]}
=============================================================================
