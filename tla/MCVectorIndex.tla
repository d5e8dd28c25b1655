---------------------------- MODULE MCVectorIndex ----------------------------
(* Small instances of VectorIndex for TLC. *)
EXTENDS VectorIndex, TLC

CONSTANTS Doc, Image

(* Points on a line no two of which are as far apart as two others. *)
Line == [label \in {Doc, Image} |->
            IF label = Doc THEN {0, 1, 4, 9, 11} ELSE {20}]

OnALine == [p \in Points |-> [q \in Points |-> IF p < q THEN q - p ELSE p - q]]

(* With m at 1 five vectors make a vector lose links to its limit m_max_0;   *)
(* with m at 2 the links of a vector are completed by those of its           *)
(* neighbours.                                                               *)
Small == {[m |-> 1, ef_construct |-> 3, ef |-> 3],
          [m |-> 2, ef_construct |-> 4, ef |-> 4]}

Room == [c \in Small |-> 6 - c.m]
=============================================================================
