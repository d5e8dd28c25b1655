---------------------------- MODULE LmdbTables ----------------------------
(***************************************************************************)
(* The tables of the storage engine, LMDB through the heed3 crate, as the   *)
(* code under sparrow-core/src/sparrow_engine uses them.  A table with one  *)
(* value per key is a function whose domain is the set of stored keys.  A   *)
(* DUP_SORT table, several values per key, is a set of <<key, value>>       *)
(* pairs; so is a table read by value, with at most one pair per key.       *)
(***************************************************************************)
EXTENDS Functions

Tables(K, V) == UNION {[D -> V] : D \in SUBSET K}

EmptyTable == [k \in {} |-> k]

(* Database::put on a table without DUP_SORT: insert or overwrite.          *)
Put(t, k, v) == [x \in DOMAIN t \cup {k} |-> IF x = k THEN v ELSE t[x]]

(* Database::delete; deleting a key that is not there is not an error.      *)
Delete(t, k) == Restrict(t, DOMAIN t \ {k})

(* The table t with every entry of u put into it.                           *)
Overlay(t, u) ==
    [x \in DOMAIN t \cup DOMAIN u |-> IF x \in DOMAIN u THEN u[x] ELSE t[x]]

(* A set of pairs without the pairs of key k: put and                       *)
(* delete_one_duplicate both start from it on a table without DUP_SORT,     *)
(* where delete_one_duplicate ignores the value it is given.                *)
WithoutKey(s, k) == {e \in s : e[1] # k}

HasKey(s, k) == \E e \in s : e[1] = k
=============================================================================
