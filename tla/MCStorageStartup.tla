--------------------------- MODULE MCStorageStartup ---------------------------
(* Small instances of StorageStartup for TLC. *)
EXTENDS StorageStartup

AnyVectors  == SUBSET (Vectors \X (0..MaxLevel))
\* An edge in each direction, each on a level of its own.
FewEdges    == SUBSET {<<1, 0, 2>>, <<2, MaxLevel, 1>>}

M(tag, endian) == [tag |-> tag, endian |-> endian]
CurrentMeta == {M("vectors", "little"), M("schema", "little")}
AnyMeta     == {M("none", "big"), M("vectors", "big"), M("schema", "big")} \union CurrentMeta
=============================================================================
