-------------------------- MODULE MCSchemaMigration --------------------------
(* Small instances of SchemaMigration for TLC. *)
EXTENDS SchemaMigration

T(l, v) == [label |-> l, from |-> v]

\* Two node labels and an edge label; items 1 to 3 are nodes, 4 and 5 edges.
ThreeLabels == {"User", "Post", "Follows"}
Kinds       == [i \in Items |-> CASE i \in {1, 3} -> "User" [] i = 2 -> "Post" [] OTHER -> "Follows"]

\* No migration yet, a first step for two labels, then a second step and a gap.
Growing   == << {}, {T("User", 1), T("Follows", 1)},
                {T("User", 1), T("User", 3), T("Follows", 1)},
                {T("User", 1), T("User", 2), T("Follows", 1)} >>
=============================================================================
