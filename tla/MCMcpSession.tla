---------------------------- MODULE MCMcpSession ----------------------------
(* A small instance of McpSession for TLC. *)
EXTENDS McpSession

CONSTANTS c1, w1, w2

Node(label, f) == [label |-> label, f |-> f]
Edge(label, from, to) == [label |-> label, from |-> from, to |-> to]
NoVectors == [i \in {} |-> [label |-> "Emb"]]

(* User 1 follows 2 and 3; the writer drops user 2, or puts it back.  The    *)
(* four users of the one graph are too many for next, three are not.         *)
Before ==
    [nodes |-> [i \in 1 .. 4 |-> Node("User", IF i = 2 THEN None ELSE 3 - i)],
     edges |-> [i \in {11, 12} |-> Edge("Follows", 1, i - 9)],
     vectors |-> NoVectors]

After == WithoutNode(Before, 2)

TwoGraphs == {Before, After}

Follows(op) == Tool(op, "Follows", "node", None, 0)
Users == Tool("NFromType", "User", "node", None, 0)
Search == Tool("SearchKeyword", "User", "node", None, 0)
HasFollower == Filter(None, Follows("InStep"))
Valued == Filter({0, 2}, None)

AllTools ==
    {Users, Search, Follows("OutStep"), Follows("OutEStep"),
     Follows("InEStep"),
     Tool("InStep", "Follows", "node", Valued, 0),
     Tool("EFromType", "Follows", "node", None, 0),
     Tool("FilterItems", "User", "node", HasFollower, 0),
     Tool("OrderBy", "f", "asc", None, 0),
     Tool("OrderBy", "f", "desc", None, 0),
     Tool("Limit", "User", "node", None, 1)}

(* Chains that begin anywhere else yield nothing, or fail, sooner.           *)
FromUsers ==
    \A c \in DOMAIN connections :
        LET chain == connections[c].query_chain
        IN  Len(chain) > 1 => Head(chain) = Users

SameRole == Permutations({w1, w2})
=============================================================================
