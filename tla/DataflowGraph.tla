--------------------------- MODULE DataflowGraph ----------------------------
(***************************************************************************)
(* The dataflow graph (dataflow/graph/graph.ts, vertex.ts, edge.ts) as a   *)
(* value: vertices by id, the ids of those at the root level, at most one  *)
(* edge from a vertex to another one, with all its types, and the pairs of *)
(* vertices whose two edges are one object (twins), so that what is        *)
(* written to one of them is written to the other.                         *)
(*                                                                         *)
(* A reference is a node with a name that may be in use: [node, name,      *)
(* maybe]. An argument of a call is a name, "" if it has none, and a node. *)
(*                                                                         *)
(* Whether a vertex or an edge is a 'maybe' is left out: nothing in the    *)
(* analysis or in the slicer asks for it. References and definitions keep  *)
(* it, as it decides on which definitions of a name survive.               *)
(***************************************************************************)
EXTENDS Ast, Environments, FiniteSets

Reference(node, name, maybe) == [node |-> node, name |-> name, maybe |-> maybe]

NoNode == -1
Argument(name, node) == [name |-> name, node |-> node]
EmptyArgument == Argument("", NoNode)

\* A vertex. Calls have arguments; definitions of functions have exit points and open reads.
GraphVertex(tag, name, env) ==
    [tag |-> tag, name |-> name, env |-> env, args |-> <<>>, exitPoints |-> <<>>, in |-> <<>>]

EmptyGraph == [vertices |-> <<>>, roots |-> {}, edges |-> <<>>, twins |-> {}]

HasNode(graph, id) == id \in DOMAIN graph.vertices

\* An id that has a vertex keeps it.
AddVertex(graph, id, vertex) ==
    IF HasNode(graph, id) THEN graph
    ELSE [graph EXCEPT !.vertices = (id :> vertex) @@ @, !.roots = @ \cup {id}]

-----------------------------------------------------------------------------
Bidirectional == {"same-read-read", "same-def-def", "relates"}

\* An edge and the one back, if they are one object.
Same(graph, p) == {p} \cup (IF {p[1], p[2]} \in graph.twins THEN {<<p[2], p[1]>>} ELSE {})

\* A type is added to an edge that is there, and to its twin.
Extended(graph, from, to, type) ==
    [graph EXCEPT !.edges = Table([p \in Same(graph, <<from, to>>) |-> @[p] \cup {type}]) @@ @]

\* A new edge; the edge back that comes with some types replaces the one there is.
Inserted(graph, from, to, type) ==
    LET back == CASE type \in Bidirectional    -> <<to, from>> :> {type}
                  [] type = "defines-on-call"  -> <<to, from>> :> {"defined-by-on-call"}
                  [] OTHER                     -> <<>>
    IN  [graph EXCEPT !.edges = (<<from, to>> :> {type}) @@ back @@ @,
                      !.twins = IF type \in Bidirectional THEN @ \cup {{from, to}} ELSE @]

AddEdge(graph, from, to, type) ==
    CASE from = to                                        -> graph
      [] from # to /\ <<from, to>> \in DOMAIN graph.edges -> Extended(graph, from, to, type)
      [] OTHER                                            -> Inserted(graph, from, to, type)

AddEdges(graph, from, tos, type) ==
    FoldSet(LAMBDA to, g : AddEdge(g, from, to, type), graph, tos)

OutgoingEdges(graph, id, types) ==
    {p[2] : p \in {q \in DOMAIN graph.edges : q[1] = id /\ graph.edges[q] \cap types # {}}}

-----------------------------------------------------------------------------
\* mergeEdges: the types of edges of both graphs are put together in the first one's.
MergeEdges(graph, other) ==
    LET ours == DOMAIN graph.edges
        Both(p) == graph.edges[p] \cup UNION {other.edges[q] : q \in Same(graph, p) \cap DOMAIN other.edges}
        Kept(pair) == \A a, b \in pair : <<a, b>> \notin ours
    IN  [graph EXCEPT !.edges = [p \in ours |-> Both(p)] @@ other.edges,
                      !.twins = @ \cup {pair \in other.twins : Kept(pair)}]

\* mergeWith; without its roots for the graph of a function.
MergeNested(graph, other) ==
    MergeEdges([graph EXCEPT !.vertices = @ @@ other.vertices], other)
MergeWith(graph, other) ==
    [MergeNested(graph, other) EXCEPT !.roots = @ \cup other.roots]

\* setDefinitionOfVertex
SetDefinitionOfVertex(graph, id) ==
    [graph EXCEPT !.vertices[id].tag = IF @ = "function-definition" THEN @ ELSE "variable-definition"]

-----------------------------------------------------------------------------
\* Names of what has no name are no names: such references resolve to nothing.
Resolve(name, env) == IF name \in Names THEN resolveByName(name, env) ELSE {}

Maybes(references) == Table([i \in DOMAIN references |-> [references[i] EXCEPT !.maybe = TRUE]])

-----------------------------------------------------------------------------
(* diff.ts: two graphs are equal if no difference is found. What is in the *)
(* right one only shows in the numbers of vertices and of sources of edges *)
(* and in the numbers of edges of a source.                                *)

Sources(graph) == {p[1] : p \in DOMAIN graph.edges}
From(graph, id) == {p \in DOMAIN graph.edges : p[1] = id}

DiffVertices(left, right) ==
    /\ Cardinality(DOMAIN left.vertices) = Cardinality(DOMAIN right.vertices)
    /\ \A id \in DOMAIN left.vertices :
         HasNode(right, id) /\ [left.vertices[id] EXCEPT !.in = <<>>] = [right.vertices[id] EXCEPT !.in = <<>>]

DiffOutgoingEdges(left, right) ==
    /\ Cardinality(Sources(left)) = Cardinality(Sources(right))
    /\ \A id \in Sources(left) :
         /\ id \in Sources(right)
         /\ Cardinality(From(left, id)) = Cardinality(From(right, id))
         /\ \A p \in From(left, id) : p \in From(right, id) /\ left.edges[p] = right.edges[p]

EqualGraphs(left, right) ==
    left.roots = right.roots /\ DiffVertices(left, right) /\ DiffOutgoingEdges(left, right)
=============================================================================
