-------------------------------- MODULE Ast ---------------------------------
(***************************************************************************)
(* The normalized AST (r-bridge/lang-4.x/ast/model) and its decoration     *)
(* with ids, parents, roles and indices (model/processing/decorate.ts).    *)
(*                                                                         *)
(* A node has a type t, a text n (name of a symbol, operator, flavor of a  *)
(* call; "" where the code keeps none) and its children k in the order     *)
(* folds and visitors meet them. A child that may be missing is None.      *)
(*                                                                         *)
(* The decorated AST is the idMap: a sequence of entries. Ids count from 0 *)
(* in the code and from 1 here, so that an id is a place in the sequence.  *)
(***************************************************************************)
EXTENDS Integers, SequencesExt

\* A function as it is, which TLC evaluates here and not wherever it is applied.
Table(f) == f @@ <<>>

Node(t, n, k) == [t |-> t, n |-> n, k |-> k]
None == Node("undefined", "", <<>>)

\* The types of nodes that have no children.
Leaves == {"Symbol", "Logical", "Number", "String", "Comment", "LineDirective", "Break", "Next"}

Assignments == {"<-", "<<-", "=", ":=", "->", "->>"}

NoId == 0
NoIndex == -1
NoRole == ""

-----------------------------------------------------------------------------
(* What a fold of decorate.ts writes into the infos of a node's children:  *)
(* a role and an index for each child. NoRole and NoIndex: it writes none. *)

Link(role, index) == [role |-> role, index |-> index]

FoldForBinaryOp ==
    <<Link("binop-lhs", NoIndex), Link("binop-rhs", 1)>>

FoldForPipe ==
    <<Link("pipe-lhs", NoIndex), Link("pipe-rhs", 1)>>

FoldForUnaryOp == <<Link("unary-operand", NoIndex)>>

FoldForAccess(k) ==
    [i \in DOMAIN k |-> IF i = 1 THEN Link("accessed", NoIndex) ELSE Link("index-access", i - 1)]

FoldForForLoop ==
    <<Link("for-variable", NoIndex), Link("for-vector", 1), Link("for-body", 2)>>

FoldForRepeatLoop == <<Link("repeat-body", NoIndex)>>

FoldForWhileLoop == <<Link("while-cond", NoIndex), Link("while-body", 1)>>

FoldForIfThenElse ==
    <<Link("if-cond", NoIndex), Link("if-then", 1), Link("if-otherwise", 2)>>

FoldForExprList(k) == [i \in DOMAIN k |-> Link("expr-list-child", i - 1)]

FoldForFunctionCall(k) ==
    [i \in DOMAIN k |-> IF i = 1 THEN Link("call-name", NoIndex) ELSE Link(NoRole, i - 1)]

FoldForFunctionDefinition(k) ==
    [i \in DOMAIN k |-> Link(IF i = Len(k) THEN "function-def-body" ELSE "function-def-param", i - 1)]

FoldForParameter == <<Link("param-name", NoIndex), Link("param-value", 1)>>

FoldForArgument(k) ==
    <<Link("arg-name", NoIndex), Link("arg-value", IF k[1] = None THEN 0 ELSE 1)>>

Links(node) ==
    CASE node.t = "BinaryOp"           -> FoldForBinaryOp
      [] node.t = "Pipe"               -> FoldForPipe
      [] node.t = "UnaryOp"            -> FoldForUnaryOp
      [] node.t = "Access"             -> FoldForAccess(node.k)
      [] node.t = "ForLoop"            -> FoldForForLoop
      [] node.t = "RepeatLoop"         -> FoldForRepeatLoop
      [] node.t = "WhileLoop"          -> FoldForWhileLoop
      [] node.t = "IfThenElse"         -> FoldForIfThenElse
      [] node.t = "ExpressionList"     -> FoldForExprList(node.k)
      [] node.t = "FunctionCall"       -> FoldForFunctionCall(node.k)
      [] node.t = "FunctionDefinition" -> FoldForFunctionDefinition(node.k)
      [] node.t = "Parameter"          -> FoldForParameter
      [] node.t = "Argument"           -> FoldForArgument(node.k)
      [] OTHER                         -> <<>>

-----------------------------------------------------------------------------
(* Folding: children first, from left to right, then the node.             *)

\* The entry of a node when its own fold has run: only leaves start with a role and an index.
Entry(node, ids) ==
    [t |-> node.t, n |-> node.n, k |-> ids, parent |-> NoId,
     role |-> IF node.t \in Leaves THEN "root" ELSE NoRole,
     index |-> IF node.t \in Leaves THEN 0 ELSE NoIndex]

\* A variant: a child that has no role is not linked.
RelinkOfRoles(entry, parent, link) ==
    [entry EXCEPT !.parent = IF link.role = NoRole THEN @ ELSE parent,
                  !.role   = IF link.role = NoRole THEN @ ELSE link.role,
                  !.index  = IF link.index = NoIndex THEN @ ELSE link.index]

Relink(entry, parent, link) ==
    [entry EXCEPT !.parent = parent,
                  !.role   = IF link.role = NoRole THEN @ ELSE link.role,
                  !.index  = IF link.index = NoIndex THEN @ ELSE link.index]

RECURSIVE Size(_)
Size(node) == IF node = None THEN 0 ELSE 1 + FoldLeft(LAMBDA n, c : n + Size(c), 0, node.k)

\* The entries of a node and of all below it, when so many nodes have their ids already. The
\* entry of a child is the last one of its own.
RECURSIVE FoldAst(_, _)
FoldAst(node, before) ==
    LET links == Links(node)
        until == Table([i \in DOMAIN node.k |-> before + FoldLeft(LAMBDA n, c : n + Size(c), 0, SubSeq(node.k, 1, i))])
        id == before + Size(node)
        Linked(i) == LET entries == FoldAst(node.k[i], until[i] - Size(node.k[i]))
                     IN  Append(Front(entries), Relink(Last(entries), id, links[i]))
        below == Table([i \in DOMAIN node.k |-> IF node.k[i] = None THEN <<>> ELSE Linked(i)])
        ids == Table([i \in DOMAIN node.k |-> IF node.k[i] = None THEN NoId ELSE until[i]])
    IN  Append(FlattenSeq(below), Entry(node, ids))

\* The entry of the root comes last.
WithRoot(entries) == [entries EXCEPT ![Len(entries)].role = "root", ![Len(entries)].index = 0]
DecorateAst(ast) == WithRoot(FoldAst(ast, 0))

Root(ast) == Len(ast)

\* The children that are there.
Children(ast, id) == {ast[id].k[i] : i \in DOMAIN ast[id].k} \ {NoId}

\* visitAst and collectAllIds: a node with all nodes below it, but for those below (and
\* with) a node of the set stop.
RECURSIVE CollectAllIds(_, _, _)
CollectAllIds(ast, id, stop) ==
    IF id \in stop THEN {}
    ELSE {id} \cup UNION {CollectAllIds(ast, c, stop) : c \in Children(ast, id)}

\* rolesOfParents: the role of a node and of all nodes around it.
RECURSIVE RolesOfParents(_, _)
RolesOfParents(ast, id) ==
    IF id = NoId THEN <<>>
    ELSE <<ast[id].role>> \o RolesOfParents(ast, ast[id].parent)
=============================================================================
