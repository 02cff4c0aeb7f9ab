---------------------------- MODULE ControlFlow -----------------------------
(***************************************************************************)
(* The control flow graph of a decorated AST (util/cfg/cfg.ts): the fold   *)
(* over the AST, and the comparison of graphs.                             *)
(***************************************************************************)
EXTENDS Ast, ControlFlowGraph

RECURSIVE Cfg(_, _)
Cfg(ast, id) ==
    LET type == ast[id].t
        kids == ast[id].k
        part == Table([i \in DOMAIN kids |-> IF kids[i] = NoId THEN Undefined ELSE Cfg(ast, kids[i])])
        n == Len(kids)
    IN  CASE type \in {"Symbol", "Logical", "Number", "String"} -> CfgLeaf(id)
          [] type = "Break"                            -> CfgBreak(id)
          [] type = "Next"                             -> CfgNext(id)
          [] type \in {"Comment", "LineDirective"}     -> CfgIgnore
          [] type = "IfThenElse"                       -> CfgIfThenElse(id, part[1], part[2], part[3], kids[3] # NoId)
          [] type = "RepeatLoop"                       -> CfgRepeat(id, part[1])
          [] type = "WhileLoop"                        -> CfgWhile(id, part[1], part[2])
          [] type = "ForLoop"                          -> CfgFor(id, part[1], part[2], part[3])
          [] type = "FunctionDefinition"               -> CfgFunctionDefinition(id, SubSeq(part, 1, n - 1), part[n])
          [] type = "FunctionCall"                     -> CfgFunctionCall(id, part[1], Tail(part))
          [] type \in {"Argument", "Parameter"}        -> CfgArgumentOrParameter(id, part[1], part[2], kids[2] # NoId)
          [] type \in {"BinaryOp", "Pipe"}             -> CfgBinaryOp(id, part[1], part[2])
          [] type = "Access"                           -> CfgAccess(id, part[1], Tail(part))
          [] type = "UnaryOp"                          -> CfgUnaryOp(id, part[1])
          [] type = "ExpressionList"                   -> CfgExprList(part)

ExtractCFG(ast) == Cfg(ast, Root(ast))

\* equalCfg, where "FD" is the only label but for "CD", whatever its when. A vertex differs
\* from another one if both have children and these are the same.
EqualCfg(a, b) ==
    LET Below(graph, v) == {c \in graph.children : c[1] = v}
        Labelled(graph) == {[e EXCEPT !.label = @ = "FD"] : e \in graph.edges}
    IN  /\ a.roots = b.roots
        /\ a.vertices = b.vertices
        /\ \A v \in a.vertices : Below(a, v) = {} \/ Below(a, v) # Below(b, v)
        /\ Labelled(a) = Labelled(b)
=============================================================================
