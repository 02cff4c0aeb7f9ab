----------------------------- MODULE MCDataflow ------------------------------
(***************************************************************************)
(* The dataflow graph against R (external): a program is parsed,           *)
(* normalized and analyzed, and R evaluates it, taking every branch and    *)
(* any number of rounds of a loop. What R's evaluation needs, the graph    *)
(* must have: an edge from a use to the definition it gets its value from, *)
(* from a call to the function it calls and to the node whose value it     *)
(* returns, and from an argument to the parameter it is bound to.          *)
(*                                                                         *)
(* Arguments and default values are promises, evaluated when they are      *)
(* first used, where they were written. A function that is not defined in  *)
(* the program is one of R's: it uses its arguments in order.              *)
(***************************************************************************)
EXTENDS Dataflow, RSyntax

CONSTANTS
    More,        \* constructs the graph is known to be wrong about that are to be tried
    MaxFrames    \* how many environments R may make

VARIABLES ast,     \* the decorated AST
          known,   \* what the analysis knows of the program so far
          graph,   \* the graph it comes to: its edges, and which vertices it has
          frames,  \* R's environments, the global one first: where they are in, and what they bind
          todo,    \* what R has to evaluate, first things first
          val,     \* the value it has come to
          step     \* what its last step needs: reads and edges

vars == <<ast, known, graph, frames, todo, val, step>>

NoNeed == [reads |-> {}, edges |-> {}]
Reads(use, defs) == {[use |-> use, def |-> d] : d \in defs}
NoList == StartOfList([at |-> At(<<>>, <<>>)])
NoGraph == [edges |-> <<>>, vertices |-> {}]
Global == 1

-----------------------------------------------------------------------------
(* Values, bindings and environments                                       *)

Plain == [fn |-> NoId, frame |-> 0]
Closure(fn, frame) == [fn |-> fn, frame |-> frame]

Nothing == [id |-> NoId, frame |-> 0]
Promise(id, frame) == [id |-> id, frame |-> frame]

\* A binding: the nodes its value stems from, the value, and the promise of one.
Binding(defs, v, promise) == [defs |-> defs, val |-> v, promise |-> promise]

Frame(parent, vars0) == [parent |-> parent, vars |-> vars0]

\* The environment that binds a name, seen from one; 0 if there is none.
RECURSIVE Where(_, _)
Where(name, frame) ==
    CASE frame = 0 -> 0
      [] frame # 0 /\ name \in DOMAIN frames[frame].vars -> frame
      [] OTHER -> Where(name, frames[frame].parent)

Bound(name, frame) == frames[Where(name, frame)].vars[name]
Bind(name, frame, binding) == [frames EXCEPT ![frame].vars = (name :> binding) @@ @]

-----------------------------------------------------------------------------
(* What R has to do                                                        *)

\* An item: what to do with a node in an environment; a name or a function with it.
Item(do, id, frame) == [do |-> do, id |-> id, frame |-> frame, name |-> "", fn |-> NoId]
Eval(id, frame) == IF id = NoId THEN <<>> ELSE <<Item("evaluate", id, frame)>>
Each(do, ids) == [i \in DOMAIN ids |-> Item(do, ids[i], Global)]
EvalAll(ids, frame) == FlattenSeq([i \in DOMAIN ids |-> Eval(ids[i], frame)])
Force(promise, name, frame) ==
    IF promise = Nothing THEN <<>>
    ELSE Eval(promise.id, promise.frame) \o <<[Item("forced", promise.id, frame) EXCEPT !.name = name]>>

Loops == {"ForLoop", "WhileLoop", "RepeatLoop"}
Stops == {"&&", "||"}

\* Arguments without their names.
Value(arg) == IF arg # NoId /\ ast[arg].t = "Argument" THEN ast[arg].k[2] ELSE arg
Values(args) == [i \in DOMAIN args |-> Value(args[i])]
NameOf(part) == IF ast[part].t \in {"Argument", "Parameter"} /\ ast[part].k[1] # NoId
                THEN ast[ast[part].k[1]].n ELSE ""

\* What is assigned to: a name, or parts of what has a name.
Target(id) == IF ast[id].n \in {"->", "->>"} THEN ast[id].k[2] ELSE ast[id].k[1]
IndicesOf(id, frame) ==
    IF ast[id].t = "Access" /\ ast[id].n # "$" THEN EvalAll(Values(Tail(ast[id].k)), frame) ELSE <<>>

\* What evaluating a node comes to, if that is evaluating parts of it.
Compound == {"ExpressionList", "UnaryOp", "BinaryOp", "Access", "IfThenElse"} \cup Loops
Parts(id, frame) ==
    LET type == ast[id].t
        k == ast[id].k
        And(do) == <<Item(do, id, frame)>>
    IN  CASE type = "ExpressionList" -> {EvalAll(k, frame)}
          [] type = "UnaryOp" -> {EvalAll(k, frame) \o And("done")}
          [] type = "BinaryOp" /\ ast[id].n \in Assignments ->
                {Eval(IF Target(id) = k[1] THEN k[2] ELSE k[1], frame) \o IndicesOf(Target(id), frame) \o And("assign")}
          [] type = "BinaryOp" /\ ast[id].n \notin Assignments ->
                {EvalAll(k, frame) \o And("done")}
                \cup (IF ast[id].n \in Stops THEN {Eval(k[1], frame) \o And("done")} ELSE {})
          [] type = "Access" -> {Eval(k[1], frame) \o IndicesOf(id, frame) \o And("done")}
          [] type = "IfThenElse" -> {Eval(k[1], frame) \o And("branch")}
          [] type = "WhileLoop" -> {Eval(k[1], frame) \o And("decide")}
          [] type = "ForLoop" -> {Eval(k[2], frame) \o And("decide")}
          [] type = "RepeatLoop" -> {Eval(k[1], frame) \o And("again")}

\* Another round of a loop.
Round(id, frame) ==
    (IF ast[id].t = "ForLoop" THEN <<Item("assign", id, frame)>> ELSE <<>>)
    \o Eval(Last(ast[id].k), frame) \o <<Item("again", id, frame)>>

\* The ways on.
Ways(i) ==
    LET k == ast[i.id].k
        Is(constant) == ast[k[1]].t = "Logical" /\ ast[k[1]].n = constant
        then == IF Is("FALSE") THEN {} ELSE {Eval(k[2], i.frame)}
        otherwise == IF Is("TRUE") THEN {} ELSE {Eval(k[3], i.frame)}
    IN  CASE i.do = "evaluate" -> Parts(i.id, i.frame)
          [] i.do = "done" -> {<<>>}
          [] i.do = "branch" -> then \cup otherwise
          [] i.do = "decide" -> {<<>>, Round(i.id, i.frame)}
          [] i.do = "again" /\ ast[i.id].t = "ForLoop" -> {<<>>, Round(i.id, i.frame)}
          [] i.do = "again" /\ ast[i.id].t # "ForLoop" -> {Eval(i.id, i.frame)}

-----------------------------------------------------------------------------
(* Calls                                                                   *)

\* The call that a node makes, and its arguments: in a pipe the left side is the first one.
CallOf(id) == IF ast[id].t = "Pipe" THEN ast[id].k[2] ELSE id
Args(id) == IF ast[id].t = "Pipe" THEN <<ast[id].k[1]>> \o Tail(ast[CallOf(id)].k) ELSE Tail(ast[id].k)
IsCall(id) == ast[CallOf(id)].t = "FunctionCall"
Callee(id) == ast[CallOf(id)].k[1]
IsNamed(id) == ast[CallOf(id)].n = "named"

\* R binds arguments by their names, then the others in order.
Params(fn) == SubSeq(ast[fn].k, 1, Len(ast[fn].k) - 1)
Matching(fn, args) ==
    LET byName == {b \in (ToSet(args) \ {NoId}) \X ToSet(Params(fn)) : NameOf(b[1]) = NameOf(b[2])}
        left == SelectSeq(Params(fn), LAMBDA p : \A b \in byName : b[2] # p)
        others == SelectSeq(args, LAMBDA a : a = NoId \/ NameOf(a) = "")
    IN  byName \cup {<<others[i], left[i]>> : i \in {j \in DOMAIN others \cap DOMAIN left : others[j] # NoId}}

\* What the environment of a call binds: promises of arguments, and of default values in it.
Variables(fn, matching, frame) ==
    LET ArgOf(p) == {b[1] : b \in {c \in matching : c[2] = p}}
        Given(p) == IF ArgOf(p) = {} THEN Promise(ast[p].k[2], Len(frames) + 1)
                    ELSE Promise(Value(CHOOSE a \in ArgOf(p) : TRUE), frame)
        Param(name) == CHOOSE p \in ToSet(Params(fn)) : NameOf(p) = name
    IN  [name \in {NameOf(p) : p \in ToSet(Params(fn))} |->
            Binding({ast[Param(name)].k[1]}, Plain,
                    IF Given(Param(name)).id = NoId THEN Nothing ELSE Given(Param(name)))]

\* What a call that is not left yet has to return, if this is the last node it comes to.
ItsCall(items) == items[Min({i \in DOMAIN items : items[i].do = "leave"})]
InCall(items) == \E i \in DOMAIN items : items[i].do = "leave"
Passing == {"ExpressionList", "IfThenElse", "Comment", "Break", "Next"} \cup Loops
IsReturn(id) == ast[id].t = "FunctionCall" /\ IsNamed(id) /\ ast[Callee(id)].n = "return"
Returned(id, after) ==
    IF /\ ast[id].t \notin Passing /\ InCall(after)
       /\ Head(after).do = "leave" \/ IsReturn(id)
    THEN {<<ItsCall(after).id, "returns", id>>} ELSE {}

-----------------------------------------------------------------------------
(* Programs                                                                *)

x == Sym("x")
y == Sym("y")
u == Sym("u")
One == Num("1")
Increment == Assign("x", Plus(x, One))

Where1(construct, programs) == IF construct \in More THEN programs ELSE {}

\* What may be done to x, and with it. The second ones may or may not define it.
Certain1 == {Assign("x", One), Increment, Assign("y", x), Binary("RIGHT_ASSIGN", "->", y, x), Call("h", <<<<x>>>>),
             Binary("PIPE", "|>", x, Call("h", <<>>)), Assign("y", Dollar(x, "a"))}
Unsure == {Binary("AND2", "&&", u, Block(<<Assign("x", One)>>)),
           Binary("LEFT_ASSIGN", "<-", Index(x, <<<<y>>>>), One)}
Simple == Certain1 \cup Unsure \cup Where1("assigned twice", {Assign("y", Assign("x", One))})

Around(a) ==
    {If(u, a), IfElse(u, a, Assign("x", One)), IfElse(Num("FALSE"), Assign("x", One), a),
     While(u, a), While(x, Block(<<a, y>>)), For("i", x, a), For("x", u, Block(<<a, y, x>>)),
     Repeat(Block(<<a, If(u, BreakWord)>>)), While(u, Block(<<x, If(u, NextWord), a>>)), Block(<<a, x>>)}
    \cup Where1("unread loop variable", {For("x", u, a)})

Nested == UNION {Around(If(u, a)) \cup Around(While(u, a)) : a \in {Increment, Assign("y", x)}}

\* Functions that do something, and calls of them.
FunctionsOf(a) ==
    {<<Assign("f", Function(<<>>, a)), Call("f", <<>>)>>,
     <<Assign("f", Function(<<Formal("a")>>, Block(<<a, Sym("a")>>))), Call("f", <<<<x>>>>)>>,
     <<Assign("f", Function(<<Formal("x")>>, Block(<<a, Call("return", <<<<Function(<<>>, x)>>>>)>>))),
       Assign("g", Call("f", <<<<y>>>>)), Call("g", <<>>)>>,
     <<Assign("f", Function(<<>>, Block(<<If(u, Call("return", <<<<y>>>>)), a>>))), Assign("y", Call("f", <<>>))>>,
     <<Applied(Paren(Function(<<Formal("a")>>, Block(<<Sym("a"), a>>))), <<<<x>>>>)>>}
    \cup Where1("closure at the end",
                {<<Assign("f", Function(<<Formal("x")>>, Block(<<a, Function(<<>>, x)>>))),
                   Assign("g", Call("f", <<<<y>>>>)), Call("g", <<>>)>>})

\* Functions with a default value that reads x.
Defaults(a) ==
    {<<Assign("f", Function(<<Formal("a"), Default("b", x)>>, Block(<<Sym("a"), a, Sym("b")>>))),
       Call("f", <<Named("b", y), <<x>>>>), Call("f", <<<<One>>>>)>>}

\* Functions that change what is around them, that call functions, and that call themselves.
Effects ==
    {<<Assign("f", Function(<<>>, SuperAssign("x", One))), Call("f", <<>>)>>,
     <<Assign("f", Function(<<>>, If(u, SuperAssign("x", One)))), Call("f", <<>>)>>,
     <<Assign("f", Function(<<>>, SuperAssign("x", Plus(x, One)))), Call("f", <<>>), Call("f", <<>>)>>,
     <<Assign("f", Function(<<>>, If(u, Call("f", <<>>)))), Call("f", <<>>)>>,
     <<Assign("f", Function(<<>>, x)), Assign("g", Function(<<>>, Call("f", <<>>))), Call("g", <<>>)>>,
     <<Assign("g", Function(<<>>, Block(<<Assign("f", Function(<<>>, y)), Assign("y", x), Call("f", <<>>)>>))), Call("g", <<>>)>>}
    \cup Where1("effect in a loop",
                {<<Assign("f", Function(<<>>, SuperAssign("x", Plus(x, One)))), While(u, Call("f", <<>>))>>})
    \cup Where1("effect and local",
                {<<Assign("f", Function(<<>>, Block(<<Assign("x", One), SuperAssign("x", y)>>))), Call("f", <<>>)>>})
    \cup Where1("function as argument",
                {<<Assign("f", Function(<<Formal("a")>>, Call("a", <<>>))), Call("f", <<<<Function(<<>>, x)>>>>)>>})

\* Programs, and what is in the file they may source.
Own(a) == [main |-> <<Assign("x", One)>> \o a \o <<x>>, file |-> <<>>]
Sourced(a) == [main |-> <<Assign("x", One), Call("source", <<<<Str("file")>>>>), x, y>>, file |-> <<a>>]

Programs ==
    {Own(<<a>>) : a \in Simple \cup UNION {Around(b) : b \in Simple} \cup Nested}
    \cup {Own(a) : a \in UNION {FunctionsOf(b) : b \in Certain1}
                         \cup UNION {Defaults(b) : b \in Certain1 \cup Where1("unsure default", Unsure)}
                         \cup UNION {FunctionsOf(If(u, b)) \cup FunctionsOf(While(u, b)) : b \in {Increment, Assign("y", x)}}
                         \cup Effects}
    \cup {Own(a) : a \in UNION {FunctionsOf(Block(<<b, x>>)) :
                                  b \in {Increment, If(u, Increment)} \cup Where1("unsure in a function", Unsure)}}
    \cup {Sourced(a) : a \in Simple}

-----------------------------------------------------------------------------
\* The AST of a program and that of the file are the children of a root.
Main == ast[Root(ast)].k[1]
File == ast[Root(ast)].k[2]
Start == InitialData(ast, "file" :> File)

Init ==
    /\ \E p \in Programs :
         ast = DecorateAst(Node("ExpressionList", "", <<ParseRootObjToAst(Program(p.main)), ParseRootObjToAst(Program(p.file))>>))
    /\ known = StartOfList(Start)
    /\ graph = NoGraph
    /\ frames = <<Frame(0, <<>>)>>
    /\ todo = Each("analyze", ast[Main].k) \o <<Item("run", Main, Global)>>
    /\ val = Plain
    /\ step = NoNeed

Doing(do) == todo # <<>> /\ Head(todo).do = do
Evaluating(types) == Doing("evaluate") /\ ast[Head(todo).id].t \in types
item == Head(todo)
rest == Tail(todo)

\* The program is an expression list, which is analyzed one expression after the other.
Analyze ==
    /\ Doing("analyze")
    /\ known' = ProcessExpression(Start, known, item.id)
    /\ todo' = rest
    /\ UNCHANGED <<ast, graph, frames, val, step>>

Run ==
    /\ Doing("run")
    /\ LET result == OfList(known).graph
       IN  graph' = [edges |-> result.edges, vertices |-> DOMAIN result.vertices]
    /\ known' = NoList
    /\ todo' = Eval(item.id, item.frame)
    /\ UNCHANGED <<ast, frames, val, step>>

EvaluateConstant ==
    /\ Evaluating({"Number", "String", "Logical", "Comment", "FunctionDefinition"})
    /\ val' = IF ast[item.id].t = "FunctionDefinition" THEN Closure(item.id, item.frame) ELSE Plain
    /\ todo' = rest
    /\ step' = [NoNeed EXCEPT !.edges = Returned(item.id, rest)]
    /\ UNCHANGED <<ast, known, graph, frames>>

EvaluateSymbol ==
    /\ Evaluating({"Symbol"})
    /\ LET name == ast[item.id].n
           where == Where(name, item.frame)
       IN  /\ step' = [reads |-> IF where = 0 THEN {} ELSE Reads(item.id, Bound(name, where).defs),
                       edges |-> Returned(item.id, rest)]
           /\ val' = IF where = 0 THEN Plain ELSE Bound(name, where).val
           /\ todo' = (IF where = 0 THEN <<>> ELSE Force(Bound(name, where).promise, name, where)) \o rest
    /\ UNCHANGED <<ast, known, graph, frames>>

\* A promise is kept.
Forced ==
    /\ Doing("forced")
    /\ frames' = Bind(item.name, item.frame,
                      [Bound(item.name, item.frame) EXCEPT !.val = val, !.promise = Nothing])
    /\ todo' = rest
    /\ step' = NoNeed
    /\ UNCHANGED <<ast, known, graph, val>>

EvaluateParts ==
    /\ \/ Evaluating(Compound) \/ Doing("branch") \/ Doing("decide") \/ Doing("again") \/ Doing("done")
    /\ \E way \in Ways(item) : todo' = way \o rest
    /\ val' = Plain
    /\ step' = IF item.do = "evaluate" THEN [NoNeed EXCEPT !.edges = Returned(item.id, rest)] ELSE NoNeed
    /\ UNCHANGED <<ast, known, graph, frames>>

\* What is assigned to in part may still be what it was.
AssignValue ==
    /\ Doing("assign")
    /\ LET target == Target(item.id)
           symbol == IF ast[target].t = "Access" THEN ast[target].k[1] ELSE target
           name == ast[symbol].n
           seen == Where(name, item.frame)
           outer == Where(name, frames[item.frame].parent)
           old == IF symbol = target \/ seen = 0 THEN {} ELSE Bound(name, seen).defs
           where == CASE ast[item.id].n \notin {"<<-", "->>"} -> item.frame
                      [] ast[item.id].n \in {"<<-", "->>"} /\ outer # 0 -> outer
                      [] OTHER -> Global
       IN  frames' = IF ast[symbol].t # "Symbol" THEN frames
                     ELSE Bind(name, where, Binding({symbol} \cup old, val, Nothing))
    /\ todo' = rest
    /\ step' = NoNeed
    /\ UNCHANGED <<ast, known, graph, val>>

\* break and next leave what is left of a round.
Jump ==
    /\ Evaluating({"Break", "Next"})
    /\ LET again == Min({i \in DOMAIN rest : rest[i].do = "again"})
       IN  todo' = SubSeq(rest, IF ast[item.id].t = "Next" THEN again ELSE again + 1, Len(rest))
    /\ step' = NoNeed
    /\ UNCHANGED <<ast, known, graph, frames, val>>

\* A call of a function that has a name or is computed; one of R's uses its arguments.
EvaluateCall ==
    /\ todo # <<>> /\ item.do = "evaluate" /\ IsCall(item.id)
    /\ LET id == CallOf(item.id)
           callee == Callee(item.id)
           name == ast[callee].n
           where == IF IsNamed(id) THEN Where(name, item.frame) ELSE 0
           arguments == EvalAll(Values(Args(item.id)), item.frame)
           apply == <<Item("apply", item.id, item.frame)>>
       IN  /\ todo' = (CASE ~ IsNamed(id) -> Eval(callee, item.frame) \o apply
                         [] IsNamed(id) /\ where # 0 -> Force(Bound(name, where).promise, name, where) \o apply
                         [] IsReturn(id) /\ where = 0 -> arguments \o <<Item("return", id, item.frame)>>
                         [] IsNamed(id) /\ where = 0 /\ name = "source" -> Eval(File, Global)
                         [] OTHER -> arguments \o <<Item("done", id, item.frame)>>) \o rest
           /\ val' = IF where = 0 THEN Plain ELSE Bound(name, where).val
           /\ step' = [reads |-> IF where = 0 THEN {} ELSE Reads(id, Bound(name, where).defs),
                       edges |-> Returned(item.id, rest)]
    /\ UNCHANGED <<ast, known, graph, frames>>

\* The body is evaluated in an environment of its own.
Apply ==
    /\ Doing("apply") /\ val.fn # NoId /\ Len(frames) < MaxFrames
    /\ LET call == CallOf(item.id)
           matching == Matching(val.fn, Args(item.id))
           inside == Len(frames) + 1
       IN  /\ frames' = Append(frames, Frame(val.frame, Variables(val.fn, matching, item.frame)))
           /\ todo' = Eval(Last(ast[val.fn].k), inside)
                      \o <<[Item("leave", call, inside) EXCEPT !.fn = val.fn]>> \o rest
           /\ step' = [NoNeed EXCEPT !.edges =
                         {<<call, "calls", val.fn>>} \cup {<<b[1], "defines-on-call", ast[b[2]].k[1]>> : b \in matching}]
    /\ val' = Plain
    /\ UNCHANGED <<ast, known, graph>>

\* A function is left at its end, or by return(...).
Leave ==
    /\ Doing("leave") \/ (Doing("return") /\ InCall(rest))
    /\ todo' = IF Doing("leave") THEN rest
               ELSE SubSeq(rest, 1 + Min({i \in DOMAIN rest : rest[i].do = "leave"}), Len(rest))
    /\ step' = NoNeed
    /\ UNCHANGED <<ast, known, graph, frames, val>>

Next ==
    \/ Analyze \/ Run \/ EvaluateConstant \/ EvaluateSymbol \/ Forced \/ EvaluateParts
    \/ AssignValue \/ Jump \/ EvaluateCall \/ Apply \/ Leave

Spec == Init /\ [][Next]_vars

-----------------------------------------------------------------------------
HasEdge(from, to, type) == <<from, to>> \in DOMAIN graph.edges /\ type \in graph.edges[<<from, to>>]

\* The calls of functions a node is in that are not left yet.
CallsAround(id) ==
    {todo[i].id : i \in {j \in DOMAIN todo : todo[j].do = "leave" /\ id \in CollectAllIds(ast, todo[j].fn, {})}}

\* A name that nothing in the function it is in defines: the slicer binds it call by call.
IsOpen(call) == CallsAround(call) # {} /\ \A p \in DOMAIN graph.edges : p[1] = call => "reads" \notin graph.edges[p]

\* A use reads the definition R finds for it, or one of the calls of the functions it is in does.
UsesReadTheirDefinitions ==
    \A r \in step.reads :
        \/ HasEdge(r.use, r.def, "reads")
        \/ \E c \in CallsAround(r.use) : HasEdge(c, r.def, "reads") \/ IsOpen(c)

\* A call has edges to the function it calls and to the node it returns the value of, and
\* arguments to the parameters they are bound to.
CallsAreLinked ==
    \A e \in step.edges :
        \/ HasEdge(e[1], e[3], e[2])
        \/ e[2] \in {"calls", "returns"} /\ (e[1] = e[3] \/ IsOpen(e[1]))

\* graph.ts: "all sources and targets of the edges *must* be part of the vertices".
NothingDangles ==
    \A p \in DOMAIN graph.edges : {p[1], p[2]} \subseteq graph.vertices \cup {BuiltIn}
=============================================================================
