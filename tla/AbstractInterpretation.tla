----------------------- MODULE AbstractInterpretation ------------------------
(***************************************************************************)
(* The abstract interpretation (abstract-interpretation/processor.ts and   *)
(* handler/): the visitor of the control flow graph comes to one vertex    *)
(* after the other, and its callback keeps a stack of the binary           *)
(* operations entered and the domains of nodes found so far. A guard that  *)
(* fails throws: nothing happens any more.                                 *)
(***************************************************************************)
EXTENDS Visitor, Domain

VARIABLES ast,      \* the decorated AST
          reads,    \* the "reads" edges of the dataflow graph, and its vertices
          stack,    \* operationStack, the top first: what each operation was handed by next
          nodeMap,  \* the domains of nodes, by their id
          thrown    \* whether a guard failed

vars == <<ast, cfg, reads, visited, pending, stack, nodeMap, thrown>>
input == <<ast, reads>>
found == <<stack, nodeMap, thrown>>

\* The value of a number, of those that programs here are written with.
Numbers == "1" :> 1 @@ "2" :> 2 @@ "5" :> 5

AINode(id, domain) == [id |-> id, domain |-> domain]
Operation(id) == [id |-> id, given |-> <<>>]

Throw == thrown' = TRUE /\ UNCHANGED <<walk, stack, nodeMap>>

-----------------------------------------------------------------------------
(* Domains of uses and operations                                          *)

\* A variant: only one of the definitions that are read counts.
DomainOfOneDefinition(id) ==
    LET ids == {e[2] : e \in {f \in reads.edges : f[1] = id}}
    IN  IF ids = {} THEN Bottom ELSE nodeMap[CHOOSE d \in ids : \A e \in ids : d >= e]

HasDomainOfDfgChild(id) ==
    /\ id \in reads.vertices
    /\ \A e \in reads.edges : e[1] = id => e[2] \in DOMAIN nodeMap

GetDomainOfDfgChild(id) ==
    UnifyDomains({nodeMap[e[2]] : e \in {f \in reads.edges : f[1] = id}})

\* The operators that do not throw: assignments and two of arithmetic.
Implemented == {"<-", "<<-", "=", ":=", "->", "->>", "+", "-"}

\* A variant: what an operation comes to is kept under the id of its right side.
ResultOfTheRight(operation) ==
    LET lhs == operation.given[1]
        rhs == operation.given[2]
    IN  AINode(rhs.id, rhs.domain)

\* operators[flavor](lhs, rhs): what comes of it is kept under the id of the left side.
Result(operation) ==
    LET lhs == operation.given[1]
        rhs == operation.given[2]
        operator == ast[operation.id].n
    IN  CASE operator = "+" -> AINode(lhs.id, AddDomains(lhs.domain, rhs.domain))
          [] operator = "-" -> AINode(lhs.id, SubtractDomains(lhs.domain, rhs.domain))
          [] operator \in Implemented \ {"+", "-"} -> AINode(lhs.id, rhs.domain)

\* BinOp.next on the top of a stack, if there is one: a third operand is one too many.
Hand(operations, node) ==
    IF operations = <<>> THEN <<>>
    ELSE <<[operations[1] EXCEPT !.given = Append(@, node)]>> \o Tail(operations)
TooMany(operations) == operations # <<>> /\ Len(operations[1].given) = 2

-----------------------------------------------------------------------------
(* The callback, by the type of what is visited                            *)

\* The vertices of nodes themselves, by the type of the node.
IsOf(v, type) == v[2] = "" /\ ast[v[1]].t = type
IsEndMarker(v) == v[2] = "exit" \/ IsOf(v, "UnaryOp")

EnterBinaryOp(v) ==
    /\ IsOf(v, "BinaryOp")
    /\ VisitSingle(v)
    /\ stack' = <<Operation(v[1])>> \o stack
    /\ UNCHANGED <<input, nodeMap, thrown>>

\* With no operation under way a use is not looked up at all.
MeetSymbol(v) ==
    /\ IsOf(v, "Symbol")
    /\ IF stack # <<>> /\ (~HasDomainOfDfgChild(v[1]) \/ TooMany(stack)) THEN Throw
       ELSE /\ VisitSingle(v)
            /\ stack' = IF stack = <<>> THEN <<>> ELSE Hand(stack, AINode(v[1], GetDomainOfDfgChild(v[1])))
            /\ UNCHANGED <<nodeMap, thrown>>
    /\ UNCHANGED input

MeetNumber(v) ==
    /\ IsOf(v, "Number")
    /\ IF TooMany(stack) THEN Throw
       ELSE /\ VisitSingle(v)
            /\ stack' = Hand(stack, AINode(v[1], FromScalar(Numbers[ast[v[1]].n])))
            /\ UNCHANGED <<nodeMap, thrown>>
    /\ UNCHANGED input

\* Every end marker ends the operation on the top, whatever it is the end of.
ExitOperation(v) ==
    /\ IsEndMarker(v) /\ stack # <<>>
    /\ LET operation == stack[1]
           below == Tail(stack)
           fits == Len(operation.given) = 2 /\ ast[operation.id].n \in Implemented
           new == fits /\ Result(operation).id \notin DOMAIN nodeMap
       IN  IF ~new \/ TooMany(below) THEN Throw
           ELSE LET result == Result(operation)
                IN  /\ VisitSingle(v)
                    /\ nodeMap' = (result.id :> result.domain) @@ nodeMap
                    /\ stack' = Hand(below, result)
                    /\ UNCHANGED thrown
    /\ UNCHANGED input

\* An end with nothing to end, and what the callback only warns about.
Ignore(v) ==
    /\ \/ IsEndMarker(v) /\ stack = <<>>
       \/ ~IsEndMarker(v) /\ \A type \in {"BinaryOp", "Symbol", "Number"} : ~IsOf(v, type)
    /\ VisitSingle(v)
    /\ UNCHANGED <<input, stack, nodeMap, thrown>>

-----------------------------------------------------------------------------
InitInterpretation ==
    /\ InitVisitor
    /\ reads = [vertices |-> {}, edges |-> {}]
    /\ stack = <<>>
    /\ nodeMap = <<>>
    /\ thrown = FALSE

Analyze(information, edges) ==
    /\ VisitCfg(information)
    /\ reads' = edges
    /\ UNCHANGED <<ast, found>>

RunAbstractInterpretation ==
    /\ ~thrown
    /\ \/ (TurnAway \/ Leave) /\ UNCHANGED <<input, found>>
       \/ \E v \in Tried :
            /\ ~MustWait(v)
            /\ EnterBinaryOp(v) \/ MeetSymbol(v) \/ MeetNumber(v) \/ ExitOperation(v) \/ Ignore(v)
=============================================================================
