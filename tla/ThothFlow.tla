------------------------------ MODULE ThothFlow ------------------------------
(***************************************************************************)
(* crates/bg3-ide/src/thoth_flow.rs: the type of an expression of a Thoth  *)
(* file, from the facts that crates/bg3-index/src/parser.rs takes from its *)
(* syntax tree; and, as a reference, what the file does when it runs.      *)
(*                                                                         *)
(* A file has a block of statements.  What the workspace resolves for it:  *)
(* `contracts' of annotated functions, the file's own or not, `shadowed'   *)
(* names that other files declare too, `classes' and `enumerations'.  A    *)
(* place is the path to a node of the tree, numbered in source order: it   *)
(* stands for a range and for a scope.  A type is a set of atoms; the      *)
(* empty one is UnknownType, a union has several.                              *)
(***************************************************************************)
EXTENDS Naturals, FiniteSets, Sequences, SequencesExt, TLC

CONSTANTS
  None,
  Rounds,    \* of a loop
  Nesting    \* of calls

UnknownType == {}

-----------------------------------------------------------------------------
(* The syntax tree: statements hold expressions and blocks, each at the    *)
(* number of its place.                                                    *)

Node(kind, text, children) == [kind |-> kind, text |-> text, children |-> children]
Literal(value) == Node("Literal", value, <<>>)
Name(x) == Node("Identifier", x, <<>>)
Unary(operator, e) == Node("Unary", operator, <<e>>)
Binary(operator, left, right) == Node("Binary", operator, <<left, right>>)
Parenthesized(e) == Node("Parenthesized", "()", <<e>>)
FunctionCall(f, arguments) == Node("FunctionCall", f, <<Name(f)>> \o arguments)
MemberAccess(root, member) == Node("MemberAccess", member, <<root>>)

Statement(kind, expressions, blocks) ==
  [kind |-> kind, expressions |-> expressions, blocks |-> blocks, local |-> FALSE, width |-> 0,
   annotation |-> None, name |-> "none", parameters |-> <<>>]

Assign(local, targets, values) ==
  [Statement("assign", [i \in DOMAIN targets |-> Name(targets[i])] \o values, <<>>)
     EXCEPT !.local = local, !.width = Len(targets)]
Annotated(type, assign) == [assign EXCEPT !.annotation = type]
Call(e) == Statement("call", <<e>>, <<>>)
Return(values) == Statement("return", values, <<>>)
If(conditions, bodies) ==
  Statement("if", [n \in {2 * i - 1 : i \in DOMAIN conditions} |-> conditions[(n + 1) \div 2]],
            [n \in {2 * i : i \in DOMAIN bodies} |-> bodies[n \div 2]])
While(condition, body) == Statement("while", <<condition>>, 2 :> body)
Repeat(body, condition) == Statement("repeat", 2 :> condition, <<body>>)
Do(body) == Statement("do", <<>>, <<body>>)
For(targets, value, body) ==
  [Statement("for", [i \in DOMAIN targets |-> Name(targets[i])] \o <<value>>, Len(targets) + 2 :> body)
     EXCEPT !.width = Len(targets)]
Try(body, handler) == Statement("try", <<>>, <<body, handler>>)
Function(name, parameters, body) ==
  [Statement("function", <<>>, <<body>>) EXCEPT !.name = name, !.parameters = parameters]

InOrder(S) == SetToSortSeq(S, LAMBDA i, j : i < j)

-----------------------------------------------------------------------------
(* The facts of a file.                                                    *)

File == <<>>

(* Executable statements, numbered within their block.                     *)
RECURSIVE StatementsIn(_, _)
StatementsIn(block, scope) ==
  UNION {{[at |-> scope \o <<i>>, scope |-> scope, order |-> i, s |-> block[i]]} \cup
         UNION {StatementsIn(block[i].blocks[n], scope \o <<i, n>>) : n \in DOMAIN block[i].blocks} :
           i \in DOMAIN block}

(* collect_thoth_expression: the root of a member access has a fact of its *)
(* own only if it is a call or in parentheses, and so on down to it.       *)
RECURSIVE ExpressionsIn(_, _)
ExpressionsIn(e, at) ==
  {[range |-> at, kind |-> e.kind, text |-> e.text, e |-> e]} \cup
  UNION {LET below == ExpressionsIn(e.children[i], at \o <<i>>)
         IN  IF e.kind # "MemberAccess" \/ e.children[i].kind \in {"FunctionCall", "Parenthesized"}
             THEN below ELSE {f \in below : Len(f.range) > Len(at) + 1 /\ e.children[i].kind # "Identifier"} :
           i \in DOMAIN e.children}

(* An if statement's fact is pushed after those of its branches.           *)
RECURSIVE ControlIn(_, _)
ControlIn(block, scope) ==
  FlattenSeq([i \in DOMAIN block |->
    FlattenSeq([n \in DOMAIN InOrder(DOMAIN block[i].blocks) |->
      LET place == InOrder(DOMAIN block[i].blocks)[n]
      IN  ControlIn(block[i].blocks[place], scope \o <<i, place>>)])
    \o IF block[i].kind # "if" THEN <<>>
       ELSE <<[scope |-> scope, order |-> i, at |-> scope \o <<i>>,
               conditions |-> Cardinality(DOMAIN block[i].expressions),
               branches |-> [b \in 1 .. Cardinality(DOMAIN block[i].blocks) |->
                               block[i].blocks[2 * b] # <<>>]]>>])

(* A function's scope is its statement's place; a block's is its own.      *)
RECURSIVE ChainTo(_, _)
ChainTo(functions, scope) ==
  <<scope>> \o
  IF scope = File THEN <<>>
  ELSE IF scope \in functions THEN ChainTo(functions, Front(scope))
  ELSE ChainTo(functions, IF Front(scope) \in functions THEN Front(scope) ELSE Front(Front(scope)))

Facts(file, statements, functions) ==
  [file |-> file,
   control |-> ControlIn(file.block, File),
   functions |-> functions,
   scopes |-> [scope \in {File} \cup functions
                 \cup UNION {{s.at \o <<n>> : n \in DOMAIN s.s.blocks} : s \in statements} |->
                 ChainTo(functions, scope)],
   declarations |-> {s \in statements : s.s.kind = "function"},
   returns |-> {s \in statements : s.s.kind = "return"},
   loops |-> {s.at : s \in {s \in statements : s.s.kind \in {"while", "repeat", "for"}}},
   assignments |->
     {[range |-> s.at \o <<1>>, at |-> s.at, scope |-> s.scope, order |-> s.order,
       text |-> s.s.expressions[1].text, local |-> s.s.local, width |-> s.s.width,
       annotation |-> s.s.annotation, valued |-> Len(s.s.expressions) > s.s.width,
       names |-> {s.s.expressions[i].text : i \in 1 .. s.s.width}] :
        s \in {s \in statements : s.s.kind = "assign"}},
   binders |->
     {[at |-> s.at, names |-> IF s.s.kind = "for" THEN {s.s.expressions[i].text : i \in 1 .. s.s.width}
                              ELSE ToSet(s.s.parameters)] :
        s \in {s \in statements : s.s.kind \in {"for", "function"}}}
     \cup {[at |-> Front(l.scope) \o <<2>>, names |-> {l.s.expressions[1].text}] :
             l \in {l \in statements : l.s.local /\ \E r \in statements : r.s.kind = "repeat" /\ l.scope = r.at \o <<1>>}},
   expressions |->
     UNION {{[range |-> f.range, kind |-> f.kind, text |-> f.text, e |-> f.e,
              scope |-> s.scope, order |-> s.order] :
               f \in UNION {ExpressionsIn(s.s.expressions[n], s.at \o <<n>>) : n \in DOMAIN s.s.expressions}} :
            s \in statements}]

FactsOf(file, statements) ==
  Facts(file, statements, {s.at : s \in {s \in statements : s.s.kind = "function"}})
ThothFacts(file) == FactsOf(file, StatementsIn(file.block, File))

FactAt(F, range) == CHOOSE f \in F.expressions : f.range = range

-----------------------------------------------------------------------------
(* Scopes.                                                                 *)

Within(F, from, target) == \E i \in DOMAIN F.scopes[from] : F.scopes[from][i] = target
Depth(F, from, target) == CHOOSE i \in DOMAIN F.scopes[from] : F.scopes[from][i] = target

EnclosingFunction(F, scope) ==
  IF \E i \in DOMAIN F.scopes[scope] : F.scopes[scope][i] \in F.functions
  THEN F.scopes[scope][CHOOSE i \in DOMAIN F.scopes[scope] :
         /\ F.scopes[scope][i] \in F.functions
         /\ \A j \in 1 .. i - 1 : F.scopes[scope][j] \notin F.functions]
  ELSE File

Before(p, q) ==
  \E i \in DOMAIN p \cap DOMAIN q : p[i] < q[i] /\ \A j \in 1 .. i - 1 : p[j] = q[j]

(* One target, an identifier of this name.                                 *)
WritesOf(F, name) == {a \in F.assignments : a.width = 1 /\ a.text = name}

Visible(F, declaration, use) ==
  /\ Within(F, use.scope, declaration.scope)
  /\ declaration.scope # use.scope \/ declaration.order < use.order

DeclarationOf(F, function) == CHOOSE d \in F.declarations : d.at = function

HasIdentifierBinding(F, name, use) ==
  \/ /\ EnclosingFunction(F, use.scope) # File
     /\ name \in ToSet(DeclarationOf(F, EnclosingFunction(F, use.scope)).s.parameters)
  \/ \E a \in WritesOf(F, name) : Visible(F, a, use)

(* A write in a nested block that may or may not have run.                 *)
HasPriorNestedWrite(F, use, name) ==
  \E a \in WritesOf(F, name) :
    /\ ~a.local
    /\ Before(a.range, use.range)
    /\ a.scope # use.scope
    /\ EnclosingFunction(F, a.scope) = EnclosingFunction(F, use.scope)
    /\ ~Within(F, use.scope, a.scope)

-----------------------------------------------------------------------------
(* Types.                                                                  *)

Join(types) == IF UnknownType \in types THEN UnknownType ELSE UNION types
WithoutNil(type) == type \ {"nil"}

IsNumber(type) == type \in {{"integer"}, {"number"}}
IsString(type) == type = {"string"}
IsInteger(type) == type = {"integer"}
IsCondition(type) == type = {"ConditionResult"}

UnaryType(operator, type) ==
  CASE operator = "not" -> {"boolean"}
    [] operator = "#" /\ IsString(type) -> {"number"}
    [] operator = "-" /\ IsNumber(type) -> {"number"}
    [] operator = "~" /\ (IsCondition(type) \/ IsInteger(type)) -> type
    [] OTHER -> UnknownType

BinaryType(operator, left, right) ==
  CASE operator \in {"or", "and"} -> Join({left, right})
    [] operator \in {"==", "~="} -> {"boolean"}
    [] operator = "<" /\ ((IsNumber(left) /\ IsNumber(right)) \/ (IsString(left) /\ IsString(right))) ->
         {"boolean"}
    [] operator = "&" /\ left = right /\ (IsCondition(left) \/ IsInteger(left)) -> left
    [] operator = "<<" /\ IsInteger(left) /\ IsInteger(right) -> {"integer"}
    [] operator = "+" /\ IsNumber(left) /\ IsNumber(right) -> {"number"}
    [] operator = ".." /\ IsString(left) /\ IsString(right) -> {"string"}
    [] OTHER -> UnknownType

(* flow_member_type: of every member that is not nil.                      *)
FlowMemberType(F, type, member) ==
  Join({IF atom \in DOMAIN F.file.classes
        THEN IF member \in DOMAIN F.file.classes[atom] THEN F.file.classes[atom][member] ELSE UnknownType
        ELSE IF atom = "ConditionResult" /\ member = "Result" THEN {"boolean"} ELSE UnknownType :
          atom \in WithoutNil(type)})

(* The contract of the enclosing function, if it is its own.               *)
ParameterType(overloads, name) ==
  IF \E o \in overloads : name \notin DOMAIN o.parameters THEN None
  ELSE Join({o.parameters[name] : o \in overloads})
FlowParameterType(F, scope, name) ==
  LET function == EnclosingFunction(F, scope)
      declared == DeclarationOf(F, function).s.name
  IN  IF function = File THEN None
      ELSE IF declared \notin DOMAIN F.file.contracts THEN None
      ELSE IF ~F.file.contracts[declared].own THEN None
      ELSE ParameterType(F.file.contracts[declared].overloads, name)

FunctionReturnType(overloads) ==
  Join({IF o.returns = <<>> THEN UnknownType ELSE o.returns[1] : o \in overloads})

-----------------------------------------------------------------------------
(* narrow_identifier.                                                      *)

RECURSIVE Bare(_)
Bare(e) == IF e.kind = "Parenthesized" THEN Bare(e.children[1]) ELSE e

IsNil(e) == e.kind = "Literal" /\ e.text = "nil"
ComparesToNil(e, name) ==
  /\ e.kind = "Binary" /\ e.text \in {"==", "~="}
  /\ \E i \in {1, 2} : /\ IsNil(e.children[i])
                       /\ e.children[3 - i].kind = "Identifier"
                       /\ e.children[3 - i].text = name

DirectReturn(F, scope) == \E r \in F.returns : r.scope = scope /\ r.order = 1

AssignedInGuardedPath(F, name, branch, use) ==
  \E a \in WritesOf(F, name) :
    /\ Within(F, a.scope, branch)
    /\ Within(F, use.scope, a.scope)
    /\ a.scope = branch => Before(a.range, use.range)

(* A mistake: only a new local ends what an early return proves.           *)
RedeclaredBetween(F, name, control, use) ==
  \E a \in WritesOf(F, name) :
    a.local /\ a.scope = control.scope /\ a.order > control.order /\ a.order < use.order
AssignedBetween(F, name, control, use) ==
  \E a \in WritesOf(F, name) :
    a.scope = control.scope /\ a.order > control.order /\ a.order < use.order

(* What a branch says of a use: it is in it, or after it left.             *)
Verdict(F, use, name, control, b) ==
  LET scope == control.at \o <<2 * b>>
      condition == Bare(FactAt(F, control.at \o <<2 * b - 1>>).e)
  IN  IF b > control.conditions \/ ~control.branches[b] THEN "none"
      ELSE IF ~ComparesToNil(condition, name) THEN "none"
      ELSE IF /\ Within(F, use.scope, scope)
              /\ EnclosingFunction(F, use.scope) = EnclosingFunction(F, scope)
              /\ ~AssignedInGuardedPath(F, name, scope, use)
      THEN IF b > 1 THEN "keep" ELSE IF condition.text = "==" THEN "nil" ELSE "present"
      ELSE IF /\ control.scope = use.scope /\ control.order < use.order
              /\ Len(control.branches) = 1
              /\ DirectReturn(F, scope)
              /\ ~AssignedBetween(F, name, control, use)
      THEN IF condition.text = "==" THEN "present" ELSE "nil"
      ELSE "none"

Verdicts(F, use, name) ==
  SelectSeq(FlattenSeq([c \in DOMAIN F.control |->
              [b \in DOMAIN F.control[c].branches |-> Verdict(F, use, name, F.control[c], b)]]),
            LAMBDA verdict : verdict # "none")

Narrowed(verdicts, type) ==
  IF verdicts = <<>> \/ Head(verdicts) = "keep" THEN type
  ELSE IF Head(verdicts) = "nil" THEN {"nil"} ELSE WithoutNil(type)

Narrow(F, use, name, type) == Narrowed(Verdicts(F, use, name), type)

-----------------------------------------------------------------------------
(* thoth_type_at_fact.  Guards hold the bindings and functions on the way. *)

NoGuards == [bindings |-> {}, functions |-> {}]

(* Visible assignments, of the function itself where it has a parameter    *)
(* of the name.                                                            *)
Candidates(F, use, name, parameter) ==
  {a \in WritesOf(F, name) :
     /\ Visible(F, a, use)
     /\ parameter # None => EnclosingFunction(F, a.scope) = EnclosingFunction(F, use.scope)}

(* Those of the innermost scope, from its last local declaration on.       *)
OfScope(candidates, scope) == {a \in candidates : a.scope = scope}
FromLocal(binding) ==
  {a \in binding : \A l \in binding : l.local => l.order <= a.order}
Innermost(F, use, candidates) ==
  OfScope(candidates,
          F.scopes[use.scope][CHOOSE d \in {Depth(F, use.scope, a.scope) : a \in candidates} :
                                \A a \in candidates : d <= Depth(F, use.scope, a.scope)])
ByOrder(binding) == SetToSortSeq(binding, LAMBDA a, b : a.order < b.order)

(* The last one decides whether it is nil; the other nils are gone.        *)
LastOf(types) ==
  IF types = <<>> THEN UnknownType
  ELSE IF types[Len(types)] = {"nil"} THEN {"nil"}
  ELSE Join({types[i] : i \in {i \in DOMAIN types : types[i] # {"nil"}}})

RECURSIVE TypeAt(_, _, _)

AssignmentType(F, a, guards) ==
  IF a.range \in guards.bindings THEN UnknownType
  ELSE IF ~a.valued THEN {"nil"}
  ELSE TypeAt(F, FactAt(F, a.at \o <<a.width + 1>>),
              [guards EXCEPT !.bindings = @ \cup {a.range}])

Assigned(parameter, types) ==
  IF \E i \in DOMAIN types : types[i] = UnknownType THEN UnknownType
  ELSE LastOf((IF parameter = None THEN <<>> ELSE <<parameter>>) \o types)

BindingType(F, parameter, binding, guards) ==
  IF binding[1].annotation # None THEN binding[1].annotation
  ELSE Assigned(IF \E i \in DOMAIN binding : binding[i].local THEN None ELSE parameter,
                [i \in DOMAIN binding |-> AssignmentType(F, binding[i], guards)])

UseType(F, parameter, candidates, use, guards) ==
  IF candidates = {} THEN IF parameter = None THEN UnknownType ELSE parameter
  ELSE BindingType(F, parameter, ByOrder(FromLocal(Innermost(F, use, candidates))), guards)

TargetType(F, a, guards) ==
  IF a.range \in guards.bindings THEN UnknownType
  ELSE IF a.annotation # None THEN a.annotation ELSE AssignmentType(F, a, guards)

IdentifierType(F, use, parameter, guards) ==
  LET name == use.text
      own == {a \in WritesOf(F, name) : a.range = use.range}
  IN  IF own # {} THEN Narrow(F, use, name, TargetType(F, CHOOSE a \in own : TRUE, guards))
      ELSE IF HasPriorNestedWrite(F, use, name) THEN UnknownType
      ELSE IF parameter = None /\ Candidates(F, use, name, parameter) = {} THEN UnknownType
      ELSE Narrow(F, use, name, UseType(F, parameter, Candidates(F, use, name, parameter), use, guards))

(* inferred_same_file_return: the first return of each scope, and nil      *)
(* unless the body itself has one.                                         *)
ReturnsOf(F, function) ==
  {r \in F.returns : EnclosingFunction(F, r.scope) = function}
FirstReturns(F, function) ==
  {r \in ReturnsOf(F, function) :
     \A q \in ReturnsOf(F, function) : q.scope = r.scope => r.order <= q.order}
ReturnTypes(F, r, guards) ==
  IF r.s.expressions = <<>> THEN {"nil"} ELSE TypeAt(F, FactAt(F, r.at \o <<1>>), guards)

InferredReturn(F, name, guards) ==
  LET named == {d \in F.declarations : d.s.name = name}
      function == (CHOOSE d \in named : TRUE).at
  IN  IF name \in guards.functions \/ name \in F.file.shadowed \/ Cardinality(named) # 1 THEN UnknownType
      ELSE Join({ReturnTypes(F, r, [guards EXCEPT !.functions = @ \cup {name}]) : r \in FirstReturns(F, function)}
                \cup IF \E r \in ReturnsOf(F, function) : Front(r.scope) = function THEN {} ELSE {{"nil"}})

CallType(F, name, guards) ==
  IF name \in DOMAIN F.file.contracts THEN FunctionReturnType(F.file.contracts[name].overloads)
  ELSE IF name = "ConditionResult" /\ ~\E d \in F.declarations : d.s.name = name THEN {"ConditionResult"}
  ELSE InferredReturn(F, name, guards)

(* A root that has no fact is an identifier at its own place.              *)
RootFact(F, f) ==
  IF \E r \in F.expressions : r.range = f.range \o <<1>> THEN FactAt(F, f.range \o <<1>>)
  ELSE [f EXCEPT !.range = @ \o <<1>>, !.kind = f.e.children[1].kind, !.text = f.e.children[1].text,
                 !.e = f.e.children[1]]

IsEnumeration(F, f) ==
  /\ f.e.children[1].kind = "Identifier"
  /\ ~HasIdentifierBinding(F, f.e.children[1].text, f)
  /\ f.e.children[1].text \in DOMAIN F.file.enumerations
  /\ f.text \in F.file.enumerations[f.e.children[1].text]

TypeAt(F, f, guards) ==
  CASE f.kind = "Literal" -> {CASE f.text \in {"true", "false"} -> "boolean" [] OTHER -> f.text}
    [] f.kind = "Parenthesized" -> TypeAt(F, FactAt(F, f.range \o <<1>>), guards)
    [] f.kind = "Unary" -> UnaryType(f.text, TypeAt(F, FactAt(F, f.range \o <<1>>), guards))
    [] f.kind = "Binary" -> BinaryType(f.text, TypeAt(F, FactAt(F, f.range \o <<1>>), guards),
                                       TypeAt(F, FactAt(F, f.range \o <<2>>), guards))
    [] f.kind = "Identifier" -> IdentifierType(F, f, FlowParameterType(F, f.scope, f.text), guards)
    [] f.kind = "FunctionCall" -> CallType(F, f.text, guards)
    [] f.kind = "MemberAccess" ->
         IF IsEnumeration(F, f) THEN {f.e.children[1].text}
         ELSE FlowMemberType(F, TypeAt(F, RootFact(F, f), guards), f.text)

(* thoth_expression_type; UnknownType is reported as nothing.                  *)
ThothExpressionType(F, range) == TypeAt(F, FactAt(F, range), NoGuards)

-----------------------------------------------------------------------------
(* What a file does when it runs.  An environment has the values of names, *)
(* by the scope that holds them; an outcome has the environments and       *)
(* values with which a step goes on, returns or raises, and the values     *)
(* that each expression was seen to have.                                  *)

Global == <<0>>
Nothing == [next |-> {}, returned |-> {}, raised |-> {}, seen |-> {}]
With(env, values) == [Nothing EXCEPT !.next = {[env |-> env, values |-> values]}]
All(outcomes) ==
  [next |-> UNION {o.next : o \in outcomes}, returned |-> UNION {o.returned : o \in outcomes},
   raised |-> UNION {o.raised : o \in outcomes}, seen |-> UNION {o.seen : o \in outcomes}]
Then(first, Step(_)) == All({[first EXCEPT !.next = {}]} \cup {Step(r) : r \in first.next})
Seeing(range, o) == [o EXCEPT !.seen = @ \cup {[range |-> range, value |-> r.values[1]] : r \in o.next}]

Atom(value) == IF value \in {"true", "false"} THEN "boolean" ELSE value
Fits(value, type) == Atom(value) \in type \/ (value = "integer" /\ "number" \in type)
ValuesOf(type) == UNION {IF atom = "boolean" THEN {"true", "false"} ELSE {atom} : atom \in type}
AnyValue == {"nil", "number", "string"}

Holder(F, env, scope, name) ==
  LET holding == {i \in DOMAIN F.scopes[scope] : <<F.scopes[scope][i], name>> \in DOMAIN env}
  IN  IF holding = {} THEN Global
      ELSE F.scopes[scope][CHOOSE i \in holding : \A j \in holding : i <= j]
Read(F, env, scope, name) ==
  LET key == <<Holder(F, env, scope, name), name>> IN IF key \in DOMAIN env THEN env[key] ELSE "nil"
Bind(env, scope, name, value) == (<<scope, name>> :> value) @@ env
Leave(env, scope) == [key \in {key \in DOMAIN env : ~IsPrefix(scope, key[1])} |-> env[key]]
Kept(env, scope) == [key \in {key \in DOMAIN env : IsPrefix(scope, key[1])} |-> env[key]]
(* A scope ends, and what it held before, in an outer call, is back.       *)
Left(o, scope, kept) ==
  [o EXCEPT !.next = {[r EXCEPT !.env = Leave(@, scope) @@ kept] : r \in @},
            !.returned = {[r EXCEPT !.env = Leave(@, scope) @@ kept] : r \in @},
            !.raised = {Leave(env, scope) @@ kept : env \in @}]

Equals(a, b) ==
  IF {a, b} \subseteq {"nil", "true", "false"} THEN {IF a = b THEN "true" ELSE "false"}
  ELSE IF Fits(a, {b}) \/ Fits(b, {a}) THEN {"true", "false"} ELSE {"false"}
Negation(value) == IF value = "true" THEN "false" ELSE "true"
Falsy(value) == value \in {"nil", "false"}

(* The values of an operator; none if it raises.                           *)
UnaryValues(operator, a) ==
  CASE operator = "not" -> {IF Falsy(a) THEN "true" ELSE "false"}
    [] operator = "#" /\ a = "string" -> {"integer"}
    [] operator = "-" /\ a \in {"number", "integer"} -> {a}
    [] operator = "~" /\ a \in {"integer", "ConditionResult"} -> {a}
    [] OTHER -> {}
BinaryValues(operator, a, b) ==
  CASE operator = "or" -> {IF Falsy(a) THEN b ELSE a}
    [] operator = "and" -> {IF Falsy(a) THEN a ELSE b}
    [] operator = "==" -> Equals(a, b)
    [] operator = "~=" -> {Negation(v) : v \in Equals(a, b)}
    [] operator = "<" /\ ((Fits(a, {"number"}) /\ Fits(b, {"number"})) \/ {a, b} = {"string"}) -> {"true", "false"}
    [] operator = "&" /\ a = b /\ a \in {"integer", "ConditionResult"} -> {a}
    [] operator = "<<" /\ {a, b} = {"integer"} -> {"integer"}
    [] operator = "+" /\ Fits(a, {"number"}) /\ Fits(b, {"number"}) -> {"number", "integer"}
    [] operator = ".." /\ {a, b} \subseteq {"string", "number", "integer"} -> {"string"}
    [] OTHER -> {}
MemberValues(F, a, member) ==
  IF a \in DOMAIN F.file.classes
  THEN IF member \in DOMAIN F.file.classes[a] THEN ValuesOf(F.file.classes[a][member]) ELSE {"nil"}
  ELSE IF a = "ConditionResult" /\ member = "Result" THEN {"true", "false"} ELSE {}

Values(env, values) ==
  IF values = {} THEN [Nothing EXCEPT !.raised = {env}]
  ELSE [Nothing EXCEPT !.next = {[env |-> env, values |-> <<v>>] : v \in values}]

(* A frame is the scope and how many calls may still nest.                 *)
Frame(scope, depth) == [scope |-> scope, depth |-> depth]

RECURSIVE Evaluate(_, _, _, _, _)
RECURSIVE Run(_, _, _, _, _)

(* Expressions from the ith to the last, in order.                         *)
RECURSIVE EvaluateAll(_, _, _, _, _, _)
EvaluateAll(F, es, at, i, frame, env) ==
  IF i > Len(es) THEN With(env, <<>>)
  ELSE Then(Evaluate(F, es[i], at \o <<i>>, frame, env), LAMBDA r :
         Then(EvaluateAll(F, es, at, i + 1, frame, r.env), LAMBDA rest : With(rest.env, r.values \o rest.values)))

(* A function of the file runs its body; only what keeps its contract      *)
(* counts.  Any other function returns a value of its contract, or returns *)
(* anything or raises.                                                     *)
Padded(values, n) == [i \in 1 .. n |-> IF i <= Len(values) THEN values[i] ELSE "nil"]
Keeps(F, f, parameters, values) ==
  f \in DOMAIN F.file.contracts =>
    \E o \in F.file.contracts[f].overloads :
      \A i \in DOMAIN parameters :
        parameters[i] \in DOMAIN o.parameters => Fits(values[i], o.parameters[parameters[i]])
Promised(F, f, value) ==
  f \in DOMAIN F.file.contracts => Fits(value, FunctionReturnType(F.file.contracts[f].overloads))

Entered(env, d, values) ==
  [key \in {<<d.at, d.s.parameters[i]>> : i \in DOMAIN d.s.parameters} |->
     values[CHOOSE i \in DOMAIN values : d.s.parameters[i] = key[2]]] @@ Leave(env, d.at)
Answers(F, f, o) ==
  [o EXCEPT !.next = {r \in {[env |-> r.env, values |-> Padded(r.values, 1)] : r \in o.next \cup o.returned} :
                        Promised(F, f, r.values[1])},
            !.returned = {}]
Body(F, d, values, depth, env) ==
  Answers(F, d.s.name,
          Left(Run(F, d.s.blocks[1], 1, Frame(d.at \o <<1>>, depth), Entered(env, d, values)), d.at,
               Kept(env, d.at)))

Invoke(F, f, arguments, depth, env) ==
  LET declared == {d \in F.declarations : d.s.name = f}
      d == CHOOSE d \in declared : TRUE
  IN  IF declared = {} \/ f \in F.file.shadowed
      THEN IF f \in DOMAIN F.file.contracts
           THEN Values(env, ValuesOf(FunctionReturnType(F.file.contracts[f].overloads)))
           ELSE IF f = "ConditionResult" THEN Values(env, {"ConditionResult"})
           ELSE [Values(env, AnyValue) EXCEPT !.raised = {env}]
      ELSE IF depth = 0 \/ ~Keeps(F, f, d.s.parameters, Padded(arguments, Len(d.s.parameters))) THEN Nothing
      ELSE Body(F, d, Padded(arguments, Len(d.s.parameters)), depth - 1, env)

EnumerationRead(F, e, frame, env) ==
  /\ e.children[1].kind = "Identifier"
  /\ e.children[1].text \in DOMAIN F.file.enumerations
  /\ Read(F, env, frame.scope, e.children[1].text) = "nil"

Value(F, e, at, frame, env) ==
  CASE e.kind = "Literal" -> With(env, <<e.text>>)
    [] e.kind = "Identifier" -> With(env, <<Read(F, env, frame.scope, e.text)>>)
    [] e.kind = "Parenthesized" -> EvaluateAll(F, e.children, at, 1, frame, env)
    [] e.kind = "Unary" ->
         Then(EvaluateAll(F, e.children, at, 1, frame, env),
              LAMBDA r : Values(r.env, UnaryValues(e.text, r.values[1])))
    [] e.kind = "Binary" ->
         Then(EvaluateAll(F, e.children, at, 1, frame, env),
              LAMBDA r : Values(r.env, BinaryValues(e.text, r.values[1], r.values[2])))
    [] e.kind = "FunctionCall" ->
         Then(EvaluateAll(F, e.children, at, 2, frame, env),
              LAMBDA r : Invoke(F, e.text, r.values, frame.depth, r.env))
    [] e.kind = "MemberAccess" ->
         IF EnumerationRead(F, e, frame, env)
         THEN With(env, <<IF e.text \in F.file.enumerations[e.children[1].text] THEN e.children[1].text ELSE "nil">>)
         ELSE Then(EvaluateAll(F, e.children, at, 1, frame, env),
                   LAMBDA r : Values(r.env, MemberValues(F, r.values[1], e.text)))

Evaluate(F, e, at, frame, env) == Seeing(at, Value(F, e, at, frame, env))

InBlock(F, s, at, n, frame, env) ==
  Left(Run(F, s.blocks[n], 1, Frame(at \o <<n>>, frame.depth), env), at \o <<n>>, <<>>)

RECURSIVE Store(_, _, _, _, _)
Store(F, s, scope, values, env) ==
  LET name == s.expressions[s.width - Len(values) + 1].text
  IN  IF values = <<>> THEN env
      ELSE Store(F, s, scope, Tail(values),
                 Bind(env, IF s.local THEN scope ELSE Holder(F, env, scope, name), name, Head(values)))
Written(F, s, at, scope, values, env) ==
  IF s.annotation # None /\ ~Fits(values[1], s.annotation) THEN Nothing
  ELSE [With(Store(F, s, scope, values, env), <<>>)
          EXCEPT !.seen = {[range |-> at \o <<i>>, value |-> values[i]] : i \in DOMAIN values}]

(* The branches of an if statement from the bth.                           *)
RECURSIVE Branch(_, _, _, _, _, _)
Branch(F, s, at, b, frame, env) ==
  IF 2 * b \notin DOMAIN s.blocks THEN With(env, <<>>)
  ELSE IF 2 * b - 1 \notin DOMAIN s.expressions THEN InBlock(F, s, at, 2 * b, frame, env)
  ELSE Then(Evaluate(F, s.expressions[2 * b - 1], at \o <<2 * b - 1>>, frame, env),
            LAMBDA r : IF Falsy(r.values[1]) THEN Branch(F, s, at, b + 1, frame, r.env)
                       ELSE InBlock(F, s, at, 2 * b, frame, r.env))

(* A loop runs its body a few rounds; the condition after it sees its      *)
(* locals.                                                                 *)
RECURSIVE Loop(_, _, _, _, _, _)
Loop(F, s, at, rounds, frame, env) ==
  CASE s.kind = "while" ->
         Then(Evaluate(F, s.expressions[1], at \o <<1>>, frame, env),
              LAMBDA r : IF Falsy(r.values[1]) THEN With(r.env, <<>>)
                         ELSE IF rounds = 0 THEN Nothing
                         ELSE Then(InBlock(F, s, at, 2, frame, r.env),
                                   LAMBDA q : Loop(F, s, at, rounds - 1, frame, q.env)))
    [] s.kind = "repeat" ->
         IF rounds = 0 THEN Nothing
         ELSE Then(Left(Then(Run(F, s.blocks[1], 1, Frame(at \o <<1>>, frame.depth), env),
                             LAMBDA r : Evaluate(F, s.expressions[2], at \o <<2>>,
                                                 Frame(at \o <<1>>, frame.depth), r.env)), at \o <<1>>, <<>>),
                   LAMBDA r : IF Falsy(r.values[1]) THEN Loop(F, s, at, rounds - 1, frame, r.env)
                              ELSE With(r.env, <<>>))
    [] s.kind = "for" ->
         All({With(env, <<>>)} \cup
             IF rounds = 0 THEN {}
             ELSE {Then(InBlock(F, s, at, s.width + 2, frame,
                                Store(F, [s EXCEPT !.local = TRUE], at \o <<s.width + 2>>,
                                      [i \in 1 .. s.width |-> "number"], env)),
                        LAMBDA r : Loop(F, s, at, rounds - 1, frame, r.env))})

Handled(F, s, at, frame, body) ==
  All({[body EXCEPT !.raised = {}]} \cup {InBlock(F, s, at, 2, frame, env) : env \in body.raised})

Execute(F, s, at, frame, env) ==
  CASE s.kind = "assign" ->
         Then(EvaluateAll(F, s.expressions, at, s.width + 1, frame, env),
              LAMBDA r : Written(F, s, at, frame.scope, Padded(r.values, s.width), r.env))
    [] s.kind = "call" -> Then(EvaluateAll(F, s.expressions, at, 1, frame, env), LAMBDA r : With(r.env, <<>>))
    [] s.kind = "return" -> Then(EvaluateAll(F, s.expressions, at, 1, frame, env),
                                 LAMBDA r : [Nothing EXCEPT !.returned = {r}])
    [] s.kind = "if" -> Branch(F, s, at, 1, frame, env)
    [] s.kind = "for" -> Then(EvaluateAll(F, s.expressions, at, s.width + 1, frame, env),
                              LAMBDA r : Loop(F, s, at, Rounds, frame, r.env))
    [] s.kind \in {"while", "repeat"} -> Loop(F, s, at, Rounds, frame, env)
    [] s.kind = "do" -> InBlock(F, s, at, 1, frame, env)
    [] s.kind = "try" -> Handled(F, s, at, frame, InBlock(F, s, at, 1, frame, env))
    [] s.kind = "function" -> With(env, <<>>)

(* The statements of a block from the ith.                                 *)
Run(F, block, i, frame, env) ==
  IF i > Len(block) THEN With(env, <<>>)
  ELSE Then(Execute(F, block[i], frame.scope \o <<i>>, frame, env),
            LAMBDA r : Run(F, block, i + 1, frame, r.env))

(* The file runs, and then anything calls its functions.                   *)
Called(F, d, env) ==
  {Body(F, d, values, Nesting, env) :
     values \in {v \in [DOMAIN d.s.parameters -> AnyValue] : Keeps(F, d.s.name, d.s.parameters, v)}}
CalledAfter(F, top) ==
  All({top} \cup UNION {Called(F, d, env) :
                          d \in {d \in F.declarations : d.scope = File},
                          env \in {r.env : r \in top.next \cup top.returned} \cup top.raised})
Observed(F) == CalledAfter(F, Run(F, F.file.block, 1, Frame(File, Nesting), <<>>)).seen

-----------------------------------------------------------------------------

(* Where flow does not depend on when it is read: no loop, no parameter    *)
(* without a contract and no list of targets binds the name, no local of a *)
(* repeated body reaches its condition, and every write of the name stands *)
(* before the use or out of its sight, in a function around it.            *)
Settled(F, use, name) ==
  /\ \A a \in F.assignments : name \in a.names =>
       /\ a.width = 1
       /\ \/ a.range = use.range
          \/ Before(a.range, use.range)
          \/ ~Visible(F, a, use) /\ ~\E l \in F.loops : IsPrefix(l, a.at) /\ IsPrefix(l, use.range)
       /\ Within(F, use.scope, EnclosingFunction(F, a.scope))
  /\ \A b \in F.binders : name \in b.names /\ IsPrefix(b.at, use.range) =>
       b.at \in F.functions /\ FlowParameterType(F, b.at, name) # None

UsesIn(F) ==
  {[name |-> f.text, use |-> f] : f \in {f \in F.expressions : f.kind = "Identifier"}}
  \cup {[name |-> f.e.children[1].text, use |-> f] : f \in {f \in F.expressions : f.kind = "MemberAccess"}}
IsSettled(F) == \A u \in UsesIn(F) : Settled(F, u.use, u.name)

(* A guard narrows also the target of a write behind it.                   *)
IsGuardedTarget(F, f) ==
  /\ \E a \in F.assignments : a.range = f.range
  /\ Verdicts(F, f, f.text) # <<>>

(* A type that is reported of an expression is the type of every value     *)
(* that it has.                                                            *)
Sound(F, f, type, observed) ==
  type # UnknownType => \A o \in observed : o.range = f.range => Fits(o.value, type)
TypesAreSound(F, observed) ==
  \A f \in F.expressions :
    ~IsGuardedTarget(F, f) => Sound(F, f, ThothExpressionType(F, f.range), observed)
=============================================================================
