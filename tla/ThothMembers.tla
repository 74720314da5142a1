---------------------------- MODULE ThothMembers ----------------------------
(***************************************************************************)
(* crates/bg3-ide/src/thoth_members.rs: the fields that hover, completion  *)
(* and navigation show for a member, over the facts and types of           *)
(* ThothFlow.  Where flow knows nothing of the root, annotations speak.    *)
(***************************************************************************)
EXTENDS ThothFlow

Primitive == {"boolean", "number", "integer", "string"}

(* The fields of one member of a union; None stops them all.               *)
FieldsOf(F, atom) ==
  IF atom \in DOMAIN F.file.classes THEN F.file.classes[atom]
  ELSE IF atom = "ConditionResult" THEN "Result" :> {"boolean"}
  ELSE IF atom \in Primitive THEN <<>> ELSE None

(* fields_for_type: those that every member but nil has.                   *)
CommonFields(fields) ==
  [name \in {name \in UNION {DOMAIN f : f \in fields} : \A f \in fields : name \in DOMAIN f} |->
     Join({f[name] : f \in fields})]
FieldsForType(F, type) ==
  LET fields == {FieldsOf(F, atom) : atom \in WithoutNil(type)}
  IN  IF fields = {} \/ None \in fields THEN None ELSE CommonFields(fields)

(* variable_evidence: the nearest assignment, last in its scope, and only  *)
(* what is written on it.                                                  *)
Nearer(F, use, a, b) ==
  \/ Depth(F, use.scope, a.scope) < Depth(F, use.scope, b.scope)
  \/ a.scope = b.scope /\ a.order > b.order
VariableEvidence(F, use, name) ==
  LET candidates == {a \in WritesOf(F, name) :
                       /\ Within(F, use.scope, a.scope)
                       /\ a.scope = use.scope => a.order < use.order}
  IN  IF candidates = {} THEN None
      ELSE CHOOSE a \in candidates : \A b \in candidates : a = b \/ Nearer(F, use, a, b)

(* What annotations say of a name: a local of the function before its      *)
(* parameter.                                                              *)
Evident(variable) == IF variable = None THEN None ELSE variable.annotation
AnnotatedType(F, use, variable, parameter) ==
  IF parameter = None THEN Evident(variable)
  ELSE IF variable = None THEN parameter
  ELSE IF variable.local /\ EnclosingFunction(F, variable.scope) = EnclosingFunction(F, use.scope)
       THEN variable.annotation ELSE parameter

(* root_type; a call has its contract or nothing.                          *)
ContractType(F, f) ==
  IF f \in DOMAIN F.file.contracts THEN FunctionReturnType(F.file.contracts[f].overloads) ELSE None
RootType(F, use, root, inferred) ==
  IF inferred # UnknownType THEN inferred
  ELSE CASE root.kind = "FunctionCall" -> ContractType(F, root.text)
         [] root.kind = "Identifier" ->
              AnnotatedType(F, use, VariableEvidence(F, use, root.text),
                            FlowParameterType(F, use.scope, root.text))
         [] OTHER -> None

(* member_owner_type, field by field, and thoth_member_hover.              *)
FieldType(fields, name) ==
  IF fields = None THEN None ELSE IF name \in DOMAIN fields THEN fields[name] ELSE None
FieldOfType(F, type, name) ==
  IF type = None \/ type = UnknownType THEN None ELSE FieldType(FieldsForType(F, type), name)

RECURSIVE MemberHover(_, _)
MemberHover(F, f) ==
  LET root == RootFact(F, f)
  IN  FieldOfType(F, IF root.kind = "MemberAccess" THEN MemberHover(F, root)
                     ELSE RootType(F, f, root, TypeAt(F, root, NoGuards)), f.text)

-----------------------------------------------------------------------------

(* The hover over a member shows the type that flow has for the access: as *)
(* soon as flow knows the root they are the same, and nothing in the one   *)
(* is nothing in the other.                                                *)
AgreesWithFlow(hover, flow) == IF flow = UnknownType THEN hover \in {None, UnknownType} ELSE hover = flow
MemberViewsAgree(F) ==
  \A f \in {f \in F.expressions : f.kind = "MemberAccess" /\ ~IsEnumeration(F, f)} :
    TypeAt(F, RootFact(F, f), NoGuards) # UnknownType =>
      AgreesWithFlow(MemberHover(F, f), ThothExpressionType(F, f.range))
=============================================================================
