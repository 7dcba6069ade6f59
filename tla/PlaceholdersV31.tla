--------------------------- MODULE PlaceholdersV31 ---------------------------
(* The placeholders of the one statement view_shaped_compile_v31.py writes: *)
(* a literal of the rule tree is not written into the text but bound to a   *)
(* name, and all rules of the statement share the names and the list of     *)
(* parameters.  Which literals come in which order is the tree's business;  *)
(* here any may come next.                                                  *)
(*                                                                          *)
(* A literal's name is lit_ and an id: that of the condition for the empty  *)
(* text of a blank test, expr<n> for the n-th literal of an expression.     *)
(* Both kinds are names of one dictionary, and a condition may have the id  *)
(* expr<n>.  A name the tree or the mapping gives has no underscore, so it  *)
(* is none of these.                                                        *)
EXTENDS Integers, Sequences, FiniteSets

CONSTANTS Conditions,  \* the ids of conditions
          ExprId,      \* ExprId[n] is the id expr<n>
          Slug,        \* Slug[id] is id with every - written as _
          Given,       \* names of keys and of runtime parameters
          Values,      \* str, int, float and bool literals
          Others,      \* literals of other types
          EmptyValue,  \* the empty text
          MaxUses      \* of placeholders for literals in the statement

ASSUME PlaceholderAssumption ==
  /\ MaxUses \in Nat /\ DOMAIN ExprId = 0..MaxUses
  /\ Conditions \cup {ExprId[n] : n \in 0..MaxUses} \subseteq DOMAIN Slug
  /\ \A m, n \in 0..MaxUses : Slug[ExprId[m]] = Slug[ExprId[n]] => m = n
  /\ EmptyValue \in Values /\ Values \cap Others = {}

VARIABLES writing,    \* "writing", then "written" or "refused"
          uses,       \* the placeholders of literals in the text: history
          literals,   \* what each placeholder is bound to
          parameters  \* of the statement

placeholderVars == <<writing, uses, literals, parameters>>

LiteralName(id) == <<"lit", Slug[id]>>
LiteralNames == {LiteralName(id) : id \in DOMAIN Slug}
Names == LiteralNames \cup ({"given"} \X Given)

PlaceholderInit ==
  /\ writing = "writing"
  /\ uses = <<>> /\ parameters = <<>>
  /\ literals = [name \in {} |-> EmptyValue]

\* A key of the mapping, a parameter of the delivery or one an expression reads.
AddParam(name) ==
  parameters' = IF \E i \in DOMAIN parameters : parameters[i] = name THEN parameters
                ELSE Append(parameters, name)

GiveParameter(name) ==
  /\ writing = "writing"
  /\ AddParam(<<"given", name>>)
  /\ UNCHANGED <<writing, uses, literals>>

\* blank tells the two callers apart in the history only.
Lit(id, value, blank) ==
  LET name == LiteralName(id) IN
  /\ writing = "writing" /\ Len(uses) < MaxUses
  /\ IF value \in Others
     THEN writing' = "refused" /\ UNCHANGED <<uses, literals, parameters>>
     ELSE /\ literals' = [n \in DOMAIN literals \cup {name} |->
                            IF n = name THEN value ELSE literals[n]]
          /\ AddParam(name)
          /\ uses' = Append(uses, [name |-> name, value |-> value, blank |-> blank])
          /\ UNCHANGED writing

\* Seeded bug: the numbers follow the distinct values, not the bound literals.
NextExprId_ByValue == ExprId[Cardinality({literals[n] : n \in DOMAIN literals})]

NextExprId == ExprId[Cardinality(DOMAIN literals)]

ExpressionLiteral(value) == Lit(NextExprId, value, FALSE)
BlankTest(id) == Lit(id, EmptyValue, TRUE)

StatementWritten ==
  /\ writing = "writing" /\ writing' = "written"
  /\ UNCHANGED <<uses, literals, parameters>>

PlaceholdersDone == writing # "writing" /\ UNCHANGED placeholderVars

PlaceholderNext ==
  \/ \E name \in Given : GiveParameter(name)
  \/ \E value \in Values \cup Others : ExpressionLiteral(value)
  \/ \E id \in Conditions : BlankTest(id)
  \/ StatementWritten
  \/ PlaceholdersDone

PlaceholderSpec == PlaceholderInit /\ [][PlaceholderNext]_placeholderVars

----------------------------------------------------------------------------
\* The types of the literals, the parameters and the history.
PlaceholderTypeOK ==
  /\ writing \in {"writing", "written", "refused"}
  /\ uses \in Seq([name : LiteralNames, value : Values, blank : BOOLEAN])
  /\ DOMAIN literals \subseteq LiteralNames
  /\ \A name \in DOMAIN literals : literals[name] \in Values
  /\ parameters \in Seq(Names)

\* The placeholder is a parameter of the statement and bound.
Declared(use) ==
  /\ use.name \in DOMAIN literals
  /\ \E j \in DOMAIN parameters : parameters[j] = use.name

\* A blank test (blank = TRUE) or an expression (FALSE) has taken the name.
Taken(name, blank) == \E i \in DOMAIN uses : uses[i].name = name /\ uses[i].blank = blank

Shared(name) == Taken(name, TRUE) /\ Taken(name, FALSE)

\* Every placeholder in the text is a parameter of the statement and keeps the
\* value of the literal it was written for, unless a blank test and an
\* expression share its name: the numbers of expressions never meet, whatever
\* blank tests were bound between them, and blank tests whose ids have one slug
\* are all bound to the empty text.
UnsharedLiteralsStand ==
  \A i \in DOMAIN uses :
    /\ Declared(uses[i])
    /\ Shared(uses[i].name) \/ literals[uses[i].name] = uses[i].value

\* Every placeholder keeps its value: what the design document promises.  The
\* code does not keep it: a blank test of a condition expr0 binds the name of
\* the first expression's literal to the empty text.
LiteralsStand ==
  \A i \in DOMAIN uses : Declared(uses[i]) /\ literals[uses[i].name] = uses[i].value
============================================================================
