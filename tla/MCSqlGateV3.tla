------------------------------ MODULE MCSqlGateV3 ------------------------------
(***************************************************************************)
(* Requests about a table 1 with a key column 1, another column 2 and a    *)
(* value column 3 (in a case-sensitive snapshot also a column 4, which     *)
(* folds to 1), one for each check of the scope, the filters and the       *)
(* encoding; for each of them every statement of a family that varies the  *)
(* projection, the table and the conditions, alone and together.           *)
(***************************************************************************)
EXTENDS SqlGateV3, SequencesExt, TLC

CONSTANTS NULL, NONE, A, B

MCFold == [i \in 0..9 |-> IF i = 4 THEN 1 ELSE i]
MCValues == {A, B}

-----------------------------------------------------------------------------
Plain1 ==
    [resolves |-> "metadataResolved", carried |-> "same", kind |-> "source",
     aggregation |-> "none", timeRange |-> "none", joins |-> 0,
     parameters |-> [p \in {"k"} |-> [role |-> "entityKey", required |-> TRUE]],
     fields |-> [id \in {"key", "factValue"} |->
                    [role |-> IF id = "key" THEN "entityKey" ELSE "factValue",
                     relation |-> 1, column |-> IF id = "key" THEN 1 ELSE 3]],
     keys |-> [p \in {"k"} |-> "key"],
     filters |-> <<>>,
     columns |-> <<1, 1>> :> FALSE @@ <<1, 2>> :> FALSE @@ <<1, 3>> :> TRUE,
     sensitive |-> FALSE,
     encoding |-> [kind |-> "none", entries |-> {}],
     rowset |-> FALSE, usages |-> <<"u">>]

Filter == [operator |-> "eq", kind |-> "parameter", operand |-> "k",
           field |-> "key", required |-> TRUE, nullPolicy |-> "error"]
Filtered(f) == [Plain1 EXCEPT !.filters = <<f>>]
Mapped(entries) == [Plain1 EXCEPT !.encoding = [kind |-> "mappedCase", entries |-> entries]]
TwoKeys ==
    [Plain1 EXCEPT !.parameters = [p \in {"k", "l"} |-> [role |-> "entityKey", required |-> TRUE]],
                   !.keys = [p \in {"k", "l"} |-> IF p = "k" THEN "key" ELSE "other"],
                   !.fields = [id \in {"key", "other", "factValue"} |->
                        [role |-> IF id = "factValue" THEN "factValue" ELSE "entityKey",
                         relation |-> 1,
                         column |-> CASE id = "key" -> 1 [] id = "other" -> 2
                                      [] id = "factValue" -> 3]]]
OtherField(role, relation) ==
    [Plain1 EXCEPT !.fields = [id \in {"key", "other", "factValue"} |->
                        [role |-> CASE id = "key" -> "entityKey" [] id = "other" -> role
                                    [] id = "factValue" -> "factValue",
                         relation |-> IF id = "other" THEN relation ELSE 1,
                         column |-> CASE id = "key" -> 1 [] id = "other" -> 2
                                      [] id = "factValue" -> 3]]]

Honest(r) == IF r.carried = "same" THEN [r EXCEPT !.carried = Recomputed(r)]
             ELSE [r EXCEPT !.carried = [Recomputed(r) EXCEPT !.status = "stale"]]
MCRequests == <<>> \o LET specs == <<
    Plain1,
    TwoKeys,
    [Plain1 EXCEPT !.sensitive = TRUE,
        !.columns = <<1, 1>> :> FALSE @@ <<1, 4>> :> FALSE @@ <<1, 3>> :> TRUE],
    Filtered(Filter),
    [Filtered(Filter) EXCEPT !.columns = [@ EXCEPT ![<<1, 1>>] = TRUE]],
    Filtered([Filter EXCEPT !.operator = "ne"]),
    Filtered([Filter EXCEPT !.kind = "literal", !.operand = A]),
    Filtered([Filter EXCEPT !.field = "factValue"]),
    Filtered([Filter EXCEPT !.required = FALSE]),
    Filtered([Filter EXCEPT !.nullPolicy = "exclude"]),
    [TwoKeys EXCEPT !.filters = <<Filter, [Filter EXCEPT !.operand = "l", !.field = "other"]>>],
    Mapped({<<A, B>>}),
    Mapped({<<A, B>>, <<B, A>>}),
    [Plain1 EXCEPT !.encoding = [kind |-> "identity", entries |-> {<<A, A>>}]],
    [Plain1 EXCEPT !.rowset = TRUE],
    [Plain1 EXCEPT !.kind = "derived"],
    [Plain1 EXCEPT !.aggregation = "sum"],
    [Plain1 EXCEPT !.timeRange = "asOf"],
    [OtherField("entityKey", 2) EXCEPT !.joins = 1],
    OtherField("filter", 1),
    [Plain1 EXCEPT !.parameters = [p \in {"k"} |-> [role |-> "entityKey", required |-> FALSE]]],
    [Filtered(Filter) EXCEPT !.parameters = [p \in {"k"} |-> [role |-> "entityKey", required |-> FALSE]]],
    [Plain1 EXCEPT !.parameters = [p \in {"k", "l"} |->
        [role |-> IF p = "k" THEN "entityKey" ELSE "filter", required |-> TRUE]]],
    [Plain1 EXCEPT !.resolves = "blocked"],
    [Plain1 EXCEPT !.carried = "stale"] >>
    IN  [n \in 1..Len(specs) |-> Honest(specs[n])]

-----------------------------------------------------------------------------
Ref(q, c) == [qualifier |-> q, column |-> c, extra |-> FALSE]
Proj(ref) == [kind |-> "column", alias |-> "fact_value", ref |-> ref, arms |-> <<>>, otherwise |-> NULL]
CaseOf(ref, arms, otherwise) ==
    [kind |-> "case", alias |-> "fact_value", ref |-> ref, arms |-> arms, otherwise |-> otherwise]
Col(ref) == [kind |-> "column", ref |-> ref, name |-> "", value |-> NULL]
Par(p) == [kind |-> "parameter", ref |-> Ref(0, 0), name |-> p, value |-> NULL]
Lit(v) == [kind |-> "literal", ref |-> Ref(0, 0), name |-> "", value |-> v]
Cmp(op, l, r) == [op |-> op, left |-> l, right |-> r, of |-> <<>>]
Eq(c, p) == Cmp("eq", Col(Ref(0, c)), Par(p))
Or(c, d) == [op |-> "or", left |-> c.left, right |-> c.right, of |-> <<c, d>>]
From(rel, alias, kind) == [relation |-> rel, alias |-> alias, kind |-> kind]

Stmt(ps, from, where) ==
    [statements |-> 1, root |-> "Select", nodes |-> {},
     projections |-> ps, from |-> from, where |-> where]

Projections(r) ==
    {<<Proj(Ref(q, c))>> : q \in {0, 1, 5}, c \in {3, 4}}
        \cup {<<Proj(Ref(0, 2))>>, <<Proj(Ref(0, 9))>>, <<Proj(Ref(0, 1)), Proj(Ref(0, 3))>>,
              <<[Proj(Ref(0, 3)) EXCEPT !.alias = "other"]>>,
              <<[Proj(Ref(0, 3)) EXCEPT !.kind = "other"]>>,
              <<Proj([Ref(1, 3) EXCEPT !.extra = TRUE])>>}
        \cup (IF r.encoding.kind = "none" THEN {<<CaseOf(Ref(0, 3), <<<<A, B>>>>, NULL)>>}
              ELSE {<<CaseOf(Ref(0, c), arms, e)>> :
                        c \in {2, 3}, e \in {NULL, A},
                        arms \in {<<>>, <<<<A, B>>>>, <<<<A, B>>, <<B, A>>>>,
                                  <<<<B, A>>, <<A, B>>>>, <<<<A, B>>, <<A, A>>>>,
                                  <<<<A, B>>, <<A, B>>>>}})
Froms == {<<From(1, 0, "plain")>>, <<From(1, 5, "plain")>>, <<From(4, 0, "plain")>>,
          <<From(2, 0, "plain")>>, <<From(1, 0, "temp")>>, <<From(1, 0, "catalog")>>,
          <<From(1, 0, "plain"), From(2, 0, "plain")>>, <<>>}
Conjuncts == {Eq(1, "k"), Eq(2, "l"), Eq(4, "k"), Eq(3, "k"), Eq(1, "l"), Eq(9, "k"),
              Cmp("eq", Par("k"), Col(Ref(5, 1))), Cmp("ne", Col(Ref(0, 1)), Par("k")),
              Cmp("eq", Par("k"), Par("k")), Cmp("eq", Col(Ref(0, 1)), Lit(A)),
              Cmp("eq", Col(Ref(0, 1)), Col(Ref(0, 2))),
              Or(Eq(1, "k"), Eq(2, "k"))}
Wheres == {<<>>} \cup {<<c>> : c \in Conjuncts} \cup {<<c, d>> : c, d \in Conjuncts}
             \cup {<<Eq(2, "l"), c, Eq(1, "k")>> : c \in Conjuncts}

\* Two of projection, tables and conditions vary together, the third is right.
Shapes(r) ==
    LET p == IF r.encoding.kind = "mappedCase"
             THEN <<CaseOf(Ref(0, 3), IF Cardinality(r.encoding.entries) = 1 THEN <<<<A, B>>>>
                                      ELSE <<<<B, A>>, <<A, B>>>>, NULL)>>
             ELSE <<Proj(Ref(0, 3))>>
        w == IF DOMAIN r.parameters = {"k"} THEN <<Eq(1, "k")>> ELSE <<Eq(2, "l"), Eq(1, "k")>>
        f == <<From(1, 0, "plain")>>
        right == Stmt(p, f, w)
    IN  {Stmt(q, g, w) : q \in Projections(r), g \in Froms}
        \cup {Stmt(p, g, v) : g \in {f, <<From(1, 5, "plain")>>}, v \in Wheres}
        \cup {Stmt(q, f, v) : q \in Projections(r), v \in {<<c>> : c \in Conjuncts}}
        \cup {[right EXCEPT !.nodes = {n}] : n \in {"limit", "distinct", "group", "func"}}
        \cup {[right EXCEPT !.statements = 2], [right EXCEPT !.root = "Insert"]}

Declares(r, sql) ==
    [sql |-> sql, parameters |-> r.parameters, cardinality |-> Consumer(r),
     objects |-> SetToSeq(Relations(r)), usages |-> r.usages]
MCPayloads == <<>> \o [n \in DOMAIN MCRequests |->
    LET r == MCRequests[n]
        honest == {Declares(r, sql) : sql \in Shapes(r)}
        any == CHOOSE g \in honest : TRUE
    IN  honest \cup {[any EXCEPT !.objects = <<2>>], [any EXCEPT !.objects = <<1, 1>>], [any EXCEPT !.usages = <<>>],
                     [any EXCEPT !.parameters = [p \in {"z"} |-> [role |-> "entityKey", required |-> TRUE]]],
                     [any EXCEPT !.cardinality = IF r.rowset THEN "scalar" ELSE "rowset"]}]
MCEdits == <<>> \o [n \in DOMAIN MCRequests |->
    LET w == Stmt(<<Proj(Ref(0, 3))>>, <<From(1, 0, "plain")>>, <<Eq(1, "k")>>)
    IN  {w, [w EXCEPT !.where = <<>>]}]
MCJudges == <<>> \o [n \in DOMAIN MCRequests |-> {n, 1, (n % Len(MCRequests)) + 1}]
=============================================================================
