----------------------- MODULE MCCompleteDeliveryV31 -----------------------
(* Eight trees that between them use every construct of the rule language, on *)
(* every table of a few rows; every way of rewriting a delivery while it is *)
(* read; and every single defect of a stored delivery.                      *)
EXTENDS CompleteDeliveryV31, SequencesExt

MCSubject == "subject"
Keys == {MCSubject, "m1", "m2"}

\* The nodes of parts, one part after the other, and where the parts end.
Ends(parts) == [i \in DOMAIN parts |-> FoldLeft(LAMBDA n, p : n + Len(p), 0, SubSeq(parts, 1, i))]
Moved(node, by) ==
  [node EXCEPT !.children = <<>> \o [i \in DOMAIN @ |-> @[i] + by]]
Joined(parts, Move(_, _)) ==
  FoldLeft(LAMBDA all, part : all \o [n \in DOMAIN part |-> Move(part[n], Len(all))],
           <<>>, parts)

Expr(kind, name, value, parts) ==
  Append(Joined(parts, Moved),
         [kind |-> kind, name |-> name, value |-> value, children |-> Ends(parts)])
Fact(f) == Expr("fact", f, Null, <<>>)
Literal(v) == Expr("literal", "", v, <<>>)
Param(p) == Expr("parameter", p, Null, <<>>)
Op(kind, parts) == Expr(kind, "", Null, parts)

MovedNode(node, by) ==
  [Moved(node, by) EXCEPT !.predicate = IF @ = 0 THEN 0 ELSE @ + by]
Plainest(kind, id) ==
  [kind |-> kind, id |-> id, enabled |-> TRUE, children |-> <<>>,
   left |-> NoExpression, operator |-> "", right |-> NoExpression,
   nullPolicy |-> "indeterminate", collection |-> "", empty |-> "",
   missing |-> "", predicate |-> 0]
Node(kind, id, parts) ==
  Append(Joined(parts, MovedNode), [Plainest(kind, id) EXCEPT !.children = Ends(parts)])
Test(id, left, operator, right) ==
  <<[Plainest("compare", id) EXCEPT !.left = left, !.operator = operator, !.right = right]>>
Is(id, left, operator) == Test(id, left, operator, NoExpression)
One(f) == Test(f, Fact(f), "eq", Literal(1))
Off(c) == [c EXCEPT ![Len(c)].enabled = FALSE]
Members(id, empty, missing, predicate) ==
  Append(predicate,
         [Plainest("allMembers", id) EXCEPT !.collection = "keys", !.empty = empty,
                                            !.missing = missing, !.predicate = Len(predicate)])

Rule(code, when) ==
  [code |-> code, status |-> "active", when |-> when]
Plain(rules) ==
  [stages |-> [s \in 1..5 |-> [stage |-> StageOrder[s], rules |-> rules[s],
                               emptyReason |-> IF rules[s] = <<>> THEN "none" ELSE Null]],
   onHit |-> OnHit,
   parameters |-> <<[name |-> "clock", bound |-> Null], [name |-> "cutoff", bound |-> 1]>>,
   required |-> {}]

\* 1: the stages, each rule on a fact of its own.
Decision == Plain(<<<<Rule("G1", One("f1"))>>, <<Rule("P1", One("f2"))>>,
                    <<Rule("E1", One("f3")), Rule("E2", One("f4"))>>,
                    <<Rule("A1", One("f5")), Rule("A2", One("f6"))>>,
                    <<Rule("X1", One("f7"))>>>>)
\* 2: the conditions and expressions on three facts.
Compared ==
  Plain(<<<<Rule("G1", Node("any", "any", <<
              Node("all", "all", <<One("f1"), Is("nn", Fact("f2"), "isNotNull")>>),
              Node("not", "not", <<Test("ge", Fact("f3"), "gte", Param("cutoff"))>>)>>))>>,
          <<Rule("P1", Is("bl", Fact("f2"), "isBlank")),
            [Rule("P2", One("f1")) EXCEPT !.status = "blocked"]>>,
          <<Rule("E1", Test("sum", Op("add", <<Fact("f1"), Fact("f3"), Literal(1)>>), "gt", Literal(2))),
            Rule("E2", [Test("pol", Fact("f3"), "ne", Literal(0)) EXCEPT ![1].nullPolicy = "pass"])>>,
          <<Rule("A1", Test("coa", Op("coalesce", <<Fact("f1"), Fact("f3")>>), "lte",
                            Op("dateAdd", <<Param("clock"), Op("subtract", <<Literal(1), Literal(1)>>)>>))),
            Rule("A2", Is("nb", Fact("f2"), "isNotBlank"))>>,
          <<Rule("X1", Node("all", "off", <<Off(One("f1")),
                        Test("lt", Fact("f3"), "lt", Op("multiply", <<Literal(1), Literal(1)>>)),
                        Is("nl", Fact("f2"), "isNull")>>))>>>>)
\* 3: the members, with each policy.
Quantified ==
  Plain(<<<<Rule("G1", Node("not", "some", <<Members("all", "pass", "fail", One("f1"))>>))>>,
          <<Rule("P1", Members("none", "fail", "indeterminate",
                   Node("not", "zero", <<Test("mz", Fact("f1"), "ne", Literal(0))>>)))>>,
          <<Rule("E1", Members("open", "indeterminate", "indeterminate",
                   Node("any", "mo", <<One("f1"), Test("ms", Fact("f2"), "eq", Literal(1))>>)))>>,
          <<>>, <<Rule("X1", One("f3"))>>>>)
\* 4: COUNT(*) and EXISTS.
Counted ==
  Plain(<<<<Rule("G1", Test("cz", Fact("f1"), "eq", Literal(0)))>>,
          <<Rule("P1", Test("ex", Fact("f2"), "ne", Literal(1)))>>,
          <<Rule("E1", Test("cg", Fact("f1"), "gt", Literal(1)))>>, <<>>,
          <<Rule("X1", Is("cn", Fact("f1"), "isNull"))>>>>)
\* 5: no eligibility rule.
NoEligibility == Plain(<<<<>>, <<>>, <<>>, <<Rule("A1", One("f1"))>>, <<>>>>)
\* 6 to 8: an operator the compiler lacks, a required fact nobody granted, and
\* a tree the wire model refuses.
Listed == Plain(<<<<>>, <<>>, <<Rule("E1", Test("in", Fact("f1"), "in", Literal({0, 1})))>>,
                  <<>>, <<>>>>)
Needy == [NoEligibility EXCEPT !.required = {"f9"}]
Twice == [NoEligibility EXCEPT !.parameters = <<@[1], @[1]>>]

MCTrees == <<Decision, Compared, Quantified, Counted, NoEligibility, Listed, Needy, Twice>>

MCMalformed == {8}

MCMappings ==
  <<[grants |-> [i \in 1..8 |->
       IF i = 8 THEN [fact |-> "keys", cardinality |-> "set"]
       ELSE [fact |-> <<"f1", "f2", "f3", "f4", "f5", "f6", "f7">>[i],
             cardinality |-> "scalar"]]],
    [grants |-> <<[fact |-> "f1", cardinality |-> "scalar"]>>],
    [grants |-> <<[fact |-> "f1", cardinality |-> "scalar"],
                  [fact |-> "f1", cardinality |-> "scalar"]>>],
    [grants |-> <<[fact |-> "f1", cardinality |-> "scalar"],
                  [fact |-> "f1", cardinality |-> "set"]>>]>>

F == {"f1", "f2", "f3", "f4", "f5", "f6", "f7"}
\* Tables whose facts in own have the given rows at the given key; no row else.
Rows(given) == [f \in F |-> [key \in Keys |-> given[f, key]]]
Alone(choices) ==
  {[rows |-> Rows([fk \in F \X Keys |->
      IF fk[2] = MCSubject /\ fk[1] \in DOMAIN choice THEN choice[fk[1]] ELSE <<>>]),
    members |-> {}] : choice \in choices}
Three == {<<>>, <<0>>, <<1>>}
SomeFacts(own, values) == Alone([own -> values])
Texts == {<<>>, <<Null>>, <<Blank>>, <<1>>}
Numbers == {<<>>, <<Null>>, <<0>>, <<1>>, <<2>>}
Grouped ==
  {[rows |-> Rows([fk \in F \X Keys |->
      CASE fk = <<"f1", "m1">> -> a [] fk = <<"f1", "m2">> -> b
        [] fk = <<"f2", "m2">> -> c [] fk = <<"f3", MCSubject>> -> d [] OTHER -> <<>>]),
    members |-> group] :
     a \in Numbers, b \in Three, c \in Three, d \in Three, group \in SUBSET {"m1", "m2"}}
MCTables ==
  <<SomeFacts(F, Three),
    {x \in Alone([{"f1", "f2", "f3"} -> Texts \cup Numbers]) :
       /\ x.rows["f1"][MCSubject] \in Numbers /\ x.rows["f3"][MCSubject] \in Numbers
       /\ x.rows["f2"][MCSubject] \in Texts},
    Grouped, SomeFacts({"f1", "f2"}, {<<>>, <<0>>, <<0, 0>>}),
    SomeFacts({"f1"}, Three), {}, {}, {}>>

----------------------------------------------------------------------------
(* Publications. *)

Version(source, digest) == [ruleSet |-> "RS", parts |-> <<"t", source, digest>>]
MCHistorical == [ruleSet |-> "RS", parts |-> <<"t", "h", "h">>]
V == Version("s1", "c1")
Short == [ruleSet |-> "RS", parts |-> <<"c1">>]

Payload(version, candidate, fact, kind) ==
  [ruleVersion |-> version, fact |-> fact, kind |-> kind, source |-> candidate.source,
   parse |-> candidate.parse, digest |-> candidate.digest, candidateSha |-> candidate,
   unresolved |-> TRUE]

Publication(version, t, body, kinds) ==
  LET source == "s1"
      catalog == [body |-> body, digest |-> body, valid |-> TRUE]
      candidate == [tree |-> t, source |-> source, parse |-> "p1", digest |-> body,
                    valid |-> TRUE]
      theirs == [i \in DOMAIN kinds |-> Payload(version, candidate, kinds[i][1], kinds[i][2])]
      about == [version |-> version, schema |-> "3.1.0",
                purpose |-> "optimization-plan-generation", executable |-> FALSE,
                source |-> source, parse |-> "p1", digest |-> body]
  IN [catalog |-> catalog, candidate |-> candidate,
      result |-> [version |-> version, ruleSet |-> version.ruleSet, schema |-> "3.1.0",
                  purpose |-> "optimization-plan-generation", executable |-> FALSE,
                  catalogDigest |-> body, catalogSha |-> catalog,
                  deliveryCatalogSha |-> catalog, candidateSha |-> candidate,
                  deliveryCandidateSha |-> candidate, selfSha |-> None,
                  candidateParse |-> "p1", source |-> source, parse |-> "p1",
                  cases |-> 1, valid |-> TRUE],
      payloads |-> theirs, contract |-> "3.1.0", batch |-> Batch(version, theirs),
      document |-> about, manifest |-> about]

Scalars == <<<<"f1", "scalar">>, <<"f2", "scalar">>>>
Counts == <<<<"f1", "count">>, <<"f2", "exists">>>>
Further == <<<<"f1", "aggregate">>, <<"f2", "existsFact">>>>
Base == Publication(V, 1, "c1", Scalars)
Stranger == [Base.candidate EXCEPT !.tree = 2]

\* One stated value that does not close, in each place one is stated.
Defects ==
  <<[Base EXCEPT !.document = None, !.result = None],
    [Base EXCEPT !.document.schema = "3.0.0", !.result.schema = "3.0.0"],
    [Base EXCEPT !.document.executable = TRUE, !.result.executable = TRUE],
    [Base EXCEPT !.document.purpose = "sql-compilation", !.manifest.purpose = "sql-compilation"],
    [Base EXCEPT !.catalog = None], [Base EXCEPT !.contract = "3.0.0"],
    [Base EXCEPT !.candidate.valid = FALSE],
    [Base EXCEPT !.batch.count = 3], [Base EXCEPT !.batch.ids = Tail(@)],
    [Base EXCEPT !.batch.sha = Tail(@)], [Base EXCEPT !.batch.requests[1].sha = None],
    [Base EXCEPT !.payloads[1].unresolved = FALSE,
                 !.batch = Batch(V, [Base.payloads EXCEPT ![1].unresolved = FALSE])],
    [Base EXCEPT !.catalog.digest = "c2"], [Base EXCEPT !.document.digest = "c2",
                                                       !.manifest.digest = "c2"],
    [Base EXCEPT !.candidate.digest = "c2"], [Base EXCEPT !.result.catalogDigest = "c2"],
    [Base EXCEPT !.result.catalogSha = None], [Base EXCEPT !.result.deliveryCatalogSha = None],
    [Base EXCEPT !.result.candidateSha = Stranger],
    [Base EXCEPT !.result.deliveryCandidateSha = Stranger],
    [Base EXCEPT !.result.selfSha = "any"], [Base EXCEPT !.result.source = "s2"],
    [Base EXCEPT !.result.candidateParse = "p2"], [Base EXCEPT !.document.source = "s2",
                                                              !.manifest.source = "s2"],
    [Base EXCEPT !.result.ruleSet = "OTHER"],
    [Base EXCEPT !.payloads[2].candidateSha = Stranger,
                 !.batch = Batch(V, [Base.payloads EXCEPT ![2].candidateSha = Stranger])],
    [Base EXCEPT !.payloads = <<>>, !.batch = Batch(V, <<>>)],
    [Base EXCEPT !.manifest = [f \in DOMAIN Base.manifest |-> None]]>>

\* 1 to 8: one clean publication per tree, all of one rule version; then the
\* same delivery with other test cases, another catalog and hence version, a
\* version with too few parts, and the defects.
MCPublications ==
  [t \in 1..8 |-> Publication(V, t, "c1", IF t = 4 THEN Counts ELSE
                     IF t = 7 THEN Further ELSE Scalars)]
  \o <<[Base EXCEPT !.result.cases = 2], Publication(Version("s1", "c2"), 1, "c2", Scalars),
       Publication(Short, 1, "c1", Scalars)>>
  \o Defects

Command(source, version, first, second, m) ==
  [source |-> source, purpose |-> "optimization-plan-generation", version |-> version,
   first |-> first, second |-> second, mapping |-> m, runtime |-> [p \in {"clock"} |-> 1]]

Sources == {"mongodb", "files"}
MCCommands ==
  {Command(s, V, t, t, 1) : s \in Sources, t \in 1..8}
  \cup {Command(s, V, 5, 5, m) : s \in Sources, m \in 2..4}
  \cup {Command("mongodb", V, 1, 1, 2)} \cup {Command(s, Short, 11, 11, 0) : s \in Sources}
  \cup {Command(s, V, 1, d, 0) : s \in Sources, d \in 2..Len(MCPublications)}
  \cup {Command(s, V, d, 1, 0) : s \in Sources, d \in 9..Len(MCPublications)}
  \cup {[Command("mongodb", v, 1, 1, 0) EXCEPT !.purpose = p] :
           v \in {V, MCHistorical}, p \in {"historical-audit", "sql-compilation",
                                           "optimization-plan-generation"}}
============================================================================
