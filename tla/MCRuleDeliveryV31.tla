------------------------- MODULE MCRuleDeliveryV31 -------------------------
(* The delivery of MCCompleteDeliveryV31, and what else its one statement   *)
(* rests on: trees with up to two rules in a stage, and with none, and every*)
(* verdict on their rules; and up to four literals of three values and a    *)
(* refused one, two conditions whose ids have one slug, one whose id is that*)
(* of an expression's literal, and a given name, in every order.            *)
(*                                                                          *)
(* The three share no variable, so each is run while the others are in an   *)
(* initial state: the rest of the product has nothing new to show.          *)
EXTENDS MCCompleteDeliveryV31, RuleDecisionV31, PlaceholdersV31, TLC

MCCodes == {"G1", "P1", "P2", "E1", "E2", "A1", "A2", "X1"}
MCOutcomes == {"NOT_ELIGIBLE", "INDETERMINATE"} \cup {"OUT_" \o c : c \in MCCodes}
MCReasons ==
  {"NO_RULE", "FACT_VALUE_MISSING_OR_INVALID", "BUSINESS_CONFIRMATION_REQUIRED"}
  \cup {"BECAUSE_" \o c : c \in MCCodes}

Coded(c) == [code |-> c, outcome |-> "OUT_" \o c, reason |-> "BECAUSE_" \o c]
Staged(codes) ==
  [rules |-> [s \in Stages |-> [i \in DOMAIN codes[s] |-> Coded(codes[s][i])]],
   defaultOutcome |-> "NOT_ELIGIBLE", defaultReason |-> "NO_RULE", blocking |-> FALSE]

Full == Staged(<<<<"G1">>, <<"P1">>, <<"E1", "E2">>, <<"A1", "A2">>, <<"X1">>>>)
Sparse == Staged(<<<<>>, <<"P1", "P2">>, <<"E1">>, <<>>, <<"X1">>>>)
Unqualified == Staged(<<<<>>, <<>>, <<>>, <<"A1">>, <<>>>>)
Silent == [Sparse EXCEPT !.rules[2][1].outcome = Null, !.rules[3][1].reason = Null]
MCStructures ==
  {Full, Sparse, Unqualified, Silent, [Sparse EXCEPT !.blocking = TRUE]}

MCConditions == {"is-blank", "is_blank", "expr1"}
MCMaxUses == 4
MCExprId == [n \in 0..MCMaxUses |-> "expr" \o ToString(n)]
MCSlug ==
  [id \in MCConditions \cup {MCExprId[n] : n \in 0..MCMaxUses} |->
     IF id = "is-blank" THEN "is_blank" ELSE id]

----------------------------------------------------------------------------
NoDeliveryYet == intake = "start" /\ request = Command("files", V, 5, 5, 1)
NoRuleYet ==
  structure = Unqualified /\ progress = "start" /\ \A v \in Places(structure) : verdict[v] = "pass"
NoLiteralYet == writing = "writing" /\ parameters = <<>>

\* One of the initial states of the others is enough.
Init == DeliveryInit /\ DecisionInit /\ PlaceholderInit /\ (NoDeliveryYet \/ NoRuleYet)

Next ==
  \/ NoRuleYet /\ NoLiteralYet /\ DeliveryNext /\ UNCHANGED <<decisionVars, placeholderVars>>
  \/ NoDeliveryYet /\ NoLiteralYet /\ DecisionNext /\ UNCHANGED <<deliveryVars, placeholderVars>>
  \/ NoDeliveryYet /\ NoRuleYet /\ PlaceholderNext /\ UNCHANGED <<deliveryVars, decisionVars>>

Spec == Init /\ [][Next]_<<deliveryVars, decisionVars, placeholderVars>>
============================================================================
