--------------------------- MODULE MCRuleStoreApi ---------------------------
(* Two requests of any two kinds, and two documents of which the newer is  *)
(* damaged; no adapter at all, or two that open and close.                 *)
EXTENDS RuleStoreApi

MCKeys == 1..2
MCDamaged == {2}
MCConfigurations == {{}, {"database", "candidateStore"}}
=============================================================================
