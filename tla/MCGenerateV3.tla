---------------------------- MODULE MCGenerateV3 ----------------------------
(* An instance of GenerateV3.  Both runs write their pack to one path and  *)
(* their export to another; one of them has the limit of 5 retries.        *)
EXTENDS GenerateV3, TLC

CONSTANTS a, b, out, other, good, bad

FullRetries == (a :> 5) @@ (b :> 0)
SamePack == (a :> out) @@ (b :> out)
MCExportPath == (a :> other) @@ (b :> other)
=============================================================================
