----------------------- MODULE MCSqlServerValidation -----------------------
(* Instances of SqlServerValidation; the objects are interchangeable.      *)
EXTENDS SqlServerValidation, TLC

MCSymmetry == Permutations(Objects)
=============================================================================
