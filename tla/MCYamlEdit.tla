---------------------------- MODULE MCYamlEdit ----------------------------
(* YamlEdit on two fields, which are interchangeable.                      *)
EXTENDS YamlEdit, TLC

CONSTANTS f1, f2

FieldSymmetry == Permutations({f1, f2})
=============================================================================
