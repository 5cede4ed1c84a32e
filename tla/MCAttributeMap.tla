--------------------------- MODULE MCAttributeMap ---------------------------
(***************************************************************************)
(* AttributeMap for TLC: two keys, an empty and a string value, one value  *)
(* and one map in the caller's hands, four lists.                          *)
(***************************************************************************)
EXTENDS AttributeMap

CONSTANTS v1, m1

TwoKeys      == {1, 2}
TwoScalars   == {[type |-> t, data |-> 0] : t \in {"empty", "string"}}
OneValue     == {v1}
OneMap       == {m1}
=============================================================================
