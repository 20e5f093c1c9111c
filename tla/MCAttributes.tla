---------------------------- MODULE MCAttributes ----------------------------
(***************************************************************************)
(* Model-checking instance of Attributes: two slots, a float and an      *)
(* integer class of each shape, two payload values and vectors of at most *)
(* two elements.  Only typedef objects take part: no bare Attribute.     *)
(***************************************************************************)
EXTENDS Attributes

MCClasses == {"FloatAttr", "IntAttr", "FloatsAttr", "IntsAttr"}
\* No bare Attribute objects: only the typedef classes take part.
MCNoBareKinds == {}
=============================================================================
