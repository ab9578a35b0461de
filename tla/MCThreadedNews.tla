--------------------------- MODULE MCThreadedNews ---------------------------
(* Constants of the ThreadedNews instances. *)
EXTENDS ThreadedNews

CONSTANTS bundle, inner  \* a bundle and the category in it

MCUp == [g \in Groups |-> IF g = inner THEN bundle ELSE Root]
=============================================================================
