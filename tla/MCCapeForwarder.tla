--------------------------- MODULE MCCapeForwarder ---------------------------
(* Instances of CapeForwarder for TLC.  Workers, contents and names are    *)
(* interchangeable.                                                        *)
EXTENDS CapeForwarder, TLC

Symmetry == Permutations(Workers) \cup Permutations(Contents)
=============================================================================
