--------------------------- MODULE MCUploadPipeline ---------------------------
(* The instance of UploadPipeline for TLC.  Contents are interchangeable.  *)
EXTENDS UploadPipeline, TLC

Symmetry == Permutations(Contents)
=============================================================================
