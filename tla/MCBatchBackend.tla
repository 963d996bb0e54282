--------------------------- MODULE MCBatchBackend ---------------------------
(* Instances of BatchBackend for TLC.                                      *)
EXTENDS BatchBackend

CONSTANTS i1, i2, i3, small, large

ThreeItems == {i1, i2, i3}

\* Two items for the extraction model, one for the reasoning model.
BothModels == <<small, large>>

MixedModels == [x \in ThreeItems |-> IF x = i3 THEN large ELSE small]
=============================================================================
