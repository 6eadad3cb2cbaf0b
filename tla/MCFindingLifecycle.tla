------------------------- MODULE MCFindingLifecycle -------------------------
EXTENDS FindingLifecycle, TLC

MCSla == (1 :> 2) @@ (2 :> 1)

=============================================================================
