--------------------------- MODULE MCWebhookQueue ---------------------------
(* Small instances of WebhookQueue for TLC. *)
EXTENDS WebhookQueue, TLC

\* Events and dispatchers are interchangeable.
Symmetry == Permutations(Events) \cup Permutations(Dispatchers)
=============================================================================
