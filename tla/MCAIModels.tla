------------------------------- MODULE MCAIModels -------------------------------
(* Instances of module AIModels for TLC; the .cfg files give the bounds. *)
EXTENDS AIModels

\* What models/anomaly-classifier/1 holds.
BundledModel == {"saved_model.pb", "variables.data", "variables.index"}
=============================================================================
