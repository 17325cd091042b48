------------------------------- MODULE MCFlinkJob -------------------------------
(* Instances of module FlinkJob for TLC: an order, and an invoice paid late. *)
EXTENDS FlinkJob

Kinds == {"order", "late"}
Late  == {"late"}
=============================================================================
