--------------------------------- MODULE MCRisk ---------------------------------
(***************************************************************************)
(* An instance of module Risk for TLC: invoices on both sides of every     *)
(* threshold, a model whose answers are too, one that has no prediction    *)
(* for some delay, and answers that an int of this size does not hold.     *)
(* Only the first topic can be read and sent to its end: a late invoice    *)
(* follows the message that cannot in each of the other two.               *)
(***************************************************************************)
EXTENDS Risk

\* What models/anomaly-classifier/1 holds.
BundledModel == {"saved_model.pb", "variables.data", "variables.index"}

Invoice(amount, payType, delay) ==
  [hasId |-> TRUE, amount |-> amount, payType |-> payType, delay |-> delay]

WithoutId(invoice) == [invoice EXCEPT !.hasId = FALSE]

AllThresholds ==
  << Invoice(0, "Late", 208), Invoice(5000, "Late", 91), WithoutId(Invoice(9000, "Early", 0)),
     Invoice(5001, "Late", 90), Invoice(5001, "Late", 91), Invoice(1, "Late", 4),
     Invoice(9000, "Late", 169) >>

Interrupted(m) == << Invoice(1, "Late", 4), m, Invoice(5001, "Late", 91) >>

SomeTopics ==
  {AllThresholds, Interrupted(Malformed), Interrupted(WithoutId(Invoice(5001, "Late", 90)))}

Answering(a, b, c, d) ==
  [t \in {0, 4, 90, 91, 169, 208} |->
     CASE t <= 4 -> a [] t = 90 -> b [] t = 91 -> c [] OTHER -> d]

SomeModels ==
  { Answering(500, 501, 1000, 1001), Answering(-5, 495, 999, 1281), Answering(0, 1, Unusable, 2) }
=============================================================================
