------------------------------- MODULE MCProducer -------------------------------
(* Instances of module Producer for TLC: five rows in groups of two or three,  *)
(* so that neither divides the sample, and the boundaries of each setting.     *)
EXTENDS Producer

Setting(group, reps) == [messagesPerGroup |-> group, sequenceRepititions |-> reps]

\* Groups that leave a rest, never pause and pause each time; no sequence, some,
\* the default, no end.
Boundaries ==
  {Setting(g, r) : g \in {0, 2, 3, 5, 6, NotANumber}, r \in {-1, 0, 2, NotANumber}}

\* The settings that ask for a number of sequences.
Counted == {Setting(g, r) : g \in {2, NotANumber}, r \in {0, 1, 2, 3}}
=============================================================================
