------------------------------- MODULE MCPipeline -------------------------------
(* Instances of module Pipeline for TLC: a sample of three rows, the second of *)
(* them an invoice paid late, and an IAFDemo like the sample's.                *)
EXTENDS Pipeline

LateRows == {2}

InPairs == {[messagesPerGroup |-> 2, sequenceRepititions |-> 1]}
=============================================================================
