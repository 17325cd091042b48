------------------------------ MODULE MCReconciler ------------------------------
(***************************************************************************)
(* Instances of module Reconciler for TLC.  A run takes the whole walk, or *)
(* a part of it that keeps one stage of every sort its question is about:  *)
(* what the stages left out would do, another of the same sort does.       *)
(***************************************************************************)
EXTENDS Reconciler

AllStages == Stages

\* Two gates, the AI stage, a topic, an index, and the task behind them.
EachSort == {Cartridge, CartridgeRequirements, AIDeployment, RawTopic, RawIndex,
             EventProcessingTask}

\* The path to the Knative connection, up to a stage behind the kind the client
\* lacks; of the objects on it, three have an owner that may change.
KnativePath == {Cartridge, CartridgeRequirements, RawIndex, KafkaSource,
                InMemoryChannel, ProducerDeployment}
=============================================================================
