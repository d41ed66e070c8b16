------------------------- MODULE EvaluationPipeline -------------------------
(***************************************************************************)
(* The API process, the outbox publishers and the evaluation workers on    *)
(* one database and one topic: what the publishers put into the topic,     *)
(* early, late or twice, is what the workers poll.  Nothing connects the   *)
(* processes but the tables, the topic and the database clock.             *)
(***************************************************************************)
EXTENDS OutboxPublisher, EvaluationWorker

pipelineVars == <<storeVars, publisherVars, workerVars>>

PipelineInit == StoreInit /\ PublisherInit /\ WorkerInit

\* One clock drives the leases of both sides.
PipelineTick ==
    /\ Tick
    /\ IF SlowBatch THEN Outage ELSE UNCHANGED outages
    /\ UNCHANGED <<batch, ptoken, current, stage, inflight>>

PublisherSide(p) == PublisherStep(p) /\ UNCHANGED workerVars
WorkerSide(w) == WorkerStep(w) /\ UNCHANGED publisherVars

PipelineNext ==
    \/ ServiceStep /\ UNCHANGED <<publisherVars, workerVars>>
    \/ PublisherNext /\ UNCHANGED workerVars
    \/ \E w \in Workers : WorkerSide(w) \/ ((Kill(w) \/ Fail(w)) /\ UNCHANGED publisherVars)
    \/ (Evict \/ Intrude) /\ UNCHANGED publisherVars
    \/ PipelineTick

PipelineSpec == PipelineInit /\ [][PipelineNext]_pipelineVars

(* The fairness of both sides; nothing is assumed about the topic, because *)
(* here the publishers fill it.                                            *)
PipelineFairSpec ==
    /\ PipelineSpec
    /\ \A p \in Publishers : WF_pipelineVars(PublisherSide(p))
    /\ \A w \in Workers : WF_pipelineVars(WorkerSide(w))
    /\ WF_pipelineVars(PipelineTick)
    /\ WF_pipelineVars(EvictDead /\ UNCHANGED publisherVars)

----------------------------------------------------------------------------
(* Properties *)

\* The whole chain: a submitted job ends with an outcome that the consumer
\* group has recorded, whatever dies on the way.
SubmittedIsProcessed ==
    \A j \in Jobs : job[j].status = "QUEUED" ~> processed[j] # "none"

=============================================================================
