------------------------------ MODULE Admission ------------------------------
(***************************************************************************)
(* Requests in front of the quotas: Quota, the counters of all the rules,  *)
(* with requests of which only the quota stage counts; and Gateway, the    *)
(* whole chain of stages, which sees of the quotas the slots of the        *)
(* concurrency rule. They share no state.                                  *)
(***************************************************************************)
EXTENDS Quota

CONSTANTS Sender, Worker, Traffic, IdempotencyKey, NoKey, Installed, ValidateResponses,
          MaxSlots, Raising

VARIABLES flow, sent, response, log, slots, records, job

Pipeline == INSTANCE Gateway WITH Request <- Sender, Key <- IdempotencyKey

pipelineVars == <<flow, sent, response, log, slots, records, job>>

ASSUME PipelineAssumption == Pipeline!GatewayAssumption

-----------------------------------------------------------------------------
(* The properties of Gateway, which see.                                   *)

\* The concurrency quota counts who is inside it, and nobody else.
SlotsAreHeld == Pipeline!SlotsAreHeld

\* What was answered was audited, once, with its outcome.
AuditedAsAnswered == Pipeline!AuditedAsAnswered
=============================================================================
