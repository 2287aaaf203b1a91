---------------------------- MODULE MCIntegration ----------------------------
(* What leaves the process, and what runs on its events. A behaviour is about *)
(* one of: webhooks (one dispatcher, passes of one row, one of them lost);    *)
(* the runtime export (an expert and a bot resource, which exports read first *)
(* and last, a thread of requests and the maintenance job); the circuit       *)
(* breaker; the outbox; sagas. The parts share no state.                      *)
EXTENDS Webhooks, RuntimeExport, CircuitBreaker, Outbox, Sagas

CONSTANTS
  expert, resource,
  MaxUpserts   \* bound: subscriptions saved

MCTypeOf == [n \in Nodes |-> IF n = expert THEN "ai_expert" ELSE "bot_resource"]

VARIABLES
  part,        \* what this behaviour is about
  upserts

webhookVars == <<hookVars, upserts>>

MCInit ==
  /\ HooksInit /\ upserts = 0
  /\ ExportInit /\ BreakerInit /\ OutboxInit /\ SagaInit
  /\ part \in {"webhooks", "export", "breaker", "outbox", "sagas"}

WebhooksNext ==
  \/ \E a \in Activities \ {Upserted} : Activity(a) /\ UNCHANGED upserts
  \/ \E h \in Hooks, row \in SavedRows :
       Upsert(h, row) /\ upserts < MaxUpserts /\ upserts' = upserts + 1
  \/ \E d \in Dispatchers : (PassStep(d) \/ Lose(d)) /\ UNCHANGED upserts
  \/ Tick /\ UNCHANGED upserts

MCNext ==
  /\ \/ /\ part = "webhooks" /\ WebhooksNext
        /\ UNCHANGED <<exportVars, breakerVars, outboxVars, sagaVars>>
     \/ /\ part = "export" /\ ExportNext
        /\ UNCHANGED <<webhookVars, breakerVars, outboxVars, sagaVars>>
     \/ /\ part = "breaker" /\ BreakerNext
        /\ UNCHANGED <<webhookVars, exportVars, outboxVars, sagaVars>>
     \/ /\ part = "outbox" /\ OutboxNext
        /\ UNCHANGED <<webhookVars, exportVars, breakerVars, sagaVars>>
     \/ /\ part = "sagas" /\ SagaNext
        /\ UNCHANGED <<webhookVars, exportVars, breakerVars, outboxVars>>
  /\ UNCHANGED part

\* HooksFairness, ExportFairness and BreakerFairness, each where it applies.
MCFairness ==
  /\ \A d \in Dispatchers : WF_hookVars(part = "webhooks" /\ PassStep(d))
  /\ WF_hookVars(part = "webhooks" /\ Tick)
  /\ \A t \in Threads : WF_exportVars(part = "export" /\ ExportStep(t))
  /\ \A t \in Workers : WF_exportVars(part = "export" /\ AskStatus(t))
  /\ WF_breakerVars(part = "breaker" /\ TimePasses)
  /\ \A c \in Callers : WF_breakerVars(part = "breaker" /\ Run(c))

MCSpec ==
  MCInit /\ [][MCNext]_<<webhookVars, exportVars, breakerVars, outboxVars, sagaVars, part>>
         /\ MCFairness
=============================================================================
