-------------------------- MODULE WorkflowSchemes --------------------------
(***************************************************************************)
(* The workflow engine of the service desk and the ten schemes it ships    *)
(* (extensibility/example_plugins/itsm/workflow.py, service_desk.py).      *)
(* A scheme is a set of statuses, one of them initial, and of moves        *)
(* between them (WorkflowTransition). A move without origins is global: it *)
(* starts anywhere. Its conditions are names of predicates on the call and *)
(* the request; its effects are what the desk does besides (post_functions *)
(* in the code). Names shown to people are left out, and so is the         *)
(* category of a status but for the done ones.                             *)
(***************************************************************************)

Move(id, to, from, conditions, effects) ==
  [id |-> id, to |-> to, from |-> from, conditions |-> conditions, effects |-> effects]

StampResolved == {"stamp_resolved_at"}
AssignToActor == {"assign_to_actor"}

\* Moves that occur in several schemes.
Step(id, to, from) == Move(id, to, from, {}, {})
Finish(id, to, from) == Move(id, to, from, {}, StampResolved)
TakeUp(id, to, from) == Move(id, to, from, {"is_agent"}, AssignToActor)
Manage(id, to, from) == Move(id, to, from, {"is_manager"}, {})
Resolve(from) == Move("resolve", "resolved", from, {"resolution_set"}, StampResolved)
BoardApprove(from) ==
  Move("approve", "approved", from, {"change_approved", "is_manager"}, {})
Cancel == Finish("cancel", "cancelled", {})

Incident ==
  [initial |-> "open", open |-> {"open", "triaged", "in_progress", "pending"},
   done |-> {"resolved", "closed", "cancelled"},
   moves |-> {Step("triage", "triaged", {"open"}),
              TakeUp("start", "in_progress", {"triaged", "pending"}),
              Step("wait", "pending", {"in_progress"}),
              Resolve({"in_progress"}),
              Step("close", "closed", {"resolved"}),
              Step("reopen", "open", {"resolved", "closed"}),
              Cancel}]

ServiceRequest ==
  [initial |-> "submitted", open |-> {"submitted", "approval", "fulfilment"},
   done |-> {"delivered", "rejected"},
   moves |-> {Step("request_approval", "approval", {"submitted"}),
              Move("approve", "fulfilment", {"approval"}, {"is_manager"}, AssignToActor),
              Manage("reject", "rejected", {"approval"}),
              Finish("deliver", "delivered", {"fulfilment"})}]

ChangeUnreviewed ==
  [initial |-> "draft", open |-> {"draft", "review", "approved", "implementing"},
   done |-> {"done", "rolled_back"},
   moves |-> {Step("submit", "review", {"draft"}),
              BoardApprove({"review"}),
              Step("reject", "draft", {"review"}),
              Step("implement", "implementing", {"review", "approved"}),
              Finish("complete", "done", {"implementing"}),
              Finish("rollback", "rolled_back", {"implementing"})}]
Change ==
  [initial |-> "draft", open |-> {"draft", "review", "approved", "implementing"},
   done |-> {"done", "rolled_back"},
   moves |-> {Step("submit", "review", {"draft"}),
              BoardApprove({"review"}),
              Step("reject", "draft", {"review"}),
              Step("implement", "implementing", {"approved"}),
              Finish("complete", "done", {"implementing"}),
              Finish("rollback", "rolled_back", {"implementing"})}]

MajorIncident ==
  [initial |-> "declared",
   open |-> {"declared", "assembled", "investigating", "mitigated", "resolved", "review"},
   done |-> {"closed", "cancelled"},
   moves |-> {TakeUp("assemble", "assembled", {"declared"}),
              Step("investigate", "investigating", {"assembled"}),
              Step("mitigate", "mitigated", {"investigating"}),
              Resolve({"mitigated"}),
              Manage("start_review", "review", {"resolved"}),
              Step("close", "closed", {"review"}),
              Step("reopen", "investigating", {"resolved", "review"}),
              Cancel}]

Problem ==
  [initial |-> "new",
   open |-> {"new", "investigation", "known_error", "change_requested", "resolved"},
   done |-> {"closed", "cancelled"},
   moves |-> {TakeUp("investigate", "investigation", {"new"}),
              Step("identify", "known_error", {"investigation"}),
              Manage("raise_change", "change_requested", {"known_error"}),
              Resolve({"known_error", "change_requested"}),
              Step("close", "closed", {"resolved"}),
              Step("reopen", "investigation", {"resolved", "closed"}),
              Cancel}]

StandardChange ==
  [initial |-> "requested", open |-> {"requested", "scheduled", "implementing"},
   done |-> {"implemented", "failed"},
   moves |-> {Step("schedule", "scheduled", {"requested"}),
              TakeUp("implement", "implementing", {"scheduled"}),
              Finish("complete", "implemented", {"implementing"}),
              Finish("fail", "failed", {"implementing"})}]

EmergencyChange ==
  [initial |-> "raised", open |-> {"raised", "ecab_review", "approved", "implementing"},
   done |-> {"implemented", "rejected", "rolled_back"},
   moves |-> {Step("submit", "ecab_review", {"raised"}),
              BoardApprove({"ecab_review"}),
              Manage("reject", "rejected", {"ecab_review"}),
              Step("implement", "implementing", {"approved"}),
              Finish("complete", "implemented", {"implementing"}),
              Finish("rollback", "rolled_back", {"implementing"})}]

Release ==
  [initial |-> "planned", open |-> {"planned", "building", "testing", "ready", "deploying"},
   done |-> {"deployed", "rolled_back", "cancelled"},
   moves |-> {TakeUp("build", "building", {"planned"}),
              Step("test", "testing", {"building"}),
              Manage("go", "ready", {"testing"}),
              Step("deploy", "deploying", {"ready"}),
              Finish("complete", "deployed", {"deploying"}),
              Finish("rollback", "rolled_back", {"deploying"}),
              Cancel}]

Event ==
  [initial |-> "new", open |-> {"new", "triaged", "correlated", "in_progress"},
   done |-> {"resolved", "suppressed"},
   moves |-> {TakeUp("triage", "triaged", {"new"}),
              Step("suppress", "suppressed", {"triaged"}),
              Step("correlate", "correlated", {"triaged"}),
              Step("respond", "in_progress", {"correlated"}),
              Finish("auto_close", "resolved", {"correlated"}),
              Finish("resolve", "resolved", {"in_progress"})}]

Knowledge ==
  [initial |-> "draft", open |-> {"draft", "review", "approved"},
   done |-> {"published", "archived", "rejected"},
   moves |-> {TakeUp("submit", "review", {"draft"}),
              Manage("approve", "approved", {"review"}),
              Manage("reject", "rejected", {"review"}),
              Finish("publish", "published", {"approved"}),
              Step("archive", "archived", {"published"}),
              Step("revise", "draft", {"published"})}]

Schemes ==
  [incident |-> Incident, major_incident |-> MajorIncident, problem |-> Problem,
   service_request |-> ServiceRequest, change |-> Change,
   standard_change |-> StandardChange, emergency_change |-> EmergencyChange,
   release |-> Release, event |-> Event, knowledge |-> Knowledge]

Statuses(scheme) == scheme.open \cup scheme.done

-----------------------------------------------------------------------------
(* The engine. A context says who calls (role) and what is known: whether  *)
(* there is an assignee and a resolution, and whether the call says that   *)
(* the change is approved. A condition nobody registered holds.            *)

AppliesFrom(move, status) == move.from = {} \/ status \in move.from

ConditionMet(name, context) ==
  /\ name = "assignee_set" => context.assigned
  /\ name = "resolution_set" => context.resolution
  /\ name = "is_agent" => context.role \in {"agent", "manager", "admin"}
  /\ name = "is_manager" => context.role \in {"manager", "admin"}
  /\ name = "change_approved" => context.approved

\* The moves apply() accepts, though it offers no move to where one is
\* (available_transitions).
MayApply(scheme, move, status, context) ==
  /\ move \in scheme.moves
  /\ AppliesFrom(move, status)
  /\ move.to \in Statuses(scheme)
  /\ \A name \in move.conditions : ConditionMet(name, context)
=============================================================================
