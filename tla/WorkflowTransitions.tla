------------------------ MODULE WorkflowTransitions -------------------------
(***************************************************************************)
(* WorkflowCommandService.transition (application/workflow_service.py)     *)
(* beside the operations of ContentNodes. A request reads the node, then   *)
(* its workflow row, asks the Workflow aggregate whether the move is in    *)
(* the table, and writes the row it read back under the new state: three   *)
(* transactions, between which the requests of other threads run.          *)
(***************************************************************************)
EXTENDS ContentNodes

CONSTANT Requests   (* requests to the transition route in progress at once *)

\* A node without a row is in no state of its own (NULL is no state's name).
ASSUME StateAssumption == None \notin WorkflowStates

VARIABLES
  request,   (* what each has read so far, or NoRequest                     *)
  reviewed   (* nodes whose row has been in review: a history variable      *)

requestVars == <<vars, request, reviewed>>

\* WORKFLOW_TRANSITIONS.
LegalMoves ==
  [draft             |-> {"in_review", "scheduled", "published", "archived", "trashed"},
   in_review         |-> {"approved", "changes_requested", "draft"},
   changes_requested |-> {"draft", "in_review"},
   approved          |-> {"scheduled", "published", "draft"},
   scheduled         |-> {"published", "draft", "unpublished"},
   published         |-> {"unpublished", "archived", "draft"},
   unpublished       |-> {"draft", "published", "archived"},
   archived          |-> {"draft", "trashed"},
   trashed           |-> {"draft"}]

CanTransitionBack(from, to) == from \in LegalMoves[to]
CanTransition(from, to) == to \in LegalMoves[from]

\* get_workflow: a node without a row is in the state its status names.
ShownState(row, status) == IF row.state = None THEN status ELSE row.state

NoRequest == [node |-> None]

RequestInit ==
  /\ Init
  /\ request = [r \in Requests |-> NoRequest]
  /\ reviewed = {}

\* The first read of get_workflow; an unknown node or target state raises.
SeeNode(r, n, to) ==
  /\ request[r] = NoRequest
  /\ Exists(n)
  /\ request' = [request EXCEPT ![r] =
       [node |-> n, to |-> to, status |-> nodes[n].status, row |-> None]]
  /\ UNCHANGED <<vars, reviewed>>

\* The second read, and the aggregate's decision: an illegal move raises.
LoadRow(r) ==
  LET q == request[r]
  IN  /\ q # NoRequest /\ q.row = None
      /\ request' = [request EXCEPT ![r] =
           IF CanTransition(ShownState(workflows[q.node], q.status), q.to)
           THEN [q EXCEPT !.row = workflows[q.node]]
           ELSE NoRequest]
      /\ UNCHANGED <<vars, reviewed>>

\* Every step that writes workflow rows may put nodes in review.
NoteReviews == reviewed' = reviewed \cup {n \in NodeIds : workflows'[n].state = "in_review"}

Save(r) ==
  LET q == request[r]
  IN  /\ q # NoRequest /\ q.row # None
      /\ IF Exists(q.node)
         THEN UpsertWorkflow(q.node, q.to, q.row.publishAt, q.row.unpublishAt)
         ELSE UNCHANGED vars
      /\ request' = [request EXCEPT ![r] = NoRequest]
      /\ NoteReviews

RequestStep(r) ==
  \/ \E n \in NodeIds, to \in WorkflowStates : SeeNode(r, n, to)
  \/ LoadRow(r)
  \/ Save(r)

\* The editors' form calls upsert_workflow directly, with any state it likes;
\* the properties below are about the command, so it is not among the steps.
RequestNext ==
  \/ \E r \in Requests : RequestStep(r)
  \/ TreeStep /\ UNCHANGED request /\ NoteReviews

RequestSpec == RequestInit /\ [][RequestNext]_requestVars

-----------------------------------------------------------------------------
\* Nothing is approved that was never in review: no interleaving of requests
\* with each other and with publications, deletions and restores (which set
\* the state themselves) can lead around the review.
ApprovedWasReviewed ==
  \A n \in NodeIds : workflows[n].state = "approved" => n \in reviewed

\* WORKFLOW_TRANSITIONS is "the single source of truth for legal moves"
\* (domain/workflow/workflow.py): a request moves a row only along the table.
LegalMovesOnly ==
  [][\A r \in Requests, n \in NodeIds :
       (request[r].node = n /\ workflows'[n] # workflows[n] /\ request'[r] = NoRequest) =>
         CanTransition(ShownState(workflows[n], nodes[n].status), workflows'[n].state)
     ]_requestVars
=============================================================================
