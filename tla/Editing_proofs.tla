--------------------------- MODULE Editing_proofs ---------------------------
(***************************************************************************)
(* What editors of a page may rely on, for any number of them.             *)
(*                                                                         *)
(* The promise of the edit lock, for editors who give their names. (Without *)
(* a name MayWrite lets a caller through: the assumption                   *)
(* NoActor \notin Actors is needed, and is all that is.)                   *)
(*                                                                         *)
(* That nothing is approved without a review, for any number of requests   *)
(* to the transition route. The promise itself is not inductive: a request *)
(* that has passed its check and not yet written carries it too, and rows  *)
(* in review have to be known as reviewed.                                 *)
(*                                                                         *)
(* That seeding again makes no second page of a source. Between the look   *)
(* of a seeder and its creation everything may happen; what holds then, of *)
(* a source nobody else gave a page, is OneEach.                           *)
(*                                                                         *)
(* That the passes of scheduled publishing, the editors, the requests and  *)
(* the seeders all do to the database what ContentNodes does. What the     *)
(* passes carry over from one of their steps to the next (PassInv) has to  *)
(* stay what upsert_content_workflow accepts.                              *)
(***************************************************************************)
EXTENDS EditLocks, WorkflowTransitions, Seeding, ScheduledPublishing, ContentNodes_proofs

EditInv ==
  /\ LifecycleInv
  /\ onScreen \in [NodeIds -> Payloads \cup {None}]
  /\ LockProtectsDraft

\* Every step of an editor is a step of the service.
LEMMA EditNextIsNext == EditNext => Next
BY DEF EditNext, Reserve, Next, TreeStep, HistoryStep, LockStep

\* A step that saves a draft of n under its lock, and leaves every other draft
\* and every lock alone, keeps what the holders have on their screens.
LEMMA WrittenStep ==
  ASSUME NoActor \notin Actors, EditInv, LifecycleInv',
         NEW n \in NodeIds, NEW actor \in Actors,
         MayWrite(n, actor), Written(n, actor), Exists(n)',
         \A m \in NodeIds \ {n} : nodes'[m].draft = nodes[m].draft,
         UNCHANGED <<locks, now>>
  PROVE  EditInv'
<1>1. nodes'[n].draft \in Payloads
  BY DEF LifecycleInv, TypeOK, NewestVersionIsDraft, VersionRows
<1>2. onScreen' \in [NodeIds -> Payloads \cup {None}]
  BY <1>1 DEF EditInv, Written
<1>3. ASSUME NEW m \in NodeIds, LockActive(m)'
      PROVE  nodes'[m].draft = onScreen'[m]
  <2>1. LockActive(m)
    BY <1>3 DEF LockActive
  <2>2. CASE m = n
    <3>1. Holds(actor, n)
      BY <2>1, <2>2 DEF MayWrite, Holds
    <3> QED
      BY <2>2, <3>1 DEF Written, EditInv
  <2>3. CASE m # n
    BY <2>1, <2>3 DEF Written, EditInv, LockProtectsDraft
  <2> QED
    BY <2>2, <2>3
<1> QED
  BY <1>2, <1>3 DEF EditInv, LockProtectsDraft

\* A step after which each active lock was active before, over the same draft,
\* and that shows nobody anything.
LEMMA UnseenStep ==
  ASSUME EditInv, LifecycleInv', UNCHANGED onScreen,
         \A m \in NodeIds : LockActive(m)' => LockActive(m) /\ nodes'[m].draft = nodes[m].draft
  PROVE  EditInv'
BY DEF EditInv, LockProtectsDraft

\* A step that frees the lock of n, and touches no other draft.
LEMMA FreedLockStep ==
  ASSUME EditInv, LifecycleInv', UNCHANGED <<onScreen, now>>, NEW n \in NodeIds,
         locks' = [locks EXCEPT ![n] = NoLock],
         \A m \in NodeIds \ {n} : nodes'[m].draft = nodes[m].draft
  PROVE  EditInv'
<1>1. ~LockActive(n)'
  BY DEF LockActive, NoLock, EditInv, LifecycleInv, TypeOK
<1>2. \A m \in NodeIds \ {n} : locks'[m] = locks[m]
  BY DEF EditInv, LifecycleInv, TypeOK
<1> QED
  BY <1>1, <1>2, UnseenStep DEF LockActive

\* A step that makes a node: nobody can hold a lock on it yet.
LEMMA NewNodeStep ==
  ASSUME EditInv, LifecycleInv', UNCHANGED <<onScreen, locks, now>>,
         NEW n \in NodeIds, ~Exists(n),
         \A m \in NodeIds \ {n} : nodes'[m].draft = nodes[m].draft
  PROVE  EditInv'
<1>1. ~LockActive(n)
  BY DEF LockActive, NoLock, EditInv, LifecycleInv, TypeOK, NothingOutlivesPurge
<1> QED
  BY <1>1, UnseenStep DEF LockActive

LEMMA EditStep ==
  ASSUME NoActor \notin Actors, EditInv, [EditNext]_editVars
  PROVE  EditInv'
<1>0. LifecycleInv' /\ LifecycleInv
  BY EditNextIsNext, LifecycleNext DEF editVars, EditInv
<1>1. ASSUME NEW n \in NodeIds, NEW a \in Actors, NEW ttl \in Ttls,
             NEW force \in BOOLEAN, Reserve(n, a, ttl, force)
      PROVE  EditInv'
  <2>1. UNCHANGED <<nodes, now>> /\ \A m \in NodeIds \ {n} : locks'[m] = locks[m]
    BY <1>1, <1>0 DEF Reserve, AcquireLock, LifecycleInv, TypeOK
  <2>2. nodes[n].draft \in Payloads
    BY <1>0, <1>1, DraftIsPayload DEF Reserve, AcquireLock
  <2>3. onScreen' \in [NodeIds -> Payloads \cup {None}]
    BY <1>1, <2>2 DEF Reserve, EditInv
  <2>4. ASSUME NEW m \in NodeIds, LockActive(m)'
        PROVE  nodes'[m].draft = onScreen'[m]
    <3>1. CASE m # n
      BY <1>1, <2>1, <2>4, <3>1 DEF Reserve, EditInv, LockProtectsDraft, LockActive
    <3>2. CASE m = n /\ Holds(a, n)
      BY <1>1, <2>1, <3>2 DEF Reserve, Holds, EditInv, LockProtectsDraft
    <3>3. CASE m = n /\ ~Holds(a, n)
      BY <1>1, <2>1, <3>3 DEF Reserve, EditInv
    <3> QED
      BY <3>1, <3>2, <3>3
  <2> QED
    BY <1>0, <2>3, <2>4 DEF EditInv, LockProtectsDraft
<1>2. ASSUME NEW n \in NodeIds, NEW a \in Actors, NEW s \in Slugs \cup {None},
             NEW d \in Payloads, Update(n, s, d, a), Written(n, a)
      PROVE  EditInv'
  <2>1. Exists(n)' /\ \A m \in NodeIds \ {n} : nodes'[m].draft = nodes[m].draft
    BY <1>0, <1>2, UpdateEffect DEF Exists
  <2> QED
    BY <1>0, <1>2, <2>1, WrittenStep DEF Update
<1>3. ASSUME NEW n \in NodeIds, NEW a \in Actors, NEW no,
             RestoreVersion(n, no, a), Written(n, a)
      PROVE  EditInv'
  <2>1. Exists(n)' /\ \A m \in NodeIds \ {n} : nodes'[m].draft = nodes[m].draft
    BY <1>0, <1>3 DEF RestoreVersion, LifecycleInv, TypeOK, NodeRows, Exists, StatusOnEdit
  <2> QED
    BY <1>0, <1>3, <2>1, WrittenStep DEF RestoreVersion
<1>4. ASSUME NEW n \in NodeIds, NEW a \in Actors, UNCHANGED onScreen,
             Publish(n, a) \/ Unpublish(n, a)
      PROVE  EditInv'
  <2>1. \A m \in NodeIds : nodes'[m].draft = nodes[m].draft
    BY <1>0, <1>4 DEF Publish, Unpublish, LifecycleInv, TypeOK, NodeRows
  <2>2. UNCHANGED <<locks, now>>
    BY <1>4 DEF Publish, Unpublish
  <2> QED
    BY <1>0, <1>4, <2>1, <2>2, UnseenStep DEF LockActive
<1>5. ASSUME NEW n \in NodeIds, NEW a \in Actors, Delete(n, a), UNCHANGED onScreen
      PROVE  EditInv'
  <2>1. /\ \A m \in NodeIds : nodes'[m].draft = nodes[m].draft
        /\ UNCHANGED now
        /\ locks' = [locks EXCEPT ![n] = NoLock]
    BY <1>0, <1>5 DEF Delete, CommitNodes, LifecycleInv, TypeOK, NodeRows
  <2> QED
    BY <1>0, <1>5, <2>1, FreedLockStep
<1>6. ASSUME NEW n \in NodeIds, Purge(n), UNCHANGED onScreen
      PROVE  EditInv'
  <2>1. /\ \A m \in NodeIds \ {n} : nodes'[m].draft = nodes[m].draft
        /\ UNCHANGED now
        /\ locks' = [locks EXCEPT ![n] = NoLock]
    BY <1>0, <1>6 DEF Purge, LifecycleInv, TypeOK
  <2> QED
    BY <1>0, <1>6, <2>1, FreedLockStep
<1>7. ASSUME NEW n \in NodeIds, NEW a \in Actors, NEW force \in BOOLEAN,
             ReleaseLock(n, a, force), UNCHANGED onScreen
      PROVE  EditInv'
  BY <1>0, <1>7, FreedLockStep DEF ReleaseLock
<1>8. ASSUME NEW n \in NodeIds, NEW p \in NodeIds \cup {None}, NEW s \in Slugs,
             NEW d \in Payloads, Create(n, p, s, d), UNCHANGED onScreen
      PROVE  EditInv'
  <2>1. /\ \A m \in NodeIds \ {n} : nodes'[m].draft = nodes[m].draft
        /\ UNCHANGED <<locks, now>> /\ ~Exists(n)
    BY <1>0, <1>8 DEF Create, CommitNodes, Fresh, Exists, LifecycleInv, TypeOK
  <2> QED
    BY <1>0, <1>8, <2>1, NewNodeStep
<1>9. ASSUME NEW n \in NodeIds, NEW copy \in NodeIds, NEW s \in Slugs,
             Duplicate(n, copy, s), UNCHANGED onScreen
      PROVE  EditInv'
  <2>1. /\ \A m \in NodeIds \ {copy} : nodes'[m].draft = nodes[m].draft
        /\ UNCHANGED <<locks, now>> /\ ~Exists(copy)
    BY <1>0, <1>9 DEF Duplicate, CommitNodes, Fresh, Exists, LifecycleInv, TypeOK
  <2> QED
    BY <1>0, <1>9, <2>1, NewNodeStep
<1>10. ASSUME NEW n \in NodeIds, RestoreTrashed(n), UNCHANGED onScreen
       PROVE  EditInv'
  <2>1. \A m \in NodeIds : nodes'[m].draft = nodes[m].draft
    BY <1>0, <1>10 DEF RestoreTrashed, CommitNodes, LifecycleInv, TypeOK, NodeRows
  <2>2. UNCHANGED <<locks, now>>
    BY <1>10 DEF RestoreTrashed
  <2> QED
    BY <1>0, <1>10, <2>1, <2>2, UnseenStep DEF LockActive
<1>11. ASSUME Tick, UNCHANGED onScreen
       PROVE  EditInv'
  BY <1>0, <1>11, UnseenStep DEF Tick, LockActive, LifecycleInv, TypeOK, LockRows
<1>12. ASSUME UNCHANGED editVars
       PROVE  EditInv'
  BY <1>0, <1>12, UnseenStep DEF editVars, vars, LockActive
<1> QED
  BY <1>1, <1>2, <1>3, <1>4, <1>5, <1>6, <1>7, <1>8, <1>9, <1>10, <1>11, <1>12 DEF EditNext

\* A lock that named callers respect is a promise kept: in every reachable state
\* the draft under an active lock is the one its holder works from.
THEOREM LockKeepsItsPromise ==
  ASSUME NoActor \notin Actors
  PROVE  EditSpec => []LockProtectsDraft
<1>1. EditInit => EditInv
  <2> SUFFICES ASSUME EditInit PROVE EditInv
    OBVIOUS
  <2>1. LifecycleInv
    BY LifecycleInit DEF EditInit
  <2>2. \A n \in NodeIds : ~LockActive(n)
    BY DEF EditInit, Init, LockActive, NoLock
  <2> QED
    BY <2>1, <2>2 DEF EditInit, EditInv, LockProtectsDraft
<1>2. EditInv /\ [EditNext]_editVars => EditInv'
  BY EditStep
<1>3. EditInv => LockProtectsDraft
  BY DEF EditInv
<1> QED
  BY <1>1, <1>2, <1>3, PTL DEF EditSpec

-----------------------------------------------------------------------------
(* Requests to the transition route.                                       *)

Pending == [node: NodeIds, to: WorkflowStates,
            status: NodeStatuses \ {"absent", "purged"}, row: WorkflowRows \cup {None}]

Reviewing == {"in_review", "approved"}

\* Rows in review or beyond it belong to nodes that are known as reviewed.
RowsReviewed == \A n \in NodeIds : workflows[n].state \in Reviewing => n \in reviewed

\* So do the approvals that have been checked and are about to be written.
ApprovalsChecked ==
  \A r \in Requests :
    (request[r] # NoRequest /\ request[r].row # None /\ request[r].to = "approved") =>
      request[r].node \in reviewed

RequestTypeOK == request \in [Requests -> Pending \cup {NoRequest}]

RequestInv ==
  /\ LifecycleInv
  /\ RequestTypeOK
  /\ RowsReviewed
  /\ ApprovalsChecked

-----------------------------------------------------------------------------
LEMMA RequestInvInit == RequestInit => RequestInv
<1> SUFFICES ASSUME RequestInit PROVE RequestInv
  OBVIOUS
<1>1. LifecycleInv
  BY LifecycleInit DEF RequestInit
<1>2. RequestTypeOK /\ ApprovalsChecked
  BY DEF RequestInit, RequestTypeOK, ApprovalsChecked
<1>3. \A n \in NodeIds : workflows[n].state = None
  BY DEF RequestInit, Init, NoWorkflow
<1>4. None \notin Reviewing
  BY StateAssumption DEF Reviewing, WorkflowStates
<1> QED
  BY <1>1, <1>2, <1>3, <1>4 DEF RequestInv, RowsReviewed

\* A transition's first read carries no approval yet (get_workflow).
LEMMA SeeNodeKeepsInv ==
  ASSUME RequestInv, NEW r \in Requests, NEW n \in NodeIds, NEW to \in WorkflowStates,
         SeeNode(r, n, to)
  PROVE  RequestInv'
<1> DEFINE q == [node |-> n, to |-> to, status |-> nodes[n].status, row |-> None]
<1>1. request' = [request EXCEPT ![r] = q] /\ UNCHANGED <<vars, reviewed>>
  BY DEF SeeNode
<1>2. q \in Pending /\ q.row = None
  BY DEF SeeNode, Exists, Pending, RequestInv, LifecycleInv, TypeOK, NodeRows
<1> HIDE DEF q
<1>3. LifecycleInv' /\ RowsReviewed'
  BY <1>1, LifecycleNext DEF RequestInv, RowsReviewed, vars
<1>4. RequestTypeOK'
  BY <1>1, <1>2 DEF RequestInv, RequestTypeOK
<1>5. ApprovalsChecked'
  BY <1>1, <1>2 DEF RequestInv, RequestTypeOK, ApprovalsChecked
<1> QED
  BY <1>3, <1>4, <1>5 DEF RequestInv

\* Only a row in review may be moved to approval, and such a row's node is known
\* as reviewed (WORKFLOW_TRANSITIONS; no node has a status of that name).
LEMMA LoadRowKeepsInv ==
  ASSUME RequestInv, NEW r \in Requests, LoadRow(r)
  PROVE  RequestInv'
<1> DEFINE q == request[r]
           row == workflows[q.node]
           legal == CanTransition(ShownState(row, q.status), q.to)
           q2 == [q EXCEPT !.row = row]
<1>1. /\ q # NoRequest /\ q.row = None
      /\ request' = [request EXCEPT ![r] = IF legal THEN q2 ELSE NoRequest]
      /\ UNCHANGED <<vars, reviewed>>
  BY DEF LoadRow
<1>2. q \in Pending
  BY <1>1 DEF RequestInv, RequestTypeOK
<1>3. row \in WorkflowRows
  BY <1>2 DEF Pending, RequestInv, LifecycleInv, TypeOK
<1>4. q2 \in Pending /\ q2.node = q.node /\ q2.to = q.to
  BY <1>2, <1>3 DEF Pending
<1>5. ASSUME legal, q.to = "approved"
      PROVE  q.node \in reviewed
  <2>1. ShownState(row, q.status) \in WorkflowStates \cup NodeStatuses
    BY <1>2, <1>3 DEF ShownState, Pending, WorkflowRows
  <2>2. \/ row.state # None /\ ShownState(row, q.status) = row.state
        \/ ShownState(row, q.status) = q.status
    BY DEF ShownState
  <2>3. ShownState(row, q.status) \in WorkflowStates
    BY <1>2, <1>3, <2>2 DEF Pending, WorkflowRows, NodeStatuses, WorkflowStates
  <2>4. ShownState(row, q.status) = "in_review"
    <3> DEFINE s == ShownState(row, q.status)
    <3>1. s \in {"draft", "in_review", "changes_requested", "approved", "scheduled",
                 "published", "unpublished", "archived", "trashed"}
      BY <2>3 DEF WorkflowStates
    <3>2. "approved" \in LegalMoves[s]
      BY <1>5 DEF CanTransition
    <3> HIDE DEF s
    <3>3. /\ "approved" \notin LegalMoves["draft"]
          /\ "approved" \notin LegalMoves["changes_requested"]
          /\ "approved" \notin LegalMoves["approved"]
          /\ "approved" \notin LegalMoves["scheduled"]
          /\ "approved" \notin LegalMoves["published"]
          /\ "approved" \notin LegalMoves["unpublished"]
          /\ "approved" \notin LegalMoves["archived"]
          /\ "approved" \notin LegalMoves["trashed"]
      BY DEF LegalMoves
    <3>4. s = "in_review"
      BY <3>1, <3>2, <3>3
    <3> QED
      BY <3>4 DEF s
  <2>5. row.state = "in_review"
    BY <1>2, <2>2, <2>4 DEF Pending, NodeStatuses
  <2> QED
    BY <1>2, <2>5 DEF RequestInv, RowsReviewed, Reviewing, Pending
<1> HIDE DEF q, row, legal, q2
<1>6. LifecycleInv' /\ RowsReviewed'
  BY <1>1, LifecycleNext DEF RequestInv, RowsReviewed, vars
<1>7. RequestTypeOK'
  BY <1>1, <1>4 DEF RequestInv, RequestTypeOK
<1>8. ApprovalsChecked'
  BY <1>1, <1>4, <1>5 DEF RequestInv, RequestTypeOK, ApprovalsChecked
<1> QED
  BY <1>6, <1>7, <1>8 DEF RequestInv

\* A step that puts no row in review or beyond it unless the row was there, or is
\* in review now, keeps the invariant while the requests stand still.
LEMMA RowsStep ==
  ASSUME RequestInv, LifecycleInv', NoteReviews,
         \A n \in NodeIds : workflows'[n].state = "approved" =>
           workflows[n].state \in Reviewing \/ n \in reviewed
  PROVE  RowsReviewed' /\ reviewed \subseteq reviewed'
<1>1. reviewed \subseteq reviewed'
  BY DEF NoteReviews
<1>2. ASSUME NEW n \in NodeIds, workflows'[n].state \in Reviewing
      PROVE  n \in reviewed'
  BY <1>2 DEF NoteReviews, Reviewing, RequestInv, RowsReviewed
<1> QED
  BY <1>1, <1>2 DEF RowsReviewed

\* The write of a transition that was checked (save_workflow).
LEMMA SaveKeepsInv ==
  ASSUME RequestInv, NEW r \in Requests, Save(r)
  PROVE  RequestInv'
<1> DEFINE q == request[r]
<1>1. /\ q # NoRequest /\ q.row # None
      /\ request' = [request EXCEPT ![r] = NoRequest]
      /\ NoteReviews
  BY DEF Save
<1>2. q \in Pending /\ q.row \in WorkflowRows
  BY <1>1 DEF RequestInv, RequestTypeOK, Pending
<1>3. /\ q.node \in NodeIds /\ q.to \in WorkflowStates
      /\ q.row.publishAt \in Nat /\ q.row.unpublishAt \in Nat
  BY <1>2 DEF Pending, WorkflowRows
<1>4. CASE Exists(q.node)
  <2>1. UpsertWorkflow(q.node, q.to, q.row.publishAt, q.row.unpublishAt)
    BY <1>4 DEF Save
  <2>2. LifecycleInv'
    BY <1>3, <2>1, UpsertWorkflowStep DEF RequestInv
  <2>3. /\ \A m \in NodeIds \ {q.node} : workflows'[m] = workflows[m]
        /\ workflows'[q.node].state = q.to
    BY <1>3, <2>1 DEF UpsertWorkflow, RequestInv, LifecycleInv, TypeOK
  <2>4. q.to = "approved" => q.node \in reviewed
    BY <1>1 DEF RequestInv, ApprovalsChecked
  <2>5. RowsReviewed' /\ reviewed \subseteq reviewed'
    <3>1. \A n \in NodeIds : workflows'[n].state = "approved" =>
            workflows[n].state \in Reviewing \/ n \in reviewed
      BY <2>3, <2>4 DEF Reviewing
    <3> QED
      BY <1>1, <2>2, <3>1, RowsStep
  <2> HIDE DEF q
  <2> QED
    BY <1>1, <2>2, <2>5 DEF RequestInv, RequestTypeOK, ApprovalsChecked
<1>5. CASE ~Exists(q.node)
  <2>1. UNCHANGED vars
    BY <1>5 DEF Save
  <2>2. LifecycleInv'
    BY <2>1, LifecycleNext DEF RequestInv
  <2>3. RowsReviewed' /\ reviewed \subseteq reviewed'
    <3>1. \A n \in NodeIds : workflows'[n].state = "approved" =>
            workflows[n].state \in Reviewing \/ n \in reviewed
      BY <2>1 DEF vars, Reviewing
    <3> QED
      BY <1>1, <2>2, <3>1, RowsStep
  <2> HIDE DEF q
  <2> QED
    BY <1>1, <2>2, <2>3 DEF RequestInv, RequestTypeOK, ApprovalsChecked
<1> QED
  BY <1>4, <1>5

\* Operations on pages never write an approval (publish_node, unpublish_node,
\* delete_node and purge_node set states of their own).
LEMMA TreeApprovesNothing ==
  ASSUME RequestInv, TreeStep, NEW n \in NodeIds, workflows'[n].state = "approved"
  PROVE  workflows[n].state = "approved"
<1> USE DEF RequestInv, LifecycleInv, TypeOK
<1>1. ASSUME NEW m \in NodeIds, NEW st \in {"published", "unpublished", "trashed"},
             NEW row, row.state = st, row \in WorkflowRows, SetWorkflow(m, row)
      PROVE  workflows[n].state = "approved"
  <2>1. [row EXCEPT !.at = now].state = st
    BY <1>1 DEF WorkflowRows
  <2> QED
    BY <1>1, <2>1 DEF SetWorkflow
<1>2. ASSUME NEW m \in NodeIds, NEW a \in Actors, Publish(m, a)
      PROVE  workflows[n].state = "approved"
  <2> DEFINE row == [workflows[m] EXCEPT !.state = "published", !.publishAt = Never]
  <2>1. row \in WorkflowRows /\ row.state = "published"
    BY DEF WorkflowRows, WorkflowStates, Never
  <2>2. SetWorkflow(m, row)
    BY <1>2 DEF Publish
  <2> HIDE DEF row
  <2> QED
    BY <1>1, <2>1, <2>2
<1>3. ASSUME NEW m \in NodeIds, NEW a \in Actors, Unpublish(m, a)
      PROVE  workflows[n].state = "approved"
  <2> DEFINE row == [workflows[m] EXCEPT !.state = "unpublished", !.unpublishAt = Never]
  <2>1. row \in WorkflowRows /\ row.state = "unpublished"
    BY DEF WorkflowRows, WorkflowStates, Never
  <2>2. SetWorkflow(m, row)
    BY <1>3 DEF Unpublish
  <2> HIDE DEF row
  <2> QED
    BY <1>1, <2>1, <2>2
<1>4. ASSUME NEW m \in NodeIds, NEW a \in Actors, Delete(m, a)
      PROVE  workflows[n].state = "approved"
  <2> DEFINE row == [workflows[m] EXCEPT !.state = "trashed"]
  <2>1. row \in WorkflowRows /\ row.state = "trashed"
    BY DEF WorkflowRows, WorkflowStates
  <2>2. SetWorkflow(m, row)
    BY <1>4 DEF Delete
  <2> HIDE DEF row
  <2> QED
    BY <1>1, <2>1, <2>2
<1>5. ASSUME NEW m \in NodeIds, Purge(m)
      PROVE  workflows[n].state = "approved"
  <2>1. workflows' = [workflows EXCEPT ![m] = NoWorkflow]
    BY <1>5 DEF Purge
  <2>2. CASE n # m
    BY <2>1, <2>2
  <2>3. CASE n = m
    <3>1. workflows'[n].state = None
      BY <2>1, <2>3 DEF NoWorkflow
    <3> QED
      BY <3>1, StateAssumption DEF WorkflowStates
  <2> QED
    BY <2>2, <2>3
<1>6. CASE UNCHANGED workflows
  BY <1>6
<1> QED
  BY <1>2, <1>3, <1>4, <1>5, <1>6
  DEF TreeStep, Create, Update, RestoreTrashed, Duplicate

LEMMA RequestInvStep == RequestInv /\ [RequestNext]_requestVars => RequestInv'
<1> SUFFICES ASSUME RequestInv, [RequestNext]_requestVars PROVE RequestInv'
  OBVIOUS
<1>1. CASE \E r \in Requests : RequestStep(r)
  BY <1>1, SeeNodeKeepsInv, LoadRowKeepsInv, SaveKeepsInv DEF RequestStep
<1>2. CASE TreeStep /\ UNCHANGED request /\ NoteReviews
  <2>1. LifecycleInv'
    BY <1>2, LifecycleNext DEF RequestInv, Next
  <2>2. \A n \in NodeIds : workflows'[n].state = "approved" =>
          workflows[n].state \in Reviewing \/ n \in reviewed
    BY <1>2, TreeApprovesNothing DEF Reviewing
  <2>3. RowsReviewed' /\ reviewed \subseteq reviewed'
    BY <1>2, <2>1, <2>2, RowsStep
  <2> QED
    BY <1>2, <2>1, <2>3 DEF RequestInv, RequestTypeOK, ApprovalsChecked
<1>3. CASE UNCHANGED requestVars
  <2>1. UNCHANGED <<vars, request, reviewed>>
    BY <1>3 DEF requestVars
  <2>2. LifecycleInv'
    BY <2>1, LifecycleNext DEF RequestInv
  <2> QED
    BY <2>1, <2>2 DEF RequestInv, RequestTypeOK, RowsReviewed, ApprovalsChecked, vars
<1> QED
  BY <1>1, <1>2, <1>3 DEF RequestNext

\* However many transition requests interleave with each other and with page
\* operations, a row is approved only if its node has been in review.
THEOREM ApprovalFollowsReview == RequestSpec => []ApprovedWasReviewed
<1>1. RequestInv => ApprovedWasReviewed
  BY DEF RequestInv, RowsReviewed, Reviewing, ApprovedWasReviewed
<1> QED
  BY <1>1, RequestInvInit, RequestInvStep, PTL DEF RequestSpec

-----------------------------------------------------------------------------
(* One page per source.                                                    *)

SameContent(m) ==
  /\ nodes'[m].status = nodes[m].status
  /\ nodes'[m].draft = nodes[m].draft
  /\ nodes'[m].pub = nodes[m].pub

\* No operation changes what two pages hold: deleting and restoring are page by page.
LEMMA OneAtATime ==
  ASSUME LifecycleInv, [Next]_vars
  PROVE  \E n \in NodeIds : \A m \in NodeIds \ {n} : SameContent(m)
<1>0. nodes = [n \in NodeIds |-> nodes[n]] /\ Root \in NodeIds
  BY NodeAssumption DEF LifecycleInv, TypeOK
<1>1. ASSUME NEW n \in NodeIds, NEW row, nodes' = [nodes EXCEPT ![n] = row]
      PROVE  \A m \in NodeIds \ {n} : SameContent(m)
  BY <1>0, <1>1 DEF SameContent
<1>2. ASSUME nodes' = nodes
      PROVE  \A m \in NodeIds \ {Root} : SameContent(m)
  BY <1>2 DEF SameContent
<1>3. ASSUME NEW n \in NodeIds, NEW p \in NodeIds \cup {None}, NEW s, NEW d, Create(n, p, s, d)
      PROVE  \E i \in NodeIds : \A m \in NodeIds \ {i} : SameContent(m)
  BY <1>1, <1>3 DEF Create, CommitNodes
<1>4. ASSUME NEW n \in NodeIds, NEW s \in Slugs \cup {None}, NEW d \in Payloads, NEW a,
             Update(n, s, d, a)
      PROVE  \E i \in NodeIds : \A m \in NodeIds \ {i} : SameContent(m)
  BY <1>4, UpdateEffect DEF SameContent
<1>5. ASSUME NEW n \in NodeIds, NEW a, Publish(n, a) \/ Unpublish(n, a)
      PROVE  \E i \in NodeIds : \A m \in NodeIds \ {i} : SameContent(m)
  <2>1. \A m \in NodeIds \ {n} : nodes'[m] = nodes[m]
    BY <1>0, <1>5 DEF Publish, Unpublish
  <2> QED
    BY <2>1 DEF SameContent
<1>6. ASSUME NEW n \in NodeIds, NEW a, Delete(n, a)
      PROVE  \E i \in NodeIds : \A m \in NodeIds \ {i} : SameContent(m)
  <2>1. \E row : nodes' = [nodes EXCEPT ![n] = row]
    BY <1>6 DEF Delete, CommitNodes
  <2> QED
    BY <1>1, <2>1
<1>7. ASSUME NEW n \in NodeIds, RestoreTrashed(n) \/ Purge(n)
      PROVE  \E i \in NodeIds : \A m \in NodeIds \ {i} : SameContent(m)
  <2>1. \E row : nodes' = [nodes EXCEPT ![n] = row]
    BY <1>7 DEF RestoreTrashed, Purge, CommitNodes
  <2> QED
    BY <1>1, <2>1
<1>8. ASSUME NEW n \in NodeIds, NEW copy \in NodeIds, NEW s, Duplicate(n, copy, s)
      PROVE  \E i \in NodeIds : \A m \in NodeIds \ {i} : SameContent(m)
  BY <1>1, <1>8 DEF Duplicate, CommitNodes
<1>9. ASSUME NEW n \in NodeIds, NEW no, NEW a, RestoreVersion(n, no, a)
      PROVE  \E i \in NodeIds : \A m \in NodeIds \ {i} : SameContent(m)
  <2>1. \A m \in NodeIds \ {n} : nodes'[m] = nodes[m]
    BY <1>0, <1>9 DEF RestoreVersion
  <2> QED
    BY <2>1 DEF SameContent
<1>10. CASE TreeStep
  BY <1>3, <1>4, <1>5, <1>6, <1>7, <1>8, <1>10 DEF TreeStep
<1>11. CASE HistoryStep
  BY <1>0, <1>2, <1>9, <1>11 DEF HistoryStep, CleanupVersions
<1>12. CASE LockStep \/ WorkflowStep \/ Tick \/ UNCHANGED vars
  BY <1>0, <1>2, <1>12 DEF LockStep, AcquireLock, ReleaseLock, WorkflowStep, UpsertWorkflow, Tick, vars
<1> QED
  BY <1>10, <1>11, <1>12 DEF Next

\* A walk is at the first of the files left to it, and publishes what it created.
WalkRows == [left: Seq(Payloads), at: {"look", "create", "publish"}, page: NodeIds \cup {None}]
WalkIsSound(walk) ==
  /\ walk.at # "look" => walk.left # <<>>
  /\ walk.at = "publish" => walk.page \in NodeIds

\* Who has looked for a page in vain can rely on it, unless somebody contends.
OneEach(s) ==
  /\ \A m, n \in PagesOf(s) : m = n
  /\ Looked(s) # {} => PagesOf(s) = {}

SeedsInv ==
  /\ LifecycleInv
  /\ walks \in [Seeders -> WalkRows]
  /\ \A k \in Seeders : WalkIsSound(walks[k])
  /\ \A s \in Range(SourceOf) \ contested : OneEach(s)

LEMMA PagesOfSame ==
  ASSUME NEW s, NEW m \in NodeIds, SameContent(m)
  PROVE  m \in PagesOf(s)' => m \in PagesOf(s)
BY DEF SameContent, PagesOf, Exists

LEMMA NoPagesLost ==
  ASSUME UNCHANGED nodes
  PROVE  \A s : PagesOf(s)' = PagesOf(s)
BY DEF PagesOf, Exists

\* What a step may have to do with a source that is not contested after it: if a
\* page was gained, there was none, unless a seeder made it, and all who had
\* looked for one have gone on.
LEMMA UncontestedGain ==
  ASSUME Contend, NEW s \in Range(SourceOf) \ contested'
  PROVE  /\ s \notin contested
         /\ Gains(s) => /\ PagesOf(s) = {} \/ SeederMakes
                        /\ \A k \in Looked(s) : walks'[k] # walks[k]
BY DEF Contend

\* A step of somebody else, or the publication of a page by a seeder.
LEMMA OthersKeepOneEach ==
  ASSUME SeedsInv, [Next]_vars, Contend, ~SeederMakes,
         NEW s \in Range(SourceOf) \ contested',
         \A k \in Looked(s)' : k \in Looked(s) /\ walks'[k] = walks[k]
  PROVE  OneEach(s)'
<1>1. OneEach(s)
  BY UncontestedGain DEF SeedsInv
<1>2. CASE Gains(s)
  <2>1. PagesOf(s) = {} /\ Looked(s)' = {}
    BY <1>2, UncontestedGain
  <2>2. PICK n \in NodeIds : \A m \in NodeIds \ {n} : SameContent(m)
    BY OneAtATime DEF SeedsInv
  <2>3. PagesOf(s)' \subseteq {n}
    <3>1. PagesOf(s)' \subseteq NodeIds
      BY DEF PagesOf
    <3> QED
      BY <2>1, <2>2, <3>1, PagesOfSame
  <2> QED
    BY <2>1, <2>3 DEF OneEach
<1>3. CASE ~Gains(s)
  <2>1. PagesOf(s)' \subseteq PagesOf(s)
    BY <1>3 DEF Gains
  <2> QED
    BY <1>1, <2>1 DEF OneEach
<1> QED
  BY <1>2, <1>3

\* Looking, and all that changes no page.
LEMMA PagesAsTheyWere ==
  ASSUME SeedsInv, UNCHANGED nodes, Contend, NEW s \in Range(SourceOf) \ contested',
         \A k \in Looked(s)' : k \in Looked(s) \/ PagesOf(s) = {}
  PROVE  OneEach(s)'
<1>1. OneEach(s) /\ PagesOf(s)' = PagesOf(s)
  BY UncontestedGain, NoPagesLost DEF SeedsInv
<1> QED
  BY <1>1 DEF OneEach

LEMMA WalkGoes ==
  ASSUME SeedsInv, NEW k \in Seeders, NEW walk \in WalkRows, WalkIsSound(walk), Goes(k, walk)
  PROVE  /\ walks' \in [Seeders -> WalkRows] /\ \A j \in Seeders : WalkIsSound(walks'[j])
         /\ walks'[k] = walk /\ \A j \in Seeders \ {k} : walks'[j] = walks[j]
BY DEF SeedsInv, Goes

\* The walk that takes the next file, or rests.
LEMMA NextFileIsSound ==
  ASSUME NEW walk \in WalkRows, walk.left # <<>>
  PROVE  /\ NextFile(walk) \in WalkRows /\ NextFile(walk).at = "look"
         /\ Resting \in WalkRows /\ Resting.at = "look"
         /\ WalkIsSound(NextFile(walk)) /\ WalkIsSound(Resting)
<1>1. Tail(walk.left) \in Seq(Payloads)
  BY DEF WalkRows
<1>2. Resting \in WalkRows /\ Resting.at = "look"
  BY DEF Resting, WalkRows
<1>3. NextFile(walk) \in WalkRows /\ NextFile(walk).at = "look"
  BY <1>1, <1>2 DEF NextFile, Resting, WalkRows
<1> QED
  BY <1>2, <1>3 DEF WalkIsSound

LEMMA LookKeeps ==
  ASSUME SeedsInv, Contend, NEW k \in Seeders, Look(k)
  PROVE  SeedsInv'
<1> DEFINE old == walks[k]
           walk == IF PagesOf(Source(old)) = {} THEN [old EXCEPT !.at = "create"] ELSE NextFile(old)
<1>1. old \in WalkRows /\ old.left # <<>> /\ old.at = "look" /\ Goes(k, walk) /\ UNCHANGED vars
  BY DEF Look, LookAmong, SeedsInv
<1>2. /\ walk \in WalkRows /\ WalkIsSound(walk) /\ walk.at # "publish"
      /\ walk.at = "create" => PagesOf(Source(old)) = {} /\ Source(walk) = Source(old)
  <2>1. CASE PagesOf(Source(old)) = {}
    <3>1. walk \in WalkRows /\ walk.left = old.left /\ walk.at = "create"
      BY <1>1, <2>1 DEF WalkRows
    <3> QED
      BY <1>1, <2>1, <3>1 DEF Source, WalkIsSound
  <2>2. CASE PagesOf(Source(old)) # {}
    BY <1>1, <2>2, NextFileIsSound
  <2> QED
    BY <2>1, <2>2
<1> HIDE DEF walk
<1>3. /\ walks' \in [Seeders -> WalkRows] /\ \A j \in Seeders : WalkIsSound(walks'[j])
      /\ walks'[k] = walk /\ \A j \in Seeders \ {k} : walks'[j] = walks[j]
  BY <1>1, <1>2, WalkGoes
<1>4. LifecycleInv'
  BY <1>1, LifecycleNext DEF SeedsInv
<1>5. ASSUME NEW s \in Range(SourceOf) \ contested'
      PROVE  OneEach(s)'
  <2>1. ASSUME NEW j \in Looked(s)'
        PROVE  j \in Looked(s) \/ PagesOf(s) = {}
    BY <1>2, <1>3, <2>1 DEF Looked, Source
  <2> QED
    BY <1>1, <2>1, PagesAsTheyWere DEF vars
<1> QED
  BY <1>3, <1>4, <1>5 DEF SeedsInv

\* Making the page a seeder has looked for: nobody else that looked may be left.
LEMMA CreatePageKeeps ==
  ASSUME SeedsInv, Contend, NEW k \in Seeders, CreatePage(k)
  PROVE  SeedsInv'
<1> DEFINE old == walks[k]
<1>1. PICK n \in NodeIds, slug \in Slugs :
        /\ Create(n, Root, slug, Head(old.left))
        /\ Goes(k, [old EXCEPT !.at = "publish", !.page = n])
  BY DEF CreatePage
<1> DEFINE walk == [old EXCEPT !.at = "publish", !.page = n]
<1>2. old \in WalkRows /\ old.at = "create" /\ old.left # <<>>
  BY DEF CreatePage, SeedsInv, WalkIsSound
<1>3. walk \in WalkRows /\ walk.at = "publish" /\ WalkIsSound(walk)
  <2>1. walk \in WalkRows /\ walk.left = old.left /\ walk.at = "publish" /\ walk.page = n
    BY <1>2 DEF WalkRows
  <2> QED
    BY <1>2, <2>1 DEF WalkIsSound
<1>4. Goes(k, walk)
  BY <1>1
<1> HIDE DEF walk
<1>5. /\ walks' \in [Seeders -> WalkRows] /\ \A j \in Seeders : WalkIsSound(walks'[j])
      /\ walks'[k] = walk /\ \A j \in Seeders \ {k} : walks'[j] = walks[j]
  BY <1>3, <1>4, WalkGoes
<1>6. Head(old.left) \in Payloads
  BY <1>2 DEF WalkRows
<1>7. LifecycleInv'
  <2>1. Next
    BY <1>1, <1>6, NodeAssumption DEF Next, TreeStep
  <2> QED
    BY <2>1, LifecycleNext DEF SeedsInv
<1>8. /\ \A m \in NodeIds \ {n} : nodes'[m] = nodes[m]
      /\ nodes'[n].draft = Head(old.left) /\ nodes'[n].pub = None
  <2> DEFINE row == [BlankRow EXCEPT !.status = "draft", !.parent = Root, !.slug = slug,
                        !.route = RouteFor(Root, slug), !.draft = Head(old.left)]
  <2>1. nodes' = [nodes EXCEPT ![n] = row]
    BY <1>1 DEF Create, CommitNodes
  <2>2. row.draft = Head(old.left) /\ row.pub = None
    BY DEF BlankRow
  <2> HIDE DEF row
  <2> QED
    BY <2>1, <2>2 DEF SeedsInv, LifecycleInv, TypeOK
<1>9. ASSUME NEW s \in Range(SourceOf) \ contested'
      PROVE  OneEach(s)'
  <2>1. \A m \in PagesOf(s)' : m \in PagesOf(s) \/ (m = n /\ s = Source(old))
    <3> SUFFICES ASSUME NEW m \in PagesOf(s)' PROVE m \in PagesOf(s) \/ (m = n /\ s = Source(old))
      OBVIOUS
    <3>1. CASE m = n
      BY <1>8, <3>1 DEF PagesOf, Source
    <3>2. CASE m # n
      BY <1>8, <3>2 DEF PagesOf, Exists
    <3> QED
      BY <3>1, <3>2
  <2>2. \A j \in Looked(s)' : j # k /\ j \in Looked(s) /\ walks'[j] = walks[j]
    BY <1>3, <1>5 DEF Looked, Source
  <2>3. OneEach(s)
    BY UncontestedGain DEF SeedsInv
  <2>4. CASE Gains(s)
    <3>1. s = Source(old)
      BY <2>1, <2>4 DEF Gains
    <3>2. PagesOf(s) = {}
      BY <1>2, <2>3, <3>1 DEF OneEach, Looked
    <3>3. Looked(s)' = {}
      BY <2>2, <2>4, UncontestedGain
    <3> QED
      BY <2>1, <3>2, <3>3 DEF OneEach
  <2>5. CASE ~Gains(s)
    BY <2>2, <2>3, <2>5 DEF OneEach, Gains
  <2> QED
    BY <2>4, <2>5
<1> QED
  BY <1>5, <1>7, <1>9 DEF SeedsInv

LEMMA PublishPageKeeps ==
  ASSUME SeedsInv, Contend, NEW k \in Seeders, PublishPage(k)
  PROVE  SeedsInv'
<1> DEFINE old == walks[k]
<1>1. old \in WalkRows /\ old.at = "publish" /\ old.left # <<>> /\ old.page \in NodeIds
  BY DEF PublishPage, SeedsInv, WalkIsSound
<1>2. Publish(old.page, SeedActor) /\ Goes(k, NextFile(old))
  BY DEF PublishPage
<1>3. /\ walks' \in [Seeders -> WalkRows] /\ \A j \in Seeders : WalkIsSound(walks'[j])
      /\ walks'[k].at = "look" /\ \A j \in Seeders \ {k} : walks'[j] = walks[j]
  BY <1>1, <1>2, WalkGoes, NextFileIsSound
<1>4. Next
  BY <1>1, <1>2, SeedAssumption DEF Next, TreeStep
<1>5. LifecycleInv'
  BY <1>4, LifecycleNext DEF SeedsInv
<1>6. ~SeederMakes
  BY <1>1, <1>3 DEF SeederMakes
<1>7. ASSUME NEW s \in Range(SourceOf) \ contested'
      PROVE  OneEach(s)'
  <2>1. \A j \in Looked(s)' : j \in Looked(s) /\ walks'[j] = walks[j]
    BY <1>3 DEF Looked, Source
  <2> QED
    BY <1>4, <1>6, <2>1, OthersKeepOneEach
<1> QED
  BY <1>3, <1>5, <1>7 DEF SeedsInv

\* Steps that start walks, end them or pass over a file.
LEMMA WalksEnd ==
  ASSUME SeedsInv, Contend, UNCHANGED vars, walks' \in [Seeders -> WalkRows],
         \A k \in Seeders : WalkIsSound(walks'[k]),
         \A k \in Seeders : walks'[k] = walks[k] \/ walks'[k].at = "look"
  PROVE  SeedsInv'
<1>1. LifecycleInv'
  BY LifecycleNext DEF SeedsInv
<1>2. ASSUME NEW s \in Range(SourceOf) \ contested'
      PROVE  OneEach(s)'
  <2>1. \A k \in Looked(s)' : k \in Looked(s)
    BY DEF Looked, Source
  <2> QED
    BY <2>1, PagesAsTheyWere DEF vars
<1> QED
  BY <1>1, <1>2 DEF SeedsInv

LEMMA SkipFileKeeps ==
  ASSUME SeedsInv, Contend, NEW k \in Seeders, SkipFile(k)
  PROVE  SeedsInv'
<1> DEFINE old == walks[k]
<1>1. old \in WalkRows /\ old.left # <<>>
  BY DEF SkipFile, SeedsInv, WalkIsSound
<1>2. PICK next \in {NextFile(old), Resting} : Goes(k, next)
  BY DEF SkipFile
<1>3. next \in WalkRows /\ WalkIsSound(next) /\ next.at = "look"
  BY <1>1, NextFileIsSound
<1>4. UNCHANGED vars
  BY DEF SkipFile
<1> QED
  BY <1>2, <1>3, <1>4, WalkGoes, WalksEnd

LEMMA BeginKeeps ==
  ASSUME SeedsInv, Contend, NEW k \in Seeders, Begin(k)
  PROVE  SeedsInv'
<1> DEFINE walk == [Resting EXCEPT !.left = Files]
<1>1. Goes(k, walk) /\ UNCHANGED vars
  BY DEF Begin
<1>2. walk \in WalkRows /\ walk.at = "look"
  BY SeedAssumption DEF Resting, WalkRows
<1>3. WalkIsSound(walk)
  BY <1>2 DEF WalkIsSound
<1> HIDE DEF walk
<1> QED
  BY <1>1, <1>2, <1>3, WalkGoes, WalksEnd

LEMMA BootKeeps ==
  ASSUME SeedsInv, Contend, Boot \/ NarrowType
  PROVE  SeedsInv'
<1>1. Resting \in WalkRows /\ Resting.at = "look" /\ WalkIsSound(Resting)
  BY DEF Resting, WalkRows, WalkIsSound
<1>2. UNCHANGED vars /\ (walks' = walks \/ walks' = [k \in Seeders |-> Resting])
  BY DEF Boot, NarrowType
<1> QED
  BY <1>1, <1>2, WalksEnd DEF SeedsInv

LEMMA SeedNextKeeps == SeedsInv /\ [SeedNext]_<<vars, seedVars>> => SeedsInv'
<1> SUFFICES ASSUME SeedsInv, [SeedNext]_<<vars, seedVars>> PROVE SeedsInv'
  OBVIOUS
<1>1. CASE SeederStep /\ Contend
  BY <1>1, BeginKeeps, LookKeeps, CreatePageKeeps, PublishPageKeeps, SkipFileKeeps DEF SeederStep
<1>2. CASE (Boot \/ NarrowType) /\ Contend
  BY <1>2, BootKeeps
<1>3. CASE (TreeStep \/ HistoryStep \/ LockStep \/ Tick) /\ walks' = walks /\ Contend
  <2>1. Next /\ ~SeederMakes
    BY <1>3 DEF Next, SeederMakes
  <2>2. LifecycleInv'
    BY <2>1, LifecycleNext DEF SeedsInv
  <2>3. ASSUME NEW s \in Range(SourceOf) \ contested'
        PROVE  OneEach(s)'
    <3>1. \A k \in Looked(s)' : k \in Looked(s) /\ walks'[k] = walks[k]
      BY <1>3 DEF Looked, Source
    <3> QED
      BY <1>3, <2>1, <3>1, OthersKeepOneEach
  <2> QED
    BY <1>3, <2>2, <2>3 DEF SeedsInv
<1>4. CASE UNCHANGED <<vars, seedVars>>
  <2>1. LifecycleInv' /\ UNCHANGED nodes /\ walks' = walks /\ contested' = contested
    BY <1>4, LifecycleNext DEF SeedsInv, vars, seedVars
  <2>2. ASSUME NEW s \in Range(SourceOf) \ contested
        PROVE  OneEach(s)'
    BY <2>1, <2>2, NoPagesLost DEF SeedsInv, OneEach, Looked, Source
  <2> QED
    BY <2>1, <2>2 DEF SeedsInv
<1> QED
  BY <1>1, <1>2, <1>3, <1>4 DEF SeedNext

LEMMA SeedStart == SeedInit => SeedsInv
<1> SUFFICES ASSUME SeedInit PROVE SeedsInv
  OBVIOUS
<1>1. LifecycleInv
  BY LifecycleInit DEF SeedInit
<1>2. walks \in [Seeders -> WalkRows] /\ \A k \in Seeders : walks[k].at = "look" /\ WalkIsSound(walks[k])
  BY DEF SeedInit, Resting, WalkRows, WalkIsSound
<1>3. \A s : PagesOf(s) = {}
  <2>1. \A n \in NodeIds \ {Root} : ~Exists(n)
    BY DEF SeedInit, Init, Exists, BlankRow
  <2> QED
    BY <2>1 DEF PagesOf
<1> QED
  BY <1>1, <1>2, <1>3 DEF SeedsInv, OneEach

\* However often the process starts and the route syncs, wherever that stops, for
\* any files and any number of seeders beside any editors: no source gets a second
\* page but by somebody else's doing.
THEOREM SeedingIsIdempotent == SeedSpec => []OnePagePerSource
<1>1. SeedsInv => OnePagePerSource
  BY DEF SeedsInv, OneEach, OnePagePerSource
<1> QED
  BY <1>1, SeedStart, SeedNextKeeps, PTL DEF SeedSpec
-----------------------------------------------------------------------------
(* Scheduled publishing. A pass writes back rows it read some steps        *)
(* before; what it has read stays in turn, since what it clears of it it   *)
(* clears as the operation it calls does.                                  *)

\* The rule upsert_content_workflow enforces on the dates of a row.
InTurn(publishAt, unpublishAt) ==
  publishAt # Never /\ unpublishAt # Never => unpublishAt > publishAt

\* A row that is there has a state, and its dates are in order.
RowsInTurn ==
  \A n \in NodeIds :
    /\ workflows[n].publishAt \in 0..MaxTime
    /\ workflows[n].unpublishAt \in 0..MaxTime
    /\ workflows[n].state = None =>
         workflows[n].publishAt = Never /\ workflows[n].unpublishAt = Never
    /\ InTurn(workflows[n].publishAt, workflows[n].unpublishAt)

\* What may be left to do of an item: steps, the last of which writes it back.
Steps == {"publish", "unpublish", "save"}
Plans == {todo \in Seq(Steps) : Len(todo) > 0 /\ todo[Len(todo)] = "save"}

Items ==
  {i \in [node : NodeIds, state : WorkflowStates, publishAt : 0..MaxTime,
          unpublishAt : 0..MaxTime, todo : Plans] : InTurn(i.publishAt, i.unpublishAt)}

PassInv ==
  /\ LifecycleInv
  /\ RowsInTurn
  /\ report \in [Passes -> SUBSET Items]
  /\ item \in [Passes -> Items \cup {NoItem}]

\* A step done leaves a plan, until there is only the writing back.
LEMMA PlansGoOn ==
  ASSUME NEW todo \in Plans
  PROVE  /\ Head(todo) \in Steps
         /\ Head(todo) # "save" => Tail(todo) \in Plans
<1>1. todo \in Seq(Steps) /\ Len(todo) > 0 /\ todo[Len(todo)] = "save"
  BY DEF Plans
<1>2. Len(todo) \in Nat /\ Len(todo) > 0 /\ Head(todo) = todo[1] /\ Head(todo) \in Steps
  BY <1>1
<1>3. ASSUME Head(todo) # "save" PROVE Tail(todo) \in Plans
  <2>1. Len(todo) > 1
    BY <1>1, <1>2, <1>3
  <2>2. /\ Tail(todo) \in Seq(Steps) /\ Len(Tail(todo)) = Len(todo) - 1
        /\ Tail(todo)[Len(todo) - 1] = todo[Len(todo)]
    BY <1>1, <1>2, <2>1
  <2>3. Len(Tail(todo)) > 0
    BY <1>2, <2>1, <2>2
  <2>4. Tail(todo)[Len(Tail(todo))] = "save"
    BY <1>1, <2>2
  <2> QED
    BY <2>2, <2>3, <2>4 DEF Plans
<1> QED
  BY <1>2, <1>3

\* Whatever is planned first, the writing back comes last.
LEMMA PlanEnds ==
  ASSUME NEW todo \in Seq(Steps)
  PROVE  todo \o <<"save">> \in Plans
<1> DEFINE last == <<"save">>
           all == todo \o last
<1>1. last \in Seq(Steps) /\ Len(last) = 1 /\ last[1] = "save" /\ Len(todo) \in Nat
  BY DEF Steps
<1> HIDE DEF last
<1>2. all \in Seq(Steps)
  BY <1>1, ConcatProperties
<1>6. Len(all) = Len(todo) + Len(last)
  BY <1>1, ConcatProperties
<1>3. \A i \in 1..Len(todo) + Len(last) :
        all[i] = IF i <= Len(todo) THEN todo[i] ELSE last[i - Len(todo)]
  BY <1>1, ConcatProperties
<1>4. all[Len(todo) + 1] = "save"
  <2>1. Len(todo) + 1 \in 1..Len(todo) + Len(last) /\ ~(Len(todo) + 1 <= Len(todo))
    BY <1>1
  <2>3. all[Len(todo) + 1] = last[Len(todo) + 1 - Len(todo)]
    BY <1>3, <2>1
  <2>2. Len(todo) + 1 - Len(todo) = 1
    BY <1>1
  <2> QED
    BY <1>1, <2>3, <2>2
<1> HIDE DEF all
<1>5. all \in Plans
  BY <1>1, <1>2, <1>4, <1>6 DEF Plans
<1> QED
  BY <1>5 DEF all, last

\* An item has something left to do.
LEMMA ItemIsNotNoItem == ASSUME NEW i \in Items PROVE i # NoItem
<1>1. i.todo # <<>>
  BY DEF Items, Plans
<1> QED
  BY <1>1 DEF NoItem

\* A row written whole (upsert_content_workflow).
LEMMA RowWritten ==
  ASSUME LifecycleInv, RowsInTurn, NEW m \in NodeIds, NEW row,
         row.publishAt \in 0..MaxTime, row.unpublishAt \in 0..MaxTime, row.state # None,
         InTurn(row.publishAt, row.unpublishAt),
         workflows' = [workflows EXCEPT ![m] = row]
  PROVE  RowsInTurn'
<1> SUFFICES ASSUME NEW n \in NodeIds
             PROVE  /\ workflows'[n].publishAt \in 0..MaxTime
                    /\ workflows'[n].unpublishAt \in 0..MaxTime
                    /\ workflows'[n].state = None =>
                         workflows'[n].publishAt = Never /\ workflows'[n].unpublishAt = Never
                    /\ InTurn(workflows'[n].publishAt, workflows'[n].unpublishAt)
  BY DEF RowsInTurn
<1>1. CASE n = m
  <2>1. workflows'[n] = row
    BY <1>1 DEF LifecycleInv, TypeOK
  <2> QED
    BY <2>1
<1>2. CASE n # m
  <2>1. workflows'[n] = workflows[n]
    BY <1>2 DEF LifecycleInv, TypeOK
  <2> QED
    BY <2>1 DEF RowsInTurn
<1> QED
  BY <1>1, <1>2

\* A row whose state is set, and a date of which may be cleared.
LEMMA RowSet ==
  ASSUME LifecycleInv, RowsInTurn, NEW m \in NodeIds, NEW row \in WorkflowRows,
         row.publishAt \in {Never, workflows[m].publishAt},
         row.unpublishAt \in {Never, workflows[m].unpublishAt},
         row.state # None, SetWorkflow(m, row)
  PROVE  RowsInTurn'
<1>1. CASE workflows[m].state = None
  BY <1>1 DEF SetWorkflow, RowsInTurn
<1>2. CASE workflows[m].state # None
  <2> DEFINE written == [row EXCEPT !.at = now]
  <2>1. workflows' = [workflows EXCEPT ![m] = written]
    BY <1>2 DEF SetWorkflow
  <2>2. written.publishAt = row.publishAt /\ written.unpublishAt = row.unpublishAt
        /\ written.state = row.state
    BY DEF WorkflowRows
  <2>3. Never \in 0..MaxTime
    BY BoundAssumption DEF Never
  <2>4. row.publishAt \in 0..MaxTime /\ row.unpublishAt \in 0..MaxTime
    BY <2>3 DEF RowsInTurn
  <2>5. InTurn(row.publishAt, row.unpublishAt)
    BY DEF RowsInTurn, InTurn
  <2> HIDE DEF written
  <2> QED
    BY <2>1, <2>2, <2>4, <2>5, RowWritten
<1> QED
  BY <1>1, <1>2

\* Every operation keeps the rule, those that clear a date included.
LEMMA RowsStayInTurn ==
  ASSUME LifecycleInv, RowsInTurn, [Next]_vars
  PROVE  RowsInTurn'
<1> USE DEF LifecycleInv, TypeOK
<1>1. ASSUME NEW m \in NodeIds, NEW a \in Actors, Publish(m, a)
      PROVE  RowsInTurn'
  <2> DEFINE row == [workflows[m] EXCEPT !.state = "published", !.publishAt = Never]
  <2>1. row \in WorkflowRows /\ row.state = "published"
        /\ row.publishAt = Never /\ row.unpublishAt = workflows[m].unpublishAt
    BY DEF WorkflowRows, WorkflowStates, Never
  <2>2. SetWorkflow(m, row) /\ "published" # None
    BY <1>1, StateAssumption DEF Publish, WorkflowStates
  <2> HIDE DEF row
  <2> QED
    BY <2>1, <2>2, RowSet
<1>2. ASSUME NEW m \in NodeIds, NEW a \in Actors, Unpublish(m, a)
      PROVE  RowsInTurn'
  <2> DEFINE row == [workflows[m] EXCEPT !.state = "unpublished", !.unpublishAt = Never]
  <2>1. row \in WorkflowRows /\ row.state = "unpublished"
        /\ row.unpublishAt = Never /\ row.publishAt = workflows[m].publishAt
    BY DEF WorkflowRows, WorkflowStates, Never
  <2>2. SetWorkflow(m, row) /\ "unpublished" # None
    BY <1>2, StateAssumption DEF Unpublish, WorkflowStates
  <2> HIDE DEF row
  <2> QED
    BY <2>1, <2>2, RowSet
<1>3. ASSUME NEW m \in NodeIds, NEW a \in Actors, Delete(m, a)
      PROVE  RowsInTurn'
  <2> DEFINE row == [workflows[m] EXCEPT !.state = "trashed"]
  <2>1. row \in WorkflowRows /\ row.state = "trashed"
        /\ row.publishAt = workflows[m].publishAt /\ row.unpublishAt = workflows[m].unpublishAt
    BY DEF WorkflowRows, WorkflowStates
  <2>2. SetWorkflow(m, row) /\ "trashed" # None
    BY <1>3, StateAssumption DEF Delete, WorkflowStates
  <2> HIDE DEF row
  <2> QED
    BY <2>1, <2>2, RowSet
<1>4. ASSUME NEW m \in NodeIds, Purge(m)
      PROVE  RowsInTurn'
  <2>1. \A n \in NodeIds : workflows'[n] = IF n = m THEN NoWorkflow ELSE workflows[n]
    BY <1>4 DEF Purge
  <2>2. NoWorkflow.publishAt = Never /\ NoWorkflow.unpublishAt = Never /\ Never \in 0..MaxTime
    BY BoundAssumption DEF NoWorkflow, Never
  <2>3. InTurn(Never, Never)
    BY DEF InTurn
  <2> QED
    BY <2>1, <2>2, <2>3 DEF RowsInTurn
<1>5. ASSUME NEW m \in NodeIds, NEW st \in WorkflowStates, NEW pa \in 0..MaxTime,
             NEW ua \in 0..MaxTime, UpsertWorkflow(m, st, pa, ua)
      PROVE  RowsInTurn'
  <2> DEFINE row == [state |-> st, publishAt |-> pa, unpublishAt |-> ua, at |-> now]
  <2>1. workflows' = [workflows EXCEPT ![m] = row] /\ InTurn(pa, ua)
    BY <1>5 DEF UpsertWorkflow, InTurn
  <2>2. row.publishAt = pa /\ row.unpublishAt = ua /\ row.state # None
    BY StateAssumption
  <2> HIDE DEF row
  <2> QED
    BY <2>1, <2>2, RowWritten
<1>6. CASE UNCHANGED workflows
  BY <1>6 DEF RowsInTurn
<1> QED
  BY <1>1, <1>2, <1>3, <1>4, <1>5, <1>6
  DEF Next, vars, TreeStep, HistoryStep, LockStep, WorkflowStep, Tick, Create, Update,
      RestoreTrashed, Duplicate, RestoreVersion, CleanupVersions, AcquireLock, ReleaseLock

LEMMA RowsStartInTurn == Init => RowsInTurn
<1> SUFFICES ASSUME Init PROVE RowsInTurn
  OBVIOUS
<1>1. \A n \in NodeIds : workflows[n] = NoWorkflow
  BY DEF Init
<1>2. NoWorkflow.publishAt = Never /\ NoWorkflow.unpublishAt = Never /\ Never \in 0..MaxTime
  BY BoundAssumption DEF NoWorkflow, Never
<1> QED
  BY <1>1, <1>2 DEF RowsInTurn, InTurn

\* An item of a report is a row with a date that has come.
LEMMA ItemsAreItems ==
  ASSUME PassInv, NEW n \in DueNodes
  PROVE  ItemOf(n) \in Items
<1> DEFINE w == workflows[n]
           todo == (IF IsDue(w.publishAt) THEN <<"publish">> ELSE <<>>) \o
                   (IF IsDue(w.unpublishAt) THEN <<"unpublish">> ELSE <<>>) \o <<"save">>
<1>1. /\ n \in NodeIds
      /\ w \in WorkflowRows /\ w.publishAt \in 0..MaxTime /\ w.unpublishAt \in 0..MaxTime
      /\ InTurn(w.publishAt, w.unpublishAt)
  BY DEF DueNodes, PassInv, RowsInTurn, LifecycleInv, TypeOK
<1>2. w.state \in WorkflowStates
  <2>1. w.publishAt # Never \/ w.unpublishAt # Never
    BY DEF DueNodes, IsDue
  <2> QED
    BY <1>1, <2>1 DEF PassInv, RowsInTurn, WorkflowRows
<1>3. todo \in Plans
  <2> DEFINE first == IF IsDue(w.publishAt) THEN <<"publish">> ELSE <<>>
             then == IF IsDue(w.unpublishAt) THEN <<"unpublish">> ELSE <<>>
  <2>1. <<"publish">> \in Seq(Steps) /\ <<"unpublish">> \in Seq(Steps) /\ <<>> \in Seq(Steps)
    BY DEF Steps
  <2>4. first \in Seq(Steps) /\ then \in Seq(Steps)
    BY <2>1
  <2> HIDE DEF first, then
  <2>2. first \o then \in Seq(Steps)
    BY <2>4, ConcatProperties
  <2>3. (first \o then) \o <<"save">> \in Plans
    BY <2>2, PlanEnds
  <2> QED
    BY <2>3 DEF first, then
<1>4. ItemOf(n) = [node |-> n, state |-> w.state, publishAt |-> w.publishAt,
                   unpublishAt |-> w.unpublishAt, todo |-> todo]
  BY DEF ItemOf
<1> HIDE DEF w, todo
<1> QED
  BY <1>1, <1>2, <1>3, <1>4 DEF Items

\* Reading the report and taking an item of it write nothing.
LEMMA ReadReportKeeps ==
  ASSUME PassInv, NEW p \in Passes, ReadReport(p)
  PROVE  PassInv' /\ UNCHANGED vars
<1>1. PICK R \in Reports : report' = [report EXCEPT ![p] = {ItemOf(n) : n \in R \cap DueNodes}]
  BY DEF ReadReport
<1>2. {ItemOf(n) : n \in R \cap DueNodes} \subseteq Items
  BY ItemsAreItems
<1>3. report' \in [Passes -> SUBSET Items]
  BY <1>1, <1>2 DEF PassInv
<1>4. UNCHANGED <<vars, item>>
  BY DEF ReadReport
<1> QED
  BY <1>3, <1>4 DEF PassInv, vars, LifecycleInv, TypeOK, PublishedIffLive, NothingOutlivesPurge,
      NewestVersionIsDraft, VersionNumbersUnique, Exists, RowsInTurn

LEMMA TakeItemKeeps ==
  ASSUME PassInv, NEW p \in Passes, TakeItem(p)
  PROVE  PassInv' /\ UNCHANGED vars
<1>1. PICK i \in report[p] : /\ item' = [item EXCEPT ![p] = i]
                             /\ report' = [report EXCEPT ![p] = @ \ {i}]
  BY DEF TakeItem
<1>2. i \in Items
  BY DEF PassInv
<1>3. item' \in [Passes -> Items \cup {NoItem}] /\ report' \in [Passes -> SUBSET Items]
  BY <1>1, <1>2 DEF PassInv
<1>4. UNCHANGED vars
  BY DEF TakeItem
<1> QED
  BY <1>3, <1>4 DEF PassInv, vars, LifecycleInv, TypeOK, PublishedIffLive, NothingOutlivesPurge,
      NewestVersionIsDraft, VersionNumbersUnique, Exists, RowsInTurn

\* The three steps that write to the database are operations of the service.
LEMMA PassWritesAreOperations ==
  ASSUME PassInv, NEW p \in Passes, ApplyPublish(p) \/ ApplyUnpublish(p) \/ WriteBack(p)
  PROVE  Next /\ report' = report /\ item' \in [Passes -> Items \cup {NoItem}]
<1> DEFINE i == item[p]
<1>1. i \in Items
  <2>1. i # NoItem
    BY DEF ApplyPublish, ApplyUnpublish, WriteBack
  <2> QED
    BY <2>1 DEF PassInv
<1>2. /\ i.node \in NodeIds /\ i.state \in WorkflowStates /\ i.publishAt \in 0..MaxTime
      /\ i.unpublishAt \in 0..MaxTime /\ i.todo \in Plans
      /\ InTurn(i.publishAt, i.unpublishAt)
  BY <1>1 DEF Items
<1>3. ASSUME NEW j \in Items \cup {NoItem}, Advance(p, j)
      PROVE  report' = report /\ item' \in [Passes -> Items \cup {NoItem}]
  BY <1>3 DEF Advance, PassInv
<1>4. Never \in 0..MaxTime
  BY BoundAssumption DEF Never
<1>5. CASE ApplyPublish(p)
  <2> DEFINE j == [i EXCEPT !.todo = Tail(@), !.state = "published", !.publishAt = Never]
  <2>1. Publish(i.node, System) /\ Advance(p, j) /\ Tail(i.todo) \in Plans
    BY <1>2, <1>5, PlansGoOn DEF ApplyPublish
  <2>2. /\ j \in [node : NodeIds, state : WorkflowStates, publishAt : 0..MaxTime,
                unpublishAt : 0..MaxTime, todo : Plans]
        /\ j.publishAt = Never /\ j.unpublishAt = i.unpublishAt
    BY <1>1, <1>4, <2>1 DEF Items, WorkflowStates
  <2>3. j \in Items
    BY <2>2 DEF Items, InTurn
  <2>4. Next
    BY <1>2, <2>1, PassAssumption DEF Next, TreeStep
  <2> HIDE DEF i, j
  <2> QED
    BY <2>1, <2>3, <2>4, <1>3
<1>6. CASE ApplyUnpublish(p)
  <2> DEFINE j == [i EXCEPT !.todo = Tail(@), !.state = "unpublished", !.unpublishAt = Never]
  <2>1. Unpublish(i.node, System) /\ Advance(p, j) /\ Tail(i.todo) \in Plans
    BY <1>2, <1>6, PlansGoOn DEF ApplyUnpublish
  <2>2. /\ j \in [node : NodeIds, state : WorkflowStates, publishAt : 0..MaxTime,
                unpublishAt : 0..MaxTime, todo : Plans]
        /\ j.publishAt = i.publishAt /\ j.unpublishAt = Never
    BY <1>1, <1>4, <2>1 DEF Items, WorkflowStates
  <2>3. j \in Items
    BY <2>2 DEF Items, InTurn
  <2>4. Next
    BY <1>2, <2>1, PassAssumption DEF Next, TreeStep
  <2> HIDE DEF i, j
  <2> QED
    BY <2>1, <2>3, <2>4, <1>3
<1>7. CASE WriteBack(p)
  <2>1. UpsertWorkflow(i.node, i.state, i.publishAt, i.unpublishAt) /\ Advance(p, NoItem)
    BY <1>7 DEF WriteBack
  <2>2. Next
    BY <1>2, <2>1 DEF Next, WorkflowStep
  <2> QED
    BY <2>1, <2>2, <1>3
<1> QED
  BY <1>5, <1>6, <1>7

LEMMA PassesGoOn ==
  PassInv /\ [SchedNext]_schedVars => PassInv' /\ [Next]_vars
<1> SUFFICES ASSUME PassInv, [SchedNext]_schedVars
             PROVE  PassInv' /\ [Next]_vars
  OBVIOUS
<1>1. ASSUME [Next]_vars, report' \in [Passes -> SUBSET Items],
             item' \in [Passes -> Items \cup {NoItem}]
      PROVE  PassInv'
  BY <1>1, LifecycleNext, RowsStayInTurn DEF PassInv
<1>2. CASE Next /\ UNCHANGED passVars
  BY <1>1, <1>2 DEF passVars, PassInv
<1>3. CASE UNCHANGED schedVars
  BY <1>1, <1>3 DEF schedVars, passVars, PassInv
<1>4. ASSUME NEW p \in Passes, PassStep(p)
      PROVE  PassInv' /\ [Next]_vars
  <2>1. CASE ReadReport(p) \/ TakeItem(p)
    BY <2>1, ReadReportKeeps, TakeItemKeeps
  <2>2. CASE ApplyPublish(p) \/ ApplyUnpublish(p) \/ WriteBack(p)
    BY <2>2, <1>1, PassWritesAreOperations DEF PassInv
  <2>3. CASE GiveUp(p)
    <3>1. item' = [item EXCEPT ![p] = NoItem] /\ UNCHANGED <<vars, report>>
      BY <2>3 DEF GiveUp, Advance
    <3> QED
      BY <3>1, <1>1 DEF PassInv
  <2> QED
    BY <1>4, <2>1, <2>2, <2>3 DEF PassStep
<1> QED
  BY <1>2, <1>3, <1>4 DEF SchedNext

LEMMA PassesStart == SchedInit => PassInv
<1> SUFFICES ASSUME SchedInit PROVE PassInv
  OBVIOUS
<1>1. LifecycleInv
  BY LifecycleInit DEF SchedInit
<1>2. RowsInTurn
  BY RowsStartInTurn DEF SchedInit
<1> QED
  BY <1>1, <1>2 DEF PassInv, SchedInit

\* apply_due_workflows does nothing the service's operations do not: with any
\* number of passes running, the database goes through a behaviour of
\* ContentNodes, so whatever holds of that holds beside the passes.
THEOREM PassesAreOperations == SchedSpec => Spec
<1>1. SchedInit => Init
  BY DEF SchedInit
<1>2. PassInv /\ [SchedNext]_schedVars => PassInv' /\ [Next]_vars
  BY PassesGoOn
<1> QED
  BY <1>1, <1>2, PassesStart, PTL DEF SchedSpec, Spec

\* The schedule rule of upsert_content_workflow (unpublish after publish) never
\* refuses the row a pass writes back, though it was read some steps before.
WriteBackIsInTurn ==
  \A p \in Passes : item[p] # NoItem => InTurn(item[p].publishAt, item[p].unpublishAt)

\* A report has room for 1000 rows, and those due for publication come first:
\* while there are no more of them than that, it holds them all. (Rows that are
\* only due to be unpublished come last, and nothing of the kind holds of them.)
NoDueIsLeftOut ==
  LET due == {n \in NodeIds : Exists(n) /\ IsDue(workflows[n].publishAt)}
  IN  Cardinality(due) <= ReportLimit => \A R \in Reports : due \subseteq R

LEMMA ReportsFindDue == PassInv => NoDueIsLeftOut
<1> DEFINE due == {n \in NodeIds : Exists(n) /\ IsDue(workflows[n].publishAt)}
<1> SUFFICES ASSUME PassInv, Cardinality(due) <= ReportLimit,
                    NEW R \in Reports, NEW n \in due, n \notin R
             PROVE  FALSE
  BY DEF NoDueIsLeftOut
<1>1. /\ R \subseteq NodeIds
      /\ HasRow(n) => Cardinality(R) = ReportLimit /\ \A m \in R : ~Precedes(n, m)
      /\ \A m \in R : HasRow(m)
  BY DEF Reports
<1>2. HasRow(n)
  BY DEF HasRow, PassInv, RowsInTurn, IsDue
<1>3. \A m \in R : m \in due
  <2> SUFFICES ASSUME NEW m \in R PROVE m \in due
    OBVIOUS
  <2>1. ~Precedes(n, m) /\ m \in NodeIds /\ Exists(m)
    BY <1>1, <1>2 DEF HasRow
  <2>2. workflows[m].publishAt # Never /\ workflows[n].publishAt >= workflows[m].publishAt
    <3>1. workflows[m].publishAt \in 0..MaxTime /\ workflows[n].publishAt \in 0..MaxTime
      BY <2>1 DEF PassInv, RowsInTurn
    <3>2. workflows[n].publishAt # Never
      BY DEF IsDue
    <3> QED
      BY <2>1, <3>1, <3>2 DEF Precedes
  <2>3. now \in Nat /\ MaxTime \in Nat /\ workflows[n].publishAt \in 0..MaxTime
        /\ workflows[m].publishAt \in 0..MaxTime
    BY <2>1, BoundAssumption DEF PassInv, LifecycleInv, TypeOK, RowsInTurn
  <2> QED
    BY <2>1, <2>2, <2>3 DEF IsDue
<1>4. IsFiniteSet(due) /\ IsFiniteSet(R)
  <2>1. due \subseteq NodeIds /\ R \subseteq NodeIds
    BY <1>1
  <2> QED
    BY <2>1, NodeAssumption, FS_Subset
<1>5. R \cup {n} \subseteq due /\ Cardinality(R \cup {n}) = Cardinality(R) + 1
  BY <1>3, <1>4, FS_AddElement
<1>6. Cardinality(R \cup {n}) <= Cardinality(due)
  BY <1>4, <1>5, FS_Subset
<1>7. Cardinality(R) = ReportLimit
  BY <1>1, <1>2
<1>8. Cardinality(due) \in Nat /\ Cardinality(R) \in Nat
  BY <1>4, FS_CardinalityType
<1> QED
  BY <1>5, <1>6, <1>7, <1>8

\* However many passes run beside the editors, a pass is never refused the row it
\* writes back.
THEOREM WriteBacksAreTaken == SchedSpec => []WriteBackIsInTurn
<1>1. PassInv => WriteBackIsInTurn
  BY DEF PassInv, WriteBackIsInTurn, Items
<1> QED
  BY <1>1, PassesStart, PassesGoOn, PTL DEF SchedSpec

\* No publication that is due is left out of a report, unless more than ReportLimit are.
THEOREM DueIsReported == SchedSpec => []NoDueIsLeftOut
<1> QED
  BY ReportsFindDue, PassesStart, PassesGoOn, PTL DEF SchedSpec

\* What the lifecycle promises, it promises beside the passes: in particular a pass
\* that read its report before a purge writes nothing for the page that is gone.
THEOREM PassesKeepLifecycle == SchedSpec => [](PublishedIffLive /\ NothingOutlivesPurge
                                               /\ NewestVersionIsDraft)
<1>1. LifecycleInv => PublishedIffLive /\ NothingOutlivesPurge /\ NewestVersionIsDraft
  BY DEF LifecycleInv
<1> QED
  BY <1>1, PassesAreOperations, LifecycleCorrect, PTL
-----------------------------------------------------------------------------
(* The others who use the service: one database, one behaviour.            *)

\* Who edits under a lock does nothing the service's operations do not, whatever
\* is shown to whom.
THEOREM EditorsAreOperations == EditSpec => Spec
<1>1. EditInit => Init
  BY DEF EditInit
<1>2. [EditNext]_editVars => [Next]_vars
  BY EditNextIsNext DEF editVars
<1> QED
  BY <1>1, <1>2, PTL DEF EditSpec, Spec

\* The dates a request writes back are those of a row it read.
RequestDates ==
  \A r \in Requests : request[r] # NoRequest /\ request[r].row # None =>
    request[r].row.publishAt \in 0..MaxTime /\ request[r].row.unpublishAt \in 0..MaxTime

LEMMA RequestsKeepDates ==
  ASSUME RequestInv, RowsInTurn, RequestDates, [RequestNext]_requestVars
  PROVE  RowsInTurn' /\ RequestDates' /\ [Next]_vars
<1>1. ASSUME NEW r \in Requests, NEW n \in NodeIds, NEW to \in WorkflowStates, SeeNode(r, n, to)
      PROVE  RequestDates' /\ UNCHANGED vars
  <2> DEFINE q == [node |-> n, to |-> to, status |-> nodes[n].status, row |-> None]
  <2>1. request' = [request EXCEPT ![r] = q] /\ UNCHANGED vars /\ q.row = None
    BY <1>1 DEF SeeNode
  <2> HIDE DEF q
  <2> QED
    BY <2>1 DEF RequestDates, RequestInv, RequestTypeOK
<1>2. ASSUME NEW r \in Requests, LoadRow(r)
      PROVE  RequestDates' /\ UNCHANGED vars
  <2> DEFINE q == request[r]
             row == workflows[q.node]
             q2 == [q EXCEPT !.row = row]
  <2>1. /\ q # NoRequest /\ UNCHANGED vars
        /\ \/ request' = [request EXCEPT ![r] = q2]
           \/ request' = [request EXCEPT ![r] = NoRequest]
    BY <1>2 DEF LoadRow
  <2>2. q \in Pending
    BY <2>1 DEF RequestInv, RequestTypeOK
  <2>3. q2.row = row /\ row.publishAt \in 0..MaxTime /\ row.unpublishAt \in 0..MaxTime
    BY <2>2 DEF Pending, RowsInTurn
  <2> HIDE DEF q2, row
  <2> QED
    BY <2>1, <2>3 DEF RequestDates, RequestInv, RequestTypeOK
<1>3. ASSUME NEW r \in Requests, Save(r)
      PROVE  RequestDates' /\ [Next]_vars
  <2> DEFINE q == request[r]
  <2>1. /\ q # NoRequest /\ q.row # None /\ request' = [request EXCEPT ![r] = NoRequest]
        /\ \/ UpsertWorkflow(q.node, q.to, q.row.publishAt, q.row.unpublishAt)
           \/ UNCHANGED vars
    BY <1>3 DEF Save
  <2>2. q \in Pending
    BY <2>1 DEF RequestInv, RequestTypeOK
  <2>3. q.node \in NodeIds /\ q.to \in WorkflowStates
        /\ q.row.publishAt \in 0..MaxTime /\ q.row.unpublishAt \in 0..MaxTime
    BY <2>1, <2>2 DEF Pending, RequestDates
  <2>4. [Next]_vars
    BY <2>1, <2>3 DEF Next, WorkflowStep
  <2>5. RequestDates'
    BY <2>1 DEF RequestDates, RequestInv, RequestTypeOK
  <2> QED
    BY <2>4, <2>5
<1>4. ASSUME UNCHANGED request, TreeStep \/ UNCHANGED vars
      PROVE  RequestDates' /\ [Next]_vars
  BY <1>4 DEF Next, RequestDates
<1>6. RequestDates' /\ [Next]_vars
  BY <1>1, <1>2, <1>3, <1>4 DEF RequestNext, RequestStep, requestVars
<1>7. RowsInTurn'
  BY <1>6, RowsStayInTurn DEF RequestInv
<1> QED
  BY <1>6, <1>7

\* Nor does a transition request, though it writes back dates it read earlier.
THEOREM RequestsAreOperations == RequestSpec => Spec
<1> DEFINE Inv == RequestInv /\ RowsInTurn /\ RequestDates
<1>1. RequestInit => Init /\ Inv
  BY RequestInvInit, RowsStartInTurn DEF RequestInit, RequestDates
<1>2. Inv /\ [RequestNext]_requestVars => Inv' /\ [Next]_vars
  BY RequestInvStep, RequestsKeepDates
<1> QED
  BY <1>1, <1>2, PTL DEF RequestSpec, Spec

\* Nor do the seeders, starts of the process and changes of types beside them.
THEOREM SeedersAreOperations == SeedSpec => Spec
<1>1. SeedInit => Init
  BY DEF SeedInit
<1>2. ASSUME SeedsInv, [SeedNext]_<<vars, seedVars>>
      PROVE  [Next]_vars
  <2>1. ASSUME NEW k \in Seeders, CreatePage(k)
        PROVE  [Next]_vars
    <3> DEFINE walk == walks[k]
    <3>1. walk \in WalkRows /\ walk.left # <<>>
      BY <1>2, <2>1 DEF CreatePage, SeedsInv, WalkIsSound
    <3>2. Head(walk.left) \in Payloads
      BY <3>1 DEF WalkRows
    <3>3. PICK n \in NodeIds, slug \in Slugs : Create(n, Root, slug, Head(walk.left))
      BY <2>1 DEF CreatePage
    <3> QED
      BY <3>2, <3>3, NodeAssumption DEF Next, TreeStep
  <2>2. ASSUME NEW k \in Seeders, PublishPage(k)
        PROVE  [Next]_vars
    <3>1. walks[k].page \in NodeIds /\ Publish(walks[k].page, SeedActor)
      BY <1>2, <2>2 DEF PublishPage, SeedsInv, WalkIsSound
    <3> QED
      BY <3>1, SeedAssumption DEF Next, TreeStep
  <2>3. ASSUME NEW k \in Seeders, Begin(k) \/ Look(k) \/ SkipFile(k)
        PROVE  UNCHANGED vars
    BY <2>3 DEF Begin, Look, LookAmong, SkipFile
  <2> QED
    BY <1>2, <2>1, <2>2, <2>3 DEF SeedNext, SeederStep, Boot, NarrowType, Next
<1>3. SeedsInv /\ [SeedNext]_<<vars, seedVars>> => SeedsInv'
  BY SeedNextKeeps
<1> QED
  BY <1>1, <1>2, <1>3, SeedStart, PTL DEF SeedSpec, Spec
=============================================================================
