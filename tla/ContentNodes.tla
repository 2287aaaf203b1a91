---------------------------- MODULE ContentNodes ----------------------------
(***************************************************************************)
(* The node lifecycle of ArcHubCMSService (services/cms.py): the content   *)
(* tree, its routes, draft and published payloads, version history, edit   *)
(* locks, workflow rows and the recycle bin.                               *)
(*                                                                         *)
(* Every operation of the service takes the process-wide lock, opens one   *)
(* connection, and commits once or not at all; so an operation is one      *)
(* action, and an operation that raises changes nothing and is no step.    *)
(* What spans several operations is modelled in the modules that extend    *)
(* this one.                                                               *)
(***************************************************************************)
EXTENDS Integers, Sequences, FiniteSets

CONSTANTS
  NodeIds,      (* the node ids that may ever be drawn                     *)
  Root,         (* the seeded root node                                    *)
  Slugs,        (* slugs an editor (or the suffix rule) can produce        *)
  Payloads,     (* cleaned payloads, as _clean_payload returns them        *)
  Publishable,  (* those _validate_payload_for_publish finds no error in   *)
  Actors,       (* names of editors and of the background worker           *)
  NoActor,      (* the empty actor name of a call that gives none          *)
  None,         (* SQL NULL / Python None                                  *)
  Ttls,         (* lock durations, in ticks                                *)
  Keeps,        (* values of keep_latest, after its clamp to 1..500        *)
  Retentions,   (* ages cleanup_content_versions is called with, or None   *)
  MaxVersion,   (* bound: version numbers drawn per node                   *)
  MaxTime       (* bound: last value of the clock                          *)

ASSUME NodeAssumption ==
  /\ IsFiniteSet(NodeIds)
  /\ Root \in NodeIds
  /\ None \notin NodeIds

ASSUME ContentAssumption ==
  /\ Publishable \subseteq Payloads
  /\ None \notin Payloads \cup Slugs \cup Actors

ASSUME BoundAssumption ==
  /\ Ttls \subseteq Nat \ {0}
  /\ Keeps \subseteq Nat \ {0}
  /\ Retentions \subseteq Nat \cup {None}
  /\ MaxVersion \in Nat \ {0}
  /\ MaxTime \in Nat

VARIABLES
  nodes,      (* archub_content_nodes, by node id                          *)
  versions,   (* archub_content_versions: the set of rows of each node     *)
  locks,      (* archub_content_locks: the row of each node, or NoLock     *)
  workflows,  (* archub_content_workflows: the row of each node            *)
  now         (* time.time(), in ticks                                     *)

vars == <<nodes, versions, locks, workflows, now>>

(* Where a definition is preceded by one or two of the same parameters and *)
(* a longer name, those are its mutants: the slip in the code a property   *)
(* of this module would catch. No specification uses them.                 *)
-----------------------------------------------------------------------------
(* Rows.                                                                   *)

\* "absent" and "purged" are the model's: no row yet, and a row that was
\* deleted for good (ids are random tokens, so a purged id never returns).
NodeStatuses == {"absent", "draft", "published", "unpublished", "trashed", "purged"}
WorkflowStates == {"draft", "in_review", "approved", "changes_requested",
                   "scheduled", "published", "unpublished", "archived", "trashed"}

\* No schedule: NULL and 0.0 are the same to the due test (both are falsy).
Never == 0

TrashSlug(n) == <<"__trash__", n>>
TrashRoute(n) == <<TrashSlug(n)>>
SlugValues == Slugs \cup {TrashSlug(n) : n \in NodeIds} \cup {None}

\* A route is the list of the segments below the public root /cms.
Routes == Seq(SlugValues)
PublicRoot == <<>>

Origins == [parent: NodeIds \cup {None}, slug: SlugValues, route: Routes]
NoOrigin == [parent |-> None, slug |-> None, route |-> <<>>]

NodeRows == [status: NodeStatuses, parent: NodeIds \cup {None},
             slug: SlugValues, route: Routes,
             draft: Payloads \cup {None}, pub: Payloads \cup {None},
             origin: Origins]
BlankRow == [status |-> "absent", parent |-> None, slug |-> None,
             route |-> PublicRoot, draft |-> None, pub |-> None,
             origin |-> NoOrigin]

VersionRows == [no: Nat \ {0}, status: NodeStatuses, payload: Payloads, at: Nat]

LockRows == [owner: Actors \cup {None}, expires: Nat]
NoLock == [owner |-> None, expires |-> 0]

WorkflowRows == [state: WorkflowStates \cup {None}, publishAt: Nat, unpublishAt: Nat,
                 at: Nat]
NoWorkflow == [state |-> None, publishAt |-> Never, unpublishAt |-> Never, at |-> 0]

Exists(n) == nodes[n].status \notin {"absent", "purged"}

\* Ids are random tokens: an INSERT draws one that no row has had.
FreshOrTaken(n) == nodes[n].status # "purged"
Fresh(n) == nodes[n].status = "absent"

-----------------------------------------------------------------------------
(* Slugs and routes.                                                       *)

\* Some other row under this parent (NULL for the root and the recycle bin)
\* has the slug; trashed rows count.
SlugTaken(parent, slug, self) ==
  \E m \in NodeIds \ {self} :
    Exists(m) /\ nodes[m].parent = parent /\ nodes[m].slug = slug

\* What _unique_slug may return: the slug asked for if it is free, else the
\* first free suffixed one. The slug asked for is arbitrary, so any free one.
FreeSlugs(parent, self) == {s \in Slugs : ~SlugTaken(parent, s, self)}

RouteFor(parent, slug) ==
  IF parent = None THEN <<slug>> ELSE Append(nodes[parent].route, slug)

\* Downward paths of the tree, by the ids on them.
Chains == UNION {[1..k -> NodeIds] : k \in 1..Cardinality(NodeIds)}
PathsDown(ns, n, m) ==
  {p \in Chains : /\ ns[p[1]].parent = n
                  /\ p[Len(p)] = m
                  /\ \A i \in 2..Len(p) : ns[p[i]].parent = p[i-1]}

\* The recursion of _refresh_descendant_routes: every descendant gets the
\* route of n followed by the slugs on the way down.
RefreshRoutes(ns, n) ==
  [m \in NodeIds |->
    IF PathsDown(ns, n, m) = {} THEN ns[m]
    ELSE LET p == CHOOSE p \in PathsDown(ns, n, m) : TRUE
         IN  [ns[m] EXCEPT !.route =
                ns[n].route \o [i \in 1..Len(p) |-> ns[p[i]].slug]]]

\* route_path is UNIQUE: a transaction that would break this raises.
RoutesUnique(ns) ==
  \A m1, m2 \in {n \in NodeIds : ns[n].status \notin {"absent", "purged"}} :
    ns[m1].route = ns[m2].route => m1 = m2

CommitNodes(ns) == RoutesUnique(ns) /\ nodes' = ns

-----------------------------------------------------------------------------
(* Versions and locks.                                                     *)

LastNo(vs) ==
  IF vs = {} THEN 0 ELSE (CHOOSE v \in vs : \A w \in vs : w.no <= v.no).no

AddVersion(n, status, payload) ==
  /\ LastNo(versions[n]) < MaxVersion
  /\ versions' = [versions EXCEPT ![n] = @ \cup
       {[no |-> LastNo(@) + 1, status |-> status, payload |-> payload, at |-> now]}]

LockActive(n) == locks[n].expires > now

\* _assert_content_lock does not raise; it lets a nameless caller through.
MayWriteLapsingEarly(n, actor) ==
  actor # NoActor /\ locks[n].expires > now + 1 => locks[n].owner = actor
MayWrite(n, actor) == actor # NoActor /\ LockActive(n) => locks[n].owner = actor

-----------------------------------------------------------------------------
(* Operations on nodes.                                                    *)

Create(n, parent, slug, payload) ==
  /\ Fresh(n)
  /\ parent # None => Exists(parent)
  /\ slug \in FreeSlugs(parent, n)
  /\ CommitNodes([nodes EXCEPT ![n] =
       [BlankRow EXCEPT !.status = "draft", !.parent = parent, !.slug = slug,
                        !.route = RouteFor(parent, slug), !.draft = payload]])
  /\ AddVersion(n, "draft", payload)
  /\ UNCHANGED <<locks, workflows, now>>

\* An edited unpublished node is a draft again; every other status stays.
StatusOnEditDraft(status) == "draft"
StatusOnEditInReview(status) == IF status = "published" THEN "in_review" ELSE status
StatusOnEdit(status) == IF status = "unpublished" THEN "draft" ELSE status

Update(n, slug, payload, actor) ==
  LET parent == nodes[n].parent
      saved == [nodes EXCEPT ![n] =
        [@ EXCEPT !.slug = slug, !.draft = payload,
                  !.status = StatusOnEdit(nodes[n].status),
                  !.route = IF n = Root THEN PublicRoot ELSE RouteFor(parent, slug)]]
  IN  /\ Exists(n)
      /\ MayWrite(n, actor)
      /\ parent # None => Exists(parent)
      /\ slug \in IF n = Root THEN {None} ELSE FreeSlugs(parent, n)
      /\ CommitNodes(RefreshRoutes(saved, n))
      /\ AddVersion(n, "draft", payload)
      /\ UNCHANGED <<locks, workflows, now>>

\* UPDATE archub_content_workflows ... WHERE node_id = ?: no row, no change.
SetWorkflow(n, row) ==
  workflows' = IF workflows[n].state = None THEN workflows
               ELSE [workflows EXCEPT ![n] = [row EXCEPT !.at = now]]

Publish(n, actor) ==
  /\ Exists(n)
  /\ MayWrite(n, actor)
  /\ nodes[n].draft \in Publishable
  /\ nodes' = [nodes EXCEPT ![n].status = "published", ![n].pub = nodes[n].draft]
  /\ SetWorkflow(n, [workflows[n] EXCEPT !.state = "published", !.publishAt = Never])
  /\ AddVersion(n, "published", nodes[n].draft)
  /\ UNCHANGED <<locks, now>>

Unpublish(n, actor) ==
  /\ n # Root
  /\ Exists(n)
  /\ MayWrite(n, actor)
  /\ nodes' = [nodes EXCEPT ![n].status = "unpublished", ![n].pub = None]
  /\ SetWorkflow(n, [workflows[n] EXCEPT !.state = "unpublished", !.unpublishAt = Never])
  /\ AddVersion(n, "unpublished", nodes[n].draft)
  /\ UNCHANGED <<locks, now>>

\* A node that is in the bin already is left alone (an early return). For a
\* caller without a name the last editor's is used, which is any actor's.
Delete(n, actor) ==
  /\ n # Root
  /\ Exists(n)
  /\ \A c \in NodeIds : nodes[c].parent = n => nodes[c].status = "trashed"
  /\ MayWrite(n, actor)
  /\ nodes[n].status # "trashed"
  /\ CommitNodes([nodes EXCEPT ![n] =
       [@ EXCEPT !.status = "trashed", !.parent = None, !.slug = TrashSlug(n),
                 !.route = TrashRoute(n), !.pub = None,
                 !.origin = [parent |-> nodes[n].parent, slug |-> nodes[n].slug,
                             route |-> nodes[n].route]]])
  /\ SetWorkflow(n, [workflows[n] EXCEPT !.state = "trashed"])
  /\ locks' = [locks EXCEPT ![n] = NoLock]
  /\ UNCHANGED <<versions, now>>

RestoreTrashed(n) ==
  LET origin == nodes[n].origin
  IN  /\ nodes[n].status = "trashed"
      /\ origin.route # <<>>
      /\ origin.parent # None =>
           Exists(origin.parent) /\ nodes[origin.parent].status # "trashed"
      /\ CommitNodes([nodes EXCEPT ![n] =
           [@ EXCEPT !.status = "draft", !.parent = origin.parent,
                     !.slug = origin.slug, !.route = origin.route,
                     !.origin = NoOrigin]])
      /\ AddVersion(n, "draft", nodes[n].draft)
      /\ UNCHANGED <<locks, workflows, now>>

Purge(n) ==
  /\ nodes[n].status = "trashed"
  /\ nodes' = [nodes EXCEPT ![n] = [BlankRow EXCEPT !.status = "purged"]]
  /\ versions' = [versions EXCEPT ![n] = {}]
  /\ locks' = [locks EXCEPT ![n] = NoLock]
  /\ workflows' = [workflows EXCEPT ![n] = NoWorkflow]
  /\ UNCHANGED now

\* A sibling copy, under the slug "<slug>-copy" or its first free suffix.
Duplicate(n, copy, slug) ==
  LET parent == nodes[n].parent
  IN  /\ n # Root
      /\ Exists(n)
      /\ Fresh(copy)
      /\ parent # None => Exists(parent)
      /\ slug \in FreeSlugs(parent, copy)
      /\ CommitNodes([nodes EXCEPT ![copy] =
           [BlankRow EXCEPT !.status = "draft", !.parent = parent, !.slug = slug,
                            !.route = RouteFor(parent, slug), !.draft = nodes[n].draft]])
      /\ AddVersion(copy, "draft", nodes[n].draft)
      /\ UNCHANGED <<locks, workflows, now>>

RestoreVersion(n, no, actor) ==
  /\ Exists(n)
  /\ MayWrite(n, actor)
  /\ \E v \in versions[n] :
       /\ v.no = no
       /\ nodes' = [nodes EXCEPT ![n].draft = v.payload, ![n].status = StatusOnEdit(@)]
       /\ AddVersion(n, "draft", v.payload)
  /\ UNCHANGED <<locks, workflows, now>>

\* The rows ORDER BY version_no DESC puts before the first `keep`, and those
\* younger than the retention age, survive.
SurvivorsOldest(vs, keep, retention) ==
  {v \in vs : Cardinality({w \in vs : w.no < v.no}) < keep}
SurvivorsByAge(vs, keep, retention) ==
  {v \in vs : retention = None \/ v.at > now - retention}
Survivors(vs, keep, retention) ==
  {v \in vs : \/ Cardinality({w \in vs : w.no > v.no}) < keep
              \/ retention # None /\ v.at > now - retention}

\* One node, or every node that has versions, in one transaction.
CleanupVersions(scope, keep, retention) ==
  /\ versions' = [n \in NodeIds |-> IF n \in scope
                                    THEN Survivors(versions[n], keep, retention)
                                    ELSE versions[n]]
  /\ UNCHANGED <<nodes, locks, workflows, now>>

-----------------------------------------------------------------------------
(* Edit locks, the workflow row, time.                                     *)

AcquireLock(n, owner, ttl, force) ==
  /\ owner # NoActor
  /\ Exists(n)
  /\ force \/ MayWrite(n, owner)
  /\ locks' = [locks EXCEPT ![n] = [owner |-> owner, expires |-> now + ttl]]
  /\ UNCHANGED <<nodes, versions, workflows, now>>

\* Unlike acquiring, releasing compares owners on an expired row too.
ReleaseLock(n, owner, force) ==
  /\ owner # NoActor
  /\ locks[n] # NoLock
  /\ force \/ locks[n].owner = owner
  /\ locks' = [locks EXCEPT ![n] = NoLock]
  /\ UNCHANGED <<nodes, versions, workflows, now>>

UpsertWorkflowUnread(n, state, publishAt, unpublishAt) ==
  /\ (publishAt # Never /\ unpublishAt # Never) => unpublishAt > publishAt
  /\ workflows' = [workflows EXCEPT ![n] =
       [state |-> state, publishAt |-> publishAt, unpublishAt |-> unpublishAt,
        at |-> now]]
  /\ UNCHANGED <<nodes, versions, locks, now>>
\* The whole row is overwritten, whatever its state and whoever holds the lock.
UpsertWorkflow(n, state, publishAt, unpublishAt) ==
  /\ Exists(n)
  /\ (publishAt # Never /\ unpublishAt # Never) => unpublishAt > publishAt
  /\ workflows' = [workflows EXCEPT ![n] =
       [state |-> state, publishAt |-> publishAt, unpublishAt |-> unpublishAt,
        at |-> now]]
  /\ UNCHANGED <<nodes, versions, locks, now>>

Tick ==
  /\ now < MaxTime
  /\ now' = now + 1
  /\ UNCHANGED <<nodes, versions, locks, workflows>>

-----------------------------------------------------------------------------
(* The database _ensure_db seeds: a published root and its first version.  *)

Init ==
  /\ now = 0
  /\ \E p \in Payloads :
       /\ nodes = [n \in NodeIds |->
            IF n = Root THEN [BlankRow EXCEPT !.status = "published", !.draft = p, !.pub = p]
                        ELSE BlankRow]
       /\ versions = [n \in NodeIds |->
            IF n = Root THEN {[no |-> 1, status |-> "published", payload |-> p, at |-> 0]}
                        ELSE {}]
  /\ locks = [n \in NodeIds |-> NoLock]
  /\ workflows = [n \in NodeIds |-> NoWorkflow]

\* The operations that change the tree or a node's place in its lifecycle.
TreeStep ==
  \/ \E n \in NodeIds, p \in NodeIds \cup {None}, s \in Slugs, d \in Payloads :
       Create(n, p, s, d)
  \/ \E n \in NodeIds, s \in Slugs \cup {None}, d \in Payloads, a \in Actors :
       Update(n, s, d, a)
  \/ \E n \in NodeIds, a \in Actors : Publish(n, a)
  \/ \E n \in NodeIds, a \in Actors : Unpublish(n, a)
  \/ \E n \in NodeIds, a \in Actors : Delete(n, a)
  \/ \E n \in NodeIds : RestoreTrashed(n)
  \/ \E n \in NodeIds : Purge(n)
  \/ \E n, copy \in NodeIds, s \in Slugs : Duplicate(n, copy, s)

HistoryStep ==
  \/ \E n \in NodeIds, a \in Actors : \E v \in versions[n] : RestoreVersion(n, v.no, a)
  \/ \E scope \in {{n} : n \in NodeIds} \cup {NodeIds}, keep \in Keeps,
        retention \in Retentions : CleanupVersions(scope, keep, retention)

LockStep ==
  \/ \E n \in NodeIds, a \in Actors, ttl \in Ttls, force \in BOOLEAN :
       AcquireLock(n, a, ttl, force)
  \/ \E n \in NodeIds, a \in Actors, force \in BOOLEAN : ReleaseLock(n, a, force)

WorkflowStep ==
  \E n \in NodeIds, st \in WorkflowStates, pa, ua \in 0..MaxTime :
    UpsertWorkflow(n, st, pa, ua)

Next == TreeStep \/ HistoryStep \/ LockStep \/ WorkflowStep \/ Tick

Spec == Init /\ [][Next]_vars
-----------------------------------------------------------------------------
(* Properties.                                                             *)

\* Every variable keeps its type.
TypeOK ==
  /\ nodes \in [NodeIds -> NodeRows]
  /\ versions \in [NodeIds -> SUBSET VersionRows]
  /\ locks \in [NodeIds -> LockRows]
  /\ workflows \in [NodeIds -> WorkflowRows]
  /\ now \in Nat

\* Delivery reads published_json, listings read status: the two must agree
\* through every order of edits, deletions, restores and publications.
PublishedIffLive ==
  \A n \in NodeIds : nodes[n].status = "published" <=> nodes[n].pub # None

\* The tree is one: no sequence of creations, deletions and restores puts a
\* node below itself, so the recursion of _refresh_descendant_routes ends.
TreeHasNoCycles == \A n \in NodeIds : PathsDown(nodes, n, n) = {}

\* Nothing is left of a node that is gone, and nothing is written for it later:
\* a caller that read the node before the purge finds it missing afterwards.
NothingOutlivesPurge ==
  \A n \in NodeIds : ~Exists(n) =>
    versions[n] = {} /\ locks[n] = NoLock /\ workflows[n] = NoWorkflow

\* No saved work is outside the history: whatever was done to a node, and
\* however its history was pruned, its newest version is its current draft.
NewestVersionIsDraft ==
  \A n \in NodeIds : Exists(n) =>
    \E v \in versions[n] : /\ v.payload = nodes[n].draft
                           /\ \A w \in versions[n] : w.no <= v.no

\* UNIQUE(node_id, version_no): MAX(version_no) + 1 never collides, so no
\* operation is refused by that constraint.
VersionNumbersUnique ==
  \A n \in NodeIds : \A v, w \in versions[n] : v.no = w.no => v = w

\* A version number an editor has seen never comes to name another payload:
\* pruning must not free the number that MAX(version_no) + 1 draws next.
VersionNumbersNotReused ==
  [][\A n \in NodeIds : nodes'[n].status # "purged" =>
       LastNo(versions'[n]) >= LastNo(versions[n])]_vars
=============================================================================
