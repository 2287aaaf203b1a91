------------------------ MODULE ContentNodes_proofs -------------------------
(***************************************************************************)
(* Proofs about ContentNodes, for every tree, history and set of actors.   *)
(* LifecycleInv is the inductive invariant: the version facts need the     *)
(* newest version to exist, which in turn needs drafts to be payloads and  *)
(* the rows of a node to go with it.                                       *)
(*                                                                         *)
(* That the tree is one, TreeInv, is an invariant beside it; where routes  *)
(* follow the tree, and where they do not, is said of steps (RoutesFollow).*)
(***************************************************************************)
EXTENDS ContentNodes, TLAPS, FiniteSetTheorems, SequenceTheorems, WellFoundedInduction

LifecycleInv ==
  /\ TypeOK
  /\ PublishedIffLive
  /\ NothingOutlivesPurge
  /\ NewestVersionIsDraft
  /\ VersionNumbersUnique

-----------------------------------------------------------------------------
(* Types of the rows the operations write.                                 *)

\* Slugs drawn for pages and for the bin, and the routes made of them, are values
\* of their columns (_route_for, delete_node).
LEMMA RouteTypes ==
  /\ Slugs \subseteq SlugValues
  /\ None \in SlugValues
  /\ \A n \in NodeIds : TrashSlug(n) \in SlugValues /\ TrashRoute(n) \in Routes
  /\ PublicRoot \in Routes
  /\ \A r \in Routes, s \in SlugValues : Append(r, s) \in Routes /\ <<s>> \in Routes
BY DEF SlugValues, TrashRoute, Routes, PublicRoot

\* A row that is not there yet has the type of a row.
LEMMA BlankTypes ==
  /\ BlankRow \in NodeRows
  /\ NoOrigin \in Origins
  /\ NoLock \in LockRows
  /\ NoWorkflow \in WorkflowRows
<1>1. NoOrigin \in Origins
  BY RouteTypes DEF NoOrigin, Origins, PublicRoot
<1>2. BlankRow \in NodeRows
  BY <1>1, RouteTypes DEF BlankRow, NodeRows, NodeStatuses
<1> QED
  BY <1>1, <1>2 DEF NoLock, LockRows, NoWorkflow, WorkflowRows, Never

\* RouteFor gives a route, whatever the parent.
LEMMA RouteForType ==
  ASSUME TypeOK, NEW parent \in NodeIds \cup {None}, NEW slug \in SlugValues
  PROVE  RouteFor(parent, slug) \in Routes
BY RouteTypes DEF RouteFor, TypeOK, NodeRows

\* The route _refresh_descendant_routes appends to is extended by slugs only.
LEMMA PathRouteType ==
  ASSUME NEW ns \in [NodeIds -> NodeRows], NEW p \in Chains, NEW r \in Routes
  PROVE  r \o [i \in 1..Len(p) |-> ns[p[i]].slug] \in Routes
<1>1. Cardinality(NodeIds) \in Nat
  BY NodeAssumption, FS_CardinalityType
<1>2. PICK k \in 1..Cardinality(NodeIds) : p \in [1..k -> NodeIds]
  BY DEF Chains
<1>3. k \in Nat /\ p \in Seq(NodeIds) /\ Len(p) = k
  BY <1>1, <1>2
<1>4. [i \in 1..Len(p) |-> ns[p[i]].slug] \in Seq(SlugValues)
  BY <1>2, <1>3 DEF NodeRows
<1> QED
  BY <1>4 DEF Routes

\* Refreshing the routes below a node changes the route of rows and nothing else
\* (_refresh_descendant_routes).
LEMMA RefreshRoutesFrame ==
  ASSUME NEW ns \in [NodeIds -> NodeRows], NEW n \in NodeIds
  PROVE  /\ RefreshRoutes(ns, n) \in [NodeIds -> NodeRows]
         /\ \A m \in NodeIds :
              /\ RefreshRoutes(ns, n)[m].status = ns[m].status
              /\ RefreshRoutes(ns, n)[m].draft = ns[m].draft
              /\ RefreshRoutes(ns, n)[m].pub = ns[m].pub
              /\ RefreshRoutes(ns, n)[m].parent = ns[m].parent
              /\ RefreshRoutes(ns, n)[m].origin = ns[m].origin
<1> SUFFICES ASSUME NEW m \in NodeIds
             PROVE  /\ RefreshRoutes(ns, n)[m] \in NodeRows
                    /\ RefreshRoutes(ns, n)[m].status = ns[m].status
                    /\ RefreshRoutes(ns, n)[m].draft = ns[m].draft
                    /\ RefreshRoutes(ns, n)[m].pub = ns[m].pub
                    /\ RefreshRoutes(ns, n)[m].parent = ns[m].parent
                    /\ RefreshRoutes(ns, n)[m].origin = ns[m].origin
  BY DEF RefreshRoutes
<1> DEFINE p == CHOOSE p \in PathsDown(ns, n, m) : TRUE
           r == ns[n].route \o [i \in 1..Len(p) |-> ns[p[i]].slug]
<1>1. CASE PathsDown(ns, n, m) = {}
  BY <1>1 DEF RefreshRoutes
<1>2. CASE PathsDown(ns, n, m) # {}
  <2>1. p \in Chains
    BY <1>2 DEF PathsDown
  <2>2. r \in Routes
    BY <2>1, PathRouteType DEF NodeRows
  <2>3. RefreshRoutes(ns, n)[m] = [ns[m] EXCEPT !.route = r]
    BY <1>2 DEF RefreshRoutes
  <2> HIDE DEF r
  <2>4. ns[m] \in NodeRows
    OBVIOUS
  <2> QED
    BY <2>2, <2>3, <2>4 DEF NodeRows
<1> QED
  BY <1>1, <1>2

-----------------------------------------------------------------------------
(* Version numbers.                                                        *)

Newest(v, vs) == v \in vs /\ \A w \in vs : w.no <= v.no

\* MAX(version_no) is the number of the newest version.
LEMMA LastNoOfNewest ==
  ASSUME NEW vs \in SUBSET VersionRows, NEW v, Newest(v, vs)
  PROVE  LastNo(vs) = v.no /\ LastNo(vs) \in Nat \ {0}
<1> DEFINE c == CHOOSE c \in vs : \A w \in vs : w.no <= c.no
<1>1. c \in vs /\ \A w \in vs : w.no <= c.no
  BY DEF Newest
<1>2. c.no = v.no
  BY <1>1 DEF Newest, VersionRows
<1>3. LastNo(vs) = c.no
  BY DEF LastNo, Newest
<1> QED
  BY <1>1, <1>2, <1>3 DEF VersionRows

\* Adding a version (_add_version) to a history that is empty or has a newest
\* version keeps the numbers apart, and the version added is the newest.
LEMMA AddVersionProperties ==
  ASSUME TypeOK, VersionNumbersUnique,
         NEW n \in NodeIds, NEW status \in NodeStatuses, NEW payload \in Payloads,
         versions[n] = {} \/ \E v : Newest(v, versions[n]),
         AddVersion(n, status, payload)
  PROVE  /\ versions' \in [NodeIds -> SUBSET VersionRows]
         /\ \A m \in NodeIds \ {n} : versions'[m] = versions[m]
         /\ \E v : Newest(v, versions'[n]) /\ v.payload = payload
         /\ \A v, w \in versions'[n] : v.no = w.no => v = w
         /\ LastNo(versions'[n]) >= LastNo(versions[n])
<1> DEFINE last == LastNo(versions[n])
           new == [no |-> last + 1, status |-> status, payload |-> payload, at |-> now]
<1>0. versions[n] \in SUBSET VersionRows
  BY DEF TypeOK
<1>1. last \in Nat /\ \A w \in versions[n] : w.no <= last
  <2>1. CASE versions[n] = {}
    BY <2>1 DEF LastNo
  <2>2. CASE versions[n] # {}
    <3>1. PICK v : Newest(v, versions[n])
      BY <2>2
    <3> QED
      BY <1>0, <3>1, LastNoOfNewest DEF Newest
  <2> QED
    BY <2>1, <2>2
<1>2. new \in VersionRows
  BY <1>1 DEF VersionRows, TypeOK
<1>3. /\ versions' = [versions EXCEPT ![n] = versions[n] \cup {new}]
      /\ versions'[n] = versions[n] \cup {new}
  BY DEF AddVersion, TypeOK
<1>4. versions' \in [NodeIds -> SUBSET VersionRows]
  BY <1>0, <1>2, <1>3 DEF TypeOK
<1>5. \A m \in NodeIds \ {n} : versions'[m] = versions[m]
  BY <1>3 DEF TypeOK
<1>6. \A w \in versions[n] : w.no \in Nat /\ w.no < new.no
  BY <1>0, <1>1 DEF VersionRows
<1>7. Newest(new, versions'[n]) /\ new.payload = payload
  BY <1>1, <1>3, <1>6 DEF Newest
<1>8. \A v, w \in versions'[n] : v.no = w.no => v = w
  BY <1>1, <1>3, <1>6 DEF VersionNumbersUnique
<1>9. LastNo(versions'[n]) = new.no
  BY <1>4, <1>7, LastNoOfNewest
<1> QED
  BY <1>1, <1>4, <1>5, <1>7, <1>8, <1>9

\* Pruning (cleanup_content_versions) keeps the newest version of a history.
LEMMA SurvivorsProperties ==
  ASSUME NEW vs \in SUBSET VersionRows, NEW keep \in Nat \ {0}, NEW retention
  PROVE  /\ Survivors(vs, keep, retention) \subseteq vs
         /\ \A v : Newest(v, vs) => Newest(v, Survivors(vs, keep, retention))
<1>1. Survivors(vs, keep, retention) \subseteq vs
  BY DEF Survivors
<1>2. ASSUME NEW v, Newest(v, vs)
      PROVE  Newest(v, Survivors(vs, keep, retention))
  <2>1. {w \in vs : w.no > v.no} = {}
    BY <1>2 DEF Newest, VersionRows
  <2>2. Cardinality({w \in vs : w.no > v.no}) < keep
    BY <2>1, FS_EmptySet
  <2> QED
    BY <1>1, <1>2, <2>2 DEF Newest, Survivors
<1> QED
  BY <1>1, <1>2

-----------------------------------------------------------------------------
(* Steps.                                                                  *)

\* What VersionNumbersNotReused says of one step.
NumbersKept ==
  \A n \in NodeIds : nodes'[n].status # "purged" =>
    LastNo(versions'[n]) >= LastNo(versions[n])

\* Every history the invariant admits has a last number.
LEMMA LastNoType ==
  ASSUME LifecycleInv, NEW n \in NodeIds
  PROVE  LastNo(versions[n]) \in Nat
<1>1. CASE versions[n] = {}
  BY <1>1 DEF LastNo
<1>2. CASE versions[n] # {}
  <2>1. PICK v : Newest(v, versions[n])
    BY <1>2 DEF LifecycleInv, NothingOutlivesPurge, NewestVersionIsDraft, Newest
  <2> QED
    BY <2>1, LastNoOfNewest DEF LifecycleInv, TypeOK
<1> QED
  BY <1>1, <1>2

\* Seven operations save a draft of one node with a version of it: such a step
\* keeps the invariant if it leaves that node published exactly when it has a
\* published payload, and the lifecycle of the other nodes alone.
LEMMA SaveStep ==
  ASSUME LifecycleInv,
         NEW n \in NodeIds, NEW status \in NodeStatuses, NEW payload \in Payloads,
         AddVersion(n, status, payload),
         nodes' \in [NodeIds -> NodeRows],
         workflows' \in [NodeIds -> WorkflowRows],
         UNCHANGED <<locks, now>>,
         nodes'[n].status \notin {"absent", "purged"},
         nodes'[n].status = "published" <=> nodes'[n].pub # None,
         nodes'[n].draft = payload,
         \A m \in NodeIds \ {n} :
           /\ nodes'[m].status = nodes[m].status
           /\ nodes'[m].draft = nodes[m].draft
           /\ nodes'[m].pub = nodes[m].pub
           /\ workflows'[m] = workflows[m]
  PROVE  LifecycleInv' /\ NumbersKept
<1> USE DEF LifecycleInv
<1>1. versions[n] = {} \/ \E v : Newest(v, versions[n])
  BY DEF NothingOutlivesPurge, NewestVersionIsDraft, Newest
<1>2. /\ versions' \in [NodeIds -> SUBSET VersionRows]
      /\ \A m \in NodeIds \ {n} : versions'[m] = versions[m]
      /\ \E v : Newest(v, versions'[n]) /\ v.payload = payload
      /\ \A v, w \in versions'[n] : v.no = w.no => v = w
      /\ LastNo(versions'[n]) >= LastNo(versions[n])
  BY <1>1, AddVersionProperties
<1>3. TypeOK'
  BY <1>2 DEF TypeOK
<1>4. PublishedIffLive'
  BY DEF PublishedIffLive
<1>5. NothingOutlivesPurge'
  BY <1>2 DEF NothingOutlivesPurge, Exists
<1>6. NewestVersionIsDraft'
  BY <1>2 DEF NewestVersionIsDraft, Newest, Exists
<1>7. VersionNumbersUnique'
  BY <1>2 DEF VersionNumbersUnique
<1>8. NumbersKept
  <2> SUFFICES ASSUME NEW m \in NodeIds
               PROVE  LastNo(versions'[m]) >= LastNo(versions[m])
    BY DEF NumbersKept
  <2>1. CASE m = n
    BY <2>1, <1>2
  <2>2. CASE m # n
    <3>1. versions'[m] = versions[m]
      BY <2>2, <1>2
    <3>2. LastNo(versions[m]) \in Nat
      BY LastNoType
    <3> QED
      BY <3>1, <3>2
  <2> QED
    BY <2>1, <2>2
<1> QED
  BY <1>3, <1>4, <1>5, <1>6, <1>7, <1>8

\* A node that exists has a draft: its newest version's payload.
LEMMA DraftIsPayload ==
  ASSUME LifecycleInv, NEW n \in NodeIds, Exists(n)
  PROVE  nodes[n].draft \in Payloads
BY DEF LifecycleInv, TypeOK, NewestVersionIsDraft, VersionRows

\* SetWorkflow touches the row of its node only, and leaves it a row.
LEMMA SetWorkflowFrame ==
  ASSUME TypeOK, NEW n \in NodeIds, NEW row \in WorkflowRows, SetWorkflow(n, row)
  PROVE  /\ workflows' \in [NodeIds -> WorkflowRows]
         /\ \A m \in NodeIds \ {n} : workflows'[m] = workflows[m]
<1>1. [row EXCEPT !.at = now] \in WorkflowRows
  BY DEF TypeOK, WorkflowRows
<1> QED
  BY <1>1 DEF TypeOK, SetWorkflow

LEMMA CreateStep ==
  ASSUME LifecycleInv, NEW n \in NodeIds, NEW parent \in NodeIds \cup {None},
         NEW slug \in Slugs, NEW payload \in Payloads, Create(n, parent, slug, payload)
  PROVE  LifecycleInv' /\ NumbersKept
<1> DEFINE row == [BlankRow EXCEPT !.status = "draft", !.parent = parent, !.slug = slug,
                        !.route = RouteFor(parent, slug), !.draft = payload]
<1>1. RouteFor(parent, slug) \in Routes
  BY RouteForType, RouteTypes DEF LifecycleInv
<1>2. /\ row \in NodeRows
      /\ row.status = "draft" /\ row.pub = None /\ row.draft = payload
  BY <1>1, BlankTypes, RouteTypes DEF BlankRow, NodeRows, NodeStatuses
<1>3. nodes' = [nodes EXCEPT ![n] = row]
  BY DEF Create, CommitNodes
<1> HIDE DEF row
<1>4. nodes' \in [NodeIds -> NodeRows] /\ workflows' \in [NodeIds -> WorkflowRows]
  BY <1>2, <1>3 DEF LifecycleInv, TypeOK, Create
<1>5. nodes'[n] = row /\ \A m \in NodeIds \ {n} : nodes'[m] = nodes[m]
  BY <1>3 DEF LifecycleInv, TypeOK
<1>6. AddVersion(n, "draft", payload) /\ UNCHANGED <<locks, workflows, now>>
  BY DEF Create
<1>7. "draft" \in NodeStatuses
  BY DEF NodeStatuses
<1> QED
  BY <1>2, <1>4, <1>5, <1>6, <1>7, SaveStep

LEMMA DuplicateStep ==
  ASSUME LifecycleInv, NEW n \in NodeIds, NEW copy \in NodeIds, NEW slug \in Slugs,
         Duplicate(n, copy, slug)
  PROVE  LifecycleInv' /\ NumbersKept
<1> DEFINE parent == nodes[n].parent
           payload == nodes[n].draft
           row == [BlankRow EXCEPT !.status = "draft", !.parent = parent, !.slug = slug,
                        !.route = RouteFor(parent, slug), !.draft = payload]
<1>1. parent \in NodeIds \cup {None} /\ payload \in Payloads
  BY DraftIsPayload DEF Duplicate, LifecycleInv, TypeOK, NodeRows
<1>2. RouteFor(parent, slug) \in Routes
  BY <1>1, RouteForType, RouteTypes DEF LifecycleInv
<1>3. nodes' = [nodes EXCEPT ![copy] = row]
  BY DEF Duplicate, CommitNodes
<1>4. AddVersion(copy, "draft", payload) /\ UNCHANGED <<locks, workflows, now>>
  BY DEF Duplicate
<1> HIDE DEF parent, payload
<1>5. /\ row \in NodeRows
      /\ row.status = "draft" /\ row.pub = None /\ row.draft = payload
  BY <1>1, <1>2, BlankTypes, RouteTypes DEF BlankRow, NodeRows, NodeStatuses
<1> HIDE DEF row
<1>6. nodes' \in [NodeIds -> NodeRows] /\ workflows' \in [NodeIds -> WorkflowRows]
  BY <1>3, <1>4, <1>5 DEF LifecycleInv, TypeOK
<1>7. nodes'[copy] = row /\ \A m \in NodeIds \ {copy} : nodes'[m] = nodes[m]
  BY <1>3 DEF LifecycleInv, TypeOK
<1>8. "draft" \in NodeStatuses
  BY DEF NodeStatuses
<1> QED
  BY <1>1, <1>4, <1>5, <1>6, <1>7, <1>8, SaveStep

\* What an update does to the lifecycle of its node and of the others, whose
\* routes it may refresh.
LEMMA UpdateEffect ==
  ASSUME LifecycleInv, NEW n \in NodeIds, NEW slug \in Slugs \cup {None},
         NEW payload \in Payloads, NEW actor, Update(n, slug, payload, actor)
  PROVE  /\ nodes' \in [NodeIds -> NodeRows]
         /\ nodes'[n].status \notin {"absent", "purged"}
         /\ nodes'[n].status = "published" <=> nodes'[n].pub # None
         /\ nodes'[n].draft = payload
         /\ \A m \in NodeIds \ {n} : /\ nodes'[m].status = nodes[m].status
                                    /\ nodes'[m].draft = nodes[m].draft
                                    /\ nodes'[m].pub = nodes[m].pub
         /\ \A m \in NodeIds : /\ nodes'[m].parent = nodes[m].parent
                              /\ nodes'[m].origin = nodes[m].origin
<1> DEFINE parent == nodes[n].parent
           route == IF n = Root THEN PublicRoot ELSE RouteFor(parent, slug)
           row == [nodes[n] EXCEPT !.slug = slug, !.draft = payload,
                                   !.status = StatusOnEdit(nodes[n].status),
                                   !.route = route]
           saved == [nodes EXCEPT ![n] = row]
<1>1. Exists(n) /\ nodes[n] \in NodeRows /\ slug \in SlugValues
  BY RouteTypes DEF Update, LifecycleInv, TypeOK
<1>2. route \in Routes
  BY <1>1, RouteForType, RouteTypes DEF LifecycleInv, NodeRows
<1>3. StatusOnEdit(nodes[n].status) \in NodeStatuses \ {"absent", "purged"}
  BY <1>1 DEF StatusOnEdit, NodeStatuses, Exists, NodeRows
<1>4. nodes' = RefreshRoutes(saved, n)
  BY DEF Update, CommitNodes
<1>5. nodes[n].status = "published" <=> nodes[n].pub # None
  BY DEF LifecycleInv, PublishedIffLive
<1> HIDE DEF route
<1>6. /\ row \in NodeRows
      /\ row.status = StatusOnEdit(nodes[n].status)
      /\ row.draft = payload
      /\ row.pub = nodes[n].pub
      /\ row.parent = nodes[n].parent
      /\ row.origin = nodes[n].origin
  BY <1>1, <1>2, <1>3 DEF NodeRows
<1>7. row.status = "published" <=> row.pub # None
  BY <1>5, <1>6 DEF StatusOnEdit
<1> HIDE DEF row
<1>8. /\ saved \in [NodeIds -> NodeRows]
      /\ saved[n] = row
      /\ \A m \in NodeIds \ {n} : saved[m] = nodes[m]
  BY <1>6 DEF LifecycleInv, TypeOK
<1> HIDE DEF saved
<1>9. /\ nodes' \in [NodeIds -> NodeRows]
      /\ \A m \in NodeIds : /\ nodes'[m].status = saved[m].status
                            /\ nodes'[m].draft = saved[m].draft
                            /\ nodes'[m].pub = saved[m].pub
                            /\ nodes'[m].parent = saved[m].parent
                            /\ nodes'[m].origin = saved[m].origin
  BY <1>4, <1>8, RefreshRoutesFrame
<1> QED
  BY <1>3, <1>6, <1>7, <1>8, <1>9

LEMMA UpdateStep ==
  ASSUME LifecycleInv, NEW n \in NodeIds, NEW slug \in Slugs \cup {None},
         NEW payload \in Payloads, NEW actor, Update(n, slug, payload, actor)
  PROVE  LifecycleInv' /\ NumbersKept
<1>1. AddVersion(n, "draft", payload) /\ UNCHANGED <<locks, workflows, now>>
  BY DEF Update
<1>2. "draft" \in NodeStatuses /\ workflows' \in [NodeIds -> WorkflowRows]
  BY <1>1 DEF NodeStatuses, LifecycleInv, TypeOK
<1> QED
  BY <1>1, <1>2, UpdateEffect, SaveStep

LEMMA PublishStep ==
  ASSUME LifecycleInv, NEW n \in NodeIds, NEW actor, Publish(n, actor)
  PROVE  LifecycleInv' /\ NumbersKept
<1> DEFINE payload == nodes[n].draft
           wf == [workflows[n] EXCEPT !.state = "published", !.publishAt = Never]
<1>1. payload \in Payloads /\ payload # None
  BY DraftIsPayload, ContentAssumption DEF Publish
<1>2. nodes' = [nodes EXCEPT ![n].status = "published", ![n].pub = payload]
  BY DEF Publish
<1>3. /\ nodes' \in [NodeIds -> NodeRows]
      /\ nodes'[n].status = "published"
      /\ nodes'[n].pub = payload
      /\ nodes'[n].draft = payload
      /\ \A m \in NodeIds \ {n} : nodes'[m] = nodes[m]
  BY <1>1, <1>2 DEF LifecycleInv, TypeOK, NodeRows, NodeStatuses
<1>4. wf \in WorkflowRows
  BY DEF LifecycleInv, TypeOK, WorkflowRows, WorkflowStates, Never
<1>5. /\ SetWorkflow(n, wf)
      /\ AddVersion(n, "published", payload)
      /\ UNCHANGED <<locks, now>>
  BY DEF Publish
<1> HIDE DEF payload, wf
<1>6. /\ workflows' \in [NodeIds -> WorkflowRows]
      /\ \A m \in NodeIds \ {n} : workflows'[m] = workflows[m]
  BY <1>4, <1>5, SetWorkflowFrame DEF LifecycleInv
<1>7. "published" \in NodeStatuses
  BY DEF NodeStatuses
<1> QED
  BY <1>1, <1>3, <1>5, <1>6, <1>7, SaveStep

LEMMA UnpublishStep ==
  ASSUME LifecycleInv, NEW n \in NodeIds, NEW actor, Unpublish(n, actor)
  PROVE  LifecycleInv' /\ NumbersKept
<1> DEFINE payload == nodes[n].draft
           wf == [workflows[n] EXCEPT !.state = "unpublished", !.unpublishAt = Never]
<1>1. payload \in Payloads
  BY DraftIsPayload DEF Unpublish
<1>2. nodes' = [nodes EXCEPT ![n].status = "unpublished", ![n].pub = None]
  BY DEF Unpublish
<1>3. /\ nodes' \in [NodeIds -> NodeRows]
      /\ nodes'[n].status = "unpublished"
      /\ nodes'[n].pub = None
      /\ nodes'[n].draft = payload
      /\ \A m \in NodeIds \ {n} : nodes'[m] = nodes[m]
  BY <1>1, <1>2 DEF LifecycleInv, TypeOK, NodeRows, NodeStatuses
<1>4. wf \in WorkflowRows
  BY DEF LifecycleInv, TypeOK, WorkflowRows, WorkflowStates, Never
<1>5. /\ SetWorkflow(n, wf)
      /\ AddVersion(n, "unpublished", payload)
      /\ UNCHANGED <<locks, now>>
  BY DEF Unpublish
<1> HIDE DEF payload, wf
<1>6. /\ workflows' \in [NodeIds -> WorkflowRows]
      /\ \A m \in NodeIds \ {n} : workflows'[m] = workflows[m]
  BY <1>4, <1>5, SetWorkflowFrame DEF LifecycleInv
<1>7. "unpublished" \in NodeStatuses
  BY DEF NodeStatuses
<1> QED
  BY <1>1, <1>3, <1>5, <1>6, <1>7, SaveStep

LEMMA RestoreTrashedStep ==
  ASSUME LifecycleInv, NEW n \in NodeIds, RestoreTrashed(n)
  PROVE  LifecycleInv' /\ NumbersKept
<1> DEFINE payload == nodes[n].draft
           origin == nodes[n].origin
           row == [nodes[n] EXCEPT !.status = "draft", !.parent = origin.parent,
                     !.slug = origin.slug, !.route = origin.route, !.origin = NoOrigin]
<1>1. /\ nodes[n] \in NodeRows
      /\ nodes[n].status = "trashed"
      /\ payload \in Payloads
      /\ nodes[n].pub = None
  BY DraftIsPayload DEF RestoreTrashed, LifecycleInv, TypeOK, PublishedIffLive, Exists
<1>2. /\ row \in NodeRows
      /\ row.status = "draft" /\ row.draft = payload /\ row.pub = None
  BY <1>1, BlankTypes DEF NodeRows, NodeStatuses, Origins
<1>3. nodes' = [nodes EXCEPT ![n] = row]
  BY DEF RestoreTrashed, CommitNodes
<1>4. AddVersion(n, "draft", payload) /\ UNCHANGED <<locks, workflows, now>>
  BY DEF RestoreTrashed
<1> HIDE DEF payload, row
<1>5. nodes' \in [NodeIds -> NodeRows] /\ workflows' \in [NodeIds -> WorkflowRows]
  BY <1>2, <1>3, <1>4 DEF LifecycleInv, TypeOK
<1>6. nodes'[n] = row /\ \A m \in NodeIds \ {n} : nodes'[m] = nodes[m]
  BY <1>3 DEF LifecycleInv, TypeOK
<1>7. "draft" \in NodeStatuses
  BY DEF NodeStatuses
<1> QED
  BY <1>1, <1>2, <1>4, <1>5, <1>6, <1>7, SaveStep

LEMMA RestoreVersionStep ==
  ASSUME LifecycleInv, NEW n \in NodeIds, NEW no, NEW actor, RestoreVersion(n, no, actor)
  PROVE  LifecycleInv' /\ NumbersKept
<1>1. PICK v \in versions[n] :
        /\ nodes' = [nodes EXCEPT ![n].draft = v.payload, ![n].status = StatusOnEdit(@)]
        /\ AddVersion(n, "draft", v.payload)
  BY DEF RestoreVersion
<1>2. v.payload \in Payloads /\ nodes[n] \in NodeRows /\ Exists(n)
  BY DEF RestoreVersion, LifecycleInv, TypeOK, VersionRows
<1>3. StatusOnEdit(nodes[n].status) \in NodeStatuses \ {"absent", "purged"}
  BY <1>2 DEF StatusOnEdit, NodeStatuses, Exists, NodeRows
<1>4. /\ nodes' \in [NodeIds -> NodeRows]
      /\ nodes'[n].status = StatusOnEdit(nodes[n].status)
      /\ nodes'[n].draft = v.payload
      /\ nodes'[n].pub = nodes[n].pub
      /\ \A m \in NodeIds \ {n} : nodes'[m] = nodes[m]
  BY <1>1, <1>2, <1>3 DEF LifecycleInv, TypeOK, NodeRows
<1>5. nodes'[n].status = "published" <=> nodes'[n].pub # None
  BY <1>4 DEF StatusOnEdit, LifecycleInv, PublishedIffLive
<1>6. UNCHANGED <<locks, workflows, now>>
  BY DEF RestoreVersion
<1>7. "draft" \in NodeStatuses /\ workflows' \in [NodeIds -> WorkflowRows]
  BY <1>6 DEF NodeStatuses, LifecycleInv, TypeOK
<1> QED
  BY <1>1, <1>2, <1>3, <1>4, <1>5, <1>6, <1>7, SaveStep

\* Steps that leave the history of every node as it is, or gone with the node.
LEMMA SameHistoryKeepsNumbers ==
  ASSUME LifecycleInv, UNCHANGED versions
  PROVE  NumbersKept
BY LastNoType DEF NumbersKept

LEMMA DeleteStep ==
  ASSUME LifecycleInv, NEW n \in NodeIds, NEW actor, Delete(n, actor)
  PROVE  LifecycleInv' /\ NumbersKept
<1> DEFINE wf == [workflows[n] EXCEPT !.state = "trashed"]
           origin == [parent |-> nodes[n].parent, slug |-> nodes[n].slug,
                      route |-> nodes[n].route]
           row == [nodes[n] EXCEPT !.status = "trashed", !.parent = None,
                     !.slug = TrashSlug(n), !.route = TrashRoute(n), !.pub = None,
                     !.origin = origin]
<1> USE DEF LifecycleInv
<1>1. nodes[n] \in NodeRows /\ Exists(n) /\ origin \in Origins
  BY DEF Delete, TypeOK, NodeRows, Origins
<1>2. /\ row \in NodeRows
      /\ row.status = "trashed" /\ row.draft = nodes[n].draft /\ row.pub = None
  BY <1>1, RouteTypes DEF NodeRows, NodeStatuses
<1>3. nodes' = [nodes EXCEPT ![n] = row]
  BY DEF Delete, CommitNodes
<1>4. wf \in WorkflowRows
  BY DEF TypeOK, WorkflowRows, WorkflowStates
<1>5. /\ SetWorkflow(n, wf)
      /\ locks' = [locks EXCEPT ![n] = NoLock]
      /\ UNCHANGED <<versions, now>>
  BY DEF Delete
<1> HIDE DEF row, wf
<1>6. /\ workflows' \in [NodeIds -> WorkflowRows]
      /\ \A m \in NodeIds \ {n} : workflows'[m] = workflows[m]
  BY <1>4, <1>5, SetWorkflowFrame
<1>7. /\ nodes' \in [NodeIds -> NodeRows]
      /\ nodes'[n] = row
      /\ \A m \in NodeIds \ {n} : nodes'[m] = nodes[m]
  BY <1>2, <1>3 DEF TypeOK
<1>8. /\ locks' \in [NodeIds -> LockRows]
      /\ \A m \in NodeIds \ {n} : locks'[m] = locks[m]
  BY <1>5, BlankTypes DEF TypeOK
<1>9. TypeOK'
  BY <1>5, <1>6, <1>7, <1>8 DEF TypeOK
<1>10. PublishedIffLive'
  BY <1>2, <1>7 DEF PublishedIffLive
<1>11. NothingOutlivesPurge'
  BY <1>2, <1>5, <1>6, <1>7, <1>8 DEF NothingOutlivesPurge, Exists
<1>12. NewestVersionIsDraft' /\ VersionNumbersUnique'
  BY <1>1, <1>2, <1>5, <1>7 DEF NewestVersionIsDraft, VersionNumbersUnique, Exists
<1> QED
  BY <1>5, <1>9, <1>10, <1>11, <1>12, SameHistoryKeepsNumbers

LEMMA PurgeStep ==
  ASSUME LifecycleInv, NEW n \in NodeIds, Purge(n)
  PROVE  LifecycleInv' /\ NumbersKept
<1> DEFINE row == [BlankRow EXCEPT !.status = "purged"]
<1> USE DEF LifecycleInv
<1>1. row \in NodeRows /\ row.status = "purged" /\ row.pub = None
  BY BlankTypes DEF BlankRow, NodeRows, NodeStatuses
<1>2. /\ nodes' = [nodes EXCEPT ![n] = row]
      /\ versions' = [versions EXCEPT ![n] = {}]
      /\ locks' = [locks EXCEPT ![n] = NoLock]
      /\ workflows' = [workflows EXCEPT ![n] = NoWorkflow]
      /\ UNCHANGED now
  BY DEF Purge
<1> HIDE DEF row
<1>3. TypeOK'
  BY <1>1, <1>2, BlankTypes DEF TypeOK
<1>4. /\ nodes'[n] = row /\ versions'[n] = {}
      /\ locks'[n] = NoLock /\ workflows'[n] = NoWorkflow
      /\ \A m \in NodeIds \ {n} :
           /\ nodes'[m] = nodes[m] /\ versions'[m] = versions[m]
           /\ locks'[m] = locks[m] /\ workflows'[m] = workflows[m]
  BY <1>2 DEF TypeOK
<1>5. PublishedIffLive'
  BY <1>1, <1>4 DEF PublishedIffLive
<1>6. NothingOutlivesPurge'
  BY <1>4 DEF NothingOutlivesPurge, Exists
<1>7. NewestVersionIsDraft'
  BY <1>1, <1>4 DEF NewestVersionIsDraft, Exists
<1>8. VersionNumbersUnique'
  BY <1>4 DEF VersionNumbersUnique
<1>9. NumbersKept
  BY <1>1, <1>4, LastNoType DEF NumbersKept
<1> QED
  BY <1>3, <1>5, <1>6, <1>7, <1>8, <1>9

LEMMA CleanupVersionsStep ==
  ASSUME LifecycleInv, NEW scope \in SUBSET NodeIds, NEW keep \in Keeps,
         NEW retention \in Retentions, CleanupVersions(scope, keep, retention)
  PROVE  LifecycleInv' /\ NumbersKept
<1> USE DEF LifecycleInv
<1>1. keep \in Nat \ {0} /\ \A n \in NodeIds : versions[n] \in SUBSET VersionRows
  BY BoundAssumption DEF TypeOK
<1>2. /\ versions' \in [NodeIds -> SUBSET VersionRows]
      /\ \A n \in NodeIds :
           /\ versions'[n] \subseteq versions[n]
           /\ \A v : Newest(v, versions[n]) => Newest(v, versions'[n])
  <2> SUFFICES ASSUME NEW n \in NodeIds
               PROVE  /\ versions'[n] \subseteq versions[n]
                      /\ \A v : Newest(v, versions[n]) => Newest(v, versions'[n])
    BY <1>1 DEF CleanupVersions
  <2>1. CASE n \in scope
    <3>1. versions'[n] = Survivors(versions[n], keep, retention)
      BY <2>1 DEF CleanupVersions
    <3> QED
      BY <1>1, <3>1, SurvivorsProperties
  <2>2. CASE n \notin scope
    BY <2>2 DEF CleanupVersions
  <2> QED
    BY <2>1, <2>2
<1>3. UNCHANGED <<nodes, locks, workflows, now>>
  BY DEF CleanupVersions
<1>4. TypeOK' /\ PublishedIffLive'
  BY <1>2, <1>3 DEF TypeOK, PublishedIffLive
<1>5. NothingOutlivesPurge'
  BY <1>2, <1>3 DEF NothingOutlivesPurge, Exists
<1>6. NewestVersionIsDraft'
  <2> SUFFICES ASSUME NEW n \in NodeIds, Exists(n)
               PROVE  \E v : Newest(v, versions'[n]) /\ v.payload = nodes[n].draft
    BY <1>3 DEF NewestVersionIsDraft, Newest, Exists
  <2>1. PICK v : Newest(v, versions[n]) /\ v.payload = nodes[n].draft
    BY DEF NewestVersionIsDraft, Newest
  <2> QED
    BY <2>1, <1>2
<1>7. VersionNumbersUnique'
  BY <1>2 DEF VersionNumbersUnique
<1>8. NumbersKept
  <2> SUFFICES ASSUME NEW n \in NodeIds
               PROVE  LastNo(versions'[n]) >= LastNo(versions[n])
    BY DEF NumbersKept
  <2>1. CASE versions[n] = {}
    <3>1. versions'[n] = versions[n]
      BY <1>2, <2>1
    <3> QED
      BY <3>1, LastNoType
  <2>2. CASE versions[n] # {}
    <3>1. PICK v : Newest(v, versions[n])
      BY <2>2 DEF NothingOutlivesPurge, NewestVersionIsDraft, Newest
    <3>2. LastNo(versions[n]) = v.no /\ LastNo(versions[n]) \in Nat
      BY <1>1, <3>1, LastNoOfNewest
    <3>3. LastNo(versions'[n]) = v.no
      BY <1>2, <3>1, LastNoOfNewest
    <3> QED
      BY <3>2, <3>3
  <2> QED
    BY <2>1, <2>2
<1> QED
  BY <1>4, <1>5, <1>6, <1>7, <1>8

\* Steps on the rows beside a node leave its lifecycle alone.
LEMMA BesideNodeStep ==
  ASSUME LifecycleInv, UNCHANGED <<nodes, versions>>,
         locks' \in [NodeIds -> LockRows],
         workflows' \in [NodeIds -> WorkflowRows],
         now' \in Nat,
         \A n \in NodeIds : ~Exists(n) => locks'[n] = NoLock /\ workflows'[n] = NoWorkflow
  PROVE  LifecycleInv' /\ NumbersKept
<1> USE DEF LifecycleInv
<1>1. TypeOK' /\ PublishedIffLive' /\ VersionNumbersUnique'
  BY DEF TypeOK, PublishedIffLive, VersionNumbersUnique
<1>2. NothingOutlivesPurge' /\ NewestVersionIsDraft'
  BY DEF NothingOutlivesPurge, NewestVersionIsDraft, Exists
<1> QED
  BY <1>1, <1>2, SameHistoryKeepsNumbers

LEMMA AcquireLockStep ==
  ASSUME LifecycleInv, NEW n \in NodeIds, NEW owner \in Actors, NEW ttl \in Ttls,
         NEW force \in BOOLEAN, AcquireLock(n, owner, ttl, force)
  PROVE  LifecycleInv' /\ NumbersKept
<1> DEFINE row == [owner |-> owner, expires |-> now + ttl]
<1>1. row \in LockRows
  BY BoundAssumption DEF LockRows, LifecycleInv, TypeOK
<1>2. /\ Exists(n)
      /\ locks' = [locks EXCEPT ![n] = row]
      /\ UNCHANGED <<nodes, versions, workflows, now>>
  BY DEF AcquireLock
<1> HIDE DEF row
<1>3. locks' \in [NodeIds -> LockRows]
  BY <1>1, <1>2 DEF LifecycleInv, TypeOK
<1>4. \A m \in NodeIds : ~Exists(m) => locks'[m] = NoLock /\ workflows'[m] = NoWorkflow
  BY <1>2 DEF LifecycleInv, TypeOK, NothingOutlivesPurge
<1> QED
  BY <1>2, <1>3, <1>4, BesideNodeStep DEF LifecycleInv, TypeOK

LEMMA ReleaseLockStep ==
  ASSUME LifecycleInv, NEW n \in NodeIds, NEW owner, NEW force,
         ReleaseLock(n, owner, force)
  PROVE  LifecycleInv' /\ NumbersKept
<1>1. /\ locks' = [locks EXCEPT ![n] = NoLock]
      /\ UNCHANGED <<nodes, versions, workflows, now>>
  BY DEF ReleaseLock
<1>2. locks' \in [NodeIds -> LockRows]
  BY <1>1, BlankTypes DEF LifecycleInv, TypeOK
<1>3. \A m \in NodeIds : ~Exists(m) => locks'[m] = NoLock /\ workflows'[m] = NoWorkflow
  BY <1>1 DEF LifecycleInv, TypeOK, NothingOutlivesPurge
<1> QED
  BY <1>1, <1>2, <1>3, BesideNodeStep DEF LifecycleInv, TypeOK

LEMMA UpsertWorkflowStep ==
  ASSUME LifecycleInv, NEW n \in NodeIds, NEW state \in WorkflowStates,
         NEW publishAt \in Nat, NEW unpublishAt \in Nat,
         UpsertWorkflow(n, state, publishAt, unpublishAt)
  PROVE  LifecycleInv' /\ NumbersKept
<1> DEFINE row == [state |-> state, publishAt |-> publishAt, unpublishAt |-> unpublishAt,
                   at |-> now]
<1>1. row \in WorkflowRows
  BY DEF WorkflowRows, LifecycleInv, TypeOK
<1>2. /\ Exists(n)
      /\ workflows' = [workflows EXCEPT ![n] = row]
      /\ UNCHANGED <<nodes, versions, locks, now>>
  BY DEF UpsertWorkflow
<1> HIDE DEF row
<1>3. workflows' \in [NodeIds -> WorkflowRows]
  BY <1>1, <1>2 DEF LifecycleInv, TypeOK
<1>4. \A m \in NodeIds : ~Exists(m) => locks'[m] = NoLock /\ workflows'[m] = NoWorkflow
  BY <1>2 DEF LifecycleInv, TypeOK, NothingOutlivesPurge
<1> QED
  BY <1>2, <1>3, <1>4, BesideNodeStep DEF LifecycleInv, TypeOK

-----------------------------------------------------------------------------
(* The tree. A page in the bin keeps the parent it had, and may be put     *)
(* below it again: so what must not be circular is being below a page or   *)
(* having been. Ids are drawn once, so a page is only ever put below pages *)
(* that were drawn before it: some ranking of the pages grows downwards.   *)

Above(n) == {nodes[n].parent, nodes[n].origin.parent} \ {None}

RankedBy(rank) ==
  \A n \in NodeIds : \A p \in Above(n) :
    rank[p] < rank[n] /\ nodes[p].status # "absent"

TreeInv == \E rank \in [NodeIds -> Nat] : RankedBy(rank)

\* A step that puts no page below another, or where it was not before.
LEMMA NothingNewAbove ==
  ASSUME TypeOK, TreeInv,
         \A n \in NodeIds : Above(n)' \subseteq Above(n),
         \A n \in NodeIds : nodes[n].status # "absent" => nodes'[n].status # "absent"
  PROVE  TreeInv'
<1>1. PICK rank \in [NodeIds -> Nat] : RankedBy(rank)
  BY DEF TreeInv
<1>2. \A n \in NodeIds : Above(n) \subseteq NodeIds
  BY DEF Above, TypeOK, NodeRows, Origins
<1>3. RankedBy(rank)'
  BY <1>1, <1>2 DEF RankedBy
<1> QED
  BY <1>3 DEF TreeInv

\* A page that is new (create_node, duplicate_node) goes below one that is there.
LEMMA NewBelow ==
  ASSUME TypeOK, TreeInv, NEW n \in NodeIds, Fresh(n),
         NEW parent \in NodeIds \cup {None}, parent # None => Exists(parent),
         NEW row \in NodeRows, row.parent = parent, row.origin = NoOrigin,
         row.status # "absent", nodes' = [nodes EXCEPT ![n] = row]
  PROVE  TreeInv'
<1>1. PICK rank \in [NodeIds -> Nat] : RankedBy(rank)
  BY DEF TreeInv
<1>2. \A m \in NodeIds : Above(m) \subseteq NodeIds
  BY DEF Above, TypeOK, NodeRows, Origins
<1>3. /\ nodes'[n] = row
      /\ \A m \in NodeIds \ {n} : nodes'[m] = nodes[m]
  BY DEF TypeOK
<1>4. /\ Above(n)' = {parent} \ {None}
      /\ \A m \in NodeIds \ {n} : Above(m)' = Above(m)
  BY <1>3 DEF Above, NoOrigin
<1>5. \A m \in NodeIds : n \notin Above(m)
  BY <1>1 DEF RankedBy, Fresh
<1> DEFINE below == [rank EXCEPT ![n] = IF parent = None THEN 0 ELSE rank[parent] + 1]
<1>6. /\ below \in [NodeIds -> Nat]
      /\ \A m \in NodeIds \ {n} : below[m] = rank[m]
      /\ parent # None => below[n] = rank[parent] + 1
  OBVIOUS
<1> HIDE DEF below
<1>7. ASSUME NEW m \in NodeIds, NEW p \in Above(m)'
      PROVE  below[p] < below[m] /\ nodes'[p].status # "absent"
  <2>1. CASE m = n
    <3>1. p = parent /\ p \in NodeIds /\ p # n
      BY <1>4, <2>1, <1>7 DEF Exists, Fresh
    <3>2. rank[p] \in Nat
      BY <3>1
    <3>3. parent # None /\ below[m] = rank[p] + 1 /\ below[p] = rank[p]
      BY <1>6, <2>1, <3>1, NodeAssumption
    <3>4. nodes'[p].status # "absent"
      BY <1>3, <3>1, <3>3 DEF Exists
    <3> QED
      BY <3>2, <3>3, <3>4
  <2>2. CASE m # n
    <3>1. p \in Above(m) /\ p \in NodeIds /\ p # n
      BY <1>2, <1>4, <1>5, <1>7, <2>2
    <3> QED
      BY <1>1, <1>3, <1>6, <2>2, <3>1 DEF RankedBy
  <2> QED
    BY <2>1, <2>2
<1> QED
  BY <1>6, <1>7 DEF TreeInv, RankedBy

\* In a ranked tree every path down comes to an end.
LEMMA RankedHasNoCycles == TypeOK /\ TreeInv => TreeHasNoCycles
<1> SUFFICES ASSUME TypeOK, TreeInv, NEW n \in NodeIds, NEW path \in PathsDown(nodes, n, n)
             PROVE  FALSE
  BY DEF TreeHasNoCycles
<1>1. PICK rank \in [NodeIds -> Nat] : RankedBy(rank)
  BY DEF TreeInv
<1>2. Cardinality(NodeIds) \in Nat
  BY NodeAssumption, FS_CardinalityType
<1>3. PICK k \in 1..Cardinality(NodeIds) : path \in [1..k -> NodeIds]
  BY DEF PathsDown, Chains
<1>4. k \in Nat /\ k >= 1 /\ Len(path) = k
  BY <1>2, <1>3
<1>5. /\ nodes[path[1]].parent = n /\ path[k] = n
      /\ \A i \in 2..k : nodes[path[i]].parent = path[i-1]
  BY <1>4 DEF PathsDown
<1>6. \A m \in NodeIds : nodes[m].parent \in NodeIds => rank[nodes[m].parent] < rank[m]
  BY <1>1, NodeAssumption DEF RankedBy, Above
<1> DEFINE ranks == {rank[path[i]] : i \in 1..k}
<1>7. ranks \subseteq Nat /\ rank[path[1]] \in ranks
  BY <1>3, <1>4
<1>8. PICK least \in ranks : \A r \in ranks : <<r, least>> \notin OpToRel(<, Nat)
  BY <1>7, WFMin, NatLessThanWellFounded
<1>9. \A r \in ranks : ~(r < least)
  <2> SUFFICES ASSUME NEW r \in ranks PROVE ~(r < least)
    OBVIOUS
  <2>1. r \in Nat /\ least \in Nat /\ <<r, least>> \notin OpToRel(<, Nat)
    BY <1>7, <1>8
  <2> HIDE DEF ranks
  <2> QED
    BY <2>1 DEF OpToRel
<1>10. PICK i \in 1..k : least = rank[path[i]]
  BY <1>8
<1>11. CASE i = 1
  <2>1. rank[n] < least /\ rank[n] \in ranks
    BY <1>3, <1>4, <1>5, <1>6, <1>10, <1>11
  <2> QED
    BY <1>9, <2>1
<1>12. CASE i # 1
  <2>1. i \in 2..k /\ i-1 \in 1..k
    BY <1>4, <1>12
  <2>2. rank[path[i-1]] < least /\ rank[path[i-1]] \in ranks
    BY <1>3, <1>5, <1>6, <1>10, <2>1
  <2> QED
    BY <1>9, <2>2
<1> QED
  BY <1>11, <1>12

\* Nobody brings a row back or makes it undrawn: a purge is final.
OneWay ==
  \A n \in NodeIds :
    /\ nodes[n].status = "purged" => nodes'[n].status = "purged"
    /\ nodes[n].status # "absent" => nodes'[n].status # "absent"

\* Each operation on pages keeps the tree, and rows go one way.
LEMMA TreeStepKeepsTree ==
  ASSUME LifecycleInv, TreeStep
  PROVE  OneWay /\ (TreeInv => TreeInv')
<1> USE DEF LifecycleInv
<1>0. TypeOK
  OBVIOUS
<1>1. ASSUME NEW n \in NodeIds, NEW parent \in NodeIds \cup {None}, NEW slug \in Slugs,
             NEW payload \in Payloads, Fresh(n), parent # None => Exists(parent),
             nodes' = [nodes EXCEPT ![n] =
               [BlankRow EXCEPT !.status = "draft", !.parent = parent, !.slug = slug,
                                !.route = RouteFor(parent, slug), !.draft = payload]]
      PROVE  OneWay /\ (TreeInv => TreeInv')
  <2> DEFINE row == [BlankRow EXCEPT !.status = "draft", !.parent = parent, !.slug = slug,
                        !.route = RouteFor(parent, slug), !.draft = payload]
  <2>1. RouteFor(parent, slug) \in Routes
    BY RouteForType, RouteTypes
  <2>2. /\ row \in NodeRows /\ row.parent = parent /\ row.origin = NoOrigin
        /\ row.status = "draft"
    BY <2>1, BlankTypes, RouteTypes DEF BlankRow, NodeRows, NodeStatuses
  <2>3. nodes' = [nodes EXCEPT ![n] = row]
    BY <1>1
  <2> HIDE DEF row
  <2>4. OneWay
    BY <1>0, <1>1, <2>2, <2>3 DEF OneWay, TypeOK, Fresh
  <2>5. TreeInv => TreeInv'
    BY <1>0, <1>1, <2>2, <2>3, NewBelow
  <2> QED
    BY <2>4, <2>5
<1>2. ASSUME NEW n \in NodeIds, NEW p \in NodeIds \cup {None}, NEW s \in Slugs,
             NEW d \in Payloads, Create(n, p, s, d)
      PROVE  OneWay /\ (TreeInv => TreeInv')
  BY <1>1, <1>2 DEF Create, CommitNodes
<1>3. ASSUME NEW n \in NodeIds, NEW copy \in NodeIds, NEW s \in Slugs, Duplicate(n, copy, s)
      PROVE  OneWay /\ (TreeInv => TreeInv')
  <2>1. nodes[n].parent \in NodeIds \cup {None} /\ nodes[n].draft \in Payloads
    BY <1>0, <1>3, DraftIsPayload DEF Duplicate, TypeOK, NodeRows
  <2> QED
    BY <1>1, <1>3, <2>1 DEF Duplicate, CommitNodes
<1>4. ASSUME NEW n \in NodeIds, NEW row \in NodeRows, nodes' = [nodes EXCEPT ![n] = row],
             Exists(n), row.status # "absent",
             {row.parent, row.origin.parent} \subseteq {nodes[n].parent, nodes[n].origin.parent, None}
      PROVE  OneWay /\ (TreeInv => TreeInv')
  <2>1. nodes'[n] = row /\ \A m \in NodeIds \ {n} : nodes'[m] = nodes[m]
    BY <1>0, <1>4 DEF TypeOK
  <2>2. OneWay
    BY <1>4, <2>1 DEF OneWay, Exists
  <2>3. \A m \in NodeIds : Above(m)' \subseteq Above(m)
    BY <1>4, <2>1 DEF Above
  <2> QED
    BY <1>0, <2>2, <2>3, NothingNewAbove DEF OneWay
<1>5. ASSUME NEW n \in NodeIds, NEW s \in Slugs \cup {None}, NEW d \in Payloads,
             NEW a \in Actors, Update(n, s, d, a)
      PROVE  OneWay /\ (TreeInv => TreeInv')
  <2>1. /\ nodes'[n].status \notin {"absent", "purged"} /\ Exists(n)
        /\ \A m \in NodeIds \ {n} : nodes'[m].status = nodes[m].status
        /\ \A m \in NodeIds : nodes'[m].parent = nodes[m].parent /\ nodes'[m].origin = nodes[m].origin
    BY <1>5, UpdateEffect DEF Update
  <2>2. OneWay
    BY <2>1 DEF OneWay, Exists
  <2>3. \A m \in NodeIds : Above(m)' \subseteq Above(m)
    BY <2>1 DEF Above
  <2> QED
    BY <1>0, <2>2, <2>3, NothingNewAbove DEF OneWay
<1>6. ASSUME NEW n \in NodeIds, NEW a \in Actors, Publish(n, a)
      PROVE  OneWay /\ (TreeInv => TreeInv')
  <2> DEFINE row == [nodes[n] EXCEPT !.status = "published", !.pub = nodes[n].draft]
  <2>1. nodes[n] \in NodeRows
    BY <1>0 DEF TypeOK
  <2>2. /\ row \in NodeRows /\ row.status = "published"
        /\ row.parent = nodes[n].parent /\ row.origin = nodes[n].origin
    BY <2>1 DEF NodeRows, NodeStatuses
  <2>3. Exists(n) /\ nodes' = [nodes EXCEPT ![n] = row]
    BY <1>0, <1>6 DEF Publish, TypeOK
  <2> HIDE DEF row
  <2> QED
    BY <1>4, <2>2, <2>3
<1>7. ASSUME NEW n \in NodeIds, NEW a \in Actors, Unpublish(n, a)
      PROVE  OneWay /\ (TreeInv => TreeInv')
  <2> DEFINE row == [nodes[n] EXCEPT !.status = "unpublished", !.pub = None]
  <2>1. nodes[n] \in NodeRows
    BY <1>0 DEF TypeOK
  <2>2. /\ row \in NodeRows /\ row.status = "unpublished"
        /\ row.parent = nodes[n].parent /\ row.origin = nodes[n].origin
    BY <2>1 DEF NodeRows, NodeStatuses
  <2>3. Exists(n) /\ nodes' = [nodes EXCEPT ![n] = row]
    BY <1>0, <1>7 DEF Unpublish, TypeOK
  <2> HIDE DEF row
  <2> QED
    BY <1>4, <2>2, <2>3
<1>8. ASSUME NEW n \in NodeIds, NEW a \in Actors, Delete(n, a)
      PROVE  OneWay /\ (TreeInv => TreeInv')
  <2> DEFINE origin == [parent |-> nodes[n].parent, slug |-> nodes[n].slug,
                        route |-> nodes[n].route]
             row == [nodes[n] EXCEPT !.status = "trashed", !.parent = None,
                       !.slug = TrashSlug(n), !.route = TrashRoute(n), !.pub = None,
                       !.origin = origin]
  <2>1. nodes[n] \in NodeRows /\ origin \in Origins /\ origin.parent = nodes[n].parent
    BY <1>0 DEF TypeOK, NodeRows, Origins
  <2>2. Exists(n) /\ nodes' = [nodes EXCEPT ![n] = row]
    BY <1>8 DEF Delete, CommitNodes
  <2> HIDE DEF origin
  <2>3. /\ row \in NodeRows /\ row.status = "trashed"
        /\ row.parent = None /\ row.origin.parent = nodes[n].parent
    BY <2>1, RouteTypes DEF NodeRows, NodeStatuses
  <2> HIDE DEF row
  <2> QED
    BY <1>4, <2>2, <2>3
<1>9. ASSUME NEW n \in NodeIds, RestoreTrashed(n)
      PROVE  OneWay /\ (TreeInv => TreeInv')
  <2> DEFINE origin == nodes[n].origin
             row == [nodes[n] EXCEPT !.status = "draft", !.parent = origin.parent,
                       !.slug = origin.slug, !.route = origin.route, !.origin = NoOrigin]
  <2>1. nodes[n] \in NodeRows /\ origin \in Origins /\ NoOrigin \in Origins
    BY <1>0, BlankTypes DEF TypeOK, NodeRows
  <2>2. Exists(n) /\ nodes' = [nodes EXCEPT ![n] = row]
    BY <1>9 DEF RestoreTrashed, CommitNodes, Exists
  <2>3. /\ row \in NodeRows /\ row.status = "draft"
        /\ row.parent = origin.parent /\ row.origin = NoOrigin
    BY <2>1 DEF NodeRows, NodeStatuses, Origins
  <2>4. NoOrigin.parent = None
    BY DEF NoOrigin
  <2> HIDE DEF row
  <2> QED
    BY <1>4, <2>2, <2>3, <2>4
<1>10. ASSUME NEW n \in NodeIds, Purge(n)
       PROVE  OneWay /\ (TreeInv => TreeInv')
  <2> DEFINE row == [BlankRow EXCEPT !.status = "purged"]
  <2>1. /\ row \in NodeRows /\ row.status = "purged"
        /\ row.parent = None /\ row.origin.parent = None
    BY BlankTypes DEF BlankRow, NoOrigin, NodeRows, NodeStatuses
  <2>2. Exists(n) /\ nodes' = [nodes EXCEPT ![n] = row]
    BY <1>10 DEF Purge, Exists
  <2> HIDE DEF row
  <2> QED
    BY <1>4, <2>1, <2>2
<1> QED
  BY <1>2, <1>3, <1>5, <1>6, <1>7, <1>8, <1>9, <1>10 DEF TreeStep

LEMMA NextKeepsTree ==
  ASSUME LifecycleInv, [Next]_vars
  PROVE  OneWay /\ (TreeInv => TreeInv')
<1>1. CASE TreeStep
  BY <1>1, TreeStepKeepsTree
<1>2. ASSUME NEW n \in NodeIds, NEW a \in Actors, NEW v \in versions[n],
             RestoreVersion(n, v.no, a)
      PROVE  OneWay /\ (TreeInv => TreeInv')
  <2>1. PICK w \in versions[n] :
          nodes' = [nodes EXCEPT ![n].draft = w.payload, ![n].status = StatusOnEdit(@)]
    BY <1>2 DEF RestoreVersion
  <2>2. nodes[n] \in NodeRows /\ Exists(n)
    BY <1>2 DEF RestoreVersion, LifecycleInv, TypeOK
  <2>3. StatusOnEdit(nodes[n].status) \notin {"absent", "purged"}
    BY <2>2 DEF StatusOnEdit, Exists
  <2>4. /\ nodes'[n].status = StatusOnEdit(nodes[n].status)
        /\ nodes'[n].parent = nodes[n].parent /\ nodes'[n].origin = nodes[n].origin
        /\ \A m \in NodeIds \ {n} : nodes'[m] = nodes[m]
    BY <2>1, <2>2 DEF LifecycleInv, TypeOK, NodeRows
  <2>5. OneWay
    BY <2>2, <2>3, <2>4 DEF OneWay, Exists
  <2>6. \A m \in NodeIds : Above(m)' \subseteq Above(m)
    BY <2>4 DEF Above
  <2> QED
    BY <2>5, <2>6, NothingNewAbove DEF OneWay, LifecycleInv
<1>3. CASE UNCHANGED nodes
  BY <1>3, NothingNewAbove DEF OneWay, LifecycleInv, Above
<1> QED
  BY <1>1, <1>2, <1>3
  DEF Next, HistoryStep, CleanupVersions, LockStep, AcquireLock, ReleaseLock,
      WorkflowStep, UpsertWorkflow, Tick, vars

\* The seeded root is alone, below nothing.
LEMMA TreeInit == Init => TreeInv
<1> SUFFICES ASSUME Init PROVE TreeInv
  OBVIOUS
<1>1. \A n \in NodeIds : Above(n) = {}
  BY DEF Init, BlankRow, NoOrigin, Above
<1>2. [n \in NodeIds |-> 0] \in [NodeIds -> Nat]
  OBVIOUS
<1> QED
  BY <1>1, <1>2 DEF TreeInv, RankedBy

-----------------------------------------------------------------------------
(* The theorems.                                                           *)

LEMMA LifecycleInit == Init => LifecycleInv
<1> SUFFICES ASSUME Init PROVE LifecycleInv
  OBVIOUS
<1>1. PICK p \in Payloads :
       /\ nodes = [n \in NodeIds |->
            IF n = Root THEN [BlankRow EXCEPT !.status = "published", !.draft = p, !.pub = p]
                        ELSE BlankRow]
       /\ versions = [n \in NodeIds |->
            IF n = Root THEN {[no |-> 1, status |-> "published", payload |-> p, at |-> 0]}
                        ELSE {}]
  BY DEF Init
<1> DEFINE row == [BlankRow EXCEPT !.status = "published", !.draft = p, !.pub = p]
           first == [no |-> 1, status |-> "published", payload |-> p, at |-> 0]
<1>2. /\ row \in NodeRows
      /\ row.status = "published" /\ row.draft = p /\ row.pub = p
      /\ BlankRow.status = "absent" /\ BlankRow.pub = None
  BY BlankTypes DEF BlankRow, NodeRows, NodeStatuses
<1>3. first \in VersionRows
  BY DEF VersionRows, NodeStatuses
<1>4. /\ \A n \in NodeIds : n = Root => nodes[n] = row /\ versions[n] = {first}
      /\ \A n \in NodeIds : n # Root => nodes[n] = BlankRow /\ versions[n] = {}
      /\ first.payload = p
  BY <1>1
<1>5. nodes \in [NodeIds -> NodeRows] /\ versions \in [NodeIds -> SUBSET VersionRows]
  BY <1>1, <1>2, <1>3, BlankTypes
<1> HIDE DEF row, first
<1>6. p # None
  BY ContentAssumption
<1>7. TypeOK
  BY <1>5, BlankTypes DEF TypeOK, Init
<1>8. PublishedIffLive
  BY <1>2, <1>4, <1>6 DEF PublishedIffLive
<1>9. NothingOutlivesPurge
  BY <1>2, <1>4 DEF NothingOutlivesPurge, Exists, Init
<1>10. NewestVersionIsDraft
  BY <1>2, <1>3, <1>4 DEF NewestVersionIsDraft, Exists, VersionRows
<1>11. VersionNumbersUnique
  BY <1>4 DEF VersionNumbersUnique
<1> QED
  BY <1>7, <1>8, <1>9, <1>10, <1>11 DEF LifecycleInv

LEMMA LifecycleNext == LifecycleInv /\ [Next]_vars => LifecycleInv' /\ NumbersKept
<1> SUFFICES ASSUME LifecycleInv, [Next]_vars
             PROVE  LifecycleInv' /\ NumbersKept
  OBVIOUS
<1>1. CASE TreeStep
  <2>1. ASSUME NEW n \in NodeIds, NEW p \in NodeIds \cup {None}, NEW s \in Slugs,
               NEW d \in Payloads, Create(n, p, s, d)
        PROVE  LifecycleInv' /\ NumbersKept
    BY <2>1, CreateStep
  <2>2. ASSUME NEW n \in NodeIds, NEW s \in Slugs \cup {None}, NEW d \in Payloads,
               NEW a \in Actors, Update(n, s, d, a)
        PROVE  LifecycleInv' /\ NumbersKept
    BY <2>2, UpdateStep
  <2>3. ASSUME NEW n \in NodeIds, NEW a \in Actors,
               Publish(n, a) \/ Unpublish(n, a) \/ Delete(n, a)
        PROVE  LifecycleInv' /\ NumbersKept
    BY <2>3, PublishStep, UnpublishStep, DeleteStep
  <2>4. ASSUME NEW n \in NodeIds, RestoreTrashed(n) \/ Purge(n)
        PROVE  LifecycleInv' /\ NumbersKept
    BY <2>4, RestoreTrashedStep, PurgeStep
  <2>5. ASSUME NEW n \in NodeIds, NEW copy \in NodeIds, NEW s \in Slugs,
               Duplicate(n, copy, s)
        PROVE  LifecycleInv' /\ NumbersKept
    BY <2>5, DuplicateStep
  <2> QED
    BY <1>1, <2>1, <2>2, <2>3, <2>4, <2>5 DEF TreeStep
<1>2. CASE HistoryStep
  <2>1. ASSUME NEW n \in NodeIds, NEW a \in Actors, NEW v \in versions[n],
               RestoreVersion(n, v.no, a)
        PROVE  LifecycleInv' /\ NumbersKept
    BY <2>1, RestoreVersionStep
  <2>2. ASSUME NEW scope \in {{n} : n \in NodeIds} \cup {NodeIds}, NEW keep \in Keeps,
               NEW retention \in Retentions, CleanupVersions(scope, keep, retention)
        PROVE  LifecycleInv' /\ NumbersKept
    BY <2>2, CleanupVersionsStep
  <2> QED
    BY <1>2, <2>1, <2>2 DEF HistoryStep
<1>3. CASE LockStep
  BY <1>3, AcquireLockStep, ReleaseLockStep DEF LockStep
<1>4. CASE WorkflowStep
  <2>1. ASSUME NEW n \in NodeIds, NEW st \in WorkflowStates, NEW pa \in 0..MaxTime,
               NEW ua \in 0..MaxTime, UpsertWorkflow(n, st, pa, ua)
        PROVE  LifecycleInv' /\ NumbersKept
    <3>1. pa \in Nat /\ ua \in Nat
      BY BoundAssumption
    <3> QED
      BY <2>1, <3>1, UpsertWorkflowStep
  <2> QED
    BY <1>4, <2>1 DEF WorkflowStep
<1>5. CASE Tick
  BY <1>5, BesideNodeStep DEF Tick, LifecycleInv, TypeOK, NothingOutlivesPurge
<1>6. CASE UNCHANGED vars
  BY <1>6, BesideNodeStep DEF vars, LifecycleInv, TypeOK, NothingOutlivesPurge
<1> QED
  BY <1>1, <1>2, <1>3, <1>4, <1>5, <1>6 DEF Next

\* The lifecycle invariant holds in every reachable state.
THEOREM LifecycleCorrect == Spec => []LifecycleInv
<1> QED
  BY LifecycleInit, LifecycleNext, PTL DEF Spec

\* The rows of every table keep their type.
THEOREM TypeCorrect == Spec => []TypeOK
<1>1. LifecycleInv => TypeOK
  BY DEF LifecycleInv
<1> QED
  BY <1>1, LifecycleCorrect, PTL

\* Delivery and listings never disagree on what is published.
THEOREM PublishedIsLive == Spec => []PublishedIffLive
<1>1. LifecycleInv => PublishedIffLive
  BY DEF LifecycleInv
<1> QED
  BY <1>1, LifecycleCorrect, PTL

\* A purge leaves nothing behind and nothing is written for the node later.
THEOREM PurgeIsFinal == Spec => []NothingOutlivesPurge
<1>1. LifecycleInv => NothingOutlivesPurge
  BY DEF LifecycleInv
<1> QED
  BY <1>1, LifecycleCorrect, PTL

\* The newest version of every node is its draft, whatever was pruned.
THEOREM DraftIsInHistory == Spec => []NewestVersionIsDraft
<1>1. LifecycleInv => NewestVersionIsDraft
  BY DEF LifecycleInv
<1> QED
  BY <1>1, LifecycleCorrect, PTL

\* UNIQUE(node_id, version_no) never refuses a version.
THEOREM NumbersAreUnique == Spec => []VersionNumbersUnique
<1>1. LifecycleInv => VersionNumbersUnique
  BY DEF LifecycleInv
<1> QED
  BY <1>1, LifecycleCorrect, PTL

\* No step but a purge takes back a version number that was given out.
THEOREM NumbersAreNotReused == Spec => VersionNumbersNotReused
<1>1. LifecycleInv /\ [Next]_vars =>
        [\A n \in NodeIds : nodes'[n].status # "purged" =>
           LastNo(versions'[n]) >= LastNo(versions[n])]_vars
  BY LifecycleNext DEF NumbersKept
<1> QED
  BY <1>1, LifecycleCorrect, PTL DEF Spec, VersionNumbersNotReused

\* No order of the operations puts a page below itself, through the bin or not: the
\* recursion of _refresh_descendant_routes ends.
THEOREM TreeStaysATree == Spec => []TreeHasNoCycles
<1>1. LifecycleInv /\ TreeInv => TreeHasNoCycles
  BY RankedHasNoCycles DEF LifecycleInv
<1>2. LifecycleInv /\ TreeInv /\ [Next]_vars => TreeInv'
  BY NextKeepsTree
<1> QED
  BY <1>1, <1>2, TreeInit, LifecycleCorrect, PTL DEF Spec

\* No step brings back what was purged.
THEOREM PurgedStaysPurged ==
  Spec => [][\A n \in NodeIds : nodes[n].status = "purged" => nodes'[n].status = "purged"]_vars
<1>1. LifecycleInv /\ [Next]_vars =>
        [\A n \in NodeIds : nodes[n].status = "purged" => nodes'[n].status = "purged"]_vars
  BY NextKeepsTree DEF OneWay
<1> QED
  BY <1>1, LifecycleCorrect, PTL DEF Spec
-----------------------------------------------------------------------------
(* Induction, for the proofs that extend this module.                      *)

\* What holds of nothing and of one more holds of any number.
LEMMA SetInduction ==
  ASSUME NEW S, 0 \in S, \A n \in Nat : n \in S => n+1 \in S
  PROVE  Nat \subseteq S
<1> SUFFICES ASSUME Nat \ S # {} PROVE FALSE
  OBVIOUS
<1>1. PICK x \in Nat \ S : \A y \in Nat \ S : <<y, x>> \notin OpToRel(<, Nat)
  <2>1. Nat \ S \subseteq Nat
    OBVIOUS
  <2> QED
    BY <2>1, NatLessThanWellFounded, WFMin
<1>2. x # 0 /\ x - 1 \in Nat
  OBVIOUS
<1>3. x - 1 \notin S
  BY <1>2
<1>4. <<x-1, x>> \in OpToRel(<, Nat)
  BY <1>2 DEF OpToRel
<1> QED
  BY <1>1, <1>2, <1>3, <1>4
-----------------------------------------------------------------------------
(* Paths. Where the tree is ranked there is one path down to a page, and   *)
(* the routes _refresh_descendant_routes builds along them are those of    *)
(* the parents with one more slug.                                         *)

\* Each page is ranked above those below it.
Ranks(rank, ns) ==
  /\ rank \in [NodeIds -> Nat]
  /\ ns \in [NodeIds -> NodeRows]
  /\ \A m \in NodeIds : ns[m].parent # None =>
       ns[m].parent \in NodeIds /\ rank[ns[m].parent] < rank[m]

\* A path down from n to m, of k pages.
IsPath(p, k, ns, n, m) ==
  /\ k \in Nat /\ k >= 1
  /\ p \in [1..k -> NodeIds]
  /\ ns[p[1]].parent = n
  /\ p[k] = m
  /\ \A i \in 2..k : ns[p[i]].parent = p[i-1]

LEMMA PathsArePaths ==
  ASSUME NEW ns, NEW n, NEW m, NEW p \in PathsDown(ns, n, m)
  PROVE  IsPath(p, Len(p), ns, n, m)
<1>1. Cardinality(NodeIds) \in Nat
  BY NodeAssumption, FS_CardinalityType
<1>2. PICK k \in 1..Cardinality(NodeIds) : p \in [1..k -> NodeIds]
  BY DEF PathsDown, Chains
<1>3. k \in Nat /\ k >= 1 /\ Len(p) = k
  BY <1>1, <1>2
<1> QED
  BY <1>2, <1>3 DEF PathsDown, IsPath

\* Ranks grow along a path.
LEMMA PathsGrow ==
  ASSUME NEW rank, NEW ns, Ranks(rank, ns), NEW n \in NodeIds, NEW m, NEW p, NEW k,
         IsPath(p, k, ns, n, m)
  PROVE  /\ \A j \in 1..k : rank[n] < rank[p[j]]
         /\ \A j \in 1..k : \A i \in 1..(j-1) : rank[p[i]] < rank[p[j]]
<1> DEFINE Grows(j) == rank[n] < rank[p[j]] /\ \A i \in 1..(j-1) : rank[p[i]] < rank[p[j]]
           S == {j \in Nat : j+1 \in 1..k => Grows(j+1)}
<1>0. /\ k \in Nat /\ p \in [1..k -> NodeIds] /\ k >= 1
      /\ ns[p[1]].parent = n /\ n # None
      /\ \A i \in 2..k : ns[p[i]].parent = p[i-1] /\ p[i-1] \in NodeIds
      /\ \A i \in NodeIds : rank[i] \in Nat
  BY NodeAssumption DEF IsPath, Ranks
<1>1. 0 \in S
  <2>1. 1..0 = {} /\ 1 \in 1..k /\ p[1] \in NodeIds
    BY <1>0
  <2>2. rank[n] < rank[p[1]]
    BY <1>0, <2>1 DEF Ranks
  <2> QED
    BY <2>1, <2>2
<1>2. ASSUME NEW j \in Nat, j \in S
      PROVE  j+1 \in S
  <2> SUFFICES ASSUME j+2 \in 1..k PROVE Grows(j+2)
    BY <1>2
  <2>1. j+1 \in 1..k /\ j+2 \in 2..k /\ Grows(j+1)
    BY <1>0, <1>2
  <2>2. ns[p[j+2]].parent = p[j+1] /\ p[j+1] \in NodeIds /\ p[j+2] \in NodeIds /\ p[j+1] # None
    BY <1>0, <2>1, NodeAssumption
  <2>3. rank[p[j+1]] < rank[p[j+2]]
    BY <2>2 DEF Ranks
  <2>4. rank[n] < rank[p[j+2]]
    BY <1>0, <2>1, <2>2, <2>3
  <2>5. ASSUME NEW i \in 1..(j+1)
        PROVE  rank[p[i]] < rank[p[j+2]]
    <3>1. CASE i = j+1
      BY <2>3, <3>1
    <3>2. CASE i # j+1
      <4>1. i \in 1..j /\ i \in 1..k /\ p[i] \in NodeIds
        BY <1>0, <2>1, <3>2
      <4>2. rank[p[i]] < rank[p[j+1]]
        BY <2>1, <4>1
      <4> QED
        BY <1>0, <2>2, <2>3, <4>1, <4>2
    <3> QED
      BY <3>1, <3>2
  <2> QED
    BY <2>4, <2>5
<1>3. Nat \subseteq S
  <2> HIDE DEF S
  <2> QED
    BY <1>1, <1>2, SetInduction
<1>4. \A j \in 1..k : Grows(j)
  <2> SUFFICES ASSUME NEW j \in 1..k PROVE Grows(j)
    OBVIOUS
  <2>1. j-1 \in Nat /\ (j-1)+1 = j
    BY <1>0
  <2>2. j-1 \in S
    BY <1>3, <2>1
  <2> HIDE DEF Grows
  <2> QED
    BY <2>1, <2>2
<1> QED
  BY <1>4

\* There is one way down to a page.
LEMMA OnePath ==
  ASSUME NEW rank, NEW ns, Ranks(rank, ns), NEW n \in NodeIds, NEW m,
         NEW p, NEW k, IsPath(p, k, ns, n, m), NEW q, NEW l, IsPath(q, l, ns, n, m)
  PROVE  k <= l => k = l /\ p = q
<1> SUFFICES ASSUME k <= l PROVE k = l /\ p = q
  OBVIOUS
<1> DEFINE S == {i \in Nat : i < k => p[k-i] = q[l-i]}
<1>0. /\ k \in Nat /\ l \in Nat /\ k >= 1 /\ l >= 1
      /\ p \in [1..k -> NodeIds] /\ q \in [1..l -> NodeIds]
      /\ p[k] = m /\ q[l] = m /\ ns[p[1]].parent = n
      /\ \A i \in 2..k : ns[p[i]].parent = p[i-1]
      /\ \A i \in 2..l : ns[q[i]].parent = q[i-1]
  BY DEF IsPath
<1>1. 0 \in S
  BY <1>0
<1>2. ASSUME NEW i \in Nat, i \in S
      PROVE  i+1 \in S
  <2> SUFFICES ASSUME i+1 < k PROVE p[k-(i+1)] = q[l-(i+1)]
    OBVIOUS
  <2>1. p[k-i] = q[l-i] /\ k-i \in 2..k /\ l-i \in 2..l
    BY <1>0, <1>2
  <2>2. (k-i)-1 = k-(i+1) /\ (l-i)-1 = l-(i+1)
    BY <1>0
  <2>3. ns[p[k-i]].parent = p[(k-i)-1] /\ ns[q[l-i]].parent = q[(l-i)-1]
    BY <1>0, <2>1
  <2> QED
    BY <2>1, <2>2, <2>3
<1>3. Nat \subseteq S
  <2> HIDE DEF S
  <2> QED
    BY <1>1, <1>2, SetInduction
<1>4. \A i \in Nat : i < k => p[k-i] = q[l-i]
  BY <1>3
<1>5. k = l
  <2> SUFFICES ASSUME k < l PROVE FALSE
    BY <1>0
  <2>1. k-1 \in Nat /\ k-1 < k /\ k-(k-1) = 1 /\ l-(k-1) = l-k+1
    BY <1>0
  <2>2. p[1] = q[l-k+1]
    BY <1>4, <2>1
  <2>3. l-k+1 \in 2..l /\ (l-k+1)-1 = l-k /\ l-k \in 1..l
    BY <1>0
  <2>4. q[l-k] = n
    BY <1>0, <2>2, <2>3
  <2>5. rank[n] < rank[q[l-k]] /\ rank[n] \in Nat
    BY <2>3, PathsGrow DEF Ranks
  <2> QED
    BY <2>4, <2>5
<1>6. ASSUME NEW j \in 1..k PROVE p[j] = q[j]
  <2>1. k-j \in Nat /\ k-j < k /\ k-(k-j) = j /\ l-(k-j) = j
    BY <1>0, <1>5
  <2> QED
    BY <1>4, <2>1
<1> QED
  BY <1>0, <1>5, <1>6

\* A path goes through as many pages as there are at most: so it is among those
\* PathsDown ranges over.
LEMMA PathsFit ==
  ASSUME NEW rank, NEW ns, Ranks(rank, ns), NEW n \in NodeIds, NEW m, NEW p, NEW k,
         IsPath(p, k, ns, n, m)
  PROVE  p \in PathsDown(ns, n, m)
<1>0. k \in Nat /\ k >= 1 /\ p \in [1..k -> NodeIds] /\ \A i \in NodeIds : rank[i] \in Nat
  BY DEF IsPath, Ranks
<1>1. ASSUME NEW i \in 1..k, NEW j \in 1..k, p[i] = p[j]
      PROVE  i = j
  <2>1. CASE i < j
    <3>1. i \in 1..(j-1)
      BY <1>0, <2>1
    <3>2. rank[p[i]] < rank[p[j]] /\ rank[p[i]] \in Nat
      BY <1>0, <3>1, PathsGrow
    <3> QED
      BY <1>1, <3>2
  <2>2. CASE j < i
    <3>1. j \in 1..(i-1)
      BY <1>0, <2>2
    <3>2. rank[p[j]] < rank[p[i]] /\ rank[p[i]] \in Nat
      BY <1>0, <3>1, PathsGrow
    <3> QED
      BY <1>1, <3>2
  <2> QED
    BY <1>0, <2>1, <2>2
<1>2. p \in Injection(1..k, NodeIds)
  BY <1>0, <1>1 DEF Injection, IsInjective
<1>3. Cardinality(1..k) = k
  BY <1>0, FS_Interval
<1>4. k <= Cardinality(NodeIds) /\ Cardinality(NodeIds) \in Nat
  BY <1>2, <1>3, NodeAssumption, FS_Injection, FS_CardinalityType
<1>5. k \in 1..Cardinality(NodeIds) /\ Len(p) = k
  BY <1>0, <1>4
<1> QED
  BY <1>0, <1>5 DEF PathsDown, Chains, IsPath

\* One page further down.
LEMMA LongerPath ==
  ASSUME NEW ns, NEW n, NEW q, NEW p, NEW k, IsPath(p, k, ns, n, q),
         NEW m \in NodeIds, ns[m].parent = q
  PROVE  IsPath([i \in 1..(k+1) |-> IF i = k+1 THEN m ELSE p[i]], k+1, ns, n, m)
<1> DEFINE r == [i \in 1..(k+1) |-> IF i = k+1 THEN m ELSE p[i]]
<1>0. /\ k \in Nat /\ k >= 1 /\ p \in [1..k -> NodeIds] /\ ns[p[1]].parent = n /\ p[k] = q
      /\ \A i \in 2..k : ns[p[i]].parent = p[i-1]
  BY DEF IsPath
<1>1. \A i \in 1..k : r[i] = p[i] /\ i \in 1..(k+1)
  BY <1>0
<1>2. r[k+1] = m /\ k+1 \in Nat /\ k+1 >= 1 /\ 1 \in 1..k
  BY <1>0
<1>3. r \in [1..(k+1) -> NodeIds]
  BY <1>0
<1> HIDE DEF r
<1>4. ASSUME NEW i \in 2..(k+1) PROVE ns[r[i]].parent = r[i-1]
  <2>1. CASE i = k+1
    <3>1. i-1 = k /\ k \in 1..k
      BY <1>0, <2>1
    <3>2. r[i-1] = q
      BY <1>0, <1>1, <3>1
    <3> QED
      BY <1>2, <2>1, <3>2
  <2>2. CASE i # k+1
    <3>1. i \in 2..k /\ i \in 1..k /\ i-1 \in 1..k
      BY <1>0, <2>2
    <3> QED
      BY <1>0, <1>1, <3>1
  <2> QED
    BY <2>1, <2>2
<1>5. ns[r[1]].parent = n
  BY <1>0, <1>1, <1>2
<1>6. IsPath(r, k+1, ns, n, m)
  BY <1>2, <1>3, <1>4, <1>5 DEF IsPath
<1> QED
  BY <1>6 DEF r

\* One page less.
LEMMA ShorterPath ==
  ASSUME NEW ns, NEW n, NEW m, NEW p, NEW k, IsPath(p, k, ns, n, m), k > 1
  PROVE  IsPath([i \in 1..(k-1) |-> p[i]], k-1, ns, n, ns[m].parent)
<1> DEFINE r == [i \in 1..(k-1) |-> p[i]]
<1>0. /\ k \in Nat /\ k >= 1 /\ p \in [1..k -> NodeIds] /\ ns[p[1]].parent = n /\ p[k] = m
      /\ \A i \in 2..k : ns[p[i]].parent = p[i-1]
  BY DEF IsPath
<1>1. \A i \in 1..(k-1) : r[i] = p[i] /\ i \in 1..k
  BY <1>0
<1>2. k-1 \in Nat /\ k-1 >= 1 /\ 1 \in 1..(k-1) /\ k-1 \in 1..(k-1) /\ k \in 2..k
  BY <1>0
<1>3. r \in [1..(k-1) -> NodeIds]
  BY <1>0, <1>1
<1> HIDE DEF r
<1>4. r[k-1] = ns[m].parent
  BY <1>0, <1>1, <1>2
<1>5. ASSUME NEW i \in 2..(k-1) PROVE ns[r[i]].parent = r[i-1]
  <2>1. i \in 2..k /\ i \in 1..(k-1) /\ i-1 \in 1..(k-1)
    BY <1>0
  <2> QED
    BY <1>0, <1>1, <2>1
<1>6. ns[r[1]].parent = n
  BY <1>0, <1>1, <1>2
<1>7. IsPath(r, k-1, ns, n, ns[m].parent)
  BY <1>2, <1>3, <1>4, <1>5, <1>6 DEF IsPath
<1> QED
  BY <1>7 DEF r

\* The slugs on a path.
SlugsOn(p, k, ns) == [i \in 1..k |-> ns[p[i]].slug]

\* The route a page gets is that of n and the slugs on the way down.
LEMMA RouteOnPath ==
  ASSUME NEW rank, NEW ns, Ranks(rank, ns), NEW n \in NodeIds, NEW m \in NodeIds,
         NEW p, NEW k, IsPath(p, k, ns, n, m)
  PROVE  RefreshRoutes(ns, n)[m].route = ns[n].route \o SlugsOn(p, k, ns)
<1> DEFINE q == CHOOSE q \in PathsDown(ns, n, m) : TRUE
           r == ns[n].route \o [i \in 1..Len(q) |-> ns[q[i]].slug]
<1>1. PathsDown(ns, n, m) # {}
  BY PathsFit
<1>2. q \in PathsDown(ns, n, m)
  BY <1>1
<1>3. RefreshRoutes(ns, n)[m] = [ns[m] EXCEPT !.route = r]
  BY <1>1 DEF RefreshRoutes
<1> HIDE DEF q
<1>4. IsPath(q, Len(q), ns, n, m)
  BY <1>2, PathsArePaths
<1>5. k = Len(q) /\ p = q
  <2>1. k \in Nat /\ Len(q) \in Nat
    BY <1>4 DEF IsPath
  <2>2. CASE k <= Len(q)
    BY <1>4, <2>2, OnePath
  <2>3. CASE Len(q) <= k
    BY <1>4, <2>3, OnePath
  <2> QED
    BY <2>1, <2>2, <2>3
<1>6. r = ns[n].route \o SlugsOn(p, k, ns)
  BY <1>5 DEF SlugsOn
<1> HIDE DEF r
<1>7. ns[m] \in NodeRows
  BY DEF Ranks
<1> QED
  BY <1>3, <1>6, <1>7 DEF NodeRows

\* One more slug on the way is one more at the end of the route.
LEMMA SlugsAppended ==
  ASSUME NEW S, NEW route \in Seq(S), NEW k \in Nat, NEW f \in [1..k -> S],
         NEW g \in [1..(k+1) -> S], \A i \in 1..k : g[i] = f[i]
  PROVE  route \o g = Append(route \o f, g[k+1])
<1> DEFINE x == route \o g
           y == Append(route \o f, g[k+1])
<1>1. f \in Seq(S) /\ Len(f) = k /\ g \in Seq(S) /\ Len(g) = k+1 /\ g[k+1] \in S
      /\ Len(route) \in Nat
  OBVIOUS
<1>2. /\ x \in Seq(S)
      /\ Len(x) = Len(route) + (k+1)
      /\ \A i \in 1..Len(route) + (k+1) :
           x[i] = IF i <= Len(route) THEN route[i] ELSE g[i - Len(route)]
  <2>1. Len(route \o g) = Len(route) + Len(g)
    BY <1>1, ConcatProperties
  <2>2. \A i \in 1..Len(route) + Len(g) :
          (route \o g)[i] = IF i <= Len(route) THEN route[i] ELSE g[i - Len(route)]
    BY <1>1, ConcatProperties
  <2>3. route \o g \in Seq(S)
    BY <1>1, ConcatProperties
  <2> QED
    BY <1>1, <2>1, <2>2, <2>3
<1>3. /\ route \o f \in Seq(S)
      /\ Len(route \o f) = Len(route) + k
      /\ \A i \in 1..Len(route) + k :
           (route \o f)[i] = IF i <= Len(route) THEN route[i] ELSE f[i - Len(route)]
  <2>1. Len(route \o f) = Len(route) + Len(f)
    BY <1>1, ConcatProperties
  <2>2. \A i \in 1..Len(route) + Len(f) :
          (route \o f)[i] = IF i <= Len(route) THEN route[i] ELSE f[i - Len(route)]
    BY <1>1, ConcatProperties
  <2>3. route \o f \in Seq(S)
    BY <1>1, ConcatProperties
  <2> QED
    BY <1>1, <2>1, <2>2, <2>3
<1> DEFINE z == route \o f
           e == g[k+1]
           n == Len(route)
<1>4. /\ y \in Seq(S) /\ Len(y) = n + k + 1
      /\ \A i \in 1..(n + k) : y[i] = z[i]
      /\ y[n + k + 1] = e
  <2> HIDE DEF z, e, n
  <2>0. z \in Seq(S) /\ Len(z) = n + k /\ e \in S
    BY <1>1, <1>3 DEF z, e, n
  <2>1. y = Append(z, e)
    BY DEF z, e
  <2> HIDE DEF y
  <2>2. y \in Seq(S) /\ Len(y) = Len(z) + 1
    BY <2>0, <2>1, AppendProperties
  <2>3. \A i \in 1..Len(z) : y[i] = z[i]
    BY <2>0, <2>1, AppendProperties
  <2>4. y[Len(z) + 1] = e
    BY <2>0, <2>1, AppendProperties
  <2> QED
    BY <2>0, <2>2, <2>3, <2>4
<1>5. ASSUME NEW i \in 1..(n + k + 1) PROVE x[i] = y[i]
  <2> HIDE DEF x, y, z, e
  <2>1. CASE i = n + k + 1
    <3>1. x[i] = g[i - n] /\ i - n = k + 1
      BY <1>1, <1>2, <2>1
    <3> QED
      BY <1>4, <2>1, <3>1 DEF e
  <2>2. CASE i # n + k + 1
    <3>1. i \in 1..(n + k) /\ i \in 1..n + (k + 1)
      BY <1>1, <2>2
    <3>2. CASE i <= n
      BY <1>2, <1>3, <1>4, <3>1, <3>2 DEF z
    <3>3. CASE ~(i <= n)
      <4>1. i - n \in 1..k
        BY <1>1, <3>1, <3>3
      <4>2. x[i] = g[i - n] /\ z[i] = f[i - n]
        BY <1>2, <1>3, <3>1, <3>3 DEF z
      <4> QED
        BY <1>4, <3>1, <4>1, <4>2
    <3> QED
      BY <3>2, <3>3
  <2> QED
    BY <2>1, <2>2
<1> HIDE DEF x, y, z, e
<1>6. Len(x) = Len(y) /\ Len(x) = n + k + 1
  BY <1>1, <1>2, <1>4
<1>7. x = y
  BY <1>2, <1>4, <1>5, <1>6, SeqEqual
<1> QED
  BY <1>7 DEF x, y

\* _refresh_descendant_routes leaves every page below n under its parent's route,
\* and the rows of the others, and of those above these, alone.
LEMMA RefreshedRoutes ==
  ASSUME NEW rank, NEW ns, Ranks(rank, ns), NEW n \in NodeIds, NEW m \in NodeIds
  PROVE  LET rs == RefreshRoutes(ns, n)
             parent == ns[m].parent
         IN  /\ rs[n] = ns[n]
             /\ PathsDown(ns, n, m) # {} =>
                  /\ parent \in NodeIds
                  /\ rs[m].route = Append(rs[parent].route, ns[m].slug)
                  /\ rs[m].slug = ns[m].slug
             /\ PathsDown(ns, n, m) = {} =>
                  /\ rs[m] = ns[m]
                  /\ parent # None => rs[parent] = ns[parent]
<1> DEFINE rs == RefreshRoutes(ns, n)
           parent == ns[m].parent
<1>0. \A i \in NodeIds : rank[i] \in Nat /\ ns[i] \in NodeRows
  BY DEF Ranks
<1>1. PathsDown(ns, n, n) = {}
  <2> SUFFICES ASSUME NEW p \in PathsDown(ns, n, n) PROVE FALSE
    OBVIOUS
  <2>1. IsPath(p, Len(p), ns, n, n)
    BY PathsArePaths
  <2>2. Len(p) \in 1..Len(p) /\ p[Len(p)] = n
    BY <2>1 DEF IsPath
  <2>3. rank[n] < rank[n]
    BY <2>1, <2>2, PathsGrow
  <2> QED
    BY <1>0, <2>3
<1>2. rs[n] = ns[n]
  BY <1>1 DEF RefreshRoutes
<1>7. ASSUME NEW x \in NodeIds, NEW p, NEW k, IsPath(p, k, ns, n, x)
      PROVE  rs[x].route = ns[n].route \o SlugsOn(p, k, ns)
  BY <1>7, RouteOnPath
<1>3. ASSUME NEW p, NEW k, IsPath(p, k, ns, n, m)
      PROVE  /\ parent \in NodeIds
             /\ rs[m].route = Append(rs[parent].route, ns[m].slug)
             /\ rs[m].slug = ns[m].slug
  <2>0. /\ k \in Nat /\ k >= 1 /\ p \in [1..k -> NodeIds] /\ ns[p[1]].parent = n /\ p[k] = m
        /\ \A i \in 2..k : ns[p[i]].parent = p[i-1]
    BY <1>3 DEF IsPath
  <2> DEFINE g == SlugsOn(p, k, ns)
             f == [i \in 1..(k-1) |-> g[i]]
  <2>2. /\ g \in [1..k -> SlugValues] /\ f \in [1..(k-1) -> SlugValues]
        /\ \A i \in 1..(k-1) : g[i] = f[i]
        /\ g[k] = ns[m].slug
        /\ ns[n].route \in Seq(SlugValues)
    BY <1>0, <2>0 DEF NodeRows, Routes, SlugsOn
  <2>1. rs[m].route = ns[n].route \o g
    BY <1>3, <1>7
  <2>8. rs[m].slug = ns[m].slug
    BY <1>0 DEF RefreshRoutes, NodeRows
  <2>3. parent \in NodeIds /\ rs[parent].route = ns[n].route \o f
    <3>1. CASE k = 1
      <4>1. parent = n /\ rs[n].route = ns[n].route
        BY <1>2, <2>0, <3>1
      <4>2. f = <<>>
        BY <3>1
      <4>3. ns[n].route \o <<>> = ns[n].route
        BY <2>2, ConcatEmptySeq
      <4> HIDE DEF f, g
      <4> QED
        BY <4>1, <4>2, <4>3
    <3>2. CASE k # 1
      <4> DEFINE r == [i \in 1..(k-1) |-> p[i]]
                 j == k-1
                 h == SlugsOn(r, j, ns)
      <4>1. IsPath(r, j, ns, n, parent)
        BY <1>3, <2>0, <3>2, ShorterPath
      <4>2. parent \in NodeIds
        BY <4>1 DEF IsPath
      <4>4. h = f
        BY <2>0 DEF SlugsOn
      <4> HIDE DEF r, j
      <4>3. rs[parent].route = ns[n].route \o h
        BY <4>1, <4>2, <1>7
      <4> HIDE DEF f, g, h
      <4> QED
        BY <4>2, <4>3, <4>4
    <3> QED
      BY <3>1, <3>2
  <2> HIDE DEF f, g
  <2> DEFINE j == k-1
  <2>4. j \in Nat /\ j+1 = k
    BY <2>0
  <2>6. /\ f \in [1..j -> SlugValues] /\ g \in [1..(j+1) -> SlugValues]
        /\ \A i \in 1..j : g[i] = f[i]
    BY <2>2, <2>4
  <2> HIDE DEF j
  <2>7. \A route \in Seq(SlugValues) : route \o g = Append(route \o f, g[j+1])
    BY <2>4, <2>6, SlugsAppended
  <2>5. ns[n].route \o g = Append(ns[n].route \o f, g[k])
    BY <2>2, <2>4, <2>7
  <2> QED
    BY <2>1, <2>2, <2>3, <2>5, <2>8
<1>4. ASSUME PathsDown(ns, n, m) = {}, parent # None
      PROVE  rs[parent] = ns[parent]
  <2>0. parent \in NodeIds
    BY <1>4 DEF Ranks
  <2>1. PathsDown(ns, n, parent) = {}
    <3> SUFFICES ASSUME NEW p \in PathsDown(ns, n, parent) PROVE FALSE
      OBVIOUS
    <3>1. IsPath(p, Len(p), ns, n, parent)
      BY PathsArePaths
    <3>2. \E r, l : IsPath(r, l, ns, n, m)
      BY <3>1, LongerPath
    <3> QED
      BY <1>4, <3>2, PathsFit
  <2> QED
    BY <2>0, <2>1 DEF RefreshRoutes
<1>5. PathsDown(ns, n, m) = {} => rs[m] = ns[m]
  BY DEF RefreshRoutes
<1>6. ASSUME PathsDown(ns, n, m) # {}
      PROVE  \E p, k : IsPath(p, k, ns, n, m)
  BY <1>6, PathsArePaths
<1> QED
  BY <1>2, <1>3, <1>4, <1>5, <1>6
-----------------------------------------------------------------------------
(* Routes and the tree. A page is given its route by create_node,          *)
(* duplicate_node and update_node, which compose it from the parent's; the *)
(* restore from the bin does not, and what it leaves is what these say.    *)

\* The root stays where it was seeded, and a page in the bin is below nothing.
RouteInv ==
  /\ Exists(Root) /\ nodes[Root].status # "trashed"
  /\ nodes[Root].parent = None /\ nodes[Root].slug = None
  /\ nodes[Root].route = PublicRoot
  /\ \A m \in NodeIds : nodes[m].status = "trashed" => nodes[m].parent = None

\* A page has the route its place in the tree gives it.
Composed(m) ==
  nodes[m].route = IF m = Root THEN PublicRoot ELSE RouteFor(nodes[m].parent, nodes[m].slug)

\* A restore from the bin or a purge takes n out of it.
LeavesBin(n) == nodes[n].status = "trashed" /\ nodes'[n].status # "trashed"

\* Where a page was put by its place in the tree, a step leaves it so.
RoutesFollow ==
  \A m \in NodeIds :
    /\ Exists(m)'
    /\ Exists(m) => Composed(m)
    /\ ~LeavesBin(m)
    /\ nodes'[m].parent # None => ~LeavesBin(nodes'[m].parent)
    => Composed(m)'

\* Where a slug is edited, what is below goes where the tree puts it.
RenameReachesBelow ==
  \A n, m \in NodeIds :
    nodes'[n].slug # nodes[n].slug /\ ~LeavesBin(n) /\ PathsDown(nodes, n, m) # {}
    => Composed(m)'

\* What a step has to show.
RoutesKept == RouteInv' /\ RoutesFollow /\ RenameReachesBelow

\* A page that is nobody's parent has nothing below it.
LEMMA NothingBelow ==
  ASSUME NEW n, \A m \in NodeIds : nodes[m].parent # n, NEW m
  PROVE  PathsDown(nodes, n, m) = {}
<1> SUFFICES ASSUME NEW p \in PathsDown(nodes, n, m) PROVE FALSE
  OBVIOUS
<1>1. IsPath(p, Len(p), nodes, n, m)
  BY PathsArePaths
<1>2. p[1] \in NodeIds /\ nodes[p[1]].parent = n
  BY <1>1 DEF IsPath
<1> QED
  BY <1>2

\* A step that writes the row of one page only, whose slug it changes only if the
\* page is nobody's parent or leaves the bin.
LEMMA OneRowRoutes ==
  ASSUME TypeOK, RouteInv, NEW n \in NodeIds,
         nodes' \in [NodeIds -> NodeRows],
         \A m \in NodeIds \ {n} : nodes'[m] = nodes[m],
         n = Root => /\ nodes'[n].status \notin {"absent", "purged", "trashed"}
                     /\ nodes'[n].parent = nodes[n].parent
                     /\ nodes'[n].slug = nodes[n].slug
                     /\ nodes'[n].route = nodes[n].route,
         nodes'[n].status = "trashed" => nodes'[n].parent = None,
         LeavesBin(n) \/ \/ \A m \in NodeIds : nodes[m].parent # n
                         \/ /\ nodes'[n].slug = nodes[n].slug
                            /\ nodes'[n].route = nodes[n].route,
         (Exists(n) => Composed(n)) /\ ~LeavesBin(n) /\ Exists(n)' => Composed(n)'
  PROVE  RoutesKept
<1>1. RouteInv'
  <2>1. CASE n = Root
    BY <2>1, NodeAssumption DEF RouteInv, Exists
  <2>2. CASE n # Root
    BY <2>2, NodeAssumption DEF RouteInv, Exists
  <2> QED
    BY <2>1, <2>2
<1>2. \A m \in NodeIds : nodes[m].parent \in NodeIds \cup {None}
  BY DEF TypeOK, NodeRows
<1>3. ASSUME NEW m \in NodeIds, Exists(m)', Exists(m) => Composed(m), ~LeavesBin(m),
             nodes'[m].parent # None => ~LeavesBin(nodes'[m].parent)
      PROVE  Composed(m)'
  <2>1. CASE m = n
    BY <1>3, <2>1
  <2>2. CASE m # n
    <3>1. nodes'[m] = nodes[m] /\ Exists(m) /\ Composed(m)
      BY <1>3, <2>2 DEF Exists
    <3>2. nodes[m].parent # None => nodes'[nodes[m].parent].route = nodes[nodes[m].parent].route
      BY <1>2, <1>3, <2>2, <3>1
    <3> QED
      BY <3>1, <3>2 DEF Composed, RouteFor
  <2> QED
    BY <2>1, <2>2
<1>4. ASSUME NEW k \in NodeIds, NEW m \in NodeIds, nodes'[k].slug # nodes[k].slug,
             ~LeavesBin(k), PathsDown(nodes, k, m) # {}
      PROVE  Composed(m)'
  <2>1. k = n /\ \A i \in NodeIds : nodes[i].parent # n
    BY <1>4
  <2> QED
    BY <1>4, <2>1, NothingBelow
<1> QED
  BY <1>1, <1>3, <1>4 DEF RoutesKept, RoutesFollow, RenameReachesBelow

LEMMA SameRoutes ==
  ASSUME TypeOK, RouteInv, UNCHANGED nodes
  PROVE  RoutesKept
BY DEF RoutesKept, RouteInv, RoutesFollow, RenameReachesBelow, Composed, RouteFor, Exists

\* create_node and duplicate_node.
LEMMA NewPageRoutes ==
  ASSUME TypeOK, TreeInv, RouteInv, NEW n \in NodeIds, Fresh(n),
         NEW parent \in NodeIds \cup {None}, parent # None => Exists(parent),
         NEW slug \in SlugValues, NEW row \in NodeRows,
         row.status = "draft", row.parent = parent, row.slug = slug,
         row.route = RouteFor(parent, slug), nodes' = [nodes EXCEPT ![n] = row]
  PROVE  RoutesKept
<1>1. /\ nodes' \in [NodeIds -> NodeRows] /\ nodes'[n] = row
      /\ \A m \in NodeIds \ {n} : nodes'[m] = nodes[m]
  BY DEF TypeOK
<1>2. n # Root /\ n # parent
  BY NodeAssumption DEF RouteInv, Exists, Fresh
<1>3. \A m \in NodeIds : nodes[m].parent # n
  BY NodeAssumption DEF TreeInv, RankedBy, Above, Fresh
<1>4. Composed(n)'
  BY <1>1, <1>2 DEF Composed, RouteFor
<1>5. nodes'[n].status # "trashed"
  BY <1>1
<1> QED
  BY <1>1, <1>2, <1>3, <1>4, <1>5, OneRowRoutes

LEMMA UpdateRoutes ==
  ASSUME LifecycleInv, TreeInv, RouteInv, NEW n \in NodeIds, NEW slug \in Slugs \cup {None},
         NEW payload \in Payloads, NEW actor, Update(n, slug, payload, actor)
  PROVE  RoutesKept
<1> DEFINE parent == nodes[n].parent
           route == IF n = Root THEN PublicRoot ELSE RouteFor(parent, slug)
           row == [nodes[n] EXCEPT !.slug = slug, !.draft = payload,
                                   !.status = StatusOnEdit(nodes[n].status),
                                   !.route = route]
           saved == [nodes EXCEPT ![n] = row]
<1>0. TypeOK
  BY DEF LifecycleInv
<1>1. /\ Exists(n) /\ nodes[n] \in NodeRows /\ slug \in SlugValues
      /\ n = Root => slug = None
  BY <1>0, RouteTypes DEF Update, TypeOK
<1>2. route \in Routes
  BY <1>0, <1>1, RouteForType, RouteTypes DEF NodeRows
<1>3. /\ StatusOnEdit(nodes[n].status) \in NodeStatuses \ {"absent", "purged"}
      /\ StatusOnEdit(nodes[n].status) = "trashed" <=> nodes[n].status = "trashed"
  BY <1>1 DEF StatusOnEdit, NodeStatuses, Exists, NodeRows
<1>4. nodes' = RefreshRoutes(saved, n)
  BY DEF Update, CommitNodes
<1>5. route = IF n = Root THEN PublicRoot ELSE RouteFor(parent, slug)
  OBVIOUS
<1> HIDE DEF route
<1>6. /\ row \in NodeRows
      /\ row.status = StatusOnEdit(nodes[n].status)
      /\ row.parent = parent /\ row.slug = slug /\ row.route = route
  BY <1>1, <1>2, <1>3 DEF NodeRows
<1> HIDE DEF row
<1>7. /\ saved \in [NodeIds -> NodeRows] /\ saved[n] = row
      /\ \A m \in NodeIds \ {n} : saved[m] = nodes[m]
      /\ \A m \in NodeIds : saved[m].parent = nodes[m].parent
  BY <1>0, <1>6 DEF TypeOK
<1>8. PICK rank \in [NodeIds -> Nat] : RankedBy(rank)
  BY DEF TreeInv
<1> HIDE DEF saved
<1>9. Ranks(rank, saved)
  BY <1>0, <1>7, <1>8 DEF Ranks, RankedBy, Above, TypeOK, NodeRows
<1>10. \A m \in NodeIds : /\ nodes'[m].status = saved[m].status
                          /\ nodes'[m].parent = saved[m].parent
  BY <1>4, <1>7, RefreshRoutesFrame
<1>11. \A m \in NodeIds :
         /\ nodes'[n] = saved[n]
         /\ PathsDown(saved, n, m) # {} =>
              /\ saved[m].parent \in NodeIds
              /\ nodes'[m].route = Append(nodes'[saved[m].parent].route, saved[m].slug)
              /\ nodes'[m].slug = saved[m].slug
         /\ PathsDown(saved, n, m) = {} =>
              /\ nodes'[m] = saved[m]
              /\ saved[m].parent # None => nodes'[saved[m].parent] = saved[saved[m].parent]
  <2> SUFFICES ASSUME NEW m \in NodeIds
               PROVE  /\ nodes'[n] = saved[n]
                      /\ PathsDown(saved, n, m) # {} =>
                           /\ saved[m].parent \in NodeIds
                           /\ nodes'[m].route =
                                Append(nodes'[saved[m].parent].route, saved[m].slug)
                           /\ nodes'[m].slug = saved[m].slug
                      /\ PathsDown(saved, n, m) = {} =>
                           /\ nodes'[m] = saved[m]
                           /\ saved[m].parent # None =>
                                nodes'[saved[m].parent] = saved[saved[m].parent]
    OBVIOUS
  <2> DEFINE rs == RefreshRoutes(saved, n)
  <2>1. nodes' = rs
    BY <1>4
  <2>2. /\ rs[n] = saved[n]
        /\ PathsDown(saved, n, m) # {} =>
             /\ saved[m].parent \in NodeIds
             /\ rs[m].route = Append(rs[saved[m].parent].route, saved[m].slug)
             /\ rs[m].slug = saved[m].slug
        /\ PathsDown(saved, n, m) = {} =>
             /\ rs[m] = saved[m]
             /\ saved[m].parent # None => rs[saved[m].parent] = saved[saved[m].parent]
    BY <1>9, RefreshedRoutes
  <2> HIDE DEF rs
  <2> QED
    BY <2>1, <2>2
<1>12. PathsDown(saved, n, n) = {} /\ (parent # None => parent \in NodeIds \ {n})
  <2>1. parent # None => parent \in NodeIds /\ rank[parent] < rank[n] /\ rank[n] \in Nat
    BY <1>7, <1>9 DEF Ranks
  <2>2. parent # n
    BY <2>1, NodeAssumption
  <2>3. TypeOK /\ TreeInv => TreeHasNoCycles
    BY RankedHasNoCycles
  <2>4. PathsDown(saved, n, n) = PathsDown(nodes, n, n)
    <3>1. \A p \in Chains : (\A i \in 1..Len(p) : p[i] \in NodeIds) /\ Len(p) \in Nat /\ Len(p) >= 1
      <4> SUFFICES ASSUME NEW p \in Chains
                   PROVE  (\A i \in 1..Len(p) : p[i] \in NodeIds) /\ Len(p) \in Nat /\ Len(p) >= 1
        OBVIOUS
      <4>1. Cardinality(NodeIds) \in Nat
        BY NodeAssumption, FS_CardinalityType
      <4>2. PICK k \in 1..Cardinality(NodeIds) : p \in [1..k -> NodeIds]
        BY DEF Chains
      <4> QED
        BY <4>1, <4>2
    <3>2. \A p \in Chains : /\ saved[p[1]].parent = nodes[p[1]].parent
                            /\ \A i \in 2..Len(p) : saved[p[i]].parent = nodes[p[i]].parent
      BY <1>7, <3>1
    <3> QED
      BY <3>2 DEF PathsDown
  <2> QED
    BY <1>0, <2>1, <2>2, <2>3, <2>4 DEF TreeHasNoCycles
<1>13. ASSUME NEW m \in NodeIds, PathsDown(saved, n, m) # {} PROVE Composed(m)' /\ m # Root
  <2>1. m # Root /\ nodes'[m].parent = saved[m].parent /\ saved[m].parent # None
    BY <1>7, <1>10, <1>11, <1>13, NodeAssumption DEF RouteInv
  <2> QED
    BY <1>11, <1>13, <2>1 DEF Composed, RouteFor
<1>14. Composed(n)'
  <2>1. nodes'[n].route = route /\ nodes'[n].slug = slug /\ nodes'[n].parent = parent
    BY <1>6, <1>7, <1>10, <1>11
  <2>2. parent # None => nodes'[parent] = nodes[parent]
    BY <1>7, <1>11, <1>12
  <2> QED
    BY <1>5, <2>1, <2>2 DEF Composed, RouteFor
<1>15. RouteInv'
  <2>1. /\ nodes'[Root].parent = None /\ nodes'[Root].slug = None
        /\ nodes'[Root].route = PublicRoot
    <3>1. CASE n = Root
      BY <1>1, <1>5, <1>6, <1>7, <1>11, <3>1, NodeAssumption DEF RouteInv
    <3>2. CASE n # Root
      BY <1>7, <1>11, <1>13, <3>2, NodeAssumption DEF RouteInv
    <3> QED
      BY <3>1, <3>2
  <2>2. \A m \in NodeIds : nodes'[m].status = "trashed" <=> nodes[m].status = "trashed"
    BY <1>3, <1>6, <1>7, <1>10
  <2>3. Exists(Root)'
    BY <1>3, <1>6, <1>7, <1>10, NodeAssumption DEF RouteInv, Exists
  <2> QED
    BY <1>7, <1>10, <2>1, <2>2, <2>3, NodeAssumption DEF RouteInv
<1>16. RoutesFollow
  <2> SUFFICES ASSUME NEW m \in NodeIds, Exists(m)', Exists(m) => Composed(m),
                      m # n, PathsDown(saved, n, m) = {}
               PROVE  Composed(m)'
    BY <1>13, <1>14 DEF RoutesFollow
  <2>1. nodes'[m] = nodes[m] /\ Composed(m)
    BY <1>7, <1>11 DEF Exists
  <2>2. nodes[m].parent # None => nodes'[nodes[m].parent] = saved[nodes[m].parent]
    BY <1>7, <1>11
  <2>3. m # Root => nodes[m].parent # n
    <3> SUFFICES ASSUME nodes[m].parent = n PROVE FALSE
      OBVIOUS
    <3> DEFINE p == [i \in 1..1 |-> m]
    <3>1. p[1] = m /\ p \in [1..1 -> NodeIds]
      OBVIOUS
    <3> HIDE DEF p
    <3>2. IsPath(p, 1, saved, n, m)
      BY <1>7, <3>1 DEF IsPath
    <3> QED
      BY <1>9, <3>2, PathsFit
  <2>4. m # Root /\ nodes[m].parent # None =>
          nodes'[nodes[m].parent] = nodes[nodes[m].parent]
    BY <1>0, <1>7, <2>2, <2>3 DEF TypeOK, NodeRows
  <2> QED
    BY <2>1, <2>4 DEF Composed, RouteFor
<1>17. RenameReachesBelow
  <2> SUFFICES ASSUME NEW k \in NodeIds, NEW m \in NodeIds, nodes'[k].slug # nodes[k].slug,
                      PathsDown(nodes, k, m) # {}
               PROVE  Composed(m)'
    BY DEF RenameReachesBelow
  <2>1. k = n
    BY <1>7, <1>11
  <2>2. PICK p \in PathsDown(nodes, n, m) : TRUE
    BY <2>1
  <2>3. IsPath(p, Len(p), nodes, n, m)
    BY <2>2, PathsArePaths
  <2>4. IsPath(p, Len(p), saved, n, m)
    <3>1. /\ Len(p) \in Nat /\ Len(p) >= 1 /\ p \in [1..Len(p) -> NodeIds]
          /\ nodes[p[1]].parent = n /\ p[Len(p)] = m
          /\ \A i \in 2..Len(p) : nodes[p[i]].parent = p[i-1]
      BY <2>3 DEF IsPath
    <3>2. saved[p[1]].parent = n
      BY <1>7, <3>1
    <3>3. \A i \in 2..Len(p) : saved[p[i]].parent = p[i-1]
      BY <1>7, <3>1
    <3> QED
      BY <3>1, <3>2, <3>3 DEF IsPath
  <2> QED
    BY <1>9, <1>13, <2>4, PathsFit
<1> QED
  BY <1>15, <1>16, <1>17 DEF RoutesKept

\* Each operation on pages.
LEMMA TreeStepRoutes ==
  ASSUME LifecycleInv, TreeInv, RouteInv, TreeStep
  PROVE  RoutesKept
<1>0. TypeOK /\ nodes' \in [NodeIds -> NodeRows]
  <2>1. [Next]_vars
    BY DEF Next
  <2>2. TypeOK /\ TypeOK'
    BY <2>1, LifecycleNext DEF LifecycleInv
  <2> QED
    BY <2>2 DEF TypeOK
<1>1. ASSUME NEW n \in NodeIds, NEW parent \in NodeIds \cup {None}, NEW slug \in Slugs,
             NEW payload \in Payloads, Fresh(n), parent # None => Exists(parent),
             nodes' = [nodes EXCEPT ![n] =
               [BlankRow EXCEPT !.status = "draft", !.parent = parent, !.slug = slug,
                                !.route = RouteFor(parent, slug), !.draft = payload]]
      PROVE  RoutesKept
  <2> DEFINE row == [BlankRow EXCEPT !.status = "draft", !.parent = parent, !.slug = slug,
                        !.route = RouteFor(parent, slug), !.draft = payload]
  <2>1. RouteFor(parent, slug) \in Routes
    BY <1>0, RouteForType, RouteTypes
  <2>2. /\ row \in NodeRows /\ row.status = "draft" /\ row.parent = parent
        /\ row.slug = slug /\ row.route = RouteFor(parent, slug)
    BY <2>1, BlankTypes, RouteTypes DEF BlankRow, NodeRows, NodeStatuses
  <2>3. nodes' = [nodes EXCEPT ![n] = row]
    BY <1>1
  <2> HIDE DEF row
  <2>4. TypeOK /\ slug \in SlugValues /\ Fresh(n) /\ (parent # None => Exists(parent))
    BY <1>0, <1>1, RouteTypes
  <2> QED
    BY <2>2, <2>3, <2>4, NewPageRoutes
<1>2. ASSUME NEW n \in NodeIds, NEW p \in NodeIds \cup {None}, NEW s \in Slugs,
             NEW d \in Payloads, Create(n, p, s, d)
      PROVE  RoutesKept
  BY <1>1, <1>2 DEF Create, CommitNodes
<1>3. ASSUME NEW n \in NodeIds, NEW copy \in NodeIds, NEW s \in Slugs, Duplicate(n, copy, s)
      PROVE  RoutesKept
  <2>1. nodes[n].parent \in NodeIds \cup {None} /\ nodes[n].draft \in Payloads
    BY <1>0, <1>3, DraftIsPayload DEF Duplicate, TypeOK, NodeRows
  <2> QED
    BY <1>1, <1>3, <2>1 DEF Duplicate, CommitNodes
<1>4. ASSUME NEW n \in NodeIds, NEW s \in Slugs \cup {None}, NEW d \in Payloads,
             NEW a \in Actors, Update(n, s, d, a)
      PROVE  RoutesKept
  BY <1>4, UpdateRoutes
\* What publishing and withdrawing leave alone.
<1>5. ASSUME NEW n \in NodeIds, NEW status \in {"published", "unpublished"}, Exists(n),
             n = Root => status = "published",
             nodes'[n].status = status,
             nodes'[n].parent = nodes[n].parent,
             nodes'[n].slug = nodes[n].slug, nodes'[n].route = nodes[n].route,
             \A m \in NodeIds \ {n} : nodes'[m] = nodes[m]
      PROVE  RoutesKept
  <2>1. ASSUME ~LeavesBin(n), Exists(n) => Composed(n) PROVE Composed(n)'
    <3>1. Composed(n) /\ nodes[n].parent \in NodeIds \cup {None}
      BY <1>0, <1>5, <2>1 DEF TypeOK, NodeRows
    <3>2. nodes[n].parent # None => nodes'[nodes[n].parent].route = nodes[nodes[n].parent].route
      BY <1>5, <3>1
    <3> QED
      BY <1>5, <3>1, <3>2 DEF Composed, RouteFor
  <2> QED
    BY <1>0, <1>5, <2>1, OneRowRoutes
<1>6. ASSUME NEW n \in NodeIds, NEW a \in Actors, Publish(n, a) PROVE RoutesKept
  <2>1. /\ nodes'[n].status = "published" /\ nodes'[n].parent = nodes[n].parent
        /\ nodes'[n].slug = nodes[n].slug /\ nodes'[n].route = nodes[n].route
        /\ \A m \in NodeIds \ {n} : nodes'[m] = nodes[m]
    BY <1>0, <1>6 DEF Publish, TypeOK, NodeRows
  <2> QED
    BY <1>5, <1>6, <2>1 DEF Publish
<1>7. ASSUME NEW n \in NodeIds, NEW a \in Actors, Unpublish(n, a) PROVE RoutesKept
  <2>1. /\ nodes'[n].status = "unpublished" /\ nodes'[n].parent = nodes[n].parent
        /\ nodes'[n].slug = nodes[n].slug /\ nodes'[n].route = nodes[n].route
        /\ \A m \in NodeIds \ {n} : nodes'[m] = nodes[m]
    BY <1>0, <1>7 DEF Unpublish, TypeOK, NodeRows
  <2> QED
    BY <1>5, <1>7, <2>1 DEF Unpublish
<1>8. ASSUME NEW n \in NodeIds, NEW a \in Actors, Delete(n, a) PROVE RoutesKept
  <2>1. nodes[n] \in NodeRows /\ n # Root /\ \A m \in NodeIds : nodes[m].parent # n
    BY <1>0, <1>8, NodeAssumption DEF Delete, TypeOK, RouteInv
  <2>2. /\ nodes'[n].status = "trashed" /\ nodes'[n].parent = None
        /\ nodes'[n].slug = TrashSlug(n) /\ nodes'[n].route = TrashRoute(n)
        /\ \A m \in NodeIds \ {n} : nodes'[m] = nodes[m]
    BY <1>0, <1>8, <2>1 DEF Delete, CommitNodes, TypeOK, NodeRows
  <2>3. Composed(n)'
    BY <2>1, <2>2 DEF Composed, RouteFor, TrashRoute
  <2> QED
    BY <1>0, <2>1, <2>2, <2>3, OneRowRoutes
<1>9. ASSUME NEW n \in NodeIds, RestoreTrashed(n) PROVE RoutesKept
  <2>1. /\ nodes[n] \in NodeRows /\ nodes'[n].status = "draft" /\ LeavesBin(n) /\ n # Root
        /\ \A m \in NodeIds \ {n} : nodes'[m] = nodes[m]
    BY <1>0, <1>9 DEF RestoreTrashed, CommitNodes, TypeOK, NodeRows, LeavesBin, RouteInv
  <2> QED
    BY <1>0, <2>1, OneRowRoutes
<1>10. ASSUME NEW n \in NodeIds, Purge(n) PROVE RoutesKept
  <2>1. /\ nodes[n] \in NodeRows /\ nodes'[n].status = "purged" /\ LeavesBin(n) /\ n # Root
        /\ \A m \in NodeIds \ {n} : nodes'[m] = nodes[m]
    BY <1>0, <1>10 DEF Purge, TypeOK, NodeRows, BlankRow, LeavesBin, RouteInv
  <2> QED
    BY <1>0, <2>1, OneRowRoutes
<1> QED
  BY <1>2, <1>3, <1>4, <1>6, <1>7, <1>8, <1>9, <1>10 DEF TreeStep

LEMMA NextRoutes ==
  ASSUME LifecycleInv, TreeInv, RouteInv, [Next]_vars
  PROVE  RoutesKept
<1>1. CASE TreeStep
  BY <1>1, TreeStepRoutes
<1>2. ASSUME NEW n \in NodeIds, NEW a \in Actors, NEW v \in versions[n],
             RestoreVersion(n, v.no, a)
      PROVE  RoutesKept
  <2>0. TypeOK /\ nodes' \in [NodeIds -> NodeRows]
    BY LifecycleNext DEF LifecycleInv, TypeOK
  <2>1. PICK w \in versions[n] :
          nodes' = [nodes EXCEPT ![n].draft = w.payload, ![n].status = StatusOnEdit(@)]
    BY <1>2 DEF RestoreVersion
  <2>2. nodes[n] \in NodeRows /\ Exists(n)
    BY <1>2, <2>0 DEF RestoreVersion, TypeOK
  <2>3. /\ StatusOnEdit(nodes[n].status) \notin {"absent", "purged"}
        /\ StatusOnEdit(nodes[n].status) = "trashed" <=> nodes[n].status = "trashed"
    BY <2>2 DEF StatusOnEdit, Exists
  <2>4. /\ nodes'[n].status = StatusOnEdit(nodes[n].status)
        /\ nodes'[n].parent = nodes[n].parent
        /\ nodes'[n].slug = nodes[n].slug /\ nodes'[n].route = nodes[n].route
        /\ \A m \in NodeIds \ {n} : nodes'[m] = nodes[m]
    BY <2>0, <2>1, <2>2 DEF TypeOK, NodeRows
  <2>5. ASSUME Exists(n) => Composed(n) PROVE Composed(n)'
    <3>1. Composed(n) /\ nodes[n].parent \in NodeIds \cup {None}
      BY <2>2, <2>5 DEF NodeRows
    <3>2. nodes[n].parent # None => nodes'[nodes[n].parent].route = nodes[nodes[n].parent].route
      BY <2>4, <3>1
    <3> QED
      BY <2>4, <3>1, <3>2 DEF Composed, RouteFor
  <2>6. nodes'[n].status = "trashed" => nodes'[n].parent = None
    BY <2>3, <2>4 DEF RouteInv
  <2>7. n = Root => nodes'[n].status \notin {"absent", "purged", "trashed"}
    BY <2>3, <2>4 DEF RouteInv
  <2> QED
    BY <2>0, <2>4, <2>5, <2>6, <2>7, OneRowRoutes
<1>3. CASE UNCHANGED nodes
  BY <1>3, SameRoutes DEF LifecycleInv
<1> QED
  BY <1>1, <1>2, <1>3
  DEF Next, HistoryStep, CleanupVersions, LockStep, AcquireLock, ReleaseLock,
      WorkflowStep, UpsertWorkflow, Tick, vars

LEMMA RoutesInit == Init => RouteInv
<1> SUFFICES ASSUME Init PROVE RouteInv
  OBVIOUS
<1>1. PICK p \in Payloads :
       nodes = [n \in NodeIds |->
            IF n = Root THEN [BlankRow EXCEPT !.status = "published", !.draft = p, !.pub = p]
                        ELSE BlankRow]
  BY DEF Init
<1>2. /\ nodes[Root].status = "published" /\ nodes[Root].parent = None
      /\ nodes[Root].slug = None /\ nodes[Root].route = PublicRoot
      /\ \A m \in NodeIds : nodes[m].parent = None
  BY <1>1, NodeAssumption DEF BlankRow
<1> QED
  BY <1>2 DEF RouteInv, Exists

\* A page that is where its place in the tree puts it is put there by every step,
\* but one that takes it or its parent out of the bin: restore_trashed_node writes back
\* the route of the deletion, and refreshes none below it.
THEOREM RoutesFollowTree == Spec => [][RoutesFollow]_vars
<1>1. LifecycleInv /\ TreeInv /\ RouteInv /\ [Next]_vars => RouteInv' /\ [RoutesFollow]_vars
  BY NextRoutes DEF RoutesKept
<1>2. LifecycleInv /\ TreeInv /\ [Next]_vars => TreeInv'
  BY NextKeepsTree
<1> QED
  BY <1>1, <1>2, TreeInit, RoutesInit, LifecycleCorrect, PTL DEF Spec

\* However deep a page is below one whose slug is edited, the edit leaves it where
\* its place in the tree puts it, even if it was not there (_refresh_descendant_routes).
THEOREM RenamesReachBelow == Spec => [][RenameReachesBelow]_vars
<1>1. LifecycleInv /\ TreeInv /\ RouteInv /\ [Next]_vars =>
        RouteInv' /\ [RenameReachesBelow]_vars
  BY NextRoutes DEF RoutesKept
<1>2. LifecycleInv /\ TreeInv /\ [Next]_vars => TreeInv'
  BY NextKeepsTree
<1> QED
  BY <1>1, <1>2, TreeInit, RoutesInit, LifecycleCorrect, PTL DEF Spec
=============================================================================
