----------------------------- MODULE WebRequests -----------------------------
(***************************************************************************)
(* Requests on their way through the routes (web/routes.py and the routers *)
(* of the platform), while administrators grant and revoke permissions.    *)
(* The handlers of the office are coroutines that give way when they wait  *)
(* for a form, and every call they make to a service is a transaction of   *)
(* its own, between which handlers in other threads get their turn; so a   *)
(* request takes the steps of its row one at a time. What the work of a    *)
(* row does to pages is one operation of ContentNodes; the rows whose work *)
(* is on other tables leave the pages alone, and so, here, do the import   *)
(* of a package and the application of due workflows, which are many       *)
(* transactions each (Packages, ScheduledPublishing).                      *)
(***************************************************************************)
EXTENDS AccessRules, WebRoutes

CONSTANT Sessions   (* requests in progress at once                        *)

ASSUME SessionAssumption == Users \subseteq Actors

VARIABLES
  visits,   (* each request, or NoVisit                                    *)
  held      (* what its user was permitted since it began: history         *)

visitVars == <<visits, held>>

NoVisit == [at |-> "idle"]

\* Actions that change pages, and what a user may do of them.
PageActions == {"create", "update", "publish", "delete"}
Permitted(user) ==
  {ask \in PageActions \X NodeIds : MayPerform(user, ask[1], ask[2])}

RulesStay == UNCHANGED ruleVars
PagesStay == UNCHANGED vars

\* What was permitted before a step or is after it.
Open(s) == visits[s].at = "open"
HoldsNow(s) == IF Open(s) THEN Permitted(visits[s].user) ELSE {}
Witness ==
  held' = [s \in Sessions |->
    IF Open(s)' THEN (IF Open(s) THEN held[s] ELSE {}) \cup HoldsNow(s)' ELSE {}]

Answer(s, status) ==
  visits' = [visits EXCEPT ![s] =
    [at |-> "answered", asked |-> visits[s].asked, route |-> visits[s].route, status |-> status]]
MoveOn(s) ==
  IF visits[s].step = Len(Table[visits[s].route].steps) THEN Answer(s, 200)
  ELSE visits' = [visits EXCEPT ![s].step = @ + 1]
MoveOnWith(s, parent) ==
  visits' = [visits EXCEPT ![s].step = @ + 1, ![s].parent = parent]

Facing(s, kind) == visits[s].at = "open" /\ Table[visits[s].route].steps[visits[s].step].kind = kind
Step(s) == Table[visits[s].route].steps[visits[s].step]

-----------------------------------------------------------------------------
(* Steps.                                                                  *)

\* Someone asks for the path of a route, of any page or none, and, on a form,
\* of a parent or none.
ComeIn(s, i, user, page, parent) ==
  /\ visits[s] = NoVisit
  /\ visits' = [visits EXCEPT ![s] =
       [at |-> "open", asked |-> i, route |-> Reached[i],
        step |-> 1, user |-> user, page |-> page, parent |-> parent]]
  /\ PagesStay

\* _guard and has_any_content_permission.
PassGuard(s) ==
  /\ Facing(s, "guard")
  /\ IF \E id \in RuleIds : /\ grants[id] # NoGrant
                            /\ grants[id].subject \in {Everybody, visits[s].user}
     THEN MoveOn(s) ELSE Answer(s, 302)
  /\ PagesStay

\* The page _can is asked about; of no parent, the root is.
SubjectOf(visit, subject) ==
  CASE subject = "site" -> None
    [] subject \in {"page", "token", "named"} -> visit.page
    [] subject = "parent" -> IF visit.parent = None THEN Root ELSE visit.parent

\* _can, for a user who is no administrator.
AskWherever(s) ==
  /\ Facing(s, "ask")
  /\ IF Step(s).action \in PermissionActions /\ MayPerform(visits[s].user, Step(s).action, None)
     THEN MoveOn(s) ELSE Answer(s, 403)
  /\ PagesStay
Ask(s) ==
  /\ Facing(s, "ask")
  /\ IF /\ Step(s).action \in PermissionActions
        /\ MayPerform(visits[s].user, Step(s).action, SubjectOf(visits[s], Step(s).subject))
     THEN MoveOn(s) ELSE Answer(s, 403)
  /\ PagesStay

ReadForm(s) == Facing(s, "form") /\ MoveOn(s) /\ PagesStay

\* The page is loaded, and its parent known from then on; or the token.
LookUp(s) ==
  /\ Facing(s, "find")
  /\ LET page == visits[s].page
     IN  \/ page # None /\ Exists(page) /\ MoveOnWith(s, nodes[page].parent)
         \/ (page = None \/ ~Exists(page)) /\ Answer(s, Step(s).status)
  /\ PagesStay

\* What the body, the desk or the roles of the desk decide.
Check(s) == Facing(s, "check") /\ (MoveOn(s) \/ Answer(s, Step(s).status)) /\ PagesStay
AskDesk(s) == Facing(s, "desk") /\ (MoveOn(s) \/ Answer(s, 503)) /\ PagesStay
AskPermit(s) ==
  Facing(s, "permit") /\ (MoveOn(s) \/ Answer(s, 401) \/ Answer(s, 403)) /\ PagesStay

-----------------------------------------------------------------------------
(* The work on pages.                                                      *)

\* ArcHubPublishingService.
PublishingWork(handler, n, user) ==
  \/ handler = "publish_content" /\ Publish(n, user)
  \/ handler = "unpublish_content" /\ Unpublish(n, user)
  \/ handler = "delete_content" /\ Delete(n, user)
  \/ handler = "restore_content_from_trash" /\ RestoreTrashed(n)
  \/ handler = "purge_content_from_trash" /\ Purge(n)
  \/ /\ handler = "update_content_workflow"
     /\ \E state \in WorkflowStates : UpsertWorkflow(n, state, Never, Never)

\* ArcHubVersioningService.
VersioningWork(handler, n, user) ==
  \/ /\ handler = "restore_content_version"
     /\ \E v \in versions[n] : RestoreVersion(n, v.no, user)
  \/ /\ handler = "cleanup_content_versions"
     /\ \E keep \in Keeps, retention \in Retentions : CleanupVersions({n}, keep, retention)

EditingWork(handler, n, user) ==
  \/ /\ handler = "update_content"
     /\ \E slug \in Slugs \cup {None}, payload \in Payloads : Update(n, slug, payload, user)
  \/ /\ handler = "acquire_content_lock"
     /\ \E ttl \in Ttls, force \in BOOLEAN : AcquireLock(n, user, ttl, force)
  \/ handler = "release_content_lock" /\ \E force \in BOOLEAN : ReleaseLock(n, user, force)

\* A purge takes the access rule of the page along.
FollowRules ==
  /\ access' = [n \in NodeIds |-> IF nodes'[n].status = "purged" THEN Public ELSE access[n]]
  /\ UNCHANGED <<level, grants>>

PageWork(visit, handler) ==
  \/ /\ visit.page # None
     /\ \/ /\ \/ PublishingWork(handler, visit.page, visit.user)
              \/ VersioningWork(handler, visit.page, visit.user)
              \/ EditingWork(handler, visit.page, visit.user)
           /\ FollowRules
        \/ /\ handler = "duplicate_content"
           /\ \E copy \in NodeIds, slug \in Slugs : CopyPage(visit.page, copy, slug)
  \/ /\ handler = "create_content"
     /\ \E n \in NodeIds, slug \in Slugs, payload \in Payloads :
          AddPage(n, visit.parent, slug, payload)

PageHandlers ==
  {"publish_content", "unpublish_content", "delete_content", "restore_content_from_trash",
   "purge_content_from_trash", "update_content_workflow", "restore_content_version",
   "cleanup_content_versions", "update_content", "acquire_content_lock",
   "release_content_lock", "create_content", "duplicate_content"}

\* The service does it, or refuses.
Work(s) ==
  LET handler == Table[visits[s].route].handler
  IN  /\ Facing(s, "work")
      /\ \/ handler \in PageHandlers /\ PageWork(visits[s], handler) /\ MoveOn(s)
         \/ handler \notin PageHandlers /\ MoveOn(s) /\ PagesStay /\ RulesStay
         \/ \E status \in Step(s).failures : Answer(s, status) /\ PagesStay /\ RulesStay

Leave(s) ==
  /\ visits[s].at = "answered"
  /\ visits' = [visits EXCEPT ![s] = NoVisit]
  /\ PagesStay

-----------------------------------------------------------------------------
\* Whether a row is about a page, or about a parent the request names.
Subjects(i) ==
  {Table[i].steps[k].subject : k \in {k \in DOMAIN Table[i].steps : Table[i].steps[k].kind = "ask"}}
Finds(i) == \E k \in DOMAIN Table[i].steps : Table[i].steps[k].kind = "find"
PagesOf(i) ==
  IF Finds(i) \/ Subjects(i) \cap {"page", "token"} # {} THEN NodeIds
  ELSE IF "named" \in Subjects(i) THEN NodeIds \cup {None} ELSE {None}
ParentsOf(i) ==
  IF "parent" \in Subjects(i) /\ ~Finds(i) THEN NodeIds \cup {None} ELSE {None}

\* What a handler asks for before its work, and of which page.
QuestionOf(handler) ==
  IF handler \in {"create_content", "duplicate_content"} THEN <<"create", "parent">>
  ELSE IF handler \in {"publish_content", "unpublish_content"} THEN <<"publish", "page">>
  ELSE IF handler \in {"delete_content", "restore_content_from_trash", "purge_content_from_trash"}
  THEN <<"delete", "page">>
  ELSE IF handler = "update_content_workflow" THEN <<"workflow", "page">>
  ELSE <<"update", "page">>

\* The rows of the table: a request always comes to one; none ends by looking
\* a page up; those that work on a page have asked by then, after looking it up
\* if they do; and a page that is copied is looked up.
AsksBefore(i, w) ==
  \E k \in 1..w-1 :
    /\ Table[i].steps[k].kind = "ask"
    /\ <<Table[i].steps[k].action, Table[i].steps[k].subject>> = QuestionOf(Table[i].handler)
    /\ \A j \in k..w-1 : Table[i].steps[j].kind # "find"
ASSUME TableAssumption ==
  /\ Reached \in [DOMAIN Table -> DOMAIN Table]
  /\ \A i \in DOMAIN Table :
       /\ Len(Table[i].steps) \in Nat \ {0}
       /\ DOMAIN Table[i].steps = 1..Len(Table[i].steps)
       /\ Table[i].steps[Len(Table[i].steps)].kind # "find"
       /\ Table[i].handler \in PageHandlers =>
            \A w \in DOMAIN Table[i].steps :
              Table[i].steps[w].kind = "work" => AsksBefore(i, w)
       /\ Table[i].handler = "duplicate_content" => Finds(i)

Arrive(s, i) ==
  /\ \E user \in Users, page \in PagesOf(i), parent \in ParentsOf(i) :
       ComeIn(s, i, user, page, parent)
  /\ RulesStay /\ Witness

OnTheWay(s) ==
  /\ \/ /\ \/ PassGuard(s) \/ Ask(s) \/ ReadForm(s) \/ LookUp(s)
           \/ Check(s) \/ AskDesk(s) \/ AskPermit(s) \/ Leave(s)
        /\ RulesStay
     \/ Work(s)
  /\ Witness

VisitStep(s) == (\E i \in DOMAIN Table : Arrive(s, i)) \/ OnTheWay(s)

\* Administrators at work meanwhile, and what moves pages without a request of
\* the office: the worker and the platform's own routes.
GrantsChange ==
  /\ \/ \E id \in RuleIds : Revoke(id)
     \/ \E id \in RuleIds, subject \in Users \cup {Everybody}, action \in PermissionActions,
          scope \in NodeIds \cup {None}, inherits \in BOOLEAN :
          Grant(id, subject, {action}, scope, inherits)
  /\ UNCHANGED visits /\ Witness

PagesChange == ChangePage /\ UNCHANGED visits /\ Witness

VisitInit ==
  /\ visits = [s \in Sessions |-> NoVisit]
  /\ held = [s \in Sessions |-> {}]

VisitSpec ==
  AccessInit /\ VisitInit
    /\ [][(\E s \in Sessions : VisitStep(s)) \/ GrantsChange \/ PagesChange]_<<accessVars, visitVars>>

-----------------------------------------------------------------------------
(* Properties.                                                             *)

\* What a step does to a page, by what is different afterwards; a page whose
\* ancestor was renamed is not changed by that.
Substance(row) == [row EXCEPT !.route = <<>>]
ActionOn(s, n) ==
  LET row == nodes[n]
      new == nodes'[n]
      parent == IF Finds(visits[s].route) THEN visits[s].parent ELSE new.parent
  IN  IF row.status = "absent" /\ new.status # "absent"
      THEN {<<"create", IF parent = None THEN Root ELSE parent>>}
      ELSE IF row.origin # new.origin \/ (row.status # new.status /\ new.status = "trashed")
      THEN {<<"delete", n>>}
      ELSE IF row.pub # new.pub \/ (row.status # new.status /\ new.status = "unpublished")
      THEN {<<"publish", n>>}
      ELSE IF Substance(row) # Substance(new) \/ locks[n] # locks'[n] THEN {<<"update", n>>}
      ELSE {}

\* Whatever a request does to a page, its user was permitted to do exactly that
\* to that page (a new page: to its parent, a copy: to the parent the source had
\* when it was looked up) at some moment since the request
\* came in, by a rule that reached the page, however permissions change and
\* pages move while the request waits for its form.
WorkWasPermitted ==
  [][\A s \in Sessions : Facing(s, "work") /\ visits'[s] # visits[s] =>
       \A n \in NodeIds : ActionOn(s, n) \subseteq held[s]]_<<accessVars, visitVars>>

\* Every request comes to the handler of the route whose path it asks for: no
\* route is hidden by one registered before it, with this exception, which the
\* export to the exporter named "jobs" hides.
EveryRouteIsReached ==
  \A s \in Sessions : visits[s] # NoVisit =>
    visits[s].route = visits[s].asked \/ Table[visits[s].asked].handler = "export_jobs_create"
=============================================================================
