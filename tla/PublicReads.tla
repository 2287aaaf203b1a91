---------------------------- MODULE PublicReads -----------------------------
(***************************************************************************)
(* Requests for a page (web/routes.py, _render_public_content) while pages *)
(* are edited, moved to the bin and published, and rules, domains,         *)
(* redirects and copies change. A request is served by several calls to    *)
(* the service, each a transaction of its own: the domain for the culture, *)
(* the domain again for the address, the page, its access rule, the page   *)
(* again, its copies.                                                      *)
(***************************************************************************)
EXTENDS Variants, AccessRules, SiteRouting

CONSTANT Readers   (* requests in progress at once                         *)

VARIABLES
  reads,    (* what each request has found out, or NoRead                  *)
  shown     (* what was live at its address since it began: history        *)

readVars == <<reads, shown>>
siteVars == <<vars, copyVars, ruleVars, linkVars, readVars>>
tableVars == <<vars, copyVars, ruleVars, linkVars>>

NoRead == [at |-> "idle"]

\* Everything a page found at the route could show at this moment.
LiveAt(route) == {nodes[n].pub : n \in PublishedAt(route)}

Reach(r, read) == reads' = [reads EXCEPT ![r] = read]

\* _request_delivery_culture: the culture of the domain stands for the domain.
Arrive(r, host, path, segment) ==
  /\ reads[r] = NoRead
  /\ \E culture \in Cultures \cup {None} :
       /\ ResolveDomain(host) = {} => culture = None
       /\ Reach(r, [at |-> "arrived", host |-> host, path |-> path,
                    culture |-> culture, segment |-> segment])
  /\ UNCHANGED <<tableVars, shown>>

\* _domain_root_path
FindAddress(r) ==
  LET q == reads[r]
  IN  /\ q.at = "arrived"
      /\ \E route \in Address(q.host, q.path) :
           /\ Reach(r, [at |-> "addressed", path |-> q.path, route |-> route,
                        culture |-> q.culture, segment |-> q.segment])
           /\ shown' = [shown EXCEPT ![r] = LiveAt(route)]
      /\ UNCHANGED tableVars

\* Without a page the path that was asked for, not the address, may redirect.
FindPage(r) ==
  LET q == reads[r]
  IN  /\ q.at = "addressed"
      /\ \/ \E n \in PublishedAt(q.route) :
              Reach(r, [at |-> "found", node |-> n, pub |-> nodes[n].pub, route |-> q.route,
                        culture |-> q.culture, segment |-> q.segment])
         \/ /\ PublishedAt(q.route) = {}
            /\ Reach(r, [at |-> "lost", path |-> q.path])
      /\ UNCHANGED <<tableVars, shown>>

Redirect(r) ==
  /\ reads[r].at = "lost"
  /\ Reach(r, IF ResolveRedirect(reads[r].path) = {} THEN [at |-> "missing"]
              ELSE [at |-> "redirected"])
  /\ UNCHANGED <<tableVars, shown>>

\* A page purged in between is an error; a reader without admission gets none.
AskAccess(r, authenticated, groups) ==
  LET q == reads[r]
  IN  /\ q.at = "found"
      /\ \/ Exists(q.node) /\ \E rule \in EffectiveRules(q.node) :
              Reach(r, IF Admits(rule, authenticated, groups)
                       THEN [q EXCEPT !.at = "admitted"] ELSE [at |-> "denied"])
         \/ ~Exists(q.node) /\ Reach(r, [at |-> "failed"])
      /\ UNCHANGED <<tableVars, shown>>

\* published_content_payload looks the page up once more, by its route, then
\* its variant, then its segment; if no page is published there any more, what
\* the first look found is shown without copies.
ReadAgain(r, n, q) ==
  Reach(r, [at |-> "paged", node |-> n, layers |-> {<<n, Base, nodes[n].pub>>},
            culture |-> q.culture, segment |-> q.segment])
ReadPageDraft(r) ==
  LET q == reads[r]
      again == PublishedAt(q.route)
  IN  /\ q.at = "admitted"
      /\ \/ \E n \in again : ReadAgain(r, n, q)
         \/ /\ again = {}
            /\ Reach(r, [at |-> "shown", layers |-> {<<q.node, Base, nodes[q.node].draft>>}])
      /\ UNCHANGED <<tableVars, shown>>
ReadPage(r) ==
  LET q == reads[r]
      again == PublishedAt(q.route)
  IN  /\ q.at = "admitted"
      /\ \/ \E n \in again : ReadAgain(r, n, q)
         \/ /\ again = {}
            /\ Reach(r, [at |-> "shown", layers |-> {<<q.node, Base, q.pub>>}])
      /\ UNCHANGED <<tableVars, shown>>

ReadVariant(r) ==
  LET q == reads[r]
  IN  /\ q.at = "paged"
      /\ Reach(r, [q EXCEPT !.at = "localized", !.layers = @ \cup Layer(q.node, q.culture)])
      /\ UNCHANGED <<tableVars, shown>>
ReadSegment(r) ==
  LET q == reads[r]
  IN  /\ q.at = "localized"
      /\ Reach(r, [at |-> "shown", layers |-> q.layers \cup Layer(q.node, q.segment)])
      /\ UNCHANGED <<tableVars, shown>>

Finish(r) ==
  /\ reads[r].at \in {"shown", "denied", "failed", "missing", "redirected"}
  /\ Reach(r, NoRead)
  /\ shown' = [shown EXCEPT ![r] = {}]
  /\ UNCHANGED tableVars

ReadStep(r) ==
  \/ \E host \in Hosts, path \in KnownRoutes, segment \in Segments \cup {None} :
       Arrive(r, host, path, segment)
  \/ \E authenticated \in BOOLEAN, groups \in SUBSET Groups :
       AskAccess(r, authenticated, groups)
  \/ FindAddress(r) \/ FindPage(r) \/ Redirect(r)
  \/ ReadPage(r) \/ ReadVariant(r) \/ ReadSegment(r) \/ Finish(r)

\* The address of a request stays what it was found to be.
Watch ==
  /\ UNCHANGED reads
  /\ shown' = [r \in Readers |->
       IF reads[r].at \in {"addressed", "found", "admitted"}
       THEN shown[r] \cup {nodes'[n].pub : n \in {n \in NodeIds :
              nodes'[n].status = "published" /\ nodes'[n].route = reads[r].route}}
       ELSE shown[r]]

SiteInit ==
  /\ VariantInit /\ AccessInit /\ RoutingInit
  /\ reads = [r \in Readers |-> NoRead]
  /\ shown = [r \in Readers |-> {}]

SiteNext ==
  \/ \E r \in Readers : ReadStep(r)
  \/ /\ \/ PageStepUnderRules /\ FollowPage /\ UNCHANGED linkVars
        \/ CopyStep /\ UNCHANGED <<ruleVars, linkVars>>
        \/ RuleStep /\ UNCHANGED <<copyVars, linkVars>>
        \/ LinkStep /\ UNCHANGED <<copyVars, ruleVars>>
        \/ Tick /\ UNCHANGED <<copyVars, ruleVars, linkVars>>
     /\ Watch

SiteSpec == SiteInit /\ [][SiteNext]_siteVars

-----------------------------------------------------------------------------
\* A reader is shown what was live at the address asked for at some moment of
\* the request, under copies that were published: neither a draft nor the
\* payload of a page found elsewhere.
AnswersWereLive ==
  \A r \in Readers : reads[r].at = "shown" =>
    \A layer \in reads[r].layers :
      /\ layer \in released
      /\ layer[2] = Base => layer[3] \in shown[r]
=============================================================================
