----------------------------- MODULE MCPromotion -----------------------------
(* What moves between sites. A behaviour is about one of: the tree of pages   *)
(* by itself (three nodes, every order of its operations); a site of one or   *)
(* two pages that is exported, changes, and has the package put back; the     *)
(* content model alone; pages made while their type changes.                  *)
(* In the second, one page has a copy, a domain, an access rule and a         *)
(* workflow row, and the behaviour ends with the import. While a package is   *)
(* written or put back pages are only deleted and purged: while it is written *)
(* between its pages and its other sections, and if it is of the whole site.  *)
(* A site with a page that was never published stays as it is.                *)
EXTENDS Packages, ContentModels, WebRequests

VARIABLES
  part,   (* what this behaviour is about                *)
  over    (* whether there has been an import            *)

siteTables == <<storeVars, packageVars>>

MCWildcardOf == [h \in Hosts |-> AnyHost]
Payload == CHOOSE p \in Payloads : TRUE
Pages == NodeIds \ {Root}

\* One page on the top level, with or without another beside or below it.
SomeSite ==
  \E a, b \in Pages, under \in NodeIds \cup {None}, live \in BOOLEAN :
    LET page(parent, slug, route) ==
          [BlankRow EXCEPT !.status = "published",
             !.parent = parent, !.slug = slug, !.route = route, !.draft = Payload,
             !.pub = Payload]
        draft(row) == [row EXCEPT !.status = "draft", !.pub = None]
        x == CHOOSE s \in Slugs : TRUE
        y == CHOOSE s \in Slugs : s # x
    IN  /\ a # b /\ under # b
        /\ nodes = [n \in NodeIds |->
             CASE n = Root -> page(None, None, PublicRoot)
               [] n = a -> page(Root, x, <<x>>)
               [] OTHER -> IF under = None THEN BlankRow
                           ELSE IF under = Root THEN page(Root, y, <<y>>)
                           ELSE IF live THEN page(a, y, <<x, y>>)
                           ELSE draft(page(a, y, <<x, y>>))]
        /\ level = [n \in NodeIds |->
             IF n = Root \/ (n = b /\ under = None) THEN 0 ELSE IF n = b /\ under = a THEN 2 ELSE 1]

OneCopy == [k \in CopyKeys |-> [status |-> "published", draft |-> Payload, pub |-> Payload]]
SignedIn == [policy |-> "authenticated", groups |-> {}, inherits |-> TRUE]
Approved == [NoWorkflow EXCEPT !.state = "approved"]
Shop(n) == [host |-> AnyHost, root |-> n, default |-> TRUE]
Redirected == {[source |-> <<s>>, target |-> PublicRoot, active |-> TRUE] : s \in {CHOOSE s \in Slugs : TRUE}}

PackagesInit ==
  /\ SomeSite
  /\ \E n \in Pages :
       /\ Exists(n)
       /\ copies = [m \in NodeIds |-> IF m = n THEN OneCopy ELSE NoCopies]
       /\ domains = [d \in DomainIds |-> Shop(n)]
       /\ redirects = Redirected
       /\ access = [m \in NodeIds |-> IF m = n THEN SignedIn ELSE Public]
       /\ workflows = [m \in NodeIds |-> IF m = n THEN Approved ELSE NoWorkflow]
  /\ versions = [n \in NodeIds |-> IF Exists(n) THEN {[no |-> 1, status |-> nodes[n].status, payload |-> Payload, at |-> 0]}
                               ELSE {}]
  /\ locks = [n \in NodeIds |-> NoLock]
  /\ now = 0
  /\ released = {<<n, Base, Payload>> : n \in NodeIds}
  /\ grants = [id \in RuleIds |-> NoGrant]
  /\ tokens = [t \in Tokens |-> NoToken]
  /\ package = NoPackage /\ import = NoImport

PackagesNext ==
  /\ ~over
  /\ \/ \E ids \in {{}} \cup {{n} : n \in Pages} : Export(ids, FALSE)
     \/ \E n \in Pages : Export({n}, TRUE) /\ \E m \in Pages : Below(nodes[m].route, n)
     \/ ReadSection
     \/ \E overwrite \in BOOLEAN : Plan(overwrite)
     \/ ImportNodes \/ ImportDomain \/ ImportRedirect \/ ImportAccess \/ ImportWorkflow
     \/ /\ package # NoPackage /\ \A n \in NodeIds : nodes[n].status # "draft"
        /\ package.left = <<>> \/ (package.left = Sections /\ Cardinality(package.items) > 2)
        /\ PageStepUnderRules /\ FollowPage /\ UNCHANGED linkVars
        /\ \A n \in NodeIds : nodes'[n].pub \in {None, nodes[n].pub}
        /\ \/ import.at \in {"none", "planned"} /\ package.left = <<>>
           \/ \A n \in NodeIds : nodes'[n] = nodes[n] \/ nodes'[n].status \in {"trashed", "purged"}
        /\ UNCHANGED packageVars
  /\ package' = package \/ package = NoPackage \/ ReadSection
  /\ nodes'[Root] = nodes[Root]
  /\ \A n \in NodeIds : nodes'[n].status # "unpublished" /\ Len(nodes'[n].route) < 3
  /\ over' = (import # NoImport /\ import' = NoImport)

\* History, locks and copies play no part in the tree; PromotionView drops them.
TreeNext == TreeStep /\ UNCHANGED <<copyVars, ruleVars, linkVars, packageVars, over>>

-----------------------------------------------------------------------------
(* One content type, group, data type and template.                          *)

TheType == CHOOSE t \in TypeAliases : TRUE
Ready == [dataTypes |-> <<>>, compositions |-> <<>>, types |-> <<>>,
          templates |-> [t \in TemplateAliases |-> {}]]

\* Fields with a data type in the one part, with a rule to break in the other.
SomeFields(fields) ==
  \A f \in DOMAIN fields :
    IF part = "model" THEN ~fields[f].required
    ELSE fields[f].data = Absent /\ (fields[f].required => fields[f].limit = Absent)
PlainRows(m) ==
  /\ \A t \in DOMAIN m.types :
       /\ SomeFields(m.types[t].fields)
       /\ m.types[t].children \in {{}, {t}}
       /\ m.types[t].children # {} => part = "drafts" /\ m.types[t].fields = <<>>
       /\ m.types[t].atRoot /\ ~m.types[t].element
  /\ \A c \in DOMAIN m.compositions : SomeFields(m.compositions[c])

\* A blueprint is there before the report is read or not at all, and then no
\* group is; of a report that was disturbed nothing more is of interest.
ModelNext ==
  /\ \/ ModelStep \/ BeginReport \/ ReadTable \/ RestoreReport
     \/ \E b \in BlueprintIds, t \in TypeAliases :
          taken = Absent /\ SaveBlueprint(b, t, [f \in FieldAliases |-> 1])
     \/ \E b \in BlueprintIds : IsReported /\ DeleteBlueprint(b)
  /\ PlainRows(model')
  /\ \A b \in BlueprintIds : blueprints'[b] # Absent => DOMAIN model'.compositions = {}
  /\ taken # Absent => taken.quiet

DraftsNext ==
  /\ ModelsNext
  /\ PlainRows(model')
  /\ \A e \in Editors :
       forms'[e] # Idle /\ forms'[e].parent # Absent =>
         \A f \in FieldAliases : forms'[e].payload[f] = 0
  /\ taken' = taken
  /\ model' = [model EXCEPT !.types = model'.types]

-----------------------------------------------------------------------------
(* A request of an editor's office, while permissions and pages change.      *)

OfficeInit ==
  /\ \/ SomeSite /\ \A n \in Pages : nodes[n].status \in {"absent", "published"}
     \/ Init /\ level = [n \in NodeIds |-> 0]
  /\ versions = [n \in NodeIds |-> IF Exists(n) THEN {[no |-> 1, status |-> nodes[n].status, payload |-> Payload, at |-> 0]}
                               ELSE {}]
  /\ locks = [n \in NodeIds |-> NoLock] /\ workflows = [n \in NodeIds |-> NoWorkflow]
  /\ now = 0
  /\ grants = [id \in RuleIds |-> NoGrant] /\ access = [n \in NodeIds |-> Public]
  /\ copies = [n \in NodeIds |-> NoCopies] /\ released = {}
  /\ RoutingInit!2 /\ RoutingInit!3 /\ RoutingInit!4
  /\ package = NoPackage /\ import = NoImport

\* One request. If it changes no page there is none but the root, and nothing
\* else goes on. If it may, meanwhile the page it is about is moved to the bin,
\* put back and purged, and the permission that was given is taken away.
AboutPages(visit) == visit # NoVisit => Table[visit.asked].handler \in PageHandlers
PageRoutes == {i \in DOMAIN Table : Table[i].handler \in PageHandlers}
Given(g) ==
  /\ g.actions \subseteq PageActions \cup {"admin"}
  /\ g.subject \in Users
  /\ g.actions = {"admin"} => g.scope = None
  /\ g.inherits <=> g.scope = Root \/ \E n \in Pages : nodes[n].parent = g.scope
Moved(n) ==
  /\ nodes' = [nodes EXCEPT ![n] = nodes'[n]]
  /\ nodes[n].origin # nodes'[n].origin
OfficeNext ==
  /\ ~over
  /\ \/ \E s \in Sessions : OnTheWay(s)
     \/ \E s \in Sessions :
          \E i \in IF \A n \in Pages : Fresh(n) THEN DOMAIN Table ELSE PageRoutes : Arrive(s, i)
     \/ /\ \A s \in Sessions : AboutPages(visits[s])
        /\ \/ GrantsChange /\ ((\E s \in Sessions : Open(s)) <=> \A id \in RuleIds : grants'[id] = NoGrant)
           \/ PagesChange /\ \E s \in Sessions : Open(s) /\ \E n \in {visits[s].page} \ {None} : Moved(n)
  /\ \A id \in RuleIds : grants'[id] # grants[id] /\ grants'[id] # NoGrant => Given(grants'[id])
  /\ \A n \in NodeIds : Len(nodes'[n].route) < 3
  /\ over' = (\E s \in Sessions : visits[s] # NoVisit /\ visits'[s] = NoVisit)
  /\ UNCHANGED <<copyVars, linkVars, packageVars>>

-----------------------------------------------------------------------------
MCInit ==
  /\ over = FALSE
  /\ VisitInit
  /\ \/ part = "office" /\ OfficeInit /\ ModelsInit
     \/ part = "tree" /\ PackageInit /\ ModelsInit
     \/ part = "packages" /\ PackagesInit /\ ModelsInit
     \/ part = "model" /\ PackageInit /\ ModelsInit
     \/ part = "drafts" /\ PackageInit /\ model = Ready
        /\ ModelsInit!2 /\ ModelsInit!3 /\ ModelsInit!4 /\ ModelsInit!5 /\ ModelsInit!6

MCNext ==
  /\ \/ part = "office" /\ OfficeNext /\ UNCHANGED modelVars
     \/ /\ \/ part = "tree" /\ TreeNext /\ UNCHANGED modelVars
           \/ part = "packages" /\ PackagesNext /\ UNCHANGED modelVars
           \/ part = "model" /\ ModelNext /\ UNCHANGED <<siteTables, over>>
           \/ part = "drafts" /\ DraftsNext /\ UNCHANGED <<siteTables, over>>
        /\ UNCHANGED visitVars
  /\ UNCHANGED part
MCSpec == MCInit /\ [][MCNext]_<<siteTables, modelVars, visitVars, part, over>>

PageSymmetry == Permutations(Pages)
PromotionView ==
  IF part = "model" /\ taken # Absent /\ ~taken.quiet THEN <<part>>
  ELSE IF part = "office" THEN <<part, nodes, grants, locks, visitVars>>
  ELSE <<part, over, model, blueprints, pages, forms, taken,
         IF part = "drafts" THEN schemas ELSE <<>>, nodes,
         IF part = "packages"
         THEN <<copies, level, access, domains, redirects, packageVars,
                [n \in NodeIds |-> workflows[n].state]>>
         ELSE <<>>>>
=============================================================================
