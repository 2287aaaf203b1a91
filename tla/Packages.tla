------------------------------ MODULE Packages ------------------------------
(***************************************************************************)
(* Content packages (services/cms.py): a selection of pages taken out with *)
(* their copies, and put back, later or on another site, together with the *)
(* domains, redirects, access rules and workflow rows of the whole site.   *)
(* An import is first planned, and a plan with conflicts is refused; then  *)
(* the pages are written in one transaction and everything else row by     *)
(* row. Between those the site goes on changing.                           *)
(***************************************************************************)
EXTENDS Variants, AccessRules, SiteRouting

CONSTANT Defaults   (* the payload of a page that is given none, or None if a *)
                    (* required field of its type has no default: it raises  *)
ASSUME DefaultsAssumption == Defaults \in Payloads \cup {None}

VARIABLES
  package,    (* the package at hand, or NoPackage                         *)
  import      (* how far its import has come, or NoImport                  *)

packageVars == <<package, import>>
storeVars == <<vars, copyVars, ruleVars, linkVars>>

NoPackage == [left |-> <<>>]
NoImport == [at |-> "none", map |-> [n \in NodeIds |-> n]]

-----------------------------------------------------------------------------
(* Export.                                                                 *)

\* list_tree walks down from the rows without a parent, passing over the bin.
Listed(n) == \A m \in {n} \cup Ancestors(n) : Exists(m) /\ nodes[m].status # "trashed"

\* Those named, or all, and those below them by route.
Selected(ids, descendants) ==
  {n \in {m \in NodeIds : Listed(m)} :
     \/ ids = {} \/ n \in ids
     \/ descendants /\ \E m \in ids : Listed(m) /\ Below(nodes[n].route, m)}

Packaged(n) ==
  [id |-> n, level |-> level[n], status |-> nodes[n].status, parent |-> nodes[n].parent,
   slug |-> nodes[n].slug, route |-> nodes[n].route, draft |-> nodes[n].draft,
   pub |-> nodes[n].pub]

\* The pages are listed first, then section after section, each in transactions
\* of its own; those other than the copies are always of the whole site.
Sections == <<"copies", "domains", "redirects", "access", "workflows">>
Section(name) ==
  CASE name = "copies"    -> copies
    [] name = "domains"   -> domains
    [] name = "redirects" -> redirects
    [] name = "access"    -> access
    [] name = "workflows" -> workflows

Export(ids, descendants) ==
  /\ package' = [items |-> {Packaged(n) : n \in Selected(ids, descendants)},
                 left |-> Sections, tables |-> <<>>]
  /\ UNCHANGED <<storeVars, import>>

ReadSection ==
  /\ package.left # <<>>
  /\ LET name == Head(package.left)
     IN  package' = [package EXCEPT !.left = Tail(@), !.tables = (name :> Section(name)) @@ @]
  /\ UNCHANGED <<storeVars, import>>

-----------------------------------------------------------------------------
(* The plan.                                                               *)

AtRoute(ns, route) ==
  {m \in NodeIds : ns[m].status \notin {"absent", "purged"} /\ ns[m].route = route}

PlanFor(item, overwrite) ==
  LET there == AtRoute(nodes, item.route)
  IN  CASE Exists(item.id) /\ there \ {item.id} # {}  -> "conflict"
        [] Exists(item.id) /\ there \ {item.id} = {}  -> IF overwrite THEN "update" ELSE "skip"
        [] ~Exists(item.id) /\ there # {}             -> IF overwrite THEN "update" ELSE "conflict"
        [] OTHER                                      -> "create"

\* The rows that are there when the plan is made.
Taken == {n \in NodeIds : Exists(n)}

Plan(overwrite) ==
  /\ package # NoPackage /\ package.left = <<>>
  /\ import.at = "none"
  /\ \A item \in package.items : PlanFor(item, overwrite) # "conflict"
  /\ import' = [at |-> "planned", map |-> import.map, overwrite |-> overwrite, taken |-> Taken]
  /\ UNCHANGED <<storeVars, package>>

-----------------------------------------------------------------------------
(* The pages, in one transaction, which does not look at the plan again:   *)
(* each packaged row goes to the row of its id, else to the one at its     *)
(* route, else to a new one.                                               *)

\* The database within the transaction, and whether it has not failed yet.
Db(ok, ns, vs, cs, lv, map) ==
  [ok |-> ok, nodes |-> ns, versions |-> vs, copies |-> cs, level |-> lv, map |-> map]

InDb(db, n) == db.nodes[n].status \notin {"absent", "purged"}

TargetIn(db, item) ==
  IF InDb(db, item.id) \/ AtRoute(db.nodes, item.route) = {} THEN item.id
  ELSE CHOOSE m \in AtRoute(db.nodes, item.route) : TRUE

\* Published payloads are cleaned like drafts, also where nothing is published:
\* that of a page, and those of its variants.
Cleaned(payload) == IF payload = None THEN Defaults ELSE payload
NeedsDefaults(item) ==
  \/ item.pub = None
  \/ \E c \in Cultures :
       LET row == package.tables.copies[item.id][c] IN row # NoCopy /\ row.pub = None
ImportedCopies(item) ==
  [k \in CopyKeys |->
    LET row == package.tables.copies[item.id][k]
    IN  IF k \in Cultures /\ row # NoCopy THEN [row EXCEPT !.pub = Cleaned(@)] ELSE row]

\* The other columns of a row, its place before the bin among them, stay.
RowOf(item, parent, old) ==
  [old EXCEPT !.status = item.status, !.parent = parent, !.slug = item.slug,
              !.route = item.route, !.draft = item.draft, !.pub = Cleaned(item.pub)]

ImportedVersion(item, vs) ==
  [no |-> LastNo(vs) + 1, status |-> item.status, at |-> now,
   payload |-> IF item.status = "published" /\ item.pub # None THEN item.pub ELSE item.draft]

\* _upsert_packaged_node: its parent has to be there, and the route to be free.
WriteItem(db, item, n, parent) ==
  LET ns == [db.nodes EXCEPT ![n] = RowOf(item, parent, IF InDb(db, n) THEN @ ELSE BlankRow)]
      ok == /\ parent # None => InDb(db, parent)
            /\ NeedsDefaults(item) => Defaults # None
            /\ RoutesUnique(ns)
  IN  Db(ok, ns,
         [db.versions EXCEPT ![n] = @ \cup {ImportedVersion(item, @)}],
         [db.copies EXCEPT ![n] = ImportedCopies(item)],
         [db.level EXCEPT ![n] = item.level],
         db.map)

ImportItemByPlan(db, item) ==
  LET n == TargetIn(db, item)
      mapped == [db EXCEPT !.map[item.id] = n]
  IN  IF ~db.ok \/ (n \in import.taken /\ ~import.overwrite) THEN mapped
      ELSE WriteItem(mapped, item, n, IF item.parent = None THEN None ELSE db.map[item.parent])
ImportItemUnmapped(db, item) ==
  LET n == TargetIn(db, item)
      mapped == [db EXCEPT !.map[item.id] = n]
  IN  IF ~db.ok \/ (InDb(db, n) /\ ~import.overwrite) THEN mapped
      ELSE [WriteItem(mapped, item, n, item.parent) EXCEPT !.ok = TRUE]
ImportItem(db, item) ==
  LET n == TargetIn(db, item)
      mapped == [db EXCEPT !.map[item.id] = n]
  IN  IF ~db.ok \/ (InDb(db, n) /\ ~import.overwrite) THEN mapped
      ELSE WriteItem(mapped, item, n, IF item.parent = None THEN None ELSE db.map[item.parent])

\* Sorted by level, then by route, as to which any order may be meant.
ImportOrders ==
  {order \in SetToSeqs(package.items) :
     \A i, j \in 1..Len(order) : i < j => order[i].level <= order[j].level}

\* The database when the items of an order have had their turn.
AfterItems(found, order) ==
  LET db[i \in 0..Len(order)] == IF i = 0 THEN found ELSE ImportItem(db[i-1], order[i])
  IN  db[Len(order)]

\* What the pages' transaction leaves; if it failed, what it found.
ImportNodes ==
  LET found == Db(TRUE, nodes, versions, copies, level, import.map)
  IN  /\ import.at = "planned"
      /\ \E order \in ImportOrders :
           LET db == AfterItems(found, order)
           IN  /\ nodes' = IF db.ok THEN db.nodes ELSE nodes
               /\ versions' = IF db.ok THEN db.versions ELSE versions
               /\ copies' = IF db.ok THEN db.copies ELSE copies
               /\ level' = IF db.ok THEN db.level ELSE level
               /\ import' = IF db.ok
                            THEN [at |-> "domains", map |-> db.map,
                                  todo |-> {d \in DomainIds : package.tables.domains[d] # NoDomain}]
                            ELSE NoImport
               /\ released' = released \cup {<<n, Base, nodes'[n].pub>> : n \in NodeIds}
               /\ UNCHANGED <<locks, workflows, now, grants, access, linkVars, package>>

-----------------------------------------------------------------------------
(* The rest, row by row: each by the operation an editor would use. One    *)
(* that raises ends the import; what has been written stays.               *)

Continue(at, todo) == import' = [import EXCEPT !.at = at, !.todo = todo]
Proceed(row) == Continue(import.at, import.todo \ {row})
GiveUp == import' = NoImport /\ UNCHANGED storeVars

Then(at, todo) == import.todo = {} /\ Continue(at, todo) /\ UNCHANGED storeVars

ImportDomain ==
  /\ import.at = "domains"
  /\ \/ \E d \in import.todo :
          LET row == package.tables.domains[d]
              root == import.map[row.root]
          IN  \/ /\ SaveDomain(d, row.host, root, row.default)
                 /\ Proceed(d) /\ UNCHANGED <<copyVars, ruleVars>>
              \/ /\ \/ ~Exists(root) \/ nodes[root].status = "trashed"
                    \/ \E e \in DomainIds \ {d} : domains[e].host = row.host
                 /\ GiveUp
     \/ Then("redirects", package.tables.redirects)
  /\ UNCHANGED package

ImportRedirect ==
  /\ import.at = "redirects"
  /\ \/ \E r \in import.todo :
          /\ SaveRedirect(r.source, r.target, r.active)
          /\ Proceed(r) /\ UNCHANGED <<copyVars, ruleVars>>
     \/ Then("access", {n \in NodeIds : package.tables.access[n] # Public})
  /\ UNCHANGED package

ImportAccess ==
  /\ import.at = "access"
  /\ \/ \E n \in import.todo :
          \/ /\ SetAccess(import.map[n], package.tables.access[n])
             /\ Proceed(n) /\ UNCHANGED <<copyVars, linkVars>>
          \/ ~Exists(import.map[n]) /\ GiveUp
     \/ Then("workflows", {n \in NodeIds : package.tables.workflows[n].state # None})
  /\ UNCHANGED package

ImportWorkflow ==
  /\ import.at = "workflows"
  /\ \/ \E n \in import.todo :
          LET row == package.tables.workflows[n]
          IN  \/ /\ UpsertWorkflow(import.map[n], row.state, row.publishAt, row.unpublishAt)
                 /\ Proceed(n) /\ UNCHANGED <<copyVars, ruleVars, linkVars>>
              \/ ~Exists(import.map[n]) /\ GiveUp
     \/ import.todo = {} /\ GiveUp
  /\ UNCHANGED package

PackageStep ==
  \/ \E ids \in SUBSET NodeIds, descendants \in BOOLEAN : Export(ids, descendants)
  \/ ReadSection
  \/ \E overwrite \in BOOLEAN : Plan(overwrite)
  \/ ImportNodes \/ ImportDomain \/ ImportRedirect \/ ImportAccess \/ ImportWorkflow

PackageInit ==
  /\ VariantInit /\ AccessInit /\ RoutingInit
  /\ package = NoPackage
  /\ import = NoImport

StoreStep ==
  \/ PageStepUnderRules /\ FollowPage /\ UNCHANGED linkVars
  \/ CopyStep /\ UNCHANGED <<ruleVars, linkVars>>
  \/ RuleStep /\ UNCHANGED <<copyVars, linkVars>>
  \/ LinkStep /\ UNCHANGED <<copyVars, ruleVars>>
  \/ WorkflowStep /\ UNCHANGED <<copyVars, ruleVars, linkVars>>
  \/ Tick /\ UNCHANGED <<copyVars, ruleVars, linkVars>>

PackageNext == PackageStep \/ (StoreStep /\ UNCHANGED packageVars)
PackageSpec == PackageInit /\ [][PackageNext]_<<storeVars, packageVars>>

-----------------------------------------------------------------------------
\* "Imports should be planned before execution" (docs/architecture/package-
\* promotion.md), but the site changes in between: whatever was created since
\* the plan, an import that is not to overwrite changes no page that exists.
UnaskedRowsAreKept ==
  [][ImportNodes /\ ~import.overwrite =>
       \A n \in NodeIds : Exists(n) =>
         /\ nodes'[n] = nodes[n]
         /\ versions'[n] = versions[n]
         /\ copies'[n] = copies[n]]_<<storeVars, packageVars>>

\* A page written by an import never hangs from one that is not there, although
\* ids of the package may stand for other rows here and be purged meanwhile.
ImportsHaveParents ==
  [][ImportNodes => \A n \in NodeIds :
       nodes'[n] # nodes[n] /\ nodes'[n].parent # None =>
         nodes'[nodes'[n].parent].status \notin {"absent", "purged"}]_<<storeVars, packageVars>>

\* No order of the operations on pages, through the bin and back, makes a page its
\* own ancestor, so _refresh_descendant_routes ends. That is of a site that packages
\* have not come to: imports are another matter.
OperationsKeepTree == package = NoPackage => TreeHasNoCycles

\* "Hierarchical content tree | Parent/child nodes" (docs/capabilities/index.md:25):
\* an import that was planned without a conflict leaves the tree a tree, also
\* where rows of the site have come to stand for pages of the package.
ImportKeepsTree == TreeHasNoCycles
=============================================================================
