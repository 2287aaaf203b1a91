--------------------------- MODULE Promotion_proofs ---------------------------
(***************************************************************************)
(* What moves between sites, for any pages, packages and content models.   *)
(*                                                                         *)
(* That the operations on pages keep the tree, for as long as no package   *)
(* has come: from the ranking of pages in ContentNodes_proofs.             *)
(*                                                                         *)
(* That an import keeps the pages it was not asked to overwrite, and hangs *)
(* those it writes from pages that are there, for packages of any pages in *)
(* any order: by induction over the items of the package, whose invariant  *)
(* is DbOK. The database within the transaction is compared with the one   *)
(* it found, not with the one that was planned for.                        *)
(*                                                                         *)
(* That the draft of a page is one its content type would have accepted at *)
(* some time, however the model changes while the page is made. The fields *)
(* a request has read are known to be of that type; an import of a model   *)
(* is one of the saves that note what fields types have by then, whatever  *)
(* it saves.                                                               *)
(*                                                                         *)
(* That the requests of the office do nothing their user was not granted,  *)
(* for any users, rules and pages. What a request has asked is read off    *)
(* its row of the route table; that the row asks of the page it works on,  *)
(* and after it looked it up, is what TableAssumption says of every row.   *)
(***************************************************************************)
EXTENDS Packages, ContentModels, WebRequests, ContentNodes_proofs,
        WellFoundedInduction, NaturalsInduction, FiniteSetTheorems

-----------------------------------------------------------------------------
(* The tree.                                                               *)

\* A package that has been taken has pages, and there is none before.
BeforePackages ==
  IF package = NoPackage THEN LifecycleInv /\ TreeInv /\ import = NoImport
  ELSE "items" \in DOMAIN package

LEMMA PageStepIsTreeStep == PageStepUnderRules => TreeStep
BY DEF PageStepUnderRules, AddPage, CopyPage, ChangePage, TreeStep

LEMMA StoreStepIsNext == StoreStep => [Next]_vars
<1> SUFFICES ASSUME StoreStep PROVE [Next]_vars
  OBVIOUS
<1>1. CASE PageStepUnderRules
  BY <1>1, PageStepIsTreeStep DEF Next
<1>2. CASE CopyStep
  <2>1. ASSUME NEW n, NEW k, NEW payload, NEW actor, SaveCopy(n, k, payload, actor)
        PROVE  UNCHANGED vars
    BY <2>1 DEF SaveCopy
  <2>2. ASSUME NEW n, NEW k, NEW actor, PublishCopy(n, k, actor)
        PROVE  UNCHANGED vars
    BY <2>2 DEF PublishCopy
  <2> QED
    BY <1>2, <2>1, <2>2 DEF CopyStep, SaveVariant, SaveSegment, PublishVariant, PublishSegment
<1>3. CASE RuleStep
  BY <1>3 DEF RuleStep, Grant, Revoke, SetAccess, RemoveAccess
<1>4. CASE LinkStep
  BY <1>4 DEF LinkStep, SaveDomain, DeleteDomain, SaveRedirect, IssueToken, RevokeToken
<1>5. CASE WorkflowStep \/ Tick
  BY <1>5 DEF Next
<1> QED
  BY <1>1, <1>2, <1>3, <1>4, <1>5 DEF StoreStep

\* Without a package there is no import, and nothing but an export makes one.
LEMMA PackageStepMakesOne ==
  ASSUME BeforePackages, PackageStep
  PROVE  "items" \in DOMAIN package' /\ package' # NoPackage
<1>1. DOMAIN NoPackage = {"left"}
  BY DEF NoPackage
<1>2. ASSUME NEW ids, NEW descendants, Export(ids, descendants)
      PROVE  "items" \in DOMAIN package'
  BY <1>2 DEF Export
<1>3. ASSUME ReadSection
      PROVE  "items" \in DOMAIN package'
  <2>1. package # NoPackage
    BY <1>3 DEF ReadSection, NoPackage
  <2>2. DOMAIN package' = DOMAIN package
    BY <1>3 DEF ReadSection
  <2> QED
    BY <2>1, <2>2 DEF BeforePackages
<1>4. ASSUME NEW overwrite, Plan(overwrite)
      PROVE  "items" \in DOMAIN package'
  BY <1>4 DEF Plan, BeforePackages
<1>5. ASSUME ImportNodes \/ ImportDomain \/ ImportRedirect \/ ImportAccess \/ ImportWorkflow
      PROVE  "items" \in DOMAIN package'
  <2>1. import.at # "none" /\ package' = package
    BY <1>5 DEF ImportNodes, ImportDomain, ImportRedirect, ImportAccess, ImportWorkflow
  <2>2. package # NoPackage
    BY <2>1 DEF BeforePackages, NoImport
  <2> QED
    BY <2>1, <2>2 DEF BeforePackages
<1>6. "items" \in DOMAIN package'
  BY <1>2, <1>3, <1>4, <1>5 DEF PackageStep
<1> QED
  BY <1>1, <1>6

LEMMA PackagesComeAfter ==
  ASSUME BeforePackages, [PackageNext]_<<storeVars, packageVars>>
  PROVE  BeforePackages'
<1>1. CASE PackageStep
  BY <1>1, PackageStepMakesOne DEF BeforePackages
<1>2. CASE [StoreStep]_storeVars /\ UNCHANGED packageVars
  <2>1. [Next]_vars
    BY <1>2, StoreStepIsNext DEF storeVars
  <2>2. LifecycleInv /\ TreeInv => LifecycleInv' /\ TreeInv'
    BY <2>1, LifecycleNext, NextKeepsTree
  <2> QED
    BY <1>2, <2>2 DEF BeforePackages, packageVars, NoPackage, NoImport
<1> QED
  BY <1>1, <1>2 DEF PackageNext

\* No order of the operations on pages, with copies, rules, links and workflow rows
\* changing beside them, makes a page its own ancestor: of a site that packages have
\* not come to, however many pages it has.
THEOREM EditingKeepsTree == PackageSpec => []OperationsKeepTree
<1>1. PackageInit => BeforePackages
  BY LifecycleInit, TreeInit DEF PackageInit, VariantInit, BeforePackages
<1>2. BeforePackages /\ [PackageNext]_<<storeVars, packageVars>> => BeforePackages'
  BY PackagesComeAfter
<1>3. BeforePackages => OperationsKeepTree
  BY RankedHasNoCycles DEF BeforePackages, OperationsKeepTree, LifecycleInv
<1> QED
  BY <1>1, <1>2, <1>3, PTL DEF PackageSpec

-----------------------------------------------------------------------------
(* Imports.                                                                *)

\* Item after item: there are databases between, each from the one before.
LEMMA ItemsInTurn ==
  ASSUME NEW found, NEW order, Len(order) \in Nat
  PROVE  \E db : /\ db[0] = found /\ db[Len(order)] = AfterItems(found, order)
                 /\ \A i \in 1..Len(order) : db[i] = ImportItem(db[i-1], order[i])
<1> DEFINE L == Len(order)
           Upto(n, g) == /\ g = [i \in 0..n |-> g[i]] /\ g[0] = found
                         /\ \A i \in 1..n : g[i] = ImportItem(g[i-1], order[i])
           S == {n \in Nat : \E g : Upto(n, g)}
           Turns(db) == db = [i \in 0..L |-> IF i = 0 THEN found ELSE ImportItem(db[i-1], order[i])]
<1>1. 0 \in S
  <2> DEFINE g == [i \in 0..0 |-> found]
  <2>1. Upto(0, g)
    OBVIOUS
  <2> QED
    BY <2>1
<1>2. ASSUME NEW n \in Nat, n \in S
      PROVE  n+1 \in S
  <2>1. PICK g : Upto(n, g)
    BY <1>2
  <2> DEFINE h == [i \in 0..n+1 |-> IF i = n+1 THEN ImportItem(g[n], order[n+1]) ELSE g[i]]
  <2>2. h = [i \in 0..n+1 |-> h[i]] /\ h[0] = found
    BY <2>1
  <2>3. \A i \in 1..n+1 : h[i] = ImportItem(h[i-1], order[i])
    <3> TAKE i \in 1..n+1
    <3>1. CASE i = n+1
      <4>1. h[n] = g[n] /\ h[n+1] = ImportItem(g[n], order[n+1]) /\ i-1 = n
        BY <3>1
      <4> QED
        BY <3>1, <4>1
    <3>2. CASE i # n+1
      <4>1. i \in 1..n /\ i-1 \in 0..n /\ i \in 0..n
        BY <3>2
      <4>2. h[i] = g[i] /\ h[i-1] = g[i-1]
        BY <4>1
      <4> QED
        BY <2>1, <4>1, <4>2
    <3> QED
      BY <3>1, <3>2
  <2>4. Upto(n+1, h)
    BY <2>2, <2>3
  <2> HIDE DEF Upto
  <2> QED
    BY <2>4
<1>3. Nat \subseteq S
  <2> HIDE DEF S
  <2> QED
    BY <1>1, <1>2, SetInduction
<1>4. PICK g : Upto(L, g)
  BY <1>3
<1>5. Turns(g)
  BY <1>4
<1> DEFINE f == CHOOSE db : Turns(db)
<1>6. Turns(f)
  <2> HIDE DEF Turns
  <2> QED
    BY <1>5
<1>7. AfterItems(found, order) = f[L]
  BY DEF AfterItems
<1> HIDE DEF f
<1>8. f[0] = found /\ \A i \in 1..L : f[i] = ImportItem(f[i-1], order[i])
  BY <1>6
<1> QED
  BY <1>7, <1>8

-----------------------------------------------------------------------------
(* The transaction that imports the pages.                                 *)

Places == NodeIds \cup {None}
Columns == {"status", "parent", "slug", "route", "draft", "pub", "origin"}
IsRow(row) ==
  /\ row = [column \in Columns |-> row[column]]
  /\ row.parent \in Places /\ row.origin.parent \in Places

\* Tables that the transaction for the pages writes.
TablesOK(ns, vs, cs) ==
  /\ ns = [n \in NodeIds |-> ns[n]] /\ \A n \in NodeIds : IsRow(ns[n])
  /\ vs = [n \in NodeIds |-> vs[n]] /\ cs = [n \in NodeIds |-> cs[n]]

IsItem(item) ==
  item.id \in NodeIds /\ item.parent \in Places /\ item.status \notin {"absent", "purged"}

\* Within the transaction: an import that is not to overwrite has changed no row
\* that was there, and what it has changed hangs from what is there.
DbOK(db) ==
  /\ db = Db(db.ok, db.nodes, db.versions, db.copies, db.level, db.map)
  /\ TablesOK(db.nodes, db.versions, db.copies)
  /\ db.map \in [NodeIds -> NodeIds]
  /\ ~import.overwrite =>
       \A n \in NodeIds : Exists(n) => /\ db.nodes[n] = nodes[n] /\ db.versions[n] = versions[n]
                                     /\ db.copies[n] = copies[n]
  /\ db.ok =>
       \A n \in NodeIds : db.nodes[n] # nodes[n] /\ db.nodes[n].parent # None
                              => InDb(db, db.nodes[n].parent)

\* Rows are functions of their columns, and name other rows.
LEMMA BlankIsRow == IsRow(BlankRow)
<1>1. DOMAIN BlankRow = Columns
  BY DEF BlankRow, Columns
<1>2. BlankRow = [column \in DOMAIN BlankRow |-> BlankRow[column]]
  BY DEF BlankRow
<1>3. BlankRow.parent = None /\ BlankRow.origin.parent = None
  BY DEF BlankRow, NoOrigin
<1> QED
  BY <1>1, <1>2, <1>3 DEF IsRow, Places

\* An item goes to a row that is its own, another's or new.
LEMMA ItemKeeps ==
  ASSUME NEW db, DbOK(db), NEW item, IsItem(item)
  PROVE  DbOK(ImportItem(db, item))
<1> DEFINE n == TargetIn(db, item)
           mapped == [db EXCEPT !.map[item.id] = n]
           parent == IF item.parent = None THEN None ELSE db.map[item.parent]
           new == WriteItem(mapped, item, n, parent)
<1>1. n \in NodeIds
  BY DEF TargetIn, AtRoute, IsItem
<1>2. /\ mapped = Db(db.ok, db.nodes, db.versions, db.copies, db.level, mapped.map)
      /\ mapped.map \in [NodeIds -> NodeIds]
  <2>1. db = Db(db.ok, db.nodes, db.versions, db.copies, db.level, db.map)
    BY DEF DbOK
  <2> HIDE DEF n
  <2>2. mapped = Db(db.ok, db.nodes, db.versions, db.copies, db.level, [db.map EXCEPT ![item.id] = n])
    BY <2>1 DEF Db
  <2> HIDE DEF mapped
  <2>3. mapped.map = [db.map EXCEPT ![item.id] = n]
    BY <2>2 DEF Db
  <2> QED
    BY <1>1, <2>2, <2>3 DEF DbOK, IsItem
<1> HIDE DEF n, mapped
<1>3. /\ mapped.ok = db.ok /\ mapped.nodes = db.nodes /\ mapped.versions = db.versions
      /\ mapped.copies = db.copies
  BY <1>2 DEF Db
<1>4. DbOK(mapped)
  BY <1>2, <1>3 DEF DbOK, InDb, Db
<1>5. parent \in Places
  BY DEF DbOK, IsItem, Places
<1>6. ASSUME db.ok, ~(InDb(db, n) /\ ~import.overwrite)
      PROVE  DbOK(new)
  <2> DEFINE old == IF InDb(mapped, n) THEN mapped.nodes[n] ELSE BlankRow
             row == RowOf(item, parent, old)
             ns == [mapped.nodes EXCEPT ![n] = row]
  <2>1. IsRow(old)
    BY <1>1, <1>3, BlankIsRow DEF DbOK, TablesOK
  <2>2. IsRow(row) /\ row.parent = parent /\ row.status = item.status
    <3>1. old = [column \in Columns |-> old[column]] /\ old.origin.parent \in Places
      BY <2>1 DEF IsRow
    <3> HIDE DEF old, parent
    <3>2. row = [old EXCEPT !.status = item.status, !.parent = parent, !.slug = item.slug,
                            !.route = item.route, !.draft = item.draft, !.pub = Cleaned(item.pub)]
      BY DEF RowOf
    <3> HIDE DEF row
    <3>3. row = [column \in Columns |-> row[column]] /\ row.origin = old.origin
      BY <3>1, <3>2 DEF Columns
    <3>4. row.parent = parent /\ row.status = item.status
      BY <3>1, <3>2 DEF Columns
    <3> QED
      BY <1>5, <3>1, <3>3, <3>4 DEF IsRow
  <2>3. new = Db(new.ok, ns, new.versions, new.copies, new.level, mapped.map)
    BY DEF WriteItem, Db
  <2>4. /\ new.versions = [mapped.versions EXCEPT ![n] = @ \cup {ImportedVersion(item, @)}]
        /\ new.copies = [mapped.copies EXCEPT ![n] = ImportedCopies(item)]
        /\ new.ok => (parent # None => InDb(mapped, parent))
    BY DEF WriteItem, Db
  <2> HIDE DEF old, row, new, parent
  <2>5. new.nodes = ns /\ new.map = mapped.map
    BY <2>3 DEF Db
  <2>6. /\ ns[n] = row /\ \A m \in NodeIds \ {n} : ns[m] = db.nodes[m]
        /\ ns = [m \in NodeIds |-> ns[m]]
    BY <1>1, <1>3 DEF DbOK, TablesOK
  <2> HIDE DEF ns
  <2>7. /\ \A m \in NodeIds \ {n} : new.versions[m] = db.versions[m] /\ new.copies[m] = db.copies[m]
        /\ new.versions = [m \in NodeIds |-> new.versions[m]]
        /\ new.copies = [m \in NodeIds |-> new.copies[m]]
    <3> DEFINE history == mapped.versions[n] \cup {ImportedVersion(item, mapped.versions[n])}
    <3>1. new.versions = [mapped.versions EXCEPT ![n] = history]
      BY <2>4
    <3> HIDE DEF history
    <3>2. /\ mapped.versions = [m \in NodeIds |-> db.versions[m]]
          /\ mapped.copies = [m \in NodeIds |-> db.copies[m]]
      BY <1>3 DEF DbOK, TablesOK
    <3> QED
      BY <1>1, <2>4, <3>1, <3>2
  <2>8. TablesOK(new.nodes, new.versions, new.copies)
    BY <2>2, <2>5, <2>6, <2>7 DEF DbOK, TablesOK
  <2>9. ASSUME ~import.overwrite, NEW m \in NodeIds, Exists(m)
         PROVE  new.nodes[m] = nodes[m] /\ new.versions[m] = versions[m] /\ new.copies[m] = copies[m]
    <3>1. db.nodes[m] = nodes[m] /\ db.versions[m] = versions[m] /\ db.copies[m] = copies[m]
      BY <2>9 DEF DbOK
    <3>2. m # n
      BY <1>6, <2>9, <3>1 DEF Exists, InDb
    <3> QED
      BY <2>5, <2>6, <2>7, <3>1, <3>2
  <2>10. ASSUME new.ok, NEW m \in NodeIds, new.nodes[m] # nodes[m], new.nodes[m].parent # None
         PROVE  InDb(new, new.nodes[m].parent)
    <3>1. \A k \in NodeIds : InDb(db, k) => InDb(new, k)
      BY <2>2, <2>5, <2>6 DEF InDb, IsItem
    <3>2. CASE m = n
      <4>1. new.nodes[m].parent = parent
        BY <2>2, <2>5, <2>6, <3>2
      <4>2. InDb(db, parent)
        BY <1>3, <2>4, <2>10, <4>1 DEF InDb
      <4> QED
        BY <1>5, <2>10, <3>1, <4>1, <4>2 DEF Places
    <3>3. CASE m # n
      <4>1. new.nodes[m] = db.nodes[m]
        BY <2>5, <2>6, <3>3
      <4>2. InDb(db, db.nodes[m].parent)
        BY <1>6, <2>10, <4>1 DEF DbOK
      <4>3. db.nodes[m].parent \in NodeIds
        BY <2>10, <4>1 DEF DbOK, TablesOK, IsRow, Places
      <4> QED
        BY <3>1, <4>1, <4>2, <4>3
    <3> QED
      BY <3>2, <3>3
  <2> QED
    BY <1>2, <2>3, <2>5, <2>8, <2>9, <2>10 DEF DbOK
<1>7. ImportItem(db, item) = IF ~db.ok \/ (InDb(db, n) /\ ~import.overwrite) THEN mapped ELSE new
  BY DEF ImportItem, n, mapped
<1> QED
  BY <1>4, <1>6, <1>7

\* The transaction as a whole.
LEMMA TransactionKeeps ==
  ASSUME NEW found, DbOK(found), NEW order, Len(order) \in Nat,
         \A i \in 1..Len(order) : IsItem(order[i])
  PROVE  DbOK(AfterItems(found, order))
<1>1. PICK db : /\ db[0] = found /\ db[Len(order)] = AfterItems(found, order)
                /\ \A i \in 1..Len(order) : db[i] = ImportItem(db[i-1], order[i])
  BY ItemsInTurn
<1> DEFINE S == {i \in Nat : i <= Len(order) => DbOK(db[i])}
<1>2. 0 \in S
  BY <1>1
<1>3. ASSUME NEW i \in Nat, i \in S
      PROVE  i+1 \in S
  <2> SUFFICES ASSUME i+1 <= Len(order) PROVE DbOK(db[i+1])
    OBVIOUS
  <2>1. DbOK(db[i]) /\ IsItem(order[i+1]) /\ i+1 \in 1..Len(order) /\ (i+1)-1 = i
    BY <1>3
  <2>2. db[i+1] = ImportItem(db[i], order[i+1])
    BY <1>1, <2>1
  <2> QED
    BY <2>1, <2>2, ItemKeeps
<1>4. Nat \subseteq S
  <2> HIDE DEF S
  <2> QED
    BY <1>2, <1>3, SetInduction
<1> QED
  BY <1>1, <1>4

-----------------------------------------------------------------------------
(* Between the transactions.                                               *)

\* A package has finitely many pages, which were there when it was made.
PackageOK ==
  package # NoPackage =>
    /\ package = [items |-> package.items, left |-> package.left, tables |-> package.tables]
    /\ IsFiniteSet(package.items) /\ \A item \in package.items : IsItem(item)

\* What stands for them here are pages as well, and nothing is planned without one.
ImportOK ==
  /\ import = [k \in DOMAIN import |-> import[k]] /\ {"at", "map"} \subseteq DOMAIN import
  /\ import.map \in [NodeIds -> NodeIds]
  /\ import.at = "planned" => package # NoPackage

PackageInv == TablesOK(nodes, versions, copies) /\ PackageOK /\ ImportOK

NodesOK(ns) == ns = [n \in NodeIds |-> ns[n]] /\ \A n \in NodeIds : IsRow(ns[n])

\* Pages keep their place or get one of another page.
LEMMA RefreshedAreRows ==
  ASSUME NEW ns, NodesOK(ns), NEW n
  PROVE  NodesOK(RefreshRoutes(ns, n))
<1> SUFFICES ASSUME NEW m \in NodeIds PROVE IsRow(RefreshRoutes(ns, n)[m])
  BY DEF NodesOK, RefreshRoutes
<1>1. CASE PathsDown(ns, n, m) = {}
  BY <1>1 DEF RefreshRoutes, NodesOK
<1>2. CASE PathsDown(ns, n, m) # {}
  <2> DEFINE p == CHOOSE p \in PathsDown(ns, n, m) : TRUE
             r == ns[n].route \o [i \in 1..Len(p) |-> ns[p[i]].slug]
  <2>1. RefreshRoutes(ns, n)[m] = [ns[m] EXCEPT !.route = r]
    BY <1>2 DEF RefreshRoutes
  <2> HIDE DEF r
  <2>2. IsRow(ns[m])
    BY DEF NodesOK
  <2>3. ns[m] = [column \in Columns |-> ns[m][column]]
    BY <2>2 DEF IsRow
  <2> QED
    BY <2>1, <2>2, <2>3 DEF IsRow, Columns
<1> QED
  BY <1>1, <1>2

\* A row with columns of its own in place of some is a row if its places are.
LEMMA RowWith ==
  ASSUME NEW n \in NodeIds, NEW ns, NodesOK(nodes), NEW row, IsRow(row),
         ns = [nodes EXCEPT ![n] = row]
  PROVE  NodesOK(ns)
BY DEF NodesOK

\* Each of the rows that the operations write.
LEMMA NewPageIsRow ==
  ASSUME NEW parent \in Places, NEW slug, NEW route, NEW payload
  PROVE  IsRow([BlankRow EXCEPT !.status = "draft", !.parent = parent, !.slug = slug,
                                !.route = route, !.draft = payload])
BY BlankIsRow DEF IsRow, Columns

LEMMA ChangedIsRow ==
  ASSUME NEW row, IsRow(row), NEW a, NEW b, NEW c, NEW d
  PROVE  /\ IsRow([row EXCEPT !.status = a, !.pub = b])
         /\ IsRow([row EXCEPT !.draft = a, !.status = b])
         /\ IsRow([row EXCEPT !.slug = a, !.draft = b, !.status = c, !.route = d])
         /\ IsRow([row EXCEPT !.status = "draft", !.parent = row.origin.parent, !.slug = a,
                              !.route = b, !.origin = NoOrigin])
         /\ IsRow([row EXCEPT !.status = "trashed", !.parent = None, !.slug = a, !.route = b,
                              !.pub = None,
                              !.origin = [parent |-> row.parent, slug |-> c, route |-> d]])
<1>1. /\ row = [column \in Columns |-> row[column]]
      /\ row.parent \in Places /\ row.origin.parent \in Places /\ None \in Places
      /\ NoOrigin.parent = None
  BY DEF IsRow, Places, NoOrigin
<1>2. IsRow([row EXCEPT !.status = a, !.pub = b])
  BY <1>1 DEF IsRow, Columns
<1>3. IsRow([row EXCEPT !.draft = a, !.status = b])
  BY <1>1 DEF IsRow, Columns
<1>4. IsRow([row EXCEPT !.slug = a, !.draft = b, !.status = c, !.route = d])
  BY <1>1 DEF IsRow, Columns
<1>5. IsRow([row EXCEPT !.status = "draft", !.parent = row.origin.parent, !.slug = a,
                        !.route = b, !.origin = NoOrigin])
  BY <1>1 DEF IsRow, Columns
<1>6. IsRow([row EXCEPT !.status = "trashed", !.parent = None, !.slug = a, !.route = b, !.pub = None,
                        !.origin = [parent |-> row.parent, slug |-> c, route |-> d]])
  BY <1>1 DEF IsRow, Columns
<1> QED
  BY <1>2, <1>3, <1>4, <1>5, <1>6

\* The operations on pages, each by the rows it writes.
LEMMA NextKeepsRows ==
  ASSUME NodesOK(nodes), [Next]_vars
  PROVE  NodesOK(nodes')
<1>1. ASSUME NEW n \in NodeIds, NEW parent \in Places, NEW slug, NEW payload,
             Create(n, parent, slug, payload)
      PROVE  NodesOK(nodes')
  BY <1>1, NewPageIsRow, RowWith DEF Create, CommitNodes
<1>2. ASSUME NEW n \in NodeIds, NEW copy \in NodeIds, NEW slug, Duplicate(n, copy, slug)
      PROVE  NodesOK(nodes')
  <2>1. nodes[n].parent \in Places
    BY DEF NodesOK, IsRow
  <2> QED
    BY <1>2, <2>1, NewPageIsRow, RowWith DEF Duplicate, CommitNodes
<1>3. ASSUME NEW n \in NodeIds, NEW slug, NEW payload, NEW actor, Update(n, slug, payload, actor)
      PROVE  NodesOK(nodes')
  <2> DEFINE saved == [nodes EXCEPT ![n] =
               [@ EXCEPT !.slug = slug, !.draft = payload, !.status = StatusOnEdit(nodes[n].status),
                         !.route = IF n = Root THEN PublicRoot ELSE RouteFor(nodes[n].parent, slug)]]
  <2>1. NodesOK(saved)
    BY ChangedIsRow, RowWith DEF NodesOK
  <2>2. nodes' = RefreshRoutes(saved, n)
    BY <1>3 DEF Update, CommitNodes
  <2> HIDE DEF saved
  <2> QED
    BY <2>1, <2>2, RefreshedAreRows
<1>4. ASSUME NEW n \in NodeIds, NEW actor, Publish(n, actor) \/ Unpublish(n, actor)
      PROVE  NodesOK(nodes')
  <2>1. \E a, b : nodes' = [nodes EXCEPT ![n] = [nodes[n] EXCEPT !.status = a, !.pub = b]]
    BY <1>4 DEF Publish, Unpublish, NodesOK
  <2> QED
    BY <2>1, ChangedIsRow, RowWith DEF NodesOK
<1>5. ASSUME NEW n \in NodeIds, NEW actor, Delete(n, actor)
      PROVE  NodesOK(nodes')
  BY <1>5, ChangedIsRow, RowWith DEF Delete, CommitNodes, NodesOK
<1>6. ASSUME NEW n \in NodeIds, RestoreTrashed(n)
      PROVE  NodesOK(nodes')
  BY <1>6, ChangedIsRow, RowWith DEF RestoreTrashed, CommitNodes, NodesOK
<1>7. ASSUME NEW n \in NodeIds, Purge(n)
      PROVE  NodesOK(nodes')
  <2>1. IsRow([BlankRow EXCEPT !.status = "purged"])
    BY BlankIsRow DEF IsRow, Columns
  <2> QED
    BY <1>7, <2>1, RowWith DEF Purge
<1>8. ASSUME NEW n \in NodeIds, NEW no, NEW actor, RestoreVersion(n, no, actor)
      PROVE  NodesOK(nodes')
  <2>1. \E a, b : nodes' = [nodes EXCEPT ![n] = [nodes[n] EXCEPT !.draft = a, !.status = b]]
    BY <1>8 DEF RestoreVersion, NodesOK
  <2> QED
    BY <2>1, ChangedIsRow, RowWith DEF NodesOK
<1>9. CASE UNCHANGED nodes
  BY <1>9 DEF NodesOK
<1>10. CASE TreeStep
  BY <1>1, <1>2, <1>3, <1>4, <1>5, <1>6, <1>7, <1>10 DEF TreeStep, Places
<1>11. CASE HistoryStep
  BY <1>8, <1>9, <1>11 DEF HistoryStep, CleanupVersions
<1>12. CASE LockStep \/ WorkflowStep \/ Tick \/ UNCHANGED vars
  BY <1>9, <1>12 DEF LockStep, WorkflowStep, AcquireLock, ReleaseLock, UpsertWorkflow, Tick, vars
<1> QED
  BY <1>10, <1>11, <1>12 DEF Next

LEMMA NextKeepsHistories ==
  ASSUME versions = [n \in NodeIds |-> versions[n]], [Next]_vars
  PROVE  versions' = [n \in NodeIds |-> versions'[n]]
<1>1. ASSUME NEW n, NEW status, NEW payload, AddVersion(n, status, payload)
      PROVE  versions' = [m \in NodeIds |-> versions'[m]]
  BY <1>1 DEF AddVersion
<1>2. CASE UNCHANGED versions
  BY <1>2
<1>3. CASE TreeStep
  BY <1>1, <1>2, <1>3
  DEF TreeStep, Create, Update, Publish, Unpublish, Delete, RestoreTrashed, Purge, Duplicate
<1>4. CASE HistoryStep
  BY <1>1, <1>4 DEF HistoryStep, RestoreVersion, CleanupVersions
<1>5. CASE LockStep \/ WorkflowStep \/ Tick \/ UNCHANGED vars
  BY <1>2, <1>5 DEF LockStep, WorkflowStep, AcquireLock, ReleaseLock, UpsertWorkflow, Tick, vars
<1> QED
  BY <1>3, <1>4, <1>5 DEF Next

\* What goes on beside packages keeps the tables.
LEMMA StoreKeepsTables ==
  ASSUME TablesOK(nodes, versions, copies), StoreStep
  PROVE  TablesOK(nodes', versions', copies')
<1>1. [Next]_vars
  BY StoreStepIsNext
<1>2. NodesOK(nodes') /\ versions' = [n \in NodeIds |-> versions'[n]]
  BY <1>1, NextKeepsRows, NextKeepsHistories DEF TablesOK, NodesOK
<1>3. copies' = [n \in NodeIds |-> copies'[n]]
  <2>1. CASE FollowPage
    BY <2>1 DEF FollowPage
  <2>2. CASE CopyStep
    <3>1. ASSUME NEW n, NEW k, NEW payload, NEW actor, SaveCopy(n, k, payload, actor)
          PROVE  copies' = [m \in NodeIds |-> copies'[m]]
      BY <3>1 DEF SaveCopy, TablesOK
    <3>2. ASSUME NEW n, NEW k, NEW actor, PublishCopy(n, k, actor)
          PROVE  copies' = [m \in NodeIds |-> copies'[m]]
      BY <3>2 DEF PublishCopy, TablesOK
    <3> QED
      BY <2>2, <3>1, <3>2 DEF CopyStep, SaveVariant, SaveSegment, PublishVariant, PublishSegment
  <2>3. CASE UNCHANGED copies
    BY <2>3 DEF TablesOK
  <2> QED
    BY <2>1, <2>2, <2>3 DEF StoreStep, copyVars
<1> QED
  BY <1>2, <1>3 DEF TablesOK, NodesOK

\* Pages that are listed are there, and are finitely many.
LEMMA ExportKeeps ==
  ASSUME PackageInv, NEW ids, NEW descendants, Export(ids, descendants)
  PROVE  PackageInv'
<1> DEFINE S == Selected(ids, descendants)
           items == {Packaged(n) : n \in S}
<1>1. S \subseteq NodeIds /\ \A n \in S : Exists(n)
  BY DEF Selected, Listed
<1>2. \A n \in S : IsItem(Packaged(n))
  BY <1>1 DEF Packaged, IsItem, PackageInv, TablesOK, IsRow, Exists
<1>3. IsFiniteSet(items)
  <2> DEFINE f == [n \in S |-> Packaged(n)]
  <2>1. f \in Surjection(S, items)
    BY DEF Surjection
  <2>2. IsFiniteSet(S)
    BY <1>1, NodeAssumption, FS_Subset
  <2> HIDE DEF f, S
  <2> QED
    BY <2>1, <2>2, FS_Surjection
<1> HIDE DEF S
<1>4. package' = [items |-> items, left |-> Sections, tables |-> <<>>]
  BY DEF Export, S
<1>5. ImportOK' /\ TablesOK(nodes', versions', copies')
  <2>1. UNCHANGED <<import, nodes, versions, copies>>
    BY DEF Export, storeVars, vars, copyVars
  <2>2. DOMAIN NoPackage = {"left"} /\ DOMAIN package' = {"items", "left", "tables"}
    BY <1>4 DEF NoPackage
  <2>3. "items" \notin {"left"} /\ "items" \in {"items", "left", "tables"}
    OBVIOUS
  <2>4. package' # NoPackage
    BY <2>2, <2>3
  <2> QED
    BY <2>1, <2>4 DEF PackageInv, ImportOK
<1> HIDE DEF items
<1>6. PackageOK'
  <2>1. package'.items = items
    BY <1>4
  <2>2. \A item \in items : IsItem(item)
    BY <1>2 DEF items
  <2> QED
    BY <1>3, <1>4, <2>1, <2>2 DEF PackageOK
<1> QED
  BY <1>5, <1>6 DEF PackageInv

\* The sections that follow the pages leave those of the package as they are.
LEMMA ReadSectionKeeps ==
  ASSUME PackageInv, ReadSection
  PROVE  PackageInv'
<1>1. package # NoPackage
  BY DEF ReadSection, NoPackage
<1>2. PICK tables :
        package' = [package EXCEPT !.left = Tail(package.left), !.tables = tables]
  BY DEF ReadSection
<1>3. package' = [items |-> package.items, left |-> Tail(package.left), tables |-> tables]
  <2>1. package = [items |-> package.items, left |-> package.left, tables |-> package.tables]
    BY <1>1 DEF PackageInv, PackageOK
  <2> QED
    BY <1>2, <2>1
<1>4. package'.items = package.items /\ PackageOK'
  BY <1>1, <1>3 DEF PackageInv, PackageOK
<1>5. package' # NoPackage
  <2>1. DOMAIN NoPackage = {"left"} /\ DOMAIN package' = {"items", "left", "tables"}
    BY <1>3 DEF NoPackage
  <2>2. "items" \notin {"left"} /\ "items" \in {"items", "left", "tables"}
    OBVIOUS
  <2> QED
    BY <2>1, <2>2
<1>6. UNCHANGED <<import, nodes, versions, copies>>
  BY DEF ReadSection, storeVars, vars, copyVars
<1> QED
  BY <1>4, <1>5, <1>6 DEF PackageInv, ImportOK

\* A plan and the import of a row leave pages alone, and the map as it was.
LEMMA PlanKeeps ==
  ASSUME PackageInv, NEW overwrite, Plan(overwrite)
  PROVE  PackageInv'
<1>1. import' = [at |-> "planned", map |-> import.map, overwrite |-> overwrite, taken |-> Taken]
  BY DEF Plan
<1>2. UNCHANGED <<package, nodes, versions, copies>> /\ package # NoPackage
  BY DEF Plan, storeVars, vars, copyVars
<1>3. DOMAIN import' = {"at", "map", "overwrite", "taken"} /\ import'.map = import.map
  BY <1>1
<1>4. import' = [k \in DOMAIN import' |-> import'[k]]
  BY <1>1
<1> QED
  BY <1>2, <1>3, <1>4 DEF PackageInv, PackageOK, ImportOK

LEMMA NoImportIsOK ==
  /\ NoImport = [k \in DOMAIN NoImport |-> NoImport[k]] /\ {"at", "map"} \subseteq DOMAIN NoImport
  /\ NoImport.map \in [NodeIds -> NodeIds] /\ NoImport.at = "none"
<1>1. DOMAIN NoImport = {"at", "map"} /\ NoImport = [k \in DOMAIN NoImport |-> NoImport[k]]
  BY DEF NoImport
<1>2. NoImport.map = [n \in NodeIds |-> n] /\ NoImport.at = "none"
  BY DEF NoImport
<1> QED
  BY <1>1, <1>2

\* Whatever row it is at, an import goes on with the map it has, or gives up.
LEMMA RowsKeep ==
  ASSUME PackageInv, ImportDomain \/ ImportRedirect \/ ImportAccess \/ ImportWorkflow
  PROVE  PackageInv'
<1>1. UNCHANGED <<package, nodes, versions, copies>>
  BY DEF ImportDomain, ImportRedirect, ImportAccess, ImportWorkflow, SaveDomain, SaveRedirect,
         SetAccess, UpsertWorkflow, GiveUp, Then, storeVars, vars, copyVars
<1> DEFINE Ats == {"domains", "redirects", "access", "workflows"}
           OnItsWay == import' = NoImport \/ \E at \in Ats : \E todo : Continue(at, todo)
<1>2. OnItsWay
  <2>1. ASSUME NEW at \in Ats, NEW todo, Continue(at, todo)
        PROVE  OnItsWay
    BY <2>1
  <2>2. ASSUME NEW row, Proceed(row), import.at \in Ats
        PROVE  OnItsWay
    <3>1. Continue(import.at, import.todo \ {row})
      BY <2>2 DEF Proceed
    <3> QED
      BY <2>1, <2>2, <3>1
  <2>3. ASSUME NEW at \in Ats, NEW todo, Then(at, todo)
        PROVE  OnItsWay
    <3>1. Continue(at, todo)
      BY <2>3 DEF Then
    <3> QED
      BY <2>1, <3>1
  <2>4. GiveUp => OnItsWay
    BY DEF GiveUp
  <2> HIDE DEF OnItsWay
  <2>5. CASE ImportDomain
    <3>1. import.at \in Ats /\ "redirects" \in Ats
      BY <2>5 DEF ImportDomain
    <3>2. \/ \E d : Proceed(d)
          \/ GiveUp
          \/ Then("redirects", package.tables.redirects)
      BY <2>5 DEF ImportDomain
    <3> QED
      BY <2>2, <2>3, <2>4, <3>1, <3>2
  <2>6. CASE ImportRedirect
    <3>1. import.at \in Ats /\ "access" \in Ats
      BY <2>6 DEF ImportRedirect
    <3>2. \/ \E r : Proceed(r)
          \/ Then("access", {n \in NodeIds : package.tables.access[n] # Public})
      BY <2>6 DEF ImportRedirect
    <3> QED
      BY <2>2, <2>3, <3>1, <3>2
  <2>7. CASE ImportAccess
    <3>1. import.at \in Ats /\ "workflows" \in Ats
      BY <2>7 DEF ImportAccess
    <3>2. \/ \E n : Proceed(n)
          \/ GiveUp
          \/ Then("workflows", {n \in NodeIds : package.tables.workflows[n].state # None})
      BY <2>7 DEF ImportAccess
    <3> QED
      BY <2>2, <2>3, <2>4, <3>1, <3>2
  <2>8. CASE ImportWorkflow
    <3>1. import.at \in Ats
      BY <2>8 DEF ImportWorkflow
    <3>2. (\E n : Proceed(n)) \/ GiveUp
      BY <2>8 DEF ImportWorkflow
    <3> QED
      BY <2>2, <2>4, <3>1, <3>2
  <2> QED
    BY <2>5, <2>6, <2>7, <2>8
<1>3. ImportOK'
  <2>1. CASE import' = NoImport
    BY <2>1, NoImportIsOK DEF ImportOK
  <2>2. ASSUME NEW at \in {"domains", "redirects", "access", "workflows"}, NEW todo, Continue(at, todo)
        PROVE  ImportOK'
    <3>1. import' = [import EXCEPT !.at = at, !.todo = todo]
      BY <2>2 DEF Continue
    <3>2. /\ DOMAIN import' = DOMAIN import /\ import' = [k \in DOMAIN import' |-> import'[k]]
          /\ import'.map = import.map /\ import'.at = at
      BY <3>1 DEF PackageInv, ImportOK
    <3> QED
      BY <3>2 DEF PackageInv, ImportOK
  <2> QED
    BY <1>2, <2>1, <2>2
<1> QED
  BY <1>1, <1>3 DEF PackageInv, PackageOK

-----------------------------------------------------------------------------
\* The pages' transaction starts from what it finds and ends as one that keeps to
\* DbOK, or leaves everything as it was.
LEMMA PagesOfImport ==
  ASSUME PackageInv, ImportNodes
  PROVE  /\ PackageInv'
         /\ \/ UNCHANGED <<nodes, versions, copies>>
            \/ \E db : /\ DbOK(db) /\ db.ok /\ nodes' = db.nodes /\ versions' = db.versions
                       /\ copies' = db.copies
<1> DEFINE found == Db(TRUE, nodes, versions, copies, level, import.map)
<1>1. PICK order \in ImportOrders :
        LET db == AfterItems(found, order)
        IN  /\ nodes' = IF db.ok THEN db.nodes ELSE nodes
            /\ versions' = IF db.ok THEN db.versions ELSE versions
            /\ copies' = IF db.ok THEN db.copies ELSE copies
            /\ import' = IF db.ok
                         THEN [at |-> "domains", map |-> db.map,
                               todo |-> {d \in DomainIds : package.tables.domains[d] # NoDomain}]
                         ELSE NoImport
  BY DEF ImportNodes
<1>2. package # NoPackage /\ package' = package
  BY DEF ImportNodes, PackageInv, ImportOK
<1>3. DbOK(found)
  <2>1. /\ found.ok = TRUE /\ found.nodes = nodes /\ found.versions = versions
        /\ found.copies = copies /\ found.level = level /\ found.map = import.map
    BY DEF Db
  <2> HIDE DEF found
  <2> QED
    BY <2>1 DEF DbOK, PackageInv, ImportOK, found
<1>4. Len(order) \in Nat /\ \A i \in 1..Len(order) : IsItem(order[i])
  <2>1. IsFiniteSet(package.items) /\ \A item \in package.items : IsItem(item)
    BY <1>2 DEF PackageInv, PackageOK
  <2>2. Cardinality(package.items) \in Nat
    BY <2>1, FS_CardinalityType
  <2>3. order \in [1..Cardinality(package.items) -> package.items]
    BY DEF ImportOrders, SetToSeqs
  <2>4. Len(order) = Cardinality(package.items)
    BY <2>2, <2>3
  <2> QED
    BY <2>1, <2>2, <2>3, <2>4
<1> DEFINE db == AfterItems(found, order)
<1>5. DbOK(db)
  <2> HIDE DEF found
  <2> QED
    BY <1>3, <1>4, TransactionKeeps
<1> HIDE DEF db
<1>6. /\ nodes' = IF db.ok THEN db.nodes ELSE nodes
      /\ versions' = IF db.ok THEN db.versions ELSE versions
      /\ copies' = IF db.ok THEN db.copies ELSE copies
      /\ import' = IF db.ok
                   THEN [at |-> "domains", map |-> db.map,
                         todo |-> {d \in DomainIds : package.tables.domains[d] # NoDomain}]
                   ELSE NoImport
  BY <1>1 DEF db
<1>7. CASE db.ok
  <2>1. /\ DOMAIN import' = {"at", "map", "todo"} /\ import' = [k \in DOMAIN import' |-> import'[k]]
        /\ import'.map = db.map /\ import'.at = "domains"
    BY <1>6, <1>7
  <2>2. ImportOK'
    BY <1>5, <2>1 DEF ImportOK, DbOK
  <2>3. TablesOK(nodes', versions', copies')
    BY <1>5, <1>6, <1>7 DEF DbOK
  <2> QED
    BY <1>2, <1>5, <1>6, <1>7, <2>2, <2>3 DEF PackageInv, PackageOK
<1>8. CASE ~db.ok
  BY <1>2, <1>6, <1>8, NoImportIsOK DEF PackageInv, PackageOK, ImportOK
<1> QED
  BY <1>7, <1>8

\* So it is at the start, and whatever happens.
LEMMA PackagesStart == PackageInit => PackageInv
<1> SUFFICES ASSUME PackageInit PROVE PackageInv
  OBVIOUS
<1>1. Init /\ copies = [n \in NodeIds |-> NoCopies] /\ package = NoPackage /\ import = NoImport
  BY DEF PackageInit, VariantInit
<1>2. PICK p \in Payloads :
        /\ nodes = [n \in NodeIds |->
             IF n = Root THEN [BlankRow EXCEPT !.status = "published", !.draft = p, !.pub = p]
                         ELSE BlankRow]
        /\ versions = [n \in NodeIds |->
             IF n = Root THEN {[no |-> 1, status |-> "published", payload |-> p, at |-> 0]}
                         ELSE {}]
  BY <1>1 DEF Init
<1>3. IsRow([BlankRow EXCEPT !.status = "published", !.draft = p, !.pub = p])
  BY BlankIsRow DEF IsRow, Columns
<1>4. \A n \in NodeIds : IsRow(nodes[n])
  BY <1>2, <1>3, BlankIsRow
<1>5. TablesOK(nodes, versions, copies)
  BY <1>1, <1>2, <1>4 DEF TablesOK
<1> QED
  BY <1>1, <1>5, NoImportIsOK DEF PackageInv, PackageOK, ImportOK

LEMMA PackagesGoOn == PackageInv /\ [PackageNext]_<<storeVars, packageVars>> => PackageInv'
<1> SUFFICES ASSUME PackageInv, [PackageNext]_<<storeVars, packageVars>> PROVE PackageInv'
  OBVIOUS
<1>1. CASE PackageStep
  BY <1>1, ExportKeeps, ReadSectionKeeps, PlanKeeps, PagesOfImport, RowsKeep DEF PackageStep
<1>2. CASE StoreStep /\ UNCHANGED packageVars
  BY <1>2, StoreKeepsTables DEF PackageInv, PackageOK, ImportOK, packageVars
<1>3. CASE UNCHANGED <<storeVars, packageVars>>
  BY <1>3 DEF PackageInv, PackageOK, ImportOK, packageVars, storeVars, vars, copyVars
<1> QED
  BY <1>1, <1>2, <1>3 DEF PackageNext

\* An import that is not to overwrite changes no page that exists, whatever was
\* created since it was planned, for any packages of any pages in any order.
THEOREM ImportsKeepRows == PackageSpec => UnaskedRowsAreKept
<1>1. ASSUME PackageInv, ImportNodes, ~import.overwrite, NEW n \in NodeIds, Exists(n)
      PROVE  nodes'[n] = nodes[n] /\ versions'[n] = versions[n] /\ copies'[n] = copies[n]
  BY <1>1, PagesOfImport DEF DbOK
<1>2. PackageInv /\ [PackageNext]_<<storeVars, packageVars>> =>
        [ImportNodes /\ ~import.overwrite =>
           \A n \in NodeIds : Exists(n) =>
             /\ nodes'[n] = nodes[n]
             /\ versions'[n] = versions[n]
             /\ copies'[n] = copies[n]]_<<storeVars, packageVars>>
  BY <1>1
<1> QED
  BY <1>2, PackagesStart, PackagesGoOn, PTL DEF PackageSpec, UnaskedRowsAreKept

\* What an import has written hangs from a page that is there, whichever rows its
\* ids have come to stand for and whatever was purged meanwhile.
THEOREM ImportsFindParents == PackageSpec => ImportsHaveParents
<1>1. ASSUME PackageInv, ImportNodes, NEW n \in NodeIds, nodes'[n] # nodes[n], nodes'[n].parent # None
      PROVE  nodes'[nodes'[n].parent].status \notin {"absent", "purged"}
  BY <1>1, PagesOfImport DEF DbOK, InDb
<1>2. PackageInv /\ [PackageNext]_<<storeVars, packageVars>> =>
        [ImportNodes => \A n \in NodeIds :
           nodes'[n] # nodes[n] /\ nodes'[n].parent # None =>
             nodes'[nodes'[n].parent].status \notin {"absent", "purged"}]_<<storeVars, packageVars>>
  BY <1>1
<1> QED
  BY <1>2, PackagesStart, PackagesGoOn, PTL DEF PackageSpec, ImportsHaveParents

-----------------------------------------------------------------------------
(* Pages made while the model changes. What a request, a page, a blueprint and a  *)
(* report say of types, given the fields types are known to have had.             *)

DraftFits(page, known) ==
  \E s \in known[page.type] : DOMAIN s = DOMAIN page.draft /\ Fits(s, page.draft)
PageIsSound(page, known) ==
  page # Absent => /\ page = [k \in {"type", "draft"} |-> page[k]]
                   /\ page.type \in TypeAliases
                   /\ DraftFits(page, known)

FormIsSound(form, known) ==
  /\ form.at \in {"begun", "typed", "allowed"} => form.type \in TypeAliases
  /\ form.at \in {"typed", "allowed"} =>
       /\ form = [k \in {"at", "type", "parent", "payload", "schema"} |-> form[k]]
       /\ form.schema \in known[form.type]

BlueprintsAreSound(rows) ==
  \A b \in BlueprintIds : rows[b] # Absent => rows[b].type \in TypeAliases

\* The blueprints are read last, so a report that is complete has them.
ReportIsSound(report) ==
  report # Absent =>
    /\ report = [k \in {"left", "quiet", "rows"} |-> report[k]]
    /\ report.left \in Seq(ToSet(ReportOrder))
    /\ report.left # <<>> => report.left[Len(report.left)] = "blueprints"
    /\ report.rows = [table \in ToSet(ReportOrder) |-> report.rows[table]]
    /\ report.left = <<>> => BlueprintsAreSound(report.rows.blueprints)

TypesAreNoted == \A t \in TypeAliases : t \in DOMAIN model.types => Schema(model, t) \in schemas[t]

ModelsInv ==
  /\ TypesAreNoted
  /\ blueprints = [b \in BlueprintIds |-> blueprints[b]] /\ BlueprintsAreSound(blueprints)
  /\ pages = [p \in PageIds |-> pages[p]] /\ \A p \in PageIds : PageIsSound(pages[p], schemas)
  /\ forms = [e \in Editors |-> forms[e]] /\ \A e \in Editors : FormIsSound(forms[e], schemas)
  /\ ReportIsSound(taken)

\* What was known to fit stays so when more is known.
LEMMA KnownStaysKnown ==
  ASSUME NEW known, NEW more, \A t \in TypeAliases : known[t] \subseteq more[t]
  PROVE  /\ \A page : PageIsSound(page, known) => PageIsSound(page, more)
         /\ \A form : FormIsSound(form, known) => FormIsSound(form, more)
<1>1. ASSUME NEW page, PageIsSound(page, known)
      PROVE  PageIsSound(page, more)
  BY <1>1 DEF PageIsSound, DraftFits
<1>2. ASSUME NEW form, FormIsSound(form, known)
      PROVE  FormIsSound(form, more)
  BY <1>2 DEF FormIsSound
<1> QED
  BY <1>1, <1>2

LEMMA CleanFits ==
  ASSUME NEW schema, NEW payload, Fits(schema, payload)
  PROVE  Fits(schema, Clean(schema, payload)) /\ DOMAIN Clean(schema, payload) = DOMAIN schema
BY DEF Fits, Clean

\* Saving notes the fields types have by then, whatever is saved.
LEMMA BecomeNotes ==
  ASSUME NEW m, Become(m)
  PROVE  TypesAreNoted' /\ \A t \in TypeAliases : schemas[t] \subseteq schemas'[t]
<1>1. model' = m /\ \A t \in TypeAliases :
        schemas'[t] = schemas[t] \cup (IF t \in DOMAIN m.types THEN {Schema(m, t)} ELSE {})
  BY DEF Become
<1>2. ASSUME NEW t \in TypeAliases, t \in DOMAIN model'.types
      PROVE  Schema(model, t)' \in schemas'[t]
  <2>1. Schema(model, t)' = Schema(m, t)
    BY <1>1
  <2> QED
    BY <1>1, <1>2, <2>1
<1> QED
  BY <1>1, <1>2 DEF TypesAreNoted

LEMMA DisturbKeeps == ReportIsSound(taken) /\ Disturb => ReportIsSound(taken)'
<1> SUFFICES ASSUME ReportIsSound(taken), Disturb, taken' # Absent, taken' # taken
             PROVE  ReportIsSound(taken')
  BY DEF ReportIsSound
<1>1. taken # Absent /\ taken' = [taken EXCEPT !.quiet = FALSE]
  BY DEF Disturb
<1>2. taken = [k \in {"left", "quiet", "rows"} |-> taken[k]]
  BY <1>1 DEF ReportIsSound
<1>3. /\ taken' = [k \in {"left", "quiet", "rows"} |-> taken'[k]]
      /\ taken'.left = taken.left /\ taken'.rows = taken.rows
  BY <1>1, <1>2
<1> QED
  BY <1>1, <1>3 DEF ReportIsSound

LEMMA ModelStepKeeps == ModelsInv /\ ModelStep => ModelsInv'
<1> SUFFICES ASSUME ModelsInv, ModelStep PROVE ModelsInv'
  OBVIOUS
<1>1. PICK m : Become(m)
  BY DEF ModelStep
<1>2. Disturb /\ UNCHANGED <<blueprints, pages, forms>>
  BY DEF ModelStep
<1>3. TypesAreNoted' /\ \A t \in TypeAliases : schemas[t] \subseteq schemas'[t]
  BY <1>1, BecomeNotes
<1>4. /\ \A p \in PageIds : PageIsSound(pages[p], schemas')
      /\ \A e \in Editors : FormIsSound(forms[e], schemas')
  BY <1>3, KnownStaysKnown DEF ModelsInv
<1>5. ReportIsSound(taken)'
  BY <1>2, DisturbKeeps DEF ModelsInv
<1> QED
  BY <1>2, <1>3, <1>4, <1>5 DEF ModelsInv

-----------------------------------------------------------------------------
(* Reports and blueprints.                                                 *)

LEMMA NothingInNone == ASSUME NEW S, NEW s \in Seq(S), Len(s) = 0 PROVE s = <<>>
OBVIOUS

LEMMA BeginReportKeeps == BeginReport => ReportIsSound(taken)'
<1> SUFFICES ASSUME BeginReport PROVE ReportIsSound(taken')
  OBVIOUS
<1>1. taken' = [left |-> ReportOrder, quiet |-> TRUE, rows |-> EmptyReport]
  BY DEF BeginReport
<1>2. /\ ReportOrder \in Seq(ToSet(ReportOrder)) /\ ReportOrder # <<>>
      /\ ReportOrder[Len(ReportOrder)] = "blueprints"
  <2>1. ReportOrder \in Seq(ToSet(ReportOrder))
    BY DEF ReportOrder, ToSet
  <2>2. Len(ReportOrder) = 5 /\ ReportOrder[5] = "blueprints"
    BY DEF ReportOrder
  <2>3. ReportOrder # <<>>
    BY DEF ReportOrder
  <2> QED
    BY <2>1, <2>2, <2>3
<1>3. EmptyReport = [table \in ToSet(ReportOrder) |-> EmptyReport[table]]
  BY DEF EmptyReport
<1> QED
  BY <1>1, <1>2, <1>3 DEF ReportIsSound

LEMMA ReadTableKeeps ==
  ASSUME ModelsInv, ReadTable
  PROVE  ReportIsSound(taken')
<1> DEFINE left == taken.left
           table == Head(left)
           listed == IF table = "blueprints" THEN blueprints ELSE Report(model)[table]
           rows == [taken.rows EXCEPT ![table] = listed]
<1>0. taken # Absent /\ left # <<>>
  BY DEF ReadTable
<1>1. /\ taken = [k \in {"left", "quiet", "rows"} |-> taken[k]]
      /\ left \in Seq(ToSet(ReportOrder)) /\ left[Len(left)] = "blueprints"
      /\ taken.rows = [t \in ToSet(ReportOrder) |-> taken.rows[t]]
  BY <1>0 DEF ModelsInv, ReportIsSound
<1>2. taken' = [taken EXCEPT !.left = Tail(left), !.rows = rows]
  <2>1. taken' = [taken EXCEPT !.left = Tail(left), !.rows[table] = listed]
    BY DEF ReadTable
  <2> HIDE DEF table, listed, left
  <2> QED
    BY <1>1, <2>1
<1> HIDE DEF rows
<1>3. /\ taken' = [k \in {"left", "quiet", "rows"} |-> taken'[k]]
      /\ taken'.left = Tail(left) /\ taken'.rows = rows
  BY <1>1, <1>2
<1>4. /\ Tail(left) \in Seq(ToSet(ReportOrder))
      /\ Tail(left) # <<>> => Tail(left)[Len(Tail(left))] = "blueprints"
      /\ Tail(left) = <<>> => table = "blueprints"
  <2> HIDE DEF left
  <2>1. Len(left) \in Nat /\ Len(left) # 0 /\ Len(Tail(left)) = Len(left) - 1
    BY <1>0, <1>1
  <2>2. CASE Len(left) = 1
    <3>1. Tail(left) \in Seq(ToSet(ReportOrder)) /\ Len(Tail(left)) = 0
      BY <1>0, <1>1, <2>1, <2>2
    <3>2. Tail(left) = <<>>
      BY <3>1, NothingInNone
    <3>3. table = "blueprints"
      <4>1. Head(left) = left[1]
        BY <1>0, <1>1, <2>2
      <4> QED
        BY <1>1, <2>2, <4>1
    <3> QED
      BY <3>1, <3>2, <3>3
  <2>3. CASE Len(left) > 1
    <3>1. Tail(left)[Len(left) - 1] = left[Len(left)]
      BY <1>0, <1>1, <2>1, <2>3
    <3> QED
      BY <1>0, <1>1, <2>1, <2>3, <3>1
  <2> QED
    BY <2>1, <2>2, <2>3
<1>5. rows = [t \in ToSet(ReportOrder) |-> rows[t]]
  BY <1>1 DEF rows
<1>6. ASSUME Tail(left) = <<>>
      PROVE  BlueprintsAreSound(rows.blueprints)
  <2>1. "blueprints" \in ToSet(ReportOrder)
    <3>1. ReportOrder[5] = "blueprints" /\ 5 \in DOMAIN ReportOrder
      BY DEF ReportOrder
    <3> QED
      BY <3>1 DEF ToSet
  <2>2. rows = [taken.rows EXCEPT !["blueprints"] = blueprints]
    BY <1>4, <1>6 DEF rows
  <2>3. rows.blueprints = blueprints
    BY <1>1, <2>1, <2>2
  <2> QED
    BY <2>3 DEF ModelsInv
<1> HIDE DEF left
<1> QED
  BY <1>3, <1>4, <1>5, <1>6 DEF ReportIsSound

LEMMA BlueprintOf ==
  ASSUME NEW m, NEW t, NEW payload
  PROVE  Blueprint(m, t, payload).type = t
BY DEF Blueprint

LEMMA ReportStepKeeps ==
  ASSUME ModelsInv, BeginReport \/ ReadTable
  PROVE  ModelsInv'
<1>1. ReportIsSound(taken')
  BY BeginReportKeeps, ReadTableKeeps
<1>2. UNCHANGED <<model, blueprints, pages, forms, schemas>>
  BY DEF BeginReport, ReadTable
<1>3. TypesAreNoted'
  BY <1>2 DEF ModelsInv, TypesAreNoted
<1> QED
  BY <1>1, <1>2, <1>3 DEF ModelsInv

LEMMA RestoreReportKeeps == ModelsInv /\ RestoreReport => ModelsInv'
<1> SUFFICES ASSUME ModelsInv, RestoreReport PROVE ModelsInv'
  OBVIOUS
<1>1. PICK m :
        /\ Become(m)
        /\ blueprints' = [b \in BlueprintIds |->
             IF taken.rows.blueprints[b] = Absent THEN blueprints[b]
             ELSE Blueprint(m, taken.rows.blueprints[b].type, taken.rows.blueprints[b].payload)]
  BY DEF RestoreReport
<1>2. IsReported /\ UNCHANGED <<pages, forms, taken>>
  BY DEF RestoreReport
<1>3. TypesAreNoted' /\ \A t \in TypeAliases : schemas[t] \subseteq schemas'[t]
  BY <1>1, BecomeNotes
<1>4. /\ \A p \in PageIds : PageIsSound(pages[p], schemas')
      /\ \A e \in Editors : FormIsSound(forms[e], schemas')
  BY <1>3, KnownStaysKnown DEF ModelsInv
<1>5. blueprints' = [b \in BlueprintIds |-> blueprints'[b]] /\ BlueprintsAreSound(blueprints')
  <2>1. BlueprintsAreSound(taken.rows.blueprints) /\ BlueprintsAreSound(blueprints)
    BY <1>2 DEF IsReported, ModelsInv, ReportIsSound
  <2>2. ASSUME NEW b \in BlueprintIds, blueprints'[b] # Absent
        PROVE  blueprints'[b].type \in TypeAliases
    BY <1>1, <2>1, <2>2, BlueprintOf DEF BlueprintsAreSound
  <2> QED
    BY <1>1, <2>2 DEF BlueprintsAreSound
<1> QED
  BY <1>2, <1>3, <1>4, <1>5 DEF ModelsInv

LEMMA BlueprintStepKeeps ==
  ASSUME ModelsInv, NEW b \in BlueprintIds,
         \/ DeleteBlueprint(b)
         \/ \E t \in TypeAliases, payload \in Values : SaveBlueprint(b, t, payload)
  PROVE  ModelsInv'
<1>1. PICK row : /\ row # Absent => row.type \in TypeAliases
                 /\ blueprints' = [blueprints EXCEPT ![b] = row]
  BY BlueprintOf DEF DeleteBlueprint, SaveBlueprint
<1>2. Disturb /\ UNCHANGED <<model, pages, forms, schemas>>
  BY DEF DeleteBlueprint, SaveBlueprint
<1>3. blueprints' = [c \in BlueprintIds |-> blueprints'[c]] /\ BlueprintsAreSound(blueprints')
  BY <1>1 DEF ModelsInv, BlueprintsAreSound
<1>4. ReportIsSound(taken)'
  BY <1>2, DisturbKeeps DEF ModelsInv
<1>5. TypesAreNoted'
  BY <1>2 DEF ModelsInv, TypesAreNoted
<1> QED
  BY <1>2, <1>3, <1>4, <1>5 DEF ModelsInv

-----------------------------------------------------------------------------
(* Pages.                                                                  *)

LEMMA FillKeeps ==
  ASSUME ModelsInv, NEW e \in Editors, NEW form, FormIsSound(form, schemas), Fill(e, form)
  PROVE  ModelsInv'
<1>1. forms' = [forms EXCEPT ![e] = form] /\ UNCHANGED <<model, blueprints, pages, schemas, taken>>
  BY DEF Fill
<1>2. /\ forms' = [f \in Editors |-> forms'[f]]
      /\ \A f \in Editors : FormIsSound(forms'[f], schemas)
  BY <1>1 DEF ModelsInv
<1>3. TypesAreNoted' /\ BlueprintsAreSound(blueprints') /\ ReportIsSound(taken')
  BY <1>1 DEF ModelsInv, TypesAreNoted
<1> QED
  BY <1>1, <1>2, <1>3 DEF ModelsInv

LEMMA PageChanges ==
  ASSUME ModelsInv, NEW p \in PageIds, NEW page, PageIsSound(page, schemas),
         pages' = [pages EXCEPT ![p] = page],
         UNCHANGED <<model, blueprints, schemas, taken>>,
         forms' = forms \/ \E e \in Editors : forms' = [forms EXCEPT ![e] = Idle]
  PROVE  ModelsInv'
<1>1. /\ pages' = [q \in PageIds |-> pages'[q]]
      /\ \A q \in PageIds : PageIsSound(pages'[q], schemas)
  BY DEF ModelsInv
<1>2. FormIsSound(Idle, schemas)
  BY DEF FormIsSound, Idle
<1>3. /\ forms' = [f \in Editors |-> forms'[f]]
      /\ \A f \in Editors : FormIsSound(forms'[f], schemas)
  BY <1>2 DEF ModelsInv
<1>4. TypesAreNoted' /\ BlueprintsAreSound(blueprints') /\ ReportIsSound(taken')
  BY DEF ModelsInv, TypesAreNoted
<1> QED
  BY <1>1, <1>3, <1>4 DEF ModelsInv

LEMMA BeginKeeps ==
  ASSUME ModelsInv, NEW e \in Editors, NEW t \in TypeAliases, NEW parent, NEW payload,
         Begin(e, t, parent, payload)
  PROVE  ModelsInv'
<1> DEFINE form == [at |-> "begun", type |-> t, parent |-> parent, payload |-> payload]
<1>1. FormIsSound(form, schemas)
  BY DEF FormIsSound
<1>2. Fill(e, form)
  BY DEF Begin
<1> QED
  BY <1>1, <1>2, FillKeeps

\* The fields that are read are those of the type by then, which are noted.
LEMMA ReadTypeKeeps ==
  ASSUME ModelsInv, NEW e \in Editors, ReadType(e)
  PROVE  ModelsInv'
<1> DEFINE old == forms[e]
           form == [at |-> "typed", type |-> old.type, parent |-> old.parent,
                    payload |-> old.payload, schema |-> Schema(model, old.type)]
<1>1. old.at = "begun" /\ old.type \in DOMAIN model.types /\ Fill(e, form)
  BY DEF ReadType
<1>2. old.type \in TypeAliases
  BY <1>1 DEF ModelsInv, FormIsSound
<1>3. Schema(model, old.type) \in schemas[old.type]
  BY <1>1, <1>2 DEF ModelsInv, TypesAreNoted
<1>4. FormIsSound(form, schemas)
  BY <1>2, <1>3 DEF FormIsSound
<1> HIDE DEF form
<1> QED
  BY <1>1, <1>4, FillKeeps

LEMMA CheckPlaceKeeps ==
  ASSUME ModelsInv, NEW e \in Editors, CheckPlace(e)
  PROVE  ModelsInv'
<1> DEFINE old == forms[e]
           form == [old EXCEPT !.at = "allowed"]
<1>1. old.at = "typed" /\ Fill(e, form)
  BY DEF CheckPlace
<1>2. FormIsSound(old, schemas)
  BY DEF ModelsInv
<1>3. FormIsSound(form, schemas)
  <2>1. old = [k \in {"at", "type", "parent", "payload", "schema"} |-> old[k]]
    BY <1>1, <1>2 DEF FormIsSound
  <2>2. /\ form = [k \in {"at", "type", "parent", "payload", "schema"} |-> form[k]]
        /\ form.type = old.type /\ form.schema = old.schema
    BY <2>1
  <2> QED
    BY <1>1, <1>2, <2>2 DEF FormIsSound
<1> HIDE DEF form
<1> QED
  BY <1>1, <1>3, FillKeeps

\* The payload is cleaned with the fields that were read, and checked with them.
LEMMA InsertKeeps ==
  ASSUME ModelsInv, NEW e \in Editors, NEW p \in PageIds, Insert(e, p)
  PROVE  ModelsInv'
<1> DEFINE form == forms[e]
           page == [type |-> form.type, draft |-> Clean(form.schema, form.payload)]
<1>1. /\ form.at = "allowed" /\ Fits(form.schema, form.payload)
      /\ pages' = [pages EXCEPT ![p] = page] /\ forms' = [forms EXCEPT ![e] = Idle]
      /\ UNCHANGED <<model, blueprints, schemas, taken>>
  BY DEF Insert
<1>2. form.type \in TypeAliases /\ form.schema \in schemas[form.type]
  BY <1>1 DEF ModelsInv, FormIsSound
<1>3. DraftFits(page, schemas)
  BY <1>1, <1>2, CleanFits DEF DraftFits
<1>4. PageIsSound(page, schemas)
  BY <1>2, <1>3 DEF PageIsSound
<1> HIDE DEF page
<1> QED
  BY <1>1, <1>4, PageChanges

LEMMA EditKeeps ==
  ASSUME ModelsInv, NEW p \in PageIds, NEW payload, Edit(p, payload)
  PROVE  ModelsInv'
<1> DEFINE old == pages[p]
           schema == Schema(model, old.type)
           draft == Clean(schema, payload)
           page == [old EXCEPT !.draft = draft]
<1> HIDE DEF schema, draft
<1>1. /\ old # Absent /\ old.type \in DOMAIN model.types /\ Fits(schema, payload)
      /\ pages' = [pages EXCEPT ![p].draft = draft]
      /\ UNCHANGED <<model, blueprints, forms, schemas, taken>>
  BY DEF Edit, schema, draft
<1>2. old.type \in TypeAliases /\ old = [k \in {"type", "draft"} |-> old[k]]
  BY <1>1 DEF ModelsInv, PageIsSound
<1>3. schema \in schemas[old.type]
  BY <1>1, <1>2 DEF ModelsInv, TypesAreNoted, schema
<1>4. /\ page = [k \in {"type", "draft"} |-> page[k]]
      /\ page.type = old.type /\ page.draft = draft
  BY <1>2
<1>5. pages' = [pages EXCEPT ![p] = page]
  BY <1>1 DEF ModelsInv
<1> HIDE DEF page
<1>6. PageIsSound(page, schemas)
  BY <1>1, <1>2, <1>3, <1>4, CleanFits DEF PageIsSound, DraftFits, draft
<1> QED
  BY <1>1, <1>5, <1>6, PageChanges

LEMMA EditorStepKeeps ==
  ASSUME ModelsInv, NEW e \in Editors, EditorStep(e)
  PROVE  ModelsInv'
<1>1. ASSUME NEW t \in TypeAliases, NEW parent, NEW payload, Begin(e, t, parent, payload)
      PROVE  ModelsInv'
  BY <1>1, BeginKeeps
<1>2. ASSUME NEW b \in BlueprintIds, NEW parent, NEW overrides,
             BeginFromBlueprint(e, b, parent, overrides)
      PROVE  ModelsInv'
  <2>1. blueprints[b].type \in TypeAliases
    BY <1>2 DEF BeginFromBlueprint, ModelsInv, BlueprintsAreSound
  <2>2. \E payload : Begin(e, blueprints[b].type, parent, payload)
    BY <1>2 DEF BeginFromBlueprint
  <2> QED
    BY <2>1, <2>2, BeginKeeps
<1>3. ASSUME Abandon(e)
      PROVE  ModelsInv'
  <2>1. FormIsSound(Idle, schemas)
    BY DEF FormIsSound, Idle
  <2> QED
    BY <1>3, <2>1, FillKeeps DEF Abandon
<1> QED
  BY <1>1, <1>2, <1>3, ReadTypeKeeps, CheckPlaceKeeps, InsertKeeps DEF EditorStep

LEMMA ModelsStart == ModelsInit => ModelsInv
<1> SUFFICES ASSUME ModelsInit PROVE ModelsInv
  OBVIOUS
<1>1. TypesAreNoted
  <2>1. DOMAIN model.types = {}
    BY DEF ModelsInit
  <2> QED
    BY <2>1 DEF TypesAreNoted
<1>2. FormIsSound(Idle, schemas)
  BY DEF FormIsSound, Idle
<1> QED
  BY <1>1, <1>2 DEF ModelsInit, ModelsInv, BlueprintsAreSound, PageIsSound, ReportIsSound

LEMMA ModelsGoOn == ModelsInv /\ [ModelsNext]_modelVars => ModelsInv'
<1> SUFFICES ASSUME ModelsInv, [ModelsNext]_modelVars PROVE ModelsInv'
  OBVIOUS
<1>1. CASE UNCHANGED modelVars
  BY <1>1 DEF modelVars, ModelsInv, TypesAreNoted
<1> QED
  BY <1>1, ModelStepKeeps, ReportStepKeeps, RestoreReportKeeps, BlueprintStepKeeps, EditorStepKeeps,
    EditKeeps DEF ModelsNext

\* However types, groups and data types change, are reported and imported while
\* pages are created, from blueprints or without, by any number of editors: every
\* draft is one that some version of its content type would have accepted.
THEOREM DraftsFit == ModelsSpec => []DraftsFitASchema
<1>1. ModelsInv => DraftsFitASchema
  BY DEF ModelsInv, PageIsSound, DraftFits, DraftsFitASchema
<1> QED
  BY <1>1, ModelsStart, ModelsGoOn, PTL DEF ModelsSpec

-----------------------------------------------------------------------------
(* The content model: what its tables, and a report's, are made of, and how *)
(* they refer to each other.                                               *)

Tables == {"dataTypes", "templates", "compositions", "types"}
TypeColumns == {"fields", "groups", "template", "children", "atRoot", "element"}

AreFields(fields) == \A f \in DOMAIN fields : fields[f] \in Fields
RowOK(table, row) ==
  CASE table = "dataTypes" -> row \in Limits \cup {Absent}
    [] table = "templates" -> TRUE
    [] table = "compositions" -> AreFields(row)
    [] table = "types" -> /\ row = [k \in TypeColumns |-> row[k]]
                          /\ AreFields(row.fields)
                          /\ row.groups \in Seq(CompositionAliases)
RowsOK(table, rows) ==
  IsFiniteSet(DOMAIN rows) /\ \A a \in DOMAIN rows : RowOK(table, rows[a])

\* Whatever is named is there.
IsClosed(m) ==
  /\ \A c \in DOMAIN m.compositions :
       DOMAIN m.compositions[c] # {} /\ Resolvable(m, m.compositions[c])
  /\ \A t \in DOMAIN m.types :
       /\ Resolvable(m, m.types[t].fields)
       /\ m.types[t].template \in DOMAIN m.templates
       /\ ToSet(m.types[t].groups) \subseteq DOMAIN m.compositions
  /\ \A a \in DOMAIN m.templates : m.templates[a] \subseteq DOMAIN m.types

ModelOK(m) ==
  /\ m = [table \in Tables |-> m[table]]
  /\ \A table \in Tables : RowsOK(table, m[table])
  /\ IsClosed(m)

\* A finite set in some order.
LEMMA InSomeOrder ==
  ASSUME NEW S, IsFiniteSet(S)
  PROVE  /\ SetToSeq(S) \in Seq(S) /\ Len(SetToSeq(S)) = Cardinality(S)
         /\ \A x \in S : \E i \in 1..Cardinality(S) : SetToSeq(S)[i] = x
<1> DEFINE n == Cardinality(S)
           P(f) == f \in [1..n -> S] /\ IsInjective(f)
<1>1. n \in Nat /\ ExistsBijection(1..n, S)
  BY FS_CardinalityType
<1>2. PICK g : g \in Bijection(1..n, S)
  BY <1>1 DEF ExistsBijection
<1>3. P(g)
  BY <1>2 DEF Bijection, Injection, IsInjective
<1> DEFINE f == SetToSeq(S)
<1>4. \E h : P(h)
  BY <1>3
<1>5. P(f)
  <2> HIDE DEF P
  <2>1. f = CHOOSE h : P(h)
    BY DEF SetToSeq, P
  <2> QED
    BY <1>4, <2>1
<1> HIDE DEF f
<1>6. f \in Injection(1..n, S)
  BY <1>5 DEF Injection, IsInjective
<1>7. Cardinality(1..n) = n
  BY <1>1, FS_Interval
<1>8. f \in Surjection(1..n, S)
  BY <1>6, <1>7, FS_Injection
<1>9. f \in Seq(S) /\ Len(f) = n
  BY <1>1, <1>5
<1> QED
  BY <1>8, <1>9 DEF f, Surjection

LEMMA ModelIsNotRaised == ASSUME NEW m, ModelOK(m) PROVE m # Raised
<1>1. DOMAIN m = Tables
  BY DEF ModelOK
<1>2. DOMAIN Raised = {"raised"}
  BY DEF Raised
<1> QED
  BY <1>1, <1>2 DEF Tables

\* A field that takes over the limit of its data type.
LEMMA ResolveKeeps ==
  ASSUME NEW m, NEW fields, AreFields(fields), Resolvable(m, fields),
         RowsOK("dataTypes", m.dataTypes)
  PROVE  /\ AreFields(Resolve(m, fields)) /\ DOMAIN Resolve(m, fields) = DOMAIN fields
         /\ Resolvable(m, Resolve(m, fields))
<1> DEFINE r == Resolve(m, fields)
<1>1. DOMAIN r = DOMAIN fields
  BY DEF Resolve
<1>2. ASSUME NEW f \in DOMAIN fields
      PROVE  r[f] \in Fields /\ r[f].data = fields[f].data
  <2>1. fields[f] \in Fields
    BY DEF AreFields
  <2>2. CASE fields[f].data = Absent \/ fields[f].limit # Absent
    BY <2>1, <2>2 DEF Resolve
  <2>3. CASE ~(fields[f].data = Absent \/ fields[f].limit # Absent)
    <3>1. m.dataTypes[fields[f].data] \in Limits \cup {Absent}
      BY <2>3 DEF Resolvable, RowsOK, RowOK
    <3>2. r[f] = [fields[f] EXCEPT !.limit = m.dataTypes[fields[f].data]]
      BY <2>3 DEF Resolve
    <3> QED
      BY <2>1, <3>1, <3>2 DEF Fields
  <2> QED
    BY <2>2, <2>3
<1> QED
  BY <1>1, <1>2 DEF AreFields, Resolvable

\* Of finitely many numbers one is the last.
LEMMA LastOfMany ==
  ASSUME NEW n \in Nat, NEW S, S \subseteq 1..n, S # {}
  PROVE  \E i \in S : \A j \in S : j <= i
<1> DEFINE H == {k \in Nat : \A T : T \subseteq 1..k /\ T # {} => \E i \in T : \A j \in T : j <= i}
<1>1. 0 \in H
  OBVIOUS
<1>2. ASSUME NEW k \in Nat, k \in H
      PROVE  k+1 \in H
  <2> SUFFICES ASSUME NEW T, T \subseteq 1..(k+1), T # {}
               PROVE  \E i \in T : \A j \in T : j <= i
    OBVIOUS
  <2>1. CASE k+1 \in T
    BY <2>1
  <2>2. CASE k+1 \notin T
    <3>1. T \subseteq 1..k
      BY <2>2
    <3> QED
      BY <1>2, <3>1
  <2> QED
    BY <2>1, <2>2
<1>3. Nat \subseteq H
  <2> HIDE DEF H
  <2> QED
    BY <1>1, <1>2, SetInduction
<1> QED
  BY <1>3

LEMMA MergeKeeps ==
  ASSUME NEW m, NEW groups, NEW n \in Nat, DOMAIN groups = 1..n,
         \A i \in 1..n : AreFields(groups[i]) /\ Resolvable(m, groups[i])
  PROVE  AreFields(Merge(groups)) /\ Resolvable(m, Merge(groups))
<1> SUFFICES ASSUME NEW f \in DOMAIN Merge(groups)
             PROVE  /\ Merge(groups)[f] \in Fields
                    /\ Merge(groups)[f].data # Absent =>
                         Merge(groups)[f].data \in DOMAIN m.dataTypes
  BY DEF AreFields, Resolvable
<1> DEFINE H == Having(groups, f)
           P(i) == i \in H /\ \A j \in H : j <= i
           last == CHOOSE i : P(i)
<1>1. H \subseteq 1..n /\ H # {}
  BY DEF Merge, Having
<1>2. \E i : P(i)
  <2> HIDE DEF H
  <2> QED
    BY <1>1, LastOfMany
<1>3. P(last)
  <2> HIDE DEF P
  <2> QED
    BY <1>2
<1>4. last \in 1..n /\ f \in DOMAIN groups[last]
  BY <1>3 DEF Having
<1>5. Merge(groups)[f] = groups[last][f]
  BY DEF Merge
<1> HIDE DEF last
<1> QED
  BY <1>4, <1>5 DEF AreFields, Resolvable

LEMMA SchemaKeeps ==
  ASSUME NEW m, ModelOK(m), NEW t \in DOMAIN m.types
  PROVE  AreFields(Schema(m, t)) /\ Resolvable(m, Schema(m, t))
<1> DEFINE row == m.types[t]
           parts == [i \in DOMAIN row.groups |-> m.compositions[row.groups[i]]]
           groups == Append(parts, row.fields)
           n == Len(row.groups)
<1>1. /\ row.groups \in Seq(CompositionAliases) /\ AreFields(row.fields)
      /\ Resolvable(m, row.fields) /\ ToSet(row.groups) \subseteq DOMAIN m.compositions
  BY DEF ModelOK, RowsOK, RowOK, Tables, IsClosed
<1>2. n \in Nat /\ DOMAIN row.groups = 1..n
  BY <1>1
<1>3. ASSUME NEW i \in 1..n
      PROVE  AreFields(parts[i]) /\ Resolvable(m, parts[i])
  <2>1. row.groups[i] \in DOMAIN m.compositions
    BY <1>1, <1>2 DEF ToSet
  <2> QED
    BY <1>2, <2>1 DEF ModelOK, RowsOK, RowOK, Tables, IsClosed
<1>4. /\ DOMAIN groups = 1..(n+1) /\ groups[n+1] = row.fields
      /\ \A i \in 1..n : groups[i] = parts[i]
  <2>1. parts \in Seq({parts[i] : i \in 1..n}) /\ Len(parts) = n
    BY <1>2
  <2> HIDE DEF parts
  <2> QED
    BY <1>2, <2>1
<1>5. \A i \in 1..(n+1) : AreFields(groups[i]) /\ Resolvable(m, groups[i])
  <2> HIDE DEF groups, parts, n, row
  <2>1. \A i \in 1..(n+1) : i = n+1 \/ i \in 1..n
    BY <1>2
  <2> QED
    BY <1>1, <1>3, <1>4, <2>1
<1>6. AreFields(Merge(groups)) /\ Resolvable(m, Merge(groups))
  <2> HIDE DEF groups, n, row
  <2>1. n+1 \in Nat
    BY <1>2
  <2> QED
    BY <1>4, <1>5, <2>1, MergeKeeps
<1>7. Schema(m, t) = Resolve(m, Merge(groups))
  BY DEF Schema
<1>8. RowsOK("dataTypes", m.dataTypes)
  BY DEF ModelOK, Tables
<1> QED
  BY <1>6, <1>7, <1>8, ResolveKeeps

\* What is reported is a model as well.
LEMMA ReportKeeps ==
  ASSUME NEW m, ModelOK(m)
  PROVE  ModelOK(Report(m)) /\ DOMAIN Report(m).types = DOMAIN m.types
<1> DEFINE r == Report(m)
           types == [t \in DOMAIN m.types |-> [m.types[t] EXCEPT !.fields = Schema(m, t)]]
<1>0. m = [table \in Tables |-> m[table]]
  BY DEF ModelOK
<1>1. r = [m EXCEPT !.types = types]
  BY DEF Report
<1>2. /\ r = [table \in Tables |-> r[table]] /\ r.types = types
      /\ r.dataTypes = m.dataTypes /\ r.templates = m.templates /\ r.compositions = m.compositions
  <2> HIDE DEF r, types
  <2> QED
    BY <1>0, <1>1 DEF Tables
<1>3. DOMAIN types = DOMAIN m.types
  OBVIOUS
<1>4. ASSUME NEW t \in DOMAIN m.types
      PROVE  /\ types[t] = [k \in TypeColumns |-> types[t][k]]
             /\ types[t].fields = Schema(m, t) /\ types[t].groups = m.types[t].groups
             /\ types[t].template = m.types[t].template
  <2>1. m.types[t] = [k \in TypeColumns |-> m.types[t][k]]
    BY DEF ModelOK, RowsOK, RowOK, Tables
  <2>2. types[t] = [m.types[t] EXCEPT !.fields = Schema(m, t)]
    OBVIOUS
  <2> HIDE DEF types
  <2> QED
    BY <2>1, <2>2 DEF TypeColumns
<1>5. ASSUME NEW t \in DOMAIN m.types
      PROVE  RowOK("types", types[t]) /\ Resolvable(m, types[t].fields)
  <2>1. m.types[t].groups \in Seq(CompositionAliases)
    BY DEF ModelOK, RowsOK, RowOK, Tables
  <2> HIDE DEF types
  <2> QED
    BY <1>4, <2>1, SchemaKeeps DEF RowOK
<1> HIDE DEF r, types
<1>6. \A table \in Tables : RowsOK(table, r[table])
  <2>1. RowsOK("types", r.types)
    BY <1>2, <1>3, <1>5 DEF RowsOK, ModelOK, Tables
  <2> QED
    BY <1>2, <2>1 DEF Tables, ModelOK
<1>7. IsClosed(r)
  <2>1. \A c \in DOMAIN m.compositions : DOMAIN m.compositions[c] # {} /\ Resolvable(r, m.compositions[c])
    BY <1>2 DEF ModelOK, IsClosed, Resolvable
  <2>2. \A t \in DOMAIN m.types :
          /\ Resolvable(r, types[t].fields) /\ types[t].template \in DOMAIN m.templates
          /\ ToSet(types[t].groups) \subseteq DOMAIN m.compositions
    BY <1>2, <1>4, <1>5 DEF ModelOK, IsClosed, Resolvable
  <2>3. \A a \in DOMAIN m.templates : m.templates[a] \subseteq DOMAIN m.types
    BY DEF ModelOK, IsClosed
  <2> QED
    BY <1>2, <1>3, <2>1, <2>2, <2>3 DEF IsClosed
<1> QED
  BY <1>2, <1>3, <1>6, <1>7 DEF ModelOK, r

LEMMA EmptyIsOK == ModelOK(EmptyModel)
<1>1. EmptyModel = [table \in Tables |-> EmptyModel[table]]
  BY DEF EmptyModel, Tables
<1>2. \A table \in Tables : EmptyModel[table] = <<>>
  BY DEF EmptyModel, Tables
<1>3. \A table \in Tables : RowsOK(table, EmptyModel[table])
  <2>1. IsFiniteSet({}) /\ DOMAIN <<>> = {}
    BY FS_EmptySet
  <2> QED
    BY <1>2, <2>1 DEF RowsOK
<1> QED
  BY <1>1, <1>2, <1>3 DEF ModelOK, IsClosed, Tables

-----------------------------------------------------------------------------
(* Saving.                                                                 *)

\* What saving a row asks of the other tables.
CanSave(m, table, alias, row) ==
  CASE table = "dataTypes" -> TRUE
    [] table = "templates" -> row \subseteq DOMAIN m.types
    [] table = "compositions" -> DOMAIN row # {} /\ Resolvable(m, row)
    [] table = "types" ->
         /\ Resolvable(m, row.fields)
         /\ row.template \in DOMAIN m.templates
         /\ m.templates[row.template] # {} => alias \in m.templates[row.template]
         /\ ToSet(row.groups) \subseteq DOMAIN m.compositions

\* The model after some rows of one table have been saved.
After(m, table, rows, done, s) ==
  /\ ModelOK(s)
  /\ \A other \in Tables \ {table} : s[other] = m[other]
  /\ DOMAIN s[table] = DOMAIN m[table] \cup done
  /\ table = "templates" => \A a \in done : s.templates[a] = rows[a]

LEMMA WithOne ==
  ASSUME NEW table, NEW rows, NEW alias, NEW row, RowsOK(table, rows), RowOK(table, row)
  PROVE  RowsOK(table, With(rows, alias, row))
<1> DEFINE w == With(rows, alias, row)
<1>1. /\ DOMAIN w = DOMAIN rows \cup {alias} /\ w[alias] = row
      /\ \A a \in DOMAIN rows \ {alias} : w[a] = rows[a]
  BY DEF With
<1>2. IsFiniteSet(DOMAIN rows \cup {alias})
  BY FS_AddElement DEF RowsOK
<1> HIDE DEF w
<1>3. RowsOK(table, w)
  BY <1>1, <1>2 DEF RowsOK
<1> QED
  BY <1>3 DEF w

LEMMA SaveRowRaises ==
  ASSUME NEW m, ModelOK(m), NEW table \in Tables, NEW alias, NEW row,
         ~CanSave(m, table, alias, row)
  PROVE  SaveRow(m, table, alias, row) = Raised
BY DEF CanSave, SaveRow, SaveTemplate, SaveComposition, SaveType, Tables

LEMMA DataTypeSaved ==
  ASSUME NEW m, ModelOK(m), NEW alias, NEW row, RowOK("dataTypes", row)
  PROVE  /\ ModelOK(SaveDataType(m, alias, row))
         /\ \A other \in Tables \ {"dataTypes"} : SaveDataType(m, alias, row)[other] = m[other]
         /\ SaveDataType(m, alias, row).dataTypes = With(m.dataTypes, alias, row)
<1> DEFINE w == With(m.dataTypes, alias, row)
           s == [m EXCEPT !.dataTypes = w]
<1>1. m = [table \in Tables |-> m[table]] /\ \A table \in Tables : RowsOK(table, m[table])
  BY DEF ModelOK
<1>2. RowsOK("dataTypes", w) /\ DOMAIN w = DOMAIN m.dataTypes \cup {alias}
  <2>1. RowsOK("dataTypes", m.dataTypes)
    BY <1>1 DEF Tables
  <2>2. RowsOK("dataTypes", w)
    BY <2>1, WithOne
  <2> QED
    BY <2>2 DEF With
<1> HIDE DEF w
<1>3. /\ s = [table \in Tables |-> s[table]] /\ s.dataTypes = w
      /\ \A other \in Tables \ {"dataTypes"} : s[other] = m[other]
  BY <1>1 DEF Tables
<1> HIDE DEF s
<1>4. \A table \in Tables : RowsOK(table, s[table])
  BY <1>1, <1>2, <1>3
<1>5. \A fields : Resolvable(m, fields) => Resolvable(s, fields)
  BY <1>2, <1>3 DEF Resolvable
<1>6. s.types = m.types /\ s.compositions = m.compositions /\ s.templates = m.templates
  BY <1>3 DEF Tables
<1>7. IsClosed(s)
  BY <1>5, <1>6 DEF IsClosed, ModelOK
<1> QED
  BY <1>3, <1>4, <1>7 DEF ModelOK, s, w, SaveDataType

LEMMA TemplateSaved ==
  ASSUME NEW m, ModelOK(m), NEW alias, NEW row, row \subseteq DOMAIN m.types
  PROVE  /\ ModelOK(SaveTemplate(m, alias, row))
         /\ \A other \in Tables \ {"templates"} : SaveTemplate(m, alias, row)[other] = m[other]
         /\ SaveTemplate(m, alias, row).templates = With(m.templates, alias, row)
<1> DEFINE w == With(m.templates, alias, row)
           s == [m EXCEPT !.templates = w]
<1>1. m = [table \in Tables |-> m[table]] /\ \A table \in Tables : RowsOK(table, m[table])
  BY DEF ModelOK
<1>2. RowOK("templates", row)
  BY DEF RowOK
<1>3. /\ RowsOK("templates", w) /\ DOMAIN w = DOMAIN m.templates \cup {alias}
      /\ w[alias] = row /\ \A a \in DOMAIN m.templates \ {alias} : w[a] = m.templates[a]
  <2>1. RowsOK("templates", m.templates)
    BY <1>1 DEF Tables
  <2>2. RowsOK("templates", w)
    BY <1>2, <2>1, WithOne
  <2> QED
    BY <2>2 DEF With
<1> HIDE DEF w
<1>4. /\ s = [table \in Tables |-> s[table]] /\ s.templates = w
      /\ \A other \in Tables \ {"templates"} : s[other] = m[other]
  BY <1>1 DEF Tables
<1> HIDE DEF s
<1>5. \A table \in Tables : RowsOK(table, s[table])
  BY <1>1, <1>3, <1>4
<1>6. s.types = m.types /\ s.compositions = m.compositions /\ s.dataTypes = m.dataTypes
  BY <1>4 DEF Tables
<1>7. \A a \in DOMAIN w : w[a] \subseteq DOMAIN m.types
  BY <1>3 DEF ModelOK, IsClosed
<1>8. IsClosed(s)
  BY <1>3, <1>4, <1>6, <1>7 DEF IsClosed, ModelOK, Resolvable
<1> QED
  BY <1>4, <1>5, <1>8 DEF ModelOK, s, w, SaveTemplate

LEMMA CompositionSaved ==
  ASSUME NEW m, ModelOK(m), NEW alias, NEW row, RowOK("compositions", row),
         DOMAIN row # {}, Resolvable(m, row)
  PROVE  /\ ModelOK(SaveComposition(m, alias, row))
         /\ \A other \in Tables \ {"compositions"} : SaveComposition(m, alias, row)[other] = m[other]
         /\ SaveComposition(m, alias, row).compositions
              = With(m.compositions, alias, Resolve(m, row))
<1> DEFINE w == With(m.compositions, alias, Resolve(m, row))
           s == [m EXCEPT !.compositions = w]
<1>1. m = [table \in Tables |-> m[table]] /\ \A table \in Tables : RowsOK(table, m[table])
  BY DEF ModelOK
<1>2. /\ RowOK("compositions", Resolve(m, row)) /\ Resolvable(m, Resolve(m, row))
      /\ DOMAIN Resolve(m, row) # {}
  BY <1>1, ResolveKeeps DEF RowOK, Tables
<1>3. /\ RowsOK("compositions", w) /\ DOMAIN w = DOMAIN m.compositions \cup {alias}
      /\ w[alias] = Resolve(m, row)
      /\ \A a \in DOMAIN m.compositions \ {alias} : w[a] = m.compositions[a]
  <2>1. RowsOK("compositions", m.compositions)
    BY <1>1 DEF Tables
  <2>2. RowsOK("compositions", w)
    BY <1>2, <2>1, WithOne
  <2> QED
    BY <2>2 DEF With
<1> HIDE DEF w
<1>4. /\ s = [table \in Tables |-> s[table]] /\ s.compositions = w
      /\ \A other \in Tables \ {"compositions"} : s[other] = m[other]
  BY <1>1 DEF Tables
<1> HIDE DEF s
<1>5. \A table \in Tables : RowsOK(table, s[table])
  BY <1>1, <1>3, <1>4
<1>6. s.types = m.types /\ s.templates = m.templates /\ s.dataTypes = m.dataTypes
  BY <1>4 DEF Tables
<1>7. \A c \in DOMAIN w : DOMAIN w[c] # {} /\ Resolvable(m, w[c])
  BY <1>2, <1>3 DEF ModelOK, IsClosed
<1>8. IsClosed(s)
  BY <1>3, <1>4, <1>6, <1>7 DEF IsClosed, ModelOK, Resolvable
<1> QED
  BY <1>4, <1>5, <1>8 DEF ModelOK, s, w, SaveComposition

LEMMA TypeSaved ==
  ASSUME NEW m, ModelOK(m), NEW alias, NEW row, RowOK("types", row),
         CanSave(m, "types", alias, row)
  PROVE  /\ ModelOK(SaveType(m, alias, row))
         /\ \A other \in Tables \ {"types"} : SaveType(m, alias, row)[other] = m[other]
         /\ DOMAIN SaveType(m, alias, row).types = DOMAIN m.types \cup {alias}
<1> DEFINE new == [row EXCEPT !.fields = Resolve(m, row.fields)]
           w == With(m.types, alias, new)
           s == [m EXCEPT !.types = w]
<1>0. /\ Resolvable(m, row.fields) /\ row.template \in DOMAIN m.templates
      /\ m.templates[row.template] # {} => alias \in m.templates[row.template]
      /\ ToSet(row.groups) \subseteq DOMAIN m.compositions
  BY DEF CanSave
<1>1. m = [table \in Tables |-> m[table]] /\ \A table \in Tables : RowsOK(table, m[table])
  BY DEF ModelOK
<1>2. /\ row = [k \in TypeColumns |-> row[k]] /\ AreFields(row.fields)
      /\ row.groups \in Seq(CompositionAliases)
  BY DEF RowOK
<1>3. AreFields(Resolve(m, row.fields)) /\ Resolvable(m, Resolve(m, row.fields))
  BY <1>0, <1>1, <1>2, ResolveKeeps DEF Tables
<1>4. /\ new = [k \in TypeColumns |-> new[k]] /\ new.fields = Resolve(m, row.fields)
      /\ new.groups = row.groups /\ new.template = row.template
  BY <1>2 DEF TypeColumns
<1> HIDE DEF new
<1>5. RowOK("types", new)
  BY <1>2, <1>3, <1>4 DEF RowOK
<1>6. /\ RowsOK("types", w) /\ DOMAIN w = DOMAIN m.types \cup {alias} /\ w[alias] = new
      /\ \A a \in DOMAIN m.types \ {alias} : w[a] = m.types[a]
  <2>1. RowsOK("types", m.types)
    BY <1>1 DEF Tables
  <2>2. RowsOK("types", w)
    BY <1>5, <2>1, WithOne
  <2> QED
    BY <2>2 DEF With
<1> HIDE DEF w
<1>7. /\ s = [table \in Tables |-> s[table]] /\ s.types = w
      /\ \A other \in Tables \ {"types"} : s[other] = m[other]
  BY <1>1 DEF Tables
<1>8. SaveType(m, alias, row) = s
  BY <1>0 DEF SaveType, s, w, new
<1> HIDE DEF s
<1>9. \A table \in Tables : RowsOK(table, s[table])
  BY <1>1, <1>6, <1>7
<1>10. s.compositions = m.compositions /\ s.templates = m.templates /\ s.dataTypes = m.dataTypes
  BY <1>7 DEF Tables
<1>11. \A t \in DOMAIN w :
         /\ Resolvable(m, w[t].fields) /\ w[t].template \in DOMAIN m.templates
         /\ ToSet(w[t].groups) \subseteq DOMAIN m.compositions
  BY <1>0, <1>3, <1>4, <1>6 DEF ModelOK, IsClosed
<1>12. IsClosed(s)
  BY <1>6, <1>7, <1>10, <1>11 DEF IsClosed, ModelOK, Resolvable
<1> QED
  BY <1>6, <1>7, <1>8, <1>9, <1>12 DEF ModelOK

LEMMA SaveRowSaves ==
  ASSUME NEW m, ModelOK(m), NEW table \in Tables, NEW alias, NEW row, RowOK(table, row),
         CanSave(m, table, alias, row)
  PROVE  /\ ModelOK(SaveRow(m, table, alias, row))
         /\ \A other \in Tables \ {table} : SaveRow(m, table, alias, row)[other] = m[other]
         /\ DOMAIN SaveRow(m, table, alias, row)[table] = DOMAIN m[table] \cup {alias}
         /\ table = "templates" =>
              SaveRow(m, table, alias, row).templates = With(m.templates, alias, row)
<1> DEFINE s == SaveRow(m, table, alias, row)
<1>0. \A rows, r : DOMAIN With(rows, alias, r) = DOMAIN rows \cup {alias}
  BY DEF With
<1>1. CASE table = "dataTypes"
  <2>1. s = SaveDataType(m, alias, row)
    BY <1>1 DEF SaveRow
  <2>2. ModelOK(SaveDataType(m, alias, row))
    BY <1>1, DataTypeSaved
  <2>3. \A other \in Tables \ {"dataTypes"} : SaveDataType(m, alias, row)[other] = m[other]
    BY <1>1, DataTypeSaved
  <2>4. SaveDataType(m, alias, row).dataTypes = With(m.dataTypes, alias, row)
    BY <1>1, DataTypeSaved
  <2> HIDE DEF s
  <2> QED
    BY <1>0, <1>1, <2>1, <2>2, <2>3, <2>4 DEF s
<1>2. CASE table = "templates"
  <2>1. s = SaveTemplate(m, alias, row)
    BY <1>2 DEF SaveRow
  <2>2. row \subseteq DOMAIN m.types
    BY <1>2 DEF CanSave
  <2>3. ModelOK(SaveTemplate(m, alias, row))
    BY <1>2, <2>2, TemplateSaved
  <2>4. \A other \in Tables \ {"templates"} : SaveTemplate(m, alias, row)[other] = m[other]
    BY <1>2, <2>2, TemplateSaved
  <2>5. SaveTemplate(m, alias, row).templates = With(m.templates, alias, row)
    BY <1>2, <2>2, TemplateSaved
  <2> HIDE DEF s
  <2> QED
    BY <1>0, <1>2, <2>1, <2>3, <2>4, <2>5 DEF s
<1>3. CASE table = "compositions"
  <2>1. s = SaveComposition(m, alias, row)
    BY <1>3 DEF SaveRow
  <2>2. DOMAIN row # {} /\ Resolvable(m, row)
    BY <1>3 DEF CanSave
  <2>3. ModelOK(SaveComposition(m, alias, row))
    BY <1>3, <2>2, CompositionSaved
  <2>4. \A other \in Tables \ {"compositions"} : SaveComposition(m, alias, row)[other] = m[other]
    BY <1>3, <2>2, CompositionSaved
  <2>5. SaveComposition(m, alias, row).compositions = With(m.compositions, alias, Resolve(m, row))
    BY <1>3, <2>2, CompositionSaved
  <2> HIDE DEF s
  <2> QED
    BY <1>0, <1>3, <2>1, <2>3, <2>4, <2>5 DEF s
<1>4. CASE table = "types"
  <2>1. s = SaveType(m, alias, row)
    BY <1>4 DEF SaveRow
  <2>2. ModelOK(SaveType(m, alias, row))
    BY <1>4, TypeSaved
  <2>3. \A other \in Tables \ {"types"} : SaveType(m, alias, row)[other] = m[other]
    BY <1>4, TypeSaved
  <2>4. DOMAIN SaveType(m, alias, row).types = DOMAIN m.types \cup {alias}
    BY <1>4, TypeSaved
  <2> HIDE DEF s
  <2> QED
    BY <1>0, <1>4, <2>1, <2>2, <2>3, <2>4 DEF s
<1> QED
  BY <1>1, <1>2, <1>3, <1>4 DEF Tables

\* A table is saved row by row; if every row can be saved as things are, none
\* raises, since what a row needs is in other tables.
LEMMA SaveAllSaves ==
  ASSUME NEW m, ModelOK(m), NEW table \in Tables, NEW rows, RowsOK(table, rows)
  PROVE  /\ SaveAll(m, table, rows) = Raised
              \/ After(m, table, rows, DOMAIN rows, SaveAll(m, table, rows))
         /\ (\A a \in DOMAIN rows : CanSave(m, table, a, rows[a]))
              => SaveAll(m, table, rows) # Raised
<1> DEFINE order == SetToSeq(DOMAIN rows)
           n == Len(order)
           Done(k) == {order[i] : i \in 1..k}
           all == \A a \in DOMAIN rows : CanSave(m, table, a, rows[a])
           IsRun(f) == f = [k \in 0..n |->
             IF k = 0 THEN m
             ELSE IF f[k-1] = Raised THEN Raised
             ELSE SaveRow(f[k-1], table, order[k], rows[order[k]])]
           saved == CHOOSE f : IsRun(f)
           P(k, s) == (s = Raised \/ After(m, table, rows, Done(k), s)) /\ (all => s # Raised)
<1>1. /\ n \in Nat /\ \A i \in 1..n : order[i] \in DOMAIN rows
      /\ \A a \in DOMAIN rows : \E i \in 1..n : order[i] = a
  <2>1. IsFiniteSet(DOMAIN rows)
    BY DEF RowsOK
  <2>2. Cardinality(DOMAIN rows) \in Nat
    BY <2>1, FS_CardinalityType
  <2>3. /\ order \in Seq(DOMAIN rows) /\ n = Cardinality(DOMAIN rows)
        /\ \A a \in DOMAIN rows : \E i \in 1..n : order[i] = a
    BY <2>1, <2>2, InSomeOrder
  <2> HIDE DEF order
  <2> QED
    BY <2>2, <2>3
<1>2. SaveAll(m, table, rows) = saved[n]
  <2>1. m # Raised
    BY ModelIsNotRaised
  <2> QED
    BY <2>1 DEF SaveAll
<1> HIDE DEF order, n
<1>3. ASSUME NEW k \in 1..n, NEW s, P(k-1, s), s # Raised
      PROVE  P(k, SaveRow(s, table, order[k], rows[order[k]]))
  <2> DEFINE a == order[k]
             row == rows[a]
             new == SaveRow(s, table, a, row)
  <2>1. a \in DOMAIN rows /\ RowOK(table, row)
    BY <1>1 DEF RowsOK
  <2>2. After(m, table, rows, Done(k-1), s)
    BY <1>3
  <2>3. Done(k) = Done(k-1) \cup {a}
    BY <1>1
  <2> HIDE DEF a, Done
  <2>4. CanSave(m, table, a, row) <=> CanSave(s, table, a, row)
    BY <2>2 DEF After, CanSave, Tables, Resolvable
  <2>5. CASE ~CanSave(s, table, a, row)
    <3>1. new = Raised
      BY <2>2, <2>5, SaveRowRaises DEF After
    <3>2. ~all
      BY <2>1, <2>4, <2>5
    <3> QED
      BY <3>1, <3>2 DEF a
  <2>6. CASE CanSave(s, table, a, row)
    <3> HIDE DEF row, all
    <3>1. ModelOK(s)
      BY <2>2 DEF After
    <3>2. ModelOK(new)
      BY <2>1, <2>6, <3>1, SaveRowSaves
    <3>3. \A other \in Tables \ {table} : new[other] = s[other]
      BY <2>1, <2>6, <3>1, SaveRowSaves
    <3>4. DOMAIN new[table] = DOMAIN s[table] \cup {a}
      BY <2>1, <2>6, <3>1, SaveRowSaves
    <3>5. table = "templates" => new.templates = With(s.templates, a, row)
      BY <2>1, <2>6, <3>1, SaveRowSaves
    <3> HIDE DEF new
    <3>6. ASSUME table = "templates", NEW b \in Done(k)
          PROVE  new.templates[b] = rows[b]
      <4>1. b \in DOMAIN s.templates \cup {a}
        BY <2>2, <2>3, <3>6 DEF After
      <4> QED
        BY <2>2, <2>3, <3>5, <3>6, <4>1 DEF After, With, row
    <3>7. After(m, table, rows, Done(k), new)
      BY <2>2, <2>3, <3>2, <3>3, <3>4, <3>6 DEF After
    <3>8. new # Raised
      BY <3>2, ModelIsNotRaised
    <3> QED
      BY <3>7, <3>8 DEF new, row, a
  <2> QED
    BY <2>5, <2>6
<1>4. P(0, m)
  <2>1. Done(0) = {}
    OBVIOUS
  <2>2. After(m, table, rows, {}, m)
    BY DEF After
  <2> QED
    BY <2>1, <2>2, ModelIsNotRaised
<1> HIDE DEF P
<1>5. \A k \in Nat : k > 0 /\ P(k-1, Raised) => P(k, Raised)
  BY DEF P
<1>6. \E f : IsRun(f)
  <2> DEFINE Upto(f, j) == \A k \in 0..j : f[k] = (IF k = 0 THEN m
             ELSE IF f[k-1] = Raised THEN Raised
             ELSE SaveRow(f[k-1], table, order[k], rows[order[k]]))
             H == {j \in Nat : \E f : f = [k \in 0..j |-> f[k]] /\ Upto(f, j)}
  <2>1. 0 \in H
    <3>1. Upto([k \in 0..0 |-> m], 0)
      OBVIOUS
    <3> QED
      BY <3>1
  <2>2. ASSUME NEW j \in Nat, j \in H
        PROVE  j+1 \in H
    <3>1. PICK f : f = [k \in 0..j |-> f[k]] /\ Upto(f, j)
      BY <2>2
    <3> DEFINE next == IF f[j] = Raised THEN Raised
                       ELSE SaveRow(f[j], table, order[j+1], rows[order[j+1]])
               g == [k \in 0..(j+1) |-> IF k = j+1 THEN next ELSE f[k]]
    <3>2. g[j+1] = next /\ \A k \in 0..j : g[k] = f[k]
      OBVIOUS
    <3>3. g = [k \in 0..(j+1) |-> g[k]]
      OBVIOUS
    <3> HIDE DEF g
    <3>4. ASSUME NEW k \in 0..j
          PROVE  g[k] = (IF k = 0 THEN m
             ELSE IF g[k-1] = Raised THEN Raised
             ELSE SaveRow(g[k-1], table, order[k], rows[order[k]]))
      <4>1. k = 0 \/ k-1 \in 0..j
        OBVIOUS
      <4> QED
        BY <3>1, <3>2, <4>1
    <3>5. Upto(g, j+1)
      <4>1. \A k \in 0..(j+1) : k \in 0..j \/ k = j+1
        OBVIOUS
      <4>2. j+1 # 0 /\ (j+1)-1 = j /\ j \in 0..j
        OBVIOUS
      <4>3. g[j+1] = (IF j+1 = 0 THEN m
             ELSE IF g[(j+1)-1] = Raised THEN Raised
             ELSE SaveRow(g[(j+1)-1], table, order[j+1], rows[order[j+1]]))
        BY <3>2, <4>2
      <4> QED
        BY <3>4, <4>1, <4>3
    <3> HIDE DEF Upto
    <3> QED
      BY <3>3, <3>5
  <2>3. n \in H
    <3> HIDE DEF H
    <3> QED
      BY <1>1, <2>1, <2>2, SetInduction
  <2>4. PICK f : f = [k \in 0..n |-> f[k]] /\ Upto(f, n)
    BY <2>3
  <2>5. IsRun(f)
    BY <2>4
  <2> QED
    BY <2>5
<1>7. IsRun(saved)
  <2> HIDE DEF IsRun
  <2> QED
    BY <1>6
<1>8. /\ saved[0] = m
      /\ \A k \in 1..n : saved[k] = IF saved[k-1] = Raised THEN Raised
                                    ELSE SaveRow(saved[k-1], table, order[k], rows[order[k]])
  <2> HIDE DEF saved
  <2>1. 0 \in 0..n /\ \A k \in 1..n : k \in 0..n /\ k # 0
    BY <1>1
  <2> QED
    BY <1>7, <2>1
<1> HIDE DEF saved
<1>9. \A k \in Nat : k \in 0..n => P(k, saved[k])
  <2> DEFINE H == {k \in Nat : k \in 0..n => P(k, saved[k])}
  <2>1. 0 \in H
    BY <1>4, <1>8
  <2>2. ASSUME NEW k \in Nat, k \in H
        PROVE  k+1 \in H
    <3> SUFFICES ASSUME k+1 \in 0..n PROVE P(k+1, saved[k+1])
      OBVIOUS
    <3>1. k+1 \in 1..n /\ (k+1)-1 = k /\ k \in 0..n /\ P(k, saved[k])
      BY <1>1, <2>2
    <3>2. CASE saved[k] = Raised
      BY <1>5, <1>8, <3>1, <3>2
    <3>3. CASE saved[k] # Raised
      BY <1>3, <1>8, <3>1, <3>3
    <3> QED
      BY <3>2, <3>3
  <2> HIDE DEF H
  <2>3. Nat \subseteq H
    BY <2>1, <2>2, SetInduction
  <2> QED
    BY <2>3 DEF H
<1>10. P(n, saved[n])
  BY <1>1, <1>9
<1>11. Done(n) = DOMAIN rows
  BY <1>1
<1> HIDE DEF Done
<1> QED
  BY <1>2, <1>10, <1>11 DEF P

LEMMA NothingAfterRaised == ASSUME NEW table, NEW rows PROVE SaveAll(Raised, table, rows) = Raised
BY DEF SaveAll

\* Types never go, and a report that is closed by itself can be saved into any
\* model: every row finds what it names among the rows saved before it.
LEMMA ImportSaves ==
  ASSUME NEW report, NEW into, ModelOK(into),
         \A table \in Tables : RowsOK(table, report[table])
  PROVE  /\ \/ ImportModel(report, into) = Raised
            \/ /\ ModelOK(ImportModel(report, into))
               /\ DOMAIN into.types \cup DOMAIN report.types
                    \subseteq DOMAIN ImportModel(report, into).types
         /\ IsClosed(report) => ImportModel(report, into) # Raised
<1> DEFINE none == [t \in DOMAIN report.templates |-> {}]
           m1 == SaveAll(into, "dataTypes", report.dataTypes)
           m2 == SaveAll(m1, "templates", none)
           m3 == SaveAll(m2, "compositions", report.compositions)
           m4 == SaveAll(m3, "types", report.types)
           m5 == SaveAll(m4, "templates", report.templates)
<1>0. /\ RowsOK("dataTypes", report.dataTypes) /\ RowsOK("templates", report.templates)
      /\ RowsOK("compositions", report.compositions) /\ RowsOK("types", report.types)
      /\ RowsOK("templates", none)
      /\ {"dataTypes", "templates", "compositions", "types"} \subseteq Tables
  BY DEF Tables, RowsOK, RowOK
<1>1. ImportModel(report, into) = m5
  BY DEF ImportModel
<1>2. /\ m1 = Raised \/ After(into, "dataTypes", report.dataTypes, DOMAIN report.dataTypes, m1)
      /\ m1 # Raised
  <2>1. \A a \in DOMAIN report.dataTypes : CanSave(into, "dataTypes", a, report.dataTypes[a])
    BY DEF CanSave
  <2> QED
    BY <1>0, <2>1, SaveAllSaves
<1> HIDE DEF m1
<1>3. /\ m2 = Raised \/ After(m1, "templates", none, DOMAIN none, m2)
      /\ m2 # Raised
  <2>1. \A a \in DOMAIN none : CanSave(m1, "templates", a, none[a])
    BY DEF CanSave
  <2>2. ModelOK(m1)
    BY <1>2 DEF After
  <2> HIDE DEF none
  <2> QED
    BY <1>0, <2>1, <2>2, SaveAllSaves
<1> HIDE DEF m2
<1>4. /\ m3 = Raised
           \/ After(m2, "compositions", report.compositions, DOMAIN report.compositions, m3)
      /\ IsClosed(report) => m3 # Raised
  <2>1. ModelOK(m2)
    BY <1>3 DEF After
  <2>2. ASSUME IsClosed(report), NEW a \in DOMAIN report.compositions
        PROVE  CanSave(m2, "compositions", a, report.compositions[a])
    <3>1. DOMAIN report.dataTypes \subseteq DOMAIN m2.dataTypes
      BY <1>2, <1>3 DEF After, Tables
    <3> QED
      BY <2>2, <3>1 DEF IsClosed, CanSave, Resolvable
  <2> QED
    BY <1>0, <2>1, <2>2, SaveAllSaves
<1> HIDE DEF m3
<1>5. /\ m4 = Raised \/ After(m3, "types", report.types, DOMAIN report.types, m4)
      /\ IsClosed(report) => m4 # Raised
  <2>0. CASE m3 = Raised
    BY <1>4, <2>0, NothingAfterRaised
  <2> SUFFICES ASSUME m3 # Raised
               PROVE  /\ m4 = Raised \/ After(m3, "types", report.types, DOMAIN report.types, m4)
                      /\ IsClosed(report) => m4 # Raised
    BY <2>0
  <2>1. ModelOK(m3)
    BY <1>4 DEF After
  <2>2. ASSUME IsClosed(report), NEW a \in DOMAIN report.types
        PROVE  CanSave(m3, "types", a, report.types[a])
    <3>1. DOMAIN report.dataTypes \subseteq DOMAIN m3.dataTypes
      BY <1>2, <1>3, <1>4 DEF After, Tables
    <3>2. DOMAIN report.compositions \subseteq DOMAIN m3.compositions
      BY <1>4 DEF After
    <3>3. \A t \in DOMAIN report.templates : t \in DOMAIN m3.templates /\ m3.templates[t] = {}
      BY <1>3, <1>4 DEF After, Tables
    <3> QED
      BY <2>2, <3>1, <3>2, <3>3 DEF IsClosed, CanSave, Resolvable
  <2> QED
    BY <1>0, <2>1, <2>2, SaveAllSaves
<1> HIDE DEF m4
<1>6. /\ m5 = Raised
           \/ After(m4, "templates", report.templates, DOMAIN report.templates, m5)
      /\ IsClosed(report) => m5 # Raised
  <2>0. CASE m4 = Raised
    BY <1>5, <2>0, NothingAfterRaised
  <2> SUFFICES ASSUME m4 # Raised
               PROVE  /\ m5 = Raised
                           \/ After(m4, "templates", report.templates, DOMAIN report.templates, m5)
                      /\ IsClosed(report) => m5 # Raised
    BY <2>0
  <2>1. ModelOK(m4)
    BY <1>5 DEF After
  <2>2. ASSUME IsClosed(report), NEW a \in DOMAIN report.templates
        PROVE  CanSave(m4, "templates", a, report.templates[a])
    <3>1. DOMAIN report.types \subseteq DOMAIN m4.types
      BY <1>5 DEF After
    <3> QED
      BY <2>2, <3>1 DEF IsClosed, CanSave
  <2> QED
    BY <1>0, <2>1, <2>2, SaveAllSaves
<1> HIDE DEF m5
<1>7. ASSUME m5 # Raised
      PROVE  ModelOK(m5) /\ DOMAIN into.types \cup DOMAIN report.types \subseteq DOMAIN m5.types
  <2>1. m4 # Raised /\ m3 # Raised
    BY <1>7, NothingAfterRaised DEF m5, m4
  <2>2. m5.types = m4.types /\ ModelOK(m5)
    BY <1>6, <1>7 DEF After, Tables
  <2>3. DOMAIN m4.types = DOMAIN m3.types \cup DOMAIN report.types
    BY <1>5, <2>1 DEF After
  <2>4. m3.types = into.types
    BY <1>2, <1>3, <1>4, <2>1 DEF After, Tables
  <2> QED
    BY <2>2, <2>3, <2>4
<1> QED
  BY <1>1, <1>6, <1>7

-----------------------------------------------------------------------------
(* Reports of the model.                                                   *)

Reported(report, table) == \A i \in 1..Len(report.left) : report.left[i] # table

\* While nothing was saved since it was begun, what a report has listed is what
\* the model still is. Complete, it is closed by itself, whatever is saved later.
ReportedIsModel(report) ==
  report # Absent =>
    /\ \A table \in Tables : Reported(report, table) => RowsOK(table, report.rows[table])
    /\ report.quiet =>
         IF report.left = <<>>
         THEN IsClosed(report.rows) /\ Placeable(report.rows, report.rows)
         ELSE \A table \in Tables :
                Reported(report, table) => report.rows[table] = Report(model)[table]

BlueprintsHaveTypes(types) ==
  \A b \in BlueprintIds : blueprints[b] # Absent => blueprints[b].type \in types

ReportsInv ==
  /\ ModelsInv
  /\ ModelOK(model)
  /\ BlueprintsHaveTypes(DOMAIN model.types)
  /\ ReportedIsModel(taken)

\* A report that somebody disturbs is not quiet, unless it was complete.
LEMMA DisturbedIsNotQuiet ==
  ASSUME ReportsInv, Disturb
  PROVE  ReportedIsModel(taken)'
<1> SUFFICES ASSUME taken' # Absent PROVE ReportedIsModel(taken)'
  BY DEF ReportedIsModel
<1>1. CASE taken = Absent
  BY <1>1 DEF Disturb
<1>2. CASE IsReported
  <2>1. taken' = taken /\ taken.left = <<>>
    BY <1>2 DEF Disturb, IsReported
  <2> QED
    BY <2>1 DEF ReportsInv, ReportedIsModel, Reported
<1>3. CASE taken # Absent /\ ~IsReported
  <2>1. taken' = [taken EXCEPT !.quiet = FALSE]
    BY <1>3 DEF Disturb
  <2>2. taken = [k \in {"left", "quiet", "rows"} |-> taken[k]]
    BY <1>3 DEF ReportsInv, ModelsInv, ReportIsSound
  <2>3. taken'.left = taken.left /\ taken'.rows = taken.rows /\ ~taken'.quiet
    BY <2>1, <2>2
  <2> QED
    BY <1>3, <2>3 DEF ReportsInv, ReportedIsModel, Reported
<1> QED
  BY <1>1, <1>2, <1>3

\* The rows that ModelStep saves.
LEMMA ModelStepIsSave ==
  ASSUME ModelStep
  PROVE  \E table \in Tables : \E alias, row :
           RowOK(table, row) /\ Become(SaveRow(model, table, alias, row))
<1>1. ASSUME NEW d \in DataTypeAliases, NEW limit \in Limits \cup {Absent},
             Become(SaveDataType(model, d, limit))
      PROVE  RowOK("dataTypes", limit) /\ Become(SaveRow(model, "dataTypes", d, limit))
  <2>1. SaveRow(model, "dataTypes", d, limit) = SaveDataType(model, d, limit)
    BY DEF SaveRow
  <2> QED
    BY <1>1, <2>1 DEF RowOK
<1>2. ASSUME NEW t \in TemplateAliases, NEW allowed, Become(SaveTemplate(model, t, allowed))
      PROVE  RowOK("templates", allowed) /\ Become(SaveRow(model, "templates", t, allowed))
  <2>1. SaveRow(model, "templates", t, allowed) = SaveTemplate(model, t, allowed)
    BY DEF SaveRow
  <2> QED
    BY <1>2, <2>1 DEF RowOK
<1>3. ASSUME NEW c \in CompositionAliases, NEW names, NEW fields \in [names -> Fields],
             Become(SaveComposition(model, c, fields))
      PROVE  RowOK("compositions", fields) /\ Become(SaveRow(model, "compositions", c, fields))
  <2>1. SaveRow(model, "compositions", c, fields) = SaveComposition(model, c, fields)
    BY DEF SaveRow
  <2>2. RowOK("compositions", fields)
    BY DEF RowOK, AreFields
  <2> QED
    BY <1>3, <2>1, <2>2
<1>4. ASSUME NEW t \in TypeAliases, NEW names, NEW fields \in [names -> Fields],
             NEW groups \in {<<>>} \cup {<<c>> : c \in CompositionAliases},
             NEW template, NEW children, NEW atRoot, NEW element,
             Become(SaveType(model, t,
               [fields |-> fields, groups |-> groups, template |-> template,
                children |-> children, atRoot |-> atRoot, element |-> element]))
      PROVE  \E row : RowOK("types", row) /\ Become(SaveRow(model, "types", t, row))
  <2> DEFINE row == [fields |-> fields, groups |-> groups, template |-> template,
                     children |-> children, atRoot |-> atRoot, element |-> element]
  <2>1. SaveRow(model, "types", t, row) = SaveType(model, t, row)
    BY DEF SaveRow
  <2>2. row = [k \in TypeColumns |-> row[k]] /\ row.fields = fields /\ row.groups = groups
    BY DEF TypeColumns
  <2>3. AreFields(fields)
    BY DEF AreFields
  <2>4. groups \in Seq(CompositionAliases)
    <3>1. CASE groups = <<>>
      BY <3>1
    <3>2. CASE \E c \in CompositionAliases : groups = <<c>>
      BY <3>2
    <3> QED
      BY <3>1, <3>2
  <2> HIDE DEF row
  <2>5. RowOK("types", row)
    BY <2>2, <2>3, <2>4 DEF RowOK
  <2> QED
    BY <1>4, <2>1, <2>5 DEF row
<1>5. Tables = {"dataTypes", "templates", "compositions", "types"}
  BY DEF Tables
<1> QED
  BY <1>1, <1>2, <1>3, <1>4, <1>5 DEF ModelStep

LEMMA SavedModelIsOK ==
  ASSUME ReportsInv, ModelStep
  PROVE  ReportsInv'
<1>1. PICK table \in Tables : \E alias, row :
        RowOK(table, row) /\ Become(SaveRow(model, table, alias, row))
  BY ModelStepIsSave
<1>2. PICK alias, row : RowOK(table, row) /\ Become(SaveRow(model, table, alias, row))
  BY <1>1
<1> DEFINE m == SaveRow(model, table, alias, row)
<1>3. model' = m /\ m # Raised
  BY <1>2 DEF Become
<1>4. ModelOK(model)
  BY DEF ReportsInv
<1>5. CanSave(model, table, alias, row)
  BY <1>3, <1>4, SaveRowRaises
<1>6. ModelOK(m)
  BY <1>2, <1>4, <1>5, SaveRowSaves
<1>7. \A other \in Tables \ {table} : m[other] = model[other]
  BY <1>2, <1>4, <1>5, SaveRowSaves
<1>8. DOMAIN m[table] = DOMAIN model[table] \cup {alias}
  BY <1>2, <1>4, <1>5, SaveRowSaves
<1> HIDE DEF m
<1>9. DOMAIN model.types \subseteq DOMAIN m.types
  BY <1>7, <1>8 DEF Tables
<1>10. Disturb /\ blueprints' = blueprints
  BY DEF ModelStep
<1>11. ModelsInv'
  BY ModelStepKeeps DEF ReportsInv
<1>12. BlueprintsHaveTypes(DOMAIN model.types)'
  BY <1>3, <1>9, <1>10 DEF ReportsInv, BlueprintsHaveTypes
<1> QED
  BY <1>3, <1>6, <1>10, <1>11, <1>12, DisturbedIsNotQuiet DEF ReportsInv

LEMMA ReportGoesOn ==
  ASSUME ReportsInv, BeginReport \/ ReadTable
  PROVE  ReportsInv'
<1>1. UNCHANGED <<model, blueprints>>
  BY DEF BeginReport, ReadTable
<1>2. ModelsInv'
  BY ReportStepKeeps DEF ReportsInv
<1>3. ModelOK(model)' /\ BlueprintsHaveTypes(DOMAIN model.types)'
  BY <1>1 DEF ReportsInv, BlueprintsHaveTypes
<1>4. CASE BeginReport
  <2>1. taken' = [left |-> ReportOrder, quiet |-> TRUE, rows |-> EmptyReport]
    BY <1>4 DEF BeginReport
  <2>2. ReportOrder # <<>> /\ \A table \in Tables : \E i \in 1..Len(ReportOrder) : ReportOrder[i] = table
    <3>1. Len(ReportOrder) = 5 /\ ReportOrder # <<>>
      BY DEF ReportOrder
    <3>2. /\ ReportOrder[1] = "dataTypes" /\ ReportOrder[2] = "templates"
          /\ ReportOrder[3] = "compositions" /\ ReportOrder[4] = "types"
      BY DEF ReportOrder
    <3>3. 1 \in 1..5 /\ 2 \in 1..5 /\ 3 \in 1..5 /\ 4 \in 1..5
      OBVIOUS
    <3> QED
      BY <3>1, <3>2, <3>3 DEF Tables
  <2>3. taken'.left = ReportOrder
    BY <2>1
  <2>4. ReportedIsModel(taken)'
    BY <2>2, <2>3 DEF ReportedIsModel, Reported
  <2> QED
    BY <1>2, <1>3, <2>4 DEF ReportsInv
<1>5. CASE ReadTable
  <2> DEFINE left == taken.left
             table == Head(left)
             listed == IF table = "blueprints" THEN blueprints ELSE Report(model)[table]
             rows == [taken.rows EXCEPT ![table] = listed]
  <2>1. taken # Absent /\ left # <<>>
    BY <1>5 DEF ReadTable
  <2>2. /\ taken = [k \in {"left", "quiet", "rows"} |-> taken[k]]
        /\ left \in Seq(ToSet(ReportOrder)) /\ left[Len(left)] = "blueprints"
        /\ taken.rows = [t \in ToSet(ReportOrder) |-> taken.rows[t]]
    BY <2>1 DEF ReportsInv, ModelsInv, ReportIsSound
  <2>3. taken' = [taken EXCEPT !.left = Tail(left), !.rows = rows]
    <3>1. taken' = [taken EXCEPT !.left = Tail(left), !.rows[table] = listed]
      BY <1>5 DEF ReadTable
    <3> HIDE DEF table, listed, left
    <3> QED
      BY <2>2, <3>1
  <2> HIDE DEF rows
  <2>4. taken'.left = Tail(left) /\ taken'.rows = rows /\ taken'.quiet = taken.quiet
    BY <2>2, <2>3
  <2> HIDE DEF left
  <2>5. /\ table \in ToSet(ReportOrder) /\ table = left[1] /\ Len(left) \in Nat \ {0}
        /\ Len(Tail(left)) = Len(left) - 1
        /\ \A i \in 1..Len(Tail(left)) : Tail(left)[i] = left[i+1]
    BY <2>1, <2>2
  <2> HIDE DEF table
  <2>6. \A t \in Tables : Reported(taken', t) /\ t # table => Reported(taken, t)
    <3> SUFFICES ASSUME NEW t \in Tables, Reported(taken', t), t # table, NEW i \in 1..Len(left)
                 PROVE  left[i] # t
      BY DEF Reported, left
    <3>1. CASE i = 1
      BY <2>5, <3>1
    <3>2. CASE i # 1
      <4>1. i - 1 \in 1..Len(Tail(left)) /\ Tail(left)[i-1] = left[i]
        BY <2>5, <3>2
      <4> QED
        BY <2>4, <4>1 DEF Reported
    <3> QED
      BY <3>1, <3>2
  <2>7. rows[table] = listed /\ \A t \in Tables : t # table => rows[t] = taken.rows[t]
    <3>1. Tables \subseteq ToSet(ReportOrder)
      <4>1. /\ ReportOrder[1] = "dataTypes" /\ ReportOrder[2] = "templates"
            /\ ReportOrder[3] = "compositions" /\ ReportOrder[4] = "types"
            /\ DOMAIN ReportOrder = 1..5
        BY DEF ReportOrder
      <4>2. 1 \in 1..5 /\ 2 \in 1..5 /\ 3 \in 1..5 /\ 4 \in 1..5
        OBVIOUS
      <4> QED
        BY <4>1, <4>2 DEF ToSet, Tables
    <3> HIDE DEF listed
    <3> QED
      BY <2>2, <2>5, <3>1 DEF rows
  <2>8. ModelOK(Report(model)) /\ DOMAIN Report(model).types = DOMAIN model.types
    BY ReportKeeps DEF ReportsInv
  <2>9. \A t \in Tables : t = table => rows[t] = Report(model)[t]
    BY <2>7 DEF Tables
  <2>10. \A t \in Tables : Reported(taken', t) => RowsOK(t, rows[t])
    BY <2>1, <2>6, <2>7, <2>8, <2>9 DEF ReportsInv, ReportedIsModel, ModelOK
  <2>11. ASSUME taken.quiet, NEW t \in Tables, Reported(taken', t)
         PROVE  rows[t] = Report(model)[t]
    <3>1. taken.left # <<>>
      BY <2>1 DEF left
    <3> QED
      BY <2>1, <2>6, <2>7, <2>9, <2>11, <3>1 DEF ReportsInv, ReportedIsModel
  <2>12. ASSUME taken.quiet, Tail(left) = <<>>
         PROVE  IsClosed(rows) /\ Placeable(rows, rows)
    <3>1. Len(left) = 1 /\ table = "blueprints"
      <4>1. Len(<<>>) = 0
        OBVIOUS
      <4>2. Len(Tail(left)) = 0
        BY <2>12, <4>1
      <4>3. Len(left) = 1
        <5>1. Len(left) \in Nat /\ Len(Tail(left)) = Len(left) - 1
          BY <2>5
        <5> QED
          BY <4>2, <5>1
      <4> QED
        BY <2>2, <2>5, <4>3
    <3>2. \A t \in Tables : Reported(taken', t)
      <4>1. Len(<<>>) = 0
        OBVIOUS
      <4>2. Len(taken'.left) = 0
        BY <2>4, <2>12, <4>1
      <4> QED
        BY <4>2 DEF Reported
    <3>3. /\ rows.types = Report(model).types /\ rows.templates = Report(model).templates
          /\ rows.compositions = Report(model).compositions
          /\ rows.dataTypes = Report(model).dataTypes
      BY <2>11, <2>12, <3>2 DEF Tables
    <3>4. IsClosed(rows)
      BY <2>8, <3>3 DEF ModelOK, IsClosed, Resolvable
    <3>5. rows.blueprints = blueprints
      BY <2>7, <3>1
    <3>6. Placeable(rows, rows)
      BY <2>8, <3>3, <3>5 DEF Placeable, ReportsInv, BlueprintsHaveTypes
    <3> QED
      BY <3>4, <3>6
  <2>13. Report(model)' = Report(model)
    BY <1>1
  <2>14. ReportedIsModel(taken)'
    BY <2>4, <2>10, <2>11, <2>12, <2>13 DEF ReportedIsModel
  <2> QED
    BY <1>2, <1>3, <2>14 DEF ReportsInv
<1> QED
  BY <1>4, <1>5

\* An import of any report, disturbed or not, leaves a model that is closed.
LEMMA RestoredModelIsOK ==
  ASSUME ReportsInv, RestoreReport
  PROVE  ReportsInv'
<1> DEFINE m == ImportModel(taken.rows, model)
           row(b) == taken.rows.blueprints[b]
<1>1. /\ IsReported /\ Become(m) /\ Placeable(taken.rows, m) /\ taken' = taken
      /\ blueprints' = [b \in BlueprintIds |->
           IF row(b) = Absent THEN blueprints[b] ELSE Blueprint(m, row(b).type, row(b).payload)]
  BY DEF RestoreReport
<1>2. model' = m /\ m # Raised
  BY <1>1 DEF Become
<1>3. taken # Absent /\ taken.left = <<>>
  BY <1>1 DEF IsReported
<1>4. \A table \in Tables : RowsOK(table, taken.rows[table])
  <2>1. \A table \in Tables : Reported(taken, table)
    BY <1>3 DEF Reported
  <2> QED
    BY <1>3, <2>1 DEF ReportsInv, ReportedIsModel
<1>5. ModelOK(m) /\ DOMAIN model.types \subseteq DOMAIN m.types
  BY <1>2, <1>4, ImportSaves DEF ReportsInv
<1>6. ModelsInv'
  BY RestoreReportKeeps DEF ReportsInv
<1> HIDE DEF m
<1>7. ASSUME NEW b \in BlueprintIds, blueprints'[b] # Absent
      PROVE  blueprints'[b].type \in DOMAIN m.types
  <2>1. CASE row(b) = Absent
    BY <1>1, <1>5, <1>7, <2>1 DEF ReportsInv, BlueprintsHaveTypes
  <2>2. CASE row(b) # Absent
    <3>1. row(b).type \in DOMAIN m.types
      BY <1>1, <2>2 DEF Placeable
    <3>2. blueprints'[b] = Blueprint(m, row(b).type, row(b).payload)
      BY <1>1, <2>2
    <3> QED
      BY <3>1, <3>2, BlueprintOf
  <2> QED
    BY <2>1, <2>2
<1>8. BlueprintsHaveTypes(DOMAIN model.types)'
  BY <1>2, <1>7 DEF BlueprintsHaveTypes
<1>9. ReportedIsModel(taken)'
  BY <1>1, <1>3 DEF ReportsInv, ReportedIsModel, Reported
<1> QED
  BY <1>2, <1>5, <1>6, <1>8, <1>9 DEF ReportsInv

LEMMA ReportsStart == ModelsInit => ReportsInv
<1> SUFFICES ASSUME ModelsInit PROVE ReportsInv
  OBVIOUS
<1>1. model = [dataTypes |-> <<>>, compositions |-> <<>>, templates |-> <<>>, types |-> <<>>]
  BY DEF ModelsInit
<1>2. ModelOK(model)
  BY <1>1, EmptyIsOK DEF EmptyModel
<1> QED
  BY <1>2, ModelsStart DEF ModelsInit, ReportsInv, BlueprintsHaveTypes, ReportedIsModel

LEMMA ReportsGoOn == ReportsInv /\ [ModelsNext]_modelVars => ReportsInv'
<1> SUFFICES ASSUME ReportsInv, [ModelsNext]_modelVars PROVE ReportsInv'
  OBVIOUS
<1>1. ModelsInv'
  BY ModelsGoOn DEF ReportsInv
<1>2. ASSUME UNCHANGED <<model, blueprints, taken>>
      PROVE  ReportsInv'
  BY <1>1, <1>2 DEF ReportsInv, BlueprintsHaveTypes, ReportedIsModel, Reported
<1>3. ASSUME NEW b \in BlueprintIds, NEW t \in TypeAliases, NEW payload, SaveBlueprint(b, t, payload)
      PROVE  ReportsInv'
  <2>1. /\ t \in DOMAIN model.types /\ model' = model /\ Disturb
        /\ blueprints' = [blueprints EXCEPT ![b] = Blueprint(model, t, payload)]
    BY <1>3 DEF SaveBlueprint
  <2>2. Blueprint(model, t, payload).type = t
    BY BlueprintOf
  <2>3. BlueprintsHaveTypes(DOMAIN model.types)'
    BY <2>1, <2>2 DEF ReportsInv, ModelsInv, BlueprintsHaveTypes
  <2> QED
    BY <1>1, <2>1, <2>3, DisturbedIsNotQuiet DEF ReportsInv
<1>4. ASSUME NEW b \in BlueprintIds, DeleteBlueprint(b)
      PROVE  ReportsInv'
  <2>1. model' = model /\ Disturb /\ blueprints' = [blueprints EXCEPT ![b] = Absent]
    BY <1>4 DEF DeleteBlueprint
  <2>2. BlueprintsHaveTypes(DOMAIN model.types)'
    BY <2>1 DEF ReportsInv, ModelsInv, BlueprintsHaveTypes
  <2> QED
    BY <1>1, <2>1, <2>2, DisturbedIsNotQuiet DEF ReportsInv
<1>5. ASSUME NEW e \in Editors, EditorStep(e)
      PROVE  UNCHANGED <<model, blueprints, taken>>
  BY <1>5 DEF EditorStep, Begin, BeginFromBlueprint, ReadType, CheckPlace, Abandon, Insert, Fill
<1>6. ASSUME NEW p \in PageIds, NEW payload, Edit(p, payload)
      PROVE  UNCHANGED <<model, blueprints, taken>>
  BY <1>6 DEF Edit
<1>7. UNCHANGED modelVars => UNCHANGED <<model, blueprints, taken>>
  BY DEF modelVars
<1> QED
  BY <1>2, <1>3, <1>4, <1>5, <1>6, <1>7, SavedModelIsOK, ReportGoesOn, RestoredModelIsOK
    DEF ModelsNext

\* A model that was exported while nobody changed it can be imported, into an empty
\* site and into whatever the exporting one has become, however many types, groups,
\* templates and blueprints there are and whatever they name.
THEOREM ReportsCanBeImported == ModelsSpec => []ReportsImport
<1>1. ASSUME ReportsInv
      PROVE  ReportsImport
  <2> SUFFICES ASSUME IsReported, taken.quiet, NEW into, ModelOK(into)
               PROVE  Importable(taken.rows, into)
    BY <1>1, EmptyIsOK DEF ReportsImport, ReportsInv
  <2>1. taken # Absent /\ taken.left = <<>>
    BY DEF IsReported
  <2>2. IsClosed(taken.rows) /\ Placeable(taken.rows, taken.rows)
    BY <1>1, <2>1 DEF ReportsInv, ReportedIsModel
  <2>3. \A table \in Tables : RowsOK(table, taken.rows[table])
    <3>1. \A table \in Tables : Reported(taken, table)
      BY <2>1 DEF Reported
    <3> QED
      BY <1>1, <2>1, <3>1 DEF ReportsInv, ReportedIsModel
  <2>4. /\ ImportModel(taken.rows, into) # Raised
        /\ DOMAIN taken.rows.types \subseteq DOMAIN ImportModel(taken.rows, into).types
    BY <2>2, <2>3, ImportSaves
  <2>5. Placeable(taken.rows, ImportModel(taken.rows, into))
    BY <2>2, <2>4 DEF Placeable
  <2> QED
    BY <2>4, <2>5 DEF Importable
<1> QED
  BY <1>1, ReportsStart, ReportsGoOn, PTL DEF ModelsSpec

-----------------------------------------------------------------------------
(* Requests of the office.                                                 *)

\* Only the root has the empty route, and what is in the bin remembers another.
RoutedRow(n, row) ==
  /\ n # Root /\ row.status \notin {"absent", "purged"} => row.route # <<>>
  /\ row.status = "trashed" => row.origin.route # <<>>
Routed == \A n \in NodeIds : RoutedRow(n, nodes[n])

LEMMA LongerIsNotEmpty ==
  ASSUME NEW r \in Routes, NEW s \in SlugValues
  PROVE  Append(r, s) # <<>> /\ <<s>> # <<>>
<1>1. Len(Append(r, s)) = Len(r) + 1 /\ Len(r) \in Nat /\ Len(<<>>) = 0
  BY DEF Routes
<1>2. Append(r, s) # <<>>
  BY <1>1
<1>3. Len(<<s>>) = 1
  OBVIOUS
<1> QED
  BY <1>1, <1>2, <1>3

\* _route_for never gives the empty route.
LEMMA RouteForLonger ==
  ASSUME TypeOK, NEW parent \in NodeIds \cup {None}, NEW slug \in SlugValues
  PROVE  RouteFor(parent, slug) # <<>>
<1>1. CASE parent = None
  BY <1>1, RouteTypes, LongerIsNotEmpty DEF RouteFor
<1>2. CASE parent # None
  <2>1. nodes[parent].route \in Routes
    BY <1>2 DEF TypeOK, NodeRows
  <2> QED
    BY <1>2, <2>1, LongerIsNotEmpty DEF RouteFor
<1> QED
  BY <1>1, <1>2

\* What _refresh_descendant_routes leaves of a row but its route; a route it
\* writes is longer than the one it starts from.
LEMMA RefreshRoutesSubstance ==
  ASSUME NEW ns \in [NodeIds -> NodeRows], NEW n \in NodeIds, NEW m \in NodeIds
  PROVE  /\ Substance(RefreshRoutes(ns, n)[m]) = Substance(ns[m])
         /\ ns[m].route # <<>> => RefreshRoutes(ns, n)[m].route # <<>>
<1> DEFINE p == CHOOSE p \in PathsDown(ns, n, m) : TRUE
           down == [i \in 1..Len(p) |-> ns[p[i]].slug]
           r == ns[n].route \o down
<1>1. CASE PathsDown(ns, n, m) = {}
  BY <1>1 DEF RefreshRoutes
<1>2. CASE PathsDown(ns, n, m) # {}
  <2>1. p \in Chains
    BY <1>2 DEF PathsDown
  <2>2. r \in Routes
    BY <2>1, PathRouteType DEF NodeRows
  <2>3. RefreshRoutes(ns, n)[m] = [ns[m] EXCEPT !.route = r]
    BY <1>2 DEF RefreshRoutes
  <2>4. r # <<>>
    <3>1. Cardinality(NodeIds) \in Nat
      BY NodeAssumption, FS_CardinalityType
    <3>2. PICK k \in 1..Cardinality(NodeIds) : p \in [1..k -> NodeIds]
      BY <2>1 DEF Chains
    <3>3. k \in Nat \ {0} /\ Len(p) = k
      BY <3>1, <3>2
    <3>4. down \in [1..k -> SlugValues]
      BY <3>2, <3>3 DEF NodeRows
    <3>5. ns[n].route \in Seq(SlugValues)
      BY DEF NodeRows, Routes
    <3> HIDE DEF down
    <3>6. Len(r) = Len(ns[n].route) + k
      BY <3>3, <3>4, <3>5
    <3> QED
      BY <3>3, <3>5, <3>6
  <2> HIDE DEF r
  <2>5. ns[m] \in NodeRows
    OBVIOUS
  <2>6. RefreshRoutes(ns, n)[m].route = r
    BY <2>3, <2>5 DEF NodeRows
  <2>7. Substance([ns[m] EXCEPT !.route = r]) = Substance(ns[m])
    BY <2>5 DEF NodeRows, Substance
  <2> QED
    BY <2>3, <2>4, <2>6, <2>7
<1> QED
  BY <1>1, <1>2

-----------------------------------------------------------------------------
\* What an operation does to pages: to one, and to the others nothing but to
\* their routes.
OnlyOf(n) ==
  \A m \in NodeIds \ {n} : Substance(nodes'[m]) = Substance(nodes[m]) /\ locks'[m] = locks[m]

LEMMA SameSubstance ==
  ASSUME NEW row \in NodeRows, NEW new \in NodeRows, Substance(row) = Substance(new)
  PROVE  row.status = new.status /\ row.origin = new.origin /\ row.pub = new.pub
<1>1. /\ Substance(row).status = row.status /\ Substance(row).origin = row.origin
      /\ Substance(row).pub = row.pub
  BY DEF Substance, NodeRows
<1>2. /\ Substance(new).status = new.status /\ Substance(new).origin = new.origin
      /\ Substance(new).pub = new.pub
  BY DEF Substance, NodeRows
<1> QED
  BY <1>1, <1>2

\* To what is left as it was nothing is done.
LEMMA NothingDone ==
  ASSUME NEW s, NEW n \in NodeIds, nodes[n] \in NodeRows, nodes'[n] \in NodeRows,
         Substance(nodes'[n]) = Substance(nodes[n]), locks'[n] = locks[n]
  PROVE  ActionOn(s, n) = {}
<1>1. /\ nodes[n].status = nodes'[n].status /\ nodes[n].origin = nodes'[n].origin
      /\ nodes[n].pub = nodes'[n].pub
  BY SameSubstance
<1> QED
  BY <1>1 DEF ActionOn

\* All that is done is done to one page.
LEMMA DoneToOne ==
  ASSUME LifecycleInv, LifecycleInv', NEW s, NEW n \in NodeIds, NEW S,
         OnlyOf(n), ActionOn(s, n) \subseteq S
  PROVE  \A m \in NodeIds : ActionOn(s, m) \subseteq S
<1> SUFFICES ASSUME NEW m \in NodeIds PROVE ActionOn(s, m) \subseteq S
  OBVIOUS
<1>1. nodes[m] \in NodeRows /\ nodes'[m] \in NodeRows
  BY DEF LifecycleInv, TypeOK
<1> QED
  BY <1>1, NothingDone DEF OnlyOf

Does(s, ask) == \A m \in NodeIds : ActionOn(s, m) \subseteq {ask}

LEMMA RoutedByOne ==
  ASSUME Routed, NEW n \in NodeIds, \A m \in NodeIds \ {n} : nodes'[m] = nodes[m],
         RoutedRow(n, nodes'[n])
  PROVE  Routed'
<1> SUFFICES ASSUME NEW m \in NodeIds PROVE RoutedRow(m, nodes'[m])
  BY DEF Routed
<1> QED
  BY DEF Routed

\* A new page, be it a copy, is done to the parent it is put under, or to the one
\* the request knows of.
PutUnder(s, parent) ==
  LET known == IF Finds(visits[s].route) THEN visits[s].parent ELSE parent
  IN  <<"create", IF known = None THEN Root ELSE known>>

LEMMA NewPageDoes ==
  ASSUME LifecycleInv, LifecycleInv', Routed, NEW n \in NodeIds,
         NEW parent \in NodeIds \cup {None}, NEW slug \in Slugs, NEW payload,
         Fresh(n), UNCHANGED locks,
         nodes' = [nodes EXCEPT ![n] =
           [BlankRow EXCEPT !.status = "draft", !.parent = parent, !.slug = slug,
                            !.route = RouteFor(parent, slug), !.draft = payload]]
  PROVE  /\ Routed'
         /\ \A s : Does(s, PutUnder(s, parent))
<1> DEFINE row == [BlankRow EXCEPT !.status = "draft", !.parent = parent, !.slug = slug,
                                   !.route = RouteFor(parent, slug), !.draft = payload]
<1>1. row.status = "draft" /\ row.parent = parent /\ row.route = RouteFor(parent, slug)
  BY DEF BlankRow
<1>2. nodes'[n] = row /\ \A m \in NodeIds \ {n} : nodes'[m] = nodes[m]
  BY DEF LifecycleInv, TypeOK
<1> HIDE DEF row
<1>3. OnlyOf(n)
  BY <1>2 DEF OnlyOf
<1>4. ASSUME NEW s
      PROVE  Does(s, PutUnder(s, parent))
  <2>1. ActionOn(s, n) \subseteq {PutUnder(s, parent)}
    BY <1>1, <1>2 DEF ActionOn, Fresh, PutUnder
  <2> QED
    BY <1>3, <2>1, DoneToOne DEF Does
<1>5. RouteFor(parent, slug) # <<>>
  BY RouteForLonger, RouteTypes DEF LifecycleInv
<1>6. RoutedRow(n, nodes'[n])
  BY <1>1, <1>2, <1>5 DEF RoutedRow
<1> QED
  BY <1>2, <1>4, <1>6, RoutedByOne

LEMMA PublishDoes ==
  ASSUME LifecycleInv, LifecycleInv', Routed, NEW s, NEW n \in NodeIds, NEW actor,
         Publish(n, actor) \/ Unpublish(n, actor)
  PROVE  Routed' /\ Does(s, <<"publish", n>>)
<1>1. /\ nodes[n] \in NodeRows /\ nodes'[n] \in NodeRows /\ Exists(n)
      /\ \A m \in NodeIds \ {n} : nodes'[m] = nodes[m]
      /\ UNCHANGED locks
  BY DEF LifecycleInv, TypeOK, Publish, Unpublish
<1>2. /\ nodes[n].status = "published" <=> nodes[n].pub # None
      /\ nodes'[n].status = "published" <=> nodes'[n].pub # None
  BY DEF LifecycleInv, PublishedIffLive
<1>3. /\ nodes'[n].route = nodes[n].route /\ nodes'[n].origin = nodes[n].origin
      /\ nodes'[n].slug = nodes[n].slug /\ nodes'[n].parent = nodes[n].parent
      /\ nodes'[n].draft = nodes[n].draft
      /\ nodes'[n].status = "published" \/ (nodes'[n].status = "unpublished" /\ nodes'[n].pub = None)
  BY <1>1 DEF LifecycleInv, TypeOK, Publish, Unpublish, NodeRows
<1>4. OnlyOf(n)
  BY <1>1 DEF OnlyOf
<1>5. ASSUME nodes'[n].pub = nodes[n].pub, nodes'[n].status # "unpublished" \/ nodes'[n].status = nodes[n].status
      PROVE  Substance(nodes'[n]) = Substance(nodes[n])
  <2>1. nodes'[n].status = nodes[n].status
    BY <1>2, <1>3, <1>5
  <2>2. nodes'[n] = nodes[n]
    BY <1>1, <1>3, <1>5, <2>1 DEF NodeRows
  <2> QED
    BY <2>2
<1>6. ActionOn(s, n) \subseteq {<<"publish", n>>}
  BY <1>1, <1>3, <1>5 DEF ActionOn, Exists
<1>7. RoutedRow(n, nodes'[n])
  BY <1>1, <1>3 DEF Routed, RoutedRow, Exists
<1> QED
  BY <1>1, <1>4, <1>6, <1>7, DoneToOne, RoutedByOne DEF Does

\* To put a page in the bin, to put it back and to remove it are "delete".
LEMMA DeleteDoes ==
  ASSUME LifecycleInv, LifecycleInv', Routed, NEW s, NEW n \in NodeIds, NEW actor,
         Delete(n, actor)
  PROVE  Routed' /\ Does(s, <<"delete", n>>)
<1>1. nodes[n] \in NodeRows /\ Exists(n) /\ n # Root /\ nodes[n].status # "trashed"
  BY DEF LifecycleInv, TypeOK, Delete
<1>2. nodes' = [nodes EXCEPT ![n] =
       [@ EXCEPT !.status = "trashed", !.parent = None, !.slug = TrashSlug(n),
                 !.route = TrashRoute(n), !.pub = None,
                 !.origin = [parent |-> nodes[n].parent, slug |-> nodes[n].slug,
                             route |-> nodes[n].route]]]
  BY DEF Delete, CommitNodes
<1>3. /\ \A m \in NodeIds \ {n} : nodes'[m] = nodes[m] /\ locks'[m] = locks[m]
      /\ nodes'[n].status = "trashed" /\ nodes'[n].route = TrashRoute(n)
      /\ nodes'[n].origin.route = nodes[n].route
  BY <1>1, <1>2 DEF LifecycleInv, TypeOK, NodeRows, Delete
<1>4. OnlyOf(n)
  BY <1>3 DEF OnlyOf
<1>5. ActionOn(s, n) \subseteq {<<"delete", n>>}
  BY <1>1, <1>3 DEF ActionOn, Exists
<1>6. TrashRoute(n) # <<>> /\ nodes[n].route # <<>>
  BY <1>1, RouteTypes, LongerIsNotEmpty DEF TrashRoute, Routed, RoutedRow, Exists
<1>7. RoutedRow(n, nodes'[n])
  BY <1>3, <1>6 DEF RoutedRow
<1> QED
  BY <1>3, <1>4, <1>5, <1>7, DoneToOne, RoutedByOne DEF Does

LEMMA RestoreTrashedDoes ==
  ASSUME LifecycleInv, LifecycleInv', Routed, NEW s, NEW n \in NodeIds,
         RestoreTrashed(n)
  PROVE  Routed' /\ Does(s, <<"delete", n>>)
<1>1. nodes[n] \in NodeRows /\ nodes[n].status = "trashed" /\ nodes[n].origin.route # <<>>
  BY DEF LifecycleInv, TypeOK, RestoreTrashed
<1>2. nodes' = [nodes EXCEPT ![n] =
           [@ EXCEPT !.status = "draft", !.parent = nodes[n].origin.parent,
                     !.slug = nodes[n].origin.slug, !.route = nodes[n].origin.route,
                     !.origin = NoOrigin]]
  BY DEF RestoreTrashed, CommitNodes
<1>3. /\ \A m \in NodeIds \ {n} : nodes'[m] = nodes[m]
      /\ nodes'[n].status = "draft" /\ nodes'[n].route = nodes[n].origin.route
      /\ nodes'[n].origin = NoOrigin
      /\ UNCHANGED locks
  BY <1>1, <1>2 DEF LifecycleInv, TypeOK, NodeRows, RestoreTrashed
<1>4. OnlyOf(n)
  BY <1>3 DEF OnlyOf
<1>5. nodes[n].origin # nodes'[n].origin
  BY <1>1, <1>3 DEF NoOrigin
<1>6. ActionOn(s, n) \subseteq {<<"delete", n>>}
  BY <1>1, <1>5 DEF ActionOn
<1>7. RoutedRow(n, nodes'[n])
  BY <1>1, <1>3 DEF RoutedRow
<1> QED
  BY <1>3, <1>4, <1>6, <1>7, DoneToOne, RoutedByOne DEF Does

LEMMA PurgeDoes ==
  ASSUME LifecycleInv, LifecycleInv', Routed, NEW s, NEW n \in NodeIds, Purge(n)
  PROVE  Routed' /\ Does(s, <<"delete", n>>)
<1>1. nodes[n].status = "trashed" /\ nodes[n].origin.route # <<>>
  BY DEF Purge, Routed, RoutedRow
<1>2. /\ [BlankRow EXCEPT !.status = "purged"].status = "purged"
      /\ [BlankRow EXCEPT !.status = "purged"].origin = NoOrigin
  BY DEF BlankRow
<1>3. /\ \A m \in NodeIds \ {n} : nodes'[m] = nodes[m] /\ locks'[m] = locks[m]
      /\ nodes'[n] = [BlankRow EXCEPT !.status = "purged"]
  BY DEF LifecycleInv, TypeOK, Purge
<1>4. nodes'[n].status = "purged" /\ nodes'[n].origin = NoOrigin
  BY <1>2, <1>3
<1>5. OnlyOf(n)
  BY <1>3 DEF OnlyOf
<1>6. nodes[n].origin # nodes'[n].origin
  BY <1>1, <1>4 DEF NoOrigin
<1>7. ActionOn(s, n) \subseteq {<<"delete", n>>}
  BY <1>1, <1>6 DEF ActionOn
<1>8. RoutedRow(n, nodes'[n])
  BY <1>4 DEF RoutedRow
<1> QED
  BY <1>3, <1>5, <1>7, <1>8, DoneToOne, RoutedByOne DEF Does

LEMMA UpdateDoes ==
  ASSUME LifecycleInv, LifecycleInv', Routed, NEW s, NEW n \in NodeIds,
         NEW slug \in Slugs \cup {None}, NEW payload \in Payloads, NEW actor,
         Update(n, slug, payload, actor)
  PROVE  Routed' /\ Does(s, <<"update", n>>)
<1> DEFINE parent == nodes[n].parent
           route == IF n = Root THEN PublicRoot ELSE RouteFor(parent, slug)
           row == [nodes[n] EXCEPT !.slug = slug, !.draft = payload,
                                   !.status = StatusOnEdit(nodes[n].status),
                                   !.route = route]
           saved == [nodes EXCEPT ![n] = row]
<1>1. /\ Exists(n) /\ nodes[n] \in NodeRows /\ slug \in SlugValues /\ UNCHANGED locks
      /\ nodes' = RefreshRoutes(saved, n)
  BY RouteTypes DEF Update, LifecycleInv, TypeOK, CommitNodes
<1>2. route \in Routes /\ (n # Root => route # <<>>)
  BY <1>1, RouteForType, RouteForLonger, RouteTypes DEF LifecycleInv, NodeRows
<1>3. StatusOnEdit(nodes[n].status) \in NodeStatuses
  BY <1>1 DEF StatusOnEdit, NodeStatuses, NodeRows
<1> HIDE DEF route
<1>4. /\ row \in NodeRows /\ row.status = StatusOnEdit(nodes[n].status)
      /\ row.pub = nodes[n].pub /\ row.origin = nodes[n].origin /\ row.route = route
  BY <1>1, <1>2, <1>3 DEF NodeRows
<1> HIDE DEF row
<1>5. /\ saved \in [NodeIds -> NodeRows] /\ saved[n] = row
      /\ \A m \in NodeIds \ {n} : saved[m] = nodes[m]
  BY <1>4 DEF LifecycleInv, TypeOK
<1> HIDE DEF saved
<1>6. \A m \in NodeIds :
        /\ Substance(nodes'[m]) = Substance(saved[m])
        /\ saved[m].route # <<>> => nodes'[m].route # <<>>
        /\ nodes'[m].status = saved[m].status /\ nodes'[m].origin = saved[m].origin
        /\ nodes'[m].pub = saved[m].pub
  BY <1>1, <1>5, RefreshRoutesSubstance, RefreshRoutesFrame
<1>7. OnlyOf(n)
  BY <1>1, <1>5, <1>6 DEF OnlyOf
<1>8. ActionOn(s, n) \subseteq {<<"update", n>>}
  BY <1>1, <1>4, <1>5, <1>6 DEF ActionOn, Exists, StatusOnEdit
<1>9. Routed'
  <2> SUFFICES ASSUME NEW m \in NodeIds PROVE RoutedRow(m, nodes'[m])
    BY DEF Routed
  <2>1. CASE m = n
    BY <2>1, <1>1, <1>2, <1>4, <1>5, <1>6 DEF Routed, RoutedRow, Exists, StatusOnEdit
  <2>2. CASE m # n
    BY <2>2, <1>5, <1>6 DEF Routed, RoutedRow
  <2> QED
    BY <2>1, <2>2
<1> QED
  BY <1>7, <1>8, <1>9, DoneToOne DEF Does

LEMMA RestoreVersionDoes ==
  ASSUME LifecycleInv, LifecycleInv', Routed, NEW s, NEW n \in NodeIds,
         NEW no, NEW actor, RestoreVersion(n, no, actor)
  PROVE  Routed' /\ Does(s, <<"update", n>>)
<1>1. PICK v \in versions[n] :
        nodes' = [nodes EXCEPT ![n].draft = v.payload, ![n].status = StatusOnEdit(@)]
  BY DEF RestoreVersion
<1>2. nodes[n] \in NodeRows /\ Exists(n) /\ UNCHANGED locks
  BY DEF RestoreVersion, LifecycleInv, TypeOK
<1>3. /\ \A m \in NodeIds \ {n} : nodes'[m] = nodes[m]
      /\ nodes'[n].status = StatusOnEdit(nodes[n].status)
      /\ nodes'[n].pub = nodes[n].pub /\ nodes'[n].origin = nodes[n].origin
      /\ nodes'[n].route = nodes[n].route
  BY <1>1, <1>2 DEF LifecycleInv, TypeOK, NodeRows
<1>4. OnlyOf(n)
  BY <1>2, <1>3 DEF OnlyOf
<1>5. ActionOn(s, n) \subseteq {<<"update", n>>}
  BY <1>2, <1>3 DEF ActionOn, Exists, StatusOnEdit
<1>6. RoutedRow(n, nodes'[n])
  BY <1>2, <1>3 DEF Routed, RoutedRow, Exists, StatusOnEdit
<1> QED
  BY <1>3, <1>4, <1>5, <1>6, DoneToOne, RoutedByOne DEF Does

\* A lock is taken and released by who may edit the page.
LEMMA LockDoes ==
  ASSUME LifecycleInv, LifecycleInv', Routed, NEW s, NEW n \in NodeIds,
         UNCHANGED nodes, \A m \in NodeIds \ {n} : locks'[m] = locks[m]
  PROVE  Routed' /\ Does(s, <<"update", n>>)
<1>1. OnlyOf(n)
  BY DEF OnlyOf
<1>2. ActionOn(s, n) \subseteq {<<"update", n>>}
  BY DEF ActionOn
<1>3. Routed'
  BY DEF Routed
<1> QED
  BY <1>1, <1>2, <1>3, DoneToOne DEF Does

\* Rows of other tables are no pages.
LEMMA BesidePages ==
  ASSUME LifecycleInv, LifecycleInv', Routed, NEW s, UNCHANGED <<nodes, locks>>
  PROVE  Routed' /\ \A n \in NodeIds : ActionOn(s, n) = {}
<1>1. \A n \in NodeIds : ActionOn(s, n) = {}
  BY DEF ActionOn
<1> QED
  BY <1>1 DEF Routed

LEMMA CreateDoes ==
  ASSUME LifecycleInv, LifecycleInv', Routed, NEW n \in NodeIds,
         NEW parent \in NodeIds \cup {None}, NEW slug \in Slugs, NEW payload,
         Create(n, parent, slug, payload)
  PROVE  /\ Routed'
         /\ \A s : Does(s, PutUnder(s, parent))
<1>1. /\ Fresh(n) /\ UNCHANGED locks
      /\ nodes' = [nodes EXCEPT ![n] =
           [BlankRow EXCEPT !.status = "draft", !.parent = parent, !.slug = slug,
                            !.route = RouteFor(parent, slug), !.draft = payload]]
  BY DEF Create, CommitNodes
<1> QED
  BY <1>1, NewPageDoes

LEMMA DuplicateDoes ==
  ASSUME LifecycleInv, LifecycleInv', Routed, NEW n \in NodeIds, NEW copy \in NodeIds,
         NEW slug \in Slugs, Duplicate(n, copy, slug)
  PROVE  /\ Routed'
         /\ \A s : Does(s, PutUnder(s, nodes[n].parent))
<1>1. /\ Fresh(copy) /\ UNCHANGED locks
      /\ nodes' = [nodes EXCEPT ![copy] =
           [BlankRow EXCEPT !.status = "draft", !.parent = nodes[n].parent, !.slug = slug,
              !.route = RouteFor(nodes[n].parent, slug), !.draft = nodes[n].draft]]
  BY DEF Duplicate, CommitNodes
<1>2. nodes[n].parent \in NodeIds \cup {None}
  BY DEF LifecycleInv, TypeOK, NodeRows
<1> QED
  BY <1>1, <1>2, NewPageDoes

LEMMA RoutedNext ==
  ASSUME LifecycleInv, Routed, [Next]_vars
  PROVE  Routed'
<1>1. LifecycleInv'
  BY LifecycleNext
<1>2. CASE TreeStep
  BY <1>1, <1>2, CreateDoes, UpdateDoes, PublishDoes, DeleteDoes, RestoreTrashedDoes, PurgeDoes,
     DuplicateDoes DEF TreeStep
<1>3. CASE HistoryStep
  BY <1>1, <1>3, RestoreVersionDoes DEF HistoryStep, CleanupVersions, Routed
<1>4. CASE UNCHANGED nodes
  BY <1>4 DEF Routed
<1> QED
  BY <1>2, <1>3, <1>4 DEF Next, LockStep, AcquireLock, ReleaseLock, WorkflowStep, UpsertWorkflow,
     Tick, vars

-----------------------------------------------------------------------------
OpenVisits ==
  [at: {"open"}, asked: DOMAIN Table, route: DOMAIN Table, step: Nat \ {0}, user: Users,
   page: NodeIds \cup {None}, parent: NodeIds \cup {None}]

\* Of every question the request has put since it last looked a page up, the
\* answer was yes, and is remembered.
StepsOf(visit) == Table[visit.route].steps
Granted(visit, asks) ==
  \A k \in 1..visit.step-1 :
    LET step == StepsOf(visit)[k]
    IN  /\ step.kind = "ask" /\ step.action \in PageActions
        /\ \A j \in k..visit.step-1 : StepsOf(visit)[j].kind # "find"
        => /\ step.subject = "page" /\ visit.page # None => <<step.action, visit.page>> \in asks
           /\ step.subject = "parent" =>
                <<step.action, IF visit.parent = None THEN Root ELSE visit.parent>> \in asks

VisitOK(s) ==
  Open(s) =>
    /\ visits[s] \in OpenVisits
    /\ visits[s].step \in DOMAIN StepsOf(visits[s])
    /\ Permitted(visits[s].user) \subseteq held[s]
    /\ Granted(visits[s], held[s])

VisitsInv ==
  /\ LifecycleInv /\ Routed
  /\ visits = [s \in Sessions |-> visits[s]]
  /\ held = [s \in Sessions |-> held[s]]
  /\ \A s \in Sessions : VisitOK(s)

LEMMA VisitTypes ==
  ASSUME VisitsInv, NEW s \in Sessions, Open(s)
  PROVE  /\ visits[s].route \in DOMAIN Table /\ visits[s].step \in Nat \ {0}
         /\ visits[s].user \in Users /\ visits[s].user \in Actors
         /\ visits[s].page \in NodeIds \cup {None} /\ visits[s].parent \in NodeIds \cup {None}
BY SessionAssumption DEF VisitsInv, VisitOK, OpenVisits

\* The work on pages is steps of ContentNodes.
LEMMA PageWorkIsNext ==
  ASSUME VisitsInv, NEW s \in Sessions, Open(s), NEW handler, PageWork(visits[s], handler)
  PROVE  [Next]_vars
<1> DEFINE n == visits[s].page
           user == visits[s].user
<1>1. n \in NodeIds \cup {None} /\ user \in Actors /\ visits[s].parent \in NodeIds \cup {None}
  BY VisitTypes
<1>2. CASE handler = "create_content" /\ \E m \in NodeIds, slug \in Slugs, payload \in Payloads :
             AddPage(m, visits[s].parent, slug, payload)
  BY <1>1, <1>2 DEF AddPage, Next, TreeStep
<1>3. CASE n # None /\ \E copy \in NodeIds, slug \in Slugs : CopyPage(n, copy, slug)
  BY <1>1, <1>3 DEF CopyPage, Next, TreeStep
<1>4. CASE n # None /\ PublishingWork(handler, n, user)
  <2>1. CASE \E state \in WorkflowStates : UpsertWorkflow(n, state, Never, Never)
    <3>1. Never \in 0..MaxTime
      BY BoundAssumption DEF Never
    <3> QED
      BY <1>1, <1>4, <2>1, <3>1 DEF Next, WorkflowStep
  <2>2. CASE Publish(n, user) \/ Unpublish(n, user) \/ Delete(n, user) \/ RestoreTrashed(n)
             \/ Purge(n)
    BY <1>1, <1>4, <2>2 DEF Next, TreeStep
  <2> QED
    BY <1>4, <2>1, <2>2 DEF PublishingWork
<1>5. CASE n # None /\ VersioningWork(handler, n, user)
  BY <1>1, <1>5 DEF VersioningWork, Next, HistoryStep
<1>6. CASE n # None /\ EditingWork(handler, n, user)
  BY <1>1, <1>6 DEF EditingWork, Next, TreeStep, LockStep
<1> QED
  BY <1>2, <1>3, <1>4, <1>5, <1>6 DEF PageWork

\* What a request is about to do to pages is what its handler asked for.
Sought(visit, question) ==
  IF question[2] = "page" THEN <<question[1], visit.page>>
  ELSE <<question[1], IF visit.parent = None THEN Root ELSE visit.parent>>

LEMMA PageWorkDoes ==
  ASSUME VisitsInv, NEW s \in Sessions, Open(s),
         NEW handler, handler = Table[visits[s].route].handler, PageWork(visits[s], handler)
  PROVE  LET question == QuestionOf(handler)
         IN  /\ question[2] = "page" => visits[s].page # None
             /\ IF question[1] \in PageActions THEN Does(s, Sought(visits[s], question))
                ELSE \A n \in NodeIds : ActionOn(s, n) = {}
<1> DEFINE n == visits[s].page
           user == visits[s].user
           parent == visits[s].parent
           question == QuestionOf(handler)
           Goal == /\ question[2] = "page" => visits[s].page # None
                   /\ IF question[1] \in PageActions THEN Does(s, Sought(visits[s], question))
                      ELSE \A m \in NodeIds : ActionOn(s, m) = {}
<1>1. n \in NodeIds \cup {None} /\ parent \in NodeIds \cup {None}
  BY VisitTypes
<1>2. LifecycleInv /\ LifecycleInv' /\ Routed
  BY PageWorkIsNext, LifecycleNext DEF VisitsInv
<1>3. SUFFICES Goal
  OBVIOUS
<1>4. CASE handler = "create_content"
           /\ \E m \in NodeIds, slug \in Slugs, payload \in Payloads :
                AddPage(m, parent, slug, payload)
  <2>1. question = <<"create", "parent">>
    BY <1>4 DEF QuestionOf
  <2>2. Does(s, PutUnder(s, parent))
    BY <1>1, <1>2, <1>4, CreateDoes DEF AddPage
  <2>3. PutUnder(s, parent) = Sought(visits[s], <<"create", "parent">>)
    BY DEF PutUnder, Sought
  <2> QED
    BY <2>1, <2>2, <2>3 DEF PageActions
<1>5. CASE n # None /\ handler = "duplicate_content"
           /\ \E copy \in NodeIds, slug \in Slugs : CopyPage(n, copy, slug)
  <2>1. question = <<"create", "parent">>
    BY <1>5 DEF QuestionOf
  <2>2. Does(s, PutUnder(s, nodes[n].parent))
    BY <1>1, <1>2, <1>5, DuplicateDoes DEF CopyPage
  <2>3. Finds(visits[s].route)
    BY <1>5, VisitTypes, TableAssumption
  <2>4. PutUnder(s, nodes[n].parent) = Sought(visits[s], <<"create", "parent">>)
    BY <2>3 DEF PutUnder, Sought
  <2> QED
    BY <2>1, <2>2, <2>4 DEF PageActions
<1>6. CASE n # None /\ PublishingWork(handler, n, user)
  <2>1. CASE handler \in {"publish_content", "unpublish_content"}
    <3>1. question = <<"publish", "page">>
      BY <2>1 DEF QuestionOf
    <3>2. Does(s, <<"publish", n>>)
      BY <1>1, <1>2, <1>6, <2>1, PublishDoes DEF PublishingWork
    <3> QED
      BY <1>6, <3>1, <3>2 DEF Sought, PageActions
  <2>2. CASE handler \in {"delete_content", "restore_content_from_trash", "purge_content_from_trash"}
    <3>1. question = <<"delete", "page">>
      BY <2>2 DEF QuestionOf
    <3>2. Does(s, <<"delete", n>>)
      BY <1>1, <1>2, <1>6, <2>2, DeleteDoes, RestoreTrashedDoes, PurgeDoes DEF PublishingWork
    <3> QED
      BY <1>6, <3>1, <3>2 DEF Sought, PageActions
  <2>3. CASE handler = "update_content_workflow"
             /\ \E state \in WorkflowStates : UpsertWorkflow(n, state, Never, Never)
    <3>1. question = <<"workflow", "page">>
      BY <2>3 DEF QuestionOf
    <3>2. \A m \in NodeIds : ActionOn(s, m) = {}
      BY <1>2, <2>3, BesidePages DEF UpsertWorkflow
    <3>3. "workflow" \notin PageActions
      BY DEF PageActions
    <3> QED
      BY <1>6, <3>1, <3>2, <3>3
  <2> QED
    BY <1>6, <2>1, <2>2, <2>3 DEF PublishingWork
<1>7. CASE n # None /\ (VersioningWork(handler, n, user) \/ EditingWork(handler, n, user))
  <2>1. question = <<"update", "page">>
    BY <1>7 DEF QuestionOf, VersioningWork, EditingWork
  <2>2. Does(s, <<"update", n>>)
    <3>1. CASE \E v \in versions[n] : RestoreVersion(n, v.no, user)
      BY <1>1, <1>2, <1>7, <3>1, RestoreVersionDoes
    <3>2. CASE \E keep \in Keeps, retention \in Retentions : CleanupVersions({n}, keep, retention)
      BY <1>2, <3>2, BesidePages DEF CleanupVersions, Does
    <3>3. CASE \E slug \in Slugs \cup {None}, payload \in Payloads : Update(n, slug, payload, user)
      BY <1>1, <1>2, <1>7, <3>3, UpdateDoes
    <3>4. CASE \/ \E ttl \in Ttls, force \in BOOLEAN : AcquireLock(n, user, ttl, force)
               \/ \E force \in BOOLEAN : ReleaseLock(n, user, force)
      <4>1. UNCHANGED nodes /\ \A m \in NodeIds \ {n} : locks'[m] = locks[m]
        BY <1>2, <3>4 DEF AcquireLock, ReleaseLock, LifecycleInv, TypeOK
      <4> QED
        BY <1>1, <1>2, <1>7, <4>1, LockDoes
    <3> QED
      BY <1>7, <3>1, <3>2, <3>3, <3>4 DEF VersioningWork, EditingWork
  <2> QED
    BY <1>7, <2>1, <2>2 DEF Sought, PageActions
<1> QED
  BY <1>4, <1>5, <1>6, <1>7 DEF PageWork

\* What it asked for by then it was granted.
LEMMA WorkWasAsked ==
  ASSUME VisitsInv, NEW s \in Sessions, Facing(s, "work"),
         Table[visits[s].route].handler \in PageHandlers,
         QuestionOf(Table[visits[s].route].handler)[1] \in PageActions,
         QuestionOf(Table[visits[s].route].handler)[2] = "page" => visits[s].page # None
  PROVE  Sought(visits[s], QuestionOf(Table[visits[s].route].handler)) \in held[s]
<1> DEFINE i == visits[s].route
           w == visits[s].step
           question == QuestionOf(Table[i].handler)
<1>1. Open(s) /\ Granted(visits[s], held[s]) /\ i \in DOMAIN Table /\ w \in DOMAIN Table[i].steps
      /\ w \in Nat \ {0}
  BY VisitTypes DEF Facing, Open, VisitsInv, VisitOK, StepsOf
<1>2. Table[i].steps[w].kind = "work"
  BY DEF Facing
<1>3. AsksBefore(i, w)
  BY <1>1, <1>2, TableAssumption
<1>4. PICK k \in 1..w-1 :
        /\ Table[i].steps[k].kind = "ask"
        /\ <<Table[i].steps[k].action, Table[i].steps[k].subject>> = question
        /\ \A j \in k..w-1 : Table[i].steps[j].kind # "find"
  BY <1>3 DEF AsksBefore
<1>5. Table[i].steps[k].action = question[1] /\ Table[i].steps[k].subject = question[2]
  BY <1>4
<1>6. question[2] \in {"page", "parent"}
  BY DEF QuestionOf
<1> HIDE DEF question
<1>7. /\ question[2] = "page" /\ visits[s].page # None => <<question[1], visits[s].page>> \in held[s]
      /\ question[2] = "parent" =>
           <<question[1], IF visits[s].parent = None THEN Root ELSE visits[s].parent>> \in held[s]
  BY <1>1, <1>4, <1>5 DEF Granted, StepsOf, question
<1>8. CASE question[2] = "page"
  BY <1>7, <1>8 DEF Sought, question
<1>9. CASE question[2] = "parent"
  BY <1>7, <1>9 DEF Sought, question
<1> QED
  BY <1>6, <1>8, <1>9

-----------------------------------------------------------------------------
(* Requests go on.                                                         *)

\* What was granted while a request is open stays granted to it.
LEMMA HeldGrows ==
  ASSUME Witness, NEW s \in Sessions, Open(s)'
  PROVE  /\ Permitted(visits[s].user)' \subseteq held'[s]
         /\ Open(s) => held[s] \subseteq held'[s]
<1>1. held'[s] = (IF Open(s) THEN held[s] ELSE {}) \cup HoldsNow(s)'
  BY DEF Witness
<1>2. HoldsNow(s)' = Permitted(visits[s].user)'
  BY DEF HoldsNow
<1> QED
  BY <1>1, <1>2

LEMMA GrantedMore ==
  ASSUME NEW visit, NEW asks, NEW more, asks \subseteq more, Granted(visit, asks)
  PROVE  Granted(visit, more)
BY DEF Granted

LEMMA StaysOK ==
  ASSUME VisitsInv, Witness, NEW s \in Sessions, visits'[s] = visits[s]
  PROVE  VisitOK(s)'
<1> SUFFICES ASSUME Open(s)' PROVE VisitOK(s)'
  BY DEF VisitOK
<1>1. Open(s) /\ VisitOK(s)
  BY DEF Open, VisitsInv
<1>2. held[s] \subseteq held'[s] /\ Permitted(visits[s].user)' \subseteq held'[s]
  BY <1>1, HeldGrows
<1>3. Granted(visits'[s], held'[s])
  BY <1>1, <1>2, GrantedMore DEF VisitOK
<1>4. visits'[s] \in OpenVisits /\ visits'[s].step \in DOMAIN StepsOf(visits'[s])
  BY <1>1 DEF VisitOK
<1> QED
  BY <1>2, <1>3, <1>4 DEF VisitOK

\* A request that moves on keeps what it was granted; when it asks, the answer was
\* yes.
LEMMA MoveOnKeeps ==
  ASSUME VisitsInv, Witness, NEW s \in Sessions, Open(s), NEW next,
         visits' = [visits EXCEPT ![s] = next],
         next \in OpenVisits, next.route = visits[s].route, next.user = visits[s].user,
         next.page = visits[s].page, next.step = visits[s].step + 1,
         next.step \in DOMAIN StepsOf(next),
         next.parent = visits[s].parent \/ Step(s).kind = "find",
         Step(s).kind = "ask" =>
           MayPerform(visits[s].user, Step(s).action, SubjectOf(visits[s], Step(s).subject))
  PROVE  VisitOK(s)'
<1>1. visits'[s] = next /\ visits[s].step \in Nat \ {0}
  BY VisitTypes DEF VisitsInv
<1>2. /\ VisitOK(s) /\ Open(s)'
      /\ visits[s].page \in NodeIds \cup {None} /\ visits[s].parent \in NodeIds \cup {None}
  BY <1>1, VisitTypes DEF VisitsInv, Open, OpenVisits
<1>3. held[s] \subseteq held'[s] /\ Permitted(visits[s].user)' \subseteq held'[s]
  BY <1>2, HeldGrows
<1>4. StepsOf(next) = StepsOf(visits[s]) /\ StepsOf(next)[visits[s].step] = Step(s)
  BY DEF StepsOf, Step
<1>5. Granted(next, held'[s])
  <2> DEFINE Right(step) ==
        /\ step.subject = "page" /\ next.page # None => <<step.action, next.page>> \in held'[s]
        /\ step.subject = "parent" =>
             <<step.action, IF next.parent = None THEN Root ELSE next.parent>> \in held'[s]
  <2> SUFFICES ASSUME NEW k \in 1..next.step-1,
                      StepsOf(next)[k].kind = "ask", StepsOf(next)[k].action \in PageActions,
                      \A j \in k..next.step-1 : StepsOf(next)[j].kind # "find"
               PROVE  Right(StepsOf(next)[k])
    BY DEF Granted
  <2>1. Step(s).kind # "find" /\ next.parent = visits[s].parent
    BY <1>1, <1>4
  <2>2. CASE k < visits[s].step
    <3>1. k \in 1..visits[s].step-1
          /\ \A j \in k..visits[s].step-1 : StepsOf(visits[s])[j].kind # "find"
      BY <1>1, <1>4, <2>2
    <3> QED
      BY <1>2, <1>3, <1>4, <2>1, <3>1 DEF VisitOK, Granted
  <2>3. CASE k = visits[s].step
    <3> DEFINE step == StepsOf(next)[k]
    <3>1. step = Step(s) /\ MayPerform(visits[s].user, step.action, SubjectOf(visits[s], step.subject))
      BY <1>4, <2>3
    <3>2. \A n \in NodeIds : MayPerform(visits[s].user, step.action, n) =>
            <<step.action, n>> \in held'[s]
      BY <1>2, <1>3 DEF VisitOK, Permitted
    <3>3. step.subject = "page" => SubjectOf(visits[s], step.subject) = visits[s].page
      BY DEF SubjectOf
    <3>4. step.subject = "parent" =>
            SubjectOf(visits[s], step.subject)
              = IF visits[s].parent = None THEN Root ELSE visits[s].parent
      BY DEF SubjectOf
    <3> HIDE DEF step
    <3>5. Right(step)
      BY <1>2, <2>1, <3>1, <3>2, <3>3, <3>4, NodeAssumption
    <3> QED
      BY <3>5 DEF step
  <2> QED
    BY <1>1, <2>2, <2>3
<1> QED
  BY <1>1, <1>3, <1>5 DEF VisitOK

\* An answered request asks for nothing more.
LEMMA ClosedOK ==
  ASSUME NEW s \in Sessions, ~Open(s)'
  PROVE  VisitOK(s)'
BY DEF VisitOK

LEMMA AnswerCloses ==
  ASSUME VisitsInv, NEW s \in Sessions, NEW status, Answer(s, status)
  PROVE  VisitOK(s)'
<1>1. visits'[s].at = "answered"
  BY DEF Answer, VisitsInv
<1> QED
  BY <1>1, ClosedOK DEF Open

LEMMA MoveOnOK ==
  ASSUME VisitsInv, Witness, NEW s \in Sessions, Open(s), MoveOn(s),
         Step(s).kind = "ask" =>
           MayPerform(visits[s].user, Step(s).action, SubjectOf(visits[s], Step(s).subject))
  PROVE  VisitOK(s)'
<1> DEFINE steps == Table[visits[s].route].steps
           next == [visits[s] EXCEPT !.step = @ + 1]
<1>1. CASE visits[s].step = Len(steps)
  BY <1>1, AnswerCloses DEF MoveOn
<1>2. CASE visits[s].step # Len(steps)
  <2>1. visits[s] \in OpenVisits /\ visits[s].step \in DOMAIN steps /\ visits[s].route \in DOMAIN Table
    BY VisitTypes DEF VisitsInv, VisitOK, StepsOf
  <2>2. DOMAIN steps = 1..Len(steps)
    BY <2>1, TableAssumption
  <2> HIDE DEF steps
  <2>3. visits[s].step + 1 \in DOMAIN steps /\ visits[s].step + 1 \in Nat \ {0}
    BY <1>2, <2>1, <2>2
  <2>4. visits' = [visits EXCEPT ![s] = next]
    BY <1>2 DEF MoveOn, steps
  <2>5. /\ next \in OpenVisits /\ next.route = visits[s].route /\ next.user = visits[s].user
        /\ next.page = visits[s].page /\ next.step = visits[s].step + 1
        /\ next.parent = visits[s].parent
    BY <2>1, <2>3 DEF OpenVisits
  <2> HIDE DEF next
  <2>6. next.step \in DOMAIN StepsOf(next)
    BY <2>3, <2>5 DEF StepsOf, steps
  <2> QED
    BY <2>4, <2>5, <2>6, MoveOnKeeps
<1> QED
  BY <1>1, <1>2

LEMMA LookUpOK ==
  ASSUME VisitsInv, Witness, NEW s \in Sessions, LookUp(s)
  PROVE  VisitOK(s)'
<1> DEFINE steps == Table[visits[s].route].steps
           page == visits[s].page
           next == [visits[s] EXCEPT !.step = @ + 1, !.parent = nodes[page].parent]
<1>1. Open(s) /\ Step(s).kind = "find"
  BY DEF LookUp, Facing, Open, Step
<1>2. CASE page # None /\ Exists(page) /\ MoveOnWith(s, nodes[page].parent)
  <2>1. visits[s] \in OpenVisits /\ visits[s].step \in DOMAIN steps /\ visits[s].route \in DOMAIN Table
    BY <1>1, VisitTypes DEF VisitsInv, VisitOK, StepsOf
  <2>2. DOMAIN steps = 1..Len(steps) /\ steps[Len(steps)].kind # "find"
    BY <2>1, TableAssumption
  <2>3. steps[visits[s].step].kind = "find"
    BY <1>1 DEF Step
  <2> HIDE DEF steps
  <2>4. visits[s].step + 1 \in DOMAIN steps /\ visits[s].step + 1 \in Nat \ {0}
    BY <2>1, <2>2, <2>3
  <2>5. visits' = [visits EXCEPT ![s] = next]
    BY <1>2 DEF MoveOnWith
  <2>6. nodes[page].parent \in NodeIds \cup {None}
    BY <1>1, <1>2, VisitTypes DEF VisitsInv, LifecycleInv, TypeOK, NodeRows
  <2>7. /\ next \in OpenVisits /\ next.route = visits[s].route /\ next.user = visits[s].user
        /\ next.page = visits[s].page /\ next.step = visits[s].step + 1
    BY <2>1, <2>4, <2>6 DEF OpenVisits
  <2> HIDE DEF next
  <2>8. next.step \in DOMAIN StepsOf(next)
    BY <2>4, <2>7 DEF StepsOf, steps
  <2> QED
    BY <1>1, <2>5, <2>7, <2>8, MoveOnKeeps
<1>3. CASE Answer(s, Step(s).status)
  BY <1>3, AnswerCloses
<1> QED
  BY <1>2, <1>3 DEF LookUp

LEMMA ComeInOK ==
  ASSUME VisitsInv, Witness, NEW s \in Sessions, NEW i \in DOMAIN Table, NEW user \in Users,
         NEW page \in NodeIds \cup {None}, NEW parent \in NodeIds \cup {None},
         ComeIn(s, i, user, page, parent)
  PROVE  VisitOK(s)'
<1> DEFINE visit == [at |-> "open", asked |-> i, route |-> Reached[i],
                     step |-> 1, user |-> user, page |-> page, parent |-> parent]
<1>1. visits'[s] = visit
  BY DEF ComeIn, VisitsInv
<1>2. Reached[i] \in DOMAIN Table
  BY TableAssumption
<1>3. visit \in OpenVisits /\ visit.step = 1 /\ visit.route = Reached[i] /\ visit.at = "open"
  BY <1>2 DEF OpenVisits
<1> HIDE DEF visit
<1>4. 1 \in DOMAIN StepsOf(visit)
  BY <1>2, <1>3, TableAssumption DEF StepsOf
<1>5. Granted(visit, held'[s])
  BY <1>3 DEF Granted
<1>6. Permitted(visits[s].user)' \subseteq held'[s]
  BY <1>1, <1>3, HeldGrows DEF Open
<1> QED
  BY <1>1, <1>3, <1>4, <1>5, <1>6 DEF VisitOK

\* One step of a request.
LEMMA OnTheWayOK ==
  ASSUME VisitsInv, NEW s \in Sessions, OnTheWay(s)
  PROVE  VisitOK(s)'
<1>0. Witness
  BY DEF OnTheWay
<1>1. CASE LookUp(s)
  BY <1>0, <1>1, LookUpOK
<1>2. CASE Ask(s)
  <2>1. Open(s)
    BY <1>2 DEF Ask, Facing, Open
  <2> QED
    BY <1>0, <1>2, <2>1, MoveOnOK, AnswerCloses DEF Ask
<1>3. CASE Leave(s)
  <2>1. visits'[s] = NoVisit
    BY <1>3 DEF Leave, VisitsInv
  <2>2. NoVisit.at # "open"
    BY DEF NoVisit
  <2> QED
    BY <2>1, <2>2, ClosedOK DEF Open
<1>4. CASE PassGuard(s) \/ ReadForm(s) \/ Check(s) \/ AskDesk(s) \/ AskPermit(s) \/ Work(s)
  <2>1. Open(s) /\ Step(s).kind # "ask"
    BY <1>4 DEF PassGuard, ReadForm, Check, AskDesk, AskPermit, Work, Facing, Open, Step
  <2>2. MoveOn(s) \/ \E status : Answer(s, status)
    BY <1>4 DEF PassGuard, ReadForm, Check, AskDesk, AskPermit, Work
  <2> QED
    BY <1>0, <2>1, <2>2, MoveOnOK, AnswerCloses
<1> QED
  BY <1>1, <1>2, <1>3, <1>4 DEF OnTheWay

-----------------------------------------------------------------------------
\* Whatever happens is an operation on pages or none.
LEMMA VisitNextIsNext ==
  ASSUME VisitsInv, (\E s \in Sessions : VisitStep(s)) \/ GrantsChange \/ PagesChange
  PROVE  [Next]_vars /\ Witness
<1>1. CASE \E s \in Sessions : VisitStep(s)
  <2>1. PICK s \in Sessions : VisitStep(s)
    BY <1>1
  <2>2. CASE \E i \in DOMAIN Table : Arrive(s, i)
    BY <2>2 DEF Arrive, ComeIn, PagesStay
  <2>3. CASE OnTheWay(s) /\ ~Work(s)
    BY <2>3 DEF OnTheWay, PassGuard, Ask, ReadForm, LookUp, Check, AskDesk, AskPermit, Leave, PagesStay
  <2>4. CASE OnTheWay(s) /\ Work(s)
    <3>1. Open(s)
      BY <2>4 DEF Work, Facing, Open
    <3> QED
      BY <2>4, <3>1, PageWorkIsNext DEF OnTheWay, Work, PagesStay
  <2> QED
    BY <2>1, <2>2, <2>3, <2>4 DEF VisitStep
<1>2. CASE GrantsChange
  BY <1>2 DEF GrantsChange, Grant, Revoke
<1>3. CASE PagesChange
  BY <1>3 DEF PagesChange, ChangePage, Next
<1> QED
  BY <1>1, <1>2, <1>3

\* Of a step of one request no other is part.
LEMMA OthersStay ==
  ASSUME VisitsInv, NEW s \in Sessions, VisitStep(s), NEW t \in Sessions \ {s}
  PROVE  visits'[t] = visits[t]
<1>1. ASSUME NEW i, Arrive(s, i) PROVE visits'[t] = visits[t]
  BY <1>1 DEF Arrive, ComeIn, VisitsInv
<1>2. ASSUME NEW status, Answer(s, status) PROVE visits'[t] = visits[t]
  BY <1>2 DEF Answer, VisitsInv
<1>3. ASSUME MoveOn(s) PROVE visits'[t] = visits[t]
  BY <1>2, <1>3 DEF MoveOn, VisitsInv
<1>4. CASE OnTheWay(s)
  BY <1>2, <1>3, <1>4 DEF OnTheWay, PassGuard, Ask, ReadForm, LookUp, MoveOnWith, Check, AskDesk,
     AskPermit, Work, Leave, VisitsInv
<1> QED
  BY <1>1, <1>4 DEF VisitStep

LEMMA VisitsStayFunctions ==
  ASSUME VisitsInv, (\E s \in Sessions : VisitStep(s)) \/ GrantsChange \/ PagesChange
  PROVE  visits' = [s \in Sessions |-> visits'[s]] /\ held' = [s \in Sessions |-> held'[s]]
<1>1. held' = [s \in Sessions |-> held'[s]]
  BY VisitNextIsNext DEF Witness
<1>2. ASSUME NEW s \in Sessions, NEW status, Answer(s, status)
      PROVE  visits' = [t \in Sessions |-> visits'[t]]
  BY <1>2 DEF Answer, VisitsInv
<1>3. ASSUME NEW s \in Sessions, MoveOn(s) PROVE visits' = [t \in Sessions |-> visits'[t]]
  BY <1>2, <1>3 DEF MoveOn, VisitsInv
<1>4. ASSUME NEW s \in Sessions, OnTheWay(s) PROVE visits' = [t \in Sessions |-> visits'[t]]
  BY <1>2, <1>3, <1>4 DEF OnTheWay, PassGuard, Ask, ReadForm, LookUp, MoveOnWith, Check, AskDesk,
     AskPermit, Work, Leave, VisitsInv
<1>5. ASSUME NEW s \in Sessions, NEW i, Arrive(s, i)
      PROVE  visits' = [t \in Sessions |-> visits'[t]]
  BY <1>5 DEF Arrive, ComeIn, VisitsInv
<1>6. ASSUME UNCHANGED visits PROVE visits' = [t \in Sessions |-> visits'[t]]
  BY <1>6 DEF VisitsInv
<1>7. visits' = [t \in Sessions |-> visits'[t]]
  <2>1. CASE \E s \in Sessions : VisitStep(s)
    BY <1>4, <1>5, <2>1 DEF VisitStep
  <2>2. CASE GrantsChange \/ PagesChange
    BY <1>6, <2>2 DEF GrantsChange, PagesChange
  <2> QED
    BY <2>1, <2>2
<1> QED
  BY <1>1, <1>7

LEMMA VisitsNext ==
  ASSUME VisitsInv,
         [(\E s \in Sessions : VisitStep(s)) \/ GrantsChange \/ PagesChange]_<<accessVars, visitVars>>
  PROVE  VisitsInv'
<1>1. CASE (\E s \in Sessions : VisitStep(s)) \/ GrantsChange \/ PagesChange
  <2>1. [Next]_vars /\ Witness
    BY <1>1, VisitNextIsNext
  <2>2. LifecycleInv' /\ Routed'
    BY <2>1, LifecycleNext, RoutedNext DEF VisitsInv
  <2>3. ASSUME NEW t \in Sessions PROVE VisitOK(t)'
    <3>1. CASE visits'[t] = visits[t]
      BY <2>1, <3>1, StaysOK
    <3>2. CASE visits'[t] # visits[t]
      <4>1. VisitStep(t)
        BY <1>1, <3>2, OthersStay DEF GrantsChange, PagesChange
      <4>2. ASSUME NEW i \in DOMAIN Table, Arrive(t, i) PROVE VisitOK(t)'
        <5>1. PICK user \in Users, page \in PagesOf(i), parent \in ParentsOf(i) :
                ComeIn(t, i, user, page, parent)
          BY <4>2 DEF Arrive
        <5>2. page \in NodeIds \cup {None} /\ parent \in NodeIds \cup {None}
          BY DEF PagesOf, ParentsOf
        <5> QED
          BY <2>1, <5>1, <5>2, ComeInOK
      <4> QED
        BY <4>1, <4>2, OnTheWayOK DEF VisitStep
    <3> QED
      BY <3>1, <3>2
  <2>4. /\ visits' = [s \in Sessions |-> visits'[s]]
        /\ held' = [s \in Sessions |-> held'[s]]
    BY <1>1, VisitsStayFunctions
  <2> QED
    BY <2>2, <2>3, <2>4 DEF VisitsInv
<1>2. CASE UNCHANGED <<accessVars, visitVars>>
  <2>1. UNCHANGED vars
    BY <1>2 DEF accessVars
  <2>2. UNCHANGED <<visits, held, ruleVars>>
    BY <1>2 DEF accessVars, visitVars
  <2>3. LifecycleInv' /\ Routed'
    BY <2>1, LifecycleNext, RoutedNext DEF VisitsInv
  <2>4. ASSUME NEW s \in Sessions PROVE VisitOK(s)'
    BY <2>1, <2>2 DEF VisitsInv, VisitOK, Open, Permitted, MayPerform, ScopeMatches, Exists, Below, vars,
       ruleVars, Granted
  <2> QED
    BY <2>2, <2>3, <2>4 DEF VisitsInv
<1> QED
  BY <1>1, <1>2

LEMMA VisitsStart == AccessInit /\ VisitInit => VisitsInv
<1> SUFFICES ASSUME AccessInit, VisitInit PROVE VisitsInv
  OBVIOUS
<1>1. LifecycleInv
  BY LifecycleInit DEF AccessInit
<1>2. \A n \in NodeIds \ {Root} : nodes[n].status = "absent"
  BY DEF AccessInit, Init, BlankRow
<1>3. nodes[Root].status = "published"
  BY NodeAssumption DEF AccessInit, Init, BlankRow
<1>4. Routed
  BY <1>2, <1>3 DEF Routed, RoutedRow
<1>5. ASSUME NEW s \in Sessions PROVE VisitOK(s)
  BY DEF VisitOK, VisitInit, NoVisit, Open
<1> QED
  BY <1>1, <1>4, <1>5 DEF VisitsInv, VisitInit

\* What a request does to pages its user was permitted to do since it came in.
THEOREM WorkIsPermitted == VisitSpec => WorkWasPermitted
<1>1. ASSUME VisitsInv,
             [(\E s \in Sessions : VisitStep(s)) \/ GrantsChange \/ PagesChange]_<<accessVars, visitVars>>
      PROVE  [\A s \in Sessions : Facing(s, "work") /\ visits'[s] # visits[s] =>
                \A n \in NodeIds : ActionOn(s, n) \subseteq held[s]]_<<accessVars, visitVars>>
  <2> SUFFICES ASSUME NEW s \in Sessions, Facing(s, "work"), visits'[s] # visits[s],
                      NEW n \in NodeIds
               PROVE  ActionOn(s, n) \subseteq held[s]
    OBVIOUS
  <2>1. (\E t \in Sessions : VisitStep(t)) \/ GrantsChange \/ PagesChange
    BY <1>1 DEF visitVars
  <2>2. VisitStep(s)
    BY <1>1, <2>1, OthersStay DEF GrantsChange, PagesChange
  <2>3. Open(s) /\ visits[s].at # "idle"
    BY DEF Facing, Open
  <2>4. ~\E i \in DOMAIN Table : Arrive(s, i)
    BY <2>3 DEF Arrive, ComeIn, NoVisit
  <2>5. Work(s)
    BY <2>2, <2>4 DEF VisitStep, OnTheWay, PassGuard, Ask, ReadForm, LookUp, Check, AskDesk,
       AskPermit, Leave, Facing
  <2> DEFINE handler == Table[visits[s].route].handler
  <2>6. CASE handler \in PageHandlers /\ PageWork(visits[s], handler)
    <3>1. /\ QuestionOf(handler)[2] = "page" => visits[s].page # None
          /\ IF QuestionOf(handler)[1] \in PageActions
             THEN Does(s, Sought(visits[s], QuestionOf(handler)))
             ELSE \A m \in NodeIds : ActionOn(s, m) = {}
      BY <1>1, <2>3, <2>6, PageWorkDoes
    <3>2. QuestionOf(handler)[1] \in PageActions => Sought(visits[s], QuestionOf(handler)) \in held[s]
      BY <1>1, <2>6, <3>1, WorkWasAsked
    <3> QED
      BY <3>1, <3>2 DEF Does
  <2>7. CASE PagesStay
    <3>1. UNCHANGED <<nodes, locks>>
      BY <2>7 DEF PagesStay, vars
    <3>2. ActionOn(s, n) = {}
      BY <3>1 DEF ActionOn
    <3> QED
      BY <3>2
  <2> QED
    BY <2>5, <2>6, <2>7 DEF Work
<1> QED
  BY <1>1, VisitsStart, VisitsNext, PTL DEF VisitSpec, WorkWasPermitted
=============================================================================
