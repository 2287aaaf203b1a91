--------------------------- MODULE PublicListings ----------------------------
(***************************************************************************)
(* Requests for more than one page (web/routes.py): sitemap and feed,      *)
(* search and tags, the children a page links to, and the tree. Each takes *)
(* a list of published pages first and then asks, page by page and in      *)
(* transactions of their own, whether the reader may see it: the sitemap   *)
(* and the feed of what is now published at its route, search, tags and    *)
(* tree of what its node is now, the links of the node they listed. Order, *)
(* limits and scores are left out.                                         *)
(***************************************************************************)
EXTENDS Variants, AccessRules

CONSTANT Browsers   (* requests in progress at once                        *)

VARIABLES
  lists,      (* what each request has found out, or NoList                *)
  opened      (* the pages a request was free to see since it began: a     *)
              (* history variable                                          *)

listVars == <<lists, opened>>
listTables == <<vars, copyVars, ruleVars>>

NoList == [at |-> "idle"]

Put(r, list) == lists' = [lists EXCEPT ![r] = list]

\* A page on a list, below another one if the list is a tree.
Entry(n, parent) ==
  [node |-> n, route |-> nodes[n].route, parent |-> parent,
   layers |-> {<<n, Base, nodes[n].pub>>}]
Entries(pages, parent) == {Entry(n, parent) : n \in pages}

\* list_tree walks down from the root over what is not in the bin.
Reachable ==
  {n \in NodeIds : \/ nodes[n].parent = None
                   \/ \E p \in PathsDown(nodes, Root, n) : \A i \in 1..(Len(p) - 1) :
                        nodes[p[i]].status \notin {"trashed", "purged"}}
Listed(kind) ==
  {n \in Reachable : nodes[n].status = "published" /\ (n = Root => kind = "sitemap")}

\* published_children
ChildrenOf(n) == {m \in NodeIds : nodes[m].parent = n /\ nodes[m].status = "published"}

OpenTo(n, authenticated, groups) ==
  Exists(n) /\ \E rule \in EffectiveRules(n) : Admits(rule, authenticated, groups)
OpenPages(list) == {n \in NodeIds : OpenTo(n, list.authenticated, list.groups)}

-----------------------------------------------------------------------------
(* The list.                                                               *)

Begin(r, kind, culture, reader, all, unread) ==
  LET list == [at |-> "listing", kind |-> kind, culture |-> culture,
               authenticated |-> reader.authenticated, groups |-> reader.groups,
               unread |-> unread, todo |-> all, entry |-> None, subject |-> None,
               kept |-> {}]
  IN  /\ lists[r] = NoList
      /\ Put(r, list)
      /\ opened' = [opened EXCEPT ![r] = OpenPages(list)]
      /\ UNCHANGED listTables

StartSitemap(r, reader) ==
  Begin(r, "sitemap", None, reader, Entries(Listed("sitemap"), None), {})
StartFeed(r, reader) == Begin(r, "feed", None, reader, Entries(Listed("feed"), None), {})

\* The links of a page: those of the root.
StartLinks(r, reader) == Begin(r, "children", None, reader, Entries(ChildrenOf(Root), None), {})

\* Search reads the copies of every page it found, for any search term.
StartSearch(r, culture, reader) ==
  \E hits \in SUBSET Entries(Listed("search"), None) :
    Begin(r, "search", culture, reader, hits, hits)

\* The tree begins at a page that is published: the root.
StartTree(r, culture, reader) ==
  LET top == IF nodes[Root].status = "published" THEN Entries({Root}, None) ELSE {}
  IN  Begin(r, "tree", culture, reader, top, top)

\* _public_search_payload: the published copy of a page,
ReadResult(r) ==
  /\ lists[r].at = "listing" /\ lists[r].kind = "search"
  /\ \E e \in lists[r].unread :
       LET read == [e EXCEPT !.layers = @ \cup Layer(e.node, lists[r].culture)]
       IN  Put(r, [lists[r] EXCEPT !.unread = @ \ {e}, !.todo = (@ \ {e}) \cup {read}])
  /\ UNCHANGED <<listTables, opened>>

\* _public_node_payload: and its published children after it.
ReadBranch(r) ==
  /\ lists[r].at = "listing" /\ lists[r].kind = "tree"
  /\ \E e \in lists[r].unread :
       LET below == Entries(ChildrenOf(e.node), e.node)
           read == [e EXCEPT !.layers = @ \cup Layer(e.node, lists[r].culture)]
       IN  Put(r, [lists[r] EXCEPT !.unread = (@ \ {e}) \cup below,
                                   !.todo = ((@ \ {e}) \cup {read}) \cup below])
  /\ UNCHANGED <<listTables, opened>>

-----------------------------------------------------------------------------
(* The filter.                                                             *)

\* The pages to ask about: those of a tree if the one above them is kept.
Pending(list) ==
  {e \in list.todo : e.parent = None \/ \E k \in list.kept : k[1].node = e.parent}

AskFor(r, e, n) == Put(r, [lists[r] EXCEPT !.at = "asking", !.entry = e, !.subject = n])
LookingUp(r) == lists[r].at = "listing" /\ lists[r].unread = {}

\* The sitemap and the feed ask about what is published at the route by now;
\* an entry with nothing at its route is dropped.
LookAtRoute(r) ==
  /\ LookingUp(r) /\ lists[r].kind \in {"sitemap", "feed"}
  /\ \E e \in Pending(lists[r]) :
       LET there == {n \in NodeIds : nodes[n].status = "published" /\ nodes[n].route = e.route}
       IN  \/ \E n \in there : AskFor(r, e, n)
           \/ there = {} /\ Put(r, [lists[r] EXCEPT !.todo = @ \ {e}])
  /\ UNCHANGED <<listTables, opened>>

\* Search, tags and tree look the page up by its id: one that is gone stays on
\* the list and is not asked about.
LookById(r) ==
  /\ LookingUp(r) /\ lists[r].kind \in {"search", "tree"}
  /\ \E e \in Pending(lists[r]) :
       \/ Exists(e.node) /\ AskFor(r, e, e.node)
       \/ /\ ~Exists(e.node)
          /\ Put(r, [lists[r] EXCEPT !.todo = @ \ {e}, !.kept = @ \cup {<<e, e.node>>}])
  /\ UNCHANGED <<listTables, opened>>

\* The links of a page are not looked up again.
LookAtLink(r) ==
  /\ LookingUp(r) /\ lists[r].kind = "children"
  /\ \E e \in Pending(lists[r]) : AskFor(r, e, e.node)
  /\ UNCHANGED <<listTables, opened>>

\* can_access_public_content: for a page that is gone by now it raises, which
\* ends the request.
RulesOfItself(n) == {access[n]}
RulesFor(n) == EffectiveRules(n)
Answer(r) ==
  LET list == lists[r]
      kept(rule) == IF Admits(rule, list.authenticated, list.groups)
                    THEN {<<list.entry, list.subject>>} ELSE {}
  IN  /\ list.at = "asking"
      /\ \/ ~Exists(list.subject) /\ Put(r, [at |-> "failed"])
         \/ /\ Exists(list.subject)
            /\ \E rule \in RulesFor(list.subject) :
                 Put(r, [list EXCEPT !.at = "listing", !.todo = @ \ {list.entry},
                                     !.kept = @ \cup kept(rule)])
      /\ UNCHANGED <<listTables, opened>>

Deliver(r) ==
  /\ lists[r].at = "listing" /\ lists[r].unread = {} /\ Pending(lists[r]) = {}
  /\ Put(r, [at |-> "listed", kind |-> lists[r].kind, kept |-> lists[r].kept])
  /\ UNCHANGED <<listTables, opened>>

EndList(r) ==
  /\ lists[r].at \in {"listed", "failed"}
  /\ Put(r, NoList)
  /\ opened' = [opened EXCEPT ![r] = {}]
  /\ UNCHANGED listTables

ReaderStep(r, reader) ==
  \/ StartSitemap(r, reader) \/ StartFeed(r, reader) \/ StartLinks(r, reader)
  \/ \E culture \in Cultures \cup {None} :
       StartSearch(r, culture, reader) \/ StartTree(r, culture, reader)

ListStep(r) ==
  \/ \E reader \in [authenticated: BOOLEAN, groups: SUBSET Groups] : ReaderStep(r, reader)
  \/ ReadResult(r) \/ ReadBranch(r)
  \/ LookAtRoute(r) \/ LookById(r) \/ LookAtLink(r)
  \/ Answer(r) \/ Deliver(r) \/ EndList(r)

WatchLists ==
  /\ UNCHANGED lists
  /\ opened' = [r \in Browsers |->
       IF lists[r].at \in {"listing", "asking"}
       THEN opened[r] \cup OpenPages(lists[r])' ELSE opened[r]]

ListInit ==
  /\ lists = [r \in Browsers |-> NoList]
  /\ opened = [r \in Browsers |-> {}]

ListingInit == VariantInit /\ AccessInit /\ ListInit

ListingNext ==
  \/ \E r \in Browsers : ListStep(r)
  \/ /\ \/ PageStepUnderRules /\ FollowPage
        \/ CopyStep /\ UNCHANGED ruleVars
        \/ RuleStep /\ UNCHANGED copyVars
     /\ WatchLists

ListingSpec == ListingInit /\ [][ListingNext]_<<listTables, listVars>>

-----------------------------------------------------------------------------
\* However pages come and go, move, and change their rules while a list is put
\* together, every page on it was free for this reader to see at some moment
\* of the request, or stands at the route of one that was; what is shown of it
\* was published. A page purged in the meantime stays on the lists that look
\* for it by its id.
ListedWasOpen ==
  \A r \in Browsers : lists[r].at = "listed" =>
    \A k \in lists[r].kept :
      /\ k[1].layers \subseteq released
      /\ \/ k[2] \in opened[r]
         \/ lists[r].kind \in {"search", "tree"} /\ nodes[k[2]].status = "purged"
=============================================================================
