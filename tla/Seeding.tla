------------------------------- MODULE Seeding -------------------------------
(***************************************************************************)
(* What the process brings along: the content types of _seed_defaults,     *)
(* written over the stored ones at every start, and the pages              *)
(* bootstrap_runtime_content makes of source files, at a start or from the *)
(* sync route (services/cms.py, services/runtime.py, demo.py). A source    *)
(* that has a page is skipped; else its page is created and published, in  *)
(* one transaction each, beside the operations of ContentNodes.            *)
(*                                                                         *)
(* Every node but the root is of one of the types made from sources, and a *)
(* payload says which source it is of.                                     *)
(***************************************************************************)
EXTENDS ContentNodes, Functions

CONSTANTS
  Files,       (* the files walked, in their order: payloads               *)
  SourceOf,    (* of each payload: the key of its source                   *)
  Managed,     (* the type of the pages made: one of ManagedAliases        *)
  Seeders,     (* requests and starts that seed                            *)
  SeedActor    (* the actor they write as                                  *)

VARIABLES
  types,       (* archub_content_types: the rows of the shipped types      *)
  walks,       (* of each seeder: the files left, and what of the first    *)
  contested    (* sources that somebody else gave a page while a seeder    *)
               (* was making one, or beside another page: history          *)

seedVars == <<types, walks, contested>>

-----------------------------------------------------------------------------
(* What is shipped.                                                        *)

ManagedAliases == {"ai_expert", "rag_material", "bot_resource"}
ShippedTemplates == {"root", "page", "landing", "article", "expert"}

TypeRow(atRoot, children, template) ==
  [atRoot |-> atRoot, children |-> children, template |-> template]

ShippedTypes ==
  [site_root |-> TypeRow(TRUE, {"page", "bot_landing", "knowledge_article", "expert_page"}
                                 \cup ManagedAliases, "root"),
   page |-> TypeRow(TRUE, {"page", "knowledge_article", "expert_page", "rag_material"}, "page"),
   bot_landing |-> TypeRow(TRUE, {"page", "knowledge_article"}, "landing"),
   knowledge_article |-> TypeRow(FALSE, {}, "article"),
   expert_page |-> TypeRow(FALSE, {}, "expert"),
   ai_expert |-> TypeRow(TRUE, {"rag_material", "knowledge_article"}, "expert"),
   rag_material |-> TypeRow(TRUE, {}, "article"),
   bot_resource |-> TypeRow(TRUE, {}, "article")]

\* allowed_child_types of the root: what it names and what may be at the root.
AllowedAtRoot == {t \in DOMAIN types : types[t].atRoot \/ t \in types["site_root"].children}

ASSUME SeedAssumption ==
  /\ Files \in Seq(Payloads)
  /\ DOMAIN SourceOf = Payloads
  /\ Managed \in ManagedAliases
  /\ SeedActor \in Actors

\* What every start finds: the types it ships allow each other, use templates
\* it ships, and each type made from sources may be made below the root.
ASSUME ShippedAssumption ==
  /\ \A t \in DOMAIN ShippedTypes : /\ ShippedTypes[t].template \in ShippedTemplates
                                    /\ ShippedTypes[t].children \subseteq DOMAIN ShippedTypes
  /\ ManagedAliases \subseteq ShippedTypes["site_root"].children

-----------------------------------------------------------------------------
(* Seeding.                                                                *)

Resting == [left |-> <<>>, at |-> "look", page |-> None]
Source(walk) == SourceOf[Head(walk.left)]
NextFile(walk) == [Resting EXCEPT !.left = Tail(walk.left)]
Goes(k, walk) == walks' = [walks EXCEPT ![k] = walk]

SeedInit ==
  /\ Init
  /\ types = ShippedTypes
  /\ walks = [k \in Seeders |-> Resting]
  /\ contested = {}

\* find_node_by_field: the pages whose draft, or published payload if there is
\* one, is of the source, unless they lie in the bin.
PagesOfDraft(s) ==
  {n \in NodeIds \ {Root} : Exists(n) /\ nodes[n].status # "trashed"
                           /\ SourceOf[nodes[n].draft] = s}
PagesOf(s) ==
  {n \in NodeIds \ {Root} : /\ Exists(n) /\ nodes[n].status # "trashed"
                           /\ \/ SourceOf[nodes[n].draft] = s
                              \/ nodes[n].pub # None /\ SourceOf[nodes[n].pub] = s}

Begin(k) ==
  /\ walks[k].left = <<>>
  /\ Goes(k, [Resting EXCEPT !.left = Files])
  /\ UNCHANGED <<vars, types>>

LookAmong(k, pages) ==
  LET walk == walks[k]
  IN  /\ walk.left # <<>> /\ walk.at = "look"
      /\ Goes(k, IF pages = {} THEN [walk EXCEPT !.at = "create"] ELSE NextFile(walk))
      /\ UNCHANGED <<vars, types>>
LookAtDrafts(k) == LookAmong(k, PagesOfDraft(Source(walks[k])))
Look(k) == LookAmong(k, PagesOf(Source(walks[k])))

CreatePage(k) ==
  LET walk == walks[k]
  IN  /\ walk.at = "create"
      /\ Managed \in AllowedAtRoot
      /\ \E n \in NodeIds, slug \in Slugs :
           /\ Create(n, Root, slug, Head(walk.left))
           /\ Goes(k, [walk EXCEPT !.at = "publish", !.page = n])
      /\ UNCHANGED types

PublishPage(k) ==
  LET walk == walks[k]
  IN  /\ walk.at = "publish"
      /\ Publish(walk.page, SeedActor)
      /\ Goes(k, NextFile(walk))
      /\ UNCHANGED types

\* The file cannot be read, or a call raised: it is logged, and the next file is
\* taken; the demo's pages are not guarded so, and the start fails. What was
\* created stays, as a draft, and is found from now on.
SkipFile(k) ==
  LET walk == walks[k]
  IN  /\ \/ walk.at = "create"
         \/ /\ walk.at = "publish"
            /\ \/ ~Exists(walk.page)
               \/ ~MayWrite(walk.page, SeedActor)
               \/ nodes[walk.page].draft \notin Publishable
      /\ \E next \in {NextFile(walk), Resting} : Goes(k, next)
      /\ UNCHANGED <<vars, types>>

SeederStep == \E k \in Seeders : Begin(k) \/ Look(k) \/ CreatePage(k) \/ PublishPage(k) \/ SkipFile(k)

\* The process starts again, wherever its seedings were: _seed_defaults writes
\* every shipped type as it ships.
Boot ==
  /\ types' = ShippedTypes
  /\ walks' = [k \in Seeders |-> Resting]
  /\ UNCHANGED vars

\* upsert_content_type: an administrator keeps a type away from the root.
NarrowType ==
  /\ types' = [types EXCEPT ![Managed].atRoot = FALSE,
                            !["site_root"].children = @ \ {Managed}]
  /\ UNCHANGED <<vars, walks>>

-----------------------------------------------------------------------------
(* Who else makes a page of a source.                                      *)

\* Of each step: the sources one more page is of, while another seeder has
\* looked for one and not found it, or while there is one and no seeder makes
\* it: an editor does, or publishes a page that was put into the bin meanwhile.
Gains(s) == \E n \in PagesOf(s)' : n \notin PagesOf(s)
Looked(s) == {k \in Seeders : walks[k].at = "create" /\ Source(walks[k]) = s}
SeederMakes == \E k \in Seeders : walks[k].at = "create" /\ walks'[k].at = "publish"
Contend ==
  contested' = contested \cup
    {s \in Range(SourceOf) :
       /\ Gains(s)
       /\ \/ PagesOf(s) # {} /\ ~SeederMakes
          \/ \E k \in Looked(s) : walks'[k] = walks[k]}

SeedNext ==
  /\ \/ SeederStep \/ Boot \/ NarrowType
     \/ (TreeStep \/ HistoryStep \/ LockStep \/ Tick) /\ UNCHANGED <<types, walks>>
  /\ Contend

SeedSpec == SeedInit /\ [][SeedNext]_<<vars, seedVars>>
-----------------------------------------------------------------------------
\* Starting again, or syncing again, does not fill the site with copies: a source
\* has one page, whatever editors made of that page's draft or publication since,
\* unless somebody else made it another, or two seedings were at it at a time.
OnePagePerSource ==
  \A s \in Range(SourceOf) \ contested : \A m, n \in PagesOf(s) : m = n
=============================================================================
