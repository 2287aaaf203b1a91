------------------------------- MODULE MCSite -------------------------------
(* The public site with one page below the root. Each behaviour exercises one *)
(* set of tables beside the operations on pages: copies, rules, links, or     *)
(* what a reader's request for one page or for a list of pages meets; or the  *)
(* body of one page alone, of at most two blocks. The history and locks of    *)
(* nodes play no part here, so states that differ only in them are identified *)
(* (SiteView).                                                                *)
EXTENDS PublicReads, PublicListings, ContentBuilder

VARIABLE part   (* what this behaviour is about *)

MCHosts == {"shop.site.org", "*.site.org", "*"}
MCWildcardOf == [h \in MCHosts |-> "*.site.org"]

Page == CHOOSE n \in NodeIds : n # Root

MCInit ==
  /\ SiteInit
  /\ nodes[Root].draft = CHOOSE p \in Payloads : TRUE
  /\ ListInit
  /\ BodyInit
  /\ part \in {"copies", "rules", "links", "reads", "lists", "bodies"}

FewRedirects == {[source |-> <<s>>, target |-> PublicRoot, active |-> TRUE] : s \in Slugs}
Members == [policy |-> "members", groups |-> Groups, inherits |-> TRUE]

\* Copies: pages with two payloads, a variant, and a segment of one override.
CopiesNext ==
  /\ \/ PageStepUnderRules /\ FollowPage
     \/ CopyStep /\ UNCHANGED ruleVars
  /\ UNCHANGED <<linkVars, reads, shown>>
  /\ copies'[Root] = NoCopies
  /\ \A k \in Segments : copies'[Page][k].draft \in {None, nodes[Root].draft}

\* Rules: one of each kind, about a page of one payload.
RulesNext ==
  /\ \/ PageStepUnderRules /\ FollowPage
     \/ RuleStep /\ UNCHANGED copyVars
  /\ UNCHANGED <<linkVars, reads, shown>>
  /\ nodes'[Page].draft \in {None, nodes[Root].draft}
  /\ \A id \in RuleIds : grants'[id].actions \in {{}, {"update"}}
  /\ access'[Root] = Public

\* Links: two domains and one redirect, or a token.
LinksNext ==
  /\ \/ LinkStep /\ UNCHANGED copyVars
     \/ (TreeStep \/ Tick) /\ FollowPage /\ UNCHANGED linkVars
  /\ UNCHANGED <<ruleVars, reads, shown>>
  /\ nodes'[Page].draft \in {None, nodes[Root].draft}
  /\ \/ /\ redirects' = {} /\ \A d \in DomainIds : domains'[d] = NoDomain
     \/ redirects' \subseteq FewRedirects /\ \A t \in Tokens : tokens'[t] = NoToken

\* Reads: a rule, and a variant or else a domain and a redirect.
ReadsNext ==
  /\ \/ \E r \in Readers : ReadStep(r)
     \/ /\ \/ PageStepUnderRules /\ FollowPage /\ UNCHANGED linkVars
           \/ CopyStep /\ UNCHANGED <<ruleVars, linkVars>>
           \/ \E rule \in {Public, Members} : SetAccess(Page, rule) /\ UNCHANGED <<copyVars, linkVars>>
           \/ LinkStep /\ UNCHANGED <<copyVars, ruleVars>>
        /\ Watch
  /\ \A r \in Readers : reads'[r].at = "arrived" =>
       reads'[r].host = AnyHost /\ reads'[r].segment = None /\ reads'[r].path # TrashRoute(Page)
  /\ tokens' = tokens
  /\ copies'[Root] = NoCopies
  /\ \A k \in Segments : copies'[Page][k] = NoCopy
  /\ \A k \in Cultures : copies'[Page][k].draft \in {None, nodes[Root].draft}
  /\ \A d \in DomainIds : domains'[d] \in {NoDomain, [host |-> AnyHost, root |-> Page, default |-> FALSE]}
  /\ redirects' \subseteq FewRedirects
  /\ \A d \in DomainIds : domains'[d] # NoDomain => d = (CHOOSE e \in DomainIds : TRUE)
  /\ copies' = copies \/ linkVars = <<[d \in DomainIds |-> NoDomain], {}, tokens>>
  /\ linkVars' = linkVars \/ (copies[Page] = NoCopies /\ access[Page] = Public)

\* Lists: members only on the root, with or without what is below it, or a
\* page for whoever is signed in; a variant; members and others for readers.
Signed == [policy |-> "authenticated", groups |-> {}, inherits |-> FALSE]
ListsNext ==
  /\ \/ \E r \in Browsers : ListStep(r)
     \/ /\ \/ PageStepUnderRules /\ FollowPage
           \/ CopyStep /\ UNCHANGED ruleVars
           \/ \E rule \in {Public, Members} : SetAccess(Root, rule) /\ UNCHANGED copyVars
           \/ \E rule \in {Public, Signed} : SetAccess(Page, rule) /\ UNCHANGED copyVars
        /\ WatchLists
  /\ UNCHANGED <<linkVars, reads, shown>>
  /\ \A r \in Browsers : (lists[r] = NoList /\ lists'[r] # NoList) =>
       lists'[r].authenticated = (lists'[r].groups # {})
  /\ nodes'[Page].draft \in {None, nodes[Root].draft}
  /\ copies'[Root] = NoCopies
  /\ \A k \in Segments : copies'[Page][k] = NoCopy
  /\ \A k \in Cultures : copies'[Page][k].draft \in {None, nodes[Root].draft}

\* Bodies: values of every shape a form may send for a field of every editor,
\* with and without a title and an order of their own.
Given(type, settings) == [type |-> type, flat |-> FALSE, settings |-> settings]
Sent(as, rows) == [items |-> [as |-> as, rows |-> rows]]
Lines == << <<"good">>, <<"">>, <<"", "good">>, <<"", "", "", "", "", "good">> >>
MCBlocks ==
  {Given("hero", <<>>), Given("hero", [title |-> ""]), Given("hero", [cta_label |-> ""]),
   [Given("hero", [title |-> "short", subtitle |-> "good"]) EXCEPT !.flat = TRUE],
   Given("quote", <<>>), Given("quote", [quote |-> "good"]),
   Given("rich_text", [body |-> "good"]), Given("cta", [text |-> "short", button_url |-> ""]),
   Given("media", [media_url |-> "short"]), Given("media", [media_url |-> ""]),
   Given("api_tool", [endpoint |-> "short"]), Given("rag_reference", <<>>),
   Given("download_card", [file_url |-> "short", description |-> "good"]),
   Given("expert_cards", <<>>), Given("expert_cards", [expert_ids |-> <<"short", "">>]),
   Given("embed", <<>>), Given("banner", <<>>),
   Given("feature_grid", Sent("text", Lines)), Given("metrics", Sent("lines", Lines)),
   Given("steps", Sent("text", <<Lines[4]>>)), Given("faq", Sent("lines", <<Lines[2]>>)),
   Given("pricing_table",
         Sent("objects", <<[title |-> "", price |-> "short"], [title |-> ""],
                           [title |-> "good", body |-> "good"]>>))}
MCRawBlocks ==
  {RawBlock(b.type, title, order, b.flat, b.settings) :
     b \in MCBlocks, title \in {0, 1}, order \in {{}, {0}}}
MCBodies ==
  {[shape |-> "list", blocks |-> blocks] :
     blocks \in {<<>>} \cup {<<b>> : b \in MCRawBlocks} \cup MCRawBlocks \X MCRawBlocks}
  \cup {[shape |-> "other", blocks |-> <<>>]}

\* A form is filled in once; it is opened again after a save.
BodiesNext ==
  /\ \/ body = NoBlocks /\ Fill
     \/ SaveForm \/ SaveCall
     \/ from # NoBlocks /\ OpenForm
  /\ UNCHANGED <<siteVars, listVars>>

MCNext ==
  /\ \/ /\ \/ part = "copies" /\ CopiesNext
           \/ part = "rules" /\ RulesNext
           \/ part = "links" /\ LinksNext
           \/ part = "reads" /\ ReadsNext
        /\ UNCHANGED <<listVars, bodyVars>>
     \/ part = "lists" /\ ListsNext /\ UNCHANGED bodyVars
     \/ part = "bodies" /\ BodiesNext
  /\ nodes'[Root] = nodes[Root]
  /\ UNCHANGED part
MCSpec == MCInit /\ [][MCNext]_<<siteVars, listVars, bodyVars, part>>

SiteView == <<part, nodes, level, copyVars, grants, access, linkVars, now, reads, shown,
              listVars, bodyVars>>
=============================================================================
