---------------------------- MODULE SiteRouting -----------------------------
(***************************************************************************)
(* What leads a reader to a page (services/cms.py): domains, each with the *)
(* node its bare address stands for; redirects, asked when there is no     *)
(* page; and preview tokens, which show the draft of one page for a while. *)
(* The rows name nodes and routes and are left as they are when those go.  *)
(***************************************************************************)
EXTENDS ContentNodes

CONSTANTS
  Hosts,        (* hostnames as _normalize_hostname returns them, patterns too *)
  WildcardOf,   (* the pattern "*.<rest>" of each hostname                 *)
  AnyHost,      (* the hostname "*"                                        *)
  DomainIds,    (* ids of domain rows                                      *)
  Tokens,       (* preview tokens                                          *)
  PreviewTtls   (* their lifetimes, in ticks                               *)

ASSUME HostAssumption ==
  /\ AnyHost \in Hosts
  /\ WildcardOf \in [Hosts -> Hosts]
ASSUME TokenAssumption == PreviewTtls \subseteq Nat

VARIABLES
  domains,      (* archub_content_domains, by id, or NoDomain              *)
  redirects,    (* archub_redirect_rules: the rows, unique by source       *)
  tokens        (* archub_preview_tokens, by token, or NoToken             *)

linkVars == <<domains, redirects, tokens>>
routingVars == <<vars, linkVars>>

NoDomain == [host |-> None, root |-> None, default |-> FALSE]
NoToken == [node |-> None, expires |-> 0, revoked |-> FALSE]

-----------------------------------------------------------------------------
(* Domains.                                                                *)

\* The row a save is about: the one with the id given, or the one with the
\* hostname if no id is given, or a new one.
RowFor(id, host) ==
  IF id # None THEN {id}
  ELSE IF \E d \in DomainIds : domains[d].host = host
       THEN {d \in DomainIds : domains[d].host = host}
       ELSE {d \in DomainIds : domains[d] = NoDomain}

\* hostname is UNIQUE; the transaction that gave up the old default is rolled
\* back with it.
SaveDomainBeside(id, host, root, default) ==
  /\ Exists(root) /\ nodes[root].status # "trashed"
  /\ \E d \in RowFor(id, host) :
       /\ \A other \in DomainIds \ {d} : domains[other].host # host
       /\ domains' = [domains EXCEPT ![d] = [host |-> host, root |-> root, default |-> default]]
  /\ UNCHANGED <<vars, redirects, tokens>>
SaveDomain(id, host, root, default) ==
  /\ Exists(root) /\ nodes[root].status # "trashed"
  /\ \E d \in RowFor(id, host) :
       /\ \A other \in DomainIds \ {d} : domains[other].host # host
       /\ domains' = [other \in DomainIds |->
            IF other = d THEN [host |-> host, root |-> root, default |-> default]
            ELSE IF default THEN [domains[other] EXCEPT !.default = FALSE]
            ELSE domains[other]]
  /\ UNCHANGED <<vars, redirects, tokens>>

DeleteDomain(d) ==
  /\ domains[d] # NoDomain
  /\ domains' = [domains EXCEPT ![d] = NoDomain]
  /\ UNCHANGED <<vars, redirects, tokens>>

\* resolve_content_domain: the first candidate some row has, else the default.
DomainWith(hosts) == {d \in DomainIds : domains[d].host \in hosts}
ResolveDomain(host) ==
  CASE DomainWith({host}) # {} -> DomainWith({host})
    [] DomainWith({host}) = {} /\ DomainWith({WildcardOf[host]}) # {} ->
         DomainWith({WildcardOf[host]})
    [] DomainWith({host, WildcardOf[host]}) = {} /\ DomainWith({AnyHost}) # {} ->
         DomainWith({AnyHost})
    [] OTHER -> {d \in DomainIds : domains[d].default}

-----------------------------------------------------------------------------
(* Redirects and published pages.                                          *)

SaveRedirect(source, target, active) ==
  /\ source # target
  /\ redirects' = {r \in redirects : r.source # source} \cup
                  {[source |-> source, target |-> target, active |-> active]}
  /\ UNCHANGED <<vars, domains, tokens>>

ResolveRedirect(route) == {r \in redirects : r.source = route /\ r.active}

\* get_published_by_path
PublishedAt(route) ==
  {n \in NodeIds : nodes[n].status = "published" /\ nodes[n].route = route}

\* The address of a request: a path, or none for the root of its domain. The
\* root of a domain whose node is purged is the root of the site.
Address(host, path) ==
  IF path # PublicRoot THEN {path}
  ELSE LET roots == {domains[d].root : d \in ResolveDomain(host)}
       IN  {IF Exists(n) THEN nodes[n].route ELSE PublicRoot : n \in roots}
           \cup (IF roots = {} THEN {PublicRoot} ELSE {})

-----------------------------------------------------------------------------
(* Preview tokens.                                                         *)

IssueToken(t, n, ttl) ==
  /\ tokens[t] = NoToken
  /\ Exists(n) /\ nodes[n].status # "trashed"
  /\ tokens' = [tokens EXCEPT ![t] = [node |-> n, expires |-> now + ttl, revoked |-> FALSE]]
  /\ UNCHANGED <<vars, domains, redirects>>

RevokeToken(t) ==
  /\ tokens[t] # NoToken /\ ~tokens[t].revoked
  /\ tokens' = [tokens EXCEPT ![t].revoked = TRUE]
  /\ UNCHANGED <<vars, domains, redirects>>

TokenIsActive(t) ==
  tokens[t] # NoToken /\ ~tokens[t].revoked /\ tokens[t].expires > now

\* resolve_preview_token: the draft as it is now, unless the page is in the
\* bin or gone.
PreviewUnrevoked(t) ==
  IF tokens[t] # NoToken /\ tokens[t].expires > now /\ Exists(tokens[t].node)
     /\ nodes[tokens[t].node].status # "trashed"
  THEN nodes[tokens[t].node].draft
  ELSE None
Preview(t) ==
  IF TokenIsActive(t) /\ Exists(tokens[t].node) /\ nodes[tokens[t].node].status # "trashed"
  THEN nodes[tokens[t].node].draft
  ELSE None

-----------------------------------------------------------------------------
KnownRoutes == {nodes[n].route : n \in NodeIds} \cup {<<s>> : s \in Slugs}

LinkStep ==
  \/ \E id \in DomainIds \cup {None}, h \in Hosts, n \in NodeIds, default \in BOOLEAN :
       SaveDomain(id, h, n, default)
  \/ \E d \in DomainIds : DeleteDomain(d)
  \/ \E source, target \in KnownRoutes, active \in BOOLEAN :
       SaveRedirect(source, target, active)
  \/ \E t \in Tokens, n \in NodeIds, ttl \in PreviewTtls : IssueToken(t, n, ttl)
  \/ \E t \in Tokens : RevokeToken(t)

RoutingInit ==
  /\ Init
  /\ domains = [d \in DomainIds |-> NoDomain]
  /\ redirects = {}
  /\ tokens = [t \in Tokens |-> NoToken]

RoutingNext ==
  \/ LinkStep
  \/ (TreeStep \/ Tick) /\ UNCHANGED linkVars

RoutingSpec == RoutingInit /\ [][RoutingNext]_routingVars

-----------------------------------------------------------------------------
\* The fallback for unknown hosts is one domain, whatever rows are renamed,
\* replaced and refused: otherwise the sort order would pick one silently.
FallbackIsUnique ==
  /\ \A d, e \in DomainIds : domains[d].default /\ domains[e].default => d = e
  /\ \A h \in Hosts : Cardinality(ResolveDomain(h)) <= 1

\* A token that has lapsed, was revoked or lost its page for good never shows
\* anything again, although restoring a page from the bin does revive its own.
DeadTokensStayDead ==
  [][\A t \in Tokens :
       (tokens[t] # NoToken /\ (~TokenIsActive(t) \/ nodes[tokens[t].node].status = "purged"))
         => Preview(t)' = None]_routingVars
=============================================================================
