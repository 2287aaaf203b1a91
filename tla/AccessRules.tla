---------------------------- MODULE AccessRules -----------------------------
(***************************************************************************)
(* Who may edit and who may read (services/cms.py): editors' permissions,  *)
(* each a set of actions granted to a user or to everybody on one node or  *)
(* on all of them, and the public access rule a node may have. Both reach  *)
(* the descendants of their node if they say so, and find them by route: a *)
(* node is below another if its route continues the other's.               *)
(***************************************************************************)
EXTENDS ContentNodes, SequencesExt

CONSTANTS
  Users,      (* names of users                                            *)
  Groups,     (* member groups an access rule can name                     *)
  RuleIds     (* ids of permission rules                                   *)

Everybody == "*"
ASSUME AccessAssumption == Everybody \notin Users

VARIABLES
  level,      (* the column node_level, written once with the node         *)
  grants,     (* archub_content_permissions, by rule id, or NoGrant        *)
  access      (* archub_content_access, by node, or Public                 *)

ruleVars == <<level, grants, access>>
accessVars == <<vars, ruleVars>>

PermissionActions == {"browse", "create", "update", "publish", "delete",
                      "workflow", "model", "media", "settings", "admin"}

NoGrant == [actions |-> {}]
Public == [policy |-> "public", groups |-> {}, inherits |-> FALSE]

Ancestors(n) == {m \in NodeIds : PathsDown(nodes, m, n) # {}}
Below(route, n) == IsStrictPrefix(nodes[n].route, route)

-----------------------------------------------------------------------------
(* Permissions.                                                            *)

\* A rule is kept when the node it is about is purged.
Grant(id, subject, actions, scope, inherits) ==
  /\ actions # {}
  /\ scope # None => Exists(scope)
  /\ grants' = [grants EXCEPT ![id] =
       [subject |-> subject, actions |-> actions, scope |-> scope, inherits |-> inherits]]
  /\ UNCHANGED <<vars, level, access>>

Revoke(id) ==
  /\ grants[id] # NoGrant
  /\ grants' = [grants EXCEPT ![id] = NoGrant]
  /\ UNCHANGED <<vars, level, access>>

\* _permission_scope_matches: the routes of both must still be there.
ScopeMatches(g, n) ==
  \/ g.scope \in {None, n}
  \/ g.inherits /\ Exists(g.scope) /\ Exists(n) /\ Below(nodes[n].route, g.scope)

\* can_user_perform, for a user who is no administrator; without a node any
\* scope will do.
MayPerform(user, action, n) ==
  \E id \in RuleIds :
    /\ grants[id] # NoGrant
    /\ grants[id].subject \in {Everybody, user}
    /\ {"admin", action} \cap grants[id].actions # {}
    /\ n = None \/ ScopeMatches(grants[id], n)

-----------------------------------------------------------------------------
(* Public access.                                                          *)

\* A rule that makes a node public is no rule at all.
SetAccess(n, rule) ==
  /\ Exists(n)
  /\ rule.policy = "members" => rule.groups # {}
  /\ access' = [access EXCEPT ![n] = IF rule.policy = "public" THEN Public ELSE rule]
  /\ UNCHANGED <<vars, level, grants>>

RemoveAccess(n) ==
  /\ access[n] # Public
  /\ access' = [access EXCEPT ![n] = Public]
  /\ UNCHANGED <<vars, level, grants>>

\* Rules of n itself or, if they inherit, of nodes n's route is below of.
Covering(n) ==
  {m \in NodeIds : access[m] # Public /\ (m = n \/ (access[m].inherits /\ Below(nodes[n].route, m)))}

\* _effective_access_rule_row: the covering rule of the deepest level. Rules of
\* one level are ordered by their age, which is left out: any may be taken.
EffectiveRules(n) ==
  IF Covering(n) = {} THEN {Public}
  ELSE {access[m] : m \in {m \in Covering(n) : \A k \in Covering(n) : level[k] <= level[m]}}

\* can_access_public_content. A member goes by a user's name or a group's.
Admits(rule, authenticated, groups) ==
  CASE rule.policy = "public" -> TRUE
    [] rule.policy = "authenticated" -> authenticated
    [] OTHER -> authenticated /\ rule.groups \cap groups # {}

-----------------------------------------------------------------------------
\* level is drawn with the node: one more than the parent's, or that of the
\* node it is a copy of, which the bin may have taken from its parent since.
AddPage(n, parent, slug, payload) ==
  /\ Create(n, parent, slug, payload)
  /\ level' = [level EXCEPT ![n] = IF parent = None THEN 1 ELSE level[parent] + 1]
  /\ UNCHANGED <<grants, access>>

CopyPage(n, copy, slug) ==
  /\ Duplicate(n, copy, slug)
  /\ level' = [level EXCEPT ![copy] = level[n]]
  /\ UNCHANGED <<grants, access>>

\* A purge deletes the access rule, and nothing else touches these tables.
ChangePage ==
  /\ TreeStep
  /\ \A n \in NodeIds : Fresh(n) => nodes'[n].status = "absent"
  /\ access' = [n \in NodeIds |->
       IF nodes'[n].status = "purged" THEN Public ELSE access[n]]
  /\ UNCHANGED <<level, grants>>

PageStepUnderRules ==
  \/ \E n \in NodeIds, p \in NodeIds \cup {None}, s \in Slugs, d \in Payloads :
       AddPage(n, p, s, d)
  \/ \E n, copy \in NodeIds, s \in Slugs : CopyPage(n, copy, s)
  \/ ChangePage

AccessInit ==
  /\ Init
  /\ level = [n \in NodeIds |-> 0]
  /\ grants = [id \in RuleIds |-> NoGrant]
  /\ access = [n \in NodeIds |-> Public]

RuleStep ==
  \/ \E id \in RuleIds : Revoke(id)
  \/ \E id \in RuleIds, subject \in Users \cup {Everybody}, action \in PermissionActions,
        scope \in NodeIds \cup {None}, inherits \in BOOLEAN :
       Grant(id, subject, {action}, scope, inherits)
  \/ \E n \in NodeIds : RemoveAccess(n)
  \/ \E n \in NodeIds, policy \in {"public", "authenticated", "members"},
        groups \in SUBSET Groups, inherits \in BOOLEAN :
       SetAccess(n, [policy |-> policy, groups |-> groups, inherits |-> inherits])

AccessNext == PageStepUnderRules \/ RuleStep

=============================================================================
