------------------------------ MODULE ItilRoles ------------------------------
(***************************************************************************)
(* Who may do what at the service desk (itsm/rbac.py). A person's groups   *)
(* name ITIL roles; each role grants permissions and says as what its      *)
(* holder acts in workflow conditions. Aliases of group names are left     *)
(* out: a person has a set of roles.                                       *)
(***************************************************************************)
EXTENDS Naturals

AllPermissions ==
  {"read", "create_request", "create_change", "transition", "assign",
   "approve", "manage", "admin"}

Role(acts, permissions) == [acts |-> acts, permissions |-> permissions]

DeskPermissions == {"read", "create_request", "transition", "assign"}

Roles ==
  [requester |-> Role("customer", {"read", "create_request"}),
   service_desk_agent |-> Role("agent", DeskPermissions),
   incident_manager |-> Role("agent", DeskPermissions \cup {"manage"}),
   problem_manager |-> Role("agent", DeskPermissions \cup {"manage"}),
   service_request_fulfillment |-> Role("agent", DeskPermissions),
   change_manager |->
     Role("manager", DeskPermissions \cup {"create_change", "approve", "manage"}),
   cab_member |-> Role("manager", {"read", "approve"}),
   release_manager |->
     Role("manager", {"read", "create_change", "transition", "approve", "manage"}),
   service_owner |-> Role("manager", {"read", "approve", "manage"}),
   knowledge_manager |-> Role("viewer", {"read"}),
   auditor |-> Role("viewer", {"read"}),
   itsm_admin |-> Role("admin", AllPermissions)]

RoleNames == DOMAIN Roles

\* A role that grants "admin" grants everything.
PermissionsFor(roles) ==
  LET granted == UNION {Roles[r].permissions : r \in roles}
  IN  IF "admin" \in granted THEN AllPermissions ELSE granted

Priority == [admin |-> 4, manager |-> 3, agent |-> 2, customer |-> 1, viewer |-> 0]

\* The highest of the roles a person acts as; a viewer without any.
ActorRoleFor(roles) ==
  LET acts == {Roles[r].acts : r \in roles} \cup {"viewer"}
  IN  CHOOSE best \in acts : \A a \in acts : Priority[a] <= Priority[best]
=============================================================================
