----------------------------- MODULE ServiceDesk -----------------------------
(***************************************************************************)
(* Requests at the service desk of the ITSM plugin (itsm/service_desk.py)  *)
(* and the routes that drive it (web/itsm_routes.py).                      *)
(*                                                                         *)
(* A call of the API runs in a thread of one of the replicas, which share  *)
(* the request table. It reads one row, works on its copy, and writes the  *)
(* whole row back; nothing holds the row meanwhile, and a call may end in  *)
(* between (a database error, the end of the process).                     *)
(*                                                                         *)
(* What a request is about, its priority and its SLA times are left out.   *)
(* Its history is kept, each entry with the person who called (the code    *)
(* keeps the name the caller gives, their own unless they say otherwise)   *)
(* and with the status before and after.                                   *)
(* Operators defined just before another one, and used nowhere, are faulty *)
(* variants of it, to test that the properties can tell.                   *)
(***************************************************************************)
EXTENDS Naturals, Sequences, WorkflowSchemes, ItilRoles

CONSTANTS
  Persons,     (* who calls                                                *)
  RolesOf,     (* the ITIL roles of each person                            *)
  Admins,      (* platform administrators, who may do everything           *)
  Threads,     (* request threads of all replicas together                 *)
  SchemeKeys,  (* schemes that requests are logged under                   *)
  MaxCalls     (* bound: calls in a behaviour                              *)

Nobody == "nobody"

ASSUME PersonsAssumption ==
  /\ RolesOf \in [Persons -> SUBSET RoleNames]
  /\ Admins \subseteq Persons
  /\ Nobody \notin Persons
ASSUME BoundAssumption == MaxCalls \in Nat
ASSUME SchemesAssumption == SchemeKeys \subseteq DOMAIN Schemes

VARIABLES
  requests,  (* the rows of itsm_request                                   *)
  seq,       (* the last number drawn for a key                            *)
  calls,     (* the copy each thread works on                              *)
  made       (* calls so far                                               *)

deskVars == <<requests, seq, calls, made>>

Keys == 1..MaxCalls
NoRequest == [scheme |-> Nobody, status |-> Nobody, assignee |-> Nobody,
              resolution |-> FALSE, resolved |-> FALSE, history |-> <<>>]
Idle == [key |-> 0, row |-> NoRequest]

SchemeOf(row) == Schemes[row.scheme]

Permissions(p) == IF p \in Admins THEN AllPermissions ELSE PermissionsFor(RolesOf[p])

\* An administrator acts in the role they ask for.
ActorRoles(p) ==
  IF p \in Admins THEN DOMAIN Priority ELSE {ActorRoleFor(RolesOf[p])}

-----------------------------------------------------------------------------

Call(t) == calls[t] = Idle /\ made < MaxCalls /\ made' = made + 1

Record(row, kind, p, from) ==
  [row EXCEPT !.history =
     Append(@, [kind |-> kind, by |-> p, from |-> from, to |-> row.status])]

NewRow(p, s) ==
  Record([NoRequest EXCEPT !.scheme = s, !.status = Schemes[s].initial], "created", p, Nobody)

\* create_request, first half: the key is drawn in a transaction of its own.
\* Every scheme can be asked for by name, whatever the type of the request.
CreateUndrawn(t, p, s) ==
  /\ Call(t)
  /\ "create_request" \in Permissions(p)
  /\ calls' = [calls EXCEPT ![t] = [key |-> seq + 1, row |-> NewRow(p, s)]]
  /\ UNCHANGED <<requests, seq>>
CreateReadsFirst(t, p, s) ==
  /\ Call(t)
  /\ "create_request" \in Permissions(p)
  /\ seq' = seq + 1
  /\ calls' = [calls EXCEPT ![t] = [key |-> seq, row |-> NewRow(p, s)]]
  /\ UNCHANGED requests
Create(t, p, s) ==
  /\ Call(t)
  /\ "create_request" \in Permissions(p)
  /\ seq' = seq + 1
  /\ calls' = [calls EXCEPT ![t] = [key |-> seq + 1, row |-> NewRow(p, s)]]
  /\ UNCHANGED requests

Assign(t, p, k, who) ==
  /\ Call(t)
  /\ "assign" \in Permissions(p)
  /\ requests[k] # NoRequest
  /\ calls' = [calls EXCEPT ![t] =
       [key |-> k,
        row |-> Record([requests[k] EXCEPT !.assignee = who],
                       "assigned", p, requests[k].status)]]
  /\ UNCHANGED <<requests, seq>>

\* The routes ask for the permission to approve, besides the one to transition.
MayAsk(p, move, approved) ==
  /\ "transition" \in Permissions(p)
  /\ move.id = "approve" \/ approved => "approve" \in Permissions(p)

MovedUnstamped(row, move, p, resolution) ==
  Record([row EXCEPT !.status = move.to,
                     !.resolution = @ \/ resolution,
                     !.assignee = IF "assign_to_actor" \in move.effects THEN p ELSE @],
         move.id, p, row.status)
Moved(row, move, p, resolution) ==
  Record([row EXCEPT !.status = move.to,
                     !.resolution = @ \/ resolution,
                     !.assignee = IF "assign_to_actor" \in move.effects THEN p ELSE @,
                     !.resolved = @ \/ "stamp_resolved_at" \in move.effects],
         move.id, p, row.status)

\* A call that may not be made, or whose conditions fail, changes nothing, and
\* the resolution it brings is dropped with it.
Transition(t, p, k, move, approved, resolution) ==
  LET row == requests[k]
  IN  /\ Call(t)
      /\ row # NoRequest
      /\ MayAsk(p, move, approved)
      /\ \E role \in ActorRoles(p) :
           MayApply(SchemeOf(row), move, row.status,
                    [role |-> role, approved |-> approved,
                     resolution |-> row.resolution \/ resolution,
                     assigned |-> row.assignee # Nobody])
      /\ calls' = [calls EXCEPT ![t] = [key |-> k, row |-> Moved(row, move, p, resolution)]]
      /\ UNCHANGED <<requests, seq>>

\* The whole row is inserted or replaced.
SaveMerged(t) ==
  LET old == requests[calls[t].key]
      new == calls[t].row
  IN  /\ calls[t] # Idle
      /\ requests' = [requests EXCEPT ![calls[t].key] =
           [new EXCEPT !.history = Append(old.history, @[Len(@)])]]
      /\ calls' = [calls EXCEPT ![t] = Idle]
      /\ UNCHANGED <<seq, made>>
Save(t) ==
  /\ calls[t] # Idle
  /\ requests' = [requests EXCEPT ![calls[t].key] = calls[t].row]
  /\ calls' = [calls EXCEPT ![t] = Idle]
  /\ UNCHANGED <<seq, made>>

Fail(t) ==
  /\ calls[t] # Idle
  /\ calls' = [calls EXCEPT ![t] = Idle]
  /\ UNCHANGED <<requests, seq, made>>

-----------------------------------------------------------------------------

DeskInit ==
  /\ requests = [k \in Keys |-> NoRequest]
  /\ seq = 0
  /\ calls = [t \in Threads |-> Idle]
  /\ made = 0

StartCall(t) ==
  \E p \in Persons :
    \/ \E s \in SchemeKeys : Create(t, p, s)
    \/ \E k \in Keys :
         \/ \E who \in Persons : Assign(t, p, k, who)
         \/ \E move \in UNION {Schemes[s].moves : s \in SchemeKeys},
               approved, resolution \in BOOLEAN :
              Transition(t, p, k, move, approved, resolution)

DeskNext == \E t \in Threads : StartCall(t) \/ Save(t) \/ Fail(t)

DeskSpec == DeskInit /\ [][DeskNext]_deskVars

-----------------------------------------------------------------------------
MoveIds == UNION {{m.id : m \in Schemes[s].moves} : s \in DOMAIN Schemes}
StatusIds == UNION {Statuses(Schemes[s]) : s \in DOMAIN Schemes}
Entries == [kind : MoveIds \cup {"created", "assigned"}, by : Persons,
            from : StatusIds \cup {Nobody}, to : StatusIds]
Rows == [scheme : SchemeKeys, status : StatusIds, assignee : Persons \cup {Nobody},
         resolution : BOOLEAN, resolved : BOOLEAN, history : Seq(Entries)]

DeskTypeOK ==
  /\ requests \in [Keys -> Rows \cup {NoRequest}]
  /\ seq \in Nat /\ made \in 0..MaxCalls /\ seq <= made
  /\ calls \in [Threads -> {Idle} \cup [key : Keys, row : Rows]]

\* The history of a request explains its status: it begins with its creation in
\* the initial status, each entry goes on where the one before it stopped, each
\* change of status is a move of the scheme, and the last one led to where the
\* request is. Concurrent calls may lose entries, but never one in the middle.
Explained(row) ==
  LET h == row.history
      n == Len(h)
  IN  /\ n > 0
      /\ h[1].kind = "created" /\ h[1].to = SchemeOf(row).initial
      /\ h[n].to = row.status
      /\ \A i \in 2..n :
           /\ h[i].from = h[i - 1].to
           /\ \/ h[i].kind = "assigned" /\ h[i].to = h[i].from
              \/ \E m \in SchemeOf(row).moves :
                   m.id = h[i].kind /\ m.to = h[i].to /\ AppliesFrom(m, h[i].from)
HistoryExplainsStatus ==
  \A k \in Keys : requests[k] # NoRequest => Explained(requests[k])

\* Statuses that only an approval leads into, by the scheme.
BeyondApproval ==
  [change |-> {"approved", "implementing", "done", "rolled_back"},
   emergency_change |-> {"approved", "implementing", "implemented", "rolled_back"},
   service_request |-> {"fulfilment", "delivered"},
   knowledge |-> {"approved", "published", "archived"}]

\* "change: draft, review, CAB, implementing, done" (docs/capabilities/itsm.md):
\* no request gets there but through an approval by someone who may approve.
IsApprover(p) ==
  p \in Admins \/ \E r \in RolesOf[p] : {"approve", "admin"} \cap Roles[r].permissions # {}
ApprovedByApprover(row) ==
  LET h == row.history
      Beyond == BeyondApproval[row.scheme]
  IN  /\ row.status \in Beyond => \E i \in 1..Len(h) : h[i].kind = "approve"
      /\ \A i \in 1..Len(h) :
           h[i].to \in Beyond /\ h[i].from \notin Beyond =>
             h[i].kind = "approve" /\ IsApprover(h[i].by)
NothingPassesWithoutApproval ==
  \A k \in Keys : requests[k].scheme \in DOMAIN BeyondApproval =>
    ApprovedByApprover(requests[k])

\* A resolved or closed incident has a resolution, and its SLA clock is stopped,
\* as is that of one that is cancelled.
AccountedFor(row) ==
  /\ row.status \in {"resolved", "closed"} => row.resolution
  /\ row.status \in Incident.done => row.resolved
ResolvedIsAccountedFor ==
  \A k \in Keys : requests[k].scheme = "incident" => AccountedFor(requests[k])

\* A key belongs to one request: none is ever replaced by another, though calls
\* that create requests overlap and fail half way.
KeysNotReused ==
  [][\A k \in Keys : requests[k] # NoRequest =>
       requests'[k] # NoRequest /\ requests'[k].history[1] = requests[k].history[1]]_deskVars

\* A request carries "an immutable history" (docs/capabilities/itsm.md): what is
\* in it stays.
HistoryIsImmutable ==
  [][\A k \in Keys : \A i \in 1..Len(requests[k].history) :
       /\ i <= Len(requests'[k].history)
       /\ requests'[k].history[i] = requests[k].history[i]]_deskVars
=============================================================================
