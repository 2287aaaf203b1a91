------------------------- MODULE ServiceDesk_proofs -------------------------
(***************************************************************************)
(* What the desk keeps for any number of replicas and threads, persons and *)
(* calls, and for all ten schemes. A thread's copy of a row is as sound as *)
(* the row, whatever happened to the row since it was read: that is why    *)
(* writing whole rows back may lose entries but not consistency.           *)
(***************************************************************************)
EXTENDS ServiceDesk, TLAPS

\* What holds of every row and of every copy of one.
Sound(row) ==
  /\ row \in Rows
  /\ Explained(row)
  /\ row.scheme \in DOMAIN BeyondApproval => ApprovedByApprover(row)
  /\ row.scheme = "incident" => AccountedFor(row)

\* Requests exist only under keys drawn, and calls that hold one key hold the
\* same request, which is the one stored if there is one.
KeysAgree ==
  /\ \A k \in Keys : requests[k] # NoRequest => k <= seq
  /\ \A t \in Threads : calls[t] # Idle =>
       /\ calls[t].key <= seq
       /\ requests[calls[t].key] # NoRequest =>
            requests[calls[t].key].history[1] = calls[t].row.history[1]
  /\ \A t, u \in Threads :
       calls[t] # Idle /\ calls[u] # Idle /\ calls[t].key = calls[u].key =>
         calls[t].row.history[1] = calls[u].row.history[1]

DeskInv ==
  /\ requests \in [Keys -> Rows \cup {NoRequest}]
  /\ calls \in [Threads -> {Idle} \cup [key : Keys, row : Rows]]
  /\ seq \in Nat /\ made \in 0..MaxCalls /\ seq <= made
  /\ \A k \in Keys : requests[k] # NoRequest => Sound(requests[k])
  /\ \A t \in Threads : calls[t] # Idle => Sound(calls[t].row)
  /\ KeysAgree

-----------------------------------------------------------------------------
(* The schemes.                                                            *)

\* Nobody is the name of no scheme, and schemes begin in one of their statuses.
LEMMA InitialIsStatus ==
  /\ Nobody \notin DOMAIN Schemes
  /\ \A s \in DOMAIN Schemes : Schemes[s].initial \in Statuses(Schemes[s])
BY DEF Schemes, Statuses, Nobody, Incident, MajorIncident, Problem, ServiceRequest, Change,
       StandardChange, EmergencyChange, Release, Event, Knowledge

\* Only approvals lead into the statuses beyond approval.
LEMMA OnlyApprovalLeadsBeyond ==
  ASSUME NEW s \in DOMAIN BeyondApproval
  PROVE  /\ s \in DOMAIN Schemes
         /\ Schemes[s].initial \notin BeyondApproval[s]
         /\ \A m \in Schemes[s].moves :
              m.to \in BeyondApproval[s] /\ m.id # "approve" =>
                m.from # {} /\ m.from \subseteq BeyondApproval[s]
<1>0. s \in {"change", "emergency_change", "service_request", "knowledge"}
  BY DEF BeyondApproval
<1>1. CASE s = "change"
  <2>1. Schemes[s] = Change /\ s \in DOMAIN Schemes
    BY <1>1 DEF Schemes
  <2>2. BeyondApproval[s] = {"approved", "implementing", "done", "rolled_back"}
    BY <1>1 DEF BeyondApproval
  <2> QED
    BY <2>1, <2>2 DEF Change, Step, Finish, BoardApprove, Move
<1>2. CASE s = "emergency_change"
  <2>1. Schemes[s] = EmergencyChange /\ s \in DOMAIN Schemes
    BY <1>2 DEF Schemes
  <2>2. BeyondApproval[s] = {"approved", "implementing", "implemented", "rolled_back"}
    BY <1>2 DEF BeyondApproval
  <2> QED
    BY <2>1, <2>2
       DEF EmergencyChange, Step, Finish, Manage, BoardApprove, Move
<1>3. CASE s = "service_request"
  <2>1. Schemes[s] = ServiceRequest /\ s \in DOMAIN Schemes
    BY <1>3 DEF Schemes
  <2>2. BeyondApproval[s] = {"fulfilment", "delivered"}
    BY <1>3 DEF BeyondApproval
  <2> QED
    BY <2>1, <2>2 DEF ServiceRequest, Step, Finish, Manage, Move
<1>4. CASE s = "knowledge"
  <2>1. Schemes[s] = Knowledge /\ s \in DOMAIN Schemes
    BY <1>4 DEF Schemes
  <2>2. BeyondApproval[s] = {"approved", "published", "archived"}
    BY <1>4 DEF BeyondApproval
  <2> QED
    BY <2>1, <2>2 DEF Knowledge, Step, Finish, Manage, TakeUp, Move
<1> QED
  BY <1>0, <1>1, <1>2, <1>3, <1>4

\* An incident is resolved with a resolution and a stamp, and closed from there.
LEMMA IncidentEnds ==
  ASSUME NEW m \in Incident.moves, NEW status, AppliesFrom(m, status)
  PROVE  /\ m.to \in {"resolved", "closed"} =>
              "resolution_set" \in m.conditions \/ status \in {"resolved", "closed"}
         /\ m.to \in Incident.done =>
              "stamp_resolved_at" \in m.effects \/ status \in Incident.done
BY DEF Incident, AppliesFrom, Step, TakeUp, Finish, Resolve, Cancel, Move, StampResolved,
       AssignToActor

\* Who holds the permission to approve is an approver.
LEMMA PermissionIsFromRole ==
  ASSUME NEW p \in Persons, "approve" \in Permissions(p)
  PROVE  IsApprover(p)
<1>1. CASE p \in Admins
  BY <1>1 DEF IsApprover
<1>2. CASE p \notin Admins
  <2>1. "approve" \in PermissionsFor(RolesOf[p])
    BY <1>2 DEF Permissions
  <2>2. \/ "admin" \in UNION {Roles[r].permissions : r \in RolesOf[p]}
        \/ "approve" \in UNION {Roles[r].permissions : r \in RolesOf[p]}
    BY <2>1 DEF PermissionsFor
  <2> QED
    BY <2>2 DEF IsApprover
<1> QED
  BY <1>1, <1>2

-----------------------------------------------------------------------------
(* Rows.                                                                   *)

\* A row that differs from NoRequest, and the shape of an entry.
LEMMA RowShape ==
  /\ NoRequest \notin Rows
  /\ \A row \in Rows : row.history \in Seq(Entries) /\ row.scheme \in DOMAIN Schemes
BY InitialIsStatus, SchemesAssumption DEF Rows, NoRequest

\* An entry that goes on where the history stopped leaves the status explained.
LEMMA EntryExplains ==
  ASSUME NEW row \in Rows, NEW new \in Rows, NEW e \in Entries,
         Explained(row), new.scheme = row.scheme,
         new.history = Append(row.history, e),
         e.from = row.status, e.to = new.status,
         \/ e.kind = "assigned" /\ e.to = e.from
         \/ \E m \in SchemeOf(row).moves :
              m.id = e.kind /\ m.to = e.to /\ AppliesFrom(m, e.from)
  PROVE  Explained(new) /\ new.history[1] = row.history[1]
<1> DEFINE h == row.history
           g == new.history
           n == Len(h)
<1>1. h \in Seq(Entries) /\ n \in Nat /\ n > 0
  BY RowShape DEF Explained
<1>2. /\ g \in Seq(Entries) /\ Len(g) = n + 1 /\ g[n + 1] = e
      /\ \A i \in 1..n : g[i] = h[i]
  BY <1>1
<1>3. SchemeOf(new) = SchemeOf(row)
  BY DEF SchemeOf
<1>4. g[1] = h[1]
  BY <1>1, <1>2
<1>5. ASSUME NEW i \in 2..(n + 1)
      PROVE  /\ g[i].from = g[i - 1].to
             /\ \/ g[i].kind = "assigned" /\ g[i].to = g[i].from
                \/ \E m \in SchemeOf(row).moves :
                     m.id = g[i].kind /\ m.to = g[i].to /\ AppliesFrom(m, g[i].from)
  <2>1. CASE i = n + 1
    <3>1. g[i] = e /\ g[i - 1] = h[n]
      BY <2>1, <1>1, <1>2
    <3>2. h[n].to = row.status
      BY DEF Explained
    <3> QED
      BY <3>1, <3>2
  <2>2. CASE i # n + 1
    <3>1. i \in 2..n /\ i - 1 \in 1..n /\ i \in 1..n
      BY <2>2, <1>1
    <3>2. g[i] = h[i] /\ g[i - 1] = h[i - 1]
      BY <3>1, <1>2
    <3> QED
      BY <3>1, <3>2 DEF Explained
  <2> QED
    BY <2>1, <2>2
<1>6. h[1].kind = "created" /\ h[1].to = SchemeOf(row).initial
  BY DEF Explained
<1>7. \A i \in 2..Len(g) :
        /\ g[i].from = g[i - 1].to
        /\ \/ g[i].kind = "assigned" /\ g[i].to = g[i].from
           \/ \E m \in SchemeOf(new).moves :
                m.id = g[i].kind /\ m.to = g[i].to /\ AppliesFrom(m, g[i].from)
  BY <1>2, <1>3, <1>5
<1>8. Len(g) > 0 /\ g[Len(g)].to = new.status
  BY <1>1, <1>2
<1>9. g[1].kind = "created" /\ g[1].to = SchemeOf(new).initial
  BY <1>3, <1>4, <1>6
<1> HIDE DEF g
<1> QED
  BY <1>4, <1>7, <1>8, <1>9 DEF Explained, g

\* So does one that leaves what is beyond approval approved.
LEMMA EntryKeepsApproval ==
  ASSUME NEW row \in Rows, NEW new \in Rows, NEW e \in Entries,
         row.scheme \in DOMAIN BeyondApproval, ApprovedByApprover(row),
         new.scheme = row.scheme, new.history = Append(row.history, e),
         e.from = row.status, e.to = new.status,
         e.to \in BeyondApproval[row.scheme] /\ e.from \notin BeyondApproval[row.scheme] =>
           e.kind = "approve" /\ IsApprover(e.by)
  PROVE  ApprovedByApprover(new)
<1> DEFINE h == row.history
           g == new.history
           n == Len(h)
           Beyond == BeyondApproval[row.scheme]
<1>1. h \in Seq(Entries) /\ n \in Nat
  BY RowShape
<1>2. /\ g \in Seq(Entries) /\ Len(g) = n + 1 /\ g[n + 1] = e
      /\ \A i \in 1..n : g[i] = h[i]
  BY <1>1
<1>3. new.status \in Beyond => \E i \in 1..(n + 1) : g[i].kind = "approve"
  <2>1. CASE row.status \in Beyond
    <3>1. PICK i \in 1..n : h[i].kind = "approve"
      BY <2>1 DEF ApprovedByApprover
    <3>2. i \in 1..(n + 1) /\ g[i] = h[i]
      BY <1>1, <1>2
    <3> QED
      BY <3>1, <3>2
  <2>2. CASE row.status \notin Beyond
    <3>1. new.status \in Beyond => e.kind = "approve"
      BY <2>2
    <3>2. n + 1 \in 1..(n + 1)
      BY <1>1
    <3> QED
      BY <3>1, <3>2, <1>2
  <2> QED
    BY <2>1, <2>2
<1>4. ASSUME NEW i \in 1..(n + 1), g[i].to \in Beyond, g[i].from \notin Beyond
      PROVE  g[i].kind = "approve" /\ IsApprover(g[i].by)
  <2>1. CASE i = n + 1
    BY <2>1, <1>2, <1>4
  <2>2. CASE i # n + 1
    <3>1. i \in 1..n /\ g[i] = h[i]
      BY <2>2, <1>1, <1>2
    <3> QED
      BY <3>1, <1>4 DEF ApprovedByApprover
  <2> QED
    BY <2>1, <2>2
<1> QED
  BY <1>2, <1>3, <1>4 DEF ApprovedByApprover

LEMMA RecordTyped ==
  ASSUME NEW row \in Rows, NEW kind, NEW p, NEW from,
         [kind |-> kind, by |-> p, from |-> from, to |-> row.status] \in Entries
  PROVE  Record(row, kind, p, from) \in Rows
<1>1. Append(row.history, [kind |-> kind, by |-> p, from |-> from, to |-> row.status])
        \in Seq(Entries)
  BY RowShape
<1> QED
  BY <1>1 DEF Record, Rows

LEMMA NewRowSound ==
  ASSUME NEW p \in Persons, NEW s \in SchemeKeys
  PROVE  Sound(NewRow(p, s))
<1> DEFINE base == [NoRequest EXCEPT !.scheme = s, !.status = Schemes[s].initial]
           row == NewRow(p, s)
           e == [kind |-> "created", by |-> p, from |-> Nobody, to |-> Schemes[s].initial]
<1>1. s \in DOMAIN Schemes /\ Schemes[s].initial \in StatusIds
  BY InitialIsStatus, SchemesAssumption DEF StatusIds
<1>2. e \in Entries
  BY <1>1 DEF Entries
<1>3. base \in Rows /\ base.history = <<>> /\ base.status = Schemes[s].initial
  <2>1. /\ DOMAIN base = {"scheme", "status", "assignee", "resolution", "resolved", "history"}
        /\ base.scheme = s /\ base.status = Schemes[s].initial /\ base.assignee = Nobody
        /\ base.resolution = FALSE /\ base.resolved = FALSE /\ base.history = <<>>
    BY DEF NoRequest
  <2>2. base = [x \in DOMAIN base |-> base[x]]
    OBVIOUS
  <2>3. <<>> \in Seq(Entries)
    OBVIOUS
  <2> HIDE DEF base
  <2> QED
    BY <1>1, <2>1, <2>2, <2>3 DEF Rows
<1>4. row = Record(base, "created", p, Nobody)
  BY DEF NewRow
<1>5. row \in Rows
  <2> HIDE DEF base, row
  <2> QED
    BY <1>2, <1>3, <1>4, RecordTyped
<1>6. /\ row.scheme = s /\ row.status = Schemes[s].initial
      /\ row.resolution = FALSE /\ row.resolved = FALSE
      /\ row.history = Append(<<>>, e)
  BY DEF NewRow, Record, NoRequest
<1>7. Len(row.history) = 1 /\ row.history[1] = e
  BY <1>2, <1>6
<1>8. Explained(row)
  BY <1>6, <1>7 DEF Explained, SchemeOf
<1>9. s \in DOMAIN BeyondApproval => ApprovedByApprover(row)
  BY <1>6, <1>7, OnlyApprovalLeadsBeyond DEF ApprovedByApprover
<1>10. s = "incident" => AccountedFor(row)
  BY <1>6 DEF AccountedFor, Schemes, Incident
<1> QED
  BY <1>5, <1>6, <1>8, <1>9, <1>10 DEF Sound

LEMMA AssignedSound ==
  ASSUME NEW p \in Persons, NEW who \in Persons, NEW row, Sound(row)
  PROVE  LET new == Record([row EXCEPT !.assignee = who], "assigned", p, row.status)
         IN  Sound(new) /\ new.history[1] = row.history[1]
<1> DEFINE e == [kind |-> "assigned", by |-> p, from |-> row.status, to |-> row.status]
           new == Record([row EXCEPT !.assignee = who], "assigned", p, row.status)
<1>1. row \in Rows /\ row.history \in Seq(Entries)
  BY RowShape DEF Sound
<1>2. /\ new.scheme = row.scheme /\ new.status = row.status
      /\ new.resolution = row.resolution /\ new.resolved = row.resolved
      /\ new.history = Append(row.history, e)
  BY <1>1 DEF Record, Rows
<1>3. e \in Entries
  BY <1>1 DEF Entries, Rows
<1>4. new \in Rows
  <2>1. [row EXCEPT !.assignee = who] \in Rows
    BY <1>1 DEF Rows
  <2>2. [row EXCEPT !.assignee = who].status = row.status
    BY <1>1 DEF Rows
  <2> QED
    BY <2>1, <2>2, <1>3, RecordTyped
<1>5. Explained(new) /\ new.history[1] = row.history[1]
  <2>1. Explained(row)
    BY DEF Sound
  <2> HIDE DEF new
  <2> QED
    BY <1>1, <1>2, <1>3, <1>4, <2>1, EntryExplains
<1>6. row.scheme \in DOMAIN BeyondApproval => ApprovedByApprover(new)
  <2>1. SUFFICES ASSUME row.scheme \in DOMAIN BeyondApproval PROVE ApprovedByApprover(new)
    OBVIOUS
  <2>2. ApprovedByApprover(row)
    BY <2>1 DEF Sound
  <2> HIDE DEF new
  <2> QED
    BY <1>1, <1>2, <1>3, <1>4, <2>1, <2>2, EntryKeepsApproval
<1>7. row.scheme = "incident" => AccountedFor(new)
  BY <1>2 DEF Sound, AccountedFor
<1> QED
  BY <1>2, <1>4, <1>5, <1>6, <1>7 DEF Sound

LEMMA MovedSound ==
  ASSUME NEW p \in Persons, NEW row, Sound(row), NEW move,
         NEW approved \in BOOLEAN, NEW resolution \in BOOLEAN, NEW role,
         MayAsk(p, move, approved),
         MayApply(SchemeOf(row), move, row.status,
                  [role |-> role, approved |-> approved,
                   resolution |-> row.resolution \/ resolution,
                   assigned |-> row.assignee # Nobody])
  PROVE  /\ Sound(Moved(row, move, p, resolution))
         /\ Moved(row, move, p, resolution).history[1] = row.history[1]
<1> DEFINE e == [kind |-> move.id, by |-> p, from |-> row.status, to |-> move.to]
           new == Moved(row, move, p, resolution)
<1>1. /\ row \in Rows /\ row.history \in Seq(Entries)
      /\ row.scheme \in SchemeKeys /\ row.scheme \in DOMAIN Schemes
  BY RowShape DEF Sound, Rows
<1>2. /\ move \in SchemeOf(row).moves /\ AppliesFrom(move, row.status)
      /\ move.to \in Statuses(SchemeOf(row))
      /\ "resolution_set" \in move.conditions => row.resolution \/ resolution
  BY DEF MayApply, ConditionMet
<1>3. /\ new.scheme = row.scheme /\ new.status = move.to
      /\ new.resolution = (row.resolution \/ resolution)
      /\ new.resolved = (row.resolved \/ "stamp_resolved_at" \in move.effects)
      /\ new.history = Append(row.history, e)
  BY <1>1 DEF Moved, Record, Rows
<1>4. move.to \in StatusIds /\ move.id \in MoveIds
  BY <1>1, <1>2 DEF StatusIds, MoveIds, SchemeOf
<1>5. e \in Entries
  BY <1>1, <1>4 DEF Entries, Rows
<1>6. new \in Rows
  <2> DEFINE base == [row EXCEPT !.status = move.to,
                        !.resolution = @ \/ resolution,
                        !.assignee = IF "assign_to_actor" \in move.effects THEN p ELSE @,
                        !.resolved = @ \/ "stamp_resolved_at" \in move.effects]
  <2>1. base \in Rows /\ base.status = move.to
    BY <1>1, <1>4 DEF Rows
  <2>2. new = Record(base, move.id, p, row.status)
    BY DEF Moved
  <2> HIDE DEF base
  <2> QED
    BY <2>1, <2>2, <1>5, RecordTyped
<1>7. Explained(new) /\ new.history[1] = row.history[1]
  <2>1. Explained(row)
    BY DEF Sound
  <2> HIDE DEF new
  <2> QED
    BY <1>1, <1>2, <1>3, <1>5, <1>6, <2>1, EntryExplains
<1>8. row.scheme \in DOMAIN BeyondApproval => ApprovedByApprover(new)
  <2>1. SUFFICES ASSUME row.scheme \in DOMAIN BeyondApproval PROVE ApprovedByApprover(new)
    OBVIOUS
  <2>2. ApprovedByApprover(row)
    BY <2>1 DEF Sound
  <2>3. ASSUME move.to \in BeyondApproval[row.scheme],
               row.status \notin BeyondApproval[row.scheme]
        PROVE  move.id = "approve" /\ IsApprover(p)
    <3>1. move.id = "approve"
      BY <1>2, <2>1, <2>3, OnlyApprovalLeadsBeyond DEF AppliesFrom, SchemeOf
    <3>2. "approve" \in Permissions(p)
      BY <3>1 DEF MayAsk
    <3> QED
      BY <3>1, <3>2, PermissionIsFromRole
  <2> HIDE DEF new
  <2> QED
    BY <1>1, <1>3, <1>5, <1>6, <2>1, <2>2, <2>3, EntryKeepsApproval
<1>9. row.scheme = "incident" => AccountedFor(new)
  <2>1. SUFFICES ASSUME row.scheme = "incident" PROVE AccountedFor(new)
    OBVIOUS
  <2>2. move \in Incident.moves
    BY <1>2, <2>1 DEF SchemeOf, Schemes
  <2>3. AccountedFor(row)
    BY <2>1 DEF Sound
  <2> HIDE DEF new
  <2> QED
    BY <1>2, <1>3, <2>2, <2>3, IncidentEnds DEF AccountedFor
<1> QED
  BY <1>3, <1>6, <1>7, <1>8, <1>9 DEF Sound

-----------------------------------------------------------------------------
(* The invariant. A step changes one thread's copy, or one row.            *)

LEMMA DeskInvInit == DeskInit => DeskInv
<1> SUFFICES ASSUME DeskInit PROVE DeskInv
  OBVIOUS
<1>1. seq = 0 /\ made = 0 /\ made \in 0..MaxCalls
  BY BoundAssumption DEF DeskInit
<1>2. KeysAgree
  BY DEF DeskInit, KeysAgree
<1> QED
  BY <1>1, <1>2 DEF DeskInit, DeskInv

\* A call that begins: its copy is sound and agrees with its key.
LEMMA CallPreserves ==
  ASSUME DeskInv, NEW t \in Threads, NEW key, NEW row, Call(t),
         UNCHANGED requests,
         calls' = [calls EXCEPT ![t] = [key |-> key, row |-> row]],
         Sound(row), seq' \in Nat, seq' <= made', seq <= seq',
         key \in 1..seq',
         \/ key = seq + 1
         \/ key \in Keys /\ requests[key] # NoRequest /\ row.history[1] = requests[key].history[1]
  PROVE  DeskInv'
<1>1. made' \in 0..MaxCalls /\ made' = made + 1
  BY BoundAssumption DEF Call, DeskInv
<1>2. key \in Keys /\ row \in Rows
  BY <1>1, BoundAssumption DEF Keys, Sound
<1>3. [key |-> key, row |-> row] # Idle
  BY <1>2, RowShape DEF Idle
<1>4. /\ calls'[t] = [key |-> key, row |-> row]
      /\ \A u \in Threads \ {t} : calls'[u] = calls[u]
      /\ calls' \in [Threads -> {Idle} \cup [key : Keys, row : Rows]]
  BY <1>2 DEF DeskInv
<1>5. \A u \in Threads : calls[u] # Idle => calls[u].key \in Keys /\ calls[u].key <= seq
  BY DEF DeskInv, KeysAgree
<1>6. \A u \in Threads \ {t} : calls[u] # Idle /\ calls[u].key = key =>
        calls[u].row.history[1] = row.history[1]
  <2>1. CASE key = seq + 1
    BY <2>1, <1>5 DEF DeskInv, Keys
  <2>2. CASE key \in Keys /\ requests[key] # NoRequest
               /\ row.history[1] = requests[key].history[1]
    BY <2>2 DEF DeskInv, KeysAgree
  <2> QED
    BY <2>1, <2>2
<1>7. requests[key] # NoRequest => requests[key].history[1] = row.history[1]
  <2>1. CASE key = seq + 1
    BY <2>1, <1>2 DEF DeskInv, KeysAgree, Keys
  <2> QED
    BY <2>1
<1>8. KeysAgree'
  <2>1. \A k \in Keys : requests'[k] # NoRequest => k <= seq'
    BY BoundAssumption DEF DeskInv, KeysAgree, Keys
  <2>2. ASSUME NEW u \in Threads, calls'[u] # Idle
        PROVE  /\ calls'[u].key <= seq'
               /\ requests'[calls'[u].key] # NoRequest =>
                    requests'[calls'[u].key].history[1] = calls'[u].row.history[1]
    <3>1. CASE u = t
      BY <3>1, <1>4, <1>7
    <3>2. CASE u # t
      <4>1. calls'[u] = calls[u] /\ calls[u].key \in Nat
        BY <3>2, <2>2, <1>4, <1>5 DEF Keys
      <4> QED
        BY <4>1, <2>2 DEF DeskInv, KeysAgree
    <3> QED
      BY <3>1, <3>2
  <2>3. ASSUME NEW u \in Threads, NEW v \in Threads, calls'[u] # Idle, calls'[v] # Idle,
               calls'[u].key = calls'[v].key
        PROVE  calls'[u].row.history[1] = calls'[v].row.history[1]
    <3>1. CASE u = t \/ v = t
      BY <3>1, <2>3, <1>4, <1>6
    <3>2. CASE u # t /\ v # t
      BY <3>2, <2>3, <1>4 DEF DeskInv, KeysAgree
    <3> QED
      BY <3>1, <3>2
  <2> QED
    BY <2>1, <2>2, <2>3 DEF KeysAgree, Keys
<1>9. \A u \in Threads : calls'[u] # Idle => Sound(calls'[u].row)
  BY <1>4 DEF DeskInv
<1> QED
  BY <1>1, <1>4, <1>8, <1>9 DEF DeskInv, Keys

LEMMA CreatePreserves ==
  ASSUME DeskInv, NEW t \in Threads, NEW p \in Persons, NEW s \in SchemeKeys, Create(t, p, s)
  PROVE  DeskInv'
<1>1. Call(t) /\ made' = made + 1 /\ seq' = seq + 1 /\ seq \in Nat /\ made \in Nat /\ seq <= made
  BY BoundAssumption DEF Create, Call, DeskInv
<1>2. Sound(NewRow(p, s))
  BY NewRowSound
<1>3. UNCHANGED requests /\ calls' = [calls EXCEPT ![t] = [key |-> seq + 1, row |-> NewRow(p, s)]]
  BY DEF Create
<1>4. seq' \in Nat /\ seq' <= made' /\ seq <= seq' /\ seq + 1 \in 1..seq'
  BY <1>1
<1> QED
  BY <1>1, <1>2, <1>3, <1>4, CallPreserves

\* A call on a request there is.
LEMMA ChangePreserves ==
  ASSUME DeskInv, NEW t \in Threads, NEW k \in Keys, NEW row, Call(t),
         requests[k] # NoRequest, UNCHANGED <<requests, seq>>,
         calls' = [calls EXCEPT ![t] = [key |-> k, row |-> row]],
         Sound(row), row.history[1] = requests[k].history[1]
  PROVE  DeskInv'
<1>1. made' = made + 1 /\ seq' = seq /\ seq \in Nat /\ made \in Nat /\ seq <= made
  BY BoundAssumption DEF Call, DeskInv
<1>2. k \in 1..seq
  BY <1>1, BoundAssumption DEF DeskInv, KeysAgree, Keys
<1>3. seq' \in Nat /\ seq' <= made' /\ seq <= seq' /\ k \in 1..seq' /\ UNCHANGED requests
  BY <1>1, <1>2
<1> QED
  BY <1>3, CallPreserves

LEMMA AssignPreserves ==
  ASSUME DeskInv, NEW t \in Threads, NEW p \in Persons, NEW k \in Keys, NEW who \in Persons,
         Assign(t, p, k, who)
  PROVE  DeskInv'
<1> DEFINE row == Record([requests[k] EXCEPT !.assignee = who],
                         "assigned", p, requests[k].status)
<1>1. /\ Call(t) /\ requests[k] # NoRequest /\ UNCHANGED <<requests, seq>>
      /\ calls' = [calls EXCEPT ![t] = [key |-> k, row |-> row]]
  BY DEF Assign
<1>2. Sound(requests[k])
  BY <1>1 DEF DeskInv
<1>3. Sound(row) /\ row.history[1] = requests[k].history[1]
  BY <1>2, AssignedSound
<1> HIDE DEF row
<1> QED
  BY <1>1, <1>3, ChangePreserves

LEMMA TransitionPreserves ==
  ASSUME DeskInv, NEW t \in Threads, NEW p \in Persons, NEW k \in Keys, NEW move,
         NEW approved \in BOOLEAN, NEW resolution \in BOOLEAN,
         Transition(t, p, k, move, approved, resolution)
  PROVE  DeskInv'
<1> DEFINE row == Moved(requests[k], move, p, resolution)
<1>1. /\ Call(t) /\ requests[k] # NoRequest /\ UNCHANGED <<requests, seq>>
      /\ MayAsk(p, move, approved)
      /\ calls' = [calls EXCEPT ![t] = [key |-> k, row |-> row]]
  BY DEF Transition
<1>2. PICK role \in ActorRoles(p) :
        MayApply(SchemeOf(requests[k]), move, requests[k].status,
                 [role |-> role, approved |-> approved,
                  resolution |-> requests[k].resolution \/ resolution,
                  assigned |-> requests[k].assignee # Nobody])
  BY DEF Transition
<1>3. Sound(requests[k])
  BY <1>1 DEF DeskInv
<1>4. Sound(row) /\ row.history[1] = requests[k].history[1]
  BY <1>1, <1>2, <1>3, MovedSound
<1> HIDE DEF row
<1> QED
  BY <1>1, <1>4, ChangePreserves

LEMMA SavePreserves ==
  ASSUME DeskInv, NEW t \in Threads, Save(t)
  PROVE  DeskInv'
<1> DEFINE key == calls[t].key
           row == calls[t].row
<1>1. calls[t] # Idle /\ key \in Keys /\ row \in Rows /\ Sound(row) /\ row # NoRequest
  BY RowShape DEF Save, DeskInv
<1>2. /\ requests' = [requests EXCEPT ![key] = row]
      /\ calls' = [calls EXCEPT ![t] = Idle]
      /\ UNCHANGED <<seq, made>>
  BY DEF Save
<1>3. /\ requests'[key] = row
      /\ \A k \in Keys \ {key} : requests'[k] = requests[k]
      /\ requests' \in [Keys -> Rows \cup {NoRequest}]
  BY <1>1, <1>2 DEF DeskInv
<1>4. /\ calls'[t] = Idle
      /\ \A u \in Threads \ {t} : calls'[u] = calls[u]
      /\ calls' \in [Threads -> {Idle} \cup [key : Keys, row : Rows]]
  BY <1>2 DEF DeskInv
<1>5. KeysAgree'
  <2>1. \A k \in Keys : requests'[k] # NoRequest => k <= seq'
    BY <1>1, <1>2, <1>3 DEF DeskInv, KeysAgree
  <2>2. ASSUME NEW u \in Threads, calls'[u] # Idle
        PROVE  /\ calls'[u].key <= seq'
               /\ requests'[calls'[u].key] # NoRequest =>
                    requests'[calls'[u].key].history[1] = calls'[u].row.history[1]
    <3>1. u # t /\ calls'[u] = calls[u] /\ calls[u] # Idle /\ calls[u].key \in Keys
      BY <2>2, <1>4 DEF DeskInv
    <3>2. CASE calls[u].key = key
      BY <3>1, <3>2, <1>1, <1>2, <1>3 DEF DeskInv, KeysAgree
    <3>3. CASE calls[u].key # key
      BY <3>1, <3>3, <1>2, <1>3 DEF DeskInv, KeysAgree
    <3> QED
      BY <3>2, <3>3
  <2>3. \A u, v \in Threads :
          calls'[u] # Idle /\ calls'[v] # Idle /\ calls'[u].key = calls'[v].key =>
            calls'[u].row.history[1] = calls'[v].row.history[1]
    BY <1>4 DEF DeskInv, KeysAgree
  <2> QED
    BY <2>1, <2>2, <2>3 DEF KeysAgree, Keys
<1>6. \A k \in Keys : requests'[k] # NoRequest => Sound(requests'[k])
  BY <1>1, <1>3 DEF DeskInv
<1>7. \A u \in Threads : calls'[u] # Idle => Sound(calls'[u].row)
  BY <1>4 DEF DeskInv
<1> QED
  BY <1>2, <1>3, <1>4, <1>5, <1>6, <1>7 DEF DeskInv, Keys

LEMMA FailPreserves ==
  ASSUME DeskInv, NEW t \in Threads, Fail(t)
  PROVE  DeskInv'
<1>1. /\ calls'[t] = Idle
      /\ \A u \in Threads \ {t} : calls'[u] = calls[u]
      /\ calls' \in [Threads -> {Idle} \cup [key : Keys, row : Rows]]
      /\ UNCHANGED <<requests, seq, made>>
  BY DEF Fail, DeskInv
<1>2. KeysAgree'
  BY <1>1 DEF DeskInv, KeysAgree, Keys
<1> QED
  BY <1>1, <1>2 DEF DeskInv, Keys

LEMMA DeskInvStep == DeskInv /\ [DeskNext]_deskVars => DeskInv'
<1> SUFFICES ASSUME DeskInv, [DeskNext]_deskVars PROVE DeskInv'
  OBVIOUS
<1>1. CASE UNCHANGED deskVars
  BY <1>1 DEF deskVars, DeskInv, KeysAgree, Keys
<1>2. CASE DeskNext
  <2>1. PICK t \in Threads : StartCall(t) \/ Save(t) \/ Fail(t)
    BY <1>2 DEF DeskNext
  <2>2. CASE StartCall(t)
    BY <2>2, CreatePreserves, AssignPreserves, TransitionPreserves DEF StartCall
  <2>3. CASE Save(t)
    BY <2>3, SavePreserves
  <2>4. CASE Fail(t)
    BY <2>4, FailPreserves
  <2> QED
    BY <2>1, <2>2, <2>3, <2>4
<1> QED
  BY <1>1, <1>2

LEMMA DeskInvAlways == DeskSpec => []DeskInv
BY DeskInvInit, DeskInvStep, PTL DEF DeskSpec

-----------------------------------------------------------------------------
(* The results.                                                            *)

\* Every row and every copy has the shape the code gives it, and the keys drawn
\* are never more than the calls made.
THEOREM DeskTypesHold == DeskSpec => []DeskTypeOK
<1>1. DeskInv => DeskTypeOK
  BY DEF DeskInv, DeskTypeOK
<1> QED
  BY <1>1, DeskInvAlways, PTL

\* However calls overlap and fail, the history of a request explains its status.
THEOREM HistoryAlwaysExplains == DeskSpec => []HistoryExplainsStatus
<1>1. DeskInv => HistoryExplainsStatus
  BY DEF DeskInv, HistoryExplainsStatus, Sound
<1> QED
  BY <1>1, DeskInvAlways, PTL

\* No request passes a point of approval but by someone who may approve.
THEOREM ApprovalIsNeverBypassed == DeskSpec => []NothingPassesWithoutApproval
<1>1. DeskInv => NothingPassesWithoutApproval
  <2>1. Nobody \notin DOMAIN BeyondApproval
    BY DEF BeyondApproval, Nobody
  <2> QED
    BY <2>1 DEF DeskInv, NothingPassesWithoutApproval, Sound, NoRequest
<1> QED
  BY <1>1, DeskInvAlways, PTL

\* Resolved incidents have a resolution and a stopped clock.
THEOREM ResolutionIsKept == DeskSpec => []ResolvedIsAccountedFor
<1>1. DeskInv => ResolvedIsAccountedFor
  BY DEF DeskInv, ResolvedIsAccountedFor, Sound, NoRequest, Nobody
<1> QED
  BY <1>1, DeskInvAlways, PTL

\* No request is ever replaced by another under its key.
THEOREM KeysAreNotReused == DeskSpec => KeysNotReused
<1> DEFINE Kept == \A k \in Keys : requests[k] # NoRequest =>
             requests'[k] # NoRequest /\ requests'[k].history[1] = requests[k].history[1]
<1>1. DeskInv /\ [DeskNext]_deskVars => [Kept]_deskVars
  <2> SUFFICES ASSUME DeskInv, DeskNext PROVE Kept
    BY DEF deskVars
  <2>1. PICK t \in Threads : StartCall(t) \/ Save(t) \/ Fail(t)
    BY DEF DeskNext
  <2>2. CASE StartCall(t) \/ Fail(t)
    <3>1. UNCHANGED requests
      BY <2>2 DEF StartCall, Fail, Create, Assign, Transition
    <3> QED
      BY <3>1
  <2>3. CASE Save(t)
    <3>1. /\ calls[t] # Idle /\ calls[t].key \in Keys /\ calls[t].row \in Rows
          /\ requests' = [requests EXCEPT ![calls[t].key] = calls[t].row]
      BY <2>3 DEF Save, DeskInv
    <3>2. ASSUME NEW k \in Keys, requests[k] # NoRequest
          PROVE  /\ requests'[k] # NoRequest
                 /\ requests'[k].history[1] = requests[k].history[1]
      <4>1. CASE k = calls[t].key
        BY <4>1, <3>1, <3>2, RowShape DEF DeskInv, KeysAgree
      <4>2. CASE k # calls[t].key
        BY <4>2, <3>1, <3>2 DEF DeskInv
      <4> QED
        BY <4>1, <4>2
    <3> QED
      BY <3>2
  <2> QED
    BY <2>1, <2>2, <2>3
<1> QED
  BY <1>1, DeskInvAlways, PTL DEF DeskSpec, KeysNotReused
=============================================================================
