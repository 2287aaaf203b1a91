-------------------------------- MODULE Outbox --------------------------------
(***************************************************************************)
(* The transactional outbox (kernel/outbox.py) as units of work            *)
(* (kernel/unit_of_work.py) write to it, and senders that read it.         *)
(*                                                                         *)
(* A unit of work writes its rows and appends its entry over its own       *)
(* connection; append commits that connection. Senders are not in the      *)
(* repository: they do what tests/test_kernel_expansion.py does, read what *)
(* is pending, hand it over, mark it dispatched. Any of them may stop at   *)
(* any point; a receiver may be away, though not for ever. Entries are     *)
(* read in the order of the wall clock, which may be set back: here in any *)
(* order. Every unit has an object, and at most one entry, of its own.     *)
(***************************************************************************)
EXTENDS Naturals, FiniteSets

CONSTANTS
  Units,       (* units of work                                            *)
  Senders,     (* processes that empty the outbox                          *)
  PendingLimit,(* entries pending() returns at most                        *)
  MaxStops     (* bound: senders stopped half way                          *)

ASSUME OutboxAssumption == PendingLimit \in Nat \ {0} /\ MaxStops \in Nat

VARIABLES
  unit,      (* where each unit of work is                                 *)
  entries,   (* dispatched, of the entry of each unit; none without one    *)
  batch,     (* what each sender read, and what it has handed over         *)
  received,  (* entries a receiver has taken                               *)
  stops      (* senders stopped so far: a history variable, as is received *)

outboxVars == <<unit, entries, batch, received, stops>>

NoBatch == [todo |-> {}, sent |-> {}]

Enter(u) ==
  /\ unit[u] = "new"
  /\ unit' = [unit EXCEPT ![u] = "open"]
  /\ UNCHANGED <<entries, batch, received, stops>>

AppendEntry(u) ==
  /\ unit[u] = "open"
  /\ unit' = [unit EXCEPT ![u] = "noted"]
  /\ entries' = [entries EXCEPT ![u] = "pending"]
  /\ UNCHANGED <<batch, received, stops>>

\* __exit__ without and with an exception, or after a commit that failed.
CommitUnit(u) ==
  /\ unit[u] \in {"open", "noted"}
  /\ unit' = [unit EXCEPT ![u] = "committed"]
  /\ UNCHANGED <<entries, batch, received, stops>>
RollBack(u) ==
  /\ unit[u] \in {"open", "noted"}
  /\ unit' = [unit EXCEPT ![u] = "undone"]
  /\ UNCHANGED <<entries, batch, received, stops>>

Pending == {u \in Units : entries[u] = "pending"}

ReadPending(s) ==
  /\ batch[s] = NoBatch
  /\ \E B \in SUBSET Pending :
       /\ B # {} /\ Cardinality(B) <= PendingLimit
       /\ B # Pending => Cardinality(B) = PendingLimit
       /\ batch' = [batch EXCEPT ![s].todo = B]
  /\ UNCHANGED <<unit, entries, received, stops>>

HandOver(s, u) ==
  /\ u \in batch[s].todo
  /\ received' = received \cup {u}
  /\ batch' = [batch EXCEPT ![s] = [todo |-> @.todo \ {u}, sent |-> @.sent \cup {u}]]
  /\ UNCHANGED <<unit, entries, stops>>

\* The receiver is away: the rest of the batch is left for later.
Refuse(s) ==
  /\ batch[s].todo # {}
  /\ batch' = [batch EXCEPT ![s].todo = {}]
  /\ UNCHANGED <<unit, entries, received, stops>>

MarkEarly(s) ==
  /\ batch[s].todo # {} \/ batch[s].sent # {}
  /\ entries' = [u \in Units |-> IF u \in batch[s].todo \cup batch[s].sent
                                 THEN "dispatched" ELSE entries[u]]
  /\ batch' = [batch EXCEPT ![s] = NoBatch]
  /\ UNCHANGED <<unit, received, stops>>
MarkDispatched(s) ==
  /\ batch[s].todo = {} /\ batch[s].sent # {}
  /\ entries' = [u \in Units |-> IF u \in batch[s].sent THEN "dispatched" ELSE entries[u]]
  /\ batch' = [batch EXCEPT ![s] = NoBatch]
  /\ UNCHANGED <<unit, received, stops>>

Stop(s) ==
  /\ batch[s] # NoBatch /\ stops < MaxStops
  /\ stops' = stops + 1
  /\ batch' = [batch EXCEPT ![s] = NoBatch]
  /\ UNCHANGED <<unit, entries, received>>

OutboxInit ==
  /\ unit = [u \in Units |-> "new"]
  /\ entries = [u \in Units |-> "none"]
  /\ batch = [s \in Senders |-> NoBatch]
  /\ received = {}
  /\ stops = 0

UnitStep(u) == Enter(u) \/ AppendEntry(u) \/ CommitUnit(u) \/ RollBack(u)
SenderStep(s) == ReadPending(s) \/ (\E u \in Units : HandOver(s, u)) \/ Refuse(s) \/ MarkDispatched(s)

OutboxNext ==
  \/ \E u \in Units : UnitStep(u)
  \/ \E s \in Senders : SenderStep(s) \/ Stop(s)

OutboxSpec == OutboxInit /\ [][OutboxNext]_outboxVars

-----------------------------------------------------------------------------
OutboxTypeOK ==
  /\ unit \in [Units -> {"new", "open", "noted", "committed", "undone"}]
  /\ entries \in [Units -> {"none", "pending", "dispatched"}]
  /\ batch \in [Senders -> [todo : SUBSET Units, sent : SUBSET Units]]
  /\ received \subseteq Units
  /\ stops \in 0..MaxStops

Log == INSTANCE Announcements WITH
  Messages <- Units,
  heard <- received,
  verdict <- [u \in Units |-> CASE entries[u] = "none" -> "unsent"
                                [] entries[u] = "pending" -> "open"
                                [] entries[u] = "dispatched" -> "delivered"]

\* At-least-once delivery (the first lines of kernel/outbox.py): the outbox is
\* a log as Announcements describes one, so nothing counts as dispatched that
\* no receiver took, whatever stops half way and however senders overlap.
OutboxKeepsPromise == Log!Spec

=============================================================================
