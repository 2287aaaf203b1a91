---------------------------- MODULE Messages_proofs -------------------------
(***************************************************************************)
(* What becomes of messages, for any number of whoever sends and receives. *)
(*                                                                         *)
(* The outbox implements Announcements: for any units of work, senders and *)
(* stops, in any order. The inductive invariant says what a batch knows:   *)
(* what it has still to send was once entered, and what it has sent a      *)
(* receiver has; so marking it is a verdict on what was heard.             *)
(*                                                                         *)
(* No saga gets ahead of its events, for any threads, sagas, steps and     *)
(* nested events. What an instance has earned must be known of the copies  *)
(* that handlers hold as well: a copy taken by an event is one step short  *)
(* of what has been earned by then, and stays so until a new trigger,      *)
(* which marks the saga as crossed if somebody holds a copy.               *)
(*                                                                         *)
(* The delivery log of the webhooks, for any number of hooks, rows, losses *)
(* and attempts. What an answer means holds for any number of dispatchers; *)
(* that the log accounts for every POST, and never goes back on a verdict, *)
(* holds for one, and needs to know how the rows a pass holds relate to    *)
(* the log (PassAgrees).                                                   *)
(*                                                                         *)
(* The breaker, for any threads, threshold and timeout: of its recovery    *)
(* what a step may not do (that the failing calls run out is TLC's).       *)
(***************************************************************************)
EXTENDS Outbox, Sagas, Webhooks, CircuitBreaker, TLAPS, FiniteSetTheorems, SequenceTheorems

\* An entry that is marked was taken by a receiver.
MarkedWasTaken == \A u \in Units : entries[u] = "dispatched" => u \in received

\* The entries of a batch exist, and those it sent were taken.
BatchesAreTrue ==
  \A s \in Senders :
    /\ \A u \in batch[s].todo \cup batch[s].sent : entries[u] # "none"
    /\ batch[s].sent \subseteq received

\* An entry exists only of a unit that has appended it: once.
EntriesHaveUnits == \A u \in Units : unit[u] \in {"new", "open"} => entries[u] = "none"

OutboxInv == OutboxTypeOK /\ MarkedWasTaken /\ BatchesAreTrue /\ EntriesHaveUnits

\* An empty outbox satisfies the invariant (SqliteOutboxStore._ensure_table).
LEMMA OutboxInvInit == OutboxInit => OutboxInv
<1> SUFFICES ASSUME OutboxInit PROVE OutboxInv
  OBVIOUS
<1>1. OutboxTypeOK
  BY OutboxAssumption DEF OutboxInit, OutboxTypeOK, NoBatch
<1>2. MarkedWasTaken /\ BatchesAreTrue /\ EntriesHaveUnits
  BY DEF OutboxInit, MarkedWasTaken, BatchesAreTrue, EntriesHaveUnits, NoBatch
<1> QED BY <1>1, <1>2 DEF OutboxInv

\* What a unit of work does leaves the invariant (kernel/unit_of_work.py).
LEMMA UnitsKeepInv ==
  ASSUME OutboxInv, NEW u \in Units, UnitStep(u) PROVE OutboxInv'
<1> USE DEF OutboxInv, OutboxTypeOK, MarkedWasTaken, BatchesAreTrue, EntriesHaveUnits
<1>1. CASE Enter(u) BY <1>1 DEF Enter
<1>2. CASE AppendEntry(u) BY <1>2 DEF AppendEntry
<1>3. CASE CommitUnit(u) BY <1>3 DEF CommitUnit
<1>4. CASE RollBack(u) BY <1>4 DEF RollBack
<1> QED BY <1>1, <1>2, <1>3, <1>4 DEF UnitStep

\* Nor does a sender break it, wherever it stops (kernel/outbox.py).
LEMMA SendersKeepInv ==
  ASSUME OutboxInv, NEW s \in Senders, SenderStep(s) \/ Stop(s) PROVE OutboxInv'
<1> USE DEF OutboxInv, OutboxTypeOK, MarkedWasTaken, BatchesAreTrue, EntriesHaveUnits
<1>1. CASE ReadPending(s)
  <2>1. PICK B \in SUBSET Pending : batch' = [batch EXCEPT ![s].todo = B]
    BY <1>1 DEF ReadPending
  <2>2. B \subseteq Units /\ \A u \in B : entries[u] # "none"
    BY <2>1 DEF Pending
  <2>3. UNCHANGED <<unit, entries, received, stops>>
    BY <1>1 DEF ReadPending
  <2> QED BY <2>1, <2>2, <2>3
<1>2. ASSUME NEW u \in Units, HandOver(s, u) PROVE OutboxInv'
  BY <1>2 DEF HandOver
<1>3. CASE Refuse(s) BY <1>3 DEF Refuse
<1>4. CASE MarkDispatched(s) BY <1>4 DEF MarkDispatched, NoBatch
<1>5. CASE Stop(s) BY <1>5, OutboxAssumption DEF Stop, NoBatch
<1> QED BY <1>1, <1>2, <1>3, <1>4, <1>5 DEF SenderStep

\* So every step of the outbox keeps it.
LEMMA OutboxInvStep == OutboxInv /\ [OutboxNext]_outboxVars => OutboxInv'
<1> SUFFICES ASSUME OutboxInv, [OutboxNext]_outboxVars PROVE OutboxInv'
  OBVIOUS
<1>1. CASE OutboxNext
  BY <1>1, UnitsKeepInv, SendersKeepInv DEF OutboxNext
<1>2. CASE UNCHANGED outboxVars
  BY <1>2 DEF outboxVars, OutboxInv, OutboxTypeOK, MarkedWasTaken, BatchesAreTrue,
              EntriesHaveUnits
<1> QED BY <1>1, <1>2

-----------------------------------------------------------------------------
OutboxVerdict(e) == CASE e = "none" -> "unsent" [] e = "pending" -> "open"
                  [] e = "dispatched" -> "delivered"

\* Appending is an announcement; the rest of a unit of work is not seen.
LEMMA UnitsStepLog ==
  ASSUME OutboxInv, NEW u \in Units, UnitStep(u)
  PROVE  [Log!Next]_(Log!announcedVars)
<1> USE DEF OutboxInv, OutboxTypeOK
<1>1. CASE AppendEntry(u)
  <2>1. Log!Announce({u})
    BY <1>1 DEF AppendEntry, Log!Announce, EntriesHaveUnits
  <2> QED BY <2>1 DEF Log!Next
<1>2. CASE Enter(u) \/ CommitUnit(u) \/ RollBack(u)
  BY <1>2 DEF Enter, CommitUnit, RollBack, Log!announcedVars
<1> QED BY <1>1, <1>2 DEF UnitStep

\* Handing over is being heard, if it is news; marking is a verdict.
LEMMA SendersStepLog ==
  ASSUME OutboxInv, NEW s \in Senders, SenderStep(s) \/ Stop(s)
  PROVE  [Log!Next]_(Log!announcedVars)
<1> USE DEF OutboxInv, OutboxTypeOK
<1>1. ASSUME NEW u \in Units, HandOver(s, u) PROVE [Log!Next]_(Log!announcedVars)
  <2>1. u \in batch[s].todo /\ received' = received \cup {u} /\ entries' = entries
    BY <1>1 DEF HandOver
  <2>2. CASE entries[u] = "pending"
    <3>1. Log!Hear(u) BY <2>1, <2>2 DEF Log!Hear
    <3> QED BY <3>1 DEF Log!Next
  <2>3. CASE entries[u] # "pending"
    <3>1. u \in received BY <2>1, <2>3 DEF BatchesAreTrue, MarkedWasTaken
    <3> QED BY <2>1, <3>1 DEF Log!announcedVars
  <2> QED BY <2>2, <2>3
<1>2. CASE MarkDispatched(s)
  <2> DEFINE D == {u \in batch[s].sent : entries[u] = "pending"}
  <2>1. entries' = [u \in Units |-> IF u \in batch[s].sent THEN "dispatched" ELSE entries[u]]
    BY <1>2 DEF MarkDispatched
  <2>2. D \in SUBSET Units /\ D \subseteq received /\ received' = received
    BY <1>2 DEF MarkDispatched, BatchesAreTrue
  <2>3. \A u \in Units : OutboxVerdict(entries'[u]) = IF u \in D THEN "delivered"
                                                      ELSE OutboxVerdict(entries[u])
    BY <2>1 DEF OutboxVerdict, BatchesAreTrue
  <2>4. \A u \in D : OutboxVerdict(entries[u]) = "open"
    BY DEF OutboxVerdict
  <2>5. [u \in Units |-> OutboxVerdict(entries'[u])]
          = [u \in Units |-> IF u \in D THEN "delivered" ELSE
                             IF u \in {} THEN "failed" ELSE OutboxVerdict(entries[u])]
    BY <2>3
  <2>6. Log!Settle(D, {})
    <3>1. D \cap {} = {} /\ D \cup {} = D /\ D \subseteq Units
      BY <2>2
    <3>2. \A u \in D : [w \in Units |-> OutboxVerdict(entries[w])][u] = "open"
      BY <2>2, <2>4
    <3>3. [w \in Units |-> OutboxVerdict(entries'[w])]
            = [m \in Units |-> IF m \in D THEN "delivered" ELSE IF m \in {} THEN "failed"
                               ELSE [w \in Units |-> OutboxVerdict(entries[w])][m]]
      BY <2>5
    <3> QED BY <2>2, <3>1, <3>2, <3>3 DEF Log!Settle, OutboxVerdict
  <2> QED BY <2>2, <2>6 DEF Log!Next
<1>3. CASE ReadPending(s) \/ Refuse(s) \/ Stop(s)
  BY <1>3 DEF ReadPending, Refuse, Stop, Log!announcedVars
<1> QED BY <1>1, <1>2, <1>3 DEF SenderStep

\* At least once, and never a false claim: the outbox is a log as Announcements
\* describes one, for any units of work, senders and stops (kernel/outbox.py).
THEOREM OutboxIsALog == OutboxSpec => OutboxKeepsPromise
<1>1. OutboxInit => Log!Init
  BY DEF OutboxInit, Log!Init
<1>2. OutboxInv /\ [OutboxNext]_outboxVars => [Log!Next]_(Log!announcedVars)
  <2> SUFFICES ASSUME OutboxInv, [OutboxNext]_outboxVars
               PROVE  [Log!Next]_(Log!announcedVars)
    OBVIOUS
  <2>1. CASE OutboxNext
    BY <2>1, UnitsStepLog, SendersStepLog DEF OutboxNext
  <2>2. CASE UNCHANGED outboxVars
    BY <2>2 DEF outboxVars, Log!announcedVars
  <2> QED BY <2>1, <2>2
<1> QED BY <1>1, <1>2, OutboxInvInit, OutboxInvStep, PTL
        DEF OutboxSpec, OutboxKeepsPromise, Log!Spec

-----------------------------------------------------------------------------
(* Sagas.                                                                  *)

Contexts == [status : {"none", "running", "completed"}, step : Nat, failed : BOOLEAN]
Copies == [id : SagaIds, context : Contexts]

SagaTypes ==
  /\ active \in [SagaIds -> Contexts]
  /\ stack \in [Publishers -> Seq(SUBSET Copies)]
  /\ earned \in [SagaIds -> Nat]
  /\ crossed \subseteq SagaIds
  /\ events \in Nat

\* A copy has a step to take for an event that has come.
CopiesAreEarned ==
  \A t \in Publishers : \A i \in DOMAIN stack[t] : \A m \in stack[t][i] :
    m.id \notin crossed => m.context.step + 1 <= earned[m.id]

SagaInv == SagaTypes /\ ProgressIsEarned /\ CopiesAreEarned

\* The instances an event takes are copies of the ones there are.
LEMMA RunningCopies ==
  ASSUME SagaTypes
  PROVE  Running \in SUBSET Copies /\ \A m \in Running : m.context = active[m.id]
BY DEF SagaTypes, Running, Copies

\* What a handler leaves on its stack was on it before.
Rest(S, m) == IF Head(S) \ {m} = {} THEN Tail(S) ELSE <<Head(S) \ {m}>> \o Tail(S)

LEMMA RestOfStack ==
  ASSUME NEW S \in Seq(SUBSET Copies), S # <<>>, NEW m
  PROVE  /\ Rest(S, m) \in Seq(SUBSET Copies)
         /\ \A i \in DOMAIN Rest(S, m) : \E j \in DOMAIN S : Rest(S, m)[i] \subseteq S[j]
<1> DEFINE rest == Head(S) \ {m}  Q == Tail(S)  T == Rest(S, m)
<1> SUFFICES T \in Seq(SUBSET Copies) /\ \A i \in DOMAIN T : \E j \in DOMAIN S : T[i] \subseteq S[j]
  OBVIOUS
<1>1. Head(S) \in SUBSET Copies /\ Head(S) = S[1] /\ 1 \in DOMAIN S
  OBVIOUS
<1>2. Q \in Seq(SUBSET Copies) /\ Len(Q) = Len(S) - 1 /\ Len(S) \in Nat \ {0}
  BY HeadTailProperties, LenProperties
<1>3. \A i \in 1..Len(Q) : Q[i] = S[i + 1]
  BY HeadTailProperties
<1>4. rest \subseteq S[1] /\ rest \in SUBSET Copies
  BY <1>1
<1>5. T = Q \/ T = <<rest>> \o Q
  BY DEF Rest
<1> HIDE DEF rest, Q, T
<1>6. CASE T = Q
  <2>1. \A i \in DOMAIN T : i + 1 \in DOMAIN S /\ T[i] = S[i + 1]
    BY <1>2, <1>3, <1>6
  <2> QED BY <1>2, <1>6, <2>1
<1>7. CASE T = <<rest>> \o Q
  <2> DEFINE X == <<rest>>
  <2>1. X \in Seq(SUBSET Copies) /\ Len(X) = 1 /\ X[1] = rest
    BY <1>4
  <2>7. T = X \o Q
    BY <1>7
  <2> HIDE DEF X
  <2>2. /\ T \in Seq(SUBSET Copies) /\ Len(T) = 1 + Len(Q)
        /\ \A i \in 1..1 + Len(Q) : T[i] = IF i <= 1 THEN X[i] ELSE Q[i - 1]
    <3>1. /\ X \o Q \in Seq(SUBSET Copies) /\ Len(X \o Q) = Len(X) + Len(Q)
          /\ \A i \in 1 .. Len(X) + Len(Q) :
               (X \o Q)[i] = IF i <= Len(X) THEN X[i] ELSE Q[i - Len(X)]
      BY <1>2, <2>1, ConcatProperties, Zenon
    <3> QED BY <2>1, <2>7, <3>1
  <2>3. DOMAIN T = 1..Len(S) /\ DOMAIN S = 1..Len(S)
    BY <1>2, <2>2
  <2>4. T[1] = rest
    BY <1>2, <2>1, <2>2
  <2>5. \A i \in 2..Len(S) : T[i] = S[i]
    <3> TAKE i \in 2..Len(S)
    <3>1. T[i] = Q[i - 1] /\ i - 1 \in 1..Len(Q) /\ i - 1 + 1 = i
      BY <1>2, <2>2
    <3>2. Q[i - 1] = S[i - 1 + 1]
      BY <1>3, <3>1, Zenon
    <3> QED BY <3>1, <3>2
  <2>6. \A i \in DOMAIN T : i = 1 \/ i \in 2..Len(S)
    BY <1>2, <2>3
  <2> QED BY <1>1, <1>4, <2>2, <2>3, <2>4, <2>5, <2>6
<1> QED BY <1>5, <1>6, <1>7

\* A trigger starts over; if nobody holds a copy nothing is left of the past.
LEMMA TriggerKeepsInv ==
  ASSUME SagaInv, NEW t \in Publishers, NEW s \in SagaIds, Trigger(t, s)
  PROVE  SagaInv'
<1>1. /\ active' = [active EXCEPT ![s] = Started] /\ earned' = [earned EXCEPT ![s] = 0]
      /\ crossed' = (IF Held(s) THEN crossed \cup {s} ELSE crossed)
      /\ stack' = stack /\ events' = events + 1
  BY DEF Trigger, Start, Event
<1>2. SagaTypes'
  BY <1>1 DEF SagaInv, SagaTypes, Started, Contexts
<1>3. ProgressIsEarned'
  BY <1>1 DEF SagaInv, SagaTypes, ProgressIsEarned, Started
<1>4. CopiesAreEarned'
  <2> SUFFICES ASSUME NEW u \in Publishers, NEW i \in DOMAIN stack[u], NEW m \in stack[u][i],
                      m.id \notin crossed'
               PROVE  m.context.step + 1 <= earned'[m.id]
    BY <1>1 DEF CopiesAreEarned
  <2>1. m.id # s
    BY <1>1 DEF Held
  <2> QED BY <1>1, <2>1 DEF SagaInv, SagaTypes, CopiesAreEarned
<1> QED BY <1>2, <1>3, <1>4 DEF SagaInv

\* An event earns every instance a step, also those it takes a copy of.
LEMMA EventKeepsInv ==
  ASSUME SagaInv, NEW t \in Publishers, StepEvent(t)
  PROVE  SagaInv'
<1>1. /\ active' = active /\ crossed' = crossed /\ events' = events + 1
      /\ earned' = [s \in SagaIds |-> earned[s] + 1]
      /\ stack' = [stack EXCEPT ![t] = <<Running>> \o @]
  BY DEF StepEvent, Event
<1>2. stack[t] \in Seq(SUBSET Copies) /\ <<Running>> \in Seq(SUBSET Copies)
  BY RunningCopies DEF SagaInv, SagaTypes
<1>3. SagaTypes'
  BY <1>1, <1>2 DEF SagaInv, SagaTypes
<1>4. ProgressIsEarned'
  BY <1>1 DEF SagaInv, SagaTypes, ProgressIsEarned, Contexts
<1>5. CopiesAreEarned'
  <2> SUFFICES ASSUME NEW u \in Publishers, NEW i \in DOMAIN stack'[u], NEW m \in stack'[u][i],
                      m.id \notin crossed
               PROVE  m.context.step + 1 <= earned'[m.id]
    BY <1>1 DEF CopiesAreEarned
  <2>1. \/ u = t /\ i = 1 /\ m \in Running
        \/ \E j \in DOMAIN stack[u] : m \in stack[u][j]
    <3>1. CASE u # t
      BY <1>1, <3>1 DEF SagaInv, SagaTypes
    <3>2. CASE u = t
      <4>1. stack'[t] = <<Running>> \o stack[t]
        BY <1>1 DEF SagaInv, SagaTypes
      <4>2. i = 1 \/ (i - 1 \in DOMAIN stack[t] /\ stack'[t][i] = stack[t][i - 1])
        BY <1>2, <3>2, <4>1
      <4>3. stack'[t][1] = Running
        BY <1>2, <4>1
      <4> QED BY <3>2, <4>2, <4>3
    <3> QED BY <3>1, <3>2
  <2>2. CASE m \in Running
    <3>1. m \in Copies /\ m.context = active[m.id]
      BY <2>2, RunningCopies DEF SagaInv
    <3> QED BY <1>1, <3>1 DEF SagaInv, SagaTypes, ProgressIsEarned, Contexts, Copies
  <2>3. CASE \E j \in DOMAIN stack[u] : m \in stack[u][j]
    <3>1. m \in Copies /\ m.context.step + 1 <= earned[m.id]
      BY <2>3 DEF SagaInv, SagaTypes, CopiesAreEarned
    <3> QED BY <1>1, <3>1 DEF SagaInv, SagaTypes, Contexts, Copies
  <2> QED BY <2>1, <2>2, <2>3
<1> QED BY <1>3, <1>4, <1>5 DEF SagaInv

\* A step stores a copy with the step it had earned.
LEMMA StepKeepsInv ==
  ASSUME SagaInv, NEW t \in Publishers, TakeStep(t)
  PROVE  SagaInv'
<1>1. PICK m \in Head(stack[t]), raised \in BOOLEAN :
        /\ active' = [active EXCEPT ![m.id] = Advanced(m.context, raised)]
        /\ stack' = [stack EXCEPT ![t] = IF Head(stack[t]) \ {m} = {} THEN Tail(@)
                                         ELSE <<Head(stack[t]) \ {m}>> \o Tail(@)]
  BY DEF TakeStep
<1>2. UNCHANGED <<earned, crossed, events>> /\ stack[t] # <<>>
        /\ stack[t] \in Seq(SUBSET Copies)
  BY DEF TakeStep, SagaInv, SagaTypes
<1>3. 1 \in DOMAIN stack[t] /\ Head(stack[t]) = stack[t][1] /\ m \in Copies
  BY <1>1, <1>2
<1>4. /\ Advanced(m.context, raised) \in Contexts
      /\ Advanced(m.context, raised).step = m.context.step + 1
  BY <1>3 DEF Advanced, Contexts, Copies
<1>5. /\ stack'[t] \in Seq(SUBSET Copies)
      /\ \A i \in DOMAIN stack'[t] : \E j \in DOMAIN stack[t] : stack'[t][i] \subseteq stack[t][j]
  <2>1. stack' = [stack EXCEPT ![t] = Rest(stack[t], m)]
    BY <1>1, Zenon DEF Rest
  <2>2. stack'[t] = Rest(stack[t], m)
    BY <2>1 DEF SagaInv, SagaTypes
  <2> QED BY <1>2, <2>2, RestOfStack
<1>6. \A u \in Publishers \ {t} : stack'[u] = stack[u]
  BY <1>1 DEF SagaInv, SagaTypes
<1>7. SagaTypes'
  <2>1. active' \in [SagaIds -> Contexts]
    BY <1>1, <1>3, <1>4 DEF SagaInv, SagaTypes, Copies
  <2>2. stack' \in [Publishers -> Seq(SUBSET Copies)]
    BY <1>1, <1>5, <1>6 DEF SagaInv, SagaTypes
  <2> QED BY <1>2, <2>1, <2>2 DEF SagaInv, SagaTypes
<1>8. m.id \notin crossed => m.context.step + 1 <= earned[m.id]
  BY <1>1, <1>3 DEF SagaInv, CopiesAreEarned
<1>9. ProgressIsEarned'
  <2> SUFFICES ASSUME NEW s \in SagaIds \ crossed PROVE active'[s].step <= earned[s]
    BY <1>2 DEF ProgressIsEarned
  <2>1. CASE s = m.id
    BY <1>1, <1>4, <1>8, <2>1 DEF SagaInv, SagaTypes
  <2>2. CASE s # m.id
    BY <1>1, <2>2 DEF SagaInv, SagaTypes, ProgressIsEarned
  <2> QED BY <2>1, <2>2
<1>10. CopiesAreEarned'
  BY <1>2, <1>5, <1>6 DEF SagaInv, CopiesAreEarned
<1> QED BY <1>7, <1>9, <1>10 DEF SagaInv

\* However handlers nest and overwrite each other's results (kernel/saga.py),
\* no instance is further than the events that came since it was triggered.
THEOREM SagasDoNotRunAhead == SagaSpec => []ProgressIsEarned
<1>1. SagaInit => SagaInv
  BY DEF SagaInit, SagaInv, SagaTypes, ProgressIsEarned, CopiesAreEarned, NoSaga, Contexts
<1>2. SagaInv /\ [SagaNext]_sagaVars => SagaInv'
  <2> SUFFICES ASSUME SagaInv, [SagaNext]_sagaVars PROVE SagaInv'
    OBVIOUS
  <2>1. CASE SagaNext
    BY <2>1, TriggerKeepsInv, EventKeepsInv, StepKeepsInv DEF SagaNext
  <2>2. CASE UNCHANGED sagaVars
    BY <2>2 DEF sagaVars, SagaInv, SagaTypes, ProgressIsEarned, CopiesAreEarned
  <2> QED BY <2>1, <2>2
<1> QED BY <1>1, <1>2, PTL DEF SagaSpec, SagaInv

-----------------------------------------------------------------------------
DeliveryRows ==
  [hook : Hooks, status : DeliveryStatuses, attempts : Nat, next : Nat]
SnapRows == [id : DeliveryIds, next : Nat, attempts : Nat, maxAttempts : Nat]
PassRows ==
  [step : {"idle", "post", "record"}, rows : SUBSET SnapRows, at : Nat, ok : BOOLEAN,
   written : [DeliveryIds -> Outcomes \cup {Unwritten}]]

LogTypes ==
  /\ hooks \in [Hooks -> HookRows]
  /\ deliveries \in Seq(DeliveryRows)
  /\ Len(deliveries) <= MaxDeliveries
  /\ passes \in [Dispatchers -> PassRows]
  /\ now \in Nat
  /\ posts \in [DeliveryIds -> Nat]
  /\ losses \in Nat

-----------------------------------------------------------------------------
\* The rows an activity enqueues are new, pending and not yet attempted.
LEMMA EnqueuedRows ==
  ASSUME NEW hs, NEW activity, now \in Nat, NEW rows \in Enqueued(hs, activity)
  PROVE  /\ rows \in Seq(DeliveryRows)
         /\ \A k \in DOMAIN rows : rows[k].status = "pending" /\ rows[k].attempts = 0
<1> DEFINE subscribed == {h \in Hooks : Matches(hs[h], activity)}
<1>1. Cardinality(subscribed) \in Nat
  BY HooksAssumption, FS_Subset, FS_CardinalityType
<1>2. PICK order \in [1 .. Cardinality(subscribed) -> subscribed] :
        rows = [k \in DOMAIN order |->
          [hook |-> order[k], status |-> "pending", attempts |-> 0, next |-> now]]
  BY DEF Enqueued
<1>3. subscribed \subseteq Hooks
  OBVIOUS
<1> DEFINE n == Cardinality(subscribed)
<1> HIDE DEF subscribed, n
<1>4. rows \in [1 .. n -> DeliveryRows]
  BY <1>2, <1>3 DEF n, DeliveryRows, DeliveryStatuses, OpenStatuses
<1>5. n \in Nat
  BY <1>1 DEF n
<1>6. rows \in Seq(DeliveryRows)
  BY <1>4, <1>5, SeqDef
<1> QED
  BY <1>2, <1>6

\* An activity keeps the log's rows and appends pending ones.
LEMMA RecordActivityAppends ==
  ASSUME LogTypes, NEW hs, NEW activity, RecordActivity(hs, activity)
  PROVE  /\ deliveries' \in Seq(DeliveryRows)
         /\ Len(deliveries') <= MaxDeliveries
         /\ Len(deliveries) <= Len(deliveries')
         /\ \A i \in DOMAIN deliveries : deliveries'[i] = deliveries[i]
         /\ \A i \in DOMAIN deliveries' \ DOMAIN deliveries :
              deliveries'[i].status = "pending" /\ deliveries'[i].attempts = 0
<1>1. PICK rows \in Enqueued(hs, activity) :
        /\ Len(deliveries) + Len(rows) <= MaxDeliveries
        /\ deliveries' = deliveries \o rows
  BY DEF RecordActivity
<1>2. /\ rows \in Seq(DeliveryRows)
      /\ \A k \in DOMAIN rows : rows[k].status = "pending" /\ rows[k].attempts = 0
  BY <1>1, EnqueuedRows DEF LogTypes
<1>3. deliveries \in Seq(DeliveryRows)
  BY DEF LogTypes
<1>4. \A i \in DOMAIN deliveries' \ DOMAIN deliveries :
        i - Len(deliveries) \in DOMAIN rows /\ deliveries'[i] = rows[i - Len(deliveries)]
  BY <1>1, <1>2, <1>3
<1> QED
  BY <1>1, <1>2, <1>3, <1>4

\* Of the rows a pass holds only one is next.
LEMMA FirstUnique ==
  ASSUME NEW rows \in SUBSET SnapRows, NEW q \in rows, NEW r \in rows,
         IsFirst(q, rows), IsFirst(r, rows)
  PROVE  q = r
<1>1. CASE q # r
  <2>1. Precedes(q, r) /\ Precedes(r, q)
    BY <1>1 DEF IsFirst
  <2>2. q \in SnapRows /\ r \in SnapRows
    OBVIOUS
  <2>3. q.next \in Nat /\ r.next \in Nat /\ q.id \in Nat /\ r.id \in Nat
    BY <2>2, BoundsAssumption DEF SnapRows, DeliveryIds
  <2> QED
    BY <2>1, <2>3 DEF Precedes
<1> QED
  BY <1>1

\* What an UPDATE writes is a value of the row's columns, is never Unwritten,
\* counts the POST, and says delivered only after a 2xx answer.
LEMMA OutcomeFacts ==
  ASSUME NEW r \in SnapRows, NEW ok \in BOOLEAN, NEW moment \in Nat
  PROVE  /\ Outcome(r, ok, moment) \in Outcomes
         /\ Outcome(r, ok, moment) # Unwritten
         /\ Outcome(r, ok, moment).attempts = r.attempts + 1
         /\ Outcome(r, ok, moment).status = "delivered" => ok
<1>1. r.attempts \in Nat /\ r.next \in Nat /\ r.maxAttempts \in Nat
  BY DEF SnapRows
<1>2. Backoff(r.attempts + 1) \in Nat
  <2> DEFINE steps == <<1, 2, 4, 8, 16, 32>>
  <2>1. CASE r.attempts + 1 > 6
    BY <2>1 DEF Backoff
  <2>2. CASE r.attempts + 1 \in {1, 2, 3, 4, 5, 6}
    <3>1. steps[1] = 1 /\ steps[2] = 2 /\ steps[3] = 4 /\ steps[4] = 8
            /\ steps[5] = 16 /\ steps[6] = 32
      OBVIOUS
    <3> QED
      BY <2>2, <3>1 DEF Backoff
  <2>3. r.attempts + 1 > 6 \/ r.attempts + 1 \in {1, 2, 3, 4, 5, 6}
    BY <1>1
  <2> QED
    BY <2>1, <2>2, <2>3
<1> QED
  BY <1>1, <1>2 DEF Outcome, Outcomes, Unwritten, DeliveryStatuses, OpenStatuses

\* The row in the database as the SELECT reads it.
LEMMA RowOfType ==
  ASSUME LogTypes, NEW i \in DOMAIN deliveries
  PROVE  /\ RowOf(i) \in SnapRows
         /\ i \in DeliveryIds
<1>1. deliveries[i] \in DeliveryRows
  BY DEF LogTypes
<1>2. hooks[deliveries[i].hook] \in HookRows
  BY <1>1 DEF LogTypes, DeliveryRows
<1>3. i \in DeliveryIds
  BY BoundsAssumption DEF LogTypes, DeliveryIds
<1>4. hooks[deliveries[i].hook].maxAttempts \in 1 .. 25
  BY <1>2, LimitsAssumption DEF HookRows
<1> QED
  BY <1>1, <1>3, <1>4 DEF RowOf, SnapRows, DeliveryRows

\* A pass that does nothing is one.
LEMMA IdleType == Idle \in PassRows
BY DEF Idle, PassRows

\* What a commit makes of the log.
LEMMA CommittedLog ==
  ASSUME LogTypes, NEW d \in Dispatchers, Commit(d)
  PROVE  /\ deliveries' \in Seq(DeliveryRows)
         /\ Len(deliveries') = Len(deliveries)
         /\ DOMAIN deliveries' = DOMAIN deliveries
         /\ \A i \in DOMAIN deliveries :
              IF passes[d].written[i] = Unwritten
              THEN deliveries'[i] = deliveries[i]
              ELSE /\ deliveries'[i].status = passes[d].written[i].status
                   /\ deliveries'[i].attempts = passes[d].written[i].attempts
<1> DEFINE written == passes[d].written
<1>1. deliveries' = [i \in DOMAIN deliveries |->
           IF written[i] = Unwritten THEN deliveries[i]
           ELSE [hook |-> deliveries[i].hook, status |-> written[i].status,
                 attempts |-> written[i].attempts, next |-> written[i].next]]
  BY DEF Commit
<1>2. deliveries \in Seq(DeliveryRows) /\ DOMAIN deliveries = 1 .. Len(deliveries)
        /\ Len(deliveries) \in Nat
  BY DEF LogTypes
<1>3. ASSUME NEW i \in DOMAIN deliveries, written[i] # Unwritten
      PROVE  written[i] \in Outcomes
  <2>1. i \in DeliveryIds
    BY <1>3, RowOfType
  <2> QED
    BY <1>3, <2>1 DEF LogTypes, PassRows
<1>4. \A i \in DOMAIN deliveries : deliveries'[i] \in DeliveryRows
  <2> TAKE i \in DOMAIN deliveries
  <2>1. deliveries[i] \in DeliveryRows
    BY <1>2
  <2> QED
    BY <1>1, <1>3, <2>1 DEF DeliveryRows, Outcomes
<1>5. deliveries' \in [1 .. Len(deliveries) -> DeliveryRows]
  BY <1>1, <1>2, <1>4
<1>6. deliveries' \in Seq(DeliveryRows) /\ Len(deliveries') = Len(deliveries)
  BY <1>2, <1>5
<1> QED
  BY <1>1, <1>2, <1>6
-----------------------------------------------------------------------------
(* Any number of dispatchers.                                              *)

\* What a pass is about to write, or has written, says delivered only of rows
\* that were answered.
AnswerInv ==
  /\ LogTypes
  /\ DeliveredWasAnswered
  /\ \A d \in Dispatchers, i \in DeliveryIds :
       passes[d].written[i].status = "delivered" => i \in answered
  /\ \A d \in Dispatchers : \A r \in passes[d].rows :
       passes[d].step = "record" /\ passes[d].ok /\ IsFirst(r, passes[d].rows) => r.id \in answered

LEMMA AnswerInit == HooksInit => AnswerInv
<1> SUFFICES ASSUME HooksInit PROVE AnswerInv
  OBVIOUS
<1>1. deliveries = <<>> /\ Len(deliveries) = 0 /\ deliveries \in Seq(DeliveryRows)
  BY DEF HooksInit
<1>2. \A d \in Dispatchers : passes[d] = Idle
  BY DEF HooksInit
<1>3. LogTypes
  BY <1>1, IdleType, BoundsAssumption DEF HooksInit, LogTypes
<1>4. DeliveredWasAnswered
  BY <1>1 DEF DeliveredWasAnswered
<1>5. \A d \in Dispatchers :
        /\ \A i \in DeliveryIds : passes[d].written[i].status # "delivered"
        /\ passes[d].rows = {}
  BY <1>2 DEF Idle, Unwritten
<1> QED
  BY <1>3, <1>4, <1>5 DEF AnswerInv

\* Operations of the service that append to the log and leave the passes alone.
LEMMA AnswerRecorded ==
  ASSUME AnswerInv, NEW hs, NEW activity, RecordActivity(hs, activity),
         hooks' \in [Hooks -> HookRows], UNCHANGED <<passes, now, history>>
  PROVE  AnswerInv'
<1>1. LogTypes'
  BY RecordActivityAppends DEF AnswerInv, LogTypes, history
<1>2. DeliveredWasAnswered'
  <2> SUFFICES ASSUME NEW i \in DOMAIN deliveries', deliveries'[i].status = "delivered"
               PROVE  i \in answered'
    BY DEF DeliveredWasAnswered
  <2>1. i \in DOMAIN deliveries
    BY RecordActivityAppends DEF AnswerInv
  <2>2. deliveries'[i] = deliveries[i]
    BY <2>1, RecordActivityAppends DEF AnswerInv
  <2> QED
    BY <2>1, <2>2 DEF AnswerInv, DeliveredWasAnswered, history
<1> QED
  BY <1>1, <1>2 DEF AnswerInv, history

\* A pass of d is replaced, and nothing else changes but what was answered and
\* lost: it is enough to look at the new pass.
LEMMA AnswerPassReplaced ==
  ASSUME AnswerInv, NEW d \in Dispatchers, NEW p \in PassRows,
         passes' = [passes EXCEPT ![d] = p],
         answered \subseteq answered', UNCHANGED <<hooks, deliveries, now>>,
         posts' \in [DeliveryIds -> Nat], losses' \in Nat,
         \A i \in DeliveryIds : p.written[i].status = "delivered" => i \in answered',
         \A r \in p.rows :
           p.step = "record" /\ p.ok /\ IsFirst(r, p.rows) => r.id \in answered'
  PROVE  AnswerInv'
<1>1. LogTypes'
  BY DEF AnswerInv, LogTypes
<1>2. DeliveredWasAnswered'
  BY DEF AnswerInv, DeliveredWasAnswered
<1>3. \A e \in Dispatchers : passes'[e] = IF e = d THEN p ELSE passes[e]
  BY DEF AnswerInv, LogTypes
<1> QED
  BY <1>1, <1>2, <1>3 DEF AnswerInv

\* The steps of a pass, each with the pass it leaves.
LEMMA AnswerSelect ==
  ASSUME AnswerInv, NEW d \in Dispatchers, Select(d)
  PROVE  AnswerInv'
<1>1. PICK R \in SUBSET {RowOf(i) : i \in {j \in DOMAIN deliveries : Due(j)}} :
        passes' = [passes EXCEPT ![d] = [Idle EXCEPT !.step = "post", !.rows = R, !.at = now]]
  BY DEF Select
<1> DEFINE p == [Idle EXCEPT !.step = "post", !.rows = R, !.at = now]
<1>2. R \subseteq SnapRows
  BY <1>1, RowOfType DEF AnswerInv
<1>3. p \in PassRows
  BY <1>2, IdleType DEF PassRows, AnswerInv, LogTypes
<1>4. p.step = "post" /\ \A i \in DeliveryIds : p.written[i] = Unwritten
  BY DEF Idle
<1>5. /\ answered' = answered /\ posts' = posts /\ losses' = losses
      /\ UNCHANGED <<hooks, deliveries, now>>
  BY DEF Select, history
<1> HIDE DEF p
<1>6. passes' = [passes EXCEPT ![d] = p]
  BY <1>1 DEF p
<1>7. losses' \in Nat /\ posts' \in [DeliveryIds -> Nat] /\ answered \subseteq answered'
  BY <1>5 DEF AnswerInv, LogTypes
<1>8. \A i \in DeliveryIds : p.written[i].status # "delivered"
  BY <1>4 DEF Unwritten
<1>9. p.step # "record"
  BY <1>4
<1> QED
  BY <1>3, <1>5, <1>6, <1>7, <1>8, <1>9, AnswerPassReplaced

LEMMA AnswerPost ==
  ASSUME AnswerInv, NEW d \in Dispatchers, Post(d)
  PROVE  AnswerInv'
<1>1. PICK r \in passes[d].rows, ok \in BOOLEAN :
        /\ IsFirst(r, passes[d].rows)
        /\ passes' = [passes EXCEPT ![d].step = "record", ![d].ok = ok]
        /\ posts' = [posts EXCEPT ![r.id] = @ + 1]
        /\ answered' = IF ok THEN answered \cup {r.id} ELSE answered
  BY DEF Post
<1> DEFINE p == [passes[d] EXCEPT !.step = "record", !.ok = ok]
<1>2. passes[d] \in PassRows
  BY DEF AnswerInv, LogTypes
<1>3. p \in PassRows
  BY <1>2 DEF PassRows
<1>4. p.rows = passes[d].rows /\ p.written = passes[d].written /\ p.ok = ok
  BY <1>2 DEF PassRows
<1>5. passes' = [passes EXCEPT ![d] = p]
  BY <1>1 DEF AnswerInv, LogTypes
<1>6. posts' \in [DeliveryIds -> Nat]
  <2>1. r.id \in DeliveryIds
    BY <1>2 DEF PassRows, SnapRows
  <2>2. posts \in [DeliveryIds -> Nat] /\ posts[r.id] + 1 \in Nat
    BY <2>1 DEF AnswerInv, LogTypes
  <2> QED
    BY <1>1, <2>2
<1>7. \A q \in p.rows : IsFirst(q, p.rows) => q = r
  BY <1>1, <1>2, <1>4, FirstUnique DEF PassRows
<1>8. losses' \in Nat /\ UNCHANGED <<hooks, deliveries, now>>
  BY DEF Post, AnswerInv, LogTypes
<1> HIDE DEF p
<1>9. \A i \in DeliveryIds : p.written[i].status = "delivered" => i \in answered'
  BY <1>1, <1>4 DEF AnswerInv
<1>10. \A q \in p.rows :
         p.step = "record" /\ p.ok /\ IsFirst(q, p.rows) => q.id \in answered'
  BY <1>1, <1>4, <1>7
<1> QED
  BY <1>1, <1>3, <1>5, <1>6, <1>8, <1>9, <1>10, AnswerPassReplaced

LEMMA AnswerRecord ==
  ASSUME AnswerInv, NEW d \in Dispatchers, Record(d)
  PROVE  AnswerInv'
<1> DEFINE p == passes[d]
<1>1. PICK r \in p.rows :
        /\ IsFirst(r, p.rows)
        /\ passes' = [passes EXCEPT ![d] =
             [p EXCEPT !.step = "post", !.rows = p.rows \ {r},
                       !.written[r.id] = Outcome(r, p.ok, p.at)]]
  BY DEF Record
<1>2. p \in PassRows
  BY DEF AnswerInv, LogTypes
<1> DEFINE o == Outcome(r, p.ok, p.at)
           q == [p EXCEPT !.step = "post", !.rows = p.rows \ {r}, !.written[r.id] = o]
<1>3. r \in SnapRows /\ p.ok \in BOOLEAN /\ p.at \in Nat /\ r.id \in DeliveryIds
  BY <1>2 DEF PassRows, SnapRows
<1>4. o \in Outcomes /\ (o.status = "delivered" => p.ok)
  BY <1>3, OutcomeFacts
<1>5. q \in PassRows
  BY <1>2, <1>3, <1>4 DEF PassRows
<1>6. /\ q.step = "post"
      /\ q.written = [p.written EXCEPT ![r.id] = o]
  BY <1>2 DEF PassRows
<1>7. p.ok => r.id \in answered
  BY <1>1 DEF Record, AnswerInv
<1>8. p.written \in [DeliveryIds -> Outcomes \cup {Unwritten}]
  BY <1>2 DEF PassRows
<1>9. passes' = [passes EXCEPT ![d] = q]
  BY <1>1
<1>10. /\ answered' = answered /\ posts' = posts /\ losses' = losses
       /\ UNCHANGED <<hooks, deliveries, now>>
  BY DEF Record, history
<1>11. \A i \in DeliveryIds : p.written[i].status = "delivered" => i \in answered
  BY DEF AnswerInv
<1> HIDE DEF p, q, o
<1>12. \A i \in DeliveryIds : q.written[i].status = "delivered" => i \in answered'
  BY <1>3, <1>4, <1>6, <1>7, <1>8, <1>10, <1>11
<1> QED
  BY <1>5, <1>6, <1>9, <1>10, <1>12, AnswerPassReplaced DEF AnswerInv, LogTypes

LEMMA AnswerCommit ==
  ASSUME AnswerInv, NEW d \in Dispatchers, Commit(d)
  PROVE  AnswerInv'
<1>1. /\ passes' = [passes EXCEPT ![d] = Idle]
      /\ answered' = answered /\ posts' = posts /\ losses' = losses
      /\ UNCHANGED <<hooks, now>>
  BY DEF Commit, history
<1>2. LogTypes'
  BY <1>1, CommittedLog, IdleType DEF AnswerInv, LogTypes
<1>3. DeliveredWasAnswered'
  <2> SUFFICES ASSUME NEW i \in DOMAIN deliveries', deliveries'[i].status = "delivered"
               PROVE  i \in answered
    BY <1>1 DEF DeliveredWasAnswered
  <2>1. i \in DOMAIN deliveries /\ i \in DeliveryIds
    BY CommittedLog, RowOfType DEF AnswerInv
  <2>2. CASE passes[d].written[i] = Unwritten
    BY <2>1, <2>2, CommittedLog DEF AnswerInv, DeliveredWasAnswered
  <2>3. CASE passes[d].written[i] # Unwritten
    BY <2>1, <2>3, CommittedLog DEF AnswerInv
  <2> QED
    BY <2>2, <2>3
<1>4. \A e \in Dispatchers : passes'[e] = IF e = d THEN Idle ELSE passes[e]
  BY <1>1 DEF AnswerInv, LogTypes
<1> QED
  BY <1>1, <1>2, <1>3, <1>4 DEF AnswerInv, Idle, Unwritten

LEMMA AnswerLose ==
  ASSUME AnswerInv, NEW d \in Dispatchers, Lose(d)
  PROVE  AnswerInv'
<1>1. Idle.step = "idle" /\ \A i \in DeliveryIds : Idle.written[i].status # "delivered"
  BY DEF Idle, Unwritten
<1>2. /\ passes' = [passes EXCEPT ![d] = Idle]
      /\ losses' = losses + 1
      /\ answered' = answered /\ posts' = posts /\ UNCHANGED <<hooks, deliveries, now>>
  BY DEF Lose
<1>3. losses' \in Nat /\ posts' \in [DeliveryIds -> Nat] /\ answered \subseteq answered'
  BY <1>2 DEF AnswerInv, LogTypes
<1>4. Idle.step # "record"
  BY <1>1
<1> QED
  BY <1>1, <1>2, <1>3, <1>4, IdleType, AnswerPassReplaced

LEMMA AnswerNext == AnswerInv /\ [HooksNext]_hookVars => AnswerInv'
<1> SUFFICES ASSUME AnswerInv, [HooksNext]_hookVars PROVE AnswerInv'
  OBVIOUS
<1>1. ASSUME NEW a \in Activities, Activity(a) PROVE AnswerInv'
  BY <1>1, AnswerRecorded DEF Activity, AnswerInv, LogTypes
<1>2. ASSUME NEW h \in Hooks, NEW row \in SavedRows, Upsert(h, row) PROVE AnswerInv'
  <2>1. hooks' \in [Hooks -> HookRows]
    BY <1>2 DEF Upsert, SavedRows, AnswerInv, LogTypes
  <2> QED
    BY <1>2, <2>1, AnswerRecorded DEF Upsert
<1>3. ASSUME NEW d \in Dispatchers, PassStep(d) \/ Lose(d) PROVE AnswerInv'
  BY <1>3, AnswerSelect, AnswerPost, AnswerRecord, AnswerCommit, AnswerLose DEF PassStep
<1>4. CASE Tick
  BY <1>4 DEF Tick, history, AnswerInv, LogTypes, DeliveredWasAnswered
<1>5. CASE UNCHANGED hookVars
  BY <1>5 DEF hookVars, AnswerInv, LogTypes, DeliveredWasAnswered
<1> QED
  BY <1>1, <1>2, <1>3, <1>4, <1>5 DEF HooksNext

\* A delivery is marked delivered only after a receiver answered it with 2xx,
\* for any number of dispatchers writing over each other's verdicts.
THEOREM DeliveredIsAnswered == HooksSpec => []DeliveredWasAnswered
<1>1. AnswerInv => DeliveredWasAnswered
  BY DEF AnswerInv
<1> QED
  BY AnswerInit, AnswerNext, <1>1, PTL DEF HooksSpec
-----------------------------------------------------------------------------
(* One dispatcher.                                                         *)

\* The row d is posting, and has posted but not updated yet.
Posted(d, i) ==
  /\ passes[d].step = "record"
  /\ \E r \in passes[d].rows : IsFirst(r, passes[d].rows) /\ r.id = i

\* The POST of row i that only d knows of.
Unrecorded(d, i) == IF passes[d].written[i] # Unwritten \/ Posted(d, i) THEN 1 ELSE 0

\* Nobody touches an open row between a pass's SELECT and its commit.
PassAgrees(d) ==
  /\ \A r \in passes[d].rows :
       /\ r.id \in DOMAIN deliveries
       /\ Open(r.id)
       /\ deliveries[r.id].attempts = r.attempts
       /\ passes[d].written[r.id] = Unwritten
  /\ \A q, r \in passes[d].rows : q.id = r.id => q = r
  /\ \A i \in DeliveryIds : passes[d].written[i] # Unwritten =>
       /\ i \in DOMAIN deliveries
       /\ Open(i)
       /\ passes[d].written[i].attempts = deliveries[i].attempts + 1
  /\ passes[d].step = "idle" =>
       passes[d].rows = {} /\ \A i \in DeliveryIds : passes[d].written[i] = Unwritten

Accounted(d) ==
  \A i \in DeliveryIds :
    /\ i \notin DOMAIN deliveries => posts[i] = 0
    /\ i \in DOMAIN deliveries =>
         /\ deliveries[i].attempts + Unrecorded(d, i) <= posts[i]
         /\ posts[i] <= deliveries[i].attempts + Unrecorded(d, i) + losses

LogInv(d) == LogTypes /\ PassAgrees(d) /\ Accounted(d)

LEMMA LogInit ==
  ASSUME NEW d \in Dispatchers, HooksInit
  PROVE  LogInv(d)
<1>1. LogTypes /\ DOMAIN deliveries = {}
  BY AnswerInit DEF AnswerInv, HooksInit
<1>2. passes[d] = Idle /\ posts = [i \in DeliveryIds |-> 0]
  BY DEF HooksInit
<1>3. passes[d].rows = {} /\ \A i \in DeliveryIds : passes[d].written[i] = Unwritten
  BY <1>2 DEF Idle
<1> QED
  BY <1>1, <1>2, <1>3 DEF LogInv, PassAgrees, Accounted

\* Rows that come after the SELECT concern no pass.
LEMMA LogRecorded ==
  ASSUME NEW d \in Dispatchers, LogInv(d), NEW hs, NEW activity,
         RecordActivity(hs, activity),
         hooks' \in [Hooks -> HookRows], UNCHANGED <<passes, now, history>>
  PROVE  LogInv(d)'
<1>1. LogTypes
  BY DEF LogInv
<1>2. LogTypes'
  BY <1>1, RecordActivityAppends DEF LogTypes, history
<1>3. /\ DOMAIN deliveries \subseteq DOMAIN deliveries'
      /\ \A i \in DOMAIN deliveries : deliveries'[i] = deliveries[i] /\ (Open(i)' <=> Open(i))
      /\ \A i \in DOMAIN deliveries' \ DOMAIN deliveries : deliveries'[i].attempts = 0
  BY <1>1, <1>2, RecordActivityAppends DEF LogTypes, Open
<1>4. PassAgrees(d)'
  BY <1>3 DEF PassAgrees, LogInv
<1>5. Accounted(d)'
  <2> SUFFICES ASSUME NEW i \in DeliveryIds
               PROVE  /\ i \notin DOMAIN deliveries' => posts'[i] = 0
                      /\ i \in DOMAIN deliveries' =>
                           /\ deliveries'[i].attempts + Unrecorded(d, i)' <= posts'[i]
                           /\ posts'[i] <= deliveries'[i].attempts + Unrecorded(d, i)' + losses'
    BY DEF Accounted
  <2>1. Unrecorded(d, i)' = Unrecorded(d, i) /\ posts' = posts /\ losses' = losses
    BY DEF Unrecorded, Posted, history
  <2>2. CASE i \in DOMAIN deliveries
    BY <1>3, <2>1, <2>2 DEF LogInv, Accounted
  <2>3. CASE i \notin DOMAIN deliveries
    <3>1. Unrecorded(d, i) = 0
      BY <2>3 DEF LogInv, PassAgrees, Unrecorded, Posted
    <3>2. posts[i] = 0 /\ losses \in Nat
      BY <1>1, <2>3 DEF LogInv, Accounted, LogTypes
    <3> QED
      BY <1>3, <2>1, <2>3, <3>1, <3>2
  <2> QED
    BY <2>2, <2>3
<1> QED
  BY <1>2, <1>4, <1>5 DEF LogInv

LEMMA LogSelect ==
  ASSUME NEW d \in Dispatchers, LogInv(d), LogTypes', Select(d)
  PROVE  LogInv(d)'
<1>1. PICK R \in SUBSET {RowOf(i) : i \in {j \in DOMAIN deliveries : Due(j)}} :
        passes' = [passes EXCEPT ![d] = [Idle EXCEPT !.step = "post", !.rows = R, !.at = now]]
  BY DEF Select
<1>2. /\ passes'[d].step = "post" /\ passes'[d].rows = R
      /\ \A i \in DeliveryIds : passes'[d].written[i] = Unwritten
  BY <1>1 DEF LogInv, LogTypes, Idle
<1>3. UNCHANGED <<deliveries, posts, losses>>
  BY DEF Select, history
<1>4. \A r \in R : \E i \in DOMAIN deliveries : Open(i) /\ r = RowOf(i)
  BY DEF Due
<1>5. \A r \in R : /\ r.id \in DOMAIN deliveries /\ Open(r.id)
                   /\ deliveries[r.id].attempts = r.attempts /\ r = RowOf(r.id)
                   /\ r.id \in DeliveryIds
  BY <1>4, RowOfType DEF RowOf, LogInv
<1>6. PassAgrees(d)'
  BY <1>2, <1>3, <1>5 DEF PassAgrees, Open
<1>7. \A i \in DeliveryIds : Unrecorded(d, i) = 0 /\ Unrecorded(d, i)' = 0
  BY <1>2 DEF Unrecorded, Posted, LogInv, PassAgrees, Select
<1> QED
  BY <1>3, <1>6, <1>7 DEF LogInv, Accounted

LEMMA LogPost ==
  ASSUME NEW d \in Dispatchers, LogInv(d), LogTypes', Post(d)
  PROVE  LogInv(d)'
<1>1. PICK r \in passes[d].rows, ok \in BOOLEAN :
        /\ IsFirst(r, passes[d].rows)
        /\ passes' = [passes EXCEPT ![d].step = "record", ![d].ok = ok]
        /\ posts' = [posts EXCEPT ![r.id] = @ + 1]
  BY DEF Post
<1>2. passes[d] \in PassRows /\ passes[d].step = "post" /\ UNCHANGED <<deliveries, losses>>
  BY DEF LogInv, LogTypes, Post
<1>3. /\ passes'[d].step = "record" /\ passes'[d].rows = passes[d].rows
      /\ passes'[d].written = passes[d].written
  BY <1>1, <1>2 DEF LogInv, LogTypes, PassRows
<1>4. r \in SnapRows /\ r.id \in DeliveryIds /\ passes[d].rows \in SUBSET SnapRows
  BY <1>2 DEF PassRows, SnapRows
<1>5. PassAgrees(d)'
  BY <1>2, <1>3 DEF PassAgrees, Open, LogInv
<1>6. \A i \in DeliveryIds : Posted(d, i)' <=> i = r.id
  BY <1>1, <1>3, <1>4, FirstUnique DEF Posted
<1>7. ASSUME NEW i \in DeliveryIds
      PROVE  Unrecorded(d, i)' = IF i = r.id THEN Unrecorded(d, i) + 1 ELSE Unrecorded(d, i)
  <2>1. ~Posted(d, i)
    BY <1>2 DEF Posted
  <2>2. i = r.id => passes[d].written[i] = Unwritten
    BY DEF LogInv, PassAgrees
  <2> QED
    BY <1>3, <1>6, <2>1, <2>2 DEF Unrecorded
<1>8. \A i \in DeliveryIds : /\ posts'[i] = IF i = r.id THEN posts[i] + 1 ELSE posts[i]
                             /\ posts[i] \in Nat
  BY <1>1, <1>4 DEF LogInv, LogTypes
<1>9. Accounted(d)'
  <2> SUFFICES ASSUME NEW i \in DeliveryIds
               PROVE  /\ i \notin DOMAIN deliveries => posts'[i] = 0
                      /\ i \in DOMAIN deliveries =>
                           /\ deliveries[i].attempts + Unrecorded(d, i)' <= posts'[i]
                           /\ posts'[i] <= deliveries[i].attempts + Unrecorded(d, i)' + losses
    BY <1>2 DEF Accounted
  <2>1. i = r.id => i \in DOMAIN deliveries
    BY DEF LogInv, PassAgrees
  <2>2. Unrecorded(d, i) \in {0, 1} /\ losses \in Nat
    BY DEF Unrecorded, LogInv, LogTypes
  <2>3. i \in DOMAIN deliveries => deliveries[i].attempts \in Nat
    <3>1. deliveries \in Seq(DeliveryRows)
      BY DEF LogInv, LogTypes
    <3>2. i \in DOMAIN deliveries => deliveries[i] \in DeliveryRows
      BY <3>1
    <3> QED
      BY <3>2 DEF DeliveryRows
  <2> QED
    BY <1>7, <1>8, <2>1, <2>2, <2>3 DEF LogInv, Accounted
<1> QED
  BY <1>5, <1>9 DEF LogInv

LEMMA LogRecord ==
  ASSUME NEW d \in Dispatchers, LogInv(d), LogTypes', Record(d)
  PROVE  LogInv(d)'
<1> DEFINE p == passes[d]
<1>1. PICK r \in p.rows :
        /\ IsFirst(r, p.rows)
        /\ passes' = [passes EXCEPT ![d] =
             [p EXCEPT !.step = "post", !.rows = p.rows \ {r},
                       !.written[r.id] = Outcome(r, p.ok, p.at)]]
  BY DEF Record
<1> DEFINE o == Outcome(r, p.ok, p.at)
<1>2. /\ p \in PassRows /\ p.step = "record"
      /\ UNCHANGED <<deliveries, posts, losses>>
  BY DEF LogInv, LogTypes, Record, history
<1>3. r \in SnapRows /\ r.id \in DeliveryIds /\ p.rows \in SUBSET SnapRows
        /\ p.ok \in BOOLEAN /\ p.at \in Nat
  BY <1>2 DEF PassRows, SnapRows
<1>4. o # Unwritten /\ o.attempts = r.attempts + 1
  BY <1>3, OutcomeFacts
<1>5. /\ passes'[d].step = "post" /\ passes'[d].rows = p.rows \ {r}
      /\ passes'[d].written = [p.written EXCEPT ![r.id] = o]
      /\ p.written \in [DeliveryIds -> Outcomes \cup {Unwritten}]
  BY <1>1, <1>2 DEF LogInv, LogTypes, PassRows
<1> HIDE DEF o
<1>6. \A i \in DeliveryIds :
        passes'[d].written[i] = IF i = r.id THEN o ELSE p.written[i]
  BY <1>5
<1>7. PassAgrees(d)'
  <2>1. \A q \in p.rows \ {r} : q.id # r.id
    BY DEF LogInv, PassAgrees
  <2>2. r.id \in DOMAIN deliveries /\ Open(r.id) /\ deliveries[r.id].attempts = r.attempts
    BY DEF LogInv, PassAgrees
  <2>3. \A q \in p.rows : q.id \in DeliveryIds
    BY <1>3 DEF SnapRows
  <2> QED
    BY <1>2, <1>4, <1>5, <1>6, <2>1, <2>2, <2>3 DEF LogInv, PassAgrees, Open
<1>8. \A i \in DeliveryIds : Posted(d, i) <=> i = r.id
  BY <1>1, <1>2, <1>3, FirstUnique DEF Posted
<1>9. \A i \in DeliveryIds : Unrecorded(d, i)' = Unrecorded(d, i)
  BY <1>4, <1>5, <1>6, <1>8 DEF Unrecorded, Posted
<1> QED
  BY <1>2, <1>7, <1>9 DEF LogInv, Accounted

LEMMA LogCommit ==
  ASSUME NEW d \in Dispatchers, LogInv(d), LogTypes', Commit(d)
  PROVE  LogInv(d)'
<1>1. LogTypes /\ passes[d].rows = {} /\ passes[d].step = "post"
  BY DEF LogInv, Commit
<1>2. passes'[d] = Idle /\ UNCHANGED <<posts, losses>>
  BY <1>1 DEF LogTypes, Commit, history
<1>3. passes'[d].rows = {} /\ \A i \in DeliveryIds : passes'[d].written[i] = Unwritten
  BY <1>2 DEF Idle
<1>4. PassAgrees(d)'
  BY <1>3 DEF PassAgrees
<1>5. \A i \in DeliveryIds : Unrecorded(d, i)' = 0
  BY <1>3 DEF Unrecorded, Posted
<1>6. \A i \in DeliveryIds : Unrecorded(d, i) = IF passes[d].written[i] = Unwritten THEN 0 ELSE 1
  BY <1>1 DEF Unrecorded, Posted
<1>7. ASSUME NEW i \in DeliveryIds, i \in DOMAIN deliveries
      PROVE  deliveries'[i].attempts = deliveries[i].attempts + Unrecorded(d, i)
  <2>1. deliveries[i].attempts \in Nat
    <3>1. deliveries \in Seq(DeliveryRows)
      BY <1>1 DEF LogTypes
    <3>2. deliveries[i] \in DeliveryRows
      BY <1>7, <3>1
    <3> QED
      BY <3>2 DEF DeliveryRows
  <2>2. CASE passes[d].written[i] = Unwritten
    BY <1>1, <1>6, <1>7, <2>1, <2>2, CommittedLog
  <2>3. CASE passes[d].written[i] # Unwritten
    BY <1>1, <1>6, <1>7, <2>3, CommittedLog DEF LogInv, PassAgrees
  <2> QED
    BY <2>2, <2>3
<1>8. DOMAIN deliveries' = DOMAIN deliveries
  BY <1>1, CommittedLog
<1>9. Accounted(d)'
  <2> SUFFICES ASSUME NEW i \in DeliveryIds
               PROVE  /\ i \notin DOMAIN deliveries => posts[i] = 0
                      /\ i \in DOMAIN deliveries =>
                           /\ deliveries'[i].attempts + Unrecorded(d, i)' <= posts[i]
                           /\ posts[i] <= deliveries'[i].attempts + Unrecorded(d, i)' + losses
    BY <1>2, <1>8 DEF Accounted
  <2>1. i \in DOMAIN deliveries' => deliveries'[i].attempts \in Nat
    <3>1. deliveries' \in Seq(DeliveryRows)
      BY DEF LogTypes
    <3>2. i \in DOMAIN deliveries' => deliveries'[i] \in DeliveryRows
      BY <3>1
    <3> QED
      BY <3>2 DEF DeliveryRows
  <2> QED
    BY <1>5, <1>7, <1>8, <2>1 DEF LogInv, Accounted
<1> QED
  BY <1>4, <1>9 DEF LogInv

LEMMA LogLose ==
  ASSUME NEW d \in Dispatchers, LogInv(d), LogTypes', Lose(d)
  PROVE  LogInv(d)'
<1>1. LogTypes /\ losses \in Nat
  BY DEF LogInv, LogTypes
<1>2. passes'[d] = Idle /\ losses' = losses + 1 /\ UNCHANGED <<deliveries, posts>>
  BY <1>1 DEF LogTypes, Lose
<1>3. passes'[d].rows = {} /\ \A i \in DeliveryIds : passes'[d].written[i] = Unwritten
  BY <1>2 DEF Idle
<1>4. PassAgrees(d)'
  BY <1>3 DEF PassAgrees
<1>5. \A i \in DeliveryIds : Unrecorded(d, i)' = 0 /\ Unrecorded(d, i) \in {0, 1}
  BY <1>3 DEF Unrecorded, Posted
<1>6. \A i \in DeliveryIds : posts[i] \in Nat
  BY <1>1 DEF LogTypes
<1>7. \A i \in DOMAIN deliveries : deliveries[i].attempts \in Nat
  <2>1. deliveries \in Seq(DeliveryRows)
    BY <1>1 DEF LogTypes
  <2>2. \A i \in DOMAIN deliveries : deliveries[i] \in DeliveryRows
    BY <2>1
  <2> QED
    BY <2>2 DEF DeliveryRows
<1> QED
  BY <1>1, <1>2, <1>4, <1>5, <1>6, <1>7 DEF LogInv, Accounted

LEMMA LogNext ==
  ASSUME NEW d, Dispatchers = {d}, AnswerInv, LogInv(d), [HooksNext]_hookVars
  PROVE  AnswerInv' /\ LogInv(d)'
<1>1. AnswerInv' /\ LogTypes'
  BY AnswerNext DEF AnswerInv
<1>2. ASSUME NEW a \in Activities, Activity(a) PROVE LogInv(d)'
  BY <1>2, LogRecorded DEF Activity, LogInv, LogTypes
<1>3. ASSUME NEW h \in Hooks, NEW row \in SavedRows, Upsert(h, row) PROVE LogInv(d)'
  BY <1>1, <1>3, LogRecorded DEF Upsert, LogTypes
<1>4. ASSUME PassStep(d) \/ Lose(d) PROVE LogInv(d)'
  BY <1>1, <1>4, LogSelect, LogPost, LogRecord, LogCommit, LogLose DEF PassStep
<1>5. CASE Tick
  BY <1>1, <1>5 DEF Tick, history, LogInv, PassAgrees, Accounted, Unrecorded, Posted, Open
<1>6. CASE UNCHANGED hookVars
  BY <1>1, <1>6 DEF hookVars, LogInv, PassAgrees, Accounted, Unrecorded, Posted, Open
<1> QED
  BY <1>1, <1>2, <1>3, <1>4, <1>5, <1>6 DEF HooksNext

\* The log accounts for every POST a single dispatcher makes: attempts is short
\* of the truth by at most the lost passes and the one that is running.
THEOREM LogAccountsForPosts ==
  ASSUME NEW d, Dispatchers = {d}
  PROVE  HooksSpec => []AttemptsAccountForPosts
<1>1. LogInv(d) => AttemptsAccountForPosts
  <2> SUFFICES ASSUME LogInv(d), NEW i \in DOMAIN deliveries
               PROVE  /\ deliveries[i].attempts <= posts[i]
                      /\ posts[i] <= deliveries[i].attempts + losses
                           + Cardinality({e \in Dispatchers : passes[e].step # "idle"})
    BY DEF AttemptsAccountForPosts
  <2>1. i \in DeliveryIds /\ losses \in Nat /\ posts[i] \in Nat
    BY RowOfType DEF LogInv, LogTypes
  <2>2. deliveries[i].attempts \in Nat
    <3>1. deliveries \in Seq(DeliveryRows)
      BY DEF LogInv, LogTypes
    <3>2. deliveries[i] \in DeliveryRows
      BY <3>1
    <3> QED
      BY <3>2 DEF DeliveryRows
  <2> DEFINE running == {e \in Dispatchers : passes[e].step # "idle"}
  <2>3. Unrecorded(d, i) \in {0, 1}
    BY DEF Unrecorded
  <2>4. CASE passes[d].step = "idle"
    <3>1. Unrecorded(d, i) = 0
      BY <2>1, <2>4 DEF LogInv, PassAgrees, Unrecorded, Posted
    <3>2. Cardinality(running) = 0
      <4>1. running = {}
        BY <2>4
      <4> QED
        BY <4>1, FS_EmptySet
    <3> QED
      BY <2>1, <2>2, <3>1, <3>2 DEF LogInv, Accounted
  <2>5. CASE passes[d].step # "idle"
    <3>1. Cardinality(running) = 1
      <4>1. running = {d}
        BY <2>5
      <4> QED
        BY <4>1, FS_Singleton
    <3> QED
      BY <2>1, <2>2, <2>3, <3>1 DEF LogInv, Accounted
  <2> QED
    BY <2>4, <2>5
<1>2. HooksInit => AnswerInv /\ LogInv(d)
  BY AnswerInit, LogInit
<1>3. AnswerInv /\ LogInv(d) /\ [HooksNext]_hookVars => AnswerInv' /\ LogInv(d)'
  BY LogNext
<1> QED
  BY <1>1, <1>2, <1>3, PTL DEF HooksSpec

\* What a step may do to the log: rows are kept, settled ones as they are, and
\* attempts are only counted up.
LEMMA LogKept ==
  ASSUME NEW d, Dispatchers = {d}, LogInv(d), [HooksNext]_hookVars,
         NEW i \in DOMAIN deliveries
  PROVE  /\ ~Open(i) => deliveries'[i] = deliveries[i]
         /\ deliveries[i].attempts <= deliveries'[i].attempts
<1>1. LogTypes /\ i \in DeliveryIds
  BY RowOfType DEF LogInv
<1>2. deliveries[i].attempts \in Nat
  <2>1. deliveries \in Seq(DeliveryRows)
    BY <1>1 DEF LogTypes
  <2>2. deliveries[i] \in DeliveryRows
    BY <2>1
  <2> QED
    BY <2>2 DEF DeliveryRows
<1>3. ASSUME deliveries'[i] = deliveries[i]
      PROVE  /\ ~Open(i) => deliveries'[i] = deliveries[i]
             /\ deliveries[i].attempts <= deliveries'[i].attempts
  BY <1>2, <1>3
<1>4. ASSUME NEW hs, NEW activity, RecordActivity(hs, activity)
      PROVE  deliveries'[i] = deliveries[i]
  BY <1>1, <1>4, RecordActivityAppends
<1>5. CASE \/ \E a \in Activities : Activity(a)
           \/ \E h \in Hooks, row \in SavedRows : Upsert(h, row)
  BY <1>3, <1>4, <1>5 DEF Activity, Upsert
<1>6. CASE Commit(d)
  <2>1. CASE passes[d].written[i] = Unwritten
    BY <1>1, <1>3, <1>6, <2>1, CommittedLog
  <2>2. CASE passes[d].written[i] # Unwritten
    <3>1. Open(i) /\ deliveries'[i].attempts = deliveries[i].attempts + 1
      BY <1>1, <1>6, <2>2, CommittedLog DEF LogInv, PassAgrees
    <3> QED
      BY <1>2, <3>1
  <2> QED
    BY <2>1, <2>2
<1>7. CASE Select(d) \/ Post(d) \/ Record(d) \/ Lose(d) \/ Tick \/ UNCHANGED hookVars
  BY <1>3, <1>7 DEF Select, Post, Record, Lose, Tick, hookVars
<1> QED
  BY <1>5, <1>6, <1>7 DEF HooksNext, PassStep

\* A single dispatcher never goes back on a verdict, nor on a count of attempts.
THEOREM VerdictsAreFinal ==
  ASSUME NEW d, Dispatchers = {d}
  PROVE  HooksSpec => SettledIsFinal
<1>1. HooksInit => AnswerInv /\ LogInv(d)
  BY AnswerInit, LogInit
<1>2. AnswerInv /\ LogInv(d) /\ [HooksNext]_hookVars => AnswerInv' /\ LogInv(d)'
  BY LogNext
<1>3. LogInv(d) /\ [HooksNext]_hookVars =>
        [\A i \in DOMAIN deliveries :
           /\ ~Open(i) => deliveries'[i] = deliveries[i]
           /\ deliveries[i].attempts <= deliveries'[i].attempts]_hookVars
  BY LogKept
<1> QED
  BY <1>1, <1>2, <1>3, PTL DEF HooksSpec, SettledIsFinal
-----------------------------------------------------------------------------
(* The log implements Announcements (one dispatcher).                      *)

VerdictOn(i) ==
  IF i \notin DOMAIN deliveries THEN "unsent"
  ELSE IF Open(i) THEN "open" ELSE deliveries[i].status

\* What is appended to the log is an announcement, unless nobody subscribed.
LEMMA RecordingAnnounces ==
  ASSUME LogTypes, LogTypes', NEW hs, NEW activity, RecordActivity(hs, activity),
         UNCHANGED answered
  PROVE  [Announced!Next]_(Announced!announcedVars)
<1> DEFINE M == {i \in DeliveryIds : i \in DOMAIN deliveries' /\ i \notin DOMAIN deliveries}
<1>1. \A i \in DOMAIN deliveries : i \in DOMAIN deliveries' /\ deliveries'[i] = deliveries[i]
  BY RecordActivityAppends DEF LogTypes
<1>2. \A i \in M : VerdictOn(i) = "unsent" /\ VerdictOn(i)' = "open"
  <2> TAKE i \in M
  <2>1. deliveries'[i].status = "pending"
    BY RecordActivityAppends
  <2> QED
    BY <2>1 DEF VerdictOn, Open, OpenStatuses
<1>3. \A i \in DeliveryIds \ M : VerdictOn(i)' = VerdictOn(i)
  BY <1>1 DEF VerdictOn, Open
<1> HIDE DEF M
<1>4. M \in SUBSET DeliveryIds
  BY DEF M
<1>5. CASE M = {}
  <2>1. [i \in DeliveryIds |-> VerdictOn(i)'] = [i \in DeliveryIds |-> VerdictOn(i)]
    BY <1>3, <1>5
  <2> QED
    BY <2>1 DEF Announced!announcedVars, VerdictOn
<1>6. CASE M # {}
  <2>1. \A m \in M : [i \in DeliveryIds |-> VerdictOn(i)][m] = "unsent"
    BY <1>2, <1>4
  <2>2. [i \in DeliveryIds |-> VerdictOn(i)']
          = [m \in DeliveryIds |-> IF m \in M THEN "open"
                                   ELSE [i \in DeliveryIds |-> VerdictOn(i)][m]]
    BY <1>2, <1>3
  <2>3. PICK A \in SUBSET DeliveryIds : A = M
    BY <1>4
  <2>4. Announced!Announce(A)
    BY <1>6, <2>1, <2>2, <2>3 DEF Announced!Announce, VerdictOn
  <2> QED
    BY <2>4 DEF Announced!Next
<1> QED
  BY <1>5, <1>6

\* A POST is heard, if it is answered with success, of a row that is open.
LEMMA PostIsHeard ==
  ASSUME NEW d \in Dispatchers, LogInv(d), Post(d)
  PROVE  [Announced!Next]_(Announced!announcedVars)
<1>1. PICK r \in passes[d].rows, ok \in BOOLEAN :
        answered' = IF ok THEN answered \cup {r.id} ELSE answered
  BY DEF Post
<1>2. r.id \in DeliveryIds
  BY DEF LogInv, LogTypes, PassRows, SnapRows
<1>3. VerdictOn(r.id) = "open"
  BY DEF LogInv, PassAgrees, VerdictOn
<1>4. deliveries' = deliveries
  BY DEF Post
<1>5. CASE ok
  <2>1. [i \in DeliveryIds |-> VerdictOn(i)][r.id] = "open"
    BY <1>2, <1>3
  <2>2. Announced!Hear(r.id)
    BY <1>1, <1>4, <1>5, <2>1 DEF Announced!Hear, VerdictOn, Open
  <2> QED
    BY <1>2, <2>2 DEF Announced!Next
<1>6. CASE ~ok
  BY <1>1, <1>4, <1>6 DEF Announced!announcedVars, Open
<1> QED
  BY <1>5, <1>6

\* A commit passes the verdicts of the pass, on open rows, and delivered only
\* on rows that were answered; a retry leaves its row open.
LEMMA CommitSettles ==
  ASSUME NEW d \in Dispatchers, AnswerInv, LogInv(d), Commit(d)
  PROVE  [Announced!Next]_(Announced!announcedVars)
<1> DEFINE written == passes[d].written
           good == {i \in DeliveryIds : written[i].status = "delivered"}
           bad == {i \in DeliveryIds : written[i].status = "failed"}
<1>1. LogTypes /\ DOMAIN deliveries' = DOMAIN deliveries /\ UNCHANGED answered
  BY CommittedLog DEF LogInv, Commit, history
<1>2. \A i \in DeliveryIds : written[i] \in Outcomes \cup {Unwritten}
  BY <1>1 DEF LogTypes, PassRows
<1>3. \A i \in DeliveryIds : written[i] # Unwritten => VerdictOn(i) = "open" /\ i \in DOMAIN deliveries
  BY DEF LogInv, PassAgrees, VerdictOn
<1>4. \A i \in good \cup bad : written[i] # Unwritten
  BY DEF Unwritten
<1>5. \A i \in DOMAIN deliveries :
        deliveries'[i].status = IF written[i] = Unwritten THEN deliveries[i].status
                                ELSE written[i].status
  BY <1>1, CommittedLog
<1>6. \A i \in DeliveryIds : written[i] # Unwritten =>
        written[i].status \in {"delivered", "failed"} \cup OpenStatuses
  BY <1>2 DEF Outcomes, DeliveryStatuses
<1>7. good \subseteq answered
  BY DEF AnswerInv
<1>8. good \cap bad = {} /\ good \in SUBSET DeliveryIds /\ bad \in SUBSET DeliveryIds
  OBVIOUS
<1>9. ASSUME NEW i \in DeliveryIds
      PROVE  VerdictOn(i)' = IF i \in good THEN "delivered"
                             ELSE IF i \in bad THEN "failed" ELSE VerdictOn(i)
  <2>1. CASE i \notin DOMAIN deliveries
    BY <1>1, <1>3, <1>4, <2>1 DEF VerdictOn
  <2>2. CASE i \in DOMAIN deliveries /\ written[i] = Unwritten
    BY <1>1, <1>4, <1>5, <2>2 DEF VerdictOn, Open
  <2>3. CASE i \in DOMAIN deliveries /\ written[i] # Unwritten
    <3>1. deliveries'[i].status = written[i].status /\ VerdictOn(i) = "open"
      BY <1>3, <1>5, <2>3
    <3>2. VerdictOn(i)' = IF written[i].status \in OpenStatuses THEN "open" ELSE written[i].status
      BY <1>1, <2>3, <3>1 DEF VerdictOn, Open
    <3> QED
      BY <1>6, <2>3, <3>1, <3>2 DEF OpenStatuses
  <2> QED
    BY <2>1, <2>2, <2>3
<1> HIDE DEF good, bad
<1>10. \A m \in good \cup bad : [i \in DeliveryIds |-> VerdictOn(i)][m] = "open"
  BY <1>3, <1>4, <1>8
<1>11. [i \in DeliveryIds |-> VerdictOn(i)']
         = [m \in DeliveryIds |-> IF m \in good THEN "delivered"
                                  ELSE IF m \in bad THEN "failed"
                                  ELSE [i \in DeliveryIds |-> VerdictOn(i)][m]]
  BY <1>9
<1>12. PICK G \in SUBSET DeliveryIds, B \in SUBSET DeliveryIds : G = good /\ B = bad
  BY <1>8
<1>13. Announced!Settle(G, B)
  BY <1>1, <1>7, <1>8, <1>10, <1>11, <1>12 DEF Announced!Settle, VerdictOn
<1> QED
  BY <1>13 DEF Announced!Next

\* With one dispatcher the log is one as Announcements describes it: what it
\* calls delivered was heard, and verdicts are passed once.
THEOREM LogImplementsAnnouncements ==
  ASSUME NEW d, Dispatchers = {d}
  PROVE  HooksSpec => LogKeepsPromise
<1>1. HooksInit => Announced!Init
  BY DEF HooksInit, Announced!Init
<1>2. AnswerInv /\ LogInv(d) /\ [HooksNext]_hookVars => AnswerInv' /\ LogInv(d)'
  BY LogNext
<1>3. AnswerInv /\ LogInv(d) /\ [HooksNext]_hookVars =>
        [Announced!Next]_(Announced!announcedVars)
  <2> SUFFICES ASSUME AnswerInv, LogInv(d), [HooksNext]_hookVars
               PROVE  [Announced!Next]_(Announced!announcedVars)
    OBVIOUS
  <2>1. LogTypes /\ LogTypes'
    BY <1>2 DEF LogInv
  <2>2. CASE \/ \E a \in Activities : Activity(a)
             \/ \E h \in Hooks, row \in SavedRows : Upsert(h, row)
    BY <2>1, <2>2, RecordingAnnounces DEF Activity, Upsert, history
  <2>3. CASE Post(d)
    BY <2>3, PostIsHeard
  <2>4. CASE Commit(d)
    BY <2>4, CommitSettles
  <2>5. CASE Select(d) \/ Record(d) \/ Lose(d) \/ Tick \/ UNCHANGED hookVars
    BY <2>5 DEF Select, Record, Lose, Tick, hookVars, history, Announced!announcedVars, Open
  <2> QED
    BY <2>2, <2>3, <2>4, <2>5 DEF HooksNext, PassStep
<1>4. HooksInit => AnswerInv /\ LogInv(d)
  BY AnswerInit, LogInit
<1> QED
  BY <1>1, <1>2, <1>3, <1>4, PTL DEF HooksSpec, LogKeepsPromise, Announced!Spec

-----------------------------------------------------------------------------
\* Where a thread can be in run().
Places == {"idle", "looking", "raised", "fallback", "calling", "doomed", "resetting",
           "counting", "closing", "done", "checking", "tripping"}

\* The counter never exceeds what is counted, and the moment of opening what is timed.
BreakerTypeOK ==
  /\ failureCount \in 0..Threshold
  /\ opened \in 0..Never
  /\ at \in [Callers -> Places]
  /\ read \in [Callers -> 0..Threshold]
  /\ up \in BOOLEAN

\* The calls that are bound to count a failure, or are counting one.
Failing == {c \in Callers : at[c] \in {"doomed", "counting", "checking", "tripping"}}

\* While the online model answers, no other call fails than those that were failing, and
\* when there is none left, a breaker that is closed stays so.
RecoveryLasts ==
  up /\ up' =>
    /\ Failing' \subseteq Failing
    /\ opened = Never /\ Failing = {} => opened' = Never

\* What a thread does, however slow, and a change of the online model keep the types,
\* and nobody joins the calls that are failing while the online model answers.
LEMMA BreakerStep ==
  ASSUME BreakerTypeOK, [BreakerNext]_breakerVars
  PROVE  BreakerTypeOK' /\ RecoveryLasts
<1>0. Threshold \in Nat /\ Threshold >= 1 /\ ResetTimeout \in Nat /\ ResetTimeout >= 1
  BY BreakerAssumption
<1>1. ASSUME NEW c \in Callers, NEW place \in Places, Goto(c, place)
      PROVE  /\ at' \in [Callers -> Places]
             /\ at'[c] = place
             /\ \A d \in Callers \ {c} : at'[d] = at[d]
  BY <1>1 DEF Goto, BreakerTypeOK
<1>2. ASSUME NEW c \in Callers, NEW place \in Places, Goto(c, place),
             place \in {"doomed", "counting", "checking", "tripping"} => ~up \/ c \in Failing
      PROVE  up /\ up' => Failing' \subseteq Failing
  BY <1>1, <1>2 DEF Failing
<1>3. ASSUME NEW c \in Callers, Run(c)
      PROVE  BreakerTypeOK' /\ RecoveryLasts
  <2>1. CASE Look(c)
    <3>1. PICK place \in Places : Goto(c, place) /\ (place = "doomed" => ~up)
                                  /\ place \in {"calling", "doomed", "looking"}
      BY <2>1 DEF Look, Ask, Places
    <3>2. UNCHANGED <<failureCount, opened, read, up>>
      BY <2>1 DEF Look
    <3> QED
      BY <1>1, <1>2, <3>1, <3>2 DEF BreakerTypeOK, RecoveryLasts
  <2>2. CASE Judge(c)
    <3>1. PICK place \in Places : Goto(c, place) /\ (place = "doomed" => ~up)
                                  /\ place \in {"calling", "doomed", "raised", "fallback"}
      BY <2>2 DEF Judge, Ask, Places
    <3>2. UNCHANGED <<failureCount, opened, read, up>>
      BY <2>2 DEF Judge
    <3> QED
      BY <1>1, <1>2, <3>1, <3>2 DEF BreakerTypeOK, RecoveryLasts
  <2>3. CASE Answered(c)
    BY <1>1, <1>2, <2>3 DEF Answered, Places, BreakerTypeOK, RecoveryLasts
  <2>4. CASE Refused(c)
    <3>1. Goto(c, "counting") /\ "counting" \in Places /\ (~up \/ c \in Failing)
      BY <2>4 DEF Refused, Places, Failing
    <3>2. read' \in [Callers -> 0..Threshold] /\ UNCHANGED <<failureCount, opened, up>>
      BY <2>4 DEF Refused, BreakerTypeOK
    <3> QED
      BY <1>1, <1>2, <3>1, <3>2 DEF BreakerTypeOK, RecoveryLasts
  <2>5. CASE Reset(c)
    BY <1>0, <1>1, <1>2, <2>5 DEF Reset, Places, BreakerTypeOK, RecoveryLasts
  <2>6. CASE Close(c)
    BY <1>0, <1>1, <1>2, <2>6 DEF Close, Places, Never, BreakerTypeOK, RecoveryLasts
  <2>7. CASE Count(c)
    <3>1. Goto(c, "checking") /\ "checking" \in Places /\ c \in Failing
      BY <2>7 DEF Count, Places, Failing
    <3>2. /\ read' \in [Callers -> 0..Threshold] /\ failureCount' \in 0..Threshold
          /\ UNCHANGED <<opened, up>>
      BY <1>0, <2>7 DEF Count, Bump, BreakerTypeOK
    <3> QED
      BY <1>1, <1>2, <3>1, <3>2 DEF BreakerTypeOK, RecoveryLasts
  <2>8. CASE Check(c)
    <3>1. c \in Failing /\ UNCHANGED <<failureCount, opened, read, up>>
      BY <2>8 DEF Check, Failing
    <3>2. PICK place \in Places : Goto(c, place)
      BY <2>8 DEF Check, Places
    <3> QED
      BY <1>1, <1>2, <3>1, <3>2 DEF BreakerTypeOK, RecoveryLasts
  <2>9. CASE Trip(c)
    <3>1. Goto(c, "fallback") /\ "fallback" \in Places /\ c \in Failing
      BY <2>9 DEF Trip, Places, Failing
    <3>2. opened' \in 0..Never /\ UNCHANGED <<failureCount, read, up>>
      BY <1>0, <2>9 DEF Trip, Never
    <3> QED
      BY <1>1, <1>2, <3>1, <3>2 DEF BreakerTypeOK, RecoveryLasts
  <2>10. CASE Return(c)
    BY <1>1, <1>2, <2>10 DEF Return, Places, BreakerTypeOK, RecoveryLasts
  <2> QED
    BY <1>3, <2>1, <2>2, <2>3, <2>4, <2>5, <2>6, <2>7, <2>8, <2>9, <2>10 DEF Run
<1>4. CASE TimePasses
  BY <1>0, <1>4 DEF TimePasses, Never, BreakerTypeOK, RecoveryLasts, Failing
<1>5. CASE GoesDown \/ ComesUp \/ UNCHANGED breakerVars
  BY <1>5 DEF GoesDown, ComesUp, breakerVars, BreakerTypeOK, RecoveryLasts, Failing
<1> QED
  BY <1>3, <1>4, <1>5 DEF BreakerNext

\* A breaker that was never used (the fields' defaults).
LEMMA BreakerStart == BreakerInit => BreakerTypeOK
BY BreakerAssumption DEF BreakerInit, BreakerTypeOK, Places, Never

\* Late verdicts of slow calls can open the breaker again only as often as there were
\* failing calls when the online model came back; after that it stays closed
\* (record_failure, record_success), for any number of threads.
THEOREM RecoveryIsLasting == BreakerSpec => [][RecoveryLasts]_breakerVars
<1>1. BreakerTypeOK /\ [BreakerNext]_breakerVars => BreakerTypeOK' /\ [RecoveryLasts]_breakerVars
  BY BreakerStep
<1> QED
  BY <1>1, BreakerStart, PTL DEF BreakerSpec

\* A call fails on the breaker's own account (its second look at _opened_at finds None)
\* only where another thread closed the breaker in between (state).
LoneCallNeverRaises == \A c \in Callers : at[c] # "raised"

\* With one thread the breaker fails no call on its own account: the TypeError of a second
\* look at _opened_at takes a race (state).
THEOREM LoneCallsAreServed ==
  ASSUME \A c, d \in Callers : c = d
  PROVE  BreakerSpec => []LoneCallNeverRaises
<1> DEFINE Inv == /\ BreakerTypeOK
                  /\ \A c \in Callers : at[c] # "raised" /\ (at[c] = "looking" => opened # Never)
<1>1. BreakerInit => Inv
  BY BreakerStart DEF BreakerInit
<1>2. Inv /\ [BreakerNext]_breakerVars => Inv'
  <2> SUFFICES ASSUME Inv, [BreakerNext]_breakerVars PROVE Inv'
    OBVIOUS
  <2>0. BreakerTypeOK /\ BreakerTypeOK' /\ ResetTimeout \in Nat
    BY BreakerStep, BreakerAssumption
  <2>1. ASSUME NEW c \in Callers, Run(c)
        PROVE  at'[c] # "raised" /\ (at'[c] = "looking" => opened' # Never)
    BY <2>0, <2>1 DEF Run, Look, Judge, Answered, Refused, Reset, Close, Count, Check, Trip,
                      Return, Goto, Ask, BreakerTypeOK
  <2>2. CASE TimePasses
    BY <2>0, <2>2 DEF TimePasses, Never, BreakerTypeOK
  <2>3. CASE GoesDown \/ ComesUp \/ UNCHANGED breakerVars
    BY <2>0, <2>3 DEF GoesDown, ComesUp, breakerVars
  <2> QED
    BY <2>0, <2>1, <2>2, <2>3 DEF BreakerNext
<1>3. Inv => LoneCallNeverRaises
  BY DEF LoneCallNeverRaises
<1> QED
  BY <1>1, <1>2, <1>3, PTL DEF BreakerSpec

=============================================================================
