-------------------------------- MODULE Sagas --------------------------------
(***************************************************************************)
(* One type of saga and its runner (kernel/saga.py) on the synchronous     *)
(* event bus (kernel/events.py). The runner subscribes a handler for the   *)
(* trigger and one for each step; a handler takes EVERY running instance,  *)
(* as it was when the event came, through one step and stores the result.  *)
(*                                                                         *)
(* Events are handled in the thread that publishes them, and the action of *)
(* a step may publish events itself, which are then handled within it: a   *)
(* thread has a stack of handlers. Each step reacts to an event of its     *)
(* own, but which step an event is for makes no difference to the runner,  *)
(* so one event stands for them all. Data apart, an instance is its        *)
(* status, the steps it has taken, and whether the action of one raised.   *)
(* What compensations do is the application's affair: they are left out.   *)
(***************************************************************************)
EXTENDS Naturals, Sequences

CONSTANTS
  SagaIds,      (* the aggregates sagas are about                          *)
  Publishers,   (* threads that publish events                             *)
  StepCount,    (* steps of the definition                                 *)
  MaxDepth,     (* bound: events within events                             *)
  MaxEvents     (* bound: events published                                 *)

ASSUME SagaAssumption ==
  StepCount \in Nat \ {0} /\ MaxDepth \in Nat \ {0} /\ MaxEvents \in Nat

VARIABLES
  active,       (* _active: the instance of each saga id                   *)
  stack,        (* of each thread: instances its handlers have yet to take *)
  earned,       (* step events published since the last trigger            *)
  crossed,      (* ids triggered while a handler held an older instance    *)
  events        (* events published: history, as are the two above         *)

sagaVars == <<active, stack, earned, crossed, events>>

NoSaga == [status |-> "none", step |-> 0, failed |-> FALSE]
Started == [status |-> "running", step |-> 0, failed |-> FALSE]

Held(s) ==
  \E t \in Publishers : \E i \in DOMAIN stack[t] : \E m \in stack[t][i] : m.id = s

\* A thread publishes outside of any handler, or in the action of a step.
Event(t) ==
  /\ events < MaxEvents /\ Len(stack[t]) < MaxDepth
  /\ events' = events + 1

StartContinuing(s) ==
  active' = [active EXCEPT ![s] = [Started EXCEPT !.step = active[s].step % StepCount]]
Start(s) == active' = [active EXCEPT ![s] = Started]

Trigger(t, s) ==
  /\ Event(t)
  /\ Start(s)
  /\ earned' = [earned EXCEPT ![s] = 0]
  /\ crossed' = IF Held(s) THEN crossed \cup {s} ELSE crossed
  /\ UNCHANGED stack

Running == {[id |-> s, context |-> active[s]] : s \in {r \in SagaIds : active[r].status = "running"}}

StepEvent(t) ==
  /\ Event(t)
  /\ Running # {}
  /\ stack' = [stack EXCEPT ![t] = <<Running>> \o @]
  /\ earned' = [s \in SagaIds |-> earned[s] + 1]
  /\ UNCHANGED <<active, crossed>>

\* advance makes an instance running again, also one that fail has marked.
Advanced(context, raised) ==
  LET step == context.step + 1
  IN  [status |-> IF step >= StepCount THEN "completed" ELSE "running",
       step |-> step,
       failed |-> context.failed \/ raised]

\* The action of a step returns or raises, and its instance is stored.
TakeStep(t) ==
  /\ stack[t] # <<>>
  /\ \E m \in Head(stack[t]), raised \in BOOLEAN :
       LET rest == Head(stack[t]) \ {m}
       IN  /\ active' = [active EXCEPT ![m.id] = Advanced(m.context, raised)]
           /\ stack' = [stack EXCEPT ![t] = IF rest = {} THEN Tail(@) ELSE <<rest>> \o Tail(@)]
  /\ UNCHANGED <<earned, crossed, events>>

SagaInit ==
  /\ active = [s \in SagaIds |-> NoSaga]
  /\ stack = [t \in Publishers |-> <<>>]
  /\ earned = [s \in SagaIds |-> 0]
  /\ crossed = {}
  /\ events = 0

SagaNext ==
  \E t \in Publishers : (\E s \in SagaIds : Trigger(t, s)) \/ StepEvent(t) \/ TakeStep(t)

SagaSpec == SagaInit /\ [][SagaNext]_sagaVars

-----------------------------------------------------------------------------
\* "Subsequent steps advance as their reacts_to events arrive" (kernel/saga.py):
\* however handlers nest and threads overwrite each other's results, an instance
\* is never further than events have come since it was triggered, unless the
\* trigger came while a handler still held the instance before it.
ProgressIsEarned ==
  \A s \in SagaIds \ crossed : active[s].step <= earned[s]

=============================================================================
