------------------------------ MODULE Webhooks ------------------------------
(***************************************************************************)
(* Webhook subscriptions and their delivery log in services/cms.py.        *)
(*                                                                         *)
(* Every recorded activity appends one row per subscribed active hook.  A  *)
(* dispatch pass (maintenance loop, cron job or route) reads the due rows, *)
(* posts them one after the other, updates each row, and commits ONCE, at  *)
(* the end: until then its updates are its own and the database is locked  *)
(* for other writers from the first of them on.  A pass that is lost, by a *)
(* crash or by a database that stays locked, forgets all it recorded but   *)
(* has posted.  Editors and dispatchers may be different processes, so     *)
(* hooks and rows change while a pass waits for its first answer.          *)
(*                                                                         *)
(* Time is in minutes.  posts, answered and losses are history.  Payload,  *)
(* headers, signature, time-outs and the log's own columns for the reader  *)
(* (last_error, created_at, updated_at, delivered_at) are left out.        *)
(* Operators defined just before another one, and used nowhere, are faulty *)
(* variants of it, to test that the properties can tell.                   *)
(***************************************************************************)
EXTENDS Naturals, Sequences, FiniteSets

CONSTANTS
  Hooks,           \* webhook ids
  Dispatchers,     \* processes that run dispatch passes
  Activities,      \* activity actions, the event types of deliveries
  Upserted,        \* the one upsert_webhook records: "webhook.upserted"
  AttemptLimits,   \* values max_attempts may be given
  DispatchLimit,   \* rows a pass reads at most
  MaxDeliveries,   \* bound: rows in the log
  MaxLosses        \* bound: passes lost

ASSUME HooksAssumption == IsFiniteSet(Hooks) /\ Upserted \in Activities
ASSUME LimitsAssumption == AttemptLimits \subseteq 1 .. 25
ASSUME BoundsAssumption ==
  DispatchLimit \in Nat \ {0} /\ MaxDeliveries \in Nat /\ MaxLosses \in Nat

VARIABLES
  hooks,       \* archub_webhooks
  deliveries,  \* archub_webhook_deliveries, by delivery_id
  passes,      \* what each dispatcher holds in memory and has not committed
  now,
  posts,       \* POSTs made for each delivery
  answered,    \* deliveries a receiver has answered with 2xx
  losses       \* passes lost so far

hookVars == <<hooks, deliveries, passes, now, posts, answered, losses>>
history == <<posts, answered, losses>>

DeliveryIds == 1 .. MaxDeliveries
OpenStatuses == {"pending", "retry"}
DeliveryStatuses == OpenStatuses \cup {"delivered", "failed"}

HookRows == [active : BOOLEAN, events : SUBSET Activities, maxAttempts : AttemptLimits]
\* _normalize_webhook_events makes no event at all "*", every event.
SavedRows == {r \in HookRows : r.events # {}}
\* What a pass may write to a row; the hook and the event never change.
Outcomes == [status : DeliveryStatuses, attempts : Nat, next : Nat]

Unwritten == [status |-> "unwritten", attempts |-> 0, next |-> 0]
Idle == [step |-> "idle", rows |-> {}, at |-> 0, ok |-> FALSE,
         written |-> [i \in DeliveryIds |-> Unwritten]]

\* From its first UPDATE to its end a pass keeps every other writer out.
Writing(d) == \E i \in DeliveryIds : passes[d].written[i] # Unwritten
DatabaseFreeFor(D) == \A d \in Dispatchers \ D : ~Writing(d)

-----------------------------------------------------------------------------
\* Subscriptions and activity

Matches(h, activity) == h.active /\ activity \in h.events

\* The rows an activity appends, in no order the code fixes.
Enqueued(hs, activity) ==
  LET subscribed == {h \in Hooks : Matches(hs[h], activity)}
  IN  {[k \in DOMAIN order |->
          [hook |-> order[k], status |-> "pending", attempts |-> 0, next |-> now]] :
       order \in {o \in [1 .. Cardinality(subscribed) -> subscribed] :
                    \A h \in subscribed : \E k \in DOMAIN o : o[k] = h}}

RecordActivity(hs, activity) ==
  \E rows \in Enqueued(hs, activity) :
    /\ Len(deliveries) + Len(rows) <= MaxDeliveries
    /\ deliveries' = deliveries \o rows

\* Any operation of the service that ends in _record_activity.
Activity(activity) ==
  /\ DatabaseFreeFor({})
  /\ RecordActivity(hooks, activity)
  /\ UNCHANGED <<hooks, passes, now, history>>

\* The hook hears of its own change: the activity follows the new row.
Upsert(h, row) ==
  /\ DatabaseFreeFor({})
  /\ hooks' = [hooks EXCEPT ![h] = row]
  /\ RecordActivity(hooks', Upserted)
  /\ UNCHANGED <<passes, now, history>>

-----------------------------------------------------------------------------
\* A dispatch pass

Open(i) == deliveries[i].status \in OpenStatuses

DueEarlier(i) ==
  LET d == deliveries[i]  h == hooks[d.hook]
  IN  h.active /\ Open(i) /\ d.next < now /\ d.attempts < h.maxAttempts
DueOnceMore(i) ==
  LET d == deliveries[i]  h == hooks[d.hook]
  IN  h.active /\ d.status # "failed" /\ d.next <= now /\ d.attempts < h.maxAttempts
Due(i) ==
  LET d == deliveries[i]  h == hooks[d.hook]
  IN  h.active /\ Open(i) /\ d.next <= now /\ d.attempts < h.maxAttempts

Precedes(q, r) == q.next < r.next \/ (q.next = r.next /\ q.id < r.id)

RowOf(i) ==
  [id |-> i, next |-> deliveries[i].next, attempts |-> deliveries[i].attempts,
   maxAttempts |-> hooks[deliveries[i].hook].maxAttempts]

\* The SELECT: the first due rows, with the limits their hooks have by now.
Select(d) ==
  LET due == {RowOf(i) : i \in {j \in DOMAIN deliveries : Due(j)}}
  IN  /\ passes[d].step = "idle"
      /\ \E R \in SUBSET due :
           /\ R # {}
           /\ Cardinality(R) <= DispatchLimit
           /\ R # due => Cardinality(R) = DispatchLimit
           /\ \A r \in R, q \in due \ R : Precedes(r, q)
           /\ passes' = [passes EXCEPT
                ![d] = [Idle EXCEPT !.step = "post", !.rows = R, !.at = now]]
      /\ UNCHANGED <<hooks, deliveries, now, history>>

IsFirst(r, rows) == \A q \in rows \ {r} : Precedes(r, q)

\* The POST, with a 2xx answer or with another one, an error or a time-out.
Post(d) ==
  /\ passes[d].step = "post"
  /\ \E r \in passes[d].rows, ok \in BOOLEAN :
       /\ IsFirst(r, passes[d].rows)
       /\ passes' = [passes EXCEPT ![d].step = "record", ![d].ok = ok]
       /\ posts' = [posts EXCEPT ![r.id] = @ + 1]
       /\ answered' = IF ok THEN answered \cup {r.id} ELSE answered
  /\ UNCHANGED <<hooks, deliveries, now, losses>>

\* 60 * 2 ^ (attempts - 1) seconds, at most an hour.
Backoff(attempts) == IF attempts > 6 THEN 60 ELSE <<1, 2, 4, 8, 16, 32>>[attempts]

OutcomeUncounted(r, ok, at) ==
  IF ok THEN [status |-> "delivered", attempts |-> r.attempts + 1, next |-> r.next]
  ELSE IF r.attempts + 1 >= r.maxAttempts
  THEN [status |-> "failed", attempts |-> r.attempts + 1, next |-> at]
  ELSE [status |-> "retry", attempts |-> r.attempts, next |-> at + Backoff(r.attempts + 1)]
OutcomeAnyAnswer(r, ok, at) ==
  [status |-> "delivered", attempts |-> r.attempts + 1, next |-> r.next]
Outcome(r, ok, at) ==
  LET attempts == r.attempts + 1
  IN  IF ok THEN [status |-> "delivered", attempts |-> attempts, next |-> r.next]
      ELSE IF attempts >= r.maxAttempts
      THEN [status |-> "failed", attempts |-> attempts, next |-> at]
      ELSE [status |-> "retry", attempts |-> attempts, next |-> at + Backoff(attempts)]

\* The UPDATE of the row just posted, not yet committed.
Record(d) ==
  LET p == passes[d]
  IN  /\ p.step = "record"
      /\ DatabaseFreeFor({d})
      /\ \E r \in p.rows :
           /\ IsFirst(r, p.rows)
           /\ passes' = [passes EXCEPT ![d] =
                [p EXCEPT !.step = "post", !.rows = p.rows \ {r},
                          !.written[r.id] = Outcome(r, p.ok, p.at)]]
      /\ UNCHANGED <<hooks, deliveries, now, history>>

Commit(d) ==
  LET written == passes[d].written
  IN  /\ passes[d].step = "post" /\ passes[d].rows = {}
      /\ deliveries' = [i \in DOMAIN deliveries |->
           IF written[i] = Unwritten THEN deliveries[i]
           ELSE [hook |-> deliveries[i].hook, status |-> written[i].status,
                 attempts |-> written[i].attempts, next |-> written[i].next]]
      /\ passes' = [passes EXCEPT ![d] = Idle]
      /\ UNCHANGED <<hooks, now, history>>

\* The process stops, or the database stays locked past SQLite's patience.
Lose(d) ==
  /\ passes[d].step # "idle"
  /\ losses < MaxLosses
  /\ losses' = losses + 1
  /\ passes' = [passes EXCEPT ![d] = Idle]
  /\ UNCHANGED <<hooks, deliveries, now, posts, answered>>

PassStep(d) == Select(d) \/ Post(d) \/ Record(d) \/ Commit(d)

-----------------------------------------------------------------------------
\* A minute passes; the clock is kept only as long as a row waits for it.
Tick ==
  /\ \E i \in DOMAIN deliveries : Open(i) /\ deliveries[i].next > now
  /\ now' = now + 1
  /\ UNCHANGED <<hooks, deliveries, passes, history>>

\* A hook not saved yet is one that is not active and has no row in the log.
HooksInit ==
  /\ hooks \in [Hooks -> {r \in HookRows : ~r.active /\ r.events = {}}]
  /\ deliveries = <<>>
  /\ passes = [d \in Dispatchers |-> Idle]
  /\ now = 0
  /\ posts = [i \in DeliveryIds |-> 0]
  /\ answered = {}
  /\ losses = 0

HooksNext ==
  \/ \E a \in Activities \ {Upserted} : Activity(a)
  \/ \E h \in Hooks, row \in SavedRows : Upsert(h, row)
  \/ \E d \in Dispatchers : PassStep(d) \/ Lose(d)
  \/ Tick

\* The maintenance loop comes round and survives a failed pass; a receiver
\* answers or the request times out; the clock runs.
HooksFairness ==
  /\ \A d \in Dispatchers : WF_hookVars(PassStep(d))
  /\ WF_hookVars(Tick)

HooksSpec == HooksInit /\ [][HooksNext]_hookVars

-----------------------------------------------------------------------------
\* A delivery is marked delivered only if a receiver has answered it with 2xx,
\* whatever is lost, overwritten or posted again (dispatch_webhook_deliveries).
DeliveredWasAnswered ==
  \A i \in DOMAIN deliveries : deliveries[i].status = "delivered" => i \in answered

\* The log tells how often a receiver was called: attempts is never more than
\* the POSTs made, and less only by those of lost passes, one each, and by the
\* one the running pass has not committed (one dispatcher).
AttemptsAccountForPosts ==
  \A i \in DOMAIN deliveries :
    /\ deliveries[i].attempts <= posts[i]
    /\ posts[i] <= deliveries[i].attempts + losses
                     + Cardinality({d \in Dispatchers : passes[d].step # "idle"})

\* Delivered and failed are final, and the count of attempts never goes back
\* (one dispatcher; docs/deployment/scenarios.md: "keep one writer").
SettledIsFinal ==
  [][\A i \in DOMAIN deliveries :
       /\ ~Open(i) => deliveries'[i] = deliveries[i]
       /\ deliveries[i].attempts <= deliveries'[i].attempts]_hookVars

\* A row that dispatch owes a POST: its hook is active and has attempts left.
Owed(i) ==
  /\ i \in DOMAIN deliveries
  /\ Open(i)
  /\ hooks[deliveries[i].hook].active
  /\ deliveries[i].attempts < hooks[deliveries[i].hook].maxAttempts

\* No delivery is owed for ever: if its hook stays active with attempts left,
\* it is delivered or given up, however the LIMIT and the backoff order rows.
OwedIsSettled == \A i \in DeliveryIds : []<>~Owed(i)

Announced == INSTANCE Announcements WITH
  Messages <- DeliveryIds,
  heard <- answered,
  verdict <- [i \in DeliveryIds |->
    IF i \notin DOMAIN deliveries THEN "unsent"
    ELSE IF Open(i) THEN "open" ELSE deliveries[i].status]

\* With one dispatcher the log is what Announcements describes: receivers hear
\* of open deliveries only, however often; verdicts are passed once, in groups,
\* and "delivered" is one of them only for deliveries a receiver has answered.
LogKeepsPromise == Announced!Spec

\* "Failed attempts move to retry with exponential backoff, then to failed after
\* the subscription's max_attempts" (docs/architecture/webhook-integrations.md):
\* a delivery of an active hook does not stay open for ever.
OpenIsSettled ==
  \A i \in DeliveryIds :
    []<>~(i \in DOMAIN deliveries /\ Open(i) /\ hooks[deliveries[i].hook].active)
=============================================================================
