---------------------- MODULE MCScheduledPublishing -----------------------
(* What runs unattended beside the editors, one thing per behaviour.         *)
(* Passes: ScheduledPublishing with one page, whose editors take a bounded   *)
(* number of steps: each of their steps, and each step of a pass an entry in *)
(* the row causes, draws at most one version, so MaxVersion never stops      *)
(* anyone. No lock outlasts the bounded clock.                               *)
(* Seeding: two seedings of two files, and starts of the process, beside as  *)
(* many steps of editors, who make other payloads of the pages there are.    *)
EXTENDS ScheduledPublishing, Seeding, TLC

CONSTANTS
  Budget,   (* bound: steps of the editors             *)
  SeedBudget  (* bound: those beside a seeding          *)

VARIABLES spent, part

mcVars == <<schedVars, seedVars, spent, part>>

Page == CHOOSE n \in NodeIds : n # Root
Slug == CHOOSE s \in Slugs : TRUE
MCFiles == <<CHOOSE p \in Payloads : p \in Publishable,
             CHOOSE p \in Payloads : p \notin Publishable>>
MCSourceOf == [p \in Payloads |-> IF p \in Publishable THEN "guide" ELSE "notes"]

Editors == Actors \ {System}

PageSteps(n, slugs) ==
  \/ \E s \in slugs, d \in Payloads, a \in Editors : Update(n, s, d, a)
  \/ \E a \in Editors : Publish(n, a) \/ Unpublish(n, a) \/ Delete(n, a)
  \/ RestoreTrashed(n)
  \/ Purge(n)
  \/ \E a \in Editors, ttl \in Ttls : now + ttl <= MaxTime /\ AcquireLock(n, a, ttl, FALSE)

Spend(budget) == spent < budget /\ spent' = spent + 1

MCInit ==
  /\ SchedInit /\ SeedInit /\ spent = 0
  /\ part \in {"passes", "seeding"}
  /\ part = "seeding" => nodes[Root].draft \in Publishable

PassesNext ==
  \/ /\ Spend(Budget)
     /\ \/ \E d \in Payloads : Create(Page, Root, Slug, d)
        \/ PageSteps(Page, {Slug})
        \/ \E pa, ua \in 0..MaxTime : UpsertWorkflow(Page, "scheduled", pa, ua)
     /\ UNCHANGED passVars
  \/ Tick /\ UNCHANGED <<passVars, spent>>
  \/ \E p \in Passes : PassStep(p) /\ UNCHANGED spent

\* A page keeps its slug, and the first page there is room for is created.
InOrder == \A n \in NodeIds : Fresh(n) /\ ~Fresh(n)' => n = CHOOSE m \in NodeIds : Fresh(m)
SeedingNext ==
  /\ \/ SeederStep /\ UNCHANGED spent
     \/ (Boot \/ NarrowType) /\ Spend(SeedBudget)
     \/ /\ Spend(SeedBudget)
        /\ \E n \in NodeIds \ {Root} : PageSteps(n, {nodes[n].slug}) /\ UNCHANGED locks
        /\ UNCHANGED <<types, walks>>
  /\ Contend
  /\ InOrder

MCNext ==
  /\ \/ part = "passes" /\ PassesNext /\ UNCHANGED seedVars
     \/ part = "seeding" /\ SeedingNext /\ UNCHANGED passVars
  /\ UNCHANGED part

MCSpec == MCInit /\ [][MCNext]_mcVars
MCFairSpec ==
  /\ MCSpec
  /\ part = "passes" => SchedFairness
=============================================================================
