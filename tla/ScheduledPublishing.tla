------------------------ MODULE ScheduledPublishing -------------------------
(***************************************************************************)
(* apply_due_workflows (services/cms.py) beside the operations of          *)
(* ContentNodes. A pass reads the workflow report in one transaction, then *)
(* walks the items of that report; each item is published, unpublished and *)
(* written back in up to three further transactions, between which every   *)
(* other thread may run.                                                   *)
(***************************************************************************)
EXTENDS ContentNodes

CONSTANT
  Passes,   (* callers of apply_due_workflows: the background job, a cron
               job, the apply-due route                                     *)
  ReportLimit, (* rows a report holds: 1000 in apply_due_workflows          *)
  System    (* the actor they publish as                                    *)

ASSUME PassAssumption ==
  /\ System \in Actors
  /\ ReportLimit \in Nat \ {0}

VARIABLES
  report,   (* of each pass: the due items it has yet to handle             *)
  item      (* of each pass: the item in hand, or NoItem                    *)

passVars == <<report, item>>
schedVars == <<vars, passVars>>

\* One row of the report. todo is what is left of publish, unpublish, save.
NoItem == [todo |-> <<>>]

IsDue(at) == at # Never /\ at <= now

ItemOf(n) ==
  [node |-> n, state |-> workflows[n].state,
   publishAt |-> workflows[n].publishAt, unpublishAt |-> workflows[n].unpublishAt,
   todo |-> (IF IsDue(workflows[n].publishAt) THEN <<"publish">> ELSE <<>>) \o
            (IF IsDue(workflows[n].unpublishAt) THEN <<"unpublish">> ELSE <<>>) \o
            <<"save">>]

DueNodes == {n \in NodeIds : /\ Exists(n)
                             /\ \/ IsDue(workflows[n].publishAt)
                                \/ IsDue(workflows[n].unpublishAt)}

SchedInit ==
  /\ Init
  /\ report = [p \in Passes |-> {}]
  /\ item = [p \in Passes |-> NoItem]

\* ORDER BY publication date, those without one last, then updated_at DESC.
Precedes(m, n) ==
  LET v == workflows[m]  w == workflows[n]
  IN  \/ v.publishAt # Never /\ (w.publishAt = Never \/ v.publishAt < w.publishAt)
      \/ v.publishAt = w.publishAt /\ v.at > w.at

HasRow(n) == Exists(n) /\ workflows[n].state # None

\* LIMIT: what a report may hold, rows of the same rank in either order.
Reports ==
  {R \in SUBSET {n \in NodeIds : HasRow(n)} :
     /\ Cardinality(R) <= ReportLimit
     /\ \A n \in NodeIds \ R : HasRow(n) =>
          /\ Cardinality(R) = ReportLimit
          /\ \A m \in R : ~Precedes(n, m)}

ReadReportPublishOnly(p) ==
  LET due == {n \in NodeIds : Exists(n) /\ IsDue(workflows[n].publishAt)}
  IN  /\ report[p] = {} /\ item[p] = NoItem
      /\ due # {}
      /\ report' = [report EXCEPT ![p] = {ItemOf(n) : n \in due}]
      /\ UNCHANGED <<vars, item>>
\* workflow_report: the items that are not due are skipped later, so not kept;
\* a pass that finds none due changes nothing.
ReadReport(p) ==
  /\ report[p] = {} /\ item[p] = NoItem
  /\ \E R \in Reports :
       /\ R \cap DueNodes # {}
       /\ report' = [report EXCEPT ![p] = {ItemOf(n) : n \in R \cap DueNodes}]
  /\ UNCHANGED <<vars, item>>

TakeItem(p) ==
  /\ item[p] = NoItem
  /\ \E i \in report[p] :
       /\ item' = [item EXCEPT ![p] = i]
       /\ report' = [report EXCEPT ![p] = @ \ {i}]
  /\ UNCHANGED vars

\* The step in hand succeeded: the local variables take its outcome.
Advance(p, with) ==
  /\ item' = [item EXCEPT ![p] = with]
  /\ UNCHANGED report

ApplyPublish(p) ==
  LET i == item[p]
  IN  /\ i # NoItem /\ Head(i.todo) = "publish"
      /\ Publish(i.node, System)
      /\ Advance(p, [i EXCEPT !.todo = Tail(@), !.state = "published", !.publishAt = Never])

ApplyUnpublish(p) ==
  LET i == item[p]
  IN  /\ i # NoItem /\ Head(i.todo) = "unpublish"
      /\ Unpublish(i.node, System)
      /\ Advance(p, [i EXCEPT !.todo = Tail(@), !.state = "unpublished", !.unpublishAt = Never])

\* The row is written back from the report, over whatever it holds by now.
WriteBack(p) ==
  LET i == item[p]
  IN  /\ i # NoItem /\ Head(i.todo) = "save"
      /\ UpsertWorkflow(i.node, i.state, i.publishAt, i.unpublishAt)
      /\ Advance(p, NoItem)

\* The step in hand raised: the item is recorded as an error and left.
GiveUp(p) ==
  LET i == item[p]
  IN  /\ i # NoItem
      /\ \/ ~Exists(i.node)
         \/ Head(i.todo) \in {"publish", "unpublish"} /\ ~MayWrite(i.node, System)
         \/ Head(i.todo) = "publish" /\ nodes[i.node].draft \notin Publishable
         \/ Head(i.todo) = "unpublish" /\ i.node = Root
      /\ Advance(p, NoItem)
      /\ UNCHANGED vars

PassStep(p) ==
  ReadReport(p) \/ TakeItem(p) \/ ApplyPublish(p) \/ ApplyUnpublish(p)
  \/ WriteBack(p) \/ GiveUp(p)

SchedNext ==
  \/ Next /\ UNCHANGED passVars
  \/ \E p \in Passes : PassStep(p)

\* The background loop comes round every interval and survives a failed pass
\* (services/jobs.py), and the clock runs; nobody else owes a step.
SchedFairness ==
  /\ WF_vars(Tick)
  /\ \A p \in Passes : WF_schedVars(PassStep(p))

SchedSpec == SchedInit /\ [][SchedNext]_schedVars

-----------------------------------------------------------------------------
\* "Applies due scheduled publish/unpublish transitions" (publishing-workflow
\* .md): a date that has come does not stay on a node for ever, whatever locks
\* editors take in between; unless the node cannot be published or, being the
\* root, not be unpublished: such an item fails again on every pass.
DueIsApplied ==
  \A n \in NodeIds :
    (n \in DueNodes) ~> (n \notin DueNodes \/ nodes[n].draft \notin Publishable \/ n = Root)
=============================================================================
