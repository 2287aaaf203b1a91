------------------------------ MODULE MCEditing ------------------------------
(* Editors of one page besides the root. A behaviour is about the history of  *)
(* the page (a short one, in which saves, publications, rollbacks, deletions  *)
(* and prunings come in every order), about edit locks, or about requests to  *)
(* the transition route, which neither locks nor dates concern. States that   *)
(* differ only in what does not matter to a part are identified (EditingView):*)
(* to locks, of a history only the payloads it can bring back matter.         *)
EXTENDS EditLocks, WorkflowTransitions, TLC

CONSTANTS
  Targets,      (* the states requests ask for                               *)
  LastVersion   (* bound: version numbers, where the history matters         *)

VARIABLE part   (* what this behaviour is about                              *)

MCInit ==
  /\ EditInit /\ RequestInit
  /\ part \in {"history", "locks", "requests"}
  /\ part # "history" => nodes[Root].draft \in Publishable

\* What editors do to the page; where no lock is taken they are all alike.
PageStep(n) ==
  LET ed == CHOOSE a \in Actors : TRUE
  IN  \/ \E d \in Payloads, s \in Slugs : Create(n, Root, s, d) \/ Update(n, s, d, ed)
      \/ Publish(n, ed) \/ Unpublish(n, ed) \/ Delete(n, ed)
      \/ RestoreTrashed(n)
      \/ Purge(n)

HistoryNext ==
  /\ \/ \E n \in NodeIds \ {Root} : PageStep(n)
     \/ HistoryStep
     \/ Tick
  /\ now' <= 1
  /\ \A n \in NodeIds : LastNo(versions'[n]) <= LastVersion

\* The steps on the root, whose row no other row depends on, are left out.
RequestsNext ==
  /\ \/ \E r \in Requests : RequestStep(r)
     \/ \E n \in NodeIds \ {Root} : PageStep(n) /\ UNCHANGED request /\ NoteReviews
  /\ \A n \in NodeIds : nodes'[n].draft \in {None, nodes[Root].draft}
  /\ \A r \in Requests : request'[r] # NoRequest =>
       request'[r].node # Root /\ request'[r].to \in Targets

MCNext ==
  /\ \/ part = "history" /\ HistoryNext /\ UNCHANGED <<onScreen, request, reviewed>>
     \/ part = "locks" /\ EditNext /\ UNCHANGED <<request, reviewed>>
     \/ part = "requests" /\ RequestsNext /\ UNCHANGED onScreen
  /\ UNCHANGED part
MCSpec == MCInit /\ [][MCNext]_<<vars, onScreen, request, reviewed, part>>

EditingView ==
  CASE part = "history"  -> <<part, nodes, versions, now>>
    [] part = "locks"    -> <<part, nodes, [n \in NodeIds |-> {v.payload : v \in versions[n]}],
                              locks, now, onScreen>>
    [] part = "requests" -> <<part, nodes, workflows, request, reviewed>>

EditingSymmetry == Permutations(Actors) \cup Permutations(Requests)
=============================================================================
