----------------------------- MODULE SchemeStore -----------------------------
(***************************************************************************)
(* Workflow schemes that administrators draw (itsm/workflow.py, bpmn.py,   *)
(* itsm_service.py): checked, put to use in the memory of one replica and  *)
(* stored as a BPMN process, which a replica that starts reads over the    *)
(* schemes of the code. Schemes under different keys do not meet, so a     *)
(* behaviour is about one key, and about one scheme or process beside the  *)
(* shipped one, which administrators send as often as they like.           *)
(* A scheme is written as in WorkflowSchemes. Its name and description,    *)
(* the layout of a diagram and who saved it when are left out.             *)
(***************************************************************************)
EXTENDS WorkflowSchemes, Naturals, TLC

CONSTANTS
  Replicas,   (* processes of the platform                                *)
  Savers,     (* request threads                                          *)
  SavedKeys,  (* keys that are saved under                                *)
  Drawn,      (* schemes that the editor sends, sound or not              *)
  Processes   (* BPMN processes sent, of ArcHub or of another tool        *)

VARIABLES
  key,        (* the key this behaviour is about                          *)
  sent,       (* the scheme and the process it is about                   *)
  inUse,      (* what each replica has under the key, or NoScheme         *)
  stored,     (* the process in the table itsm_scheme, or NoProcess       *)
  saving,     (* the save each thread is in the middle of                 *)
  astray      (* history: replicas that a save elsewhere, a deletion, a   *)
              (* failure or an overtaken save of theirs has left behind   *)

schemeVars == <<key, sent, inUse, stored, saving, astray>>

NoScheme == [initial |-> "", open |-> {}, done |-> {}, moves |-> {}]
NoProcess == [tasks |-> {}, first |-> "", start |-> "", flows |-> {}, ends |-> {}]
NotSaving == [at |-> "", scheme |-> NoScheme, overtaken |-> FALSE]

BuiltinKeys == {"incident", "service_request", "change"}
Shipped(k) == IF k \in DOMAIN Schemes THEN Schemes[k] ELSE NoScheme

-----------------------------------------------------------------------------
(* Soundness                                                               *)

Registered == {"assignee_set", "resolution_set", "is_agent", "is_manager", "change_approved"}

\* What no move leads out of. A status that cannot be reached is outside such a
\* set with the initial one in it: that of the statuses that can.
Closed(scheme, within) ==
  \A m \in scheme.moves : (\E s \in within : AppliesFrom(m, s)) => m.to \in within

AllReachable(scheme) ==
  \A within \in SUBSET Statuses(scheme) :
    scheme.initial \in within /\ Closed(scheme, within) => within = Statuses(scheme)

Sound(scheme) ==
  /\ scheme.initial \in Statuses(scheme)
  /\ \A m \in scheme.moves :
       m.to \in Statuses(scheme) /\ m.from \subseteq Statuses(scheme)
                                 /\ m.conditions \subseteq Registered
  /\ AllReachable(scheme)
  /\ scheme.done # {}

-----------------------------------------------------------------------------
(* BPMN. A task has an id and perhaps a category; a flow between tasks     *)
(* perhaps names the move it is drawn for, which ours do. The order of     *)
(* tasks and flows is kept where it matters: which task is the first, and  *)
(* how far down a flow is. In ours it does not: the start event leads to   *)
(* the initial status, and flows that name one move differ in nothing but  *)
(* where they start.                                                       *)

Task(id, category) == [id |-> id, category |-> category]
Flow(at, source, target, move, global, conditions, effects) ==
  [at |-> at, source |-> source, target |-> target, move |-> move,
   global |-> global, conditions |-> conditions, effects |-> effects]

\* resolved_edges: where a move starts; a global one anywhere but at its end.
Origins(scheme, m) ==
  IF m.from = {} THEN Statuses(scheme) \ {m.to} ELSE m.from \cap Statuses(scheme)

Arrows(scheme, m) ==
  {Flow(0, o, m.to, m.id, m.from = {}, m.conditions, m.effects) : o \in Origins(scheme, m)}
AllArrows(scheme) == UNION {Arrows(scheme, m) : m \in scheme.moves}
Deadends(scheme) == scheme.done \ {a.source : a \in AllArrows(scheme)}

\* A plausible mistake: the category of a status is left to its end event.
ToBpmnUncategorised(scheme) ==
  [tasks |-> {Task(s, "") : s \in Statuses(scheme)},
   first |-> scheme.initial, start |-> scheme.initial, flows |-> AllArrows(scheme),
   ends |-> Deadends(scheme)]

ToBpmn(scheme) ==
  [tasks |-> {Task(s, "todo") : s \in scheme.open} \cup {Task(s, "done") : s \in scheme.done},
   first |-> scheme.initial, start |-> scheme.initial, flows |-> AllArrows(scheme),
   ends |-> Deadends(scheme)]

\* A task without a category is done if it leads to an end event; without a
\* start flow the first task is initial; flows that name one move are one,
\* with the target and the conditions of the first. A flow that names none
\* is a move of its own, named by its place.
NameOf(flow) == IF flow.move = "" THEN ToString(flow.at) ELSE flow.move
Topmost(flows) == CHOOSE f \in flows : \A g \in flows : f.at <= g.at
\* A plausible mistake: a global move comes back with every origin drawn.
MergedLocal(name, same) ==
  LET top == Topmost(same)
  IN  Move(name, top.target, {f.source : f \in same}, top.conditions, top.effects)
Merged(name, same) ==
  LET top == Topmost(same)
  IN  Move(name, top.target, IF top.global THEN {} ELSE {f.source : f \in same},
           top.conditions, top.effects)
IsDone(process, task) ==
  task.category = "done" \/ (task.category = "" /\ task.id \in process.ends)

FromBpmn(process) ==
  LET ids == {task.id : task \in process.tasks}
      done == {task.id : task \in {task \in process.tasks : IsDone(process, task)}}
      flows == {f \in process.flows : {f.source, f.target} \subseteq ids}
  IN  [initial |-> IF process.start \in ids THEN process.start ELSE process.first,
       open |-> ids \ done, done |-> done,
       moves |-> {Merged(NameOf(f), {g \in flows : NameOf(g) = NameOf(f)}) : f \in flows}]

-----------------------------------------------------------------------------
\* What schemes are like, sound or not: the code keeps statuses and moves in
\* dictionaries by their ids (a status has one category) and passes over what
\* comes without an id (from_dict).
Formed(scheme) ==
  /\ scheme = [initial |-> scheme.initial, open |-> scheme.open, done |-> scheme.done,
               moves |-> scheme.moves]
  /\ scheme.open \cap scheme.done = {}
  /\ \A m \in scheme.moves : m.id # "" /\ m = Move(m.id, m.to, m.from, m.conditions, m.effects)
  /\ \A m, n \in scheme.moves : m.id = n.id => m = n

\* The shipped schemes pass validate(), too. A flow has always something to be
\* named by.
ASSUME SchemeAssumption ==
  /\ "" \notin Replicas
  /\ \A k \in DOMAIN Schemes : Formed(Schemes[k]) /\ Sound(Schemes[k])
  /\ \A scheme \in Drawn : Formed(scheme)
  /\ \A process \in Processes : \A f \in process.flows : NameOf(f) # ""

Others(r) == Replicas \ {r}

\* register_scheme, once validate() finds nothing.
Use(t, r, scheme) ==
  /\ saving[t] = NotSaving /\ Sound(scheme)
  /\ inUse' = [inUse EXCEPT ![r] = scheme]
  /\ saving' = [u \in Savers |->
       CASE u = t -> [at |-> r, scheme |-> scheme, overtaken |-> FALSE]
         [] saving[u].at = r -> [saving[u] EXCEPT !.overtaken = TRUE]
         [] OTHER -> saving[u]]
  /\ UNCHANGED <<key, sent, stored, astray>>

SaveScheme(t, r) == Use(t, r, sent.scheme)

\* Of a process without a task nothing is made. What this replica exports is
\* sent, too.
ImportBpmn(t, r) ==
  \E process \in {sent.process, ToBpmn(inUse[r])} :
    process.tasks # {} /\ Use(t, r, FromBpmn(process))

Persist(t) ==
  LET r == saving[t].at
  IN  /\ saving[t] # NotSaving
      /\ stored' = ToBpmn(saving[t].scheme)
      /\ saving' = [saving EXCEPT ![t] = NotSaving]
      /\ astray' = IF saving[t].overtaken THEN Replicas ELSE Others(r)
      /\ UNCHANGED <<key, sent, inUse>>

\* The table could not be written: the scheme is in use all the same.
FailToPersist(t) ==
  /\ saving[t] # NotSaving
  /\ saving' = [saving EXCEPT ![t] = NotSaving]
  /\ astray' = astray \cup {saving[t].at}
  /\ UNCHANGED <<key, sent, inUse, stored>>

\* delete_custom_scheme: from the table, not from any memory.
DeleteScheme ==
  /\ key \notin BuiltinKeys
  /\ stored' = NoProcess
  /\ astray' = Replicas
  /\ UNCHANGED <<key, sent, inUse, saving>>

\* What a replica that starts now would use (load_persisted_schemes).
Loaded == IF stored = NoProcess THEN Shipped(key) ELSE FromBpmn(stored)

Restart(r) ==
  /\ inUse' = [inUse EXCEPT ![r] = Loaded]
  /\ saving' = [t \in Savers |-> IF saving[t].at = r THEN NotSaving ELSE saving[t]]
  /\ astray' = astray \ {r}
  /\ UNCHANGED <<key, sent, stored>>

SchemeInit ==
  /\ key \in SavedKeys
  /\ sent \in [scheme : Drawn, process : {NoProcess}] \cup [scheme : {NoScheme}, process : Processes]
  /\ inUse = [r \in Replicas |-> Shipped(key)]
  /\ stored = NoProcess
  /\ saving = [t \in Savers |-> NotSaving]
  /\ astray = {}

SchemeNext ==
  \/ \E t \in Savers, r \in Replicas : SaveScheme(t, r) \/ ImportBpmn(t, r)
  \/ \E t \in Savers : Persist(t) \/ FailToPersist(t)
  \/ \E r \in Replicas : Restart(r)
  \/ DeleteScheme

SchemeSpec == SchemeInit /\ [][SchemeNext]_schemeVars

-----------------------------------------------------------------------------
(* Properties                                                              *)

\* from_bpmn_xml is to rebuild what to_bpmn_xml drew "losslessly"
\* (bpmn.py:7): what a replica uses is what it would find after a restart,
\* unless it was left behind. A move that leads nowhere else has no flow to
\* be drawn as: it is lost.
Drawable(scheme) == [scheme EXCEPT !.moves = {m \in @ : Origins(scheme, m) # {}}]

RestartChangesNothing ==
  \A r \in Replicas :
    (r \notin astray /\ \A t \in Savers : saving[t].at # r)
       => Loaded \in {inUse[r], Drawable(inUse[r])}

\* What a replica uses passes validate(), although a restart puts what it
\* reads to use without asking, and a scheme may go through the store and
\* an export any number of times.
InUseIsSound ==
  \A r \in Replicas : inUse[r] = NoScheme \/ Sound(inUse[r])
=============================================================================
