-------------------------------- MODULE Cmdb --------------------------------
(***************************************************************************)
(* The configuration items of the service desk, the relationships between  *)
(* them and the analysis of what a failure reaches (itsm/cmdb.py), over    *)
(* two collections of the document store (itsm_document_repository.py).    *)
(*                                                                         *)
(* Every operation of a collection is a transaction of its own, and an     *)
(* operation of the CMDB is several of them: relating two items reads one, *)
(* reads the other and writes the edge, removing an item lists the edges,  *)
(* removes those that touch it one by one and then the item. A failure     *)
(* may end any of these between two steps.                                 *)
(* Fields of an item but its id are left out. Of the six types of a        *)
(* relationship two stand for all: one carries failure, one does not.      *)
(***************************************************************************)
EXTENDS Naturals, FiniteSets, SequencesExt

CONSTANTS
  Items,      (* ids of configuration items                               *)
  Clerks,     (* request threads                                          *)
  MaxEdges    (* bound: relationships ever made                           *)
ASSUME EstateAssumption == IsFiniteSet(Items)

VARIABLES
  items,      (* ids in the collection of items                           *)
  edges,      (* the collection of relationships; met is history: the     *)
              (* ends that were being removed while the edge was made     *)
  related,    (* relationships made so far                                *)
  work        (* what each thread is in the middle of                     *)

cmdbVars == <<items, edges, related, work>>

Types == {"depends_on", "connected_to"}
Rest == [op |-> "none", item |-> "", other |-> "", left |-> {}, met |-> {}]
Ends(e) == {e.source, e.target}

\* History: who is being removed, and which calls of relate it meets.
BeingRemoved == {work[c].item : c \in {c \in Clerks : work[c].op = "remove"}}
Meets(item, w) == w.op \in {"check", "join"} /\ item \in {w.item, w.other}

-----------------------------------------------------------------------------
AddItem(i) ==
  /\ items' = items \cup {i}
  /\ UNCHANGED <<edges, related, work>>

\* update_item: the item read is written back, there or not.
ReadForUpdate(c, i) ==
  /\ work[c] = Rest /\ i \in items
  /\ work' = [work EXCEPT ![c] = [Rest EXCEPT !.op = "update", !.item = i]]
  /\ UNCHANGED <<items, edges, related>>

WriteUpdate(c) ==
  /\ work[c].op = "update"
  /\ items' = items \cup {work[c].item}
  /\ work' = [work EXCEPT ![c] = Rest]
  /\ UNCHANGED <<edges, related>>

\* A plausible mistake: only the edges that lead out of the item are listed.
ListEdgesOut(c, i) ==
  /\ work[c] = Rest
  /\ work' = [d \in Clerks |->
       CASE d = c -> [Rest EXCEPT !.op = "remove", !.item = i,
                                  !.left = {e \in edges : i = e.source}]
         [] Meets(i, work[d]) -> [work[d] EXCEPT !.met = @ \cup {i}]
         [] OTHER -> work[d]]
  /\ UNCHANGED <<items, edges, related>>

\* delete_item: the list of edges, which need not be for an item that exists.
ListEdges(c, i) ==
  /\ work[c] = Rest
  /\ work' = [d \in Clerks |->
       CASE d = c -> [Rest EXCEPT !.op = "remove", !.item = i,
                                  !.left = {e \in edges : i \in Ends(e)}]
         [] Meets(i, work[d]) -> [work[d] EXCEPT !.met = @ \cup {i}]
         [] OTHER -> work[d]]
  /\ UNCHANGED <<items, edges, related>>

DropEdge(c) ==
  /\ work[c].op = "remove"
  /\ \E e \in work[c].left :
       /\ edges' = edges \ {e}
       /\ work' = [work EXCEPT ![c].left = @ \ {e}]
  /\ UNCHANGED <<items, related>>

DropItem(c) ==
  /\ work[c].op = "remove" /\ work[c].left = {}
  /\ items' = items \ {work[c].item}
  /\ work' = [work EXCEPT ![c] = Rest]
  /\ UNCHANGED <<edges, related>>

\* relate: two reads and a write; an item is not related to itself.
FindSource(c, s, t) ==
  /\ work[c] = Rest /\ s # t /\ s \in items
  /\ work' = [work EXCEPT ![c] = [Rest EXCEPT
       !.op = "check", !.item = s, !.other = t,
       !.met = {s, t} \cap BeingRemoved]]
  /\ UNCHANGED <<items, edges, related>>

FindTarget(c) ==
  /\ work[c].op = "check"
  /\ work' = [work EXCEPT ![c] =
       IF work[c].other \in items THEN [@ EXCEPT !.op = "join"] ELSE Rest]
  /\ UNCHANGED <<items, edges, related>>

Join(c, type) ==
  LET w == work[c]
  IN  /\ w.op = "join" /\ related < MaxEdges
      /\ related' = related + 1
      /\ edges' = edges \cup
           {[id |-> related + 1, source |-> w.item, target |-> w.other,
             type |-> type, met |-> w.met]}
      /\ work' = [work EXCEPT ![c] = Rest]
      /\ UNCHANGED items

Unrelate(e) ==
  /\ edges' = edges \ {e}
  /\ UNCHANGED <<items, related, work>>

\* An error, or the end of the process, between two steps.
BreakOff(c) ==
  /\ work[c] # Rest
  /\ work' = [work EXCEPT ![c] = Rest]
  /\ UNCHANGED <<items, edges, related>>

CmdbInit ==
  /\ items = {} /\ edges = {} /\ related = 0
  /\ work = [c \in Clerks |-> Rest]

ClerkStep(c) ==
  \/ \E i \in Items : ReadForUpdate(c, i) \/ ListEdges(c, i)
  \/ \E s, t \in Items : FindSource(c, s, t)
  \/ \E type \in Types : Join(c, type)
  \/ WriteUpdate(c) \/ DropEdge(c) \/ DropItem(c)
  \/ FindTarget(c) \/ BreakOff(c)

CmdbNext ==
  \/ \E i \in Items : AddItem(i)
  \/ \E e \in edges : Unrelate(e)
  \/ \E c \in Clerks : ClerkStep(c)

CmdbSpec == CmdbInit /\ [][CmdbNext]_cmdbVars

-----------------------------------------------------------------------------
(* Impact: breadth first from the item, along the edges that carry failure *)
(* (_DEPENDENCY_TYPES), seen ones passed over. The order of the answer is  *)
(* left out.                                                               *)

Carriers == {e \in edges : e.type = "depends_on"}
Dependents == {<<e.target, e.source>> : e \in Carriers}
Dependencies == {<<e.source, e.target>> : e \in Carriers}

\* A plausible mistake: what was reached is not looked at in its turn.
TurnOneDeep(loop, adjacency) ==
  LET new == {a[2] : a \in {a \in adjacency : a[1] = Head(loop.queue)}} \ loop.visited
  IN  [queue |-> Tail(loop.queue), visited |-> loop.visited \cup new]

\* What an item leads to and was not seen goes to the end of the queue.
Turn(loop, adjacency) ==
  LET new == {a[2] : a \in {a \in adjacency : a[1] = Head(loop.queue)}} \ loop.visited
  IN  [queue |-> Tail(loop.queue) \o SetToSeq(new), visited |-> loop.visited \cup new]

\* An item comes to the front once, so no more turns are taken than there are items.
Traverse(start, adjacency) ==
  LET loop[k \in 0..Cardinality(Items)] ==
        IF k = 0 THEN [queue |-> <<start>>, visited |-> {start}]
        ELSE IF loop[k-1].queue = <<>> THEN loop[k-1]
        ELSE Turn(loop[k-1], adjacency)
  IN  loop[Cardinality(Items)].visited \ {start}

Impacted(i) == Traverse(i, Dependents)
DependsOn(i) == Traverse(i, Dependencies)

\* An answer names every item it reaches, and fails if one is missing.
ImpactIsKnown(i) == {i} \cup Impacted(i) \cup DependsOn(i) \subseteq items

-----------------------------------------------------------------------------
(* Properties                                                              *)

\* What impact() names is what the dependencies lead to and from, through
\* cycles, double edges and edges that carry nothing: its visited set must
\* neither cut a path nor name the item itself.
LeadsTo(adjacency, i, within) ==
  {j \in within \ {i} :
     \A S \in SUBSET within :
       i \in S /\ (\A a \in adjacency : a[1] \in S => a[2] \in S) => j \in S}

ImpactIsClosure ==
  LET named == items \cup UNION {Ends(e) : e \in edges}
  IN  \A i \in named :
        /\ Impacted(i) = LeadsTo(Dependents, i, named)
        /\ DependsOn(i) = LeadsTo(Dependencies, i, named)

\* "Also drop relationships touching the removed CI to avoid dangling edges"
\* (delete_item): where no relationship was being made while one of its ends
\* was being removed, no edge dangles, whatever updates write back, removals
\* overlap or break off half way, and impact() answers for every item.
EdgesHaveEnds ==
  /\ \A e \in edges : Ends(e) \ items \subseteq e.met
  /\ (\A e \in edges : e.met = {}) => \A i \in items : ImpactIsKnown(i)
=============================================================================
