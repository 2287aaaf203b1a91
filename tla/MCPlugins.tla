------------------------------ MODULE MCPlugins ------------------------------
(* Plugins: how they are loaded, and the largest of them at work. A behaviour *)
(* is about one thing.                                                        *)
(* Loading: two requests that enable, disable and configure two plugins.      *)
(* The desk: an agent, a member of the change advisory board, who may approve *)
(* but not transition, and a lead who is both. Two requests are logged;       *)
(* requests are assigned to the agent, and only moves into a done status      *)
(* bring a resolution.                                                        *)
(* Schemes: two replicas and two requests; one shipped scheme that may not be *)
(* deleted, one that may, and one that is not shipped.                        *)
(* The CMDB: two requests on two items; and an estate of four items at rest,  *)
(* with any dependencies between them.                                        *)
(* The marketplace: two releases of a module that have one file in common, of *)
(* three, and two installers, of which the second to come to the folders ends *)
(* the behaviour: what two of them leave there is not looked at. The builder  *)
(* works beside one installer.                                                *)
EXTENDS ServiceDesk, PluginHost, SchemeStore, Cmdb, Marketplace, TLC

CONSTANT Moving   (* the items that are added and removed *)
VARIABLE part     (* what this behaviour is about         *)

pluginsVars == <<deskVars, pluginVars, schemeVars, cmdbVars, marketVars>>

MCCatalog == <<"chatbot", "itsm">>
MCRolesOf == [p \in Persons |->
  CASE p = "agent" -> {"service_desk_agent"}
    [] p = "board" -> {"cab_member"}
    [] p = "lead" -> {"service_desk_agent", "cab_member"}]

Two == {"new", "end"}
MCDrawn ==
  LET Faults == {Step("go", "gone", {"new"}), Step("go", "end", {"gone"}),
                 Move("go", "end", {"new"}, {"made_up"}, {})}
      Guarded == {Move("go", "end", {"new"}, {"is_agent"}, StampResolved)}
      Moves == {Step("go", to, from) : to \in Two, from \in SUBSET Two}
  IN  [initial : Two, open : SUBSET {"new"}, done : SUBSET {"end"},
       moves : {{first} \cup more : first \in Moves \cup Guarded \cup Faults,
                                    more \in {{}, {Step("reopen", "new", {"end"})}}}]

Sketch(at, source, target, move) == Flow(at, source, target, move, FALSE, {}, {})
MCProcesses ==
  [tasks : {{}} \cup {{Task("new", a), Task("mid", ""), Task("end", b)} : a, b \in {"", "done"}},
   first : Two, start : {"", "new"}, ends : SUBSET {"end"},
   flows : {{Sketch(1, "new", "mid", m), Sketch(2, "mid", "end", m)} : m \in {"", "go"}}
      \cup {{Sketch(1, "new", "mid", ""), Flow(2, "mid", "end", "", TRUE, {}, {}),
              Sketch(3, "end", "gone", "")}}]

MCFilesOf == (1 :> {"manifest", "old"}) @@ (2 :> {"manifest", "new"})

Parts == {"desk", "loading", "schemes", "cmdb", "estate", "market"}
NotSent == [scheme |-> NoScheme, process |-> NoProcess]
Estates ==
  {{[id |-> 0, source |-> a[1], target |-> a[2], type |-> "depends_on", met |-> {}] : a \in arrows} :
     arrows \in SUBSET {a \in Items \X Items : a[1] # a[2]}}

MCInit ==
  /\ DeskInit /\ PluginInit /\ part \in Parts
  /\ IF part = "schemes" THEN SchemeInit
     ELSE /\ key = "none" /\ sent = NotSent /\ stored = NoProcess /\ astray = {}
          /\ inUse = [r \in Replicas |-> NoScheme]
          /\ saving = [t \in Savers |-> NotSaving]
  /\ IF part = "estate"
     THEN /\ items = Items /\ edges \in Estates /\ related = MaxEdges
          /\ work = [c \in Clerks |-> Rest]
     ELSE CmdbInit
  /\ MarketInit /\ (sources = 1 \/ part = "market")

MCStartCall(t) ==
  \E p \in Persons :
    \/ \E s \in SchemeKeys : seq < 2 /\ Create(t, p, s)
    \/ \E k \in {k \in 1..2 : requests[k] # NoRequest} :
         \/ Assign(t, p, k, "agent")
         \/ \E move \in SchemeOf(requests[k]).moves, approved, resolution \in BOOLEAN :
              /\ resolution => move.to \in SchemeOf(requests[k]).done
              /\ Transition(t, p, k, move, approved, resolution)

DeskStep == \E t \in Threads : MCStartCall(t) \/ Save(t) \/ Fail(t)

MovingOnly == \A c \in Clerks : {work'[c].item, work'[c].other} \subseteq Moving \cup {""}
CmdbStep ==
  \/ \E i \in Moving : AddItem(i)
  \/ \E e \in edges : Unrelate(e)
  \/ (\E c \in Clerks : ClerkStep(c)) /\ MovingOnly

Asking == {i \in Installers : jobs[i] # NoJob}
MarketStep ==
  /\ ~shared
  /\ \/ BuilderStep /\ Cardinality(Asking) <= 1
     \/ \E i \in Installers : InstallerStep(i) /\ (build = "idle" \/ Asking \subseteq {i})

MCNext ==
  /\ \/ part = "desk" /\ DeskStep /\ UNCHANGED <<pluginVars, schemeVars, cmdbVars, marketVars>>
     \/ part = "loading" /\ PluginNext /\ UNCHANGED <<deskVars, schemeVars, cmdbVars, marketVars>>
     \/ part = "schemes" /\ SchemeNext /\ UNCHANGED <<deskVars, pluginVars, cmdbVars, marketVars>>
     \/ part = "cmdb" /\ CmdbStep /\ UNCHANGED <<deskVars, pluginVars, schemeVars, marketVars>>
     \/ part = "market" /\ MarketStep /\ UNCHANGED <<deskVars, pluginVars, schemeVars, cmdbVars>>
  /\ UNCHANGED part
MCSpec == MCInit /\ [][MCNext]_<<pluginsVars, part>>

\* The threads of a part are the same values in every part.
ThreadSymmetry == Permutations(Threads) \cup Permutations(Replicas)
=============================================================================
