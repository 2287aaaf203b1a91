---------------------------- MODULE RuntimeExport ----------------------------
(***************************************************************************)
(* The runtime snapshot: files written from the published nodes for        *)
(* consumers outside the CMS (export_runtime_content in services/cms.py).  *)
(*                                                                         *)
(* Publishing commands (application/publishing.py) change a node in one    *)
(* transaction and then export; the maintenance job (services/jobs.py)     *)
(* exports when runtime_export_status says so; an administrator exports at *)
(* will. An export reads the nodes of each type in a transaction of its    *)
(* own, stamps what it read, and writes the files one after the other, the *)
(* manifest with the stamp last. Only the transactions are serialised:     *)
(* request threads and a job in another process run side by side.          *)
(*                                                                         *)
(* Of a node only what the snapshot depends on is kept: updated_at and the *)
(* published content, named by published_at, or None for a node that is    *)
(* not published. Draft, history and tree are those of ContentNodes. Every *)
(* call of the clock returns a later time than the one before.             *)
(* Operators defined just before another one, and used nowhere, are faulty *)
(* variants of it, to test that the properties can tell.                   *)
(***************************************************************************)
EXTENDS Naturals, Sequences

CONSTANTS
  Nodes,        (* nodes of the managed types                              *)
  TypeOf,       (* content type of each node                               *)
  Editors,      (* threads that run publishing commands and exports        *)
  Workers,      (* processes that run the maintenance job                  *)
  MaxEdits,     (* bound: commands, draft saves and exports asked for      *)
  MaxFailures   (* bound: exports that fail                                *)

ManagedTypes == <<"ai_expert", "rag_material", "bot_resource">>
FileOrder == <<"ai_expert", "bot_resource", "rag_material">>

None == 0

ASSUME NodesAssumption == TypeOf \in [Nodes -> {ManagedTypes[i] : i \in 1..3}]
ASSUME ThreadsAssumption == Editors \cap Workers = {}

VARIABLES
  nodes,     (* published content and updated_at of each node              *)
  files,     (* what the exported files hold of each node                  *)
  manifest,  (* generated_at of manifest.json, 0 without a readable one    *)
  threads,   (* where each thread is and what it has read                  *)
  clock,     (* the last time drawn                                        *)
  edits,     (* edits so far                                               *)
  failures,  (* exports that failed so far                                 *)
  overlap    (* some export ran while another thread changed nodes or      *)
             (* exported: a history variable, as are edits and failures    *)

exportVars == <<nodes, files, manifest, threads, clock, edits, failures, overlap>>

Threads == Editors \cup Workers
Resting == [step |-> "idle", todo |-> <<>>, snapshot |-> [n \in Nodes |-> None],
         stamp |-> 0, latest |-> 0]

Live(n) == nodes[n].content # None
Exporting(t) == threads[t].step \in {"read", "write", "manifest"}
Quiet == \A t \in Threads : threads[t].step \in {"idle", "status"}
OthersExport(t) == \E u \in Threads \ {t} : Exporting(u)

Latest(N) == IF N = {} THEN 0
             ELSE CHOOSE u \in {nodes[n].updated : n \in N} :
                    \A n \in N : nodes[n].updated <= u
LaterOf(u, v) == IF u >= v THEN u ELSE v
OfType(type) == {n \in Nodes : TypeOf[n] = type}

\* Some published node is newer than the manifest.
Outdated(latest, generatedAt) == latest # 0 /\ latest > generatedAt
NeedsExport == Outdated(Latest({n \in Nodes : Live(n)}), manifest)

-----------------------------------------------------------------------------
(* Edits. Each takes effect in one transaction.                            *)

Edit == edits < MaxEdits /\ edits' = edits + 1

StartExport(t) ==
  /\ threads' = [threads EXCEPT ![t] = [Resting EXCEPT !.step = "read", !.todo = ManagedTypes]]
  /\ overlap' = (overlap \/ OthersExport(t))

\* The row a node gets, published now or no longer published.
Changed(n, live) ==
  /\ nodes' = [nodes EXCEPT ![n] = [content |-> IF live THEN clock + 1 ELSE None,
                                    updated |-> clock + 1]]
  /\ clock' = clock + 1

Command(t, n, live) ==
  /\ Edit
  /\ threads[t] = Resting
  /\ Changed(n, live)
  /\ UNCHANGED <<files, manifest, failures>>

Publish(t, n) == Command(t, n, TRUE) /\ StartExport(t)

\* Unpublishing and deleting: the node is no longer among the published ones.
WithdrawUnrefreshed(t, n) ==
  Live(n) /\ Command(t, n, FALSE) /\ UNCHANGED <<threads, overlap>>
Withdraw(t, n) == Live(n) /\ Command(t, n, FALSE) /\ StartExport(t)

\* The job publishes and withdraws what is due, node by node, and exports once.
ApplyDue(t, n, live) ==
  /\ Edit
  /\ threads[t].step \in {"idle", "due"}
  /\ live \/ Live(n)
  /\ Changed(n, live)
  /\ threads' = [threads EXCEPT ![t] = [Resting EXCEPT !.step = "due"]]
  /\ overlap' = (overlap \/ OthersExport(t))
  /\ UNCHANGED <<files, manifest, failures>>

RefreshAfterDue(t) ==
  /\ threads[t].step = "due"
  /\ StartExport(t)
  /\ UNCHANGED <<nodes, files, manifest, clock, edits, failures>>

\* An export asked for, or one after a command that changes no published node
\* (restoring to a draft, purging).
Export(t) ==
  /\ Edit
  /\ threads[t] = Resting
  /\ StartExport(t)
  /\ UNCHANGED <<nodes, files, manifest, clock, failures>>

\* Saving a draft touches updated_at, publishes nothing and exports nothing.
\* (That of a node that is not published is nothing to this module.)
SaveDraft(n) ==
  /\ Edit
  /\ Live(n)
  /\ nodes' = [nodes EXCEPT ![n].updated = clock + 1]
  /\ clock' = clock + 1
  /\ UNCHANGED <<files, manifest, threads, failures, overlap>>

-----------------------------------------------------------------------------
(* The job's question: the manifest first, then the nodes, type by type.   *)

AskStatus(t) ==
  /\ threads[t] = Resting
  /\ threads' = [threads EXCEPT ![t] =
       [Resting EXCEPT !.step = "status", !.todo = ManagedTypes, !.stamp = manifest]]
  /\ UNCHANGED <<nodes, files, manifest, clock, edits, failures, overlap>>

LookUpLatest(t) ==
  /\ threads[t].step = "status" /\ threads[t].todo # <<>>
  /\ threads' = [threads EXCEPT
       ![t].latest = LaterOf(@, Latest({n \in OfType(Head(threads[t].todo)) : Live(n)})),
       ![t].todo = Tail(@)]
  /\ UNCHANGED <<nodes, files, manifest, clock, edits, failures, overlap>>

DecideByExistence(t) ==
  /\ threads[t].step = "status" /\ threads[t].todo = <<>>
  /\ IF threads[t].latest # 0 /\ threads[t].stamp = 0 THEN StartExport(t)
     ELSE threads' = [threads EXCEPT ![t] = Resting] /\ UNCHANGED overlap
  /\ UNCHANGED <<nodes, files, manifest, clock, edits, failures>>
Decide(t) ==
  /\ threads[t].step = "status" /\ threads[t].todo = <<>>
  /\ IF Outdated(threads[t].latest, threads[t].stamp) THEN StartExport(t)
     ELSE threads' = [threads EXCEPT ![t] = Resting] /\ UNCHANGED overlap
  /\ UNCHANGED <<nodes, files, manifest, clock, edits, failures>>

-----------------------------------------------------------------------------
(* An export.                                                              *)

ReadType(t) ==
  /\ threads[t].step = "read" /\ threads[t].todo # <<>>
  /\ threads' = [threads EXCEPT
       ![t].snapshot = [n \in Nodes |-> IF n \in OfType(Head(threads[t].todo))
                                        THEN nodes[n].content ELSE @[n]],
       ![t].todo = Tail(@)]
  /\ UNCHANGED <<nodes, files, manifest, clock, edits, failures, overlap>>

\* generated_at is drawn when everything is read.
StampManifestFirst(t) ==
  /\ threads[t].step = "read" /\ threads[t].todo = <<>>
  /\ threads' = [threads EXCEPT ![t].step = "write", ![t].todo = FileOrder,
                                ![t].stamp = clock + 1]
  /\ manifest' = clock + 1
  /\ clock' = clock + 1
  /\ UNCHANGED <<nodes, files, edits, failures, overlap>>
Stamp(t) ==
  /\ threads[t].step = "read" /\ threads[t].todo = <<>>
  /\ threads' = [threads EXCEPT ![t].step = "write", ![t].todo = FileOrder,
                                ![t].stamp = clock + 1]
  /\ clock' = clock + 1
  /\ UNCHANGED <<nodes, files, manifest, edits, failures, overlap>>

WriteFile(t) ==
  /\ threads[t].step = "write" /\ threads[t].todo # <<>>
  /\ files' = [n \in Nodes |-> IF n \in OfType(Head(threads[t].todo))
                               THEN threads[t].snapshot[n] ELSE files[n]]
  /\ threads' = [threads EXCEPT ![t].todo = Tail(@)]
  /\ UNCHANGED <<nodes, manifest, clock, edits, failures, overlap>>

\* Opening manifest.json for writing empties it.
OpenManifest(t) ==
  /\ threads[t].step = "write" /\ threads[t].todo = <<>>
  /\ manifest' = 0
  /\ threads' = [threads EXCEPT ![t].step = "manifest"]
  /\ UNCHANGED <<nodes, files, clock, edits, failures, overlap>>

WriteManifest(t) ==
  /\ threads[t].step = "manifest"
  /\ manifest' = threads[t].stamp
  /\ threads' = [threads EXCEPT ![t] = Resting]
  /\ UNCHANGED <<nodes, files, clock, edits, failures, overlap>>

\* A disk or database error, or the end of the process: the command stays
\* done, the files stay as they are.
Fail(t) ==
  /\ Exporting(t) \/ threads[t].step = "due"
  /\ failures < MaxFailures
  /\ failures' = failures + 1
  /\ threads' = [threads EXCEPT ![t] = Resting]
  /\ UNCHANGED <<nodes, files, manifest, clock, edits, overlap>>

-----------------------------------------------------------------------------
(* At first nothing is published and no file is written.                   *)

ExportInit ==
  /\ nodes = [n \in Nodes |-> [content |-> None, updated |-> 0]]
  /\ files = [n \in Nodes |-> None]
  /\ manifest = 0
  /\ threads = [t \in Threads |-> Resting]
  /\ clock = 0 /\ edits = 0 /\ failures = 0
  /\ overlap = FALSE

EditStep ==
  \/ \E t \in Editors :
       \/ \E n \in Nodes : Publish(t, n) \/ Withdraw(t, n)
       \/ Export(t)
  \/ \E t \in Workers, n \in Nodes, live \in BOOLEAN : ApplyDue(t, n, live)
  \/ \E n \in Nodes : SaveDraft(n)

ExportStep(t) ==
  \/ RefreshAfterDue(t) \/ LookUpLatest(t) \/ Decide(t)
  \/ ReadType(t) \/ Stamp(t) \/ WriteFile(t) \/ OpenManifest(t) \/ WriteManifest(t)

ExportNext ==
  \/ EditStep
  \/ \E t \in Workers : AskStatus(t)
  \/ \E t \in Threads : ExportStep(t) \/ Fail(t)

\* A thread goes on with what it began, and the maintenance loop comes round;
\* nobody has to edit and nothing has to fail.
ExportFairness ==
  /\ \A t \in Threads : WF_exportVars(ExportStep(t))
  /\ \A t \in Workers : WF_exportVars(AskStatus(t))

ExportSpec == ExportInit /\ [][ExportNext]_exportVars /\ ExportFairness

-----------------------------------------------------------------------------
\* A publication is in the files or is found missing from them: whatever fails,
\* as long as no export runs beside other changes, the job's question leads to
\* an export when a published node is not exported as it is.
MissedIsNoticed ==
  Quiet /\ ~overlap =>
    \A n \in Nodes : Live(n) /\ files[n] # nodes[n].content => NeedsExport

\* Without failures and overlaps every command leaves the files exactly as the
\* published nodes are: nothing withdrawn stays in them.
SerialExportIsExact ==
  Quiet /\ ~overlap /\ failures = 0 => \A n \in Nodes : files[n] = nodes[n].content

\* The job does not export for ever, and what needs an export gets one.
NeedIsMet == NeedsExport ~> ~NeedsExport

\* The job's duty is to "refresh runtime exports when published runtime content
\* is newer than the manifest" (advanced-cms-refactor.md): with every thread at
\* rest, a publication missing from the files is found missing.
StaleIsNoticed ==
  Quiet => \A n \in Nodes : Live(n) /\ files[n] # nodes[n].content => NeedsExport
=============================================================================
