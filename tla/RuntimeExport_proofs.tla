------------------------ MODULE RuntimeExport_proofs ------------------------
(***************************************************************************)
(* What the exported files owe the published nodes, for any nodes and any  *)
(* number of request threads and maintenance jobs. Neither promise is      *)
(* inductive: an export under way has to be known to write what is         *)
(* published, although it read that type by type.                          *)
(***************************************************************************)
EXTENDS RuntimeExport, TLAPS, SequenceTheorems, WellFoundedInduction

Types == {"ai_expert", "rag_material", "bot_resource"}
Steps == {"idle", "due", "status", "read", "write", "manifest"}

ExportTypeOK ==
  /\ nodes \in [Nodes -> [content: Nat, updated: Nat]]
  /\ files \in [Nodes -> Nat]
  /\ manifest \in Nat /\ clock \in Nat /\ failures \in Nat
  /\ threads \in [Threads -> [step: Steps, todo: Seq(Types), snapshot: [Nodes -> Nat],
                              stamp: Nat, latest: Nat]]
  /\ overlap \in BOOLEAN

\* Nothing bears a time later than the clock's; what is published was changed.
TimesOK ==
  /\ manifest <= clock
  /\ \A n \in Nodes : nodes[n].updated <= clock /\ (Live(n) => nodes[n].updated > 0)
  /\ \A t \in Threads : threads[t].stamp <= clock

\* The types t has still to read, or to write.
Left(t) == {threads[t].todo[i] : i \in DOMAIN threads[t].todo}

\* Without overlaps an export knows the published nodes: what it has read, all of
\* them once it writes, and what it has written stands in the files.
ExportKnows(t) ==
  /\ threads[t].step = "read" =>
       \A n \in Nodes : TypeOf[n] \notin Left(t) => threads[t].snapshot[n] = nodes[n].content
  /\ threads[t].step \in {"write", "manifest"} =>
       \A n \in Nodes : threads[t].snapshot[n] = nodes[n].content
  /\ threads[t].step = "write" =>
       \A n \in Nodes : TypeOf[n] \notin Left(t) => files[n] = nodes[n].content
  /\ threads[t].step = "manifest" => \A n \in Nodes : files[n] = nodes[n].content

OneExports == \A t, u \in Threads : Exporting(t) /\ Exporting(u) => t = u

\* What is missing from the files is newer than the manifest.
MissingIsNewer ==
  \A n \in Nodes : Live(n) /\ files[n] # nodes[n].content => nodes[n].updated > manifest

Settled == \A t \in Threads : ~Exporting(t) /\ threads[t].step # "due"

IsExact == \A n \in Nodes : files[n] = nodes[n].content

Serial ==
  /\ OneExports
  /\ \A t \in Threads : ExportKnows(t)
  /\ MissingIsNewer
  /\ failures = 0 /\ Settled => IsExact

ExportInv ==
  /\ ExportTypeOK
  /\ TimesOK
  /\ ~overlap => Serial

-----------------------------------------------------------------------------
(* What is read and written, type by type.                                 *)

LEMMA TypesCovered ==
  /\ \A n \in Nodes : TypeOf[n] \in Types
  /\ ManagedTypes \in Seq(Types) /\ FileOrder \in Seq(Types)
  /\ {ManagedTypes[i] : i \in DOMAIN ManagedTypes} = Types
  /\ {FileOrder[i] : i \in DOMAIN FileOrder} = Types
BY NodesAssumption DEF Types, ManagedTypes, FileOrder

LEMMA AfterHead ==
  ASSUME NEW s \in Seq(Types), s # <<>>
  PROVE  /\ Head(s) \in Types /\ Tail(s) \in Seq(Types)
         /\ \A i \in DOMAIN s : s[i] = Head(s) \/ \E j \in DOMAIN Tail(s) : s[i] = Tail(s)[j]
<1>1. /\ Head(s) \in Types /\ Tail(s) \in Seq(Types) /\ Len(Tail(s)) = Len(s) - 1
      /\ \A j \in 1 .. Len(Tail(s)) : Tail(s)[j] = s[j + 1]
  BY HeadTailProperties
<1>2. ASSUME NEW i \in DOMAIN s, i # 1
      PROVE  i - 1 \in DOMAIN Tail(s) /\ s[i] = Tail(s)[i - 1]
  BY <1>1, <1>2
<1> QED
  <2> SUFFICES ASSUME NEW i \in DOMAIN s
               PROVE  s[i] = Head(s) \/ \E j \in DOMAIN Tail(s) : s[i] = Tail(s)[j]
    BY <1>1
  <2>1. CASE i = 1
    BY <2>1
  <2>2. CASE i # 1
    BY <1>2, <2>2
  <2> QED
    BY <2>1, <2>2

\* Without nodes to look at the latest time is 0; otherwise it is one of theirs.
LEMMA LatestIsMaximum ==
  ASSUME ExportTypeOK, TimesOK, NEW N \in SUBSET Nodes, N # {}
  PROVE  Latest(N) \in Nat /\ \A n \in N : nodes[n].updated <= Latest(N)
<1> DEFINE ages == {clock - nodes[n].updated : n \in N}
<1>0. clock \in Nat /\ \A n \in N : nodes[n].updated \in Nat /\ nodes[n].updated <= clock
  BY DEF ExportTypeOK, TimesOK
<1>1. ages \subseteq Nat /\ ages # {}
  BY <1>0
<1>2. PICK a \in ages : \A b \in ages : <<b, a>> \notin OpToRel(<, Nat)
  BY <1>1, WFMin, NatLessThanWellFounded
<1>3. \A b \in ages : a <= b
  <2> TAKE b \in ages
  <2>1. a \in Nat /\ b \in Nat
    BY <1>1
  <2>2. <<b, a>> \notin OpToRel(<, Nat)
    BY <1>2
  <2> HIDE DEF ages
  <2>3. ~(b < a)
    BY <2>1, <2>2 DEF OpToRel
  <2> QED
    BY <2>1, <2>3
<1>4. PICK m \in N : a = clock - nodes[m].updated
  BY <1>2
<1>5. \A n \in N : nodes[n].updated <= nodes[m].updated
  <2> TAKE n \in N
  <2>1. clock - nodes[m].updated <= clock - nodes[n].updated
    BY <1>3, <1>4
  <2> QED
    BY <1>0, <2>1
<1>6. \E u \in {nodes[n].updated : n \in N} : \A n \in N : nodes[n].updated <= u
  BY <1>5
<1> DEFINE last == CHOOSE u \in {nodes[n].updated : n \in N} : \A n \in N : nodes[n].updated <= u
<1>7. last \in {nodes[n].updated : n \in N} /\ \A n \in N : nodes[n].updated <= last
  BY <1>6
<1>8. Latest(N) = last
  BY DEF Latest
<1>9. last \in Nat
  BY <1>0, <1>7
<1> HIDE DEF last
<1> QED
  BY <1>7, <1>8, <1>9

LEMMA LatestIsNat ==
  ASSUME ExportTypeOK, TimesOK, NEW N \in SUBSET Nodes
  PROVE  Latest(N) \in Nat
BY LatestIsMaximum DEF Latest

-----------------------------------------------------------------------------
(* Types and times, action by action.                                      *)

Recorded == [step: Steps, todo: Seq(Types), snapshot: [Nodes -> Nat], stamp: Nat, latest: Nat]

LEMMA RestingIsRecorded ==
  /\ Resting \in Recorded /\ Resting.step = "idle" /\ Resting.stamp = 0
  /\ [Resting EXCEPT !.step = "due"] \in Recorded
  /\ [Resting EXCEPT !.step = "read", !.todo = ManagedTypes] \in Recorded
<1>1. <<>> \in Seq(Types) /\ [n \in Nodes |-> None] \in [Nodes -> Nat]
  BY DEF None
<1>2. Resting \in Recorded /\ Resting.step = "idle" /\ Resting.stamp = 0
  BY <1>1 DEF Resting, Recorded, Steps
<1> QED
  BY <1>2, TypesCovered DEF Recorded, Steps

\* A step of t leaves every other thread where it is.
StepOf(t) ==
  /\ threads' \in [Threads -> Recorded]
  /\ \A u \in Threads \ {t} : threads'[u] = threads[u]

LEMMA NewRecord ==
  ASSUME ExportTypeOK, NEW t \in Threads, NEW record \in Recorded,
         threads' = [threads EXCEPT ![t] = record]
  PROVE  StepOf(t) /\ threads'[t] = record
BY DEF ExportTypeOK, Recorded, StepOf

\* Such a step gives nothing a later time than the clock's.
LEMMA ThreadStep ==
  ASSUME ExportTypeOK, TimesOK, NEW t \in Threads,
         StepOf(t), threads'[t].stamp <= clock',
         clock' \in {clock, clock + 1},
         manifest' \in Nat, manifest' <= clock',
         files' \in [Nodes -> Nat], failures' \in Nat, overlap' \in BOOLEAN,
         nodes' \in [Nodes -> [content: Nat, updated: Nat]],
         \A n \in Nodes : nodes'[n].updated <= clock' /\ (Live(n)' => nodes'[n].updated > 0)
  PROVE  ExportTypeOK' /\ TimesOK'
<1>1. ExportTypeOK'
  BY DEF ExportTypeOK, Recorded, StepOf
<1>2. \A u \in Threads : threads'[u].stamp <= clock'
  <2> TAKE u \in Threads
  <2>1. threads[u].stamp \in Nat /\ threads[u].stamp <= clock /\ clock \in Nat
    BY DEF ExportTypeOK, TimesOK
  <2>2. u # t => threads'[u] = threads[u]
    BY DEF StepOf
  <2> QED
    BY <2>1, <2>2
<1> QED
  BY <1>1, <1>2 DEF TimesOK

LEMMA NodesKept ==
  ASSUME ExportTypeOK, TimesOK, nodes' = nodes, clock' \in {clock, clock + 1}
  PROVE  /\ nodes' \in [Nodes -> [content: Nat, updated: Nat]]
         /\ \A n \in Nodes : nodes'[n].updated <= clock' /\ (Live(n)' => nodes'[n].updated > 0)
<1>1. clock \in Nat /\ \A n \in Nodes : nodes[n].updated \in Nat
  BY DEF ExportTypeOK
<1>2. \A n \in Nodes : nodes[n].updated <= clock /\ (Live(n) => nodes[n].updated > 0)
  BY DEF TimesOK
<1>3. \A n \in Nodes : nodes[n].updated <= clock'
  BY <1>1, <1>2
<1> QED
  BY <1>2, <1>3 DEF ExportTypeOK, Live

LEMMA NodesChanged ==
  ASSUME ExportTypeOK, TimesOK, NEW n \in Nodes, NEW live, Changed(n, live)
  PROVE  /\ nodes' \in [Nodes -> [content: Nat, updated: Nat]]
         /\ \A m \in Nodes : nodes'[m].updated <= clock' /\ (Live(m)' => nodes'[m].updated > 0)
         /\ clock' = clock + 1
         /\ nodes'[n].updated = clock'
         /\ \A m \in Nodes \ {n} : nodes'[m] = nodes[m]
<1> DEFINE row == [content |-> IF live THEN clock + 1 ELSE None, updated |-> clock + 1]
<1>1. clock \in Nat /\ row \in [content: Nat, updated: Nat]
  BY DEF ExportTypeOK, None
<1>2. nodes' = [nodes EXCEPT ![n] = row] /\ clock' = clock + 1
  BY DEF Changed
<1>3. nodes' \in [Nodes -> [content: Nat, updated: Nat]]
  BY <1>1, <1>2 DEF ExportTypeOK
<1>4. nodes'[n] = row /\ \A m \in Nodes \ {n} : nodes'[m] = nodes[m]
  BY <1>2 DEF ExportTypeOK
<1>5. ASSUME NEW m \in Nodes
      PROVE  nodes'[m].updated <= clock' /\ (Live(m)' => nodes'[m].updated > 0)
  <2>1. CASE m = n
    BY <1>1, <1>2, <1>4, <2>1
  <2>2. CASE m # n
    <3>1. nodes'[m] = nodes[m] /\ nodes[m].updated \in Nat /\ nodes[m].updated <= clock
      BY <1>4, <2>2 DEF ExportTypeOK, TimesOK
    <3>2. Live(m)' => nodes[m].updated > 0
      BY <3>1 DEF Live, TimesOK
    <3> QED
      BY <1>1, <1>2, <3>1, <3>2
  <2> QED
    BY <2>1, <2>2
<1> QED
  BY <1>2, <1>3, <1>4, <1>5

-----------------------------------------------------------------------------
(* Who exports, and what an export knows.                                  *)

LEMMA ContentKept ==
  ASSUME NEW u \in Threads, ExportKnows(u), threads'[u] = threads[u], files' = files,
         \A n \in Nodes : nodes'[n].content = nodes[n].content
  PROVE  ExportKnows(u)'
BY DEF ExportKnows, Left

LEMMA OnlyOne ==
  ASSUME Serial, NEW t \in Threads, StepOf(t), Exporting(t)
  PROVE  \A u \in Threads \ {t} : ~Exporting(u) /\ ~Exporting(u)'
BY DEF Serial, OneExports, StepOf, Exporting

\* Threads that do not export know nothing.
LEMMA IdleKnows ==
  ASSUME NEW u \in Threads, ~Exporting(u)' PROVE ExportKnows(u)'
BY DEF Exporting, ExportKnows

\* A change is newer than the manifest.
LEMMA ChangeIsNewer ==
  ASSUME ExportTypeOK, TimesOK, MissingIsNewer, NEW n \in Nodes, NEW live, Changed(n, live),
         UNCHANGED <<files, manifest>>
  PROVE  MissingIsNewer'
<1>1. nodes'[n].updated > manifest'
  BY NodesChanged DEF ExportTypeOK, TimesOK
<1>2. \A m \in Nodes \ {n} : nodes'[m] = nodes[m]
  BY NodesChanged
<1> QED
  BY <1>1, <1>2 DEF MissingIsNewer, Live

\* An export that begins beside no other.
LEMMA StartSerial ==
  ASSUME ExportInv, NEW t \in Threads, StartExport(t), ~Exporting(t),
         UNCHANGED <<files, manifest, failures>>, ~overlap => MissingIsNewer'
  PROVE  StepOf(t) /\ threads'[t].stamp = 0 /\ (~overlap' => ~overlap /\ Serial')
<1> DEFINE record == [Resting EXCEPT !.step = "read", !.todo = ManagedTypes]
<1>1. StepOf(t) /\ threads'[t] = record
  BY RestingIsRecorded, NewRecord DEF StartExport, ExportInv
<1>2. record.stamp = 0 /\ record.step = "read" /\ record.todo = ManagedTypes
  BY DEF Resting
<1>3. ASSUME ~overlap'
      PROVE  ~overlap /\ Serial'
  <2>1. ~overlap /\ MissingIsNewer' /\ \A u \in Threads \ {t} : ~Exporting(u)
    BY <1>3 DEF StartExport, OthersExport, ExportInv, ExportTypeOK
  <2>2. \A u \in Threads \ {t} : ~Exporting(u)'
    BY <1>1, <2>1 DEF StepOf, Exporting
  <2>3. OneExports'
    BY <2>2 DEF OneExports
  <2>4. ExportKnows(t)'
    BY <1>1, <1>2, TypesCovered DEF ExportKnows, Left
  <2>5. ~Settled'
    BY <1>1, <1>2 DEF Settled, Exporting
  <2> QED
    BY <2>1, <2>2, <2>3, <2>4, <2>5, IdleKnows DEF Serial
<1> QED
  BY <1>1, <1>2, <1>3

\* A step of a thread that neither was exporting or had something due nor has.
LEMMA IdleSerial ==
  ASSUME Serial, NEW t \in Threads, StepOf(t), UNCHANGED <<nodes, files, manifest, failures>>,
         threads[t].step \in {"idle", "status"}, threads'[t].step \in {"idle", "status"}
  PROVE  Serial'
<1>1. ~Exporting(t) /\ ~Exporting(t)'
  BY DEF Exporting
<1>2. \A u \in Threads : Exporting(u)' <=> Exporting(u)
  BY <1>1 DEF StepOf, Exporting
<1>3. OneExports'
  BY <1>2 DEF Serial, OneExports
<1>4. \A u \in Threads : ExportKnows(u)'
  <2> TAKE u \in Threads
  <2>1. CASE u = t
    BY <1>1, <2>1, IdleKnows
  <2>2. CASE u # t
    BY <2>2, ContentKept DEF Serial, StepOf
  <2> QED
    BY <2>1, <2>2
<1>5. MissingIsNewer'
  BY DEF Serial, MissingIsNewer, Live
<1>6. Settled' => Settled
  BY <1>2 DEF Settled, StepOf
<1> QED
  BY <1>3, <1>4, <1>5, <1>6 DEF Serial, IsExact

\* A step within an export.
LEMMA WithinSerial ==
  ASSUME Serial, NEW t \in Threads, StepOf(t), Exporting(t), Exporting(t)',
         ExportKnows(t)', MissingIsNewer'
  PROVE  Serial'
<1>1. \A u \in Threads \ {t} : ~Exporting(u)'
  BY OnlyOne
<1>2. OneExports' /\ ~Settled'
  BY <1>1 DEF OneExports, Settled
<1> QED
  BY <1>1, <1>2, IdleKnows DEF Serial

-----------------------------------------------------------------------------
(* Every action keeps the invariant.                                       *)

LEMMA StartTypes ==
  ASSUME ExportInv, NEW t \in Threads, StartExport(t), ~Exporting(t),
         UNCHANGED <<files, manifest, failures>>, ~overlap => MissingIsNewer',
         clock' \in {clock, clock + 1},
         nodes' \in [Nodes -> [content: Nat, updated: Nat]],
         \A n \in Nodes : nodes'[n].updated <= clock' /\ (Live(n)' => nodes'[n].updated > 0)
  PROVE  ExportInv'
<1>1. StepOf(t) /\ threads'[t].stamp = 0 /\ (~overlap' => Serial')
  BY StartSerial
<1>2. overlap' \in BOOLEAN
  BY DEF StartExport, ExportInv, ExportTypeOK, OthersExport
<1>3. /\ manifest' \in Nat /\ manifest' <= clock'
      /\ files' \in [Nodes -> Nat] /\ failures' \in Nat /\ threads'[t].stamp <= clock'
  BY <1>1 DEF ExportInv, ExportTypeOK, TimesOK
<1> ExportTypeOK /\ TimesOK
  BY DEF ExportInv
<1>4. ExportTypeOK' /\ TimesOK'
  BY <1>1, <1>2, <1>3, ThreadStep
<1> QED
  BY <1>1, <1>4 DEF ExportInv

LEMMA CommandStep ==
  ASSUME ExportInv, NEW t \in Threads, NEW n \in Nodes, NEW live,
         Command(t, n, live), StartExport(t)
  PROVE  ExportInv'
<1>1. threads[t].step = "idle"
  BY RestingIsRecorded DEF Command
<1>2. ~overlap => MissingIsNewer'
  BY ChangeIsNewer DEF Command, ExportInv, Serial
<1> QED
  BY <1>1, <1>2, NodesChanged, StartTypes DEF Command, ExportInv, Exporting

\* Exports that no change precedes.
LEMMA BareExportStep ==
  ASSUME ExportInv, NEW t \in Threads, StartExport(t), ~Exporting(t),
         UNCHANGED <<nodes, files, manifest, clock, failures>>
  PROVE  ExportInv'
<1>1. ~overlap => MissingIsNewer'
  BY DEF ExportInv, Serial, MissingIsNewer, Live
<1> QED
  BY <1>1, NodesKept, StartTypes DEF ExportInv

LEMMA ApplyDueStep ==
  ASSUME ExportInv, NEW t \in Threads, NEW n \in Nodes, NEW live, ApplyDue(t, n, live)
  PROVE  ExportInv'
<1>1. StepOf(t) /\ threads'[t].step = "due" /\ threads'[t].stamp = 0
  <2>1. [Resting EXCEPT !.step = "due"].step = "due" /\ [Resting EXCEPT !.step = "due"].stamp = 0
    BY DEF Resting
  <2> QED
    BY <2>1, RestingIsRecorded, NewRecord DEF ApplyDue, ExportInv
<1>2. overlap' \in BOOLEAN
  BY DEF ApplyDue, ExportInv, ExportTypeOK, OthersExport
<1> ExportTypeOK /\ TimesOK /\ Changed(n, live)
  BY DEF ExportInv, ApplyDue
<1>3. /\ clock' = clock + 1 /\ manifest' \in Nat /\ manifest' <= clock'
      /\ files' \in [Nodes -> Nat] /\ failures' \in Nat /\ threads'[t].stamp <= clock'
  BY <1>1, NodesChanged DEF ApplyDue, ExportTypeOK, TimesOK
<1>4. ExportTypeOK' /\ TimesOK'
  BY <1>1, <1>2, <1>3, NodesChanged, ThreadStep
<1>5. ASSUME ~overlap'
      PROVE  Serial'
  <2>1. ~overlap /\ \A u \in Threads : ~Exporting(u)
    BY <1>5 DEF ApplyDue, OthersExport, Exporting, ExportInv, ExportTypeOK
  <2>2. \A u \in Threads : ~Exporting(u)'
    BY <1>1, <2>1 DEF StepOf, Exporting
  <2>3. MissingIsNewer'
    BY <2>1, ChangeIsNewer DEF ApplyDue, ExportInv, Serial
  <2>4. OneExports' /\ ~Settled'
    BY <1>1, <2>2 DEF OneExports, Settled
  <2> QED
    BY <2>2, <2>3, <2>4, IdleKnows DEF Serial
<1> QED
  BY <1>4, <1>5 DEF ExportInv

LEMMA SaveDraftStep ==
  ASSUME ExportInv, NEW n \in Nodes, SaveDraft(n)
  PROVE  ExportInv'
<1>1. /\ nodes' = [nodes EXCEPT ![n].updated = clock + 1] /\ clock' = clock + 1
      /\ UNCHANGED <<files, manifest, threads, failures, overlap>>
  BY DEF SaveDraft
<1>2. clock \in Nat /\ \A m \in Nodes : nodes[m].updated \in Nat /\ nodes[m].updated <= clock
  BY DEF ExportInv, ExportTypeOK, TimesOK
<1>3. /\ nodes' \in [Nodes -> [content: Nat, updated: Nat]]
      /\ \A m \in Nodes : nodes'[m].content = nodes[m].content
      /\ nodes'[n].updated = clock' /\ \A m \in Nodes \ {n} : nodes'[m] = nodes[m]
  BY <1>1, <1>2 DEF ExportInv, ExportTypeOK
<1>4. ExportTypeOK'
  BY <1>1, <1>2, <1>3 DEF ExportInv, ExportTypeOK
<1>5. TimesOK'
  <2>1. manifest' <= clock' /\ \A t \in Threads : threads'[t].stamp <= clock'
    BY <1>1, <1>2 DEF ExportInv, ExportTypeOK, TimesOK
  <2>2. \A m \in Nodes : nodes'[m].updated <= clock' /\ (Live(m)' => nodes'[m].updated > 0)
    BY <1>1, <1>2, <1>3 DEF ExportInv, TimesOK, Live
  <2> QED
    BY <2>1, <2>2 DEF TimesOK
<1>6. ASSUME ~overlap'
      PROVE  Serial'
  <2>1. Serial
    BY <1>1, <1>6 DEF ExportInv
  <2>2. OneExports' /\ \A t \in Threads : ExportKnows(t)'
    BY <1>1, <1>3, <2>1, ContentKept DEF Serial, OneExports, Exporting
  <2>3. MissingIsNewer'
    <3>1. nodes'[n].updated > manifest'
      BY <1>1, <1>2, <1>3 DEF ExportInv, ExportTypeOK, TimesOK
    <3> QED
      BY <1>1, <1>3, <2>1, <3>1 DEF Serial, MissingIsNewer, Live
  <2>4. failures' = 0 /\ Settled' => IsExact'
    BY <1>1, <1>3, <2>1 DEF Serial, Settled, Exporting, IsExact
  <2> QED
    BY <2>2, <2>3, <2>4 DEF Serial
<1> QED
  BY <1>4, <1>5, <1>6 DEF ExportInv

\* Steps that leave the nodes and the clock alone, but for one tick.
LEMMA QuietTypes ==
  ASSUME ExportTypeOK, TimesOK, NEW t \in Threads, StepOf(t), threads'[t].stamp <= clock',
         UNCHANGED <<nodes, overlap>>, clock' \in {clock, clock + 1},
         manifest' \in Nat, manifest' <= clock', files' \in [Nodes -> Nat], failures' \in Nat
  PROVE  ExportTypeOK' /\ TimesOK'
BY NodesKept, ThreadStep DEF ExportTypeOK

LEMMA AskStatusStep ==
  ASSUME ExportInv, NEW t \in Threads, AskStatus(t)
  PROVE  ExportInv'
<1> DEFINE record == [Resting EXCEPT !.step = "status", !.todo = ManagedTypes, !.stamp = manifest]
<1>1. record \in Recorded /\ record.step = "status" /\ record.stamp = manifest
  BY RestingIsRecorded, TypesCovered DEF ExportInv, ExportTypeOK, Recorded, Steps
<1>2. StepOf(t) /\ threads'[t] = record
  BY <1>1, NewRecord DEF AskStatus, ExportInv
<1>3. ExportTypeOK' /\ TimesOK'
  BY <1>1, <1>2, QuietTypes DEF AskStatus, ExportInv, ExportTypeOK, TimesOK
<1>4. threads[t].step = "idle"
  BY RestingIsRecorded DEF AskStatus
<1>5. ~overlap => Serial'
  BY <1>1, <1>2, <1>4, IdleSerial DEF AskStatus, ExportInv
<1> QED
  BY <1>3, <1>5 DEF ExportInv, AskStatus

\* What a thread of the right type holds.
LEMMA Held ==
  ASSUME ExportTypeOK, TimesOK, NEW t \in Threads
  PROVE  /\ threads[t] \in Recorded /\ threads[t].stamp <= clock
         /\ threads[t].todo # <<>> =>
              /\ Head(threads[t].todo) \in Types /\ Tail(threads[t].todo) \in Seq(Types)
BY AfterHead DEF ExportTypeOK, TimesOK, Recorded

LEMMA LookUpLatestStep ==
  ASSUME ExportInv, NEW t \in Threads, LookUpLatest(t)
  PROVE  ExportInv'
<1> DEFINE looked == Latest({n \in OfType(Head(threads[t].todo)) : Live(n)})
           record == [threads[t] EXCEPT !.latest = LaterOf(@, looked), !.todo = Tail(@)]
<1>1. looked \in Nat
  BY LatestIsNat DEF ExportInv, OfType
<1>2. LaterOf(threads[t].latest, looked) \in Nat
  BY <1>1, Held DEF LaterOf, ExportInv, Recorded
<1> HIDE DEF looked
<1>3. /\ record \in Recorded /\ record.step = threads[t].step /\ record.stamp = threads[t].stamp
  BY <1>2, Held DEF LookUpLatest, ExportInv, Recorded
<1>4. threads' = [threads EXCEPT ![t] = record]
  BY DEF LookUpLatest, ExportInv, ExportTypeOK, looked
<1>5. StepOf(t) /\ threads'[t] = record
  BY <1>3, <1>4, NewRecord DEF ExportInv
<1> HIDE DEF record
<1>6. ExportTypeOK' /\ TimesOK'
  <2> ExportTypeOK /\ TimesOK
    BY DEF ExportInv
  <2>1. /\ manifest' \in Nat /\ manifest' <= clock' /\ files' \in [Nodes -> Nat]
        /\ failures' \in Nat /\ clock' = clock /\ UNCHANGED <<nodes, overlap>>
    BY DEF LookUpLatest, ExportTypeOK, TimesOK
  <2>2. threads'[t].stamp <= clock'
    BY <1>3, <1>5, <2>1, Held
  <2> QED
    BY <1>5, <2>1, <2>2, QuietTypes
<1>7. ~overlap => Serial'
  BY <1>3, <1>5, IdleSerial DEF LookUpLatest, ExportInv
<1> QED
  BY <1>6, <1>7 DEF ExportInv, LookUpLatest

LEMMA DecideStep ==
  ASSUME ExportInv, NEW t \in Threads, Decide(t)
  PROVE  ExportInv'
<1>1. CASE StartExport(t)
  BY <1>1, BareExportStep DEF Decide, Exporting
<1>2. CASE threads' = [threads EXCEPT ![t] = Resting] /\ UNCHANGED overlap
  <2>1. StepOf(t) /\ threads'[t] = Resting
    BY <1>2, RestingIsRecorded, NewRecord DEF ExportInv
  <2>2. ExportTypeOK' /\ TimesOK'
    BY <1>2, <2>1, RestingIsRecorded, QuietTypes DEF Decide, ExportInv, ExportTypeOK, TimesOK
  <2>3. ~overlap => Serial'
    BY <2>1, RestingIsRecorded, IdleSerial DEF Decide, ExportInv
  <2> QED
    BY <1>2, <2>2, <2>3 DEF ExportInv
<1> QED
  BY <1>1, <1>2 DEF Decide

LEMMA ReadTypeStep ==
  ASSUME ExportInv, NEW t \in Threads, ReadType(t)
  PROVE  ExportInv'
<1> DEFINE type == Head(threads[t].todo)
           snapshot == [n \in Nodes |-> IF n \in OfType(type) THEN nodes[n].content
                                        ELSE threads[t].snapshot[n]]
           record == [threads[t] EXCEPT !.snapshot = snapshot, !.todo = Tail(@)]
<1> ExportTypeOK /\ TimesOK
  BY DEF ExportInv
<1>1. snapshot \in [Nodes -> Nat]
  BY Held DEF ExportTypeOK, Recorded
<1>2. threads' = [threads EXCEPT ![t] = record]
  BY DEF ReadType, ExportTypeOK
<1>7. \A n \in Nodes : snapshot[n] = IF TypeOf[n] = type THEN nodes[n].content
                                                       ELSE threads[t].snapshot[n]
  BY DEF OfType
<1> HIDE DEF snapshot
<1>3. /\ record \in Recorded /\ record.step = "read" /\ record.stamp = threads[t].stamp
      /\ record.snapshot = snapshot /\ record.todo = Tail(threads[t].todo)
  BY <1>1, Held DEF ReadType, Recorded
<1>4. StepOf(t) /\ threads'[t] = record
  BY <1>2, <1>3, NewRecord
<1> HIDE DEF record
<1>5. ExportTypeOK' /\ TimesOK'
  <2>1. /\ manifest' \in Nat /\ manifest' <= clock' /\ files' \in [Nodes -> Nat]
        /\ failures' \in Nat /\ clock' = clock /\ UNCHANGED <<nodes, overlap>>
    BY DEF ReadType, ExportTypeOK, TimesOK
  <2>2. threads'[t].stamp <= clock'
    BY <1>3, <1>4, <2>1, Held
  <2> QED
    BY <1>4, <2>1, <2>2, QuietTypes
<1>6. ASSUME ~overlap'
      PROVE  Serial'
  <2>1. Serial
    BY <1>6 DEF ReadType, ExportInv
  <2>2. ExportKnows(t)'
    <3>1. SUFFICES ASSUME NEW n \in Nodes, TypeOf[n] \notin Left(t)'
                   PROVE  threads'[t].snapshot[n] = nodes'[n].content
      BY <1>3, <1>4 DEF ExportKnows
    <3>2. CASE TypeOf[n] = type
      BY <1>3, <1>4, <1>7, <3>2 DEF ReadType
    <3>3. CASE TypeOf[n] # type
      <4>1. TypeOf[n] \notin Left(t)
        <5> SUFFICES ASSUME NEW i \in DOMAIN threads[t].todo, threads[t].todo[i] = TypeOf[n]
                     PROVE  FALSE
          BY DEF Left
        <5>1. threads[t].todo \in Seq(Types) /\ threads[t].todo # <<>>
          BY Held DEF ReadType, Recorded
        <5>2. \E j \in DOMAIN Tail(threads[t].todo) : TypeOf[n] = Tail(threads[t].todo)[j]
          BY <3>3, <5>1, AfterHead
        <5> QED
          BY <1>3, <1>4, <3>1, <5>2 DEF Left
      <4>2. threads[t].snapshot[n] = nodes[n].content
        BY <2>1, <4>1 DEF Serial, ExportKnows, ReadType
      <4> QED
        BY <1>3, <1>4, <1>7, <3>3, <4>2 DEF ReadType
    <3> QED
      BY <3>2, <3>3
  <2>3. MissingIsNewer'
    BY <2>1 DEF Serial, MissingIsNewer, Live, ReadType
  <2> QED
    BY <1>3, <1>4, <2>1, <2>2, <2>3, WithinSerial DEF ReadType, Exporting
<1> QED
  BY <1>5, <1>6 DEF ExportInv

LEMMA StampStep ==
  ASSUME ExportInv, NEW t \in Threads, Stamp(t)
  PROVE  ExportInv'
<1> DEFINE record == [threads[t] EXCEPT !.step = "write", !.todo = FileOrder, !.stamp = clock + 1]
<1> ExportTypeOK /\ TimesOK
  BY DEF ExportInv
<1>1. /\ record \in Recorded /\ record.step = "write" /\ record.stamp = clock + 1
      /\ record.todo = FileOrder /\ record.snapshot = threads[t].snapshot
  <2>1. FileOrder \in Seq(Types) /\ clock + 1 \in Nat /\ threads[t] \in Recorded
    BY TypesCovered, Held DEF ExportTypeOK
  <2> QED
    BY <2>1 DEF Recorded, Steps
<1>2. threads' = [threads EXCEPT ![t] = record]
  BY DEF Stamp, ExportTypeOK
<1>3. StepOf(t) /\ threads'[t] = record
  BY <1>1, <1>2, NewRecord
<1> HIDE DEF record
<1>4. ExportTypeOK' /\ TimesOK'
  <2>1. /\ manifest' \in Nat /\ manifest' <= clock' /\ files' \in [Nodes -> Nat]
        /\ failures' \in Nat /\ clock' = clock + 1 /\ UNCHANGED <<nodes, overlap>>
    BY DEF Stamp, ExportTypeOK, TimesOK
  <2>2. threads'[t].stamp <= clock'
    BY <1>1, <1>3, <2>1 DEF ExportTypeOK
  <2> QED
    BY <1>3, <2>1, <2>2, QuietTypes
<1>5. ASSUME ~overlap'
      PROVE  Serial'
  <2>1. Serial
    BY <1>5 DEF Stamp, ExportInv
  <2>2. Left(t) = {} /\ Left(t)' = Types
    <3>1. threads[t].todo = <<>> /\ threads'[t].todo = FileOrder
      BY <1>1, <1>3 DEF Stamp
    <3>2. DOMAIN threads[t].todo = {}
      BY <3>1
    <3> QED
      BY <3>1, <3>2, TypesCovered DEF Left
  <2>3. \A n \in Nodes : threads[t].snapshot[n] = nodes[n].content
    BY <2>1, <2>2 DEF Serial, ExportKnows, Stamp
  <2>4. ExportKnows(t)'
    BY <1>1, <1>3, <2>2, <2>3, TypesCovered DEF ExportKnows, Stamp
  <2>5. MissingIsNewer'
    BY <2>1 DEF Serial, MissingIsNewer, Live, Stamp
  <2> QED
    BY <1>1, <1>3, <2>1, <2>4, <2>5, WithinSerial DEF Stamp, Exporting
<1> QED
  BY <1>4, <1>5 DEF ExportInv

LEMMA WriteFileStep ==
  ASSUME ExportInv, NEW t \in Threads, WriteFile(t)
  PROVE  ExportInv'
<1> DEFINE type == Head(threads[t].todo)
           record == [threads[t] EXCEPT !.todo = Tail(@)]
<1> ExportTypeOK /\ TimesOK
  BY DEF ExportInv
<1>1. /\ record \in Recorded /\ record.step = "write" /\ record.stamp = threads[t].stamp
      /\ record.snapshot = threads[t].snapshot /\ record.todo = Tail(threads[t].todo)
  BY Held DEF WriteFile, Recorded
<1>2. threads' = [threads EXCEPT ![t] = record]
  BY DEF WriteFile, ExportTypeOK
<1>3. StepOf(t) /\ threads'[t] = record
  BY <1>1, <1>2, NewRecord
<1> HIDE DEF record
<1>4. /\ files' \in [Nodes -> Nat]
      /\ \A n \in Nodes : files'[n] = IF TypeOf[n] = type THEN threads[t].snapshot[n] ELSE files[n]
  BY Held DEF WriteFile, OfType, ExportTypeOK, Recorded
<1>5. ExportTypeOK' /\ TimesOK'
  <2>1. /\ manifest' \in Nat /\ manifest' <= clock'
        /\ failures' \in Nat /\ clock' = clock /\ UNCHANGED <<nodes, overlap>>
    BY DEF WriteFile, ExportTypeOK, TimesOK
  <2>2. threads'[t].stamp <= clock'
    BY <1>1, <1>3, <2>1, Held
  <2> QED
    BY <1>3, <1>4, <2>1, <2>2, QuietTypes
<1>6. ASSUME ~overlap'
      PROVE  Serial'
  <2>1. Serial
    BY <1>6 DEF WriteFile, ExportInv
  <2>2. \A n \in Nodes : threads[t].snapshot[n] = nodes[n].content
    BY <2>1 DEF Serial, ExportKnows, WriteFile
  <2>3. \A n \in Nodes : TypeOf[n] \notin Left(t)' => files'[n] = nodes'[n].content
    <3> SUFFICES ASSUME NEW n \in Nodes, TypeOf[n] \notin Left(t)'
                 PROVE  files'[n] = nodes'[n].content
      OBVIOUS
    <3>1. CASE TypeOf[n] = type
      BY <1>4, <2>2, <3>1 DEF WriteFile
    <3>2. CASE TypeOf[n] # type
      <4>1. TypeOf[n] \notin Left(t)
        <5> SUFFICES ASSUME NEW i \in DOMAIN threads[t].todo, threads[t].todo[i] = TypeOf[n]
                     PROVE  FALSE
          BY DEF Left
        <5>1. threads[t].todo \in Seq(Types) /\ threads[t].todo # <<>>
          BY Held DEF WriteFile, Recorded
        <5>2. \E j \in DOMAIN Tail(threads[t].todo) : TypeOf[n] = Tail(threads[t].todo)[j]
          BY <3>2, <5>1, AfterHead
        <5> QED
          BY <1>1, <1>3, <5>2 DEF Left
      <4>2. files[n] = nodes[n].content
        BY <2>1, <4>1 DEF Serial, ExportKnows, WriteFile
      <4> QED
        BY <1>4, <3>2, <4>2 DEF WriteFile
    <3> QED
      BY <3>1, <3>2
  <2>4. ExportKnows(t)'
    BY <1>1, <1>3, <2>2, <2>3 DEF ExportKnows, WriteFile
  <2>5. MissingIsNewer'
    <3> SUFFICES ASSUME NEW n \in Nodes, Live(n)', files'[n] # nodes'[n].content
                 PROVE  nodes'[n].updated > manifest'
      BY DEF MissingIsNewer
    <3>1. Live(n) /\ files[n] # nodes[n].content
      BY <1>4, <2>2 DEF WriteFile, Live
    <3> QED
      BY <2>1, <3>1 DEF Serial, MissingIsNewer, WriteFile
  <2> QED
    BY <1>1, <1>3, <2>1, <2>4, <2>5, WithinSerial DEF WriteFile, Exporting
<1> QED
  BY <1>5, <1>6 DEF ExportInv

LEMMA OpenManifestStep ==
  ASSUME ExportInv, NEW t \in Threads, OpenManifest(t)
  PROVE  ExportInv'
<1> DEFINE record == [threads[t] EXCEPT !.step = "manifest"]
<1> ExportTypeOK /\ TimesOK
  BY DEF ExportInv
<1>1. /\ record \in Recorded /\ record.step = "manifest" /\ record.stamp = threads[t].stamp
      /\ record.snapshot = threads[t].snapshot
  BY Held DEF Recorded, Steps
<1>2. threads' = [threads EXCEPT ![t] = record]
  BY DEF OpenManifest, ExportTypeOK
<1>3. StepOf(t) /\ threads'[t] = record
  BY <1>1, <1>2, NewRecord
<1> HIDE DEF record
<1>4. ExportTypeOK' /\ TimesOK'
  <2>1. /\ manifest' \in Nat /\ manifest' <= clock' /\ files' \in [Nodes -> Nat]
        /\ failures' \in Nat /\ clock' = clock /\ UNCHANGED <<nodes, overlap>>
    BY DEF OpenManifest, ExportTypeOK, TimesOK
  <2>2. threads'[t].stamp <= clock'
    BY <1>1, <1>3, <2>1, Held
  <2> QED
    BY <1>3, <2>1, <2>2, QuietTypes
<1>5. ASSUME ~overlap'
      PROVE  Serial'
  <2>1. Serial
    BY <1>5 DEF OpenManifest, ExportInv
  <2>2. DOMAIN threads[t].todo = {}
    BY DEF OpenManifest
  <2>3. \A n \in Nodes : TypeOf[n] \notin Left(t)
    BY <2>2 DEF Left
  <2>4. \A n \in Nodes : threads[t].snapshot[n] = nodes[n].content /\ files[n] = nodes[n].content
    BY <2>1, <2>3 DEF Serial, ExportKnows, OpenManifest
  <2>5. ExportKnows(t)' /\ MissingIsNewer'
    BY <1>1, <1>3, <2>4 DEF ExportKnows, MissingIsNewer, OpenManifest
  <2> QED
    BY <1>1, <1>3, <2>1, <2>5, WithinSerial DEF OpenManifest, Exporting
<1> QED
  BY <1>4, <1>5 DEF ExportInv

LEMMA WriteManifestStep ==
  ASSUME ExportInv, NEW t \in Threads, WriteManifest(t)
  PROVE  ExportInv'
<1> ExportTypeOK /\ TimesOK
  BY DEF ExportInv
<1>1. StepOf(t) /\ threads'[t] = Resting
  BY RestingIsRecorded, NewRecord DEF WriteManifest
<1>2. ExportTypeOK' /\ TimesOK'
  <2>1. /\ manifest' \in Nat /\ manifest' <= clock' /\ files' \in [Nodes -> Nat]
        /\ failures' \in Nat /\ clock' = clock /\ UNCHANGED <<nodes, overlap>>
    BY Held DEF WriteManifest, ExportTypeOK, Recorded
  <2>2. threads'[t].stamp <= clock'
    BY <1>1, <2>1, RestingIsRecorded DEF ExportTypeOK
  <2> QED
    BY <1>1, <2>1, <2>2, QuietTypes
<1>3. ASSUME ~overlap'
      PROVE  Serial'
  <2>1. Serial
    BY <1>3 DEF WriteManifest, ExportInv
  <2>2. \A n \in Nodes : files'[n] = nodes'[n].content
    BY <2>1 DEF Serial, ExportKnows, WriteManifest
  <2>3. \A u \in Threads : ~Exporting(u)'
    BY <1>1, <2>1, OnlyOne, RestingIsRecorded DEF WriteManifest, Exporting
  <2>4. OneExports' /\ MissingIsNewer' /\ IsExact'
    BY <2>2, <2>3 DEF OneExports, MissingIsNewer, IsExact
  <2> QED
    BY <2>3, <2>4, IdleKnows DEF Serial
<1> QED
  BY <1>2, <1>3 DEF ExportInv

LEMMA FailStep ==
  ASSUME ExportInv, NEW t \in Threads, Fail(t)
  PROVE  ExportInv'
<1> ExportTypeOK /\ TimesOK
  BY DEF ExportInv
<1>1. StepOf(t) /\ threads'[t] = Resting
  BY RestingIsRecorded, NewRecord DEF Fail
<1>2. failures' \in Nat /\ failures' # 0
  BY DEF Fail, ExportTypeOK
<1>3. ExportTypeOK' /\ TimesOK'
  <2>1. /\ manifest' \in Nat /\ manifest' <= clock' /\ files' \in [Nodes -> Nat]
        /\ clock' = clock /\ UNCHANGED <<nodes, overlap>>
    BY DEF Fail, ExportTypeOK, TimesOK
  <2>2. threads'[t].stamp <= clock'
    BY <1>1, <2>1, RestingIsRecorded DEF ExportTypeOK
  <2> QED
    BY <1>1, <1>2, <2>1, <2>2, QuietTypes
<1>4. ASSUME ~overlap'
      PROVE  Serial'
  <2>1. Serial
    BY <1>4 DEF Fail, ExportInv
  <2>2. ~Exporting(t)' /\ \A u \in Threads : Exporting(u)' => Exporting(u)
    BY <1>1, RestingIsRecorded DEF StepOf, Exporting
  <2>3. OneExports'
    BY <2>1, <2>2 DEF Serial, OneExports
  <2>4. \A u \in Threads : ExportKnows(u)'
    <3> TAKE u \in Threads
    <3>1. CASE u = t
      BY <2>2, <3>1, IdleKnows
    <3>2. CASE u # t
      BY <1>1, <2>1, <3>2, ContentKept DEF Serial, StepOf, Fail
    <3> QED
      BY <3>1, <3>2
  <2>5. MissingIsNewer'
    BY <2>1 DEF Serial, MissingIsNewer, Live, Fail
  <2> QED
    BY <1>2, <2>3, <2>4, <2>5 DEF Serial
<1> QED
  BY <1>3, <1>4 DEF ExportInv

-----------------------------------------------------------------------------
LEMMA ExportInvInit == ExportInit => ExportInv
<1> SUFFICES ASSUME ExportInit PROVE ExportInv
  OBVIOUS
<1>1. \A t \in Threads : threads[t] = Resting
  BY DEF ExportInit
<1>2. ExportTypeOK
  BY RestingIsRecorded DEF ExportInit, ExportTypeOK, Recorded, None
<1>3. TimesOK
  BY <1>1, RestingIsRecorded DEF ExportInit, TimesOK, Live, None
<1>4. \A t \in Threads : ~Exporting(t)
  BY <1>1, RestingIsRecorded DEF Exporting
<1>5. OneExports /\ \A t \in Threads : ExportKnows(t)
  BY <1>4 DEF OneExports, ExportKnows, Exporting
<1>6. MissingIsNewer /\ IsExact
  BY DEF ExportInit, MissingIsNewer, IsExact
<1> QED
  BY <1>2, <1>3, <1>5, <1>6 DEF ExportInv, Serial

LEMMA ExportInvStep == ExportInv /\ [ExportNext]_exportVars => ExportInv'
<1> SUFFICES ASSUME ExportInv, [ExportNext]_exportVars PROVE ExportInv'
  OBVIOUS
<1>1. ASSUME NEW t \in Editors, NEW n \in Nodes, Publish(t, n) PROVE ExportInv'
  BY <1>1, CommandStep DEF Publish, Threads
<1>2. ASSUME NEW t \in Editors, NEW n \in Nodes, Withdraw(t, n) PROVE ExportInv'
  BY <1>2, CommandStep DEF Withdraw, Threads
<1>3. ASSUME NEW t \in Editors, Export(t) PROVE ExportInv'
  <2>1. ~Exporting(t)
    BY <1>3, RestingIsRecorded DEF Export, Exporting
  <2> QED
    BY <1>3, <2>1, BareExportStep DEF Export, Threads
<1>4. ASSUME NEW t \in Workers, NEW n \in Nodes, NEW live \in BOOLEAN, ApplyDue(t, n, live)
      PROVE  ExportInv'
  BY <1>4, ApplyDueStep DEF Threads
<1>5. ASSUME NEW n \in Nodes, SaveDraft(n) PROVE ExportInv'
  BY <1>5, SaveDraftStep
<1>6. ASSUME NEW t \in Workers, AskStatus(t) PROVE ExportInv'
  BY <1>6, AskStatusStep DEF Threads
<1>7. ASSUME NEW t \in Threads, RefreshAfterDue(t) PROVE ExportInv'
  BY <1>7, BareExportStep DEF RefreshAfterDue, Exporting
<1>8. ASSUME NEW t \in Threads, ExportStep(t) PROVE ExportInv'
  BY <1>7, <1>8, LookUpLatestStep, DecideStep, ReadTypeStep, StampStep, WriteFileStep,
     OpenManifestStep, WriteManifestStep DEF ExportStep
<1>9. ASSUME NEW t \in Threads, Fail(t) PROVE ExportInv'
  BY <1>9, FailStep
<1>10. CASE UNCHANGED exportVars
  BY <1>10 DEF exportVars, ExportInv, ExportTypeOK, TimesOK, Live, Serial, OneExports, Exporting,
               ExportKnows, Left, MissingIsNewer, Settled, IsExact
<1> QED
  BY <1>1, <1>2, <1>3, <1>4, <1>5, <1>6, <1>8, <1>9, <1>10 DEF ExportNext, EditStep

LEMMA ExportInvAlways == ExportSpec => []ExportInv
BY ExportInvInit, ExportInvStep, PTL DEF ExportSpec

\* For any nodes of the managed types, and any number of threads and processes
\* that publish, withdraw and export: as long as no export runs beside other
\* changes, a publication that is not in the files, for whatever failure, is
\* newer than the manifest, and so the job's question leads to an export.
THEOREM MissingIsNoticed == ExportSpec => []MissedIsNoticed
<1>1. ExportInv => MissedIsNoticed
  <2> SUFFICES ASSUME ExportInv, Quiet, ~overlap,
                      NEW n \in Nodes, Live(n), files[n] # nodes[n].content
               PROVE  NeedsExport
    BY DEF MissedIsNoticed
  <2> DEFINE published == {m \in Nodes : Live(m)}
  <2>1. nodes[n].updated > manifest
    BY DEF ExportInv, Serial, MissingIsNewer
  <2>2. Latest(published) \in Nat /\ nodes[n].updated <= Latest(published)
    BY LatestIsMaximum DEF ExportInv
  <2> HIDE DEF published
  <2>3. Latest(published) # 0 /\ Latest(published) > manifest
    BY <2>1, <2>2 DEF ExportInv, ExportTypeOK
  <2> QED
    BY <2>3 DEF NeedsExport, Outdated, published
<1> QED
  BY <1>1, ExportInvAlways, PTL

\* With neither failures nor overlaps, the files are exactly the published nodes
\* whenever every command has ended: what was withdrawn is gone from them.
THEOREM FilesAreExact == ExportSpec => []SerialExportIsExact
<1>1. ExportInv => SerialExportIsExact
  BY DEF ExportInv, Serial, Settled, IsExact, SerialExportIsExact, Quiet, Exporting
<1> QED
  BY <1>1, ExportInvAlways, PTL
=============================================================================
