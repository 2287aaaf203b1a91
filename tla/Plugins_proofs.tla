----------------------------- MODULE Plugins_proofs -------------------------
(***************************************************************************)
(* What becomes of plugins and modules.                                    *)
(*                                                                         *)
(* The folder of an installed module holds one release, for any releases   *)
(* of any files, any number of installers, and ends of processes anywhere. *)
(* What makes it so is the order of the file operations: the installer who *)
(* is alone at the folders has the whole release in the staging folder     *)
(* before anything of the module is removed. While it copies, what is      *)
(* there and what is still to do make up the release, unless a copy failed.*)
(*                                                                         *)
(* Every plugin that is enabled and sound is heard when all is done, for   *)
(* any catalogue, any number of threads and of hosts. It is enough to know *)
(* that such a plugin is either subscribed by some host, or still ahead of *)
(* a thread that builds one or is about to: a thread passes a plugin over  *)
(* only while it is off or fails, and whoever changes its row builds next. *)
(*                                                                         *)
(* A workflow scheme comes out of the store as it went in, for any schemes *)
(* and processes, replicas and saves. That reading undoes drawing is a fact*)
(* about the two alone (RoundTrip), for schemes that validate() finds      *)
(* nothing wrong with; the invariant says who has which of them.           *)
(*                                                                         *)
(* The analysis of impact answers with exactly what the dependencies lead  *)
(* to, for any items and relationships: by induction over the turns of its *)
(* loop, in which what was seen and is not waiting has been looked at. No  *)
(* removal leaves an edge without its ends, except one that was being made *)
(* meanwhile: a removal knows the edges it found, and is known to others.  *)
(***************************************************************************)
EXTENDS Marketplace, PluginHost, SchemeStore, Cmdb, TLAPS, SequenceTheorems,
        WellFoundedInduction, NaturalsInduction, FiniteSetTheorems

AllFiles == UNION {WholeRelease(r) : r \in Releases}
Folders == [there: BOOLEAN, files: SUBSET AllFiles]
Stages == {"idle", "asked", "verified", "unpacked",
           "clearing", "staging", "copying", "replacing", "renaming"}
JobRows == [at: Stages, expected: Releases \cup {0}, replace: BOOLEAN,
            package: SUBSET AllFiles, todo: SUBSET AllFiles, failed: BOOLEAN]

MarketTypeOK ==
  /\ sources \in Releases
  /\ archive \in [release: Releases \cup {0}, closed: BOOLEAN]
  /\ index \in Releases \cup {0}
  /\ staging \in Folders /\ installed \in Folders
  /\ jobs \in [Installers -> JobRows]
  /\ torn \in BOOLEAN /\ shared \in BOOLEAN

\* No release lies in an archive that is closed and of none.
ArchiveIsSound ==
  /\ archive.closed => archive.release \in Releases
  /\ build = "writing" => archive.release \in Releases

Unpacked(i) == jobs[i].at = "unpacked" \/ AtFolders(i)
PackagesAreWhole ==
  \A i \in Installers : Unpacked(i) => \E r \in Releases : jobs[i].package = WholeRelease(r)

OneAtFolders == \A i, j \in Installers : AtFolders(i) /\ AtFolders(j) => i = j

\* What the installer at the folders knows of the staging folder.
StagingKnown(i) ==
  /\ jobs[i].at = "copying" =>
       /\ staging.there /\ staging.files \subseteq jobs[i].package
       /\ jobs[i].todo \subseteq jobs[i].package
       /\ ~jobs[i].failed => staging.files \cup jobs[i].todo = jobs[i].package
  /\ jobs[i].at \in {"replacing", "renaming"} => staging.files = jobs[i].package

HeldWhole ==
  installed.there =>
    \E r \in Releases :
      \/ installed.files = WholeRelease(r)
      \/ installed.files \subseteq WholeRelease(r) /\ torn

MarketInv ==
  /\ MarketTypeOK
  /\ ArchiveIsSound
  /\ PackagesAreWhole
  /\ ~shared => OneAtFolders /\ HeldWhole /\ \A i \in Installers : StagingKnown(i)

-----------------------------------------------------------------------------
LEMMA FilesOfRelease ==
  ASSUME NEW r \in Releases
  PROVE  /\ WholeRelease(r) \subseteq AllFiles
         /\ \A f, g \in WholeRelease(r) : f[1] = g[1] => f = g
BY DEF WholeRelease, AllFiles

LEMMA RowsOfJobs ==
  /\ NoJob \in JobRows /\ NoJob.at = "idle"
  /\ NoFolder \in Folders /\ NoFolder.there = FALSE /\ NoFolder.files = {}
  /\ \A files \in SUBSET AllFiles :
       Folder(files) \in Folders /\ Folder(files).there /\ Folder(files).files = files
BY DEF NoJob, JobRows, Stages, NoFolder, Folder, Folders

\* A step of i leaves every other installer where it is.
StepOf(i) ==
  /\ jobs' \in [Installers -> JobRows]
  /\ \A j \in Installers \ {i} : jobs'[j] = jobs[j]

LEMMA NewRow ==
  ASSUME MarketTypeOK, NEW i \in Installers, NEW row \in JobRows,
         jobs' = [jobs EXCEPT ![i] = row]
  PROVE  StepOf(i) /\ jobs'[i] = row
BY DEF MarketTypeOK, StepOf

LEMMA Ended ==
  ASSUME MarketTypeOK, NEW i \in Installers, EndJob(i)
  PROVE  StepOf(i) /\ jobs'[i].at = "idle" /\ ~AtFolders(i)' /\ ~Unpacked(i)'
<1>1. StepOf(i) /\ jobs'[i] = NoJob
  BY RowsOfJobs, NewRow DEF EndJob
<1> QED
  BY <1>1, RowsOfJobs DEF AtFolders, Unpacked

LEMMA Moved ==
  ASSUME MarketTypeOK, NEW i \in Installers, NEW at \in Stages, To(i, at)
  PROVE  /\ StepOf(i) /\ jobs'[i] \in JobRows /\ jobs'[i].at = at
         /\ jobs'[i].package = jobs[i].package /\ jobs'[i].todo = jobs[i].todo
         /\ jobs'[i].failed = jobs[i].failed
<1> DEFINE row == [jobs[i] EXCEPT !.at = at]
<1>1. /\ row \in JobRows /\ row.at = at /\ row.package = jobs[i].package
      /\ row.todo = jobs[i].todo /\ row.failed = jobs[i].failed
  BY DEF MarketTypeOK, JobRows
<1>2. jobs' = [jobs EXCEPT ![i] = row]
  BY DEF To, MarketTypeOK
<1> HIDE DEF row
<1> QED
  BY <1>1, <1>2, NewRow

-----------------------------------------------------------------------------
(* The builder, whom installers meet at the archive only.                  *)

LEMMA BuilderKeeps ==
  ASSUME MarketInv, UNCHANGED <<folderVars, jobs>>,
         sources' \in Releases, index' \in Releases \cup {0},
         archive' \in [release: Releases \cup {0}, closed: BOOLEAN], ArchiveIsSound'
  PROVE  MarketInv'
<1>1. MarketTypeOK'
  BY DEF MarketInv, MarketTypeOK, folderVars
<1>2. PackagesAreWhole'
  BY DEF MarketInv, PackagesAreWhole, Unpacked, AtFolders
<1>3. ~shared' => OneAtFolders' /\ HeldWhole' /\ \A i \in Installers : StagingKnown(i)'
  BY DEF MarketInv, OneAtFolders, HeldWhole, StagingKnown, AtFolders, folderVars
<1> QED
  BY <1>1, <1>2, <1>3 DEF MarketInv

LEMMA BuilderInv == ASSUME MarketInv, BuilderStep PROVE MarketInv'
<1> DEFINE Archives == [release: Releases \cup {0}, closed: BOOLEAN]
<1>1. /\ sources \in Releases /\ index \in Releases \cup {0} /\ archive \in Archives
      /\ ArchiveIsSound
  BY DEF MarketInv, MarketTypeOK
<1>2. NoFile \in Archives /\ ~NoFile.closed
  BY DEF NoFile
<1>3. ASSUME NEW r \in Releases, Develop(r) PROVE MarketInv'
  BY <1>1, <1>3, BuilderKeeps DEF Develop, ArchiveIsSound
<1>4. ASSUME NEW replace \in BOOLEAN, BuildOne(replace) PROVE MarketInv'
  BY <1>1, <1>2, <1>4, BuilderKeeps DEF BuildOne, ArchiveIsSound
<1>5. CASE OpenArchive
  <2>1. archive' \in Archives /\ ~archive'.closed /\ archive'.release \in Releases
    BY <1>1, <1>5 DEF OpenArchive
  <2> QED
    BY <1>1, <1>5, <2>1, BuilderKeeps DEF OpenArchive, ArchiveIsSound
<1>6. CASE CloseArchive
  <2>1. archive' \in Archives /\ archive'.release = archive.release
    BY <1>1, <1>6 DEF CloseArchive
  <2> QED
    BY <1>1, <1>6, <2>1, BuilderKeeps DEF CloseArchive, ArchiveIsSound
<1>7. CASE EmptyIndex
  BY <1>1, <1>7, BuilderKeeps DEF EmptyIndex, ArchiveIsSound
<1>8. CASE WriteIndex
  BY <1>1, <1>8, BuilderKeeps DEF WriteIndex, ArchiveIsSound
<1>9. CASE StopBuild
  BY <1>1, <1>9, BuilderKeeps DEF StopBuild, ArchiveIsSound
<1> QED
  BY <1>3, <1>4, <1>5, <1>6, <1>7, <1>8, <1>9 DEF BuilderStep

-----------------------------------------------------------------------------
(* Installers away from the folders, or leaving them.                      *)

LEMMA OutsideKeeps ==
  ASSUME MarketInv, NEW i \in Installers, StepOf(i), ~AtFolders(i)',
         Unpacked(i)' => \E r \in Releases : jobs'[i].package = WholeRelease(r),
         UNCHANGED <<shopVars, folderVars>>
  PROVE  MarketInv'
<1>1. MarketTypeOK'
  BY DEF MarketInv, MarketTypeOK, StepOf, shopVars, folderVars
<1>2. ArchiveIsSound'
  BY DEF MarketInv, ArchiveIsSound, shopVars
<1>3. PackagesAreWhole'
  BY DEF MarketInv, PackagesAreWhole, Unpacked, AtFolders, StepOf
<1>4. ASSUME ~shared'
      PROVE  OneAtFolders' /\ HeldWhole' /\ \A j \in Installers : StagingKnown(j)'
  <2>1. OneAtFolders /\ HeldWhole /\ \A j \in Installers : StagingKnown(j)
    BY <1>4 DEF MarketInv, folderVars
  <2>2. OneAtFolders'
    BY <2>1 DEF OneAtFolders, AtFolders, StepOf
  <2>3. HeldWhole'
    BY <2>1 DEF HeldWhole, folderVars
  <2>4. StagingKnown(i)'
    BY DEF StagingKnown, AtFolders
  <2>5. \A j \in Installers \ {i} : StagingKnown(j)'
    BY <2>1 DEF StagingKnown, StepOf, folderVars
  <2> QED
    BY <2>2, <2>3, <2>4, <2>5
<1> QED
  BY <1>1, <1>2, <1>3, <1>4 DEF MarketInv

LEMMA EndKeeps ==
  ASSUME MarketInv, NEW i \in Installers, EndJob(i), UNCHANGED <<shopVars, folderVars>>
  PROVE  MarketInv'
BY Ended, OutsideKeeps DEF MarketInv

LEMMA AskKeeps ==
  ASSUME MarketInv, NEW i \in Installers, NEW expected \in Releases \cup {0},
         NEW replace \in BOOLEAN, Ask(i, expected, replace)
  PROVE  MarketInv'
<1> DEFINE row == [NoJob EXCEPT !.at = "asked", !.expected = expected, !.replace = replace]
<1>1. row \in JobRows /\ row.at = "asked"
  BY RowsOfJobs DEF JobRows, Stages
<1>2. StepOf(i) /\ jobs'[i] = row
  BY <1>1, NewRow DEF Ask, MarketInv
<1> QED
  BY <1>1, <1>2, OutsideKeeps DEF Ask, AtFolders, Unpacked

LEMMA VerifyKeeps ==
  ASSUME MarketInv, NEW i \in Installers, Verify(i)
  PROVE  MarketInv'
<1>1. CASE To(i, "verified")
  <2>1. StepOf(i) /\ jobs'[i].at = "verified"
    BY <1>1, Moved DEF MarketInv, Stages
  <2> QED
    BY <2>1, OutsideKeeps DEF Verify, AtFolders, Unpacked
<1> QED
  BY <1>1, EndKeeps DEF Verify

LEMMA UnpackKeeps ==
  ASSUME MarketInv, NEW i \in Installers, Unpack(i)
  PROVE  MarketInv'
<1>1. CASE archive.closed
  <2> DEFINE row == [jobs[i] EXCEPT !.at = "unpacked", !.package = WholeRelease(archive.release)]
  <2>1. archive.release \in Releases
    BY <1>1 DEF MarketInv, ArchiveIsSound
  <2>2. /\ row \in JobRows /\ row.at = "unpacked"
        /\ row.package = WholeRelease(archive.release)
    BY <2>1, FilesOfRelease DEF MarketInv, MarketTypeOK, JobRows, Stages
  <2>3. jobs' = [jobs EXCEPT ![i] = row]
    BY <1>1 DEF Unpack, MarketInv, MarketTypeOK
  <2> HIDE DEF row
  <2>4. StepOf(i) /\ jobs'[i] = row
    BY <2>2, <2>3, NewRow DEF MarketInv
  <2> QED
    BY <2>1, <2>2, <2>4, OutsideKeeps DEF Unpack, AtFolders, Unpacked
<1>2. CASE ~archive.closed
  BY <1>2, EndKeeps DEF Unpack
<1> QED
  BY <1>1, <1>2

\* The only way to the folders: without others there, unless shared is set.
LEMMA BeginInstallKeeps ==
  ASSUME MarketInv, NEW i \in Installers, BeginInstall(i)
  PROVE  MarketInv'
<1>1. CASE installed.there /\ ~jobs[i].replace
  BY <1>1, EndKeeps DEF BeginInstall, folderVars
<1>2. CASE ~(installed.there /\ ~jobs[i].replace)
  <2> DEFINE row == [jobs[i] EXCEPT !.at = IF staging.there THEN "clearing" ELSE "staging",
                                    !.todo = staging.files]
  <2>1. /\ row \in JobRows /\ row.at \in {"clearing", "staging"} /\ row.package = jobs[i].package
    BY DEF MarketInv, MarketTypeOK, JobRows, Folders, Stages
  <2>2. jobs' = [jobs EXCEPT ![i] = row]
    BY <1>2 DEF BeginInstall, MarketInv, MarketTypeOK
  <2> HIDE DEF row
  <2>3. StepOf(i) /\ jobs'[i] = row
    BY <2>1, <2>2, NewRow DEF MarketInv
  <2>4. /\ shared' = (shared \/ \E j \in Installers \ {i} : AtFolders(j))
        /\ UNCHANGED <<shopVars, staging, installed, torn>>
    BY <1>2 DEF BeginInstall
  <2>5. MarketTypeOK' /\ ArchiveIsSound'
    BY <2>3, <2>4 DEF MarketInv, MarketTypeOK, ArchiveIsSound, StepOf, shopVars
  <2>6. PackagesAreWhole'
    BY <2>1, <2>3 DEF MarketInv, PackagesAreWhole, Unpacked, AtFolders, StepOf, BeginInstall
  <2>7. ASSUME ~shared'
        PROVE  OneAtFolders' /\ HeldWhole' /\ \A j \in Installers : StagingKnown(j)'
    <3>1. /\ \A j \in Installers \ {i} : ~AtFolders(j)
          /\ HeldWhole /\ \A j \in Installers : StagingKnown(j)
      BY <2>4, <2>7 DEF MarketInv
    <3>2. OneAtFolders'
      BY <2>3, <3>1 DEF OneAtFolders, AtFolders, StepOf
    <3>3. StagingKnown(i)'
      BY <2>1, <2>3 DEF StagingKnown
    <3>4. \A j \in Installers \ {i} : StagingKnown(j)'
      BY <2>3, <2>4, <3>1 DEF StagingKnown, StepOf
    <3>5. HeldWhole'
      BY <2>4, <3>1 DEF HeldWhole
    <3> QED
      BY <3>2, <3>3, <3>4, <3>5
  <2> QED
    BY <2>5, <2>6, <2>7 DEF MarketInv
<1> QED
  BY <1>1, <1>2

-----------------------------------------------------------------------------
(* An installer at the folders.                                            *)

\* Whoever is there keeps the package it has. Alone, it answers for what is
\* installed and for what it knows of the staging folder.
LEMMA InsideKeeps ==
  ASSUME MarketInv, NEW i \in Installers, AtFolders(i), StepOf(i),
         AtFolders(i)' => jobs'[i].package = jobs[i].package,
         ~AtFolders(i)' => ~Unpacked(i)',
         staging' \in Folders, installed' \in Folders, torn' \in BOOLEAN,
         UNCHANGED <<shopVars, shared>>,
         HeldWhole /\ StagingKnown(i) => HeldWhole' /\ StagingKnown(i)'
  PROVE  MarketInv'
<1>1. MarketTypeOK' /\ ArchiveIsSound'
  BY DEF MarketInv, MarketTypeOK, ArchiveIsSound, StepOf, shopVars
<1>2. PackagesAreWhole'
  BY DEF MarketInv, PackagesAreWhole, Unpacked, AtFolders, StepOf
<1>3. ASSUME ~shared'
      PROVE  OneAtFolders' /\ HeldWhole' /\ \A j \in Installers : StagingKnown(j)'
  <2>1. OneAtFolders /\ HeldWhole /\ StagingKnown(i)
    BY <1>3 DEF MarketInv
  <2>2. \A j \in Installers \ {i} : ~AtFolders(j)'
    BY <2>1 DEF OneAtFolders, AtFolders, StepOf
  <2>3. \A j \in Installers \ {i} : StagingKnown(j)'
    BY <2>2 DEF StagingKnown, AtFolders
  <2>4. OneAtFolders'
    BY <2>2 DEF OneAtFolders
  <2> QED
    BY <2>1, <2>3, <2>4
<1> QED
  BY <1>1, <1>2, <1>3 DEF MarketInv

\* An installer that leaves, whatever it did to the staging folder.
LEMMA LeavingKeeps ==
  ASSUME MarketInv, NEW i \in Installers, AtFolders(i), EndJob(i),
         staging' \in Folders, UNCHANGED <<shopVars, installed, torn, shared>>
  PROVE  MarketInv'
<1>1. StepOf(i) /\ ~AtFolders(i)' /\ ~Unpacked(i)'
  BY Ended DEF MarketInv
<1>2. StagingKnown(i)'
  BY <1>1 DEF StagingKnown, AtFolders
<1>3. HeldWhole => HeldWhole'
  BY DEF HeldWhole
<1> QED
  BY <1>1, <1>2, <1>3, InsideKeeps DEF MarketInv, MarketTypeOK

\* What removing a tree does to the job and to the folder.
LEMMA TreeRemoved ==
  ASSUME MarketTypeOK, NEW i \in Installers, NEW at \in Stages, NEW next \in Stages,
         NEW folder \in Folders, NEW after,
         jobs[i].at = at,
         \/ \E f \in jobs[i].todo :
              /\ after = [folder EXCEPT !.files = @ \ {f}]
              /\ IF f \in folder.files
                 THEN jobs' = [jobs EXCEPT ![i].todo = @ \ {f}]
                 ELSE EndJob(i)
         \/ /\ jobs[i].todo = {}
            /\ IF folder = Folder({})
               THEN after = NoFolder /\ To(i, next)
               ELSE after = folder /\ EndJob(i)
  PROVE  /\ StepOf(i) /\ after \in Folders
         /\ after.files \subseteq folder.files /\ (after.there => folder.there)
         /\ \/ ~AtFolders(i)' /\ ~Unpacked(i)'
            \/ jobs'[i].at \in {at, next} /\ jobs'[i].package = jobs[i].package
<1>1. ASSUME NEW f \in jobs[i].todo, after = [folder EXCEPT !.files = @ \ {f}]
      PROVE  after \in Folders /\ after.files \subseteq folder.files /\ after.there = folder.there
  BY <1>1 DEF Folders
<1>2. ASSUME NEW f \in jobs[i].todo, jobs' = [jobs EXCEPT ![i].todo = @ \ {f}]
      PROVE  StepOf(i) /\ jobs'[i].at = at /\ jobs'[i].package = jobs[i].package
  <2> DEFINE row == [jobs[i] EXCEPT !.todo = @ \ {f}]
  <2>1. row \in JobRows /\ row.at = at /\ row.package = jobs[i].package
    BY DEF MarketTypeOK, JobRows
  <2>2. jobs' = [jobs EXCEPT ![i] = row]
    BY <1>2 DEF MarketTypeOK
  <2> HIDE DEF row
  <2> QED
    BY <2>1, <2>2, NewRow
<1>3. CASE \E f \in jobs[i].todo :
              /\ after = [folder EXCEPT !.files = @ \ {f}]
              /\ IF f \in folder.files
                 THEN jobs' = [jobs EXCEPT ![i].todo = @ \ {f}]
                 ELSE EndJob(i)
  <2>1. PICK f \in jobs[i].todo :
              /\ after = [folder EXCEPT !.files = @ \ {f}]
              /\ IF f \in folder.files
                 THEN jobs' = [jobs EXCEPT ![i].todo = @ \ {f}]
                 ELSE EndJob(i)
    BY <1>3
  <2>2. after \in Folders /\ after.files \subseteq folder.files /\ after.there = folder.there
    BY <1>1, <2>1
  <2>3. CASE f \in folder.files
    BY <1>2, <2>1, <2>2, <2>3
  <2>4. CASE f \notin folder.files
    BY <2>1, <2>2, <2>4, Ended
  <2> QED
    BY <2>3, <2>4
<1>4. CASE jobs[i].todo = {} /\ folder = Folder({}) /\ after = NoFolder /\ To(i, next)
  BY <1>4, Moved, RowsOfJobs
<1>5. CASE jobs[i].todo = {} /\ folder # Folder({}) /\ after = folder /\ EndJob(i)
  BY <1>5, Ended
<1> QED
  BY <1>3, <1>4, <1>5

LEMMA ClearStagingKeeps ==
  ASSUME MarketInv, NEW i \in Installers, ClearStaging(i)
  PROVE  MarketInv'
<1>1. RemoveTree(i, "clearing", staging, "staging") /\ UNCHANGED <<shopVars, installed, torn, shared>>
  BY DEF ClearStaging
<1>2. /\ StepOf(i) /\ staging' \in Folders
      /\ \/ ~AtFolders(i)' /\ ~Unpacked(i)'
         \/ jobs'[i].at \in {"clearing", "staging"} /\ jobs'[i].package = jobs[i].package
  <2>1. MarketTypeOK /\ staging \in Folders /\ "clearing" \in Stages /\ "staging" \in Stages
    BY DEF Stages, MarketInv, MarketTypeOK
  <2>2. /\ jobs[i].at = "clearing"
        /\ \/ \E f \in jobs[i].todo :
                /\ staging' = [staging EXCEPT !.files = @ \ {f}]
                /\ IF f \in staging.files
                   THEN jobs' = [jobs EXCEPT ![i].todo = @ \ {f}]
                   ELSE EndJob(i)
           \/ /\ jobs[i].todo = {}
              /\ IF staging = Folder({})
                 THEN staging' = NoFolder /\ To(i, "staging")
                 ELSE staging' = staging /\ EndJob(i)
    BY <1>1 DEF RemoveTree
  <2> QED
    BY <2>1, <2>2, TreeRemoved
<1>3. AtFolders(i)
  BY <1>1 DEF RemoveTree, AtFolders
<1>4. StagingKnown(i)' /\ (~AtFolders(i)' => ~Unpacked(i)')
  BY <1>2 DEF StagingKnown, AtFolders
<1>5. HeldWhole => HeldWhole'
  BY <1>1 DEF HeldWhole
<1> QED
  BY <1>1, <1>2, <1>3, <1>4, <1>5, InsideKeeps DEF MarketInv, MarketTypeOK, AtFolders, Unpacked

LEMMA MakeStagingKeeps ==
  ASSUME MarketInv, NEW i \in Installers, MakeStaging(i)
  PROVE  MarketInv'
<1>1. AtFolders(i) /\ UNCHANGED <<shopVars, installed, torn, shared>>
  BY DEF MakeStaging, AtFolders
<1>2. CASE staging.there
  BY <1>1, <1>2, LeavingKeeps DEF MakeStaging, MarketInv, MarketTypeOK
<1>3. CASE ~staging.there
  <2> DEFINE row == [jobs[i] EXCEPT !.at = "copying", !.todo = jobs[i].package]
  <2>1. /\ row \in JobRows /\ row.at = "copying"
        /\ row.todo = jobs[i].package /\ row.package = jobs[i].package
    BY DEF MarketInv, MarketTypeOK, JobRows, Stages
  <2>2. jobs' = [jobs EXCEPT ![i] = row] /\ staging' = Folder({})
    BY <1>3 DEF MakeStaging, MarketInv, MarketTypeOK
  <2> HIDE DEF row
  <2>3. StepOf(i) /\ jobs'[i] = row
    BY <2>1, <2>2, NewRow DEF MarketInv
  <2>4. staging' \in Folders /\ staging'.there /\ staging'.files = {}
    BY <2>2, RowsOfJobs
  <2>5. StagingKnown(i)'
    BY <2>1, <2>3, <2>4 DEF StagingKnown
  <2>6. HeldWhole => HeldWhole'
    BY <1>1 DEF HeldWhole
  <2>7. AtFolders(i)'
    BY <2>1, <2>3 DEF AtFolders
  <2> QED
    BY <1>1, <2>1, <2>3, <2>4, <2>5, <2>6, <2>7, InsideKeeps DEF MarketInv, MarketTypeOK
<1> QED
  BY <1>2, <1>3

LEMMA CopyFileKeeps ==
  ASSUME MarketInv, NEW i \in Installers, CopyFile(i)
  PROVE  MarketInv'
<1>1. AtFolders(i) /\ jobs[i].at = "copying" /\ UNCHANGED <<shopVars, installed, torn, shared>>
  BY DEF CopyFile, AtFolders
<1>2. HeldWhole => HeldWhole'
  BY <1>1 DEF HeldWhole
<1>3. PICK f \in jobs[i].todo :
        \/ /\ staging.there
           /\ staging' = Folder({g \in staging.files : g[1] # f[1]} \cup {f})
           /\ jobs' = [jobs EXCEPT ![i].todo = @ \ {f}]
        \/ /\ jobs' = [jobs EXCEPT ![i].todo = @ \ {f}, ![i].failed = TRUE]
           /\ UNCHANGED staging
  BY DEF CopyFile
<1>4. PICK r \in Releases : jobs[i].package = WholeRelease(r)
  BY <1>1 DEF MarketInv, PackagesAreWhole, Unpacked
<1>5. CASE staging.there /\ staging' = Folder({g \in staging.files : g[1] # f[1]} \cup {f})
           /\ jobs' = [jobs EXCEPT ![i].todo = @ \ {f}]
  <2> DEFINE row == [jobs[i] EXCEPT !.todo = @ \ {f}]
             copied == {g \in staging.files : g[1] # f[1]} \cup {f}
  <2>1. /\ row \in JobRows /\ row.at = "copying" /\ row.package = jobs[i].package
        /\ row.todo = jobs[i].todo \ {f} /\ row.failed = jobs[i].failed
    BY <1>1 DEF MarketInv, MarketTypeOK, JobRows
  <2>2. jobs' = [jobs EXCEPT ![i] = row]
    BY <1>5 DEF MarketInv, MarketTypeOK
  <2>3. copied \in SUBSET AllFiles
    BY DEF MarketInv, MarketTypeOK, JobRows, Folders
  <2> HIDE DEF row
  <2>4. StepOf(i) /\ jobs'[i] = row
    BY <2>1, <2>2, NewRow DEF MarketInv
  <2>5. staging' \in Folders /\ staging'.there /\ staging'.files = copied
    BY <1>5, <2>3, RowsOfJobs
  <2>6. StagingKnown(i) => StagingKnown(i)'
    <3> SUFFICES ASSUME StagingKnown(i) PROVE StagingKnown(i)'
      OBVIOUS
    <3>1. staging.files \subseteq jobs[i].package /\ jobs[i].todo \subseteq jobs[i].package
      BY <1>1 DEF StagingKnown
    <3>2. copied = staging.files \cup {f}
      BY <1>4, <3>1, FilesOfRelease
    <3> HIDE DEF copied
    <3>3. ~jobs[i].failed => staging.files \cup jobs[i].todo = jobs[i].package
      BY <1>1 DEF StagingKnown
    <3> QED
      BY <2>1, <2>4, <2>5, <3>1, <3>2, <3>3 DEF StagingKnown
  <2>7. AtFolders(i)'
    BY <2>1, <2>4 DEF AtFolders
  <2> HIDE DEF copied
  <2> QED
    BY <1>1, <1>2, <2>1, <2>4, <2>5, <2>6, <2>7, InsideKeeps DEF MarketInv, MarketTypeOK
<1>6. CASE jobs' = [jobs EXCEPT ![i].todo = @ \ {f}, ![i].failed = TRUE] /\ UNCHANGED staging
  <2> DEFINE row == [jobs[i] EXCEPT !.todo = @ \ {f}, !.failed = TRUE]
  <2>1. /\ row \in JobRows /\ row.at = "copying" /\ row.package = jobs[i].package
        /\ row.todo = jobs[i].todo \ {f} /\ row.failed
    BY <1>1 DEF MarketInv, MarketTypeOK, JobRows
  <2>2. jobs' = [jobs EXCEPT ![i] = row]
    BY <1>6 DEF MarketInv, MarketTypeOK
  <2> HIDE DEF row
  <2>3. StepOf(i) /\ jobs'[i] = row
    BY <2>1, <2>2, NewRow DEF MarketInv
  <2>4. StagingKnown(i) => StagingKnown(i)'
    BY <1>1, <1>6, <2>1, <2>3 DEF StagingKnown
  <2>5. AtFolders(i)'
    BY <2>1, <2>3 DEF AtFolders
  <2> QED
    BY <1>1, <1>2, <1>6, <2>1, <2>3, <2>4, <2>5, InsideKeeps DEF MarketInv, MarketTypeOK
<1> QED
  BY <1>3, <1>5, <1>6

LEMMA EndCopyKeeps ==
  ASSUME MarketInv, NEW i \in Installers, EndCopy(i)
  PROVE  MarketInv'
<1>1. AtFolders(i) /\ jobs[i].at = "copying" /\ jobs[i].todo = {} /\ UNCHANGED <<shopVars, folderVars>>
  BY DEF EndCopy, AtFolders
<1>2. CASE jobs[i].failed
  BY <1>1, <1>2, LeavingKeeps DEF EndCopy, folderVars, MarketInv, MarketTypeOK
<1>3. CASE ~jobs[i].failed
  <2> DEFINE row == [jobs[i] EXCEPT !.at = IF installed.there THEN "replacing" ELSE "renaming",
                                    !.todo = installed.files]
  <2>1. row \in JobRows /\ row.at \in {"replacing", "renaming"} /\ row.package = jobs[i].package
    BY DEF MarketInv, MarketTypeOK, JobRows, Folders, Stages
  <2>2. jobs' = [jobs EXCEPT ![i] = row]
    BY <1>3 DEF EndCopy, MarketInv, MarketTypeOK
  <2> HIDE DEF row
  <2>3. StepOf(i) /\ jobs'[i] = row
    BY <2>1, <2>2, NewRow DEF MarketInv
  <2>4. StagingKnown(i) => StagingKnown(i)'
    BY <1>1, <1>3, <2>1, <2>3 DEF StagingKnown, folderVars
  <2>5. HeldWhole => HeldWhole'
    BY <1>1 DEF HeldWhole, folderVars
  <2>6. AtFolders(i)'
    BY <2>1, <2>3 DEF AtFolders
  <2> QED
    BY <1>1, <2>1, <2>3, <2>4, <2>5, <2>6, InsideKeeps DEF MarketInv, MarketTypeOK, folderVars
<1> QED
  BY <1>2, <1>3

LEMMA RemoveTargetKeeps ==
  ASSUME MarketInv, NEW i \in Installers, RemoveTarget(i)
  PROVE  MarketInv'
<1>1. /\ RemoveTree(i, "replacing", installed, "renaming")
      /\ torn' = installed'.there /\ UNCHANGED <<shopVars, staging, shared>>
  BY DEF RemoveTarget
<1>2. /\ StepOf(i) /\ installed' \in Folders
      /\ installed'.files \subseteq installed.files /\ (installed'.there => installed.there)
      /\ \/ ~AtFolders(i)' /\ ~Unpacked(i)'
         \/ jobs'[i].at \in {"replacing", "renaming"} /\ jobs'[i].package = jobs[i].package
  BY <1>1, TreeRemoved DEF RemoveTree, Stages, MarketInv, MarketTypeOK
<1>3. AtFolders(i) /\ jobs[i].at = "replacing"
  BY <1>1 DEF RemoveTree, AtFolders
<1>4. StagingKnown(i) => StagingKnown(i)'
  BY <1>1, <1>2, <1>3 DEF StagingKnown, AtFolders
<1>5. HeldWhole => HeldWhole'
  BY <1>1, <1>2 DEF HeldWhole
<1>6. torn' \in BOOLEAN
  BY <1>1, <1>2 DEF Folders
<1> QED
  BY <1>1, <1>2, <1>3, <1>4, <1>5, <1>6, InsideKeeps DEF MarketInv, MarketTypeOK, AtFolders, Unpacked

LEMMA RenameKeeps ==
  ASSUME MarketInv, NEW i \in Installers, Rename(i)
  PROVE  MarketInv'
<1>1. AtFolders(i) /\ jobs[i].at = "renaming" /\ EndJob(i) /\ UNCHANGED <<shopVars, shared>>
  BY DEF Rename, AtFolders
<1>2. CASE staging.there /\ installed.files = {}
  <2>1. installed' = staging /\ staging' = NoFolder /\ torn' = FALSE
    BY <1>2 DEF Rename
  <2>2. StepOf(i) /\ ~AtFolders(i)' /\ ~Unpacked(i)'
    BY <1>1, Ended DEF MarketInv
  <2>3. StagingKnown(i)'
    BY <2>2 DEF StagingKnown, AtFolders
  <2>4. StagingKnown(i) => HeldWhole'
    <3>1. PICK r \in Releases : jobs[i].package = WholeRelease(r)
      BY <1>1 DEF MarketInv, PackagesAreWhole, Unpacked
    <3> QED
      BY <1>1, <2>1, <3>1 DEF StagingKnown, HeldWhole
  <2> QED
    BY <1>1, <2>1, <2>2, <2>3, <2>4, RowsOfJobs, InsideKeeps DEF MarketInv, MarketTypeOK
<1>3. CASE ~(staging.there /\ installed.files = {})
  BY <1>1, <1>3, LeavingKeeps DEF Rename, MarketInv, MarketTypeOK
<1> QED
  BY <1>2, <1>3

-----------------------------------------------------------------------------
LEMMA MarketInvInit == MarketInit => MarketInv
<1> SUFFICES ASSUME MarketInit PROVE MarketInv
  OBVIOUS
<1>1. \A i \in Installers : jobs[i].at = "idle"
  BY RowsOfJobs DEF MarketInit
<1>2. MarketTypeOK
  BY RowsOfJobs DEF MarketInit, MarketTypeOK, NoFile
<1>3. ArchiveIsSound
  BY DEF MarketInit, ArchiveIsSound, NoFile
<1>4. PackagesAreWhole /\ OneAtFolders /\ \A i \in Installers : StagingKnown(i)
  BY <1>1 DEF PackagesAreWhole, OneAtFolders, StagingKnown, Unpacked, AtFolders
<1>5. HeldWhole
  BY RowsOfJobs DEF MarketInit, HeldWhole
<1> QED
  BY <1>2, <1>3, <1>4, <1>5 DEF MarketInv

LEMMA MarketInvStep == MarketInv /\ [MarketNext]_marketVars => MarketInv'
<1> SUFFICES ASSUME MarketInv, [MarketNext]_marketVars PROVE MarketInv'
  OBVIOUS
<1>1. ASSUME NEW i \in Installers, InstallerStep(i) PROVE MarketInv'
  <2>1. ASSUME NEW replace \in BOOLEAN,
               Ask(i, 0, replace) \/ (index # 0 /\ Ask(i, index, replace))
        PROVE  MarketInv'
    BY <2>1, AskKeeps DEF MarketInv, MarketTypeOK
  <2>2. ASSUME StopInstall(i) PROVE MarketInv'
    BY <2>2, EndKeeps DEF StopInstall
  <2> QED
    BY <1>1, <2>1, <2>2, VerifyKeeps, UnpackKeeps, BeginInstallKeeps, ClearStagingKeeps,
       MakeStagingKeeps, CopyFileKeeps, EndCopyKeeps, RemoveTargetKeeps, RenameKeeps
    DEF InstallerStep
<1>2. CASE UNCHANGED marketVars
  <2>1. UNCHANGED <<sources, archive, index, build, folderVars, jobs>>
    BY <1>2 DEF marketVars, shopVars
  <2> QED
    BY <2>1, BuilderKeeps DEF MarketInv, MarketTypeOK, ArchiveIsSound
<1> QED
  BY <1>1, <1>2, BuilderInv DEF MarketNext

\* What is installed is one release of the module, whole, or what is left of one
\* whose removal was not finished, for any releases, installers and failures, as
\* long as no two installers were at the folders at a time.
THEOREM OneReleaseIsInstalled == MarketSpec => []InstalledIsWhole
<1>1. MarketInv => InstalledIsWhole
  BY DEF MarketInv, HeldWhole, InstalledIsWhole
<1> QED
  BY <1>1, MarketInvInit, MarketInvStep, PTL DEF MarketSpec

-----------------------------------------------------------------------------
ConfigRow == [enabled : BOOLEAN, sound : BOOLEAN, stored : BOOLEAN]
Calls ==
  [at : {"idle", "saving", "reloading", "loading", "setup"}, plugin : Plugins \cup {""},
   row : ConfigRow, builds : Nat, todo : Seq(Plugins)]

PluginTypes ==
  /\ configRows \in [Plugins -> ConfigRow]
  /\ host \in Nat /\ hosts \in Nat
  /\ call \in [Managers -> Calls]
  /\ host <= hosts
  /\ \A m \in Managers :
       /\ call[m].at = "saving" => call[m].plugin \in Plugins
       /\ call[m].at \in {"loading", "setup"} => call[m].builds \in 1..hosts
       /\ call[m].at = "setup" => call[m].todo # <<>>

Heard(p) == \E h \in 1..hosts : <<h, p>> \in bus
Ahead(m, p) == \E i \in DOMAIN call[m].todo : call[m].todo[i] = p

\* Somebody will still ask for the row of p.
Awaited(p) ==
  \E m \in Managers :
    \/ call[m].at = "reloading"
    \/ call[m].at \in {"loading", "setup"} /\ Ahead(m, p)

HeardOrAwaited ==
  \A p \in Plugins :
    Enabled(p) /\ configRows[p].sound => Heard(p) \/ Awaited(p) \/ hosts = 0

PluginInv == PluginTypes /\ HeardOrAwaited

\* A thread that does nothing.
LEMMA NoCallFacts ==
  /\ NoCall \in Calls /\ NoCall.at = "idle" /\ NoCall.builds = 0 /\ NoCall.todo = <<>>
  /\ NoCall.plugin = "" /\ NoCall.row \in ConfigRow
<1>1. NoRow \in ConfigRow
  BY DEF NoRow, ConfigRow
<1>2. <<>> \in Seq(Plugins)
  OBVIOUS
<1> QED BY <1>1, <1>2 DEF NoCall, NoHost, Calls

\* A request that has read a row knows what to write (_require, _upsert).
LEMMA BeginSaveKeepsInv ==
  ASSUME PluginInv, NEW m \in Managers, NEW p \in Plugins, NEW row \in ConfigRow,
         BeginSave(m, p, row)
  PROVE  PluginInv'
<1>1. /\ call' = [call EXCEPT ![m].at = "saving", ![m].plugin = p, ![m].row = row]
      /\ call[m] = NoCall /\ UNCHANGED <<configRows, bus, host, hosts>>
  BY DEF BeginSave
<1>0. call[m].at = "idle"
  BY <1>1, NoCallFacts
<1>2. /\ call'[m].at = "saving" /\ call'[m].plugin = p /\ call'[m] \in Calls
      /\ \A o \in Managers \ {m} : call'[o] = call[o]
  BY <1>1 DEF PluginInv, PluginTypes, Calls
<1>3. PluginTypes'
  BY <1>1, <1>2 DEF PluginInv, PluginTypes
<1>4. \A q \in Plugins : Awaited(q) => Awaited(q)'
  BY <1>0, <1>1, <1>2 DEF Awaited, Ahead
<1>5. HeardOrAwaited'
  BY <1>1, <1>4 DEF PluginInv, HeardOrAwaited, Enabled, Heard
<1> QED BY <1>3, <1>5 DEF PluginInv

\* Whoever has written a row is about to build a host: everything is awaited.
LEMMA SaveKeepsInv ==
  ASSUME PluginInv, NEW m \in Managers, SaveRow(m)
  PROVE  PluginInv'
<1>1. /\ configRows' = [configRows EXCEPT ![call[m].plugin] = call[m].row]
      /\ call' = [call EXCEPT ![m] = [NoCall EXCEPT !.at = "reloading"]]
      /\ call[m].at = "saving" /\ UNCHANGED <<bus, host, hosts>>
  BY DEF SaveRow
<1> DEFINE c == [NoCall EXCEPT !.at = "reloading"]
<1>2. c \in Calls /\ c.at = "reloading"
  BY NoCallFacts DEF Calls
<1> HIDE DEF c
<1>3. call' = [call EXCEPT ![m] = c]
  BY <1>1 DEF c
<1>4. call'[m].at = "reloading" /\ \A o \in Managers \ {m} : call'[o] = call[o]
  BY <1>2, <1>3 DEF PluginInv, PluginTypes
<1>5. PluginTypes'
  <2>1. configRows' \in [Plugins -> ConfigRow]
    BY <1>1 DEF PluginInv, PluginTypes, Calls
  <2>2. call' \in [Managers -> Calls] /\ call'[m] = c
    BY <1>2, <1>3 DEF PluginInv, PluginTypes
  <2> QED BY <1>1, <1>2, <1>4, <2>1, <2>2 DEF PluginInv, PluginTypes
<1>6. HeardOrAwaited'
  BY <1>4 DEF HeardOrAwaited, Awaited
<1> QED BY <1>5, <1>6 DEF PluginInv

\* A host that is begun has the whole catalogue ahead (get_plugin_host).
LEMMA BuildKeepsInv ==
  ASSUME PluginInv, NEW m \in Managers, BuildHost(m)
  PROVE  PluginInv'
<1> DEFINE c == [NoCall EXCEPT !.at = "loading", !.builds = hosts + 1, !.todo = Catalog]
<1>1. /\ hosts' = hosts + 1 /\ call' = [call EXCEPT ![m] = c]
      /\ UNCHANGED <<configRows, bus, host>>
  BY DEF BuildHost
<1>2. c \in Calls /\ c.at = "loading" /\ c.builds = hosts + 1 /\ c.todo = Catalog
  <2>1. PICK n \in Nat : n = hosts + 1
    BY DEF PluginInv, PluginTypes
  <2>2. PICK todo \in Seq(Plugins) : todo = Catalog
    BY PluginsAssumption
  <2>3. PICK b \in Calls : b = NoCall
    BY NoCallFacts
  <2> DEFINE e == [b EXCEPT !.at = "loading", !.builds = n, !.todo = todo]
  <2>4. e \in Calls /\ e.at = "loading" /\ e.builds = n /\ e.todo = todo
    BY DEF Calls
  <2>5. e = c
    BY <2>1, <2>2, <2>3, Zenon
  <2> HIDE DEF e, c
  <2> QED BY <2>1, <2>2, <2>4, <2>5
<1> HIDE DEF c
<1>3. call'[m] = c /\ \A o \in Managers \ {m} : call'[o] = call[o]
  BY <1>1 DEF PluginInv, PluginTypes
<1>4. PluginTypes'
  BY <1>1, <1>2, <1>3 DEF PluginInv, PluginTypes
<1>5. \A p \in Plugins : Awaited(p)'
  BY <1>2, <1>3 DEF Awaited, Ahead, Plugins
<1> QED BY <1>4, <1>5 DEF PluginInv, HeardOrAwaited

\* The plugins that stay ahead of a thread that has dealt with the first one.
LEMMA AheadAfter ==
  ASSUME NEW todo \in Seq(Plugins), todo # <<>>
  PROVE  /\ Tail(todo) \in Seq(Plugins)
         /\ \A i \in DOMAIN todo :
              todo[i] = Head(todo) \/ \E j \in DOMAIN Tail(todo) : Tail(todo)[j] = todo[i]
<1>1. /\ Tail(todo) \in Seq(Plugins) /\ Len(Tail(todo)) = Len(todo) - 1
      /\ \A i \in 1..Len(Tail(todo)) : Tail(todo)[i] = todo[i + 1]
  BY HeadTailProperties
<1>2. ASSUME NEW i \in DOMAIN todo, i # 1
      PROVE  \E j \in DOMAIN Tail(todo) : Tail(todo)[j] = todo[i]
  <2>1. i - 1 \in 1..Len(Tail(todo)) /\ i - 1 + 1 = i
    BY <1>1, <1>2
  <2>2. Tail(todo)[i - 1] = todo[i]
    BY <1>1, <2>1
  <2> QED BY <1>1, <2>1, <2>2
<1>3. todo[1] = Head(todo)
  OBVIOUS
<1> QED BY <1>1, <1>2, <1>3

\* A thread that builds goes on to other plugins: only the first one, p, need
\* be looked at.
LEMMA DealtWithKeepsInv ==
  ASSUME PluginInv, NEW m \in Managers, call[m].at \in {"loading", "setup"},
         call[m].todo # <<>>,
         call' = [call EXCEPT ![m] = [call[m] EXCEPT !.at = "loading", !.todo = Tail(call[m].todo)]],
         UNCHANGED <<configRows, host, hosts>>, bus \subseteq bus',
         Enabled(Head(call[m].todo)) /\ configRows[Head(call[m].todo)].sound
           => <<call[m].builds, Head(call[m].todo)>> \in bus'
  PROVE  PluginInv'
<1> DEFINE c == call[m]
           d == [c EXCEPT !.at = "loading", !.todo = Tail(c.todo)]
<1>1. c \in Calls /\ c.todo \in Seq(Plugins) /\ c.builds \in 1..hosts
  BY DEF PluginInv, PluginTypes, Calls
<1>2. Tail(c.todo) \in Seq(Plugins)
  BY <1>1, AheadAfter
<1>3. d \in Calls /\ d.at = "loading" /\ d.todo = Tail(c.todo) /\ d.builds = c.builds
  BY <1>1, <1>2 DEF Calls
<1>4. call' = [call EXCEPT ![m] = d]
  OBVIOUS
<1> HIDE DEF d
<1>5. call'[m] = d /\ \A o \in Managers \ {m} : call'[o] = call[o]
  BY <1>4 DEF PluginInv, PluginTypes
<1>6. PluginTypes'
  BY <1>1, <1>3, <1>4, <1>5 DEF PluginInv, PluginTypes
<1>7. HeardOrAwaited'
  <2> SUFFICES ASSUME NEW p \in Plugins, Enabled(p), configRows[p].sound, hosts # 0
               PROVE  Heard(p)' \/ Awaited(p)'
    BY DEF HeardOrAwaited, Enabled
  <2>1. CASE Heard(p)
    BY <2>1 DEF Heard
  <2>2. CASE Awaited(p)
    <3>1. PICK o \in Managers : \/ call[o].at = "reloading"
                                \/ call[o].at \in {"loading", "setup"} /\ Ahead(o, p)
      BY <2>2 DEF Awaited
    <3>2. CASE o # m
      BY <1>5, <3>1, <3>2 DEF Awaited, Ahead
    <3>3. CASE o = m /\ p = Head(c.todo)
      BY <1>1, <3>3 DEF Heard
    <3>4. CASE o = m /\ p # Head(c.todo)
      <4>1. PICK i \in DOMAIN c.todo : c.todo[i] = p
        BY <3>1, <3>4 DEF Ahead
      <4>2. \E j \in DOMAIN Tail(c.todo) : Tail(c.todo)[j] = p
        BY <1>1, <3>4, <4>1, AheadAfter
      <4> QED BY <1>3, <1>5, <4>2 DEF Awaited, Ahead
    <3> QED BY <3>2, <3>3, <3>4
  <2> QED BY <2>1, <2>2 DEF PluginInv, HeardOrAwaited
<1> QED BY <1>6, <1>7 DEF PluginInv

\* The steps of PluginHost.load.
LEMMA LoadKeepsInv ==
  ASSUME PluginInv, NEW m \in Managers, AskEnabled(m) \/ Setup(m)
  PROVE  PluginInv'
<1> DEFINE c == call[m]
<1>1. CASE AskEnabled(m) /\ Enabled(Head(c.todo))
  <2>1. /\ call' = [call EXCEPT ![m] = [c EXCEPT !.at = "setup"]]
        /\ c.at = "loading" /\ c.todo # <<>> /\ UNCHANGED <<configRows, bus, host, hosts>>
    BY <1>1 DEF AskEnabled
  <2>2. /\ call'[m] \in Calls /\ call'[m].at = "setup" /\ call'[m].todo = c.todo
        /\ call'[m].builds = c.builds /\ \A o \in Managers \ {m} : call'[o] = call[o]
    BY <2>1 DEF PluginInv, PluginTypes, Calls
  <2>3. PluginTypes'
    BY <2>1, <2>2 DEF PluginInv, PluginTypes
  <2>4. \A p \in Plugins : Awaited(p) => Awaited(p)'
    BY <2>1, <2>2 DEF Awaited, Ahead
  <2> QED BY <2>1, <2>3, <2>4 DEF PluginInv, HeardOrAwaited, Enabled, Heard
<1>2. CASE AskEnabled(m) /\ ~Enabled(Head(c.todo))
  <2>1. /\ call' = [call EXCEPT ![m] = [c EXCEPT !.todo = Tail(@)]]
        /\ c.at = "loading" /\ c.todo # <<>> /\ UNCHANGED <<configRows, bus, host, hosts>>
    BY <1>2 DEF AskEnabled
  <2>2. [c EXCEPT !.todo = Tail(@)] = [c EXCEPT !.at = "loading", !.todo = Tail(c.todo)]
    BY <2>1 DEF PluginInv, PluginTypes, Calls
  <2> QED BY <1>2, <2>1, <2>2, DealtWithKeepsInv
<1>3. CASE Setup(m)
  <2>1. /\ call' = [call EXCEPT ![m] = [c EXCEPT !.at = "loading", !.todo = Tail(c.todo)]]
        /\ c.at = "setup" /\ c.todo # <<>> /\ UNCHANGED <<configRows, host, hosts>>
    BY <1>3 DEF Setup, PluginInv, PluginTypes, Calls
  <2>2. /\ bus \subseteq bus'
        /\ configRows[Head(c.todo)].sound => <<c.builds, Head(c.todo)>> \in bus'
    BY <1>3 DEF Setup, LoadOne
  <2> QED BY <2>1, <2>2, DealtWithKeepsInv
<1> QED BY <1>1, <1>2, <1>3

\* A host that is put in place has nothing ahead.
LEMMA PutKeepsInv ==
  ASSUME PluginInv, NEW m \in Managers, PutInPlace(m)
  PROVE  PluginInv'
<1>1. /\ host' = call[m].builds /\ call' = [call EXCEPT ![m] = NoCall]
      /\ call[m].at = "loading" /\ call[m].todo = <<>> /\ UNCHANGED <<configRows, bus, hosts>>
  BY DEF PutInPlace
<1>2. NoCall \in Calls /\ NoCall.at = "idle"
  BY NoCallFacts
<1>3. call'[m] = NoCall /\ \A o \in Managers \ {m} : call'[o] = call[o]
  BY <1>1 DEF PluginInv, PluginTypes
<1>4. PluginTypes'
  BY <1>1, <1>2, <1>3 DEF PluginInv, PluginTypes
<1>5. \A p \in Plugins : Awaited(p) => Awaited(p)'
  <2> SUFFICES ASSUME NEW p \in Plugins, Awaited(p) PROVE Awaited(p)'
    OBVIOUS
  <2>1. DOMAIN call[m].todo = {}
    BY <1>1
  <2> QED BY <1>1, <1>3, <2>1 DEF Awaited, Ahead
<1> QED BY <1>1, <1>4, <1>5 DEF PluginInv, HeardOrAwaited, Enabled, Heard

\* One bad plugin cannot break the others, nor can requests that overlap and
\* overwrite each other's rows: when all is done, what is enabled is heard.
THEOREM EnabledPluginsAreHeard == PluginSpec => []EnabledIsHeard
<1>1. PluginInit => PluginInv
  <2> SUFFICES ASSUME PluginInit PROVE PluginInv
    OBVIOUS
  <2>1. NoCall \in Calls /\ NoCall.at = "idle" /\ NoRow \in ConfigRow
    BY NoCallFacts DEF NoRow, ConfigRow
  <2> QED BY <2>1 DEF PluginInit, PluginInv, PluginTypes, HeardOrAwaited, NoHost
<1>2. PluginInv /\ [PluginNext]_pluginVars => PluginInv'
  <2> SUFFICES ASSUME PluginInv, [PluginNext]_pluginVars PROVE PluginInv'
    OBVIOUS
  <2>1. ASSUME NEW m \in Managers, NEW p \in Plugins, NEW choice \in BOOLEAN,
               SetEnabled(m, p, choice) \/ Configure(m, p, choice)
        PROVE  PluginInv'
    <3>1. /\ WithEnabled(configRows[p], choice) \in ConfigRow
          /\ WithSettings(configRows[p], choice) \in ConfigRow
      BY DEF WithEnabled, WithSettings, ConfigRow, PluginInv, PluginTypes
    <3> QED BY <2>1, <3>1, BeginSaveKeepsInv DEF SetEnabled, Configure
  <2>2. CASE PluginNext
    BY <2>1, <2>2, SaveKeepsInv, BuildKeepsInv, LoadKeepsInv, PutKeepsInv
       DEF PluginNext, ManagerStep
  <2>3. CASE UNCHANGED pluginVars
    BY <2>3 DEF pluginVars, PluginInv, PluginTypes, HeardOrAwaited, Enabled, Heard, Awaited, Ahead
  <2> QED BY <2>2, <2>3
<1>3. PluginInv => EnabledIsHeard
  <2> SUFFICES ASSUME PluginInv, host # NoHost, \A m \in Managers : call[m] = NoCall,
                      NEW p \in Plugins, Enabled(p), configRows[p].sound
               PROVE  Heard(p)
    BY DEF EnabledIsHeard, AtRest, Heard
  <2>1. hosts # 0
    BY DEF PluginInv, PluginTypes, NoHost
  <2>2. ~Awaited(p)
    BY NoCallFacts DEF Awaited
  <2> QED BY <2>1, <2>2 DEF PluginInv, HeardOrAwaited
<1> QED BY <1>1, <1>2, <1>3, PTL DEF PluginSpec

-----------------------------------------------------------------------------
(* Workflow schemes.                                                       *)

\* What a flow tells of its move.
LEMMA ArrowFields ==
  ASSUME NEW scheme, Formed(scheme), Sound(scheme),
         NEW m \in scheme.moves, NEW f \in Arrows(scheme, m)
  PROVE  /\ f.at = 0 /\ f.target = m.to /\ f.global = (m.from = {})
         /\ f.conditions = m.conditions /\ f.effects = m.effects
         /\ NameOf(f) = m.id /\ f.source \in Origins(scheme, m)
         /\ f.source \in Statuses(scheme) /\ f.target \in Statuses(scheme)
<1>1. PICK o \in Origins(scheme, m) :
        f = Flow(0, o, m.to, m.id, m.from = {}, m.conditions, m.effects)
  BY DEF Arrows
<1>2. f.source = o /\ f.move = m.id /\ m.id # "" /\ m.to \in Statuses(scheme)
  BY <1>1 DEF Flow, Formed, Sound
<1>3. o \in Statuses(scheme)
  BY DEF Origins
<1> QED
  BY <1>1, <1>2, <1>3 DEF Flow, NameOf

\* The flows of one name are those of one move, and are read as that move.
LEMMA ArrowsAreMerged ==
  ASSUME NEW scheme, Formed(scheme), Sound(scheme),
         NEW m \in scheme.moves, Origins(scheme, m) # {}
  PROVE  /\ {g \in AllArrows(scheme) : NameOf(g) = m.id} = Arrows(scheme, m)
         /\ Merged(m.id, Arrows(scheme, m)) = m
<1> DEFINE same == Arrows(scheme, m)
           top == Topmost(same)
<1>1. \A g \in AllArrows(scheme) : NameOf(g) = m.id => g \in same
  <2> SUFFICES ASSUME NEW g \in AllArrows(scheme), NameOf(g) = m.id PROVE g \in same
    OBVIOUS
  <2>1. PICK n \in scheme.moves : g \in Arrows(scheme, n)
    BY DEF AllArrows
  <2>2. n.id = m.id
    BY <2>1, ArrowFields
  <2> QED
    BY <2>1, <2>2 DEF Formed
<1>2. \A g \in same : g \in AllArrows(scheme) /\ NameOf(g) = m.id
  BY ArrowFields DEF AllArrows
<1>3. top \in same
  <2>1. PICK o \in Origins(scheme, m) : TRUE
    OBVIOUS
  <2>2. Flow(0, o, m.to, m.id, m.from = {}, m.conditions, m.effects) \in same
    BY DEF Arrows
  <2>3. \E f \in same : \A g \in same : f.at <= g.at
    <3>1. \A f \in same : f.at = 0
      BY ArrowFields
    <3> HIDE DEF same
    <3> QED
      BY <2>2, <3>1
  <2> HIDE DEF same
  <2> QED
    BY <2>3 DEF Topmost
<1>4. {f.source : f \in same} = Origins(scheme, m)
  <2>1. \A f \in same : f.source \in Origins(scheme, m)
    BY ArrowFields
  <2>2. \A o \in Origins(scheme, m) : \E f \in same : f.source = o
    <3> TAKE o \in Origins(scheme, m)
    <3>1. Flow(0, o, m.to, m.id, m.from = {}, m.conditions, m.effects) \in same
      BY DEF Arrows
    <3> WITNESS Flow(0, o, m.to, m.id, m.from = {}, m.conditions, m.effects) \in same
    <3> QED
      BY DEF Flow
  <2> HIDE DEF same
  <2> QED
    BY <2>1, <2>2
<1>5. /\ top.target = m.to /\ top.global = (m.from = {})
      /\ top.conditions = m.conditions /\ top.effects = m.effects
  BY <1>3, ArrowFields
<1>6. m.from # {} => Origins(scheme, m) = m.from
  BY DEF Origins, Sound
<1> HIDE DEF same, top
<1>7. Merged(m.id, same) = Move(m.id, m.to, m.from, m.conditions, m.effects)
  BY <1>4, <1>5, <1>6 DEF Merged, top
<1>8. Merged(m.id, same) = m
  BY <1>7 DEF Formed
<1>9. {g \in AllArrows(scheme) : NameOf(g) = m.id} = same
  BY <1>1, <1>2
<1> QED
  BY <1>8, <1>9 DEF same

\* What from_bpmn_xml rebuilds from what to_bpmn_xml drew is the scheme, but for
\* moves that have no flow.
LEMMA RoundTrip ==
  ASSUME NEW scheme, Formed(scheme), Sound(scheme)
  PROVE  FromBpmn(ToBpmn(scheme)) = Drawable(scheme)
<1> DEFINE process == ToBpmn(scheme)
           ids == {task.id : task \in process.tasks}
           done == {task.id : task \in {task \in process.tasks : IsDone(process, task)}}
           flows == {f \in process.flows : {f.source, f.target} \subseteq ids}
           moves == {Merged(NameOf(f), {g \in flows : NameOf(g) = NameOf(f)}) : f \in flows}
<1>1. /\ process.tasks = {Task(s, "todo") : s \in scheme.open} \cup {Task(s, "done") : s \in scheme.done}
      /\ process.start = scheme.initial /\ process.flows = AllArrows(scheme)
  BY DEF ToBpmn
<1>2. ids = Statuses(scheme)
  <2>1. \A s \in scheme.open : Task(s, "todo") \in process.tasks /\ Task(s, "todo").id = s
    BY <1>1 DEF Task
  <2>2. \A s \in scheme.done : Task(s, "done") \in process.tasks /\ Task(s, "done").id = s
    BY <1>1 DEF Task
  <2>3. ASSUME NEW task \in process.tasks
        PROVE  task.id \in Statuses(scheme)
    <3>1. \/ \E s \in scheme.open : task = Task(s, "todo")
          \/ \E s \in scheme.done : task = Task(s, "done")
      BY <1>1
    <3> QED
      BY <3>1 DEF Task, Statuses
  <2> HIDE DEF process
  <2> QED
    BY <2>1, <2>2, <2>3 DEF Statuses
<1>3. done = scheme.done
  <2>1. \A s \in scheme.done :
          Task(s, "done") \in process.tasks /\ IsDone(process, Task(s, "done")) /\ Task(s, "done").id = s
    BY <1>1 DEF Task, IsDone
  <2>2. ASSUME NEW task \in process.tasks, IsDone(process, task)
        PROVE  task.id \in scheme.done
    <3>1. \/ \E s \in scheme.open : task = Task(s, "todo")
          \/ \E s \in scheme.done : task = Task(s, "done")
      BY <1>1
    <3>2. CASE \E s \in scheme.open : task = Task(s, "todo")
      <4>1. task.category = "todo"
        BY <3>2 DEF Task
      <4>2. ~IsDone(process, task)
        BY <4>1 DEF IsDone
      <4> QED
        BY <2>2, <4>2
    <3> QED
      BY <3>1, <3>2 DEF Task
  <2> HIDE DEF process
  <2> QED
    BY <2>1, <2>2
<1> HIDE DEF ids, done
<1>4. flows = AllArrows(scheme)
  <2>1. \A f \in AllArrows(scheme) : {f.source, f.target} \subseteq Statuses(scheme)
    BY ArrowFields DEF AllArrows
  <2> HIDE DEF process
  <2> QED
    BY <1>1, <1>2, <2>1
<1> HIDE DEF flows
<1>5. moves = {m \in scheme.moves : Origins(scheme, m) # {}}
  <2>1. ASSUME NEW f \in flows
        PROVE  \E m \in scheme.moves :
                 Origins(scheme, m) # {} /\ m = Merged(NameOf(f), {g \in flows : NameOf(g) = NameOf(f)})
    <3>1. PICK m \in scheme.moves : f \in Arrows(scheme, m)
      BY <1>4 DEF AllArrows
    <3>2. NameOf(f) = m.id /\ Origins(scheme, m) # {}
      BY <3>1, ArrowFields
    <3> QED
      BY <1>4, <3>2, ArrowsAreMerged
  <2>2. ASSUME NEW m \in scheme.moves, Origins(scheme, m) # {}
        PROVE  \E f \in flows : m = Merged(NameOf(f), {g \in flows : NameOf(g) = NameOf(f)})
    <3>1. PICK o \in Origins(scheme, m) : TRUE
      BY <2>2
    <3>2. PICK f \in Arrows(scheme, m) : TRUE
      BY <3>1 DEF Arrows
    <3>3. f \in flows /\ NameOf(f) = m.id
      BY <1>4, <3>2, ArrowFields DEF AllArrows
    <3>4. {g \in flows : NameOf(g) = NameOf(f)} = Arrows(scheme, m)
      BY <1>4, <2>2, <3>3, ArrowsAreMerged
    <3>5. m = Merged(NameOf(f), {g \in flows : NameOf(g) = NameOf(f)})
      BY <2>2, <3>3, <3>4, ArrowsAreMerged
    <3> QED
      BY <3>3, <3>5
  <2> QED
    BY <2>1, <2>2
<1> HIDE DEF moves
<1>6. FromBpmn(process) =
        [initial |-> IF process.start \in ids THEN process.start ELSE process.first,
         open |-> ids \ done, done |-> done, moves |-> moves]
  BY DEF FromBpmn, ids, done, flows, moves
<1> HIDE DEF process
<1>7. scheme.initial \in ids /\ ids \ done = scheme.open
  BY <1>2, <1>3 DEF Sound, Formed, Statuses
<1>8. Drawable(scheme) = [initial |-> scheme.initial, open |-> scheme.open, done |-> scheme.done,
                          moves |-> {m \in scheme.moves : Origins(scheme, m) # {}}]
  <2> DEFINE kept == {m \in scheme.moves : Origins(scheme, m) # {}}
  <2>1. scheme = [initial |-> scheme.initial, open |-> scheme.open, done |-> scheme.done,
                  moves |-> scheme.moves]
    BY DEF Formed
  <2>2. Drawable(scheme) = [scheme EXCEPT !.moves = kept]
    BY DEF Drawable
  <2> HIDE DEF kept
  <2>3. [scheme EXCEPT !.moves = kept] =
          [initial |-> scheme.initial, open |-> scheme.open, done |-> scheme.done, moves |-> kept]
    BY <2>1
  <2> QED
    BY <2>2, <2>3 DEF kept
<1>9. FromBpmn(process) = Drawable(scheme)
  BY <1>1, <1>3, <1>5, <1>6, <1>7, <1>8
<1> QED
  BY <1>9 DEF process

\* What is lost on the way is not missed: it leads from the only status to itself.
LEMMA DrawableIsSound ==
  ASSUME NEW scheme, Formed(scheme), Sound(scheme)
  PROVE  Formed(Drawable(scheme)) /\ Sound(Drawable(scheme))
<1> DEFINE kept == {m \in scheme.moves : Origins(scheme, m) # {}}
           new == Drawable(scheme)
<1>1. new = [initial |-> scheme.initial, open |-> scheme.open, done |-> scheme.done, moves |-> kept]
  <2>1. scheme = [initial |-> scheme.initial, open |-> scheme.open, done |-> scheme.done,
                  moves |-> scheme.moves]
    BY DEF Formed
  <2>2. new = [scheme EXCEPT !.moves = kept]
    BY DEF Drawable
  <2> HIDE DEF kept, new
  <2> QED
    BY <2>1, <2>2
<1> HIDE DEF new, kept
<1>2. new.initial = scheme.initial /\ new.open = scheme.open /\ new.done = scheme.done /\ new.moves = kept
  BY <1>1
<1>3. kept \subseteq scheme.moves
  BY DEF kept
<1>4. Statuses(new) = Statuses(scheme)
  BY <1>2 DEF Statuses
<1>5. Formed(new)
  BY <1>1, <1>2, <1>3 DEF Formed
<1>6. AllReachable(new)
  <2> SUFFICES ASSUME NEW within \in SUBSET Statuses(scheme),
                      scheme.initial \in within, Closed(new, within)
               PROVE  within = Statuses(scheme)
    BY <1>2, <1>4 DEF AllReachable
  <2>1. CASE kept = scheme.moves
    <3>1. Closed(scheme, within)
      BY <1>2, <2>1 DEF Closed
    <3> QED
      BY <3>1 DEF Sound, AllReachable
  <2>2. CASE kept # scheme.moves
    <3>1. PICK m \in scheme.moves : Origins(scheme, m) = {}
      BY <2>2 DEF kept
    <3>2. m.from \subseteq Statuses(scheme)
      BY DEF Sound
    <3>3. Statuses(scheme) \subseteq {m.to}
      BY <3>1, <3>2 DEF Origins
    <3> QED
      BY <3>3
  <2> QED
    BY <2>1, <2>2
<1>7. Sound(new)
  BY <1>2, <1>3, <1>4, <1>6 DEF Sound
<1> QED
  BY <1>5, <1>7 DEF new

\* What is read from a process has one move under each name.
LEMMA ReadIsFormed ==
  ASSUME NEW process, \A f \in process.flows : NameOf(f) # ""
  PROVE  Formed(FromBpmn(process))
<1> DEFINE ids == {task.id : task \in process.tasks}
           done == {task.id : task \in {task \in process.tasks : IsDone(process, task)}}
           flows == {f \in process.flows : {f.source, f.target} \subseteq ids}
           Read(f) == Merged(NameOf(f), {g \in flows : NameOf(g) = NameOf(f)})
           moves == {Read(f) : f \in flows}
           scheme == FromBpmn(process)
<1>1. \A f \in flows :
        /\ Read(f).id = NameOf(f) /\ NameOf(f) # ""
        /\ Read(f) = Move(Read(f).id, Read(f).to, Read(f).from, Read(f).conditions, Read(f).effects)
  BY DEF Merged, Move
<1>2. \A f, h \in flows : NameOf(f) = NameOf(h) => Read(f) = Read(h)
  OBVIOUS
<1> HIDE DEF Read, done, flows
<1>3. scheme = [initial |-> IF process.start \in ids THEN process.start ELSE process.first,
                open |-> ids \ done, done |-> done, moves |-> moves]
  BY DEF FromBpmn, Read, done, flows
<1> HIDE DEF scheme, ids
<1>4. scheme.open \cap scheme.done = {} /\ scheme.moves = moves
  BY <1>3
<1>5. \A m \in moves : m.id # "" /\ m = Move(m.id, m.to, m.from, m.conditions, m.effects)
  BY <1>1
<1>6. ASSUME NEW m \in moves, NEW n \in moves, m.id = n.id
      PROVE  m = n
  <2>1. PICK f \in flows : m = Read(f)
    OBVIOUS
  <2>2. PICK h \in flows : n = Read(h)
    OBVIOUS
  <2> QED
    BY <1>1, <1>2, <1>6, <2>1, <2>2
<1>7. scheme = [initial |-> scheme.initial, open |-> scheme.open, done |-> scheme.done,
                moves |-> scheme.moves]
  BY <1>3
<1> QED
  BY <1>4, <1>5, <1>6, <1>7 DEF Formed, scheme

-----------------------------------------------------------------------------
\* What is in use, on its way to the store or stored is one or comes from one.
Usable(scheme) == Formed(scheme) /\ Sound(scheme)

SaveIsSound(t) ==
  saving[t] # NotSaving =>
    /\ saving[t] = [at |-> saving[t].at, scheme |-> saving[t].scheme,
                    overtaken |-> saving[t].overtaken]
    /\ saving[t].at \in Replicas /\ saving[t].overtaken \in BOOLEAN
    /\ Usable(saving[t].scheme)
    /\ saving[t].overtaken \/ inUse[saving[t].at] = saving[t].scheme

SchemeInv ==
  /\ sent.scheme \in Drawn \cup {NoScheme} /\ sent.process \in Processes \cup {NoProcess}
  /\ inUse = [r \in Replicas |-> inUse[r]] /\ saving = [t \in Savers |-> saving[t]]
  /\ \A r \in Replicas : inUse[r] = NoScheme \/ Usable(inUse[r])
  /\ stored = NoProcess \/ \E scheme : Usable(scheme) /\ stored = ToBpmn(scheme)
  /\ \A t \in Savers : SaveIsSound(t)
  /\ RestartChangesNothing

\* Reading what is stored gives something to use.
LEMMA StoredIsRead ==
  ASSUME NEW scheme, Usable(scheme)
  PROVE  /\ ToBpmn(scheme) # NoProcess /\ FromBpmn(ToBpmn(scheme)) = Drawable(scheme)
         /\ Usable(Drawable(scheme))
<1>1. PICK s \in scheme.done : TRUE
  BY DEF Usable, Sound
<1>2. Task(s, "done") \in ToBpmn(scheme).tasks /\ NoProcess.tasks = {}
  BY DEF ToBpmn, NoProcess
<1> QED
  BY <1>2, RoundTrip, DrawableIsSound DEF Usable

LEMMA LoadedIsUsable == SchemeInv => Loaded = NoScheme \/ Usable(Loaded)
<1> SUFFICES ASSUME SchemeInv PROVE Loaded = NoScheme \/ Usable(Loaded)
  OBVIOUS
<1>1. CASE stored = NoProcess
  BY <1>1, SchemeAssumption DEF Loaded, Shipped, Usable
<1>2. CASE stored # NoProcess
  BY <1>2, StoredIsRead DEF Loaded, SchemeInv
<1> QED
  BY <1>1, <1>2

\* What is put to use overtakes every save of that replica still under way.
LEMMA UseKeeps ==
  ASSUME SchemeInv, NEW t \in Savers, NEW r \in Replicas, NEW scheme, Formed(scheme), Use(t, r, scheme)
  PROVE  SchemeInv'
<1>1. Usable(scheme) /\ saving[t] = NotSaving /\ NotSaving.at = "" /\ "" \notin Replicas
  BY SchemeAssumption DEF Use, Usable, NotSaving
<1>2. /\ inUse'[r] = scheme /\ \A q \in Replicas \ {r} : inUse'[q] = inUse[q]
      /\ inUse' = [q \in Replicas |-> inUse'[q]]
  BY DEF Use, SchemeInv
<1>3. saving' = [u \in Savers |-> saving'[u]]
  BY DEF Use
<1>4. ASSUME NEW u \in Savers
      PROVE  SaveIsSound(u)' /\ saving[u].at \in {"", r, saving'[u].at}
  <2>1. CASE u = t
    <3>1. saving'[u] = [at |-> r, scheme |-> scheme, overtaken |-> FALSE]
      BY <1>1, <2>1 DEF Use
    <3>2. saving'[u].at = r /\ saving'[u].scheme = scheme /\ saving'[u].overtaken = FALSE
      BY <3>1
    <3>3. inUse'[saving'[u].at] = saving'[u].scheme
      BY <1>2, <3>2
    <3>4. SaveIsSound(u)'
      BY <1>1, <3>1, <3>2, <3>3 DEF SaveIsSound
    <3> QED
      BY <1>1, <2>1, <3>4
  <2>2. CASE u # t /\ saving[u].at = r
    <3>1. saving'[u] = [saving[u] EXCEPT !.overtaken = TRUE]
      BY <2>2 DEF Use
    <3>2. saving[u] # NotSaving
      BY <1>1, <2>2
    <3>3. /\ saving[u] = [at |-> saving[u].at, scheme |-> saving[u].scheme,
                           overtaken |-> saving[u].overtaken]
          /\ Usable(saving[u].scheme)
      BY <3>2 DEF SchemeInv, SaveIsSound
    <3>4. saving'[u] = [at |-> r, scheme |-> saving[u].scheme, overtaken |-> TRUE]
      BY <2>2, <3>1, <3>3
    <3> QED
      BY <2>2, <3>3, <3>4 DEF SaveIsSound
  <2>3. CASE u # t /\ saving[u].at # r
    <3>1. saving'[u] = saving[u]
      BY <2>3 DEF Use
    <3> QED
      BY <1>2, <2>3, <3>1 DEF SchemeInv, SaveIsSound
  <2> QED
    BY <2>1, <2>2, <2>3
<1>5. RestartChangesNothing'
  <2> SUFFICES ASSUME NEW q \in Replicas, q \notin astray', \A u \in Savers : saving'[u].at # q
               PROVE  Loaded' \in {inUse'[q], Drawable(inUse'[q])}
    BY DEF RestartChangesNothing
  <2>1. saving'[t].at = r
    BY <1>1 DEF Use
  <2>2. q # r
    BY <2>1
  <2>3. \A u \in Savers : saving[u].at # q
    BY <1>1, <1>4, <2>2
  <2>4. astray' = astray /\ Loaded' = Loaded
    BY DEF Use, Loaded
  <2> QED
    BY <1>2, <2>2, <2>3, <2>4 DEF SchemeInv, RestartChangesNothing
<1>6. UNCHANGED <<sent, stored>>
  BY DEF Use
<1> QED
  BY <1>1, <1>2, <1>3, <1>4, <1>5, <1>6 DEF SchemeInv

\* A process may come from anywhere, or be an export of what is in use.
LEMMA ImportKeeps ==
  ASSUME SchemeInv, NEW t \in Savers, NEW r \in Replicas, ImportBpmn(t, r)
  PROVE  SchemeInv'
<1>1. PICK process \in {sent.process, ToBpmn(inUse[r])} :
        process.tasks # {} /\ Use(t, r, FromBpmn(process))
  BY DEF ImportBpmn
<1>2. CASE process = sent.process
  <2>1. NoProcess.tasks = {}
    BY DEF NoProcess
  <2>2. \A f \in process.flows : NameOf(f) # ""
    BY <1>1, <1>2, <2>1, SchemeAssumption DEF SchemeInv
  <2> QED
    BY <1>1, <2>2, ReadIsFormed, UseKeeps
<1>3. CASE process = ToBpmn(inUse[r])
  <2>1. ToBpmn(NoScheme).tasks = {}
    BY DEF ToBpmn, NoScheme
  <2>2. Usable(inUse[r])
    BY <1>1, <1>3, <2>1 DEF SchemeInv
  <2>3. Formed(FromBpmn(process))
    BY <1>3, <2>2, StoredIsRead DEF Usable
  <2> QED
    BY <1>1, <2>3, UseKeeps
<1> QED
  BY <1>1, <1>2, <1>3

\* A save that ends has stored what its replica uses, unless it was overtaken;
\* one that fails leaves its replica behind.
LEMMA SaveEndsKeeps ==
  ASSUME SchemeInv, NEW t \in Savers, Persist(t) \/ FailToPersist(t)
  PROVE  SchemeInv'
<1> DEFINE r == saving[t].at
           scheme == saving[t].scheme
<1>1. /\ saving' = [saving EXCEPT ![t] = NotSaving] /\ UNCHANGED <<sent, inUse>>
      /\ saving[t] # NotSaving
  BY DEF Persist, FailToPersist
<1>2. r \in Replicas /\ Usable(scheme) /\ (saving[t].overtaken \/ inUse[r] = scheme)
  BY <1>1 DEF SchemeInv, SaveIsSound
<1>3. /\ saving'[t] = NotSaving /\ \A u \in Savers \ {t} : saving'[u] = saving[u]
      /\ saving' = [u \in Savers |-> saving'[u]]
  BY <1>1 DEF SchemeInv
<1>4. \A u \in Savers : SaveIsSound(u)'
  BY <1>1, <1>3 DEF SchemeInv, SaveIsSound
<1>5. CASE Persist(t)
  <2>1. stored' = ToBpmn(scheme) /\ astray' = IF saving[t].overtaken THEN Replicas ELSE Others(r)
    BY <1>5 DEF Persist
  <2>2. Loaded' = Drawable(scheme)
    BY <1>2, <2>1, StoredIsRead DEF Loaded
  <2>3. RestartChangesNothing'
    BY <1>1, <1>2, <2>1, <2>2 DEF RestartChangesNothing, Others
  <2> QED
    BY <1>1, <1>2, <1>3, <1>4, <2>1, <2>3 DEF SchemeInv
<1>6. CASE FailToPersist(t)
  <2>1. UNCHANGED <<key, stored>> /\ astray' = astray \cup {r}
    BY <1>6 DEF FailToPersist
  <2>2. Loaded' = Loaded
    BY <2>1 DEF Loaded
  <2>3. RestartChangesNothing'
    BY <1>1, <1>3, <2>1, <2>2 DEF RestartChangesNothing, SchemeInv
  <2> QED
    BY <1>1, <1>3, <1>4, <2>1, <2>3 DEF SchemeInv
<1> QED
  BY <1>5, <1>6

LEMMA RestartKeeps ==
  ASSUME SchemeInv, NEW r \in Replicas, Restart(r)
  PROVE  SchemeInv'
<1>1. /\ inUse' = [inUse EXCEPT ![r] = Loaded] /\ astray' = astray \ {r} /\ UNCHANGED <<key, sent, stored>>
      /\ saving' = [t \in Savers |-> IF saving[t].at = r THEN NotSaving ELSE saving[t]]
  BY DEF Restart
<1>2. inUse'[r] = Loaded /\ \A q \in Replicas \ {r} : inUse'[q] = inUse[q]
  BY <1>1 DEF SchemeInv
<1>3. Loaded' = Loaded
  BY <1>1 DEF Loaded
<1>4. \A t \in Savers : saving[t].at # r => saving'[t] = saving[t]
  BY <1>1
<1>5. \A t \in Savers : SaveIsSound(t)'
  BY <1>1, <1>2 DEF SchemeInv, SaveIsSound
<1>6. RestartChangesNothing'
  <2> SUFFICES ASSUME NEW q \in Replicas, q # r, q \notin astray', \A t \in Savers : saving'[t].at # q
               PROVE  Loaded' \in {inUse'[q], Drawable(inUse'[q])}
    BY <1>2, <1>3 DEF RestartChangesNothing
  <2>1. \A t \in Savers : saving[t].at # q
    BY <1>4
  <2> QED
    BY <1>1, <1>2, <1>3, <2>1 DEF SchemeInv, RestartChangesNothing
<1>7. inUse' = [q \in Replicas |-> inUse'[q]] /\ saving' = [t \in Savers |-> saving'[t]]
  BY <1>1 DEF SchemeInv
<1> QED
  BY <1>1, <1>2, <1>5, <1>6, <1>7, LoadedIsUsable DEF SchemeInv

LEMMA SchemesStart == SchemeInit => SchemeInv
<1> SUFFICES ASSUME SchemeInit PROVE SchemeInv
  OBVIOUS
<1>1. \A r \in Replicas : inUse[r] = Shipped(key)
  BY DEF SchemeInit
<1>2. Shipped(key) = NoScheme \/ Usable(Shipped(key))
  BY SchemeAssumption DEF Shipped, Usable
<1>3. Loaded = Shipped(key)
  BY DEF SchemeInit, Loaded
<1>4. RestartChangesNothing
  BY <1>1, <1>3 DEF RestartChangesNothing
<1>5. sent.scheme \in Drawn \cup {NoScheme} /\ sent.process \in Processes \cup {NoProcess}
  BY DEF SchemeInit
<1> QED
  BY <1>1, <1>2, <1>4, <1>5 DEF SchemeInit, SchemeInv, SaveIsSound

LEMMA SchemesGoOn == SchemeInv /\ [SchemeNext]_schemeVars => SchemeInv'
<1> SUFFICES ASSUME SchemeInv, [SchemeNext]_schemeVars PROVE SchemeInv'
  OBVIOUS
<1>1. ASSUME NEW t \in Savers, NEW r \in Replicas, SaveScheme(t, r)
      PROVE  SchemeInv'
  <2>1. ~Sound(NoScheme)
    BY DEF Sound, NoScheme
  <2>2. Formed(sent.scheme)
    BY <1>1, <2>1, SchemeAssumption DEF SaveScheme, Use, SchemeInv
  <2> QED
    BY <1>1, <2>2, UseKeeps DEF SaveScheme
<1>2. CASE DeleteScheme
  <2>1. RestartChangesNothing'
    BY <1>2 DEF DeleteScheme, RestartChangesNothing
  <2>2. \A t \in Savers : SaveIsSound(t)'
    BY <1>2 DEF DeleteScheme, SaveIsSound, SchemeInv
  <2> QED
    BY <1>2, <2>1, <2>2 DEF DeleteScheme, SchemeInv
<1>3. CASE UNCHANGED schemeVars
  BY <1>3 DEF schemeVars, SchemeInv, SaveIsSound, RestartChangesNothing, Loaded
<1> QED
  BY <1>1, <1>2, <1>3, ImportKeeps, SaveEndsKeeps, RestartKeeps DEF SchemeNext

\* What a replica uses is what it would find after a restart (but for moves that
\* lead nowhere), unless a save elsewhere, a deletion, a failed save or an
\* overtaken one left it behind: bpmn.py's promise to rebuild a scheme
\* losslessly, through the store and any number of exports and imports.
THEOREM RestartsChangeNothing == SchemeSpec => []RestartChangesNothing
<1>1. SchemeInv => RestartChangesNothing
  BY DEF SchemeInv
<1> QED
  BY <1>1, SchemesStart, SchemesGoOn, PTL DEF SchemeSpec

\* What a replica uses passes validate(), also what load_persisted_schemes puts to
\* use unasked.
THEOREM OnlySoundIsUsed == SchemeSpec => []InUseIsSound
<1>1. SchemeInv => InUseIsSound
  BY DEF SchemeInv, InUseIsSound, Usable
<1> QED
  BY <1>1, SchemesStart, SchemesGoOn, PTL DEF SchemeSpec

-----------------------------------------------------------------------------
(* Induction over numbers.                                                 *)

\* What holds of nothing and of one more holds of any number.
LEMMA SetInduction ==
  ASSUME NEW S, 0 \in S, \A n \in Nat : n \in S => n+1 \in S
  PROVE  Nat \subseteq S
<1> SUFFICES ASSUME Nat \ S # {} PROVE FALSE
  OBVIOUS
<1>1. PICK x \in Nat \ S : \A y \in Nat \ S : <<y, x>> \notin OpToRel(<, Nat)
  <2>1. Nat \ S \subseteq Nat
    OBVIOUS
  <2> QED
    BY <2>1, NatLessThanWellFounded, WFMin
<1>2. x # 0 /\ x - 1 \in Nat
  OBVIOUS
<1>3. x - 1 \notin S
  BY <1>2
<1>4. <<x-1, x>> \in OpToRel(<, Nat)
  BY <1>2 DEF OpToRel
<1> QED
  BY <1>1, <1>2, <1>3, <1>4

-----------------------------------------------------------------------------
(* Impact.                                                                 *)

\* A finite set in some order.
LEMMA InSomeOrder ==
  ASSUME NEW S, IsFiniteSet(S)
  PROVE  /\ SetToSeq(S) \in Seq(S) /\ Len(SetToSeq(S)) = Cardinality(S)
         /\ \A x \in S : \E i \in 1..Cardinality(S) : SetToSeq(S)[i] = x
<1> DEFINE n == Cardinality(S)
           P(f) == f \in [1..n -> S] /\ IsInjective(f)
<1>1. n \in Nat /\ ExistsBijection(1..n, S)
  BY FS_CardinalityType
<1>2. PICK g : g \in Bijection(1..n, S)
  BY <1>1 DEF ExistsBijection
<1>3. P(g)
  BY <1>2 DEF Bijection, Injection, IsInjective
<1> DEFINE f == SetToSeq(S)
<1>4. \E h : P(h)
  BY <1>3
<1>5. P(f)
  <2> HIDE DEF P
  <2>1. f = CHOOSE h : P(h)
    BY DEF SetToSeq, P
  <2> QED
    BY <1>4, <2>1
<1> HIDE DEF f
<1>6. f \in Injection(1..n, S)
  BY <1>5 DEF Injection, IsInjective
<1>7. Cardinality(1..n) = n
  BY <1>1, FS_Interval
<1>8. f \in Surjection(1..n, S)
  BY <1>6, <1>7, FS_Injection
<1>9. f \in Seq(S) /\ Len(f) = n
  BY <1>1, <1>5
<1> QED
  BY <1>8, <1>9 DEF f, Surjection

\* One sequence after another.
LEMMA Appended ==
  ASSUME NEW S, NEW s \in Seq(S), NEW t \in Seq(S)
  PROVE  /\ s \o t \in Seq(S) /\ Len(s \o t) = Len(s) + Len(t)
         /\ Len(s) \in Nat /\ Len(t) \in Nat
         /\ \A i \in 1..Len(s) : (s \o t)[i] = s[i]
         /\ \A i \in 1..Len(t) : (s \o t)[Len(s)+i] = t[i]
         /\ \A i \in 1..Len(s \o t) : (\E j \in 1..Len(s) : (s \o t)[i] = s[j])
                                   \/ (\E j \in 1..Len(t) : (s \o t)[i] = t[j])
<1>1. s \o t \in Seq(S) /\ Len(s \o t) = Len(s) + Len(t) /\ Len(s) \in Nat /\ Len(t) \in Nat
  OBVIOUS
<1>2. \A i \in 1..Len(s) : (s \o t)[i] = s[i]
  OBVIOUS
<1>3. \A i \in 1..Len(t) : (s \o t)[Len(s)+i] = t[i]
  OBVIOUS
<1>4. ASSUME NEW i \in 1..Len(s \o t)
      PROVE  \/ \E j \in 1..Len(s) : (s \o t)[i] = s[j]
             \/ \E j \in 1..Len(t) : (s \o t)[i] = t[j]
  <2>1. CASE i \in 1..Len(s)
    BY <1>2, <2>1
  <2>2. CASE i \notin 1..Len(s)
    <3>1. i - Len(s) \in 1..Len(t) /\ Len(s) + (i - Len(s)) = i
      BY <1>1, <2>2
    <3> QED
      BY <1>3, <3>1
  <2> QED
    BY <2>1, <2>2
<1> QED
  BY <1>1, <1>2, <1>3, <1>4

\* A set that leads nowhere else.
Follows(adjacency, S) == \A a \in adjacency : a[1] \in S => a[2] \in S

\* After k turns: what has been seen is closed but for what waits in the queue, it is
\* no more than any set closed under the adjacency, and the queue has had k items.
LoopIsSound(loop, k, start, adjacency, within) ==
  /\ loop.queue \in Seq(within) /\ loop.visited \subseteq within
  /\ start \in loop.visited
  /\ \A i \in 1..Len(loop.queue) : loop.queue[i] \in loop.visited
  /\ \A a \in adjacency :
       a[1] \in loop.visited =>
         a[2] \in loop.visited \/ \E i \in 1..Len(loop.queue) : loop.queue[i] = a[1]
  /\ \A S : start \in S /\ Follows(adjacency, S) => loop.visited \subseteq S
  /\ loop.queue # <<>> => Cardinality(loop.visited) = k + Len(loop.queue)

\* The item in front has been waiting and is done with.
LEMMA TurnKeeps ==
  ASSUME NEW within, IsFiniteSet(within), NEW adjacency \in SUBSET (within \X within),
         NEW start, NEW k \in Nat, NEW loop, LoopIsSound(loop, k, start, adjacency, within),
         loop.queue # <<>>
  PROVE  LoopIsSound(Turn(loop, adjacency), k+1, start, adjacency, within)
<1> DEFINE q == loop.queue
           v == loop.visited
           new == {a[2] : a \in {a \in adjacency : a[1] = Head(q)}} \ v
           order == SetToSeq(new)
           rest == Tail(q)
           next == Turn(loop, adjacency)
<1>1. next.queue = rest \o order /\ next.visited = v \cup new
  BY DEF Turn
<1>2. q \in Seq(within) /\ q # <<>> /\ v \subseteq within /\ Head(q) \in v
  BY DEF LoopIsSound
<1>3. /\ rest \in Seq(within) /\ Len(rest) = Len(q) - 1 /\ Len(q) \in Nat \ {0}
      /\ \A i \in 1..Len(rest) : rest[i] = q[i+1]
  BY <1>2
<1>4. new \subseteq within /\ new \cap v = {}
  BY <1>2
<1>5. \A a \in adjacency : a[1] = Head(q) => a[2] \in v \cup new
  OBVIOUS
<1>6. \A x \in new : \E a \in adjacency : a[1] = Head(q) /\ a[2] = x
  OBVIOUS
<1>7. IsFiniteSet(new) /\ IsFiniteSet(v)
  BY <1>2, <1>4, FS_Subset
<1> HIDE DEF new, next
<1>8. /\ order \in Seq(new) /\ Len(order) = Cardinality(new) /\ Cardinality(new) \in Nat
      /\ \A x \in new : \E i \in 1..Len(order) : order[i] = x
  BY <1>7, InSomeOrder, FS_CardinalityType
<1> HIDE DEF order, rest
<1> DEFINE both == rest \o order
<1>9. /\ both \in Seq(within) /\ Len(both) = Len(rest) + Len(order)
      /\ Len(rest) \in Nat /\ Len(order) \in Nat
      /\ \A i \in 1..Len(rest) : both[i] = rest[i]
      /\ \A i \in 1..Len(order) : both[Len(rest)+i] = order[i]
      /\ \A i \in 1..Len(both) : (\E j \in 1..Len(rest) : both[i] = rest[j]) \/ both[i] \in new
  <2>1. order \in Seq(within) /\ \A j \in 1..Len(order) : order[j] \in new
    BY <1>4, <1>8
  <2>2. /\ both \in Seq(within) /\ Len(both) = Len(rest) + Len(order)
        /\ Len(rest) \in Nat /\ Len(order) \in Nat
        /\ \A i \in 1..Len(rest) : both[i] = rest[i]
        /\ \A i \in 1..Len(order) : both[Len(rest)+i] = order[i]
        /\ \A i \in 1..Len(both) : (\E j \in 1..Len(rest) : both[i] = rest[j])
                                 \/ (\E j \in 1..Len(order) : both[i] = order[j])
    <3>1. rest \in Seq(within)
      BY <1>3
    <3> QED
      BY <2>1, <3>1, Appended
  <2> HIDE DEF both
  <2>3. \A i \in 1..Len(both) : (\E j \in 1..Len(rest) : both[i] = rest[j]) \/ both[i] \in new
    BY <2>1, <2>2
  <2> QED
    BY <2>2, <2>3
<1> HIDE DEF both
<1>10. \A i \in 1..Len(both) : both[i] \in v \cup new
  BY <1>3, <1>9 DEF LoopIsSound
<1>11. ASSUME NEW a \in adjacency, a[1] \in v \cup new
       PROVE  a[2] \in v \cup new \/ \E i \in 1..Len(both) : both[i] = a[1]
  <2>1. CASE a[1] \in new
    <3>1. PICK i \in 1..Len(order) : order[i] = a[1]
      BY <1>8, <2>1
    <3>2. Len(rest)+i \in 1..Len(both) /\ both[Len(rest)+i] = a[1]
      BY <1>9, <3>1
    <3> QED
      BY <3>2
  <2>2. CASE a[1] \in v /\ a[2] \notin v
    <3>1. PICK i \in 1..Len(q) : q[i] = a[1]
      BY <2>2 DEF LoopIsSound
    <3>2. CASE i = 1
      <4>1. Head(q) = q[1]
        BY <1>2
      <4> QED
        BY <1>5, <3>1, <3>2, <4>1
    <3>3. CASE i # 1
      <4>1. i-1 \in 1..Len(rest) /\ (i-1)+1 = i
        BY <1>3, <3>1, <3>3
      <4>2. both[i-1] = a[1] /\ i-1 \in 1..Len(both)
        BY <1>3, <1>8, <1>9, <3>1, <4>1
      <4> QED
        BY <4>2
    <3> QED
      BY <3>2, <3>3
  <2> QED
    BY <1>11, <2>1, <2>2
<1>12. ASSUME NEW S, start \in S, Follows(adjacency, S)
       PROVE  v \cup new \subseteq S
  <2>1. v \subseteq S
    BY <1>12 DEF LoopIsSound
  <2>2. new \subseteq S
    BY <1>2, <1>6, <1>12, <2>1 DEF Follows
  <2> QED
    BY <2>1, <2>2
<1>13. Cardinality(v \cup new) = k+1 + Len(both)
  <2>1. Cardinality(v) = k + Len(q)
    BY DEF LoopIsSound
  <2>2. Cardinality(v \cup new) = Cardinality(v) + Cardinality(new) - Cardinality(v \cap new)
    BY <1>7, FS_Union
  <2>3. v \cap new = {} /\ Cardinality({}) = 0
    BY <1>4, FS_EmptySet
  <2>4. Cardinality(v \cap new) = 0
    BY <2>3
  <2>5. Len(both) = Len(q) - 1 + Cardinality(new) /\ Len(q) \in Nat /\ Cardinality(new) \in Nat
    BY <1>3, <1>8, <1>9
  <2>6. Cardinality(v \cup new) = k + Len(q) + Cardinality(new) - 0
    BY <2>1, <2>2, <2>4
  <2> QED
    BY <2>5, <2>6
<1>14. start \in v
  BY DEF LoopIsSound
<1> HIDE DEF v
<1>15. next.queue = both /\ next.visited = v \cup new
  BY <1>1 DEF both
<1> QED
  BY <1>2, <1>4, <1>9, <1>10, <1>11, <1>12, <1>13, <1>14, <1>15 DEF LoopIsSound, next, v

\* The loop as it goes: there are states of it between, each from the one before.
LEMMA TurnByTurn ==
  ASSUME NEW start, NEW adjacency, Cardinality(Items) \in Nat
  PROVE  \E loop :
           /\ loop[0] = [queue |-> <<start>>, visited |-> {start}]
           /\ \A k \in 1..Cardinality(Items) :
                loop[k] = IF loop[k-1].queue = <<>> THEN loop[k-1] ELSE Turn(loop[k-1], adjacency)
           /\ Traverse(start, adjacency) = loop[Cardinality(Items)].visited \ {start}
<1> DEFINE L == Cardinality(Items)
           first == [queue |-> <<start>>, visited |-> {start}]
           Onwards(l) == IF l.queue = <<>> THEN l ELSE Turn(l, adjacency)
           Upto(n, g) == /\ g = [k \in 0..n |-> g[k]] /\ g[0] = first
                         /\ \A k \in 1..n : g[k] = Onwards(g[k-1])
           S == {n \in Nat : \E g : Upto(n, g)}
           Goes(g) == g = [k \in 0..L |-> IF k = 0 THEN first
                                          ELSE IF g[k-1].queue = <<>> THEN g[k-1]
                                          ELSE Turn(g[k-1], adjacency)]
<1> HIDE DEF first
<1>1. 0 \in S
  <2> DEFINE g == [k \in 0..0 |-> first]
  <2>1. Upto(0, g)
    OBVIOUS
  <2> QED
    BY <2>1
<1>2. ASSUME NEW n \in Nat, n \in S
      PROVE  n+1 \in S
  <2>1. PICK g : Upto(n, g)
    BY <1>2
  <2> HIDE DEF Onwards
  <2> DEFINE h == [k \in 0..n+1 |-> IF k = n+1 THEN Onwards(g[n]) ELSE g[k]]
  <2>2. h = [k \in 0..n+1 |-> h[k]] /\ h[0] = first
    BY <2>1
  <2>3. \A k \in 1..n+1 : h[k] = Onwards(h[k-1])
    <3> TAKE k \in 1..n+1
    <3>1. CASE k = n+1
      <4>1. h[n] = g[n] /\ h[n+1] = Onwards(g[n]) /\ k-1 = n
        BY <3>1
      <4> QED
        BY <3>1, <4>1
    <3>2. CASE k # n+1
      <4>1. k \in 1..n /\ k-1 \in 0..n /\ k \in 0..n
        BY <3>2
      <4>2. h[k] = g[k] /\ h[k-1] = g[k-1]
        BY <4>1
      <4> QED
        BY <2>1, <4>1, <4>2
    <3> QED
      BY <3>1, <3>2
  <2>4. Upto(n+1, h)
    BY <2>2, <2>3
  <2> HIDE DEF Upto
  <2> QED
    BY <2>4
<1>3. Nat \subseteq S
  <2> HIDE DEF S
  <2> QED
    BY <1>1, <1>2, SetInduction
<1>4. PICK g : Upto(L, g)
  BY <1>3
<1>5. Goes(g)
  BY <1>4
<1> DEFINE f == CHOOSE h : Goes(h)
<1>6. Goes(f)
  <2> HIDE DEF Goes
  <2> QED
    BY <1>5
<1>7. Traverse(start, adjacency) = f[L].visited \ {start}
  BY DEF Traverse, first
<1> HIDE DEF f
<1>8. f[0] = first /\ \A k \in 1..L : f[k] = IF f[k-1].queue = <<>> THEN f[k-1] ELSE Turn(f[k-1], adjacency)
  BY <1>6
<1> QED
  BY <1>7, <1>8 DEF first

\* What a traversal answers: what the item leads to, and not the item.
LEMMA TraverseAnswers ==
  ASSUME NEW within \in SUBSET Items, NEW adjacency \in SUBSET (within \X within),
         NEW start \in within
  PROVE  Traverse(start, adjacency) = LeadsTo(adjacency, start, within)
<1> DEFINE L == Cardinality(Items)
<1>1. L \in Nat /\ IsFiniteSet(within) /\ Cardinality(within) <= L /\ Cardinality(within) \in Nat
  BY EstateAssumption, FS_CardinalityType, FS_Subset
<1>2. PICK loop :
        /\ loop[0] = [queue |-> <<start>>, visited |-> {start}]
        /\ \A k \in 1..L :
             loop[k] = IF loop[k-1].queue = <<>> THEN loop[k-1] ELSE Turn(loop[k-1], adjacency)
        /\ Traverse(start, adjacency) = loop[L].visited \ {start}
  BY <1>1, TurnByTurn
<1> DEFINE SoundAt(k) == LoopIsSound(loop[k], k, start, adjacency, within)
           S == {k \in Nat : k <= L => SoundAt(k)}
<1>3. 0 \in S
  <2>1. loop[0].queue = <<start>> /\ loop[0].visited = {start}
    BY <1>2
  <2>2. Cardinality({start}) = 1
    BY FS_Singleton
  <2>3. Len(<<start>>) = 1 /\ <<start>>[1] = start /\ <<start>> \in Seq(within)
    OBVIOUS
  <2>4. SoundAt(0)
    BY <2>1, <2>2, <2>3 DEF LoopIsSound, Follows
  <2> QED
    BY <2>4
<1>4. ASSUME NEW k \in Nat, k \in S
      PROVE  k+1 \in S
  <2> SUFFICES ASSUME k+1 <= L PROVE SoundAt(k+1)
    OBVIOUS
  <2>1. SoundAt(k) /\ k+1 \in 1..L /\ (k+1)-1 = k
    BY <1>1, <1>4
  <2>2. loop[k+1] = IF loop[k].queue = <<>> THEN loop[k] ELSE Turn(loop[k], adjacency)
    BY <1>2, <2>1
  <2>3. CASE loop[k].queue = <<>>
    <3>1. loop[k+1] = loop[k]
      BY <2>2, <2>3
    <3> QED
      BY <2>1, <2>3, <3>1 DEF LoopIsSound
  <2>4. CASE loop[k].queue # <<>>
    BY <1>1, <2>1, <2>2, <2>4, TurnKeeps
  <2> QED
    BY <2>3, <2>4
<1>5. Nat \subseteq S
  <2> HIDE DEF S
  <2> QED
    BY <1>3, <1>4, SetInduction
<1>6. SoundAt(L)
  BY <1>1, <1>5
<1> DEFINE seen == loop[L].visited
<1>7. loop[L].queue = <<>>
  <2> SUFFICES ASSUME loop[L].queue # <<>> PROVE FALSE
    OBVIOUS
  <2>1. Cardinality(seen) = L + Len(loop[L].queue)
    BY <1>6 DEF LoopIsSound
  <2>2. seen \subseteq within /\ loop[L].queue \in Seq(within)
    BY <1>6 DEF LoopIsSound
  <2>3. Cardinality(seen) <= Cardinality(within) /\ Cardinality(seen) \in Nat
    BY <1>1, <2>2, FS_Subset, FS_CardinalityType
  <2>4. Len(loop[L].queue) \in Nat \ {0}
    BY <2>2
  <2> HIDE DEF seen
  <2> QED
    BY <1>1, <2>1, <2>3, <2>4
<1>8. start \in seen /\ seen \in SUBSET within /\ Follows(adjacency, seen)
  BY <1>6, <1>7 DEF LoopIsSound, Follows
<1>9. \A T : start \in T /\ Follows(adjacency, T) => seen \subseteq T
  BY <1>6 DEF LoopIsSound
<1> HIDE DEF seen
<1>10. LeadsTo(adjacency, start, within) = seen \ {start}
  BY <1>8, <1>9 DEF LeadsTo, Follows
<1> QED
  BY <1>2, <1>10 DEF seen

-----------------------------------------------------------------------------
(* The ends of edges.                                                      *)

Fields == {"op", "item", "other", "left", "met"}
\* What a call holds are items.
IsWork(w) ==
  /\ w = [field \in Fields |-> w[field]]
  /\ w.op # "none" => w.item \in Items
  /\ w.op \in {"check", "join"} => w.other \in Items

\* What a call of relate has found is there, or it has met who removed it.
FoundIsThere(w) ==
  /\ w.op = "check" => w.item \in items \cup w.met
  /\ w.op = "join" => {w.item, w.other} \subseteq items \cup w.met

\* Who removes an item has the edges that touch it on the list, but for those that were
\* made meanwhile, and whoever is about to make one has met the removal.
RemovalIsKnown(w) ==
  w.op = "remove" =>
    /\ \A e \in edges : w.item \in Ends(e) => e \in w.left \/ w.item \in e.met
    /\ \A d \in Clerks : Meets(w.item, work[d]) => w.item \in work[d].met

CmdbInv ==
  /\ items \subseteq Items /\ \A e \in edges : Ends(e) \subseteq Items
  /\ work = [c \in Clerks |-> work[c]]
  /\ \A c \in Clerks : IsWork(work[c]) /\ FoundIsThere(work[c]) /\ RemovalIsKnown(work[c])
  /\ \A e \in edges : Ends(e) \subseteq items \cup e.met

\* A call that has ended is none, and no removal meets it.
LEMMA RestIsWork == IsWork(Rest) /\ Rest.op = "none"
<1>1. DOMAIN Rest = Fields /\ Rest = [f \in DOMAIN Rest |-> Rest[f]] /\ Rest.op = "none"
  BY DEF Rest, Fields
<1> QED
  BY <1>1 DEF IsWork

\* A thread that ends its call, or begins one that no removal has to meet.
LEMMA OneMoves ==
  ASSUME CmdbInv, NEW c \in Clerks, NEW w, work' = [work EXCEPT ![c] = w]
  PROVE  /\ work' = [d \in Clerks |-> work'[d]] /\ work'[c] = w
         /\ \A d \in Clerks \ {c} : work'[d] = work[d]
BY DEF CmdbInv

\* Items come, edges go and a call ends or goes on to what concerns no removal.
LEMMA LittleChanges ==
  ASSUME CmdbInv, NEW c \in Clerks, items \subseteq items', items' \subseteq Items,
         edges' \subseteq edges, work' = [work EXCEPT ![c] = work'[c]],
         IsWork(work'[c]), FoundIsThere(work[c])', work'[c].op # "remove",
         \A i : Meets(i, work'[c]) => /\ i \in work'[c].met \/ i \notin BeingRemoved
  PROVE  CmdbInv'
<1>1. /\ work' = [d \in Clerks |-> work'[d]]
      /\ \A d \in Clerks \ {c} : work'[d] = work[d]
  BY OneMoves
<1>2. ASSUME NEW d \in Clerks
      PROVE  IsWork(work[d])' /\ FoundIsThere(work[d])' /\ RemovalIsKnown(work[d])'
  <2>1. CASE d = c
    BY <2>1 DEF RemovalIsKnown, IsWork
  <2>2. CASE d # c
    <3>1. work'[d] = work[d]
      BY <1>1, <2>2
    <3>2. IsWork(work[d]) /\ FoundIsThere(work[d]) /\ RemovalIsKnown(work[d])
      BY DEF CmdbInv
    <3>3. FoundIsThere(work[d])'
      BY <3>1, <3>2 DEF FoundIsThere
    <3>4. ASSUME work[d].op = "remove"
          PROVE  RemovalIsKnown(work[d])'
      <4>1. work[d].item \in BeingRemoved
        BY <3>4 DEF BeingRemoved
      <4>2. ASSUME NEW b \in Clerks, Meets(work[d].item, work'[b])
            PROVE  work[d].item \in work'[b].met
        <5>1. CASE b = c
          BY <4>1, <4>2, <5>1
        <5>2. CASE b # c
          BY <1>1, <3>2, <3>4, <4>2, <5>2 DEF RemovalIsKnown
        <5> QED
          BY <5>1, <5>2
      <4> QED
        BY <3>1, <3>2, <3>4, <4>2 DEF RemovalIsKnown, Meets
    <3>5. RemovalIsKnown(work[d])'
      <4>1. CASE work[d].op = "remove"
        BY <3>4, <4>1
      <4>2. CASE work[d].op # "remove"
        BY <3>1, <4>2 DEF RemovalIsKnown
      <4> QED
        BY <4>1, <4>2
    <3> QED
      BY <3>1, <3>2, <3>3, <3>5 DEF IsWork
  <2> QED
    BY <2>1, <2>2
<1>3. \A e \in edges' : Ends(e) \subseteq Items /\ Ends(e) \subseteq items' \cup e.met
  BY DEF CmdbInv
<1> QED
  BY <1>1, <1>2, <1>3 DEF CmdbInv

\* Items come and edges go, beside whatever calls there are.
LEMMA WorkGoesOn ==
  ASSUME CmdbInv, items \subseteq items', items' \subseteq Items, edges' \subseteq edges,
         UNCHANGED work
  PROVE  CmdbInv'
<1>1. ASSUME NEW c \in Clerks
      PROVE  IsWork(work[c])' /\ FoundIsThere(work[c])' /\ RemovalIsKnown(work[c])'
  <2>1. IsWork(work[c]) /\ FoundIsThere(work[c]) /\ RemovalIsKnown(work[c])
    BY DEF CmdbInv
  <2> QED
    BY <2>1 DEF IsWork, FoundIsThere, RemovalIsKnown
<1>2. \A e \in edges' : Ends(e) \subseteq Items /\ Ends(e) \subseteq items' \cup e.met
  BY DEF CmdbInv
<1> QED
  BY <1>1, <1>2 DEF CmdbInv

\* Updates may bring back an item, and never take one.
LEMMA UpdatesKeep ==
  ASSUME CmdbInv, NEW c \in Clerks, (\E i \in Items : ReadForUpdate(c, i)) \/ WriteUpdate(c) \/ BreakOff(c)
  PROVE  CmdbInv'
<1>1. CASE \E i \in Items : ReadForUpdate(c, i)
  <2>1. PICK i \in Items : ReadForUpdate(c, i)
    BY <1>1
  <2> DEFINE w == [Rest EXCEPT !.op = "update", !.item = i]
  <2>2. IsWork(w) /\ w.op = "update"
    BY RestIsWork DEF IsWork, Fields
  <2>3. work' = [work EXCEPT ![c] = w] /\ UNCHANGED <<items, edges>>
    BY <2>1 DEF ReadForUpdate
  <2> HIDE DEF w
  <2>4. work'[c] = w
    BY <2>3 DEF CmdbInv
  <2> QED
    BY <2>2, <2>3, <2>4, LittleChanges DEF CmdbInv, FoundIsThere, Meets
<1>2. CASE WriteUpdate(c) \/ BreakOff(c)
  <2>1. /\ work' = [work EXCEPT ![c] = Rest] /\ items \subseteq items' /\ edges' = edges
        /\ items' \subseteq Items
    BY <1>2 DEF WriteUpdate, BreakOff, CmdbInv, IsWork
  <2>2. work'[c] = Rest
    BY <2>1 DEF CmdbInv
  <2> QED
    BY <2>1, <2>2, RestIsWork, LittleChanges DEF FoundIsThere, Meets
<1> QED
  BY <1>1, <1>2

\* What is found is there, unless its removal is under way, which is noted.
LEMMA RelatingKeeps ==
  ASSUME CmdbInv, NEW c \in Clerks, (\E s, t \in Items : FindSource(c, s, t)) \/ FindTarget(c)
  PROVE  CmdbInv'
<1>1. CASE \E s, t \in Items : FindSource(c, s, t)
  <2>1. PICK s \in Items, t \in Items : FindSource(c, s, t)
    BY <1>1
  <2> DEFINE m == {s, t} \cap BeingRemoved
             w == [Rest EXCEPT !.op = "check", !.item = s, !.other = t, !.met = m]
  <2>2. work' = [work EXCEPT ![c] = w] /\ s \in items /\ UNCHANGED <<items, edges>>
    BY <2>1 DEF FindSource
  <2> HIDE DEF m
  <2>3. IsWork(w) /\ w.op = "check" /\ w.item = s /\ w.other = t /\ w.met = m
    BY RestIsWork DEF IsWork, Fields
  <2> HIDE DEF w
  <2>4. work'[c] = w
    BY <2>2 DEF CmdbInv
  <2>5. FoundIsThere(work[c])'
    BY <2>2, <2>3, <2>4 DEF FoundIsThere
  <2>6. \A i : Meets(i, work'[c]) => i \in work'[c].met \/ i \notin BeingRemoved
    BY <2>3, <2>4 DEF Meets, m
  <2> QED
    BY <2>2, <2>3, <2>4, <2>5, <2>6, LittleChanges DEF CmdbInv
<1>2. CASE FindTarget(c) /\ work[c].other \in items
  <2> DEFINE old == work[c]
             w == [old EXCEPT !.op = "join"]
  <2>1. IsWork(old) /\ FoundIsThere(old) /\ old.op = "check" /\ old.other \in items
    BY <1>2 DEF CmdbInv, FindTarget
  <2>2. work' = [work EXCEPT ![c] = w] /\ UNCHANGED <<items, edges>>
    BY <1>2 DEF FindTarget
  <2> HIDE DEF old
  <2>3. IsWork(w) /\ w.op = "join" /\ w.item = old.item /\ w.other = old.other /\ w.met = old.met
    BY <2>1 DEF IsWork, Fields
  <2> HIDE DEF w
  <2>4. work'[c] = w
    BY <2>2 DEF CmdbInv
  <2>5. FoundIsThere(work[c])'
    BY <2>1, <2>2, <2>3, <2>4 DEF FoundIsThere
  <2>6. ASSUME NEW i, Meets(i, work'[c]), i \in BeingRemoved
        PROVE  i \in work'[c].met
    <3>1. PICK d \in Clerks : work[d].op = "remove" /\ work[d].item = i
      BY <2>6 DEF BeingRemoved
    <3>2. Meets(i, old)
      BY <2>1, <2>3, <2>4, <2>6 DEF Meets
    <3> QED
      BY <2>3, <2>4, <3>1, <3>2 DEF CmdbInv, RemovalIsKnown, old
  <2> QED
    BY <2>2, <2>3, <2>4, <2>5, <2>6, LittleChanges DEF CmdbInv
<1>3. CASE FindTarget(c) /\ work[c].other \notin items
  <2>1. work' = [work EXCEPT ![c] = Rest] /\ UNCHANGED <<items, edges>>
    BY <1>3 DEF FindTarget
  <2>2. work'[c] = Rest
    BY <2>1 DEF CmdbInv
  <2> QED
    BY <2>1, <2>2, RestIsWork, LittleChanges DEF CmdbInv, FoundIsThere, Meets
<1> QED
  BY <1>1, <1>2, <1>3

\* The edge that is made has met every removal of its ends that is under way.
LEMMA JoinKeeps ==
  ASSUME CmdbInv, NEW c \in Clerks, NEW type, Join(c, type)
  PROVE  CmdbInv'
<1> DEFINE w == work[c]
           edge == [id |-> related + 1, source |-> w.item, target |-> w.other,
                    type |-> type, met |-> w.met]
<1>1. /\ w.op = "join" /\ edges' = edges \cup {edge} /\ items' = items
      /\ work' = [work EXCEPT ![c] = Rest]
  BY DEF Join
<1>2. /\ w.item \in Items /\ w.other \in Items /\ {w.item, w.other} \subseteq items \cup w.met
      /\ Ends(edge) = {w.item, w.other} /\ edge.met = w.met
  BY <1>1 DEF CmdbInv, IsWork, FoundIsThere, Ends
<1>3. /\ work' = [d \in Clerks |-> work'[d]] /\ work'[c] = Rest
      /\ \A d \in Clerks \ {c} : work'[d] = work[d]
  BY <1>1 DEF CmdbInv
<1>4. ASSUME NEW d \in Clerks
      PROVE  IsWork(work[d])' /\ FoundIsThere(work[d])' /\ RemovalIsKnown(work[d])'
  <2>1. CASE d = c
    BY <1>3, <2>1, RestIsWork DEF FoundIsThere, RemovalIsKnown, IsWork
  <2>2. CASE d # c
    <3>1. work'[d] = work[d] /\ IsWork(work[d]) /\ FoundIsThere(work[d]) /\ RemovalIsKnown(work[d])
      BY <1>3, <2>2 DEF CmdbInv
    <3>2. ASSUME work[d].op = "remove"
          PROVE  RemovalIsKnown(work[d])'
      <4>1. work[d].item \in Ends(edge) => work[d].item \in edge.met
        BY <1>1, <1>2, <3>1, <3>2 DEF RemovalIsKnown, Meets
      <4>2. \A b \in Clerks : Meets(work[d].item, work'[b]) => work[d].item \in work'[b].met
        BY <1>3, <3>1, <3>2, RestIsWork DEF RemovalIsKnown, Meets
      <4> QED
        BY <1>1, <3>1, <3>2, <4>1, <4>2 DEF RemovalIsKnown
    <3>3. RemovalIsKnown(work[d])'
      BY <3>1, <3>2 DEF RemovalIsKnown
    <3> QED
      BY <1>1, <3>1, <3>3 DEF IsWork, FoundIsThere
  <2> QED
    BY <2>1, <2>2
<1>5. \A e \in edges' : Ends(e) \subseteq Items /\ Ends(e) \subseteq items' \cup e.met
  <2> HIDE DEF edge
  <2> QED
    BY <1>1, <1>2 DEF CmdbInv
<1> QED
  BY <1>1, <1>3, <1>4, <1>5 DEF CmdbInv

\* A removal begins: it lists what is there, and is met by those who relate.
LEMMA ListEdgesKeeps ==
  ASSUME CmdbInv, NEW c \in Clerks, NEW i \in Items, ListEdges(c, i)
  PROVE  CmdbInv'
<1> DEFINE first == [Rest EXCEPT !.op = "remove", !.item = i, !.left = {e \in edges : i \in Ends(e)}]
           meeting(d) == [work[d] EXCEPT !.met = work[d].met \cup {i}]
<1>1. /\ work[c] = Rest /\ UNCHANGED <<items, edges>>
      /\ work' = [d \in Clerks |-> CASE d = c -> first
                                     [] Meets(i, work[d]) -> meeting(d)
                                     [] OTHER -> work[d]]
  BY DEF ListEdges
<1>2. /\ first = [field \in Fields |-> first[field]] /\ first.op = "remove" /\ first.item = i
      /\ first.left = {e \in edges : i \in Ends(e)}
  BY RestIsWork DEF IsWork, Fields
<1>3. IsWork(first)
  BY <1>2 DEF IsWork
<1>4. ASSUME NEW d \in Clerks, Meets(i, work[d])
      PROVE  /\ IsWork(meeting(d)) /\ meeting(d).op = work[d].op /\ meeting(d).item = work[d].item
             /\ meeting(d).other = work[d].other /\ meeting(d).met = work[d].met \cup {i}
  <2>1. IsWork(work[d])
    BY DEF CmdbInv
  <2> QED
    BY <2>1 DEF IsWork, Fields
<1> HIDE DEF first, meeting
<1>5. ~Meets(i, work[c])
  BY <1>1, RestIsWork DEF Meets
<1>6. work'[c] = first
  BY <1>1, <1>5
<1>7. \A d \in Clerks \ {c} : Meets(i, work[d]) => work'[d] = meeting(d)
  BY <1>1
<1>8. \A d \in Clerks \ {c} : ~Meets(i, work[d]) => work'[d] = work[d]
  BY <1>1
<1>9. ASSUME NEW d \in Clerks \ {c}
      PROVE  /\ IsWork(work'[d]) /\ work'[d].op = work[d].op /\ work'[d].item = work[d].item
             /\ work'[d].other = work[d].other /\ work[d].met \subseteq work'[d].met
             /\ Meets(i, work[d]) => i \in work'[d].met
             /\ work[d].op = "remove" => work'[d] = work[d]
  <2>1. CASE Meets(i, work[d])
    BY <1>4, <1>7, <2>1 DEF Meets
  <2>2. CASE ~Meets(i, work[d])
    BY <1>8, <2>2 DEF CmdbInv
  <2> QED
    BY <2>1, <2>2
<1>10. ASSUME NEW d \in Clerks
       PROVE  IsWork(work[d])' /\ FoundIsThere(work[d])' /\ RemovalIsKnown(work[d])'
  <2>1. CASE d = c
    <3>1. FoundIsThere(work[d])'
      BY <1>2, <1>6, <2>1 DEF FoundIsThere
    <3>2. \A b \in Clerks : Meets(i, work'[b]) => i \in work'[b].met
      BY <1>2, <1>6, <1>9 DEF Meets
    <3>3. RemovalIsKnown(work[d])'
      BY <1>1, <1>2, <1>6, <2>1, <3>2 DEF RemovalIsKnown
    <3> QED
      BY <1>3, <1>6, <2>1, <3>1, <3>3 DEF IsWork
  <2>2. CASE d # c
    <3>1. IsWork(work[d]) /\ FoundIsThere(work[d]) /\ RemovalIsKnown(work[d])
      BY DEF CmdbInv
    <3>2. FoundIsThere(work[d])'
      BY <1>1, <1>9, <2>2, <3>1 DEF FoundIsThere
    <3>3. ASSUME work'[d].op = "remove"
          PROVE  RemovalIsKnown(work[d])'
      <4>1. work'[d] = work[d] /\ work[d].op = "remove"
        BY <1>9, <2>2, <3>3
      <4>2. \A b \in Clerks : Meets(work[d].item, work'[b]) => work[d].item \in work'[b].met
        BY <1>2, <1>6, <1>9, <3>1, <4>1 DEF Meets, RemovalIsKnown
      <4> QED
        BY <1>1, <3>1, <4>1, <4>2 DEF RemovalIsKnown
    <3>4. RemovalIsKnown(work[d])'
      BY <3>3 DEF RemovalIsKnown
    <3> QED
      BY <1>9, <2>2, <3>2, <3>4 DEF IsWork
  <2> QED
    BY <2>1, <2>2
<1> QED
  BY <1>1, <1>10 DEF CmdbInv

\* What is left on the list is what is left to be removed.
LEMMA DropEdgeKeeps ==
  ASSUME CmdbInv, NEW c \in Clerks, DropEdge(c)
  PROVE  CmdbInv'
<1>1. PICK e \in work[c].left :
        edges' = edges \ {e} /\ work' = [work EXCEPT ![c].left = work[c].left \ {e}]
  BY DEF DropEdge
<1> DEFINE w == [work[c] EXCEPT !.left = work[c].left \ {e}]
<1>2. IsWork(work[c]) /\ work[c].op = "remove" /\ items' = items
  BY DEF CmdbInv, DropEdge
<1>3. /\ IsWork(w) /\ w.op = "remove" /\ w.item = work[c].item /\ w.left = work[c].left \ {e}
  BY <1>2 DEF IsWork, Fields
<1>4. work' = [work EXCEPT ![c] = w]
  BY <1>1
<1> HIDE DEF w
<1>5. /\ work' = [d \in Clerks |-> work'[d]] /\ work'[c] = w
      /\ \A d \in Clerks \ {c} : work'[d] = work[d]
  BY <1>4 DEF CmdbInv
<1>6. ASSUME NEW d \in Clerks
      PROVE  IsWork(work[d])' /\ FoundIsThere(work[d])' /\ RemovalIsKnown(work[d])'
  <2>1. IsWork(work[d]) /\ FoundIsThere(work[d]) /\ RemovalIsKnown(work[d])
    BY DEF CmdbInv
  <2>2. \A b \in Clerks : Meets(work[d].item, work'[b])
                            => work'[b] = work[b] /\ Meets(work[d].item, work[b])
    BY <1>3, <1>5 DEF Meets
  <2>3. CASE d = c
    BY <1>1, <1>2, <1>3, <1>5, <2>1, <2>2, <2>3 DEF FoundIsThere, RemovalIsKnown, IsWork
  <2>4. CASE d # c
    BY <1>1, <1>2, <1>5, <2>1, <2>2, <2>4 DEF FoundIsThere, RemovalIsKnown, IsWork
  <2> QED
    BY <2>3, <2>4
<1>7. \A f \in edges' : Ends(f) \subseteq Items /\ Ends(f) \subseteq items' \cup f.met
  BY <1>1, <1>2 DEF CmdbInv
<1> QED
  BY <1>2, <1>5, <1>6, <1>7 DEF CmdbInv

\* The item goes when nothing is left on the list: what touches it now was made
\* meanwhile, and what is about to be made knows.
LEMMA DropItemKeeps ==
  ASSUME CmdbInv, NEW c \in Clerks, DropItem(c)
  PROVE  CmdbInv'
<1> DEFINE gone == work[c].item
<1>1. /\ work[c].op = "remove" /\ work[c].left = {} /\ items' = items \ {gone} /\ edges' = edges
      /\ work' = [work EXCEPT ![c] = Rest]
  BY DEF DropItem
<1>2. RemovalIsKnown(work[c])
  BY DEF CmdbInv
<1>3. \A e \in edges : gone \in Ends(e) => gone \in e.met
  BY <1>1, <1>2 DEF RemovalIsKnown
<1>4. \A d \in Clerks : Meets(gone, work[d]) => gone \in work[d].met
  BY <1>1, <1>2 DEF RemovalIsKnown
<1> HIDE DEF gone
<1>5. /\ work' = [d \in Clerks |-> work'[d]] /\ work'[c] = Rest
      /\ \A d \in Clerks \ {c} : work'[d] = work[d]
  BY <1>1 DEF CmdbInv
<1>6. ASSUME NEW d \in Clerks
      PROVE  IsWork(work[d])' /\ FoundIsThere(work[d])' /\ RemovalIsKnown(work[d])'
  <2>1. CASE d = c
    BY <1>5, <2>1, RestIsWork DEF FoundIsThere, RemovalIsKnown, IsWork
  <2>2. CASE d # c
    <3>1. work'[d] = work[d] /\ IsWork(work[d]) /\ FoundIsThere(work[d]) /\ RemovalIsKnown(work[d])
      BY <1>5, <2>2 DEF CmdbInv
    <3>2. FoundIsThere(work[d])'
      BY <1>1, <1>4, <3>1 DEF FoundIsThere, Meets
    <3>3. \A b \in Clerks : Meets(work[d].item, work'[b])
                              => work'[b] = work[b] /\ Meets(work[d].item, work[b])
      BY <1>5, RestIsWork DEF Meets
    <3>4. RemovalIsKnown(work[d])'
      BY <1>1, <3>1, <3>3 DEF RemovalIsKnown
    <3> QED
      BY <3>1, <3>2, <3>4 DEF IsWork
  <2> QED
    BY <2>1, <2>2
<1>7. \A e \in edges' : Ends(e) \subseteq Items /\ Ends(e) \subseteq items' \cup e.met
  BY <1>1, <1>3 DEF CmdbInv
<1> QED
  BY <1>1, <1>5, <1>6, <1>7 DEF CmdbInv

\* So it is at the start, and whatever happens.
LEMMA EstateStarts == CmdbInit => CmdbInv
BY RestIsWork DEF CmdbInit, CmdbInv, FoundIsThere, RemovalIsKnown

LEMMA EstateGoesOn == CmdbInv /\ [CmdbNext]_cmdbVars => CmdbInv'
<1> SUFFICES ASSUME CmdbInv, [CmdbNext]_cmdbVars PROVE CmdbInv'
  OBVIOUS
<1>1. ASSUME NEW i \in Items, AddItem(i)
      PROVE  CmdbInv'
  BY <1>1, WorkGoesOn DEF AddItem, CmdbInv
<1>2. ASSUME NEW e \in edges, Unrelate(e)
      PROVE  CmdbInv'
  BY <1>2, WorkGoesOn DEF Unrelate, CmdbInv
<1>3. ASSUME NEW c \in Clerks, ClerkStep(c)
      PROVE  CmdbInv'
  BY <1>3, UpdatesKeep, RelatingKeeps, JoinKeeps, ListEdgesKeeps, DropEdgeKeeps, DropItemKeeps
     DEF ClerkStep
<1>4. CASE UNCHANGED cmdbVars
  BY <1>4, WorkGoesOn DEF cmdbVars, CmdbInv
<1> QED
  BY <1>1, <1>2, <1>3, <1>4 DEF CmdbNext

\* What impact() names, of an estate of any items and relationships.
LEMMA ImpactAnswers ==
  ASSUME CmdbInv
  PROVE  LET named == items \cup UNION {Ends(e) : e \in edges}
         IN  /\ named \in SUBSET Items
             /\ \A i \in named : /\ Impacted(i) = LeadsTo(Dependents, i, named)
                                 /\ DependsOn(i) = LeadsTo(Dependencies, i, named)
<1> DEFINE named == items \cup UNION {Ends(e) : e \in edges}
<1>1. named \in SUBSET Items
  BY DEF CmdbInv
<1>2. \A e \in edges : e.source \in named /\ e.target \in named
  BY DEF Ends
<1> HIDE DEF named
<1>3. Dependents \in SUBSET (named \X named) /\ Dependencies \in SUBSET (named \X named)
  BY <1>2 DEF Dependents, Dependencies, Carriers
<1>4. \A i \in named : /\ Impacted(i) = LeadsTo(Dependents, i, named)
                       /\ DependsOn(i) = LeadsTo(Dependencies, i, named)
  BY <1>1, <1>3, TraverseAnswers DEF Impacted, DependsOn
<1> QED
  BY <1>1, <1>4 DEF named

\* The traversal of cmdb.py answers with what the dependencies lead to and from, no
\* more and no less, whatever cycles and double edges there are, for any estate.
THEOREM ImpactIsWhatDepends == CmdbSpec => []ImpactIsClosure
<1>1. CmdbInv => ImpactIsClosure
  BY ImpactAnswers DEF ImpactIsClosure
<1> QED
  BY <1>1, EstateStarts, EstateGoesOn, PTL DEF CmdbSpec

\* delete_item leaves no edge without an end, unless the edge was being made at the
\* time: then impact() answers for every item.
THEOREM NoEdgeDangles == CmdbSpec => []EdgesHaveEnds
<1>1. ASSUME CmdbInv
      PROVE  EdgesHaveEnds
  <2>1. \A e \in edges : Ends(e) \ items \subseteq e.met
    BY <1>1 DEF CmdbInv
  <2>2. ASSUME \A e \in edges : e.met = {}, NEW i \in items
        PROVE  ImpactIsKnown(i)
    <3> DEFINE named == items \cup UNION {Ends(e) : e \in edges}
    <3>1. named = items
      BY <2>1, <2>2
    <3>2. Impacted(i) = LeadsTo(Dependents, i, items) /\ DependsOn(i) = LeadsTo(Dependencies, i, items)
      BY <1>1, <3>1, ImpactAnswers
    <3> QED
      BY <3>2 DEF ImpactIsKnown, LeadsTo
  <2> QED
    BY <2>1, <2>2 DEF EdgesHaveEnds
<1> QED
  BY <1>1, EstateStarts, EstateGoesOn, PTL DEF CmdbSpec
=============================================================================
