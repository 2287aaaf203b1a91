----------------------------- MODULE Marketplace -----------------------------
(***************************************************************************)
(* How a module gets from its sources into the folder plugins are loaded   *)
(* from (application/module_distribution_service.py). The builder archives *)
(* it and writes the index of the marketplace, which lists the digest of   *)
(* the archive. An installer finds the archive through the index, checks   *)
(* the digest, unpacks it beside, copies it file by file into a staging    *)
(* folder of the module, removes what was installed and renames the one    *)
(* to the other. Nothing keeps installers, the builder, or the ends of     *)
(* their processes apart. About one module; its manifest is sound, and its *)
(* sources are at rest while they are archived.                            *)
(***************************************************************************)
EXTENDS Naturals, FiniteSets

CONSTANTS
  Releases,     (* what the sources of the module have been, by number     *)
  FilesOf,      (* the files of each release                               *)
  Installers    (* requests to install it                                  *)

ASSUME MarketplaceAssumption ==
  /\ Releases \subseteq Nat \ {0}
  /\ DOMAIN FilesOf = Releases

VARIABLES
  sources,      (* the release that the sources are now                    *)
  archive,      (* the archive of the module, or NoFile                    *)
  index,        (* the release whose digest the index lists, or 0          *)
  build,        (* where the builder is                                    *)
  staging,      (* the staging folder, or NoFolder                         *)
  installed,    (* the folder of the installed module, or NoFolder         *)
  jobs,         (* where each installer is                                 *)
  torn,         (* a removal of installed was not finished: history         *)
  shared        (* two installers were at the folders at once: history     *)

shopVars == <<sources, archive, index, build>>
folderVars == <<staging, installed, torn, shared>>
marketVars == <<shopVars, folderVars, jobs>>

WholeRelease(r) == {<<f, r>> : f \in FilesOf[r]}

\* A folder is there or not, and holds files that are each of some release.
NoFolder == [there |-> FALSE, files |-> {}]
Folder(files) == [there |-> TRUE, files |-> files]

NoFile == [release |-> 0, closed |-> FALSE]
NoJob == [at |-> "idle", expected |-> 0, replace |-> FALSE, package |-> {},
          todo |-> {}, failed |-> FALSE]

-----------------------------------------------------------------------------
(* The builder: build_all of one manifest, step by step.                   *)

Develop(r) ==
  /\ build = "idle" /\ sources' = r
  /\ UNCHANGED <<archive, index, build, folderVars, jobs>>

\* Without replace an archive that exists is an error, and no index is written.
BuildOne(replace) ==
  /\ build = "idle" /\ (archive = NoFile \/ replace)
  /\ archive' = NoFile /\ build' = "removed"
  /\ UNCHANGED <<sources, index, folderVars, jobs>>

\* _write_zip: what is no archive yet until it is closed.
OpenArchive ==
  /\ build = "removed"
  /\ archive' = [release |-> sources, closed |-> FALSE] /\ build' = "writing"
  /\ UNCHANGED <<sources, index, folderVars, jobs>>
CloseArchive ==
  /\ build = "writing"
  /\ archive' = [archive EXCEPT !.closed = TRUE] /\ build' = "listing"
  /\ UNCHANGED <<sources, index, folderVars, jobs>>

\* write_text empties the index before it writes it.
EmptyIndex ==
  /\ build = "listing"
  /\ index' = 0 /\ build' = "indexing"
  /\ UNCHANGED <<sources, archive, folderVars, jobs>>
WriteIndex ==
  /\ build = "indexing"
  /\ index' = sources /\ build' = "idle"
  /\ UNCHANGED <<sources, archive, folderVars, jobs>>

StopBuild ==
  /\ build # "idle" /\ build' = "idle"
  /\ UNCHANGED <<sources, archive, index, folderVars, jobs>>

-----------------------------------------------------------------------------
(* An installer.                                                           *)

To(i, at) == jobs' = [jobs EXCEPT ![i].at = at]
EndJob(i) == jobs' = [jobs EXCEPT ![i] = NoJob]
AtFolders(i) == jobs[i].at \in {"clearing", "staging", "copying", "replacing", "renaming"}

\* install_from_marketplace takes the digest from the index, install_from_file
\* from the request, if at all.
Ask(i, expected, replace) ==
  /\ jobs[i] = NoJob
  /\ jobs' = [jobs EXCEPT ![i] =
       [NoJob EXCEPT !.at = "asked", !.expected = expected, !.replace = replace]]
  /\ UNCHANGED <<shopVars, folderVars>>

\* _verify_sha256
Verify(i) ==
  /\ jobs[i].at = "asked"
  /\ IF /\ archive # NoFile
        /\ jobs[i].expected # 0 =>
             archive = [release |-> jobs[i].expected, closed |-> TRUE]
     THEN To(i, "verified") ELSE EndJob(i)
  /\ UNCHANGED <<shopVars, folderVars>>

\* _prepare_source: a file that is no closed archive is refused. What is opened
\* is read to its end, whatever the builder puts in its place.
Unpack(i) ==
  /\ jobs[i].at = "verified"
  /\ IF archive.closed
     THEN jobs' = [jobs EXCEPT ![i].at = "unpacked", ![i].package = WholeRelease(archive.release)]
     ELSE EndJob(i)
  /\ UNCHANGED <<shopVars, folderVars>>

\* _install_tree begins: what is installed stays, unless it may be replaced;
\* a staging folder that is left from before is removed.
BeginInstall(i) ==
  /\ jobs[i].at = "unpacked"
  /\ IF installed.there /\ ~jobs[i].replace
     THEN EndJob(i) /\ UNCHANGED shared
     ELSE /\ jobs' = [jobs EXCEPT ![i].at = IF staging.there THEN "clearing" ELSE "staging",
                                  ![i].todo = staging.files]
          /\ shared' = (shared \/ \E j \in Installers \ {i} : AtFolders(j))
  /\ UNCHANGED <<shopVars, staging, installed, torn>>

\* rmtree: the files that were listed one by one, then the folder; a file that
\* is gone already and a folder that is not empty are errors.
RemoveTree(i, at, folder, next) ==
  /\ jobs[i].at = at
  /\ \/ \E f \in jobs[i].todo :
          /\ folder' = [folder EXCEPT !.files = @ \ {f}]
          /\ IF f \in folder.files
             THEN jobs' = [jobs EXCEPT ![i].todo = @ \ {f}]
             ELSE EndJob(i)
     \/ /\ jobs[i].todo = {}
        /\ IF folder = Folder({})
           THEN folder' = NoFolder /\ To(i, next)
           ELSE folder' = folder /\ EndJob(i)

ClearStaging(i) ==
  /\ RemoveTree(i, "clearing", staging, "staging")
  /\ UNCHANGED <<shopVars, installed, torn, shared>>

\* copytree makes the folder, which must not be there,
MakeStaging(i) ==
  /\ jobs[i].at = "staging"
  /\ IF staging.there
     THEN EndJob(i) /\ UNCHANGED staging
     ELSE /\ jobs' = [jobs EXCEPT ![i].at = "copying", ![i].todo = jobs[i].package]
          /\ staging' = Folder({})
  /\ UNCHANGED <<shopVars, installed, torn, shared>>

\* and goes on with the other files when one cannot be copied: it raises at
\* the end.
CopyFile(i) ==
  /\ jobs[i].at = "copying"
  /\ \E f \in jobs[i].todo :
       \/ /\ staging.there
          /\ staging' = Folder({g \in staging.files : g[1] # f[1]} \cup {f})
          /\ jobs' = [jobs EXCEPT ![i].todo = @ \ {f}]
       \/ /\ jobs' = [jobs EXCEPT ![i].todo = @ \ {f}, ![i].failed = TRUE]
          /\ UNCHANGED staging
  /\ UNCHANGED <<shopVars, installed, torn, shared>>

\* A plausible mistake: what could not be copied is passed over.
EndCopyAnyhow(i) ==
  /\ jobs[i].at = "copying" /\ jobs[i].todo = {}
  /\ jobs' = [jobs EXCEPT ![i].at = IF installed.there THEN "replacing" ELSE "renaming",
                          ![i].todo = installed.files]
  /\ UNCHANGED <<shopVars, folderVars>>
EndCopy(i) ==
  /\ jobs[i].at = "copying" /\ jobs[i].todo = {}
  /\ IF jobs[i].failed THEN EndJob(i)
     ELSE jobs' = [jobs EXCEPT ![i].at = IF installed.there THEN "replacing" ELSE "renaming",
                               ![i].todo = installed.files]
  /\ UNCHANGED <<shopVars, folderVars>>

RemoveTarget(i) ==
  /\ RemoveTree(i, "replacing", installed, "renaming")
  /\ torn' = installed'.there
  /\ UNCHANGED <<shopVars, staging, shared>>

\* rename replaces an empty folder, and no other.
Rename(i) ==
  /\ jobs[i].at = "renaming"
  /\ EndJob(i)
  /\ IF staging.there /\ installed.files = {}
     THEN installed' = staging /\ staging' = NoFolder /\ torn' = FALSE
     ELSE UNCHANGED <<staging, installed, torn>>
  /\ UNCHANGED <<shopVars, shared>>

\* An error, or the end of the process, between any two steps.
StopInstall(i) ==
  /\ jobs[i] # NoJob /\ EndJob(i)
  /\ UNCHANGED <<shopVars, folderVars>>

-----------------------------------------------------------------------------
MarketInit ==
  /\ sources \in Releases
  /\ archive = NoFile /\ index = 0 /\ build = "idle"
  /\ staging = NoFolder /\ installed = NoFolder
  /\ jobs = [i \in Installers |-> NoJob]
  /\ torn = FALSE /\ shared = FALSE

BuilderStep ==
  \/ \E r \in Releases : Develop(r)
  \/ \E replace \in BOOLEAN : BuildOne(replace)
  \/ OpenArchive \/ CloseArchive \/ EmptyIndex \/ WriteIndex \/ StopBuild

InstallerStep(i) ==
  \/ \E replace \in BOOLEAN :
       Ask(i, 0, replace) \/ (index # 0 /\ Ask(i, index, replace))
  \/ Verify(i) \/ Unpack(i) \/ BeginInstall(i) \/ ClearStaging(i) \/ MakeStaging(i)
  \/ CopyFile(i) \/ EndCopy(i) \/ RemoveTarget(i) \/ Rename(i) \/ StopInstall(i)

MarketNext == BuilderStep \/ \E i \in Installers : InstallerStep(i)

MarketSpec == MarketInit /\ [][MarketNext]_marketVars

-----------------------------------------------------------------------------
\* "Installation uses a staging directory and then renames into the final
\* module folder" (module-marketplace.md): whatever ends half way and whatever
\* the builder does meanwhile, the folder of a module holds one release, whole,
\* or what a removal that was not finished left of one; never a mixture, and
\* never a part of what was to be installed. Two installers at the folders at
\* once are no part of the promise, since they share the staging folder.
InstalledIsWhole ==
  installed.there /\ ~shared =>
    \E r \in Releases :
      \/ installed.files = WholeRelease(r)
      \/ installed.files \subseteq WholeRelease(r) /\ torn
=============================================================================
