----------------------------- MODULE EditLocks ------------------------------
(***************************************************************************)
(* Editors at work under the edit locks of ContentNodes. The lock promises *)
(* to reserve "a node for one editor so concurrent edits don't clobber     *)
(* each other" (domain/locks/__init__.py): what its holder has on the      *)
(* screen is what is stored, until the lock expires or is taken by force.  *)
(***************************************************************************)
EXTENDS ContentNodes

VARIABLE onScreen   (* the draft the current holder of each lock last saw:  *)
                    (* a history variable, in no row of the database        *)

editVars == <<vars, onScreen>>

EditInit == Init /\ onScreen = [n \in NodeIds |-> None]

Holds(actor, n) == LockActive(n) /\ locks[n].owner = actor

\* A new grant shows its holder the stored draft; a renewal by the holder (the
\* token stays the same) leaves the editor with the page as it was loaded.
Reserve(n, actor, ttl, force) ==
  /\ AcquireLock(n, actor, ttl, force)
  /\ onScreen' = IF Holds(actor, n) THEN onScreen
                 ELSE [onScreen EXCEPT ![n] = nodes[n].draft]

\* A write by the holder is on the holder's screen; anyone else's is not.
Written(n, actor) ==
  onScreen' = IF Holds(actor, n) THEN [onScreen EXCEPT ![n] = nodes'[n].draft]
              ELSE onScreen

EditNext ==
  \/ \E n \in NodeIds, a \in Actors, ttl \in Ttls, force \in BOOLEAN :
       Reserve(n, a, ttl, force)
  \/ \E n \in NodeIds, a \in Actors :
       /\ \/ \E s \in Slugs \cup {None}, d \in Payloads : Update(n, s, d, a)
          \/ \E v \in versions[n] : RestoreVersion(n, v.no, a)
       /\ Written(n, a)
  \/ /\ \/ \E n \in NodeIds, a \in Actors :
             \/ Publish(n, a) \/ Unpublish(n, a) \/ Delete(n, a)
             \/ \E force \in BOOLEAN : ReleaseLock(n, a, force)
        \/ \E n \in NodeIds, p \in NodeIds \cup {None}, s \in Slugs, d \in Payloads :
             Create(n, p, s, d)
        \/ \E n, copy \in NodeIds, s \in Slugs : Duplicate(n, copy, s)
        \/ \E n \in NodeIds : RestoreTrashed(n) \/ Purge(n)
        \/ Tick
     /\ UNCHANGED onScreen

EditSpec == EditInit /\ [][EditNext]_editVars

-----------------------------------------------------------------------------
\* As long as a lock is active the stored draft is the one its holder works
\* from: no other editor's save, rollback, restore or purge comes in between.
LockProtectsDraft ==
  \A n \in NodeIds : LockActive(n) => nodes[n].draft = onScreen[n]
=============================================================================
