---------------------------- MODULE SnapshotIndex ----------------------------
(* The verified index of a shared collection, and the projections that are    *)
(* made from it for an investigation (snapshot_index.py,                      *)
(* shared_projection.py).  Verifying an archive reads all of it, so the       *)
(* result is kept in cache files, for as long as no file of the archive has   *)
(* another stat.  Jobs of several processes open, build and read the index,   *)
(* and may die at any step; archives and cache files may change under them.   *)
EXTENDS Naturals, FiniteSets

CONSTANTS
  Jobs,
  Reads,      \* records and observations a projection needs
  MaxStarts,  \* bound
  MaxChanges, \* bound on changes of archives and cache files
  None

Archives == {"private", "shared"}
Files == {"trace", "evidence"}
\* The stat of a database is that of no other one that is known.
Serials == 0..(2 + Cardinality(Jobs))
Databases == [stat : Serials, rows : {"sealed", "other", "damaged"}]
Catalogs == [stat : Serials, seen : 0..MaxChanges, rows : {"sealed", "other"}]

SnapshotAssumption ==
  /\ IsFiniteSet(Jobs) /\ {Reads, MaxStarts, MaxChanges} \subseteq Nat \ {0}
  /\ None \notin Jobs /\ None \notin Serials /\ None \notin Databases /\ None \notin Catalogs

VARIABLES
  archive,  \* [Archives -> [stat, bad: the files that are not as they were sealed]]
  identity, \* the cached identity of the private archive: the stat it is for
  db,       \* the database of the index
  catalog,  \* its catalog
  gate,     \* [Archives -> the job that prepares it]
  shelf,    \* the job that makes the projection
  target,   \* the projection
  job,
  starts, changes
vars == <<archive, identity, db, catalog, gate, shelf, target, job, starts, changes>>

Free == [pc |-> "free", about |-> "private", seen |-> 0, sealed |-> TRUE, index |-> None, left |-> 0,
         disturbed |-> FALSE]
Working(j) == job[j].pc \notin {"free", "error"}
Has(j, pc) == job[j].pc = pc
About(j) == job[j].about
Unused ==
  CHOOSE n \in Serials :
    n \notin ({job[j].index : j \in Jobs} \cup (IF db = None THEN {} ELSE {db.stat})
              \cup (IF catalog = None THEN {} ELSE {catalog.stat}))

TypeOK ==
  /\ \A a \in Archives : archive[a].stat \in 0..MaxChanges /\ archive[a].bad \subseteq Files
  /\ gate \in [Archives -> Jobs \cup {None}] /\ shelf \in Jobs \cup {None}
  /\ db \in Databases \cup {None} /\ catalog \in Catalogs \cup {None}
  /\ target \in {"none", "sealed", "other"}
  /\ \A j \in Jobs : job[j].left \in 0..Reads /\ job[j].index \in Serials \cup {None}
Init ==
  /\ archive = [a \in Archives |-> [stat |-> 0, bad |-> {}]]
  /\ identity = None /\ db = None /\ catalog = None /\ gate = [a \in Archives |-> None] /\ shelf = None
  /\ target = "none" /\ job = [j \in Jobs |-> Free] /\ starts = 0 /\ changes = 0

Goes(j, record) == job' = [job EXCEPT ![j] = record]
Leaves(j) ==
  /\ gate' = [a \in Archives |-> IF gate[a] = j THEN None ELSE gate[a]]
  /\ shelf' = IF shelf = j THEN None ELSE shelf
Error(j) == Goes(j, [job[j] EXCEPT !.pc = "error"]) /\ Leaves(j)
Caches == <<identity, db, catalog>>
Counts == <<starts, changes>>
Locks == <<gate, shelf>>

-----------------------------------------------------------------------------
(* Opening an archive *)

_inventory(a) == archive[a].stat
Damage == \E a \in Archives : archive[a].bad # {}
Start(j) ==
  /\ job[j].pc \in {"free", "error"} /\ starts < MaxStarts /\ starts' = starts + 1
  /\ job' = [job EXCEPT ![j] = [Free EXCEPT !.pc = "gate", !.seen = _inventory("private"),
                                            !.disturbed = Damage]]
  /\ UNCHANGED <<archive, Caches, Locks, target, changes>>
\* One process prepares an archive while the others wait.
_gate(j) ==
  /\ Has(j, "gate") /\ gate[About(j)] = None
  /\ IF _inventory(About(j)) = job[j].seen
     THEN gate' = [gate EXCEPT ![About(j)] = j] /\ Goes(j, [job[j] EXCEPT !.pc = "cached"]) /\ UNCHANGED shelf
     ELSE Error(j)
  /\ UNCHANGED <<archive, Caches, target, Counts>>
\* The catalog belongs to this archive and to this database.
_cached(seen) == db # None /\ catalog # None /\ catalog.seen = seen /\ catalog.stat = db.stat
\* A database that was damaged in the moment between its publication and its
\* catalog's passes: the catalog has the stat of what is there by then.
Opens(j) ==
  /\ Goes(j, [job[j] EXCEPT !.pc = "shelf", !.index = db.stat, !.sealed = TRUE,
                            !.disturbed = @ \/ db.rows = "damaged"])
  /\ Leaves(j)
open_snapshot_index(j) ==
  /\ Has(j, "cached") /\ About(j) = "shared"
  /\ IF _cached(job[j].seen) THEN Opens(j) ELSE Goes(j, [job[j] EXCEPT !.pc = "verify"]) /\ UNCHANGED Locks
  /\ UNCHANGED <<archive, Caches, target, Counts>>
\* After the private archive comes the shared one.
ToShared(j) ==
  /\ Goes(j, [job[j] EXCEPT !.pc = "gate", !.about = "shared", !.seen = _inventory("shared"), !.sealed = TRUE])
  /\ Leaves(j)
verified_source_identity(j) ==
  /\ Has(j, "cached") /\ About(j) = "private"
  /\ IF identity = job[j].seen THEN ToShared(j) ELSE Goes(j, [job[j] EXCEPT !.pc = "verify"]) /\ UNCHANGED Locks
  /\ UNCHANGED <<archive, Caches, target, Counts>>

-----------------------------------------------------------------------------
(* Building *)

verify_export(j) ==
  /\ Has(j, "verify")
  /\ IF archive[About(j)].bad = {} THEN Goes(j, [job[j] EXCEPT !.pc = "load"]) /\ UNCHANGED Locks ELSE Error(j)
  /\ UNCHANGED <<archive, Caches, target, Counts>>
\* What is loaded need not be what was verified.
_build(j) ==
  /\ Has(j, "load")
  /\ Goes(j, [job[j] EXCEPT !.pc = "recheck", !.sealed = "trace" \notin archive[About(j)].bad])
  /\ UNCHANGED Locks
  /\ UNCHANGED <<archive, Caches, target, Counts>>
\* The mutant: what was built is published without another look at the archive.
RecheckNothing(j) ==
  /\ Has(j, "recheck") /\ Goes(j, [job[j] EXCEPT !.pc = "publish"]) /\ UNCHANGED Locks
  /\ UNCHANGED <<archive, Caches, target, Counts>>
Recheck(j) ==
  /\ Has(j, "recheck")
  /\ IF _inventory(About(j)) = job[j].seen
     THEN Goes(j, [job[j] EXCEPT !.pc = "publish"]) /\ UNCHANGED Locks ELSE Error(j)
  /\ UNCHANGED <<archive, Caches, target, Counts>>
SaveIdentity(j) ==
  /\ Has(j, "publish") /\ About(j) = "private" /\ identity' = job[j].seen /\ ToShared(j)
  /\ UNCHANGED <<archive, db, catalog, target, Counts>>
Rows(j) == IF job[j].sealed THEN "sealed" ELSE "other"
ReplaceDatabase(j) ==
  /\ Has(j, "publish") /\ About(j) = "shared" /\ db' = [stat |-> Unused, rows |-> Rows(j)]
  /\ Goes(j, [job[j] EXCEPT !.pc = "catalog"])
  /\ UNCHANGED <<archive, identity, catalog, Locks, target, Counts>>
ReplaceCatalog(j) ==
  /\ Has(j, "catalog")
  /\ IF db = None THEN Error(j) /\ UNCHANGED catalog
     ELSE /\ catalog' = [stat |-> db.stat, seen |-> job[j].seen, rows |-> Rows(j)]
          /\ Goes(j, [job[j] EXCEPT !.pc = "reopen"]) /\ UNCHANGED Locks
  /\ UNCHANGED <<archive, identity, db, target, Counts>>
Reopen(j) ==
  /\ Has(j, "reopen") /\ (IF _cached(job[j].seen) THEN Opens(j) ELSE Error(j))
  /\ UNCHANGED <<archive, Caches, target, Counts>>

-----------------------------------------------------------------------------
(* Projecting *)

\* A projection that is there is verified and used again.
_materialize(j) ==
  /\ Has(j, "shelf") /\ shelf = None
  /\ IF target = "other" THEN Error(j)
     ELSE IF target = "sealed" THEN Goes(j, [job[j] EXCEPT !.pc = "free", !.index = None]) /\ UNCHANGED Locks
     ELSE Goes(j, [job[j] EXCEPT !.pc = "read", !.left = Reads]) /\ shelf' = j /\ UNCHANGED gate
  /\ UNCHANGED <<archive, Caches, target, Counts>>
\* A record is the one the catalog names, or the job fails.
_read(j) ==
  /\ Has(j, "read") /\ job[j].left > 0
  /\ IF db # None /\ db.stat = job[j].index /\ db.rows # "damaged"
     THEN Goes(j, [job[j] EXCEPT !.left = @ - 1, !.sealed = @ /\ db.rows = "sealed"]) /\ UNCHANGED Locks
     ELSE Error(j)
  /\ UNCHANGED <<archive, Caches, target, Counts>>
\* The original responses are read from the archive itself.
_copy_observations(j) ==
  /\ Has(j, "read") /\ job[j].left = 0
  /\ IF "evidence" \in archive["shared"].bad THEN Error(j)
     ELSE Goes(j, [job[j] EXCEPT !.pc = "rename"]) /\ UNCHANGED Locks
  /\ UNCHANGED <<archive, Caches, target, Counts>>
Rename(j) ==
  /\ Has(j, "rename") /\ target' = Rows(j)
  /\ Goes(j, [job[j] EXCEPT !.pc = "free", !.index = None]) /\ Leaves(j)
  /\ UNCHANGED <<archive, Caches, Counts>>
Die(j) ==
  /\ Working(j) /\ job' = [job EXCEPT ![j] = Free] /\ Leaves(j)
  /\ UNCHANGED <<archive, Caches, target, Counts>>

-----------------------------------------------------------------------------
(* Changes that no job made *)

Happens ==
  /\ changes < MaxChanges /\ changes' = changes + 1
  /\ job' = [j \in Jobs |-> IF Working(j) THEN [job[j] EXCEPT !.disturbed = TRUE] ELSE job[j]]
  /\ UNCHANGED <<identity, Locks, target, starts>>
\* Files of an archive are touched, changed or restored.
ArchiveChanges(a) ==
  /\ Happens
  /\ \E bad \in SUBSET Files : archive' = [archive EXCEPT ![a] = [stat |-> @.stat + 1, bad |-> bad]]
  /\ UNCHANGED <<db, catalog>>
DatabaseChanges ==
  /\ Happens /\ db # None /\ db' \in {None, [stat |-> Unused, rows |-> "damaged"]}
  /\ UNCHANGED <<archive, catalog>>
CatalogLost == Happens /\ catalog # None /\ catalog' = None /\ UNCHANGED <<archive, db>>

Proceed(j) ==
  \/ _gate(j) \/ open_snapshot_index(j) \/ verified_source_identity(j) \/ verify_export(j) \/ _build(j)
  \/ Recheck(j) \/ SaveIdentity(j) \/ ReplaceDatabase(j) \/ ReplaceCatalog(j) \/ Reopen(j)
  \/ _materialize(j) \/ _read(j) \/ _copy_observations(j) \/ Rename(j)
Next ==
  \/ \E j \in Jobs : Start(j) \/ Proceed(j) \/ Die(j)
  \/ DatabaseChanges \/ CatalogLost \/ \E a \in Archives : ArchiveChanges(a)
Spec == Init /\ [][Next]_vars

-----------------------------------------------------------------------------
\* Whatever changed while it was verified, built, read or copied, a projection
\* has only what the archive was sealed with.
ProjectionIsSealed == target # "other"
\* A job fails only because something changed while it ran, or because what it
\* works on is damaged: what another job left behind when it died, a lost cache
\* file, or an index that another job builds at the same time, do not matter.
ErrorsHaveCauses == \A j \in Jobs : Has(j, "error") => job[j].disturbed
\* Every job that was started comes to an end.
JobsEnd == \A j \in Jobs : ~Working(j)
=============================================================================
