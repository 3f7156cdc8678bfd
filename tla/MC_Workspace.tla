---------------------------- MODULE MC_Workspace ----------------------------
(* What the processes of one workspace do to its files: the named boards of  *)
(* an investigation, its main board and its rebuild, collecting and          *)
(* recovering runs, deleting an investigation, its settings, and the jobs of *)
(* the local server.  They do not interact; a behaviour has one of them.     *)
EXTENDS Boards

CONSTANTS b3, k1, e1, e2, d1, d2, j1, j2, c1, c2, r1, r2, r3,
          s1, a1, n1, t1, o1, o2, z1, z2, role, red, Opt

VARIABLES mainLink, creation, rebuild, planFile, mapping, deleted, style, creator, pub, madeBy,
          begun, failures
rebuildVars == <<mainLink, creation, rebuild, planFile, mapping, deleted, style, creator, pub,
                 madeBy, begun, failures>>
B == INSTANCE BoardRebuild WITH Boards <- Boards \cup {b3}, MaxStarts <- 4, MaxFaults <- 1,
       link <- mainLink, op <- creator, maker <- madeBy, starts <- begun, faults <- failures

VARIABLES shared, run, latest, requests, proc, deaths
collectionVars == <<shared, run, latest, requests, proc, deaths>>
L == INSTANCE Collections WITH Runs <- {r1, r2, r3}, MaxFaults <- 2, faults <- deaths

VARIABLES at, trash, content, record, deletion, user, ghost, swaps, deletions
deletionVars == <<at, trash, content, record, deletion, user, ghost, swaps, deletions>>
D == INSTANCE CaseDeletion WITH Commands <- {k1}, Editors <- {e1, e2}, Confirmed <- d1,
                                Other <- d2, MaxSwaps <- 1, MaxDeletions <- 2

VARIABLES job, thread, worker, gate, terminal, active, saving, closing, edits
jobVars == <<job, thread, worker, gate, terminal, active, saving, closing, edits>>
Asks(action, about, board, credentials) ==
  [action |-> action, case |-> about, board |-> board, updates |-> FALSE, legacy |-> FALSE,
   credentials |-> credentials]
SomeRequests ==
  {Asks("trace", c1, None, TRUE), Asks("shared-trace", c1, None, TRUE),
   Asks("board-sync", c1, "board", TRUE), Asks("board-sync", c2, "board", TRUE),
   Asks("board-delete", c2, "board", TRUE), Asks("investigation-delete", c1, None, FALSE),
   Asks("pegin-match", None, None, TRUE)}
W == INSTANCE WebJobs WITH Jobs <- {j1, j2}, Requests <- SomeRequests, Cases <- {c1},
                           History <- 1, MaxEdits <- 1

VARIABLES settings, library, case, evidence, view, operation, collector
settingVars == <<settings, library, case, evidence, view, operation, collector>>
Row(k, v) == [key |-> k, value |-> v]
File(kind, policy, rows) == [kind |-> kind, policy |-> policy, rows |-> rows]
Attribution(policy) ==
  LET row == Row(a1, [name |-> n1, stop |-> TRUE, enabled |-> TRUE])
  IN File("attributions", policy, <<row, row>>)
Palette == File("name-colors", "replace", <<Row(n1, None)>>)
ChangeOutput == File("change-outputs", "keep", <<Row(t1, o1)>>)
S == INSTANCE CaseSettings WITH
  Sessions <- {s1}, Addresses <- {a1}, Names <- {n1}, Roles <- {role}, Txs <- {t1}, Sharing <- Opt,
  Patches <- {[name |-> n1, stop |-> None], [name |-> None, stop |-> TRUE]},
  Uploads <- {<<Attribution("keep")>>, <<Palette, Attribution("replace"), ChangeOutput>>},
  LibraryFiles <- {Attribution("replace")},
  PageEdits <- {[k \in {n1} |-> red], [k \in {role} |-> red]},
  Seeds <- {z1, z2}, Snapshots <- {{o2}}, MaxRevision <- 2

ASSUME B!BoardRebuildAssumption
ASSUME D!CaseDeletionAssumption
ASSUME W!WebJobsAssumption

VARIABLE part  \* what this behaviour is about
AllVars == <<part, vars, rebuildVars, collectionVars, deletionVars, jobVars, settingVars>>
AnyInit ==
  /\ part \in {"boards", "rebuild", "collection", "deletion", "jobs", "settings"}
  /\ Init /\ B!Init /\ L!Init /\ D!Init /\ W!Init /\ S!Init
  /\ part # "rebuild" => mainLink = None
  /\ part # "collection" => ~shared
  /\ part # "settings" => case.seeds = z1
AnyNext ==
  /\ UNCHANGED part
  /\ \/ part = "boards" /\ Next
        /\ UNCHANGED <<rebuildVars, collectionVars, deletionVars, jobVars, settingVars>>
     \/ part = "rebuild" /\ B!Next
        /\ UNCHANGED <<vars, collectionVars, deletionVars, jobVars, settingVars>>
     \/ part = "collection" /\ L!Next
        /\ UNCHANGED <<vars, rebuildVars, deletionVars, jobVars, settingVars>>
     \/ part = "deletion" /\ D!Next
        /\ UNCHANGED <<vars, rebuildVars, collectionVars, jobVars, settingVars>>
     \/ part = "jobs" /\ W!Next
        /\ UNCHANGED <<vars, rebuildVars, collectionVars, deletionVars, settingVars>>
     \/ part = "settings" /\ S!Next
        /\ UNCHANGED <<vars, rebuildVars, collectionVars, deletionVars, jobVars>>
AnySpec ==
  /\ AnyInit /\ [][AnyNext]_AllVars
  /\ WF_vars(part = "boards" /\ \E p \in Procs : Step(p))
  /\ WF_rebuildVars(part = "rebuild" /\ (B!Creating \/ B!Rebuilding))
  /\ WF_rebuildVars(part = "rebuild" /\ B!Syncing)
  /\ WF_rebuildVars(part = "rebuild" /\ \E s \in Boards \cup {b3} : B!Resume(s))
  /\ WF_collectionVars(part = "collection" /\ (L!Collecting \/ L!Installing))
  /\ WF_collectionVars(part = "collection" /\ L!Recovering)
  /\ WF_jobVars(part = "jobs" /\ \E j \in {j1, j2} : W!run_job(j))

\* Every variable has its type.
FileTypeOK == TypeOK /\ B!TypeOK /\ L!TypeOK /\ D!TypeOK /\ W!TypeOK /\ S!TypeOK
\* Nothing is lost that is still needed: no board a rebuild made is forgotten,
\* a rebuild keeps the plan it froze and is complete only when the board shows
\* it; the latest run is sealed and the original of a recovered run is kept;
\* deleting an investigation pulls no directory away from a command that works
\* in it, and empties only the directory the user confirmed.
FilesAreKept ==
  /\ B!EveryBoardIsKnown /\ B!PlanIsFrozen /\ B!CompleteIsShown
  /\ L!LatestIsSealed /\ L!OriginalIsKept
  /\ D!WorkIsInPlace /\ D!OnlyConfirmedIsRemoved
\* Jobs that would disturb each other are never active together, one provider
\* asks in the terminal, and active jobs can be cancelled.
JobsAreApart == W!JobsAreApart /\ W!OneAtTheTerminal /\ W!ActiveIsKnown
\* An interrupted creation is resumed and never started anew, a cancelled job
\* never reports success, sealed archives keep their bytes, a shared collection
\* moves on from its latest run, and an import saves what its review showed.
NothingIsRewritten ==
  /\ InterruptedIsResumed /\ W!CancelHolds /\ L!SealedIsFrozen /\ L!SharedAdvances
  /\ S!ReviewedIsSaved
\* Operations on boards end, a job that is stopped ends, a rebuild that is
\* repeated completes and a repeated recovery publishes the run.
WorkEnds ==
  []<>(/\ AllIdle /\ B!AllShown
       /\ \A j \in {j1, j2} : ~W!Unended(j)
       /\ \A r \in {r1, r2, r3} : ~L!Waiting(r))
=============================================================================
