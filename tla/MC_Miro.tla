------------------------------- MODULE MC_Miro -------------------------------
(* What one publication to a Miro board relies on: the mapping file and its  *)
(* sidecar, the calls of a sync and their recovery, a batch of creations,    *)
(* the patch of one item, the frames around the activities of a graph, the   *)
(* conversion of a board to one circle per address, and the credits that     *)
(* processes share.  The seven do not share a step; a behaviour has one.     *)
EXTENDS MiroState

\* Two jobs for two workers.
CONSTANTS j1, j2
VARIABLES coord, todo, drawn, pending, stray, firstError, interrupts, faltered, work, sends, reply,
          outcome, cancel, blocked, cooldown, known, knownLive, flying, left, late, landed, unseen,
          intents, mapped
requestVars == <<coord, todo, drawn, pending, stray, firstError, interrupts, faltered, work, sends,
                 reply, outcome, cancel, blocked, cooldown, known, knownLive, flying, left, late,
                 landed, unseen, intents, mapped>>
Q == INSTANCE MiroRequests WITH Jobs <- {j1, j2}, Workers <- 2, MaxTries <- 2, Budget <- 2,
                                MaxInterrupts <- 1, tries <- sends

\* An item with two fields.
CONSTANTS words, style
VARIABLES item, moved, structural, at, attempt, answer, read, writes, limits, fresh, clobbered
updateVars == <<item, moved, structural, at, attempt, answer, read, writes, limits, fresh, clobbered>>
U == INSTANCE MiroUpdate WITH Fields <- {words, style}, Attempts <- 3, MaxEdits <- 2, MaxLimits <- 1,
                              pc <- at, seen <- read, edits <- writes

\* The second plan changes a shape's text, removes a fee with its connector and
\* adds other items; the third has them all.
CONSTANTS a, b, f, ab, af, Manual
VARIABLES items, creations, updates, deletions, active, latest, batching, board, nextId, step, run,
          merged, requests, failing, faults, edits, touched, posted
syncVars == <<items, creations, updates, deletions, active, latest, batching, board, nextId, step,
              run, merged, requests, failing, faults, edits, touched, posted>>
S == INSTANCE MiroSync WITH
       Shapes <- {a, b, f}, Connectors <- {ab, af},
       Ends <- [c \in {ab, af} |-> IF c = ab THEN {a, b} ELSE {a, f}],
       Runs <- 3, Wanted <- <<{a, f, af}, {a, b, ab}, {a, b, f, ab, af}>>,
       Retired <- <<{}, {f, af}, {}>>, PlanText <- [n \in 1..3 |-> [k \in {a, b, f, ab, af} |-> n]],
       BatchSize <- 2, Workers <- 2, MaxObjects <- 7, MaxFaults <- 2, MaxEdits <- 1,
       pc <- step, flying <- requests

\* A link that is added merges the activities of two transactions.
VARIABLES graph, framed, uncertain, deleting, framing, frame, parent, place, stage, beheld, fits, detach,
          post, afloat, session, report, recent, hurt, decided, mishaps, strokes
frameVars == <<graph, framed, uncertain, deleting, framing, frame, parent, place, stage, beheld, fits,
               detach, post, afloat, session, report, recent, hurt, decided, mishaps, strokes>>
F == INSTANCE FrameSync WITH
       Plan <- <<[shapes |-> {1, 2}, links |-> {}], [shapes |-> {1, 2}, links |-> {<<1, 2>>}]>>,
       Starting <- {2}, Note <- 0, Places <- {1, 2},
       Layout <- [i \in {0, 1, 2} |-> IF i = 2 THEN 2 ELSE 1], MaxObjects <- 3, MaxFaults <- 1, MaxEdits <- 1,
       mapped <- framed, pending <- uncertain, active <- framing, pc <- stage, seen <- beheld, flight <- post,
       late <- afloat, faults <- mishaps, edits <- strokes

\* Three calls of processes with one token; one costs as much as Miro allows.
VARIABLES clock, next_start, cools, remaining, reset_at, credit_limit, reservations, call, reported,
          credits, blind, starts, crashes
quotaVars == <<clock, next_start, cools, remaining, reset_at, credit_limit, reservations, call,
               reported, credits, blind, starts, crashes>>
C == INSTANCE MiroQuota WITH
       Calls <- {j1, j2, f}, Cost <- [c \in {j1, j2, f} |-> IF c = f THEN 2 ELSE 1],
       Allowance <- 2, Period <- 2, Limits <- {1, 2}, Gap <- <<2, 1>>, MaxTime <- 4, MaxCrashes <- 1,
       cooldown <- cools, answer <- reported

\* A circle of an address is retained, its twin's connector redirected; a person
\* has a connector of their own.
CONSTANTS note, Gone
VARIABLES shapes, ends, written, mode, version, syncing, journal, backups, approved, doing, undone, cur,
          got, underway, stops, scribbles, changed, torn, spoiled, since
mergeVars == <<shapes, ends, written, mode, version, syncing, journal, backups, approved, doing, undone,
               cur, got, underway, stops, scribbles, changed, torn, spoiled, since>>
A == INSTANCE AddressMerge WITH
       Circles <- {a, b}, Account <- [k \in {a, b} |-> j1], Others <- {f}, Connectors <- {ab, af},
       Source <- [c \in {ab, af} |-> IF c = ab THEN a ELSE f],
       Target <- [c \in {ab, af} |-> IF c = ab THEN f ELSE b],
       Foreign <- {note}, MaxFaults <- 2, MaxEdits <- 1, MaxSyncs <- 1,
       pc <- doing, left <- undone, flying <- underway, faults <- stops, edits <- scribbles, recent <- since

ASSUME Q!MiroRequestsAssumption
ASSUME U!MiroUpdateAssumption
ASSUME S!MiroSyncAssumption
ASSUME F!FrameAssumption
ASSUME C!MiroQuotaAssumption
ASSUME A!MergeAssumption

VARIABLE part  \* what this behaviour is about
AllVars == <<part, vars, requestVars, updateVars, syncVars, frameVars, quotaVars, mergeVars>>
AnyInit ==
  /\ part \in {"mapping", "batch", "patch", "sync", "frames", "credits", "merge"}
  /\ Init /\ Q!Init /\ U!Init /\ S!Init /\ F!Init /\ C!Init /\ A!Init
AnyNext ==
  /\ UNCHANGED part
  /\ \/ part = "mapping" /\ Next
        /\ UNCHANGED <<requestVars, updateVars, syncVars, frameVars, quotaVars, mergeVars>>
     \/ part = "batch" /\ Q!Next
        /\ UNCHANGED <<vars, updateVars, syncVars, frameVars, quotaVars, mergeVars>>
     \/ part = "patch" /\ U!Next
        /\ UNCHANGED <<vars, requestVars, syncVars, frameVars, quotaVars, mergeVars>>
     \/ part = "sync" /\ S!Next
        /\ UNCHANGED <<vars, requestVars, updateVars, frameVars, quotaVars, mergeVars>>
     \/ part = "frames" /\ F!Next
        /\ UNCHANGED <<vars, requestVars, updateVars, syncVars, quotaVars, mergeVars>>
     \/ part = "credits" /\ C!Next
        /\ UNCHANGED <<vars, requestVars, updateVars, syncVars, frameVars, mergeVars>>
     \/ part = "merge" /\ A!Next
        /\ UNCHANGED <<vars, requestVars, updateVars, syncVars, frameVars, quotaVars>>
AnySpec ==
  /\ AnyInit /\ [][AnyNext]_AllVars
  /\ WF_requestVars(part = "batch" /\ Q!Goes)
  /\ WF_updateVars(part = "patch" /\ U!Patch)
  /\ WF_syncVars(part = "sync" /\ (S!Publish \/ S!Investigate))
  /\ SF_syncVars(part = "sync" /\ S!Newer)
  /\ WF_mergeVars(part = "merge" /\ A!Going)

\* Every variable has its type; workers, credits in flight, batches and
\* attempts are bounded.
AllTypesOK == TypeOK /\ Q!TypeOK /\ U!TypeOK /\ S!TypeOK /\ F!TypeOK /\ C!TypeOK /\ A!TypeOK
\* The journal of a board knows every object the program made there, over all
\* calls, faults and edits; no item is made twice, no connector loses an end.
BoardIsKnown == S!BoardIsKnown
\* The intents of a batch tell what the board may hold; and a lost or late
\* answer does no harm: the known budget never promises credits
\* that Miro does not have, a patch is repeated only where nothing a person
\* wrote, and no change of structure, can be lost by it, and no activity gets a
\* second frame unless the investigator said that there was none; all processes
\* together keep to the pace, and to what Miro has said is left; and a board that
\* is half converted has its journal, no connector and no note goes with a circle
\* that was seen free of them, and what is called merged is shown.
LostRepliesHarmless ==
  /\ Q!JournalHonest
  /\ Q!BudgetHonest /\ U!EditsSurviveReplay /\ U!StructuralOnce
  /\ F!NoUndecidedTwin /\ F!OwnFrames
  /\ C!BeliefHonest /\ C!Paced
  /\ A!NothingTorn /\ A!HalfConvertedIsJournaled /\ A!MergedIsShown
\* A patch that returns is shown, no call overwrites or deletes what a person
\* changed, after the first error nothing more of a batch is sent, nothing moves
\* or goes with a frame that was seen empty before, and a frame is adopted only
\* if it looked as intended.
EditsAreSafe ==
  /\ U!ReturnedIsShown /\ S!ManualPreserved /\ Q!QuietAfterError
  /\ []F!ContentsStay /\ F!SeenIsAdopted
\* A run is reported as synced once the board shows it, and loading refuses a
\* mapping only when files were lost.
ReportsAreTrue == S!SyncIsTrue /\ NoFalseAlarm
\* A call of map or patch_item ends, whatever Miro answers, and an interrupted
\* publication or conversion is resumed to the end.
PublishingEnds ==
  []<>(/\ coord \in {"idle", "ended"} /\ at \in {"idle", "returned", "stopped"}
       /\ (part = "sync" => latest = 3 \/ edits > 0)
       /\ (part = "merge" => A!Converts))
=============================================================================
