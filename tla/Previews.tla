------------------------------ MODULE Previews ------------------------------
(* Drawing previews of saved runs, reviewing them and publishing them while   *)
(* settings and the files of a run are changed by others: plots.py,           *)
(* preview_numbers.py, and the previews of connections.py and pegouts.py.     *)
(* The settings of an investigation are edited under case.lock; a run holds   *)
(* trace.lock.  (The shared library and saved counts have no part in those    *)
(* locks and are left out.)                                                   *)
(* Plots freeze the inputs they used.  Older plots, and the previews of       *)
(* connections and peg-outs, are published only as long as what they show is  *)
(* in force.                                                                  *)
EXTENDS Naturals, FiniteSets, FiniteSetsExt

CONSTANTS
  Jobs, Publishers,  \* programs that draw, and those that publish too
  Previews,
  Legacy,      \* maybe a plot that was saved before plots froze their inputs
  MaxChanges,  \* bound: edits, runs, and changes of files; every job draws or
               \* publishes once
  None

PreviewsAssumption == Publishers \subseteq Jobs /\ Legacy \in Previews /\ MaxChanges \in Nat

VARIABLES
  inputs,    \* revisions in force: services.json and the look in case.json
  moments,   \* every combination of them that was in force
  tracing,   \* a run holds trace.lock
  archive,   \* the files of the run: whole, and the stamp of their inodes
  preview,   \* the directory of a preview
  numbers,   \* preview-numbers.json: 0 without a number
  job, changes
vars == <<inputs, moments, tracing, archive, preview, numbers, job, changes>>

Drawn == {"plots", "connections", "pegouts"}
Idle == [pc |-> "idle", kind |-> None, preview |-> None, used |-> None, before |-> None,
         plan |-> None]
\* Both locks are held, shared, while peg-outs are drawn and while what is not
\* frozen is published.
HoldsBoth(j) == \/ job[j].kind = "pegouts" /\ job[j].pc \in {"drawing", "writing"}
                \/ job[j].kind # "plots" /\ job[j].pc \in {"reviewing", "publishing"}
Numbered(p) == preview[p] # None /\ preview[p].kind \in {"plots", "legacy"}
Sealed(p) == preview[p] # None /\ preview[p].state = "sealed"
_review_inventory(p) == <<preview[p].stamp, archive.stamp>>

\* effective_services and _settings: what a drawing uses.
Capture == inputs

TypeOK ==
  /\ inputs \in [services : Nat, look : Nat] /\ inputs \in moments
  /\ tracing \in BOOLEAN /\ archive \in [whole : BOOLEAN, stamp : Nat]
  /\ \A p \in Previews : preview[p] # None =>
       /\ preview[p].kind \in Drawn \cup {"legacy"} /\ preview[p].state \in {"writing", "sealed", "broken"}
       /\ preview[p].asMade \in BOOLEAN /\ preview[p].order \in Nat
  /\ numbers \in [Previews -> 0..Cardinality(Previews)]
  /\ \A j \in Jobs : job[j].pc \in {"idle", "done", "looked", "verify", "drawing", "writing", "sealed",
                                    "hashed", "reviewing", "reviewed", "publishing"}

Init ==
  /\ inputs = [services |-> 1, look |-> 1] /\ moments = {inputs}
  /\ tracing = FALSE /\ archive = [whole |-> TRUE, stamp |-> 0]
  /\ \E old \in {TRUE, FALSE} : preview = [p \in Previews |->
       IF old /\ p = Legacy THEN [kind |-> "legacy", state |-> "sealed", used |-> inputs, asMade |-> TRUE,
                                  stamp |-> 0, order |-> 0] ELSE None]
  /\ numbers = [p \in Previews |-> 0] /\ job = [j \in Jobs |-> Idle] /\ changes = 0

Becomes(j, fields) == job' = [job EXCEPT ![j] = [f \in DOMAIN Idle |->
                                 IF f \in DOMAIN fields THEN fields[f] ELSE job[j][f]]]
Finish(j) == job' = [job EXCEPT ![j] = [Idle EXCEPT !.pc = "done"]]
OnlyJob == UNCHANGED <<inputs, moments, tracing, archive, preview, numbers, changes>>

-----------------------------------------------------------------------------
(* Drawing *)

\* preview_plot, _source: look and settings under case.lock, released before
\* the archive is verified.
_source(j) ==
  /\ job[j].pc = "idle" /\ Becomes(j, [pc |-> "verify", kind |-> "plots", used |-> Capture]) /\ OnlyJob
\* preview_connections: no lock; the look is read before the run is verified,
\* the services after it.
ReadLook(j) ==
  /\ job[j].pc = "idle" /\ Becomes(j, [pc |-> "looked", kind |-> "connections", used |-> Capture]) /\ OnlyJob
ReadServices(j) ==
  /\ job[j].pc = "looked"
  /\ IF archive.whole THEN Becomes(j, [pc |-> "drawing", used |-> [Capture EXCEPT !.look = job[j].used.look]])
                      ELSE Finish(j)
  /\ OnlyJob
\* preview_pegouts: both locks until the preview is sealed.
_locked(j) ==
  /\ job[j].pc = "idle" /\ ~tracing /\ archive.whole
  /\ Becomes(j, [pc |-> "drawing", kind |-> "pegouts", used |-> Capture]) /\ OnlyJob
\* _archive_source: a run whose files changed is not drawn.
_archive_source(j) ==
  /\ job[j].pc = "verify"
  /\ IF archive.whole THEN Becomes(j, [pc |-> "drawing"]) ELSE Finish(j)
  /\ OnlyJob
\* Layout, then the graph, its plan and the report in a directory of their own.
Export(j) ==
  /\ job[j].pc = "drawing"
  /\ \E p \in {p \in Previews : preview[p] = None} :
       /\ preview' = [preview EXCEPT ![p] =
            [kind |-> job[j].kind, state |-> "writing", used |-> job[j].used, asMade |-> TRUE, stamp |-> 0,
             order |-> 1 + Cardinality({q \in Previews : preview[q] # None})]]
       /\ Becomes(j, [pc |-> "writing", preview |-> p])
  /\ UNCHANGED <<inputs, moments, tracing, archive, numbers, changes>>
\* SHA256SUMS comes last.
Seal(j) ==
  /\ job[j].pc = "writing"
  /\ preview' = [preview EXCEPT ![job[j].preview].state = "sealed"]
  /\ IF job[j].kind = "plots" THEN Becomes(j, [pc |-> "sealed"]) ELSE Finish(j)
  /\ UNCHANGED <<inputs, moments, tracing, archive, numbers, changes>>
\* An error or an interruption takes SHA256SUMS away again.
Fail(j) ==
  /\ job[j].pc \in {"writing", "sealed"}
  /\ preview' = [preview EXCEPT ![job[j].preview].state = "broken"]
  /\ Finish(j) /\ UNCHANGED <<inputs, moments, tracing, archive, numbers, changes>>
Crash(j) == job[j].pc \notin {"idle", "done"} /\ Finish(j) /\ OnlyJob

-----------------------------------------------------------------------------
(* Numbers *)

\* _completed: in the order of the reports, after those with a number.
_completed(known) == {p \in Previews : Numbered(p) /\ Sealed(p) /\ known[p] = 0}
Appended(known) ==
  LET next == 1 + Max({known[p] : p \in Previews})
  IN  [p \in Previews |-> IF p \notin _completed(known) THEN known[p]
                          ELSE next + Cardinality({q \in _completed(known) : preview[q].order < preview[p].order})]
\* numbered_previews of a drawing, or of list_plots: what has a number needs no
\* lock, and under it the registry is read again.
_lookup(j) ==
  /\ job[j].pc \in {"sealed", "done"}
  /\ numbers' = IF job[j].pc = "sealed" /\ numbers[job[j].preview] # 0 THEN numbers ELSE Appended(numbers)
  /\ job[j].pc = "done" => numbers' # numbers
  /\ Finish(j) /\ UNCHANGED <<inputs, moments, tracing, archive, preview, changes>>

-----------------------------------------------------------------------------
(* Review and publication *)

\* _snapshot, _verify_manifest: every file is the one that was sealed, and the
\* plan is the plan of the graph.
_snapshot(p) == Sealed(p) /\ preview[p].asMade
\* _review_source: the run is whole; what is not frozen must be in force.
_review_source(p) ==
  /\ archive.whole
  /\ preview[p].kind = "legacy" => preview[p].used = inputs
reviewed_connections(p) == _snapshot(p) /\ archive.whole /\ preview[p].used = inputs
reviewed_pegouts(p) == _snapshot(p) /\ archive.whole /\ preview[p].used = inputs
Reviewed(p) ==
  CASE preview[p].kind = "connections" -> reviewed_connections(p)
    [] preview[p].kind = "pegouts" -> reviewed_pegouts(p)
    [] OTHER -> _snapshot(p) /\ _review_source(p)

\* publish_connections, publish_pegouts: under both locks from before the review.
Lock(j) ==
  /\ job[j].pc = "idle" /\ ~tracing
  /\ \E p \in Previews : preview[p] # None /\ preview[p].kind \in {"connections", "pegouts"}
       /\ Becomes(j, [pc |-> "reviewing", kind |-> preview[p].kind, preview |-> p])
  /\ OnlyJob
\* reviewed_plot for create_and_sync: no lock, but an inventory of the files on
\* both sides.  They are hashed first and read again after.
HashPlot(j) ==
  /\ job[j].pc = "idle"
  /\ \E p \in Previews : Numbered(p) /\ _snapshot(p)
       /\ Becomes(j, [pc |-> "hashed", kind |-> preview[p].kind, preview |-> p, before |-> _review_inventory(p)])
  /\ OnlyJob
reviewed_plot(j) ==
  /\ job[j].pc = "hashed"
  /\ IF _review_source(job[j].preview) /\ _review_inventory(job[j].preview) = job[j].before
     THEN Becomes(j, [pc |-> "reviewed", plan |-> preview[job[j].preview].asMade]) ELSE Finish(j)
  /\ OnlyJob
\* An older plot is reviewed again under the locks.
Relock(j) ==
  /\ job[j].pc = "reviewed" /\ job[j].kind = "legacy" /\ ~tracing
  /\ Becomes(j, [pc |-> "reviewing"]) /\ OnlyJob
Refuse(j) == job[j].pc = "reviewed" /\ job[j].kind = "legacy" /\ tracing /\ Finish(j) /\ OnlyJob
Review(j) ==
  /\ job[j].pc = "reviewing"
  /\ IF Reviewed(job[j].preview) THEN Becomes(j, [pc |-> "publishing", plan |-> TRUE]) ELSE Finish(j)
  /\ OnlyJob
\* _VerifiedPlot.check, after the board was created.
check(j) ==
  /\ job[j].pc = "reviewed" /\ job[j].kind = "plots"
  /\ IF _review_inventory(job[j].preview) = job[j].before THEN Becomes(j, [pc |-> "publishing"]) ELSE Finish(j)
  /\ OnlyJob
Published(j) == job[j].pc = "publishing" /\ Finish(j) /\ OnlyJob

-----------------------------------------------------------------------------
(* Others *)

Edit ==
  /\ changes < MaxChanges /\ changes' = changes + 1
  /\ \A j \in Jobs : ~HoldsBoth(j)
  /\ \E f \in DOMAIN inputs : inputs' = [inputs EXCEPT ![f] = @ + 1]
  /\ moments' = moments \cup {inputs'} /\ UNCHANGED <<tracing, archive, preview, numbers, job>>
Trace ==
  /\ changes < MaxChanges /\ changes' = changes + 1 /\ \A j \in Jobs : ~HoldsBoth(j)
  /\ tracing' = ~tracing /\ UNCHANGED <<inputs, moments, archive, preview, numbers, job>>
\* Files change, and may be put back: the stamp of an inode does not come back.
TamperPreview ==
  /\ changes < MaxChanges /\ changes' = changes + 1
  /\ \E p \in Previews : Sealed(p)
       /\ preview' = [preview EXCEPT ![p].asMade = ~@, ![p].stamp = changes']
  /\ UNCHANGED <<inputs, moments, tracing, archive, numbers, job>>
TamperArchive ==
  /\ changes < MaxChanges /\ changes' = changes + 1
  /\ archive' = [whole |-> ~archive.whole, stamp |-> changes']
  /\ UNCHANGED <<inputs, moments, tracing, preview, numbers, job>>

Next ==
  \/ \E j \in Jobs :
       \/ _source(j) \/ ReadLook(j) \/ ReadServices(j) \/ _locked(j) \/ _archive_source(j) \/ Export(j)
       \/ Seal(j) \/ Fail(j) \/ Crash(j) \/ _lookup(j)
  \/ \E j \in Publishers :
       \/ Lock(j) \/ HashPlot(j) \/ reviewed_plot(j) \/ Relock(j) \/ Refuse(j) \/ Review(j) \/ check(j) \/ Published(j)
  \/ Edit \/ Trace \/ TamperPreview \/ TamperArchive

-----------------------------------------------------------------------------
\* A plot, and a preview of peg-outs, shows settings and a look that were in
\* force together at one moment.
ShowsOneMoment ==
  \A p \in Previews : Sealed(p) /\ preview[p].kind # "connections" => preview[p].used \in moments
\* While a connection, peg-out or older plot is published, the settings it shows
\* are those in force.  What is published of a plot is what was sealed, whenever
\* its files change.
PublishedIsInForce ==
  \A j \in Jobs : job[j].pc = "publishing" =>
    /\ job[j].kind # "plots" => preview[job[j].preview].used = inputs
    /\ job[j].plan
NumbersAreUnique == \A p, q \in Previews : p # q /\ numbers[p] # 0 => numbers[p] # numbers[q]
\* A number is given once, and never to a preview that was not complete.
NumbersAreKept ==
  [][\A p \in Previews : numbers'[p] # numbers[p] => numbers[p] = 0 /\ Sealed(p)]_vars
=============================================================================
