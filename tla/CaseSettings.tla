---------------------------- MODULE CaseSettings ----------------------------
(* The settings of an investigation and the attribution library its          *)
(* workspace shares: services.json (address rules, name and role colors,     *)
(* change outputs, the opt-in to the library, each change in a history),     *)
(* .shared-attributions.json, and the seeds and defaults in case.json.       *)
(* Every file is replaced whole under its locks, so each save is one step;   *)
(* reviews and pages read without a lock and are used later.                 *)
EXTENDS Naturals, SequencesExt

CONSTANTS
  Sessions,     \* browser tabs and terminals
  Addresses, Names, Roles, Txs,  \* what rules, colors and change outputs are about
  Sharing,      \* the key of the opt-in, whose value is Sharing or None
  Patches,      \* calls of set_service: [name, stop], None keeps the saved one
  Uploads,      \* reviewed imports: sequences of [kind, policy, rows]
  LibraryFiles, \* imports into the library: one such file
  PageEdits,    \* saves of an open page: functions from keys to values
  Seeds,        \* sets of starting outputs
  Snapshots,    \* outputs a verified run says are spendable; None: unknown transaction
  MaxRevision,  \* bound: revisions of a file
  None

Keys == Addresses \cup Names \cup Roles \cup Txs \cup {Sharing}
KeysOf(kind) ==
  CASE kind = "attributions" -> Addresses
    [] kind = "name-colors" -> Names
    [] OTHER -> Txs

VARIABLES
  settings,  \* services.json: revision, saved, history
  library,   \* .shared-attributions.json, likewise
  case,      \* case.json: seeds, seed_revision, defaults
  evidence,  \* what the latest verified run says of the transaction
  view,      \* per session, what it was shown: a page or a review
  operation, \* the holder of trace.lock, its mode and what it read first
  collector  \* the seeds when a shared collection took its trace.lock
vars == <<settings, library, case, evidence, view, operation, collector>>

Restricted(f, S) == [k \in S |-> f[k]]
\* One saved change: the next revision, its history entry and the new values.
Saves(file, keys, value) ==
  [revision |-> file.revision + 1,
   saved |-> [k \in DOMAIN file.saved |-> IF k \in keys THEN value[k] ELSE file.saved[k]],
   history |-> Append(file.history,
     [revision |-> file.revision + 1, previous |-> Restricted(file.saved, keys),
      now |-> Restricted(value, keys)])]

-----------------------------------------------------------------------------
\* Reading.  A missing file is the empty one.
Opted == settings.saved[Sharing] # None
\* Rules of the case come before inherited ones, disabled rules too; what is
\* inherited never stops a trace.
effective_services ==
  [a \in Addresses |->
     CASE settings.saved[a] # None \/ ~Opted -> settings.saved[a]
       [] library.saved[a] = None -> None
       [] OTHER -> [library.saved[a] EXCEPT !.stop = FALSE]]

-----------------------------------------------------------------------------
\* Parsing an import: rows of one key must agree, and duplicates are dropped.
Parses(file) ==
  \A i, j \in DOMAIN file.rows :
    file.rows[i].key = file.rows[j].key => file.rows[i].value = file.rows[j].value
FirstRows(file) ==
  SelectSeq([i \in DOMAIN file.rows |->
               [key |-> file.rows[i].key, value |-> file.rows[i].value,
                first |-> \A j \in 1..(i - 1) : file.rows[j].key # file.rows[i].key]],
            LAMBDA row : row.first)
\* Planning: what the policy makes of each row.
Planned(before, file, row) ==
  CASE before[row.key] = row.value -> "unchanged"
    [] before[row.key] = None -> "add"
    [] file.policy = "keep" -> "keep"
    [] row.value = None -> "clear"
    [] OTHER -> "replace"
Changes(before, file) ==
  SelectSeq(FirstRows(file), LAMBDA row : Planned(before, file, row) \in {"add", "clear", "replace"})
\* A change output the evidence knows must be a spendable output of it.
check_known_output(known, value) == (value # None /\ known # None) => value \in known
KnownOutputs(known, file) ==
  file.kind = "change-outputs" => \A i \in DOMAIN file.rows : check_known_output(known, file.rows[i].value)

\* Attributions are saved first and one by one, a mapping in one entry.
SaveRows(before, rows) ==
  FoldLeft(LAMBDA file, row : Saves(file, {row.key}, [k \in {row.key} |-> row.value]), before, rows)
SaveMapping(before, kind, rows) ==
  IF rows = <<>> THEN before
  ELSE Saves(before, KeysOf(kind),
             FoldLeft(LAMBDA after, row : [after EXCEPT ![row.key] = row.value], before.saved, rows))
SaveFile(before, file) ==
  LET rows == Changes(before.saved, file) IN
  IF file.kind = "attributions" THEN SaveRows(before, rows) ELSE SaveMapping(before, file.kind, rows)
InOrder(upload) ==
  SelectSeq(upload, LAMBDA file : file.kind = "attributions")
    \o SelectSeq(upload, LAMBDA file : file.kind # "attributions")
\* What a review shows that applying the upload to these settings would save.
Outcome(before, upload) == FoldLeft(SaveFile, before, InOrder(upload))
_prepare(upload) ==
  /\ \A i \in DOMAIN upload : Parses(upload[i])
  /\ \A i, j \in DOMAIN upload : upload[i].kind = upload[j].kind => i = j
Plan(before, known, upload) ==
  [settings |-> before, evidence |-> known, upload |-> upload,
   valid |-> _prepare(upload) /\ \A i \in DOMAIN upload : KnownOutputs(known, upload[i])]

-----------------------------------------------------------------------------
\* Writers take trace.lock, then case.lock; the former without waiting.
Free == operation = None
Room(file) == file.revision < MaxRevision
Keep(s) == view' = [view EXCEPT ![s] = None]

\* preview_import and the pages read whatever is saved now.
preview_import(s, upload) ==
  /\ view[s] = None
  /\ Plan(settings, evidence, upload).valid
  /\ view' = [view EXCEPT ![s] = [kind |-> "review", plan |-> Plan(settings, evidence, upload)]]
  /\ UNCHANGED <<settings, library, case, evidence, operation, collector>>
FileMatches(s) == Plan(settings, evidence, view[s].plan.upload).valid
PlanMatches(s) == Plan(settings, evidence, view[s].plan.upload) = view[s].plan
apply_import(s) ==
  /\ view[s] # None /\ view[s].kind = "review" /\ Room(settings)
  /\ Keep(s)
  /\ IF Free /\ PlanMatches(s)
     THEN settings' = Outcome(settings, view[s].plan.upload)
     ELSE UNCHANGED settings
  /\ UNCHANGED <<library, case, evidence, operation, collector>>

\* The color, sharing and change pages, and the seeds.
open_page(s) ==
  /\ view[s] = None
  /\ view' = [view EXCEPT ![s] = [kind |-> "page", revision |-> settings.revision,
                saved |-> settings.saved, seeds |-> case.seeds, seed_revision |-> case.seed_revision]]
  /\ UNCHANGED <<settings, library, case, evidence, operation, collector>>
PageIsCurrent(s) == view[s].revision = settings.revision
\* An edit that changes nothing is not a revision.
save_page(s, edit) ==
  /\ view[s] # None /\ view[s].kind = "page" /\ Room(settings)
  /\ Keep(s)
  /\ IF /\ Free /\ PageIsCurrent(s)
        /\ \E k \in DOMAIN edit : edit[k] # settings.saved[k]
     THEN settings' = Saves(settings, DOMAIN edit, edit)
     ELSE UNCHANGED settings
  /\ UNCHANGED <<library, case, evidence, operation, collector>>

set_name_colors(s, edit) == DOMAIN edit \subseteq Names /\ save_page(s, edit)
set_role_colors(s, edit) == DOMAIN edit \subseteq Roles /\ save_page(s, edit)
set_shared_attributions(s) ==
  /\ view[s] # None /\ view[s].kind = "page" /\ Room(settings)
  /\ Keep(s)
  /\ settings' = IF Free /\ PageIsCurrent(s)
                 THEN Saves(settings, {Sharing}, [k \in {Sharing} |-> IF Opted THEN None ELSE Sharing])
                 ELSE settings
  /\ UNCHANGED <<library, case, evidence, operation, collector>>

\* Edits that name no revision: a rule of one address, merged with what the
\* case has or inherits, or turned off; and a change output from a script.
Base(a) == effective_services[a]
Merged(a, patch) ==
  LET base == IF Base(a) = None THEN [name |-> None, stop |-> FALSE, enabled |-> TRUE] ELSE Base(a)
  IN [name |-> IF patch.name = None THEN base.name ELSE patch.name,
      stop |-> IF patch.stop = None THEN base.stop ELSE patch.stop, enabled |-> TRUE]
set_service(a, patch) ==
  /\ Free /\ Room(settings)
  /\ settings' = Saves(settings, {a}, [k \in {a} |-> Merged(a, patch)])
  /\ UNCHANGED <<library, case, evidence, view, operation, collector>>
disable_service(a) ==
  /\ Free /\ Base(a) # None /\ Room(settings)
  /\ settings' = Saves(settings, {a}, [k \in {a} |-> [Base(a) EXCEPT !.enabled = FALSE]])
  /\ UNCHANGED <<library, case, evidence, view, operation, collector>>
set_change_output(t, output) ==
  /\ Free /\ Room(settings)
  /\ check_known_output(evidence, output) /\ settings.saved[t] # output
  /\ settings' = Saves(settings, {t}, [k \in {t} |-> output])
  /\ UNCHANGED <<library, case, evidence, view, operation, collector>>

-----------------------------------------------------------------------------
\* The library has a lock of its own, which waits; tracing controls are dropped.
NoControls(file) ==
  [file EXCEPT !.rows = [i \in DOMAIN file.rows |->
     [file.rows[i] EXCEPT !.value = [file.rows[i].value EXCEPT !.stop = FALSE]]]]
preview_library(s, file) ==
  /\ view[s] = None /\ Parses(NoControls(file))
  /\ view' = [view EXCEPT ![s] = [kind |-> "library", library |-> library, file |-> file]]
  /\ UNCHANGED <<settings, library, case, evidence, operation, collector>>
apply_library(s) ==
  /\ view[s] # None /\ view[s].kind = "library" /\ Room(library)
  /\ Keep(s)
  /\ library' = IF library = view[s].library THEN SaveFile(library, NoControls(view[s].file)) ELSE library
  /\ UNCHANGED <<settings, case, evidence, operation, collector>>

-----------------------------------------------------------------------------
\* case.json.  Seeds are saved against their own revision while no shared
\* collection and no operation runs; defaults while no operation excludes it.
save_seeds(s, seeds) ==
  /\ view[s] # None /\ view[s].kind = "page" /\ case.seed_revision < MaxRevision
  /\ Keep(s)
  /\ case' = IF /\ collector = None /\ Free
                /\ case.seed_revision = view[s].seed_revision /\ case.seeds # seeds
             THEN [case EXCEPT !.seeds = seeds, !.seed_revision = @ + 1]
             ELSE case
  /\ UNCHANGED <<settings, library, evidence, operation, collector>>
\* update_case, save_plot_settings and save_collection_reference merge one
\* setting into what case.json has now.
save_defaults ==
  /\ operation # None => operation.mode = "shared"
  /\ case' = [case EXCEPT !.defaults = "changed"]
  /\ UNCHANGED <<settings, library, evidence, view, operation, collector>>

\* Traces and lookups hold trace.lock alone, previews share it; both work on
\* what they read under it.  A run replaces the evidence.
begin_operation(mode) ==
  /\ Free
  /\ operation' = [mode |-> mode, saved |-> settings.saved, labels |-> effective_services,
                   seeds |-> case.seeds]
  /\ UNCHANGED <<settings, library, case, evidence, view, collector>>
end_operation ==
  /\ operation # None /\ operation' = None
  /\ evidence' \in (IF operation.mode = "alone" THEN Snapshots \cup {evidence} ELSE {evidence})
  /\ UNCHANGED <<settings, library, case, view, collector>>
shared_collection ==
  /\ collector' = IF collector = None THEN case.seeds ELSE None
  /\ UNCHANGED <<settings, library, case, evidence, view, operation>>

-----------------------------------------------------------------------------
NoFile(keys) == [revision |-> 0, saved |-> [k \in keys |-> None], history |-> <<>>]
Init ==
  /\ settings = NoFile(Keys) /\ library = NoFile(Addresses)
  /\ case \in [seeds : Seeds, seed_revision : {0}, defaults : {"first"}]
  /\ evidence = None /\ view = [s \in Sessions |-> None]
  /\ operation = None /\ collector = None
Import(s) ==
  \/ \E upload \in Uploads : preview_import(s, upload)
  \/ apply_import(s)
  \/ \E file \in LibraryFiles : preview_library(s, file)
  \/ apply_library(s)
Page(s) ==
  \/ open_page(s)
  \/ \E edit \in PageEdits : set_name_colors(s, edit) \/ set_role_colors(s, edit)
  \/ set_shared_attributions(s)
  \/ \E seeds \in Seeds : save_seeds(s, seeds)
Direct ==
  \/ \E a \in Addresses : disable_service(a) \/ \E patch \in Patches : set_service(a, patch)
  \/ \E t \in Txs : \E known \in Snapshots \ {None} : \E output \in known : set_change_output(t, output)
  \/ save_defaults
Work ==
  \/ \E mode \in {"alone", "shared"} : begin_operation(mode)
  \/ end_operation \/ shared_collection
Next == (\E s \in Sessions : Import(s) \/ Page(s)) \/ Direct \/ Work
Spec == Init /\ [][Next]_vars

-----------------------------------------------------------------------------
Rules == [name : Names \cup {None}, stop : BOOLEAN, enabled : BOOLEAN]
\* Every variable has its type.
TypeOK ==
  /\ settings.revision \in Nat /\ DOMAIN settings.saved = Keys
  /\ \A a \in Addresses : settings.saved[a] = None \/ settings.saved[a] \in Rules
  /\ library.saved \in [Addresses -> Rules \cup {None}]
  /\ case.seeds \in Seeds /\ DOMAIN view = Sessions

\* The history of a file replays, revision by revision, to what it holds: what
\* _validate in shared_attributions.py requires of the library before it is
\* read again, and what an audit of services.json relies on.
Replays(file) ==
  /\ file.revision = Len(file.history)
  /\ \A i \in DOMAIN file.history :
       LET entry == file.history[i]
           earlier(k) == {j \in 1..(i - 1) : k \in DOMAIN file.history[j].now}
           later(k) == {j \in (i + 1)..Len(file.history) : k \in DOMAIN file.history[j].now}
       IN /\ entry.revision = i
          /\ \A k \in DOMAIN entry.now :
               /\ earlier(k) = {} => entry.previous[k] = None
               /\ \A j \in earlier(k) :
                    (\A m \in earlier(k) : m <= j) => entry.previous[k] = file.history[j].now[k]
               /\ later(k) = {} => file.saved[k] = entry.now[k]
  /\ \A k \in DOMAIN file.saved :
       file.saved[k] # None => \E i \in DOMAIN file.history : k \in DOMAIN file.history[i].now
HistoryReplays == Replays(settings) /\ Replays(library)
\* A page that shows the revision that is saved shows what is saved: so an edit
\* that passes the revision check overwrites nothing its author did not see.
RevisionIsContent ==
  \A s \in Sessions : view[s] # None /\ view[s].kind = "page" =>
    /\ view[s].revision = settings.revision => view[s].saved = settings.saved
    /\ view[s].seed_revision = case.seed_revision => view[s].seeds = case.seeds
\* An operation that holds trace.lock works on settings that stay as it read
\* them, a shared collection on seeds that stay, and nothing stops a trace but
\* a rule of the case.
OperationsAreUndisturbed ==
  /\ operation # None =>
       /\ operation.saved = settings.saved /\ operation.seeds = case.seeds
       /\ \A a \in Addresses : operation.labels[a] # None /\ operation.labels[a].stop =>
            settings.saved[a] # None /\ settings.saved[a].stop
  /\ collector # None => collector = case.seeds
  /\ \A a \in Addresses : library.saved[a] # None => ~library.saved[a].stop

\* An import saves what its review showed, or nothing.
ReviewedIsSaved ==
  [][\A s \in Sessions :
       /\ apply_import(s) /\ settings' # settings =>
            settings'.saved = Outcome(view[s].plan.settings, view[s].plan.upload).saved
       /\ apply_library(s) /\ library' # library =>
            library'.saved = SaveFile(view[s].library, NoControls(view[s].file)).saved]_vars
=============================================================================
