---------------------------- MODULE SavedSearches ----------------------------
(* Searches for peg-outs, which fetch and are archived of their own, and     *)
(* scope analyses, which only read saved data (pegouts.py, scope_analysis.py). *)
(* A search checkpoints what it found; it is sealed by SHA256SUMS at its end, *)
(* and an interrupted one may be resumed under a new id.  An analysis is named *)
(* by its inputs, and several programs may make the same one at a time.       *)
EXTENDS Naturals, FiniteSets, FiniteSetsExt

CONSTANTS
  Ids,       \* searches, in the order they are started
  Facts,     \* what can be fetched: the origin among them
  Origin,    \* the transaction of the query; its outputs become the seeds
  Programs,  \* programs that analyse
  Settings,  \* the inputs of an analysis: run, seeds, labels, controls, hops
  MaxDamage, \* bound: unsealed checkpoints changed by hand
  None

SearchesAssumption == Ids \subseteq Nat /\ Origin \in Facts /\ MaxDamage \in Nat

VARIABLES
  evidence,  \* observations in the evidence store
  saved,     \* the directory of a search: query.json, trace.json, SHA256SUMS
  active,    \* the search that runs, under trace.lock, and what it knows
  controls,  \* the inputs in force
  analysis,  \* the directory of an analysis, by its inputs
  program,   \* a program that analyses
  publisher, \* who holds .publish.lock
  damage
vars == <<evidence, saved, active, controls, analysis, program, publisher, damage>>
searchVars == <<evidence, saved, active, damage>>
scopeVars == <<controls, analysis, program, publisher>>

NotRunning == [id |-> None, pc |-> "idle", found |-> {}, parent |-> None, status |-> None]
NoProgram == [pc |-> "idle", inputs |-> None]
Used == {s \in Ids : saved[s] # None}

TypeOK ==
  /\ evidence \subseteq Facts /\ active.found \subseteq Facts /\ active.id \in Ids \cup {None}
  /\ active.status \in {None, "complete", "paused", "error"} /\ damage \in 0..MaxDamage
  /\ \A s \in Used : saved[s].found \subseteq Facts /\ saved[s].sealed \in BOOLEAN
                     /\ saved[s].query \in BOOLEAN /\ saved[s].parent \in Ids \cup {None}
  /\ publisher \in Programs \cup {None} /\ \A p \in Programs : program[p].inputs \in Settings \cup {None}
  /\ \A i \in Settings : analysis[i] \in 0..Cardinality(Settings)

Init ==
  /\ evidence = {} /\ saved = [s \in Ids |-> None] /\ active = NotRunning /\ damage = 0
  /\ controls \in Settings /\ analysis = [i \in Settings |-> 0]
  /\ program = [p \in Programs |-> NoProgram] /\ publisher = None

-----------------------------------------------------------------------------
(* Searches *)

\* _verify_checkpoint: an unsealed checkpoint holds nothing the store lacks.
_verify_checkpoint(s) == saved[s].found \subseteq evidence
\* _read_search: a directory without its query and trace is no search.
_read_search(s) == saved[s] # None /\ saved[s].query /\ (saved[s].sealed \/ _verify_checkpoint(s))
NextId == Min(Ids \ Used)

\* search_pegouts: a new search, or one that goes on with what another found.
Begin(parent, found) ==
  /\ active.id = None /\ Used # Ids
  /\ saved' = [saved EXCEPT ![NextId] = [query |-> FALSE, found |-> found, sealed |-> FALSE, parent |-> parent]]
  /\ active' = [NotRunning EXCEPT !.id = NextId, !.pc = "saving", !.found = found, !.parent = parent]
  /\ UNCHANGED <<evidence, damage, scopeVars>>
search_pegouts == Begin(None, {})
Resume == \E s \in Ids : _read_search(s) /\ Begin(s, saved[s].found)
\* query.json and trace.json before the first request.
SaveQuery ==
  /\ active.pc = "saving"
  /\ saved' = [saved EXCEPT ![active.id].query = TRUE] /\ active' = [active EXCEPT !.pc = "tracing"]
  /\ UNCHANGED <<evidence, damage, scopeVars>>
\* An answer is in the store before the search uses it; the origin comes first.
Fetch ==
  /\ active.pc = "tracing"
  /\ \E f \in Facts \ active.found :
       /\ f # Origin => Origin \in active.found
       /\ evidence' = evidence \cup {f} /\ active' = [active EXCEPT !.found = @ \cup {f}]
  /\ UNCHANGED <<saved, damage, scopeVars>>
Checkpoint ==
  /\ active.pc = "tracing" /\ saved[active.id].found # active.found
  /\ saved' = [saved EXCEPT ![active.id].found = active.found]
  /\ UNCHANGED <<evidence, active, damage, scopeVars>>
\* It ends complete, paused by a budget or an interrupt, or with an error.
EndTrace ==
  /\ active.pc = "tracing"
  /\ \E status \in {"complete", "paused", "error"} :
       /\ status = "complete" => active.found = Facts
       /\ active' = [active EXCEPT !.pc = "archiving", !.status = status]
  /\ UNCHANGED <<evidence, saved, damage, scopeVars>>
\* _archive: trace and query again, then the responses, then the manifest.
ArchiveTrace ==
  /\ active.pc = "archiving"
  /\ saved' = [saved EXCEPT ![active.id].found = active.found] /\ active' = [active EXCEPT !.pc = "sealing"]
  /\ UNCHANGED <<evidence, damage, scopeVars>>
_write_manifest ==
  /\ active.pc = "sealing"
  /\ saved' = [saved EXCEPT ![active.id].sealed = TRUE] /\ active' = [active EXCEPT !.pc = "rendering"]
  /\ UNCHANGED <<evidence, damage, scopeVars>>
\* The preview follows without the lock; whether it succeeds or fails, the
\* search is saved.
preview_pegouts == active.pc = "rendering" /\ active' = NotRunning /\ UNCHANGED <<evidence, saved, damage, scopeVars>>
Crash == active.id # None /\ active' = NotRunning /\ UNCHANGED <<evidence, saved, damage, scopeVars>>
\* Somebody changes the checkpoint of an interrupted search.
Damage ==
  /\ damage < MaxDamage /\ damage' = damage + 1
  /\ \E s \in Used, f \in Facts :
       /\ ~saved[s].sealed /\ s # active.id /\ saved' = [saved EXCEPT ![s].found = @ \cup {f}]
  /\ UNCHANGED <<evidence, active, scopeVars>>

-----------------------------------------------------------------------------
(* Scope analyses *)

Sets(p, fields) ==
  program' = [program EXCEPT ![p] = [f \in DOMAIN NoProgram |-> IF f \in DOMAIN fields THEN fields[f] ELSE @[f]]]
\* analyze_scope: the inputs are captured under case.lock and name the analysis.
analyze_scope(p) ==
  /\ program[p].pc = "idle"
  /\ Sets(p, [pc |-> IF analysis[controls] # 0 THEN "idle" ELSE "locking", inputs |-> controls])
  /\ UNCHANGED <<searchVars, controls, analysis, publisher>>
\* _publication_lock, and cached: another program may have made it meanwhile.
_publication_lock(p) ==
  /\ program[p].pc = "locking" /\ publisher = None
  /\ IF analysis[program[p].inputs] # 0 THEN Sets(p, [pc |-> "idle"]) /\ UNCHANGED publisher
                                        ELSE Sets(p, [pc |-> "writing"]) /\ publisher' = p
  /\ UNCHANGED <<searchVars, controls, analysis>>
\* The files are written in a directory without a name, which takes its name
\* when they are whole.
Rename(p) ==
  /\ program[p].pc = "writing"
  /\ analysis' = [analysis EXCEPT ![program[p].inputs] = 1 + Max({analysis[i] : i \in Settings})]
  /\ publisher' = None /\ Sets(p, [pc |-> "idle"])
  /\ UNCHANGED <<searchVars, controls>>
\* A cancelled or failed analysis takes its directory away; one that is killed
\* leaves it, and the lock goes with the process.
Abandon(p) ==
  /\ program[p].pc \in {"locking", "writing"} /\ Sets(p, [pc |-> "idle"])
  /\ publisher' = IF publisher = p THEN None ELSE publisher
  /\ UNCHANGED <<searchVars, controls, analysis>>
EditControls == \E i \in Settings \ {controls} : controls' = i /\ UNCHANGED <<searchVars, analysis, program, publisher>>

SearchNext ==
  \/ search_pegouts \/ Resume \/ SaveQuery \/ Fetch \/ Checkpoint \/ EndTrace \/ ArchiveTrace
  \/ _write_manifest \/ preview_pegouts \/ Crash \/ Damage
ScopeNext ==
  \/ \E p \in Programs : analyze_scope(p) \/ _publication_lock(p) \/ Rename(p) \/ Abandon(p)
  \/ EditControls
Next == SearchNext \/ ScopeNext

-----------------------------------------------------------------------------
\* What a search that can be read, or one that runs, says it found is in the
\* evidence store, though it was interrupted or its checkpoint changed; and a
\* sealed search has at least what the search it resumes had sealed.
SearchesAreBacked ==
  /\ active.found \subseteq evidence
  /\ \A s \in Used : _read_search(s) => saved[s].found \subseteq evidence
  /\ \A s \in Used : saved[s].sealed /\ saved[s].parent # None /\ saved[saved[s].parent].sealed
                       => saved[saved[s].parent].found \subseteq saved[s].found
\* Analyses have a number each, without a gap.
AnalysesAreNumbered ==
  LET made == {i \in Settings : analysis[i] # 0}
  IN  {analysis[i] : i \in made} = 1..Cardinality(made)
\* A sealed search and a named analysis never change.
SealedIsFinal ==
  [][/\ \A s \in Used : saved[s].sealed => saved'[s] = saved[s]
     /\ \A i \in Settings : analysis[i] # 0 => analysis'[i] = analysis[i]]_vars
=============================================================================
