----------------------------- MODULE MC_Explorer -----------------------------
(* Requests to the explorer: the pacing all clients of the machine share, one *)
(* client with its token, retries and stop, and the two ways a run fetches   *)
(* endpoints, as they become known and from a list.  A behaviour is about one.*)
EXTENDS ExplorerQuota

\* An adaptive and a fixed client.
CONSTANTS a, b
Mixed == [c \in {a, b} |-> IF c = a THEN 0 ELSE 3]

\* Two endpoints resolved by two threads, by a fixed client without a time limit
\* and by an adaptive one with a limit.
CONSTANTS x, y
VARIABLES setting, future, job, lock, token, generation, revoked, authError, stopReason, pacingError,
          cooling, late, cancelled, client, requests, saved, archived, twice, lost
clientVars == <<setting, future, job, lock, token, generation, revoked, authError, stopReason,
                pacingError, cooling, late, cancelled, client, requests, saved, archived, twice, lost>>
E == INSTANCE Esplora WITH
       Endpoints <- {x, y}, Workers <- 2,
       Settings <- {[adaptive |-> FALSE, limited |-> FALSE], [adaptive |-> TRUE, limited |-> TRUE]},
       Tries <- 2, RateTries <- 2, MaxRequests <- 6, Revocations <- 1, QuotaFails <- TRUE,
       Answers <- {"ok", "denied", "busy", "busyStop", "down", "refused"}

\* Two roots whose consumers add the same request, which one of them also
\* reaches through another; or a list of the three.
CONSTANTS r1, r2, c1
Three == {r1, r2, c1}
VARIABLES ready, callbacks, waiting, results, pending, fetch, allowed, stopError, calls, at, demand,
          asked, called, again
frontierVars == <<ready, callbacks, waiting, results, pending, fetch, allowed, stopError, calls, at,
                  demand, asked, called, again>>
F == INSTANCE Frontier WITH Endpoints <- Three, Roots <- {r1, r2}, Demanded <- Three, MaxTarget <- 2,
       Deps <- [e \in Three |-> IF e = c1 THEN {} ELSE {c1}], future <- fetch, target <- allowed
VARIABLES remaining, inFlight, task, held, answers, batch, delivered, stop, jobs, stage, keyboard,
          failed, consumed, retain
prefetchVars == <<remaining, inFlight, task, held, answers, batch, delivered, stop, jobs, stage,
                  keyboard, failed, consumed, retain>>
P == INSTANCE Prefetch WITH Endpoints <- Three, MaxTarget <- 2, pending <- inFlight, job <- task,
       results <- answers, target <- jobs, at <- stage, calls <- consumed

ASSUME E!EsploraAssumption
ASSUME F!FrontierAssumption
ASSUME P!PrefetchAssumption

VARIABLE part  \* what this behaviour is about
AllVars == <<part, vars, clientVars, frontierVars, prefetchVars>>
AnyInit ==
  /\ part \in {"pacing", "client", "frontier", "prefetch"}
  /\ Init /\ E!Init /\ F!Init /\ P!Init
  /\ part # "client" => ~setting.adaptive
AnyNext ==
  /\ UNCHANGED part
  /\ \/ part = "pacing" /\ Next /\ UNCHANGED <<clientVars, frontierVars, prefetchVars>>
     \/ part = "client" /\ E!Next /\ UNCHANGED <<vars, frontierVars, prefetchVars>>
     \/ part = "frontier" /\ F!Next /\ UNCHANGED <<vars, clientVars, prefetchVars>>
     \/ part = "prefetch" /\ P!Next /\ UNCHANGED <<vars, clientVars, frontierVars>>
AnySpec ==
  /\ AnyInit /\ [][AnyNext]_AllVars
  /\ WF_vars(part = "pacing" /\ Tick) /\ WF_vars(part = "pacing" /\ Asking)
  /\ WF_clientVars(part = "client" /\ E!Going)
  /\ WF_frontierVars(part = "frontier" /\ F!Pumping)
  /\ WF_frontierVars(part = "frontier" /\ F!Completing)
  /\ SF_frontierVars(part = "frontier" /\ F!Got)
  /\ WF_prefetchVars(part = "prefetch" /\ P!Proceed)
  /\ WF_prefetchVars(part = "prefetch" /\ P!Completing)

\* Every variable has its type; attempts and requests in flight are bounded.
AllTypesOK == TypeOK /\ E!TypeOK /\ F!TypeOK /\ P!TypeOK
\* After a close no thread of the client runs; a client that waits for the
\* explorer stays registered, so it is paced with the others.
ClosedIsQuiet == E!ClosedIsQuiet /\ WaitingStaysRegistered
\* After a stop nothing is sent or submitted, whatever completed in the same
\* group, and what the traversal waits for goes before speculative work.
QuietAfterStop == E!NoStartAfterStop /\ F!NoSubmitAfterStop /\ P!NoJobAfterStop /\ F!DemandFirst
\* Pacing goes on while a client is open, a close ends although others keep the
\* gate closed, get returns or raises, and a prefetch ends.
RequestsEnd ==
  []<>(/\ SomeoneStarted /\ CrashedExpired
       /\ client # "closing" /\ (demand = None \/ at = "aborted")
       /\ stage \in {"idle", "returned", "raised"})
=============================================================================
