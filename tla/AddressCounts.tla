---------------------------- MODULE AddressCounts ----------------------------
(* Transaction counts of addresses (address_counts.py and                    *)
(* address_count_cache.py).  A lookup holds address-counts.lock, fetches     *)
(* what is missing, commits it to a journal in batches, and at its end       *)
(* replaces the whole JSON file and clears the journal.  Readers take no     *)
(* lock they have to wait for: they open a snapshot of the journal, then the *)
(* JSON file, and keep the newer observation.  An observation is the time it *)
(* was made, 0 is none.                                                      *)
(*                                                                           *)
(* How many lookups may be in flight is a policy of its own                  *)
(* (count_concurrency.py): the target follows the demand the answers show,   *)
(* halves under retry pressure, and never exceeds what the machine and the   *)
(* user allow.                                                               *)
EXTENDS Naturals, FiniteSetsExt

CONSTANTS
  Lookups,   \* processes that look counts up
  Readers,   \* processes that read what is saved
  Addresses,
  MaxClock,  \* bound: observations made
  MaxStarts, \* bound: lookups and reads begun
  MaxDeaths, \* bound: lookups that die
  Most,     \* 64: no more workers than this
  Default,  \* 8: the saved number that is no cap of its own
  Fixed,    \* LIQUID_COUNT_WORKERS, 0 for auto
  Initial,  \* saved workers, 1..Default
  Total,    \* addresses to look up
  Ceilings, \* workers the memory and processors allow, over time
  MaxPressure  \* bound: retry events

VARIABLES
  json,     \* address-counts.json
  rows,     \* the journal: what is committed to address-counts.sqlite3
  main,     \* what of it is in the database file itself, not only in its WAL
  exists,   \* the database was published
  wal,      \* a WAL file is beside it
  reviews,  \* verified address reviews
  lookup,   \* per lookup: its step and what it holds in memory
  reader,   \* per reader: its step, what it read, and what was saved when it began
  clock, starts, deaths,
  target, ceiling, peak,
  next,      \* answers after which the target may change
  hold,      \* the next window may not grow it
  seen,      \* pressure events it has reacted to
  completed, \* metrics: answers that are complete
  pressure,  \* metrics: retry events
  grown,     \* ghost: answers when the target last changed
  pressed    \* ghost: answers when it last halved, with those before it 0
cacheVars == <<json, rows, main, exists, wal, reviews, lookup, reader, clock, starts, deaths>>
policyVars == <<target, ceiling, peak, next, hold, seen, completed, pressure, grown, pressed>>
vars == <<cacheVars, policyVars>>

CountAssumption ==
  /\ {Most, Default, Total} \subseteq Nat \ {0} /\ Fixed \in 0..Most /\ Initial \in 1..Default
  /\ Ceilings \subseteq 1..Most /\ MaxPressure \in Nat

Counts == [Addresses -> 0..MaxClock]
Nothing == [a \in Addresses |-> 0]
Newer(f, g) == [a \in Addresses |-> IF g[a] >= f[a] THEN g[a] ELSE f[a]]
Missing(f) == {a \in Addresses : f[a] = 0}

Locked == \E l \in Lookups : lookup[l].pc # "idle"
SharedLock == \E r \in Readers : reader[r].holds
InSnapshot == \E r \in Readers : reader[r].pc = "snapshot" /\ reader[r].rows = "wal"
NoLookup == [pc |-> "idle", counts |-> Nothing, todo |-> {}, pending |-> {}, fetched |-> FALSE]
AtRest == [pc |-> "idle", holds |-> FALSE, rows |-> "none", read |-> Nothing, begun |-> Nothing]
GoOn(l, pc) == lookup' = [lookup EXCEPT ![l].pc = pc]

-----------------------------------------------------------------------------
\* A lookup that finds the lock taken, by a lookup or a reader, does without.
\* It reads under its own lock, so nothing changes between its two reads.
_collect_counts(l, refresh) ==
  /\ lookup[l].pc = "idle" /\ ~Locked /\ ~SharedLock
  /\ starts < MaxStarts /\ starts' = starts + 1
  /\ LET counts == Newer(Newer(json, rows), reviews)
         todo == IF refresh THEN Addresses ELSE Missing(counts)
     IN /\ todo # {}
        /\ lookup' = [lookup EXCEPT ![l] = [NoLookup EXCEPT !.pc = "open", !.counts = counts, !.todo = todo]]
  /\ UNCHANGED <<json, rows, main, exists, wal, reviews, reader, clock, deaths>>
\* The first journal is published empty and whole.
CountCacheJournal(l) ==
  /\ lookup[l].pc = "open" /\ GoOn(l, "fetch")
  /\ exists' = TRUE /\ wal' = TRUE
  /\ UNCHANGED <<json, rows, main, reviews, reader, clock, starts, deaths>>
\* An answer of one address, in any order; a failure may end the fetching.
receive(l) ==
  /\ lookup[l].pc = "fetch"
  /\ \E a \in lookup[l].todo :
       \/ /\ clock < MaxClock /\ clock' = clock + 1
          /\ lookup' = [lookup EXCEPT ![l].counts[a] = clock + 1, ![l].todo = @ \ {a},
                          ![l].pending = @ \cup {a}, ![l].fetched = TRUE]
       \/ /\ lookup' = [lookup EXCEPT ![l].todo = @ \ {a}] /\ UNCHANGED clock
       \/ /\ lookup' = [lookup EXCEPT ![l].todo = {}] /\ UNCHANGED clock
  /\ UNCHANGED <<json, rows, main, exists, wal, reviews, reader, starts, deaths>>
\* checkpoint: after 32 answers or a second, and at the end.
Written(l) == [a \in Addresses |-> IF a \in lookup[l].pending THEN lookup[l].counts[a] ELSE rows[a]]
checkpoint(l) ==
  /\ lookup[l].pc = "fetch" /\ lookup[l].pending # {}
  /\ rows' = Written(l)
  /\ lookup' = [lookup EXCEPT ![l].pending = {}]
  /\ UNCHANGED <<json, main, exists, wal, reviews, reader, clock, starts, deaths>>
EndFetching(l) ==
  /\ lookup[l].pc = "fetch" /\ lookup[l].todo = {} /\ lookup[l].pending = {}
  /\ GoOn(l, IF lookup[l].fetched THEN "export" ELSE "close")
  /\ UNCHANGED <<json, rows, main, exists, wal, reviews, reader, clock, starts, deaths>>
Export(l) ==
  /\ lookup[l].pc = "export" /\ GoOn(l, "compact")
  /\ json' = lookup[l].counts
  /\ UNCHANGED <<rows, main, exists, wal, reviews, reader, clock, starts, deaths>>
compacted(l) ==
  /\ lookup[l].pc = "compact" /\ GoOn(l, "close")
  /\ rows' = Nothing
  /\ UNCHANGED <<json, main, exists, wal, reviews, reader, clock, starts, deaths>>
\* A write that fails ends the lookup; what is committed stays.
WriteFails(l) ==
  /\ lookup[l].pc \in {"fetch", "export", "compact"} /\ GoOn(l, "close")
  /\ UNCHANGED <<json, rows, main, exists, wal, reviews, reader, clock, starts, deaths>>
\* The last connection that closes moves the WAL into the file.
close(l) ==
  /\ lookup[l].pc = "close"
  /\ lookup' = [lookup EXCEPT ![l] = NoLookup]
  /\ IF InSnapshot THEN UNCHANGED <<main, wal>> ELSE main' = rows /\ wal' = FALSE
  /\ UNCHANGED <<json, rows, exists, reviews, reader, clock, starts, deaths>>
Die(l) ==
  /\ lookup[l].pc # "idle" /\ deaths < MaxDeaths
  /\ deaths' = deaths + 1 /\ lookup' = [lookup EXCEPT ![l] = NoLookup]
  /\ UNCHANGED <<json, rows, main, exists, wal, reviews, reader, clock, starts>>

\* Meanwhile an address is reviewed by hand.
inspect_case_address(a) ==
  /\ clock < MaxClock /\ clock' = clock + 1
  /\ reviews' = [reviews EXCEPT ![a] = clock + 1]
  /\ UNCHANGED <<json, rows, main, exists, wal, lookup, reader, starts, deaths>>

-----------------------------------------------------------------------------
\* apply_saved_counts, without a lookup.
SavedCounts == Newer(Newer(json, rows), reviews)
BeginRead(r) ==
  /\ reader[r].pc = "idle"
  /\ starts < MaxStarts /\ starts' = starts + 1
  /\ reader' = [reader EXCEPT ![r] = [AtRest EXCEPT !.pc = IF exists THEN "open" ELSE "json",
                                       !.begun = SavedCounts]]
  /\ UNCHANGED <<json, rows, main, exists, wal, reviews, lookup, clock, deaths>>
\* The file alone may be read only while no lookup can run and no WAL is left.
_snapshot_uri_bare(r) ==
  /\ reader[r].pc = "open"
  /\ reader' = [reader EXCEPT ![r].pc = "snapshot", ![r].holds = ~Locked,
                  ![r].rows = IF Locked THEN "wal" ELSE "file",
                  ![r].read = IF Locked THEN rows ELSE main]
  /\ UNCHANGED <<json, rows, main, exists, wal, reviews, lookup, clock, starts, deaths>>
_snapshot_uri(r) ==
  /\ reader[r].pc = "open"
  /\ reader' = [reader EXCEPT ![r].pc = "snapshot", ![r].holds = ~Locked,
                  ![r].rows = IF Locked \/ wal THEN "wal" ELSE "file",
                  ![r].read = IF Locked \/ wal THEN rows ELSE main]
  /\ UNCHANGED <<json, rows, main, exists, wal, reviews, lookup, clock, starts, deaths>>
_legacy_cache(r) ==
  /\ reader[r].pc \in {"snapshot", "json"}
  /\ reader' = [reader EXCEPT ![r].pc = "reviews", ![r].holds = FALSE,
                  ![r].read = Newer(json, reader[r].read)]
  /\ UNCHANGED <<json, rows, main, exists, wal, reviews, lookup, clock, starts, deaths>>
apply_saved_counts(r) ==
  /\ reader[r].pc = "reviews"
  /\ reader' = [reader EXCEPT ![r].pc = "done", ![r].read = Newer(@, reviews)]
  /\ UNCHANGED <<json, rows, main, exists, wal, reviews, lookup, clock, starts, deaths>>
EndRead(r) ==
  /\ reader[r].pc = "done" /\ reader' = [reader EXCEPT ![r] = AtRest]
  /\ UNCHANGED <<json, rows, main, exists, wal, reviews, lookup, clock, starts, deaths>>

-----------------------------------------------------------------------------
(* CountConcurrency                                                        *)

Least(a, b) == Min({a, b})
Most2(a, b) == Max({a, b})
Starting == IF Fixed # 0 THEN Fixed ELSE Initial
Manual == IF Fixed # 0 THEN Fixed ELSE IF Initial < Default THEN Initial ELSE Most
Window == Most2(Default, Initial)
_resource_ceiling(r) == Min({Most, Manual, Total, r})

\* The phase goes on: an answer is complete, or a request had to be retried.
Answered ==
  /\ completed < Total /\ completed' = completed + 1
  /\ UNCHANGED <<target, ceiling, peak, next, hold, seen, pressure, grown, pressed>>
Retried ==
  /\ pressure < MaxPressure /\ pressure' = pressure + 1
  /\ UNCHANGED <<target, ceiling, peak, next, hold, seen, completed, grown, pressed>>

\* The demand is what rate and latency ask for; without a latency, the
\* target; an unpaced phase keeps the number it began with.
\* Early fast answers of the service do not collapse the starting overlap.
Desired(c, paced, demand, service) ==
  IF Fixed # 0 \/ ~paced THEN Least(Starting, c)
  ELSE IF demand = 0 THEN Least(target, c)
  ELSE Most2(Least(c, demand), IF service THEN Least(Starting, c) ELSE 1)
Within(c) == Least(target, c)
\* Mutant: half of one worker.
Halved_empty(c) == Within(c) \div 2
Halved(c) == Most2(1, Within(c) \div 2)
\* Mutant: the window after a halving may grow the target again.
Adjusted_unheld(wanted, c) == Least(wanted, Within(c) * 2)
Adjusted(wanted, c) == Least(wanted, IF hold THEN Within(c) ELSE Within(c) * 2)
\* A second after the last sample the machine is looked at again.
Target(resampled, r, paced, demand, service) ==
  LET c == IF resampled THEN _resource_ceiling(r) ELSE ceiling
      pressing == pressure > seen
      due == completed >= next
  IN /\ ceiling' = c
     /\ seen' = IF pressing THEN pressure ELSE seen
     /\ target' = IF pressing THEN Halved(c)
                  ELSE IF ~due THEN Within(c)
                  ELSE Adjusted(Desired(c, paced, demand, service), c)
     /\ hold' = (pressing \/ (hold /\ ~due))
     /\ next' = IF pressing \/ due THEN completed + Window ELSE next
     /\ peak' = Most2(peak, target')
     /\ grown' = IF pressing \/ due THEN completed ELSE grown
     /\ pressed' = IF pressing THEN [at |-> completed, ever |-> TRUE] ELSE pressed
     /\ UNCHANGED <<completed, pressure>>

-----------------------------------------------------------------------------
CacheInit ==
  /\ json = Nothing /\ rows = Nothing /\ main = Nothing /\ reviews = Nothing
  /\ exists = FALSE /\ wal = FALSE /\ clock = 0 /\ starts = 0 /\ deaths = 0
  /\ lookup = [l \in Lookups |-> NoLookup] /\ reader = [r \in Readers |-> AtRest]
PolicyInit ==
  /\ \E r \in Ceilings : ceiling = _resource_ceiling(r)
  /\ target = Least(Starting, ceiling) /\ peak = target
  /\ next = Window /\ hold = FALSE /\ seen = 0
  /\ completed = 0 /\ pressure = 0 /\ grown = 0 /\ pressed = [at |-> 0, ever |-> FALSE]
Init == CacheInit /\ PolicyInit

LookUp(l) ==
  \/ CountCacheJournal(l) \/ receive(l) \/ checkpoint(l) \/ EndFetching(l)
  \/ Export(l) \/ compacted(l) \/ close(l)
Read(r) == _snapshot_uri(r) \/ _legacy_cache(r) \/ apply_saved_counts(r) \/ EndRead(r)
CacheNext ==
  \/ \E l \in Lookups : (\E refresh \in BOOLEAN : _collect_counts(l, refresh)) \/ LookUp(l)
                          \/ WriteFails(l) \/ Die(l)
  \/ \E a \in Addresses : inspect_case_address(a)
  \/ \E r \in Readers : BeginRead(r) \/ Read(r)
PolicyNext ==
  \/ Answered \/ Retried
  \/ \E resampled, paced, service \in BOOLEAN, r \in Ceilings, demand \in 0..Most :
       Target(resampled, r, paced, demand, service)

Working == (\E l \in Lookups : LookUp(l)) \/ \E r \in Readers : Read(r)
Next == (CacheNext /\ UNCHANGED policyVars) \/ (PolicyNext /\ UNCHANGED cacheVars)
Spec == Init /\ [][Next]_vars /\ WF_cacheVars(Working)

-----------------------------------------------------------------------------
\* Every variable has its type.
TypeOK ==
  /\ {json, rows, main, reviews} \subseteq Counts
  /\ {exists, wal} \subseteq BOOLEAN /\ clock \in 0..MaxClock
  /\ \A l \in Lookups : lookup[l].counts \in Counts /\ lookup[l].pending \subseteq Addresses
  /\ \A r \in Readers : reader[r].read \in Counts
  /\ {target, ceiling} \subseteq 1..Most /\ peak \in 1..Most
  /\ next \in Nat /\ hold \in BOOLEAN /\ seen <= pressure /\ completed \in 0..Total

\* A reader sees every observation that was saved when it began, in whichever
\* of the two files it was, and nothing that was never observed.
ReadsMissNothing ==
  \A r \in Readers : reader[r].pc = "done" =>
    \A a \in Addresses : reader[r].begun[a] <= reader[r].read[a]
\* One lookup writes at a time, no lookup runs under a reader that reads the
\* bare file, and what is only in the WAL is read from there.
StorageIsExclusive ==
  /\ Cardinality({l \in Lookups : lookup[l].pc # "idle"}) <= 1
  /\ \A r \in Readers : reader[r].rows = "file" /\ reader[r].pc = "snapshot" => main = rows
  /\ main # rows => wal
\* A committed observation is replaced only by a newer one, also when a lookup
\* fails or dies between replacing the file and clearing the journal.
CommittedStays == [][\A a \in Addresses : SavedCounts[a] <= SavedCounts'[a]]_cacheVars
\* The target is one that can be worked with, never above the limit in force,
\* and the reported peak is the largest there was.
TargetIsBounded == 1 <= target /\ target <= ceiling /\ target <= peak /\ peak <= Manual
\* The target grows at most to the double, only a full window of answers after
\* its last change, and only after two clean windows when it was halved.
GrowthIsEarned ==
  [][target' > target =>
       /\ target' <= 2 * target
       /\ completed >= grown + Window
       /\ pressed.ever => completed >= pressed.at + 2 * Window]_policyVars
\* Every lookup and every read ends.
AllAtRest == ~Locked /\ \A r \in Readers : reader[r].pc = "idle"
=============================================================================
