----------------------------- MODULE PegMatching -----------------------------
(* Finding the Liquid transactions that claim Bitcoin deposits                *)
(* (pegin_window.py, pegin_matching.py, pegin_batch.py, bridge_matching.py).  *)
(* A shared index remembers which block heights were searched, where to go on *)
(* in the asset's history, and the claims that were seen.  One search at a    *)
(* time uses it, for a batch of deposits and a window of time; it goes on in  *)
(* small committed steps while blocks are added or reorganised away, and may  *)
(* end anywhere.  A report is saved after every deposit and can be continued. *)
(* The peg-out index and its windows are the same code.                       *)
EXTENDS Naturals, FiniteSets, FiniteSetsExt, SequencesExt

CONSTANTS
  Deposits,   \* 1..n in the order of a batch
  Block,      \* [block -> sequence of its transactions], 0 for one that is not in the history
  ClaimOf,    \* the deposit a transaction of the history claims, 0 for none
  Chains,     \* best chains in the order the explorer has them; an abandoned
              \* branch does not come back
  Time,       \* [height -> median time], the same on every branch
  Windows,    \* times from and to that searches ask for
  PageSize,   \* transactions on a page, 25
  MaxPages,   \* pages of one session
  MaxSessions \* bound

Least(a, b) == IF a < b THEN a ELSE b
Most(a, b) == IF a < b THEN b ELSE a
Tops == {Len(Chains[i]) : i \in DOMAIN Chains}
Heights == 1..Max(Tops)
PegAssumption ==
  /\ Deposits = 1..Cardinality(Deposits) /\ {PageSize, MaxPages, MaxSessions} \subseteq Nat \ {0}
  /\ \A h \in Heights \ {1} : Time[h - 1] <= Time[h]
  /\ \A w \in Windows : w.start < w.end

VARIABLES
  moment,   \* the best chain is Chains[moment]
  index,    \* index.sqlite
  task,     \* the session that holds match.lock, and its current deposit
  rows,     \* the statuses of its deposits
  report,   \* match.json of the latest session
  sessions
vars == <<moment, index, task, rows, report, sessions>>

Best == Chains[moment]
OnBest(id) == \E h \in DOMAIN Best : Best[h] = id
\* The history of the asset, newest first.
History ==
  FlattenSeq([i \in DOMAIN Best |-> Reverse(SelectSeq(Block[Best[Len(Best) + 1 - i]], LAMBDA t : t # 0))])
HeightOf(t) == CHOOSE h \in DOMAIN Best : t \in ToSet(Block[Best[h]])
ClaimedIn(h, d) == \E t \in ToSet(Block[Best[h]]) \ {0} : ClaimOf[t] = d

Free == [pc |-> "free", row |-> 0, window |-> [start |-> 0, end |-> 1], pages |-> 0, checked |-> {},
         ready |-> FALSE, tip |-> 0, snapshot |-> "none", low |-> 1, high |-> 0]
NoReport == [state |-> "none", rows |-> [d \in Deposits |-> "unprocessed"],
             window |-> [start |-> 0, end |-> 1]]
Empty == [metaHeight |-> 0, meta |-> "none", headers |-> [h \in Heights |-> "none"], covered |-> {},
          cursors |-> [h \in Heights |-> 0], seen |-> {}, pages |-> {}, claims |-> {},
          blocks |-> [b \in DOMAIN Block |-> [next |-> 0, anchor |-> 0]]]
Final == {"matched", "no_match"}
Statuses == Final \cup {"unprocessed", "not_elapsed", "stopped", "error"}

TypeOK ==
  /\ moment \in DOMAIN Chains /\ sessions \in 0..MaxSessions /\ rows \in [Deposits -> Statuses]
  /\ index.covered \subseteq Heights /\ index.claims \subseteq DOMAIN ClaimOf
  /\ index.cursors \in [Heights -> 0..Len(ClaimOf)] /\ task.pages \in 0..MaxPages
  /\ report.state \in {"none", "torn", "whole"} /\ report.rows \in [Deposits -> Statuses]
Init ==
  /\ moment = 1 /\ index = Empty /\ task = Free /\ rows = NoReport.rows
  /\ report = NoReport /\ sessions = 0

Becomes(fields) == task' = [f \in DOMAIN Free |-> IF f \in DOMAIN fields THEN fields[f] ELSE task[f]]
Ends(status, pc) == rows' = [rows EXCEPT ![task.row] = status] /\ Becomes([pc |-> pc])
Elsewhere == UNCHANGED <<moment, report, sessions>>

-----------------------------------------------------------------------------
(* Sessions *)

\* carry_completed: what was matched, or searched to the end, is not looked up
\* again in a continued session of the same query.
verified_file(r) == r.state = "whole"
carry_completed(r) == [d \in Deposits |-> IF r.rows[d] \in Final THEN r.rows[d] ELSE "unprocessed"]
workspace_session ==
  /\ task.pc = "free" /\ sessions < MaxSessions /\ sessions' = sessions + 1
  /\ \E w \in Windows, base \in {NoReport, report} :
       /\ base # NoReport => verified_file(base) /\ base.window = w
       /\ rows' = carry_completed(base)
       /\ report' = [NoReport EXCEPT !.window = w]
       /\ task' = [Free EXCEPT !.pc = "save", !.window = w]
  /\ UNCHANGED <<moment, index>>
\* _save: files one by one and SHA256SUMS last, over those saved before.
_save ==
  /\ task.pc \in {"save", "saveAndEnd"}
  /\ IF report.state # "torn" THEN report' = [report EXCEPT !.state = "torn"] /\ UNCHANGED task
     ELSE /\ report' = [report EXCEPT !.state = "whole", !.rows = rows]
          /\ task' = IF task.pc = "saveAndEnd" THEN Free ELSE [task EXCEPT !.pc = "next"]
  /\ UNCHANGED <<moment, index, rows, sessions>>
match_pegin(d) == Becomes([pc |-> "verify", row |-> d, checked |-> {}, ready |-> FALSE])
match_pegin_batch ==
  /\ task.pc = "next"
  /\ LET left == {d \in Deposits : rows[d] = "unprocessed"}
     IN  IF left = {} THEN Becomes([pc |-> "saveAndEnd"])
         ELSE match_pegin(Min(left))
  /\ UNCHANGED <<index, rows>> /\ Elsewhere

\* Every hint is fetched and checked against the chain.
Hints(d) == {t \in index.claims : ClaimOf[t] = d} \ task.checked
InWindow(h) == Time[h] \in task.window.start..task.window.end
_claims(d) == {t \in Hints(d) : t \in ToSet(History) /\ InWindow(HeightOf(t))}
Verify ==
  /\ task.pc = "verify"
  /\ IF _claims(task.row) # {}
     THEN Ends("matched", "save")
     ELSE /\ Becomes([pc |-> IF task.ready THEN "step" ELSE "tip",
                      checked |-> task.checked \cup Hints(task.row)])
          /\ UNCHANGED rows
  /\ UNCHANGED index /\ Elsewhere
\* One row fails and the others go on; a limit or an interrupt stops the session.
Fail ==
  /\ task.pc \in {"verify", "tip", "check", "step"} /\ Ends("error", "save")
  /\ UNCHANGED index /\ Elsewhere
Pause ==
  /\ task.pc \in {"verify", "tip", "check", "step"} /\ Ends("stopped", "saveAndEnd")
  /\ UNCHANGED index /\ Elsewhere
Killed == task.pc # "free" /\ task' = Free /\ UNCHANGED <<moment, index, rows, report, sessions>>

-----------------------------------------------------------------------------
(* WindowDiscovery *)

\* _headers: a page of headers is kept down to the lowest block here.
_headers(h) == [g \in Heights |-> IF g <= h THEN Best[g] ELSE index.headers[g]]
\* By bisection, the first height of that median time, or the tip.
_first_median(time, tip) ==
  LET within[low \in Heights, high \in Heights] ==
        IF low >= high THEN low
        ELSE LET middle == (low + high) \div 2
             IN  IF Time[middle] < time THEN within[middle + 1, high] ELSE within[low, middle]
  IN  IF Time[tip] < time THEN tip ELSE within[1, tip]

Tip ==
  /\ task.pc = "tip"
  /\ index' = [index EXCEPT !.headers = _headers(Len(Best))]
  /\ Becomes([pc |-> "check", tip |-> Len(Best), snapshot |-> Best[Len(Best)]])
  /\ UNCHANGED rows /\ Elsewhere
\* What was found by height is forgotten when the tip it was found under is gone.
Forgotten(i) ==
  [Empty EXCEPT !.claims = i.claims, !.pages = i.pages, !.meta = i.meta, !.metaHeight = i.metaHeight]
prepare ==
  /\ task.pc = "check"
  /\ LET gone == \/ index.metaHeight > Len(Best) \/ index.metaHeight > task.tip
                 \/ index.metaHeight > 0 /\ Best[index.metaHeight] # index.meta
         checked == IF index.metaHeight = 0 THEN index.headers
                    ELSE _headers(Least(index.metaHeight, Len(Best)))
     IN  index' = [(IF gone THEN Forgotten(index) ELSE [index EXCEPT !.headers = checked])
                     EXCEPT !.meta = task.snapshot, !.metaHeight = task.tip]
  /\ Becomes([pc |-> "step", ready |-> TRUE, low |-> _first_median(task.window.start, task.tip),
              high |-> _first_median(task.window.end, task.tip)])
  /\ UNCHANGED rows /\ Elsewhere

_cover(low, high) == index.covered \cup (low..high)
\* gaps: the highest range that was not searched yet.
Missing == (task.low..task.high) \ index.covered
GapHigh == Max(Missing)
GapLow == Min({h \in Missing : h..GapHigh \subseteq Missing})
CursorHeights == {h \in {GapHigh, GapHigh + 1} \cap Heights : index.cursors[h] # 0}
At(pc) ==
  /\ task.pc = "step"
  /\ pc = (IF Missing = {} THEN "finalize" ELSE IF CursorHeights # {} THEN "history" ELSE "block")

\* Complete means that the tip the search began under is still in the chain.
Finalize ==
  /\ At("finalize")
  /\ IF OnBest(task.snapshot)
     THEN /\ Ends(IF Time[task.tip] < task.window.end THEN "not_elapsed" ELSE "no_match", "save")
          /\ UNCHANGED index
     ELSE Ends("stopped", "saveAndEnd") /\ index' = Forgotten(index)
  /\ Elsewhere
page_limit ==
  /\ task.pc = "step" /\ Missing # {} /\ task.pages = MaxPages
  /\ At("block") =>
       LET id == index.headers[GapHigh] IN id # "none" /\ <<id, index.blocks[id].next>> \notin index.pages
  /\ Ends("stopped", "saveAndEnd") /\ UNCHANGED index /\ Elsewhere

\* The page after a cursor.  After one that is not in the history any more the
\* explorer has nothing, or an error.  A page may be short.
From == Min(CursorHeights)
PagesAfter(t) ==
  LET at == {i \in DOMAIN History : History[i] = t}
      after == IF at = {} THEN <<>> ELSE SubSeq(History, 1 + Max(at), Len(History))
  IN  {SubSeq(after, 1, n) : n \in Least(1, Len(after))..Least(PageSize, Len(after))}
\* The mutant: the cursor of a block searched in part is lost.
RejoinsNever(last) == FALSE
\* A block that was partly searched before keeps its own cursor.
Rejoins(last) == index.cursors[last] # 0 /\ last < From
Stalled(page) ==
  /\ page # <<>> /\ HeightOf(Last(page)) = From /\ <<From, Last(page)>> \in index.seen
HistoryPage ==
  /\ At("history") /\ task.pages < MaxPages
  /\ \E page \in PagesAfter(index.cursors[From]) :
       /\ page # <<>> => HeightOf(page[1]) <= From
       /\ ~Stalled(page)
       /\ LET last == IF page = <<>> THEN 0 ELSE HeightOf(Last(page))
              moves == page # <<>> /\ ~Rejoins(last)
          IN  index' = [index EXCEPT
                !.claims = @ \cup {t \in ToSet(page) : ClaimOf[t] # 0},
                !.covered = _cover(Most(GapLow, last + 1), GapHigh),
                !.cursors = [h \in Heights |-> IF moves /\ h = last THEN Last(page) ELSE @[h]],
                !.seen = @ \cup (IF moves THEN {<<last, Last(page)>>} ELSE {})]
  /\ Becomes([pc |-> "verify", pages |-> task.pages + 1])
  /\ UNCHANGED rows /\ Elsewhere

\* Without a cursor a block is read by its hash.
BlockHeader ==
  /\ At("block") /\ index.headers[GapHigh] = "none" /\ GapHigh <= Len(Best)
  /\ index' = [index EXCEPT !.headers = _headers(GapHigh)] /\ UNCHANGED <<task, rows>> /\ Elsewhere
EmptyBlock ==
  /\ At("block") /\ index.headers[GapHigh] # "none" /\ Len(Block[index.headers[GapHigh]]) = 1
  /\ index' = [index EXCEPT !.covered = _cover(GapHigh, GapHigh)] /\ Becomes([pc |-> "verify"])
  /\ UNCHANGED rows /\ Elsewhere
\* A page of a block that is gone is only to be had from what was kept of it.
BlockPage ==
  /\ At("block") /\ index.headers[GapHigh] # "none" /\ Len(Block[index.headers[GapHigh]]) > 1
  /\ LET id == index.headers[GapHigh]
         old == index.blocks[id]
         known == <<id, old.next>> \in index.pages
         data == SubSeq(Block[id], old.next + 1, Least(old.next + PageSize, Len(Block[id])))
         next == old.next + Len(data)
         first == SelectSeq(data, LAMBDA t : t # 0)
         anchor == IF old.anchor # 0 \/ first = <<>> THEN old.anchor ELSE first[1]
         all == next = Len(Block[id])
     IN  /\ known \/ (task.pages < MaxPages /\ OnBest(id))
         /\ index' = [index EXCEPT
              !.claims = @ \cup {t \in ToSet(first) : ClaimOf[t] # 0},
              !.pages = @ \cup {<<id, old.next>>}, !.blocks[id] = [next |-> next, anchor |-> anchor],
              !.covered = IF all THEN _cover(GapHigh, GapHigh) ELSE @,
              !.cursors = [h \in Heights |-> IF all /\ anchor # 0 /\ h = GapHigh THEN anchor ELSE @[h]],
              !.seen = IF all /\ anchor # 0 THEN @ \cup {<<GapHigh, anchor>>} ELSE @]
         /\ Becomes([pc |-> "verify", pages |-> IF known THEN task.pages ELSE task.pages + 1])
  /\ UNCHANGED rows /\ Elsewhere

-----------------------------------------------------------------------------
\* Blocks are found, and sometimes replaced.
ChainMoves ==
  /\ moment < Len(Chains) /\ moment' = moment + 1
  /\ UNCHANGED <<index, task, rows, report, sessions>>

Next ==
  \/ workspace_session \/ _save \/ match_pegin_batch \/ Verify \/ Fail \/ Pause \/ Killed
  \/ Tip \/ prepare \/ Finalize \/ page_limit \/ HistoryPage \/ BlockHeader
  \/ EmptyBlock \/ BlockPage \/ ChainMoves

-----------------------------------------------------------------------------
\* As long as the tip they were searched under is in the chain, the index has
\* every claim of the heights it calls covered.
CoverageIsHonest ==
  OnBest(index.meta) =>
    \A h \in index.covered, t \in DOMAIN ClaimOf :
      t \in ToSet(Block[Best[h]]) /\ ClaimOf[t] # 0 => t \in index.claims
\* When a deposit is called unmatched, no claim of it is in the window on the
\* chain of that moment.
NoMatchIsTrue ==
  [][\A d \in Deposits : task.pc = "step" /\ rows[d] # "no_match" /\ rows'[d] = "no_match" =>
       \A h \in DOMAIN Best : InWindow(h) => ~ClaimedIn(h, d)]_vars
\* Unless blocks were reorganised away, the history never comes back to where a
\* search already was, so the check against a repeated cursor refuses nothing.
NeverStalls ==
  At("history") /\ OnBest(task.snapshot) =>
    \A page \in PagesAfter(index.cursors[From]) : ~Stalled(page)
=============================================================================
