----------------------------- MODULE PayoutSearch -----------------------------
(* Finding the Bitcoin payouts of Liquid peg-outs (pegout_matching.py).       *)
(* The history of each destination script is read page by page from its       *)
(* newest transaction down to the lowest height of the window.  What was      *)
(* verified so far is kept in the report of the session, so that another      *)
(* session goes on from there, if the chain it was read from is still the     *)
(* best one.  Blocks are added or reorganised away at any moment.             *)
EXTENDS Naturals, FiniteSets, FiniteSetsExt, SequencesExt

CONSTANTS
  Scripts,    \* [peg-out transaction -> its destination scripts]; 1..n in the order of a batch
  Block,      \* [block -> sequence of its transactions]
  ScriptOf,   \* [transaction -> the script it pays]
  Agrees,     \* the transactions that pay the amount asked for
  Chains,     \* best chains in the order the explorer has them; an abandoned
              \* branch does not come back
  Time,       \* [height -> its time], the same on every branch
  Query,      \* times from and to of the search
  PageSize,   \* transactions on a page, 25
  MaxPages,   \* pages of one session
  MaxSessions \* bound

Sources == DOMAIN Scripts
PayoutAssumption ==
  /\ Sources = 1..Cardinality(Sources) /\ {PageSize, MaxPages, MaxSessions} \subseteq Nat \ {0}
  /\ \A h \in DOMAIN Time \ {1} : Time[h - 1] < Time[h]
  /\ Query.start < Query.end

VARIABLES
  moment,   \* the best chain is Chains[moment]
  task,     \* the session and its current source
  rows,     \* its results
  previous, \* the results of the report it continues
  report,   \* match.json of the latest session
  sessions
vars == <<moment, task, rows, previous, report, sessions>>

Best == Chains[moment]
OnBest(id) == \E h \in DOMAIN Best : Best[h] = id
OnChain(t) == \E h \in DOMAIN Best : t \in ToSet(Block[Best[h]])
HeightOf(t) == CHOOSE h \in DOMAIN Best : t \in ToSet(Block[Best[h]])
InWindow(h) == Time[h] \in Query.start..Query.end
\* The history of a script, newest first.
History(s) ==
  FlattenSeq([i \in DOMAIN Best |->
                Reverse(SelectSeq(Block[Best[Len(Best) + 1 - i]], LAMBDA t : ScriptOf[t] = s))])
Payouts(d) == {t \in DOMAIN ScriptOf : ScriptOf[t] \in Scripts[d] /\ t \in Agrees}

NoWindow == [low |-> 0, high |-> 0, snapshot |-> "none", elapsed |-> FALSE]
Unread == [cursor |-> 0, ceiling |-> 0, seen |-> {}, finished |-> FALSE]
Unprocessed(d) ==
  [status |-> "unprocessed", window |-> NoWindow, hints |-> {}, matches |-> {},
   histories |-> [s \in Scripts[d] |-> Unread]]
NoRows == [d \in Sources |-> Unprocessed(d)]
NoReport == [state |-> "none", rows |-> NoRows]
Free == [pc |-> "free", row |-> 0, pages |-> 0, ask |-> {}, script |-> 0, page |-> <<>>,
         empty |-> FALSE, crossed |-> FALSE]
Completed == {"candidate", "no_match"}
Statuses == Completed \cup {"unprocessed", "searching", "partial", "paused", "error"}

TypeOK ==
  /\ moment \in DOMAIN Chains /\ sessions \in 0..MaxSessions /\ task.pages \in 0..MaxPages
  /\ \A d \in Sources :
       /\ rows[d].status \in Statuses /\ rows[d].hints \cup rows[d].matches \subseteq Payouts(d)
       /\ DOMAIN rows[d].histories = Scripts[d]
  /\ report.state \in {"none", "torn", "whole"}
Init ==
  /\ moment = 1 /\ task = Free /\ rows = NoRows /\ previous = NoRows /\ report = NoReport
  /\ sessions = 0

Becomes(fields) == task' = [f \in DOMAIN Free |-> IF f \in DOMAIN fields THEN fields[f] ELSE task[f]]
Row == rows[task.row]
RowBecomes(fields) ==
  rows' = [rows EXCEPT ![task.row] = [f \in DOMAIN Row |-> IF f \in DOMAIN fields THEN fields[f] ELSE Row[f]]]
Elsewhere == UNCHANGED <<moment, previous, report, sessions>>

-----------------------------------------------------------------------------
(* Sessions *)

\* A row that was searched to the end is carried over with what it found.
Carried(saved) == [d \in Sources |-> IF saved[d].status \in Completed THEN saved[d] ELSE Unprocessed(d)]
_session ==
  /\ task.pc = "free" /\ sessions < MaxSessions /\ sessions' = sessions + 1
  /\ \E base \in {NoReport, report} :
       /\ base # NoReport => base.state = "whole"
       /\ previous' = base.rows /\ rows' = Carried(base.rows)
  /\ report' = NoReport /\ task' = [Free EXCEPT !.pc = "save"]
  /\ UNCHANGED moment
\* Files one by one and SHA256SUMS last, over those saved before.  What matched
\* is also kept as a hint for the next session.
Hinted(row) == [row EXCEPT !.hints = row.hints \cup row.matches]
_save ==
  /\ task.pc \in {"save", "saveAndEnd"}
  /\ rows' = [d \in Sources |-> Hinted(rows[d])]
  /\ IF report.state # "torn" THEN report' = [report EXCEPT !.state = "torn"] /\ UNCHANGED task
     ELSE /\ report' = [state |-> "whole", rows |-> rows']
          /\ task' = IF task.pc = "saveAndEnd" THEN Free ELSE [task EXCEPT !.pc = "next"]
  /\ UNCHANGED <<moment, previous, sessions>>
match_pegout ==
  /\ task.pc = "next"
  /\ LET left == {d \in Sources : rows[d].status = "unprocessed"}
     IN  IF left = {} THEN Becomes([pc |-> "saveAndEnd"]) /\ UNCHANGED rows
         ELSE /\ Becomes([pc |-> "prepare", row |-> Min(left)])
              /\ rows' = [rows EXCEPT ![Min(left)].status = "searching"]
  /\ Elsewhere
Working == task.pc \in {"prepare", "resume", "hints", "script", "page", "end"}
\* A failed lookup ends the row, a limit or an interrupt the session; what was
\* verified so far is kept.
Fail == Working /\ RowBecomes([status |-> "error"]) /\ Becomes([pc |-> "save", page |-> <<>>]) /\ Elsewhere
Pause == Working /\ RowBecomes([status |-> "paused"]) /\ Becomes([pc |-> "saveAndEnd", page |-> <<>>]) /\ Elsewhere
Killed == task.pc # "free" /\ task' = Free /\ UNCHANGED <<moment, rows, previous, report, sessions>>

-----------------------------------------------------------------------------
(* A source *)

FirstAt(time) == LET late == {h \in DOMAIN Best : Time[h] >= time} IN IF late = {} THEN Len(Best) ELSE Min(late)
_window ==
  /\ task.pc = "prepare"
  /\ RowBecomes([window |-> [low |-> FirstAt(Query.start), high |-> FirstAt(Query.end),
                             snapshot |-> Best[Len(Best)], elapsed |-> Time[Len(Best)] >= Query.end]])
  /\ Becomes([pc |-> "resume"]) /\ Elsewhere
\* The mutant: a saved cursor is used on another branch.
CompatibleRange(old) ==
  old.elapsed /\ old.low = Row.window.low /\ old.high = Row.window.high
\* A cursor is good only for the same range on the same chain, and not if the
\* range was still open then.
Compatible(old) ==
  /\ old.elapsed /\ old.low = Row.window.low /\ old.high = Row.window.high
  /\ OnBest(old.snapshot)
_liquid_source ==
  /\ task.pc = "resume"
  /\ LET old == previous[task.row]
     IN  IF Compatible(old.window)
         THEN /\ RowBecomes([histories |-> old.histories, hints |-> old.hints \cup old.matches])
              /\ Becomes([pc |-> "hints", ask |-> old.hints \cup old.matches])
         ELSE UNCHANGED rows /\ Becomes([pc |-> "script"])
  /\ Elsewhere
\* What a candidate is now decides, not what it was when it was found.
_check_payout(t) == {x \in {t} : x \in Agrees /\ OnChain(x) /\ InWindow(HeightOf(x))}
CheckHint ==
  /\ task.pc = "hints"
  /\ IF task.ask = {} THEN UNCHANGED rows /\ Becomes([pc |-> "script"])
     ELSE /\ RowBecomes([matches |-> Row.matches \cup _check_payout(Min(task.ask))])
          /\ Becomes([ask |-> task.ask \ {Min(task.ask)}])
  /\ Elsewhere

\* The page after a cursor.  After one that is not in the history any more the
\* explorer has nothing, or an error.
PagesAfter(s, cursor) ==
  LET history == History(s)
      at == {i \in DOMAIN history : history[i] = cursor}
      after == IF cursor = 0 THEN history
               ELSE IF at = {} THEN <<>> ELSE SubSeq(history, 1 + Max(at), Len(history))
      most == IF Len(after) < PageSize THEN Len(after) ELSE PageSize
  IN  {[i \in 1..n |-> [tx |-> after[i], height |-> HeightOf(after[i])]] :
         n \in (IF most = 0 THEN 0 ELSE 1)..most}
Unfinished == {s \in Scripts[task.row] : ~Row.histories[s].finished}
_history_page ==
  /\ task.pc = "script"
  /\ IF Unfinished = {} THEN Becomes([pc |-> "end"])
     ELSE LET s == Min(Unfinished)
          IN  /\ task.pages < MaxPages
              /\ \E page \in PagesAfter(s, Row.histories[s].cursor) :
                   Becomes([pc |-> "page", script |-> s, page |-> page, pages |-> task.pages + 1,
                            empty |-> page = <<>>, crossed |-> FALSE])
  /\ UNCHANGED rows /\ Elsewhere
\* Every transaction is committed once it was verified, also within a page.
Ordered(checkpoint, item) ==
  item.tx \notin checkpoint.seen /\ (checkpoint.ceiling # 0 => item.height <= checkpoint.ceiling)
Commit(checkpoint, item) ==
  [checkpoint EXCEPT !.cursor = item.tx, !.ceiling = item.height, !.seen = @ \cup {item.tx}]
Item ==
  /\ task.pc = "page" /\ task.page # <<>>
  /\ LET item == Head(task.page)
         old == Row.histories[task.script]
     IN  /\ Ordered(old, item)
         /\ RowBecomes([histories |-> [Row.histories EXCEPT ![task.script] = Commit(old, item)],
                        matches |-> Row.matches \cup
                          (IF item.height >= Row.window.low /\ InWindow(item.height)
                           THEN _check_payout(item.tx) ELSE {})])
         /\ Becomes([page |-> Tail(task.page), crossed |-> task.crossed \/ item.height < Row.window.low])
  /\ Elsewhere
PageDone ==
  /\ task.pc = "page" /\ task.page = <<>>
  /\ RowBecomes([histories |-> [Row.histories EXCEPT ![task.script].finished = task.empty \/ task.crossed]])
  /\ Becomes([pc |-> "script"]) /\ Elsewhere
\* The result counts if the tip the search began under is still in the chain.
EndRow ==
  /\ task.pc = "end"
  /\ IF OnBest(Row.window.snapshot)
     THEN /\ RowBecomes([status |-> IF ~Row.window.elapsed THEN "partial"
                                    ELSE IF Row.matches = {} THEN "no_match" ELSE "candidate"])
          /\ Becomes([pc |-> "save"])
     ELSE RowBecomes([status |-> "paused"]) /\ Becomes([pc |-> "saveAndEnd"])
  /\ Elsewhere

-----------------------------------------------------------------------------
\* Blocks are found, and sometimes replaced.
ChainMoves ==
  /\ moment < Len(Chains) /\ moment' = moment + 1
  /\ UNCHANGED <<task, rows, previous, report, sessions>>

Next ==
  \/ _session \/ _save \/ match_pegout \/ Fail \/ Pause \/ Killed
  \/ _window \/ _liquid_source \/ CheckHint \/ _history_page \/ Item \/ PageDone \/ EndRow
  \/ ChainMoves
Spec == Init /\ [][Next]_vars

-----------------------------------------------------------------------------
\* The part of a history that a later session will skip hides no payout: each is
\* among the candidates or the hints of the row, so it is checked again
\* (_liquid_source: "Candidate observations are refreshed before any scanned
\* prefix is skipped").
PrefixIsKept ==
  \A saved \in {rows, report.rows}, d \in Sources :
    saved[d].window.elapsed /\ OnBest(saved[d].window.snapshot) =>
      \A s \in Scripts[d] : \A t \in saved[d].histories[s].seen \cap Agrees :
        OnChain(t) /\ InWindow(HeightOf(t)) => t \in saved[d].hints \cup saved[d].matches
\* A search that ends has exactly the payouts that the chain of that moment has
\* in the window, however many sessions it took and whatever happened between.
ResultIsExact ==
  [][\A d \in Sources :
       task.pc = "end" /\ rows'[d].status \in Completed /\ rows[d].status \notin Completed =>
         rows[d].matches = {t \in Payouts(d) : OnChain(t) /\ InWindow(HeightOf(t))}]_vars
=============================================================================
