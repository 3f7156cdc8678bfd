----------------------------- MODULE MiroUpdate -----------------------------
(***************************************************************************)
(* patch_item of liquid_tracer/miro_updates.py: one journaled edit of a     *)
(* board item whose answer may fail or be lost, while a person edits the    *)
(* same item.  A lost PATCH was executed, completely or in part, or never   *)
(* is.                                                                     *)
(***************************************************************************)
EXTENDS Naturals, FiniteSets

CONSTANTS
  Fields,      \* the fields the patch submits
  Attempts,    \* 3 in the code
  MaxEdits,    \* bound on the edits by a person
  MaxLimits    \* bound on known rate-limit rejections, which request() retries

MiroUpdateAssumption ==
  /\ IsFiniteSet(Fields) /\ Fields # {} /\ Attempts \in Nat \ {0}
  /\ MaxEdits \in Nat /\ MaxLimits \in Nat

VARIABLES
  item,     \* Miro: each field "before" (what the preflight read), "after" or "manual"
  moved,    \* Miro: a person moved the item to another parent
  structural, \* the patch moves a parent, an attachment or a frame
  pc,       \* "idle" (not called), "send", "sent", "verify", "judge", "wait", "returned" or "stopped"
  attempt,  \* the attempt, from 0
  answer,   \* of the PATCH in flight: "none", "ok", "transient", "refused" or "lost"
  seen,     \* what the verifying read returned: [fields, moved]
  edits, limits,
  fresh,    \* history: fields a person wrote since the program last read the item
  clobbered \* history: a replay overwrote what the program had seen

vars == <<item, moved, structural, pc, attempt, answer, seen, edits, limits, fresh, clobbered>>

Value == [Fields -> {"before", "after", "manual"}]

-----------------------------------------------------------------------------
\* request("PATCH"): one send; a known rate limit is waited for and sent again.
Send ==
  /\ pc = "send" /\ pc' = "sent" /\ answer' = "none"
  /\ UNCHANGED <<item, moved, structural, attempt, seen, edits, limits, fresh, clobbered>>

RateLimited ==
  /\ pc = "sent" /\ answer = "none" /\ limits < MaxLimits /\ limits' = limits + 1
  /\ pc' = "send"
  /\ UNCHANGED <<item, moved, structural, attempt, answer, seen, edits, fresh, clobbered>>

\* Miro executes the PATCH, some of it or none, and answers or not.  What it
\* acknowledges it executed; what it refused it did not.
Execute ==
  /\ pc = "sent" /\ answer = "none"
  /\ \E applied \in SUBSET Fields, a \in {"ok", "transient", "refused", "lost"} :
       /\ a = "ok" => applied = Fields
       /\ a = "refused" => applied = {}
       /\ item' = [f \in Fields |-> IF f \in applied THEN "after" ELSE item[f]]
       /\ clobbered' = (clobbered \/ (attempt > 0 /\ \E f \in applied \ fresh : item[f] = "manual"))
       /\ answer' = a
  /\ UNCHANGED <<moved, structural, pc, attempt, seen, edits, limits, fresh>>

\* The answer decides: done, stopped, or uncertain.
Answered ==
  /\ pc = "sent" /\ answer # "none"
  /\ \/ answer = "ok" /\ pc' = "returned"
     \/ answer = "refused" /\ pc' = "stopped"
     \/ answer \in {"transient", "lost"} /\ pc' = "verify"
  /\ UNCHANGED <<item, moved, structural, attempt, answer, seen, edits, limits, fresh, clobbered>>

\* The verifying GET: the whole item, or nothing that can be used.
Verify ==
  /\ pc = "verify"
  /\ \/ pc' = "judge" /\ seen' = [fields |-> item, moved |-> moved] /\ fresh' = {}
     \/ pc' = "stopped" /\ UNCHANGED <<seen, fresh>>
  /\ UNCHANGED <<item, moved, structural, attempt, answer, edits, limits, clobbered>>

\* Nothing about parents, attachments or frames can be told from a read.
Observable == ~structural /\ ~seen.moved

Matches == \A f \in Fields : seen.fields[f] = "after"

\* Mutant: one unchanged field is enough to replay.
UnchangedPartly == \E f \in Fields : seen.fields[f] = "before"
Unchanged == \A f \in Fields : seen.fields[f] = "before"

AttemptsLeft == attempt < Attempts - 1

\* Accept what shows the patch, replay what shows the preflight, else stop.
Judge ==
  /\ pc = "judge"
  /\ IF Observable /\ Matches THEN pc' = "returned"
     ELSE IF Observable /\ Unchanged /\ AttemptsLeft THEN pc' = "wait"
     ELSE pc' = "stopped"
  /\ UNCHANGED <<item, moved, structural, attempt, answer, seen, edits, limits, fresh, clobbered>>

\* The wait before the next attempt; a cancelled batch ends it.
Retry ==
  /\ pc = "wait"
  /\ \/ pc' = "send" /\ attempt' = attempt + 1
     \/ pc' = "stopped" /\ UNCHANGED attempt
  /\ UNCHANGED <<item, moved, structural, answer, seen, edits, limits, fresh, clobbered>>

\* A person writes a field, or moves the item, at any moment.
Edit ==
  /\ edits < MaxEdits /\ edits' = edits + 1
  /\ \/ \E f \in Fields : item' = [item EXCEPT ![f] = "manual"] /\ fresh' = fresh \cup {f}
        /\ UNCHANGED moved
     \/ moved' = TRUE /\ UNCHANGED <<item, fresh>>
  /\ UNCHANGED <<structural, pc, attempt, answer, seen, limits, clobbered>>

Init ==
  /\ item = [f \in Fields |-> "before"] /\ moved = FALSE
  /\ structural = FALSE /\ pc = "idle" /\ attempt = 0 /\ answer = "none"
  /\ seen = [fields |-> item, moved |-> FALSE]
  /\ edits = 0 /\ limits = 0 /\ fresh = {} /\ clobbered = FALSE

\* patch_item is called with a patch that the preflight planned.
Begin ==
  /\ pc = "idle" /\ pc' = "send" /\ structural' \in BOOLEAN
  /\ UNCHANGED <<item, moved, attempt, answer, seen, edits, limits, fresh, clobbered>>

Patch == Send \/ RateLimited \/ Execute \/ Answered \/ Verify \/ Judge \/ Retry
Next == Begin \/ Patch \/ Edit
Spec == Init /\ [][Next]_vars
\* patch_item runs on, and every request is answered or times out.
Fairness == WF_vars(Patch)

-----------------------------------------------------------------------------
(* Properties                                                              *)

\* Every variable has its type.
TypeOK ==
  /\ item \in Value /\ seen \in [fields : Value, moved : BOOLEAN] /\ attempt \in 0..(Attempts - 1)
  /\ structural \in BOOLEAN /\ pc \in {"idle", "send", "sent", "verify", "judge", "wait", "returned", "stopped"} /\ fresh \subseteq Fields

\* A replay overwrites nothing a person wrote before the read that allowed it.
EditsSurviveReplay == ~clobbered

\* A patch that moves other items, or an item that was moved, is sent once.
StructuralOnce == structural => attempt = 0

\* The call returns only for an item that shows the whole patch, but for what a
\* person wrote after it was executed or read.
ReturnedIsShown ==
  [][pc # "returned" /\ pc' = "returned"
       => \A f \in Fields : item[f] = "after" \/ (item[f] = "manual" /\ edits > 0)]_vars
=============================================================================
