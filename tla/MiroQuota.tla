------------------------------ MODULE MiroQuota ------------------------------
(* The credits that all processes with one access token spend at Miro         *)
(* (miro_quota.py): a start is reserved in a transaction of a shared          *)
(* database, what Miro answers about its allowance is merged in another.  The *)
(* processes know of each other's requests only by their reservations.        *)
EXTENDS Naturals, FiniteSetsExt

CONSTANTS
  Calls, Cost,         \* Cost: [Calls -> credits]
  Allowance, Period,   \* of Miro, per period of this many ticks
  Gap,                 \* Gap[limit] ticks keep a credit within the target for that limit
  Limits,              \* the limits Miro may advertise
  MaxTime, MaxCrashes, \* bounds
  None

MiroQuotaAssumption ==
  /\ Calls # {} /\ Cost \in [Calls -> Nat \ {0}] /\ Gap \in [Limits -> Nat \ {0}] /\ Allowance \in Limits
  /\ {Period, MaxTime, MaxCrashes} \subseteq Nat /\ \A c \in Calls : Cost[c] <= Allowance
  /\ \A limit \in Limits : Allowance <= Period * Gap[limit]

VARIABLES
  clock,
  next_start, cooldown, remaining, reset_at, credit_limit, \* the quota row
  reservations, \* [Calls -> when it expires]
  call,         \* [Calls -> "new", "sent", "answered", "ended"]
  answer,       \* [Calls -> what Miro answered]
  credits,      \* Miro: what is left in this period
  blind,        \* history: credits of this period's calls that ended without an answer
  starts,       \* history: [Calls -> when it was reserved]
  crashes
quota == <<next_start, cooldown, remaining, reset_at, credit_limit, reservations>>
vars == <<clock, quota, call, answer, credits, blind, starts, crashes>>

Larger(m, n) == IF m < n THEN n ELSE m
Smaller(m, n) == IF m < n THEN m ELSE n
Less(m, n) == IF m < n THEN 0 ELSE m - n
Costs(set) == FoldSet(LAMBDA c, sum : Cost[c] + sum, 0, set)
Lifetime == 2 * Period
PeriodEnd == (clock \div Period + 1) * Period

TypeOK ==
  /\ clock \in 0..MaxTime /\ next_start \in Nat /\ cooldown \in Nat /\ reset_at \in Nat
  /\ remaining \in {None} \cup (0..Allowance) /\ credit_limit \in Limits /\ credits \in 0..Allowance
  /\ call \in [Calls -> {"new", "sent", "answered", "ended"}]
  /\ \A c \in Calls : call[c] = "new" <=> starts[c] = None
Init ==
  /\ clock = 0 /\ next_start = 0 /\ cooldown = 0 /\ remaining = None /\ reset_at = 0 /\ credit_limit = Allowance
  /\ reservations = [c \in Calls |-> None] /\ call = [c \in Calls |-> "new"]
  /\ answer = [c \in Calls |-> None] /\ credits = Allowance /\ blind = 0
  /\ starts = [c \in Calls |-> None] /\ crashes = 0

-----------------------------------------------------------------------------
(* The shared database *)

Current(live) == {c \in Calls : live[c] # None /\ clock < live[c]}
Prune(live) == [c \in Calls |-> IF c \in Current(live) THEN live[c] ELSE None]
Known == IF clock >= reset_at THEN None ELSE remaining
Deadline(c) == LET start == Larger(next_start, cooldown)
               IN IF Known # None /\ Known < Cost[c] THEN Larger(start, reset_at) ELSE start
reserve(c) ==
  /\ call[c] = "new" /\ Deadline(c) <= clock
  /\ next_start' = clock + Cost[c] * Gap[credit_limit]
  /\ remaining' = IF Known = None THEN None ELSE Known - Cost[c]
  /\ reservations' = [Prune(reservations) EXCEPT ![c] = clock + Lifetime]
  /\ call' = [call EXCEPT ![c] = "sent"] /\ starts' = [starts EXCEPT ![c] = clock]
  /\ UNCHANGED <<clock, cooldown, reset_at, credit_limit, answer, credits, blind, crashes>>
\* With no answer only the reservation goes.
Ended(c) == call' = [call EXCEPT ![c] = "ended"] /\ answer' = [answer EXCEPT ![c] = None]
Merge(c) ==
  LET reply == answer[c]
      live == Current([reservations EXCEPT ![c] = None])
      budget == Less(reply.remaining, Costs(live))
  IN /\ credit_limit' = reply.limit
     /\ IF reply.reset > clock
        THEN /\ remaining' = IF Known = None THEN budget ELSE Smaller(remaining, budget)
             /\ reset_at' = Larger(reset_at, reply.reset)
        ELSE UNCHANGED <<remaining, reset_at>>
     /\ cooldown' = IF reply.refused THEN Larger(cooldown, clock + Larger(1, Less(reply.reset, clock))) ELSE cooldown
finish(c) ==
  /\ call[c] = "answered" /\ Ended(c)
  /\ IF reservations[c] # None
     THEN Merge(c) /\ reservations' = Prune([reservations EXCEPT ![c] = None])
     ELSE UNCHANGED <<cooldown, remaining, reset_at, credit_limit, reservations>>
  /\ UNCHANGED <<clock, next_start, credits, blind, starts, crashes>>

-----------------------------------------------------------------------------
(* Miro, time, and what can fail *)

\* A request that is not ended may arrive for one period, the timeout of a call.
Executed(c) ==
  /\ call[c] = "sent" /\ clock < starts[c] + Period /\ call' = [call EXCEPT ![c] = "answered"]
  /\ LET left == Less(credits, Cost[c])
         served == credits >= Cost[c]
     IN /\ credits' = IF served THEN left ELSE credits
        /\ \E limit \in Limits :
             answer' = [answer EXCEPT ![c] = [refused |-> ~served, remaining |-> credits', reset |-> PeriodEnd,
                                              limit |-> limit]]
  /\ UNCHANGED <<clock, quota, blind, starts, crashes>>
\* No answer comes: the call ends, whether or not Miro has served it.
Lost(c) ==
  /\ call[c] \in {"sent", "answered"} /\ Ended(c) /\ reservations' = Prune([reservations EXCEPT ![c] = None])
  /\ blind' = blind + Cost[c] /\ crashes < MaxCrashes /\ crashes' = crashes + 1
  /\ UNCHANGED <<clock, next_start, cooldown, remaining, reset_at, credit_limit, credits, starts>>
\* A process dies: its reservation stays until it expires.
Crash(c) ==
  /\ call[c] \in {"sent", "answered"} /\ Ended(c) /\ crashes < MaxCrashes /\ crashes' = crashes + 1
  /\ UNCHANGED <<clock, quota, credits, blind, starts>>
Overdue == \E c \in Calls : call[c] = "sent" /\ clock + 1 >= starts[c] + Period
Tick ==
  /\ clock < MaxTime /\ clock' = clock + 1 /\ ~Overdue
  /\ IF clock' % Period = 0 THEN credits' = Allowance /\ blind' = 0 ELSE UNCHANGED <<credits, blind>>
  /\ UNCHANGED <<quota, call, answer, starts, crashes>>

Works == \E c \in Calls : reserve(c) \/ finish(c) \/ Executed(c)
Next == Works \/ Tick \/ \E c \in Calls : Lost(c) \/ Crash(c)
Spec == Init /\ [][Next]_vars /\ WF_vars(Works) /\ WF_vars(Tick)

-----------------------------------------------------------------------------
(* Properties *)

\* The credits the database believes to be left are there, whatever the order
\* in which the answers were merged: what is reserved and not yet charged is
\* taken off, except for calls that ended without an answer.
BeliefHonest ==
  Known \notin {None, 0} => Known + Costs({c \in Calls : call[c] = "sent"}) <= credits + blind
\* Within any period all processes together start no more than the allowance,
\* apart from what the last of the calls costs.
Paced ==
  \A c \in Calls : starts[c] # None =>
    Costs({d \in Calls \ {c} : starts[d] # None /\ starts[d] <= starts[c] /\ starts[c] < starts[d] + Period})
      < Allowance
=============================================================================
