--------------------------- MODULE ExplorerQuota ---------------------------
(***************************************************************************)
(* The request pacing of liquid_tracer/explorer_quota.py, shared through a  *)
(* SQLite file by every explorer client of a machine: a start is reserved   *)
(* in one transaction, the slowest registered client paces everybody,       *)
(* Retry-After closes the gate for all, and adaptive clients share a rate   *)
(* that grows with successes and is cut once per episode of rejections.     *)
(*                                                                         *)
(* Time is counted in ticks relative to now.  A rate is the interval it     *)
(* leaves between starts; growing makes the interval one tick shorter and a *)
(* cut makes it one tick longer.  A brief lock contention (_Busy) changes   *)
(* nothing and is retried, so it is a step not taken.                      *)
(***************************************************************************)
EXTENDS Integers, FiniteSets

CONSTANTS
  Clients,      \* the clients that may register
  Fixed,        \* [Clients -> Nat]: a fixed client's interval, 0 = adaptive
  Initial,      \* the interval the controller starts from
  Slowest,      \* bound on the adaptive interval
  Idle,         \* CLIENT_IDLE_SECONDS
  Window,       \* the learning window
  Enough,       \* successes a window needs to justify growth
  MinHold,      \* the least time without growth after a cut
  Delays,       \* the Retry-After values the explorer may send
  MaxInFlight,  \* bound on the requests in flight of a client
  MaxRejections,\* bound on the rejections the explorer sends
  None

VARIABLES
  since,     \* ticks since pacing.last_start, up to Longest
  cool,      \* ticks until pacing.cooldown
  lease,     \* ticks until clients.expires_at; 0 = not registered
  target,    \* the controller's interval
  successes, \* its successes in this window
  window,    \* ticks since its window started
  hold,      \* ticks until hold_until
  pend,      \* successes a client has buffered for the current generation
  fresh,     \* a client's requests in flight admitted in this generation
  stale,     \* a client's requests in flight admitted in an earlier one
  hint,      \* a client's cached denial: ticks until it is checked again
  status,    \* "new", "open", "closed" or "crashed"
  rejections,\* how many rejections the explorer sent
  blocked,   \* history: ticks until the latest cooldown any client reported
  started,   \* history: a request started since the last cut
  earned     \* history: successes of requests started since the last cut

shared == <<since, cool, lease>>
controller == <<target, successes, window, hold>>
local == <<pend, fresh, stale, hint, status>>
history == <<blocked, started, earned>>
vars == <<shared, controller, local, rejections, history>>

Adaptive(c) == Fixed[c] = 0
Max2(a, b) == IF a >= b THEN a ELSE b
Min2(a, b) == IF a <= b THEN a ELSE b
Less(n) == IF n = 0 THEN 0 ELSE n - 1
Longest == CHOOSE n \in {Fixed[c] : c \in Clients} \cup {Slowest} :
             \A m \in {Fixed[c] : c \in Clients} \cup {Slowest} : m <= n

ASSUME QuotaAssumption ==
  /\ IsFiniteSet(Clients)
  /\ Fixed \in [Clients -> Nat]
  /\ Slowest \in Nat \ {0} /\ Initial \in 1..Slowest
  /\ Idle \in Nat \ {0} /\ Window \in Nat \ {0} /\ Enough \in Nat \ {0}
  /\ MinHold \in Nat /\ Delays \subseteq Nat /\ MaxInFlight \in Nat /\ MaxRejections \in Nat
  /\ None \notin Nat

-----------------------------------------------------------------------------
(* _AdaptiveState                                                          *)

Registered(ls) == {c \in Clients : ls[c] > 0}
IntervalOf(c, t) == IF Adaptive(c) THEN t ELSE Fixed[c]

\* Mutant: a client paces itself by its own interval only.
OwnPace(c, ls, t) == IntervalOf(c, t)
\* SELECT MAX(interval) FROM clients.
Pace(c, ls, t) ==
  CHOOSE i \in {IntervalOf(d, t) : d \in Registered(ls)} :
    \A j \in {IntervalOf(d, t) : d \in Registered(ls)} : j <= i

\* The window a controller left idle starts again (_controller).
Rested == window > Idle /\ Registered(lease) = {}

MayGrow == window >= Window /\ hold = 0 /\ ~Rested
Counted(c) == Min2(Enough, (IF Rested THEN 0 ELSE successes) + pend[c])

\* add_successes and grow, and the buffered successes are taken.
Learn(c) ==
  LET n == Counted(c)
  IN /\ target' = IF MayGrow /\ n >= Enough /\ target > 1 THEN target - 1 ELSE target
     /\ successes' = IF MayGrow THEN 0 ELSE n
     /\ window' = IF MayGrow \/ Rested THEN 0 ELSE window
     /\ pend' = [pend EXCEPT ![c] = 0]
     /\ UNCHANGED hold

\* Mutant: every rejection cuts, whatever generation admitted its request.
CutAlways(c, isFresh, seconds) ==
  /\ target' = Min2(Slowest, target + 1) /\ successes' = 0 /\ window' = 0
  /\ hold' = Max2(MinHold, seconds)
  /\ pend' = [d \in Clients |-> 0] /\ earned' = 0 /\ started' = FALSE
  /\ LET left == [d \in Clients |-> fresh[d] + stale[d] - (IF d = c THEN 1 ELSE 0)]
     IN fresh' = [d \in Clients |-> 0] /\ stale' = left

\* pressure: the first rejection of a request of this generation cuts the rate
\* and opens the next generation, to which nothing in flight or buffered belongs.
Cut(c, isFresh, seconds) ==
  IF isFresh
  THEN /\ target' = Min2(Slowest, target + 1) /\ successes' = 0 /\ window' = 0
       /\ hold' = Max2(MinHold, seconds)
       /\ pend' = [d \in Clients |-> 0] /\ earned' = 0 /\ started' = FALSE
       /\ LET left == [d \in Clients |-> fresh[d] + stale[d] - (IF d = c THEN 1 ELSE 0)]
          IN fresh' = [d \in Clients |-> 0] /\ stale' = left
  ELSE /\ stale' = [stale EXCEPT ![c] = @ - 1]
       /\ successes' = IF Rested THEN 0 ELSE successes
       /\ window' = IF Rested THEN 0 ELSE window
       /\ UNCHANGED <<target, hold, pend, fresh, earned, started>>

-----------------------------------------------------------------------------
(* SharedExplorerQuota                                                     *)

Open(c) ==
  /\ status[c] = "new"
  /\ status' = [status EXCEPT ![c] = "open"]
  /\ UNCHANGED <<shared, controller, pend, fresh, stale, hint, rejections, history>>

\* How long a denial may be reused: only by a client that knows it is alone,
\* and checked again while its lease still runs.
HintFor(c, ls, deadline) ==
  IF Adaptive(c) /\ Registered(ls) = {c} THEN Min2(deadline, Min2(1, Idle \div 2)) ELSE 0

\* One _reserve_uncached transaction: the lease is renewed either way.
Reserve(c) ==
  /\ status[c] = "open" /\ hint[c] = 0 /\ fresh[c] + stale[c] < MaxInFlight
  /\ IF Adaptive(c) THEN Learn(c) ELSE UNCHANGED <<controller, pend>>
  /\ lease' = [lease EXCEPT ![c] = Idle]
  /\ LET pace == Pace(c, lease', target')
     IN IF cool > 0 \/ pace > since
        THEN /\ hint' = [hint EXCEPT ![c] = HintFor(c, lease', Max2(pace - since, cool))]
             /\ UNCHANGED <<since, fresh, started>>
        ELSE /\ since' = 0
             /\ fresh' = [fresh EXCEPT ![c] = @ + 1] /\ started' = TRUE
             /\ UNCHANGED hint
  /\ UNCHANGED <<cool, stale, status, rejections, blocked, earned>>

\* A 2xx response: success() buffers it under the generation of its admission.
Success(c) ==
  /\ \/ /\ fresh[c] > 0
        /\ fresh' = [fresh EXCEPT ![c] = @ - 1] /\ UNCHANGED stale
        /\ IF Adaptive(c) THEN /\ pend' = [pend EXCEPT ![c] = Min2(Enough, @ + 1)]
                               /\ earned' = Min2(Enough, earned + 1)
           ELSE UNCHANGED <<pend, earned>>
     \/ /\ stale[c] > 0
        /\ stale' = [stale EXCEPT ![c] = @ - 1] /\ UNCHANGED <<fresh, pend, earned>>
  /\ UNCHANGED <<shared, controller, hint, status, rejections, blocked, started>>

\* Mutant: a later Retry-After replaces an earlier, longer one.
CoolReplaced(seconds) == cool' = seconds
\* UPDATE pacing SET cooldown = MAX(cooldown, ?)
Cool(seconds) == cool' = Max2(cool, seconds)

\* A rejection whose response is published: pressure(), then cooldown().
Reject(c, seconds) ==
  /\ rejections < MaxRejections /\ rejections' = rejections + 1
  /\ fresh[c] + stale[c] > 0
  /\ Cool(Max2(1, seconds)) /\ blocked' = Max2(blocked, Max2(1, seconds))
  /\ hint' = [hint EXCEPT ![c] = 0]
  /\ IF Adaptive(c)
     THEN \E isFresh \in BOOLEAN : /\ IF isFresh THEN fresh[c] > 0 ELSE stale[c] > 0
                                   /\ Cut(c, isFresh, Max2(1, seconds))
     ELSE /\ IF fresh[c] > 0 THEN fresh' = [fresh EXCEPT ![c] = @ - 1] /\ UNCHANGED stale
             ELSE stale' = [stale EXCEPT ![c] = @ - 1] /\ UNCHANGED fresh
          /\ UNCHANGED <<controller, pend, earned, started>>
  /\ UNCHANGED <<since, lease, status>>

\* Mutant: an answer releases a request that is not in flight.
OtherTwice(c) ==
  /\ fresh' = [fresh EXCEPT ![c] = @ - 1] /\ UNCHANGED stale
  /\ UNCHANGED <<shared, controller, pend, hint, status, rejections, history>>
\* Any other answer, or one whose publication was cancelled under contention.
Other(c) ==
  /\ \/ fresh[c] > 0 /\ fresh' = [fresh EXCEPT ![c] = @ - 1] /\ UNCHANGED stale
     \/ stale[c] > 0 /\ stale' = [stale EXCEPT ![c] = @ - 1] /\ UNCHANGED fresh
  /\ UNCHANGED <<shared, controller, pend, hint, status, rejections, history>>

\* close(): the client drained its requests; contention leaves its row behind.
Close(c) ==
  /\ status[c] = "open" /\ fresh[c] + stale[c] = 0
  /\ status' = [status EXCEPT ![c] = "closed"]
  /\ lease' = [lease EXCEPT ![c] = 0] \/ UNCHANGED lease
  /\ UNCHANGED <<since, cool, controller, pend, fresh, stale, hint, rejections, history>>

Crash(c) ==
  /\ status[c] = "open"
  /\ status' = [status EXCEPT ![c] = "crashed"]
  /\ fresh' = [fresh EXCEPT ![c] = 0] /\ stale' = [stale EXCEPT ![c] = 0]
  /\ pend' = [pend EXCEPT ![c] = 0] /\ hint' = [hint EXCEPT ![c] = 0]
  /\ UNCHANGED <<shared, controller, rejections, history>>

\* Mutant: a cached denial is never checked again.
TickKeepsHints ==
  /\ since' = Min2(Longest, since + 1)
  /\ cool' = Less(cool) /\ blocked' = Less(blocked) /\ hold' = Less(hold)
  /\ lease' = [c \in Clients |-> Less(lease[c])]
  /\ window' = IF hold > 0 THEN 0 ELSE Min2(Max2(Window, Idle + 1), window + 1)
  /\ UNCHANGED <<target, successes, pend, fresh, stale, hint, status, rejections, started, earned>>
\* Time passes.  The window of a cut starts when its hold ends.
Tick ==
  /\ since' = Min2(Longest, since + 1)
  /\ cool' = Less(cool) /\ blocked' = Less(blocked) /\ hold' = Less(hold)
  /\ lease' = [c \in Clients |-> Less(lease[c])]
  /\ hint' = [c \in Clients |-> Less(hint[c])]
  /\ window' = IF hold > 0 THEN 0 ELSE Min2(Max2(Window, Idle + 1), window + 1)
  /\ UNCHANGED <<target, successes, pend, fresh, stale, status, rejections, started, earned>>

Init ==
  /\ since = Longest /\ cool = 0 /\ lease = [c \in Clients |-> 0]
  /\ target = Initial /\ successes = 0 /\ window = 0 /\ hold = 0
  /\ pend = [c \in Clients |-> 0] /\ fresh = [c \in Clients |-> 0]
  /\ stale = [c \in Clients |-> 0] /\ hint = [c \in Clients |-> 0]
  /\ status = [c \in Clients |-> "new"]
  /\ rejections = 0 /\ blocked = 0 /\ started = FALSE /\ earned = 0

Answer(c) == Success(c) \/ Other(c) \/ \E seconds \in Delays : Reject(c, seconds)
Next ==
  \/ \E c \in Clients : Open(c) \/ Reserve(c) \/ Answer(c) \/ Close(c) \/ Crash(c)
  \/ Tick

Spec == Init /\ [][Next]_vars

\* Clients that are open keep asking (_reserve_request's loop), requests are
\* answered or time out, and time passes.
Asking == \E c \in Clients : Reserve(c) \/ Answer(c)
FairSpec == Spec /\ WF_vars(Tick) /\ WF_vars(Asking)

-----------------------------------------------------------------------------
(* Properties                                                              *)

Starts == since' = 0 /\ \E c \in Clients : fresh'[c] > fresh[c]

\* Every variable has its type, and no client holds more requests than allowed.
TypeOK ==
  /\ since \in 0..Longest /\ cool \in Nat /\ lease \in [Clients -> 0..Idle]
  /\ target \in 1..Slowest /\ successes \in 0..Enough /\ window \in Nat /\ hold \in Nat
  /\ pend \in [Clients -> 0..Enough] /\ rejections \in 0..MaxRejections
  /\ fresh \in [Clients -> Nat] /\ stale \in [Clients -> Nat]
  /\ \A c \in Clients : fresh[c] + stale[c] <= MaxInFlight
  /\ hint \in [Clients -> Nat]
  /\ status \in [Clients -> {"new", "open", "closed", "crashed"}]
  /\ blocked \in Nat /\ started \in BOOLEAN /\ earned \in 0..Enough

\* Once a client has reported a Retry-After, no client of the machine starts a
\* request before it has passed, even if a shorter one is reported after it.
NoStartInCooldown == [][Starts => blocked = 0]_vars

\* Two starts of any clients are as far apart as every client registered at the
\* second one asks for: a faster client cannot bypass a fixed peer.
StartsSpaced ==
  [][Starts => \A c \in Registered(lease) : ~Adaptive(c) => since >= Fixed[c]]_vars

\* However many requests in flight are rejected together, the shared rate is
\* cut once: the next cut needs a request that started after it.
OneCutPerEpisode == [][target' > target => started]_vars

\* The shared rate grows only on successes of requests that started after the
\* last cut, and not while that cut's hold lasts.
GrowthIsEarned == [][target' < target => earned >= Enough /\ hold = 0]_vars

\* The shared rate moves only for a reason of its own episode.
RateIsEarned == OneCutPerEpisode /\ GrowthIsEarned

\* Starts of all clients are spaced, and a higher rate is earned by answers.
PacingIsFair == StartsSpaced /\ RateIsEarned

\* A client that waits on a cached denial stays registered, so a fixed peer
\* that joins meanwhile is paced by it.
WaitingStaysRegistered ==
  \A c \in Clients : status[c] = "open" /\ hint[c] > 0 => lease[c] > 0

\* Every registered client paces every start, and those that wait stay registered.
EveryonePaces == StartsSpaced /\ []WaitingStaysRegistered

\* A crashed client slows the others no longer than its lease.
CrashedExpired == \A c \in Clients : status[c] = "crashed" => lease[c] = 0

\* Pacing never stops the machine: while a client is open, requests start.
SomeoneStarted == since = 0 \/ \A c \in Clients : status[c] # "open"

\* Neither a closed gate nor a client that is gone stops or slows the machine for
\* good.
PacingGoesOn == []<>(SomeoneStarted /\ CrashedExpired)
=============================================================================
