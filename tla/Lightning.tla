------------------------------ MODULE Lightning ------------------------------
(* Looking up what a Bitcoin transaction has to do with Lightning channels    *)
(* (lightning_matching.py, lightning_inspection.py, lightning_swap.py).       *)
(* A public index is asked three times, since its replicas disagree; what it  *)
(* says is checked against the Bitcoin explorer; the witnesses of inputs and  *)
(* of spent outputs are inspected whatever the index said; a swap provider    *)
(* may be asked.  Requests and time are limited for all of it together, every *)
(* request may fail, and the report is validated before it is returned.       *)
EXTENDS Naturals, FiniteSets, FiniteSetsExt, SequencesExt, TLC

CONSTANTS
  Queries,   \* the transactions that may be looked up
  TxOf,      \* [transaction -> [height: 0 if unconfirmed, ins: sequence of outpoints
             \*   <<transaction, vout>>, outs: sequence of values,
             \*   spenders: sequence of [tx, vin], vin 0 for unspent]]
  Answers,   \* what the index may answer: sets of channels
             \* [id, role, fund: outpoint, value, height, closing]
  Swaps,     \* transactions the provider may name
  Template,  \* [<<transaction, vin>> -> "candidate", "hidden", "unsupported" or "bad"]
  MaxInputs, MaxOutputs, MaxSpenders, \* 64, 32 and 8
  MaxRequests,
  None

Samples == 3
Least(a, b) == IF a < b THEN a ELSE b
Transactions == DOMAIN TxOf
LightningAssumption ==
  /\ Queries \subseteq Transactions /\ {MaxInputs, MaxOutputs, MaxSpenders, MaxRequests} \subseteq Nat \ {0}
  /\ \A t \in Transactions : Len(TxOf[t].spenders) = Len(TxOf[t].outs)

VARIABLES
  query,    \* the transaction looked up
  step,     \* where the lookup is
  samples,  \* the answers of the index
  cache,    \* transactions fetched
  used,     \* requests made
  late,     \* the time limit passed
  todo,     \* channels, inputs or outputs still to check
  asked,    \* spending transactions of the outputs
  report
vars == <<query, step, samples, cache, used, late, todo, asked, report>>

Q == TxOf[query]
NoInspection == [status |-> "error", findings |-> {}, ins |-> 0, outs |-> 0, reason |-> TRUE,
                 totalIns |-> 0, totalOuts |-> 0]
TypeOK ==
  /\ step \in {"index", "query", "channels", "inspect", "inputs", "outspends", "outputs", "swap",
               "swapState", "ready"}
  /\ Len(samples) <= Samples /\ ToSet(samples) \subseteq Answers
  /\ cache \subseteq Transactions /\ used \in 0..MaxRequests /\ late \in BOOLEAN /\ asked \subseteq Transactions
  /\ report.matches \subseteq UNION Answers /\ report.status \in {"complete", "error", "paused"}
Init ==
  /\ query \in Queries /\ step = "index" /\ samples = <<>> /\ cache = {} /\ used = 0 /\ late = FALSE
  /\ todo = {} /\ asked = {}
  /\ report = [status |-> "error", matches |-> {}, bitcoin |-> FALSE, sources |-> {},
               inspection |-> None, provider |-> None]

-----------------------------------------------------------------------------
(* Requests *)

Report(fields) == report' = fields @@ report
Source(kind, about) == {[kind |-> kind, about |-> about]}
With(source) == [sources |-> report.sources \cup source]
\* The limits stop a lookup before a request.  A request may fail.
Stopped == late \/ used = MaxRequests
\* The mutant: a request that is not limited.
RequestAnyway == used' = used + 1
Request == ~Stopped /\ used' = used + 1
\* A transaction is fetched once.
btc_transaction(t) ==
  IF t \in cache THEN UNCHANGED <<used, cache>> ELSE Request /\ cache' = cache \cup {t}
TimeIsUp ==
  /\ step # "ready" /\ ~late /\ late' = TRUE
  /\ UNCHANGED <<step, samples, cache, used, todo, asked, report>>

-----------------------------------------------------------------------------
(* The index, and what the explorer says of its channels *)

\* An answer names every channel once and only channels of the transaction.
_indexed_channels(answer) ==
  /\ \A c \in answer : IF c.role = "funding" THEN c.fund[1] = query ELSE c.closing = query
  /\ \A c, d \in answer : c # d => c.id # d.id /\ c.fund # d.fund
Sample ==
  /\ step = "index" /\ Len(samples) < Samples /\ Request
  /\ \E answer \in Answers : _indexed_channels(answer) /\ samples' = Append(samples, answer)
  /\ Report(With(Source("index", query)))
  /\ UNCHANGED <<step, cache, late, todo, asked>>
\* A channel found once outweighs empty answers; answers that contradict each
\* other fail.
Agreeing == \A a, b \in ToSet(samples) \ {{}} : a = b
_reconcile_index_samples ==
  /\ step = "index" /\ Len(samples) = Samples /\ Agreeing
  /\ step' = "query" /\ todo' = UNION ToSet(samples)
  /\ UNCHANGED <<samples, cache, used, late, asked, report>>
query_transaction ==
  /\ step = "query" /\ btc_transaction(query)
  /\ Report([bitcoin |-> TRUE] @@ With(Source("tx", query))) /\ step' = "channels"
  /\ UNCHANGED <<samples, late, todo, asked>>
_verify_funding(c) ==
  LET t == TxOf[c.fund[1]]
  IN  /\ c.fund[2] \in DOMAIN t.outs /\ t.outs[c.fund[2]] = c.value
      /\ t.height # 0 /\ t.height = c.height
_verify_closure(c) ==
  c.role = "closure" =>
    /\ Q.height # 0 => Q.height >= TxOf[c.fund[1]].height
    /\ Cardinality({i \in DOMAIN Q.ins : Q.ins[i] = c.fund}) = 1
Verified(c) == _verify_funding(c) /\ _verify_closure(c)
VerifyChannel ==
  /\ step = "channels" /\ ~late
  /\ \E c \in todo :
       /\ btc_transaction(c.fund[1]) /\ Report(With(Source("tx", c.fund[1])))
       /\ Verified(c) /\ todo' = todo \ {c}
  /\ UNCHANGED <<step, samples, late, asked>>
Complete ==
  /\ step = "channels" /\ todo = {} /\ ~late
  /\ Report([status |-> "complete", matches |-> UNION ToSet(samples)]) /\ step' = "inspect"
  /\ UNCHANGED <<samples, cache, used, late, todo, asked>>
\* Whatever went wrong here, the witnesses are inspected all the same.
IndexFails ==
  /\ step \in {"index", "query", "channels"} /\ step' = "inspect" /\ todo' = {}
  /\ \/ Stopped /\ UNCHANGED <<used, cache>> /\ Report([status |-> "paused"])
     \/ /\ step = "index" => Len(samples) < Samples
        /\ step = "channels" => \E c \in todo : c.fund[1] \notin cache
        /\ Request /\ UNCHANGED <<cache, report>>
     \/ step = "index" /\ Len(samples) = Samples /\ ~Agreeing /\ UNCHANGED <<used, cache, report>>
     \/ /\ step = "channels" /\ ~late
        /\ \E c \in todo :
             ~Verified(c) /\ btc_transaction(c.fund[1]) /\ Report(With(Source("tx", c.fund[1])))
  /\ UNCHANGED <<samples, late, asked>>

-----------------------------------------------------------------------------
(* The witnesses *)

Finding(role, index, status, spender) ==
  [role |-> role, index |-> index, status |-> status, spender |-> spender]
Inspected(fields) == Report([inspection |-> fields @@ report.inspection])
Partial == [status |-> "partial", reason |-> TRUE]
Limited(limited) == IF limited THEN Partial ELSE [status |-> "complete", reason |-> FALSE]
inspect_transaction ==
  /\ step = "inspect"
  /\ \/ /\ btc_transaction(query) /\ step' = "inputs" /\ todo' = DOMAIN Q.ins \cap 1..MaxInputs
        /\ LET counts == [totalIns |-> Len(Q.ins), totalOuts |-> Len(Q.outs)]
               limited == Limited(Len(Q.ins) > MaxInputs)
           IN  Report([bitcoin |-> TRUE, inspection |-> limited @@ counts @@ NoInspection]
                      @@ With(Source("tx", query)))
     \/ /\ query \notin cache /\ (Request \/ (Stopped /\ UNCHANGED used))
        /\ Report([inspection |-> NoInspection]) /\ step' = "swap" /\ UNCHANGED <<cache, todo>>
  /\ UNCHANGED <<samples, late, asked>>
inspect_input(entry) == IF Template[entry] = "bad" THEN "unavailable" ELSE Template[entry]
InspectInput ==
  /\ step = "inputs" /\ todo # {}
  /\ IF late THEN Inspected(Partial) /\ todo' = {}
     ELSE LET status == inspect_input(<<query, Min(todo)>>)
              found == [findings |-> report.inspection.findings \cup
                          {Finding("input", Min(todo), status, query)}]
          IN  /\ todo' = todo \ {Min(todo)}
              /\ IF status = "unavailable" THEN Inspected(Partial @@ found)
                 ELSE Inspected([ins |-> report.inspection.ins + 1] @@ found)
  /\ UNCHANGED <<step, samples, cache, used, late, asked>>
fetch_outspends ==
  /\ step = "inputs" /\ todo = {}
  /\ \/ /\ Request /\ Report(With(Source("outspends", query)))
        /\ step' = "outputs" /\ todo' = DOMAIN Q.outs \cap 1..MaxOutputs
     \/ /\ Request \/ (Stopped /\ UNCHANGED used)
        /\ Inspected(Partial) /\ step' = "swap" /\ UNCHANGED todo
  /\ UNCHANGED <<samples, cache, late, asked>>
\* An output that cannot be checked is named with what is known of its spender.
Output(status, spender, source) ==
  LET found == [findings |-> report.inspection.findings \cup
                  {Finding("output", Min(todo), status, spender)}]
      counted == [outs |-> report.inspection.outs + 1]
  IN  Report([inspection |-> (IF status = "unavailable" THEN Partial ELSE counted)
                             @@ found @@ report.inspection] @@ With(source))
InspectOutput ==
  /\ step = "outputs" /\ todo # {} /\ todo' = todo \ {Min(todo)}
  /\ LET spent == Q.spenders[Min(todo)]
         unavailable == Output("unavailable", IF late THEN None ELSE spent.tx, {})
     IN  IF late \/ spent.vin = 0
         THEN /\ IF late THEN unavailable ELSE Output("unspent", None, {})
              /\ UNCHANGED <<used, cache, asked>>
         ELSE IF spent.tx \notin asked /\ Cardinality(asked) = MaxSpenders
         THEN unavailable /\ UNCHANGED <<used, cache, asked>>
         ELSE /\ asked' = asked \cup {spent.tx}
              /\ \/ /\ btc_transaction(spent.tx)
                    /\ Output(inspect_input(<<spent.tx, spent.vin>>), spent.tx, Source("tx", spent.tx))
                 \/ /\ spent.tx \notin cache /\ (Request \/ (Stopped /\ UNCHANGED used))
                    /\ unavailable /\ UNCHANGED cache
  /\ UNCHANGED <<step, samples, late>>
EndInspection ==
  /\ step = "outputs" /\ todo = {} /\ step' = "swap"
  /\ IF Len(Q.outs) > MaxOutputs THEN Inspected(Partial) ELSE UNCHANGED report
  /\ UNCHANGED <<samples, cache, used, late, todo, asked>>

-----------------------------------------------------------------------------
(* The provider of a swap, if the user named one *)

Provider(status, tx, state) == [provider |-> [status |-> status, tx |-> tx, state |-> state]]
verify_boltz_swap ==
  /\ step = "swap"
  /\ \/ step' = "ready" /\ UNCHANGED <<used, report>>
     \/ /\ Request /\ step' = "swapState"
        /\ \E t \in Swaps :
             Report(Provider(IF t = query THEN "verified" ELSE "unmatched", t, FALSE)
                    @@ With(Source("swap", t)))
     \/ /\ Request \/ (Stopped /\ UNCHANGED used)
        /\ step' = "ready" /\ Report(Provider("unavailable", None, FALSE))
  /\ UNCHANGED <<samples, cache, late, todo, asked>>
SwapState ==
  /\ step = "swapState" /\ step' = "ready"
  /\ \/ /\ Request /\ Report([provider |-> [report.provider EXCEPT !.state = TRUE]]
                             @@ With(Source("state", report.provider.tx)))
     \/ (Request \/ (Stopped /\ UNCHANGED used)) /\ UNCHANGED report
  /\ UNCHANGED <<samples, cache, late, todo, asked>>

Next ==
  /\ UNCHANGED query
  /\ \/ TimeIsUp \/ Sample \/ _reconcile_index_samples \/ query_transaction \/ VerifyChannel
     \/ Complete \/ IndexFails \/ inspect_transaction \/ InspectInput \/ fetch_outspends
     \/ InspectOutput \/ EndInspection \/ verify_boltz_swap \/ SwapState
Spec == Init /\ [][Next]_vars

-----------------------------------------------------------------------------
(* The validation of a finished report *)

Has(kind, about) == Source(kind, about) \subseteq report.sources
Positive == {i \in DOMAIN samples : samples[i] # {}}
ValidMatches ==
  /\ \A c, d \in report.matches : c # d => c.id # d.id /\ c.fund # d.fund
  /\ \A c \in report.matches : Has("tx", c.fund[1]) /\ (c.role = "funding" => report.bitcoin)
  /\ IF report.status # "complete" THEN report.matches = {}
     ELSE /\ report.bitcoin /\ Has("index", query) /\ Has("tx", query) /\ Len(samples) = Samples
          /\ (report.matches # {}) = (Positive # {})
_validate_inspection(i) ==
  /\ i.ins <= Least(i.totalIns, MaxInputs) /\ i.outs <= Least(i.totalOuts, MaxOutputs)
  /\ \A f, g \in i.findings : f # g => f.role # g.role \/ f.index # g.index
  /\ \A f \in i.findings :
       /\ f.index <= (IF f.role = "input" THEN Least(i.totalIns, MaxInputs) ELSE Least(i.totalOuts, MaxOutputs))
       /\ f.status = "candidate" => f.spender # None
       /\ f.status = "unspent" => f.role = "output" /\ f.spender = None
       /\ f.status # "unavailable" =>
            /\ Has("tx", query)
            /\ f.role = "output" => Has("outspends", query) /\ (f.spender # None => Has("tx", f.spender))
  /\ IF i.status # "complete" THEN i.reason
     ELSE /\ i.ins = i.totalIns /\ i.outs = i.totalOuts /\ ~i.reason /\ Has("outspends", query)
          /\ \A f \in i.findings : f.status # "unavailable"
_validate_provider(p) ==
  \/ p = None
  \/ /\ IF p.status = "unavailable" THEN p.tx = None
        ELSE Has("swap", p.tx) /\ (p.status = "verified" <=> p.tx = query)
     /\ p.state => Has("state", p.tx)
validate_lightning_report ==
  /\ ValidMatches /\ Cardinality(report.sources) <= used
  /\ _validate_inspection(report.inspection) /\ _validate_provider(report.provider)

-----------------------------------------------------------------------------
\* What a lookup found is never thrown away by the validation of its own report,
\* wherever its requests or its time ran out.
ReportIsValid == step = "ready" => validate_lightning_report
\* A complete report has exactly the channels of every replica that knew any,
\* each as the Bitcoin chain has it, and says there are none only if every
\* replica was empty; one that is not complete has none.
MatchesAreTrue ==
  IF report.status = "complete"
  THEN /\ ToSet(samples) \subseteq {{}, report.matches} /\ Len(samples) = Samples
       /\ (report.matches # {} => report.matches \in ToSet(samples))
       /\ \A c \in report.matches : Verified(c)
  ELSE report.matches = {}
\* The index has no say in what the witnesses show: an inspection that had its
\* requests and time names every input and output within its limits, and calls
\* itself complete exactly if all could be checked.
InspectionIsIndependent ==
  step = "ready" /\ ~late /\ Has("outspends", query) =>
    LET i == report.inspection
        all == {<<"input", n>> : n \in DOMAIN Q.ins \cap 1..MaxInputs} \cup
               {<<"output", n>> : n \in DOMAIN Q.outs \cap 1..MaxOutputs}
    IN  /\ {<<f.role, f.index>> : f \in i.findings} = all
        /\ i.status = "complete" <=>
             /\ Len(Q.ins) <= MaxInputs /\ Len(Q.outs) <= MaxOutputs
             /\ \A f \in i.findings : f.status # "unavailable"
=============================================================================
