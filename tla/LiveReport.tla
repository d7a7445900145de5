----------------------------- MODULE LiveReport -----------------------------
(***************************************************************************)
(* What the results of a suite are reduced to: the metrics of              *)
(* LiveSuiteResult and the price of its tokens (evals/live_runner.py), and *)
(* the rows of the report (evals/live_report.py).  A pure module over a    *)
(* sequence of attempts; a rate is the pair of its two counts.             *)
(*                                                                         *)
(* Token counts and rates are small numbers.  A rate is in fractions of a  *)
(* dollar per million tokens, so that a price is in those fractions of a   *)
(* millionth of a dollar, to which the code rounds (six decimals).         *)
(***************************************************************************)
EXTENDS Naturals, FiniteSetsExt

CONSTANT RateScale  \* how many of the fractions make a dollar

ASSUME ScaleAssumption == RateScale \in Nat \ {0}

Verdicts == {"passed", "artifact_passed", "runtime_passed", "tool_contract_passed"}

TokenKinds == {"input", "output", "cache_creation", "cache_read"}

CountOf(attempts, Test(_)) == Cardinality({i \in DOMAIN attempts : Test(attempts[i])})

\* The sum of a number taken of every attempt.
SumOf(attempts, Number(_)) ==
    MapThenSumSet(LAMBDA i : Number(attempts[i]), DOMAIN attempts)

CaseNames(attempts) == {attempts[i].case_name : i \in DOMAIN attempts}

-----------------------------------------------------------------------------
(* Prices.  A rate that is not provided is the empty set.                   *)

\* The rate, or 0 where the code writes "or 0".
RateOrZero(rate) == IF rate = {} THEN 0 ELSE CHOOSE r \in rate : TRUE

\* Mutant: the client leaves the cached input out of the input.
ModelUsageAsReported(reported) == reported

\* The usage the Anthropic client makes of the reported one, in which the input is
\* what was not cached; the OpenAI client's is reported this way.
ModelUsage(reported) ==
    [reported EXCEPT !.input = @ + reported.cache_creation + reported.cache_read]

Uncached(usage) ==
    LET cached == usage.cache_creation + usage.cache_read
    IN  IF cached < usage.input THEN usage.input - cached ELSE 0

\* What the tokens cost before any rounding.
Price(pricing, usage) ==
    Uncached(usage) * RateOrZero(pricing.input)
    + usage.output * RateOrZero(pricing.output)
    + usage.cache_creation * RateOrZero(pricing.cache_creation)
    + usage.cache_read * RateOrZero(pricing.cache_read)

\* A cost that is a price but for the rounding of so many amounts, each by half a
\* millionth at most.
IsRounded(cost, price, amounts) ==
    /\ 2 * (cost * RateScale) <= 2 * price + amounts * RateScale
    /\ 2 * price <= 2 * (cost * RateScale) + amounts * RateScale

\* round(cost, 6): the nearest, and of two equally near ones either (the float
\* that stands for the price decides).
Rounded(price) == CHOOSE cost \in 0 .. price : IsRounded(cost, price, 1)

\* LivePricing.estimate_usd; {} is None.
EstimateUsd(pricing, usage) ==
    IF \/ pricing.input = {} \/ pricing.output = {}
       \/ \E kind \in {"cache_creation", "cache_read"} : usage[kind] > 0 /\ pricing[kind] = {}
    THEN {}
    ELSE {Rounded(Price(pricing, usage))}

TotalUsage(attempts) ==
    [kind \in TokenKinds |-> SumOf(attempts, LAMBDA attempt : attempt.usage[kind])]

\* The costs are rounded, so that rounding their sum again takes away only the
\* error of adding floats.
TotalEstimatedCost(attempts) ==
    IF \E i \in DOMAIN attempts : attempts[i].cost = {} THEN {}
    ELSE {SumOf(attempts, LAMBDA attempt : RateOrZero(attempt.cost))}

-----------------------------------------------------------------------------
(* Metrics and rows.                                                        *)

PassRate(attempts, verdict) ==
    <<CountOf(attempts, LAMBDA attempt : attempt[verdict]), Cardinality(DOMAIN attempts)>>

\* Mutant: a case passes if all its attempts do.
PassAtAll(attempts, verdict) ==
    LET failed == {attempts[i].case_name : i \in {j \in DOMAIN attempts : ~attempts[j][verdict]}}
    IN  <<Cardinality(CaseNames(attempts) \ failed), Cardinality(CaseNames(attempts))>>

\* _pass_at_k: the cases, by name, that have an attempt that passed.
PassAtK(attempts, verdict) ==
    LET passed == {attempts[i].case_name : i \in {j \in DOMAIN attempts : attempts[j][verdict]}}
    IN  <<Cardinality(passed), Cardinality(CaseNames(attempts))>>

\* The row of a case: how many of its attempts there are and passed.
Columns == Verdicts \cup {"attempts"}

CaseRow(attempts, name) ==
    [column \in Columns |->
        CountOf(attempts, LAMBDA attempt : attempt.case_name = name
                                           /\ (column = "attempts" \/ attempt[column]))]

\* The rows of the failure categories: those of attempts that did not pass.
FailureCounts(attempts) ==
    LET failures == {i \in DOMAIN attempts : ~attempts[i].passed}
    IN  [category \in {attempts[i].failure_category : i \in failures} |->
            Cardinality({i \in failures : attempts[i].failure_category = category})]

\* format_live_markdown_report.
Report(attempts) ==
    [attempts |-> Cardinality(DOMAIN attempts),
     rate     |-> [verdict \in Verdicts |-> PassRate(attempts, verdict)],
     at_k     |-> [verdict \in Verdicts |-> PassAtK(attempts, verdict)],
     usage    |-> TotalUsage(attempts),
     cost     |-> TotalEstimatedCost(attempts),
     cases    |-> [name \in CaseNames(attempts) |-> CaseRow(attempts, name)],
     failures |-> FailureCounts(attempts)]
=============================================================================
