---------------------------- MODULE LiveEvalProofs ----------------------------
(***************************************************************************)
(* Proofs about LiveEval for every set of plans, contexts and prices, any  *)
(* number of attempts and events, and every moment at which a suite may    *)
(* die or a write be cut short.                                            *)
(***************************************************************************)
EXTENDS LiveEval, TLAPS, FiniteSetTheorems, WellFoundedInduction

-----------------------------------------------------------------------------
(* The verdict on a run.                                                    *)

\* The category is that of the first condition that holds, and the last one does.
LEMMA CategoryIsTheFirst ==
    ASSUME NEW expected, NEW context, NEW assertions
    PROVE  \E i \in 1 .. 10 :
              /\ Category(expected, context, assertions)
                    = Reasons(expected, context, assertions)[i][1]
              /\ Reasons(expected, context, assertions)[i][2]
              /\ \A j \in 1 .. (i - 1) : ~Reasons(expected, context, assertions)[j][2]
<1> DEFINE reasons == Reasons(expected, context, assertions)
           First(i) == reasons[i][2] /\ \A j \in 1 .. (i - 1) : ~reasons[j][2]
<1>1. DOMAIN reasons = 1 .. 10 /\ reasons[10][2]
    BY DEF Reasons
<1> HIDE DEF reasons
<1>2. \E i \in 1 .. 10 : First(i)
    <2>1. ASSUME NEW n \in 0 .. 9, \A j \in 1 .. n : ~reasons[j][2], reasons[n + 1][2]
          PROVE  \E i \in 1 .. 10 : First(i)
        BY <2>1
    <2> QED
        BY <1>1, <2>1
<1>3. Category(expected, context, assertions)
        = reasons[CHOOSE i \in DOMAIN reasons : First(i)][1]
    BY DEF Category, reasons
<1> QED
    BY <1>1, <1>2, <1>3 DEF reasons

\* What the category says of the run.
LEMMA CategoryFacts ==
    ASSUME NEW expected, NEW context, NEW assertions
    PROVE  LET category == Category(expected, context, assertions)
           IN  /\ category \in FailureCategories
               /\ category = "none" <=> AllPassed(assertions)
               /\ category = "max_turns" => context.status = "max_turns"
               /\ ~AllPassed(assertions) /\ context.status = "failed" => category = "provider_error"
               /\ category = "policy_denied" => context.denials > 0
<1> DEFINE reasons == Reasons(expected, context, assertions)
<1>1. PICK i \in 1 .. 10 : /\ Category(expected, context, assertions) = reasons[i][1]
                           /\ reasons[i][2] /\ \A j \in 1 .. (i - 1) : ~reasons[j][2]
    BY CategoryIsTheFirst
<1>2. /\ reasons[1][1] = "none" /\ (reasons[1][2] <=> AllPassed(assertions))
      /\ reasons[2][1] = "max_turns" /\ (reasons[2][2] <=> context.status = "max_turns")
      /\ reasons[3][1] = "provider_error" /\ (reasons[3][2] <=> context.status = "failed")
      /\ reasons[4][1] = "policy_denied" /\ (reasons[4][2] <=> context.denials > 0)
    BY DEF Reasons
<1>3. /\ reasons[5][1] = "wrong_tool_arguments" /\ reasons[6][1] = "tool_contract_error"
      /\ reasons[7][1] = "tool_error" /\ reasons[8][1] = "tool_error"
      /\ reasons[9][1] = "test_failure" /\ reasons[10][1] = "model_planning_error"
    BY DEF Reasons
<1> HIDE DEF reasons
<1>4. i # 1 => ~AllPassed(assertions)
    BY <1>1, <1>2
<1>5. i = 1 \/ i = 2 \/ i = 3 \/ i = 4 \/ i = 5 \/ i = 6 \/ i = 7 \/ i = 8 \/ i = 9 \/ i = 10
    OBVIOUS
<1>6. i \in 4 .. 10 => context.status # "failed"
    <2>1. i \in 4 .. 10 => ~reasons[3][2]
        BY <1>1
    <2> QED
        BY <1>2, <2>1
<1> DEFINE category == Category(expected, context, assertions)
<1>7. CASE i = 1
    BY <1>1, <1>2, <1>7 DEF FailureCategories
<1>8. CASE i = 2
    <2>1. category = "max_turns" /\ context.status = "max_turns"
        BY <1>1, <1>2, <1>8
    <2> QED
        BY <2>1, <1>4, <1>8 DEF FailureCategories
<1>9. CASE i = 3
    BY <1>1, <1>2, <1>4, <1>9 DEF FailureCategories
<1>10. CASE i = 4
    <2>1. category = "policy_denied" /\ context.denials > 0
        BY <1>1, <1>2, <1>10
    <2> QED
        BY <2>1, <1>4, <1>6, <1>10 DEF FailureCategories
<1>11. CASE i \in 5 .. 10
    <2>1. category \in FailureCategories \ {"none", "max_turns", "provider_error", "policy_denied"}
        BY <1>1, <1>3, <1>5, <1>11 DEF FailureCategories
    <2>2. ~AllPassed(assertions) /\ context.status # "failed"
        BY <1>4, <1>6, <1>11
    <2> QED
        BY <2>1, <2>2
<1> QED
    BY <1>5, <1>7, <1>8, <1>9, <1>10, <1>11

\* Without a replay expectation every assertion belongs to one of the three groups.
LEMMA EveryAssertionHasAGroup ==
    ASSUME NEW expected, NEW context, expected.replay = {},
           NEW assertion \in Assertions(expected, context)
    PROVE  assertion.evaluator \in
              ARTIFACT_EVALUATORS \cup RUNTIME_EVALUATORS \cup TOOL_CONTRACT_EVALUATORS
<1>1. ReplayAssertions(expected, context) = {}
    BY DEF ReplayAssertions
<1>2. \A name, passed : Assertion(name, passed).evaluator = name
    BY DEF Assertion
<1>3. CASE assertion \in ArtifactAssertions(expected, context)
    BY <1>2, <1>3 DEF ArtifactAssertions, ARTIFACT_EVALUATORS
<1>4. CASE assertion \in RuntimeAssertions(expected, context)
    BY <1>2, <1>4 DEF RuntimeAssertions, RUNTIME_EVALUATORS
<1>5. CASE assertion \in CallAssertions(expected, context)
    <2>1. \/ \E tool : assertion = Assertion("ToolCalled", Called(tool, context))
          \/ \E tools : assertion = Assertion("ToolCalledAny",
                                              \E tool \in tools : Called(tool, context))
          \/ \E tool : assertion = Assertion("ToolNotCalled", ~Called(tool, context))
          \/ \E maximum : assertion = Assertion("MaxToolCalls",
                                                Len(context.tool_results) <= maximum)
        BY <1>5, Zenon DEF CallAssertions
    <2>2. assertion.evaluator \in {"ToolCalled", "ToolCalledAny", "ToolNotCalled", "MaxToolCalls"}
        BY <2>1 DEF Assertion
    <2> QED
        BY <2>2 DEF TOOL_CONTRACT_EVALUATORS
<1>6. CASE assertion \in OutcomeAssertions(expected, context)
    <2>1. \/ \E item : assertion = Assertion("PolicyDecisionEquals", item \in context.decisions)
          \/ \E tool : assertion = Assertion("ToolOutputTruncated",
                \E i \in ResultsOf(tool, context) : context.tool_results[i].truncated)
          \/ \E tool : assertion = Assertion("ToolStatusEquals",
                \E i \in ResultsOf(tool, context) :
                   context.tool_results[i].status = expected.tool_status_equals[tool])
        BY <1>6, Zenon DEF OutcomeAssertions
    <2>2. assertion.evaluator \in {"PolicyDecisionEquals", "ToolOutputTruncated", "ToolStatusEquals"}
        BY <2>1 DEF Assertion
    <2> QED
        BY <2>2 DEF TOOL_CONTRACT_EVALUATORS
<1> QED
    BY <1>1, <1>3, <1>4, <1>5, <1>6 DEF Assertions

\* What the verdict on a run says of it.
LEMMA VerdictFacts ==
    ASSUME NEW expected, NEW context, expected.replay = {}
    PROVE  LET verdict == Verdict(expected, context)
           IN  /\ verdict.passed \in BOOLEAN /\ verdict.artifact_passed \in BOOLEAN
               /\ verdict.runtime_passed \in BOOLEAN
               /\ verdict.tool_contract_passed \in BOOLEAN
               /\ verdict.failure_category \in FailureCategories
               /\ verdict.passed <=> /\ verdict.artifact_passed
                                     /\ verdict.runtime_passed
                                     /\ verdict.tool_contract_passed
               /\ verdict.passed <=> verdict.failure_category = "none"
               /\ verdict.failure_category = "max_turns" => context.status = "max_turns"
               /\ ~verdict.passed /\ context.status = "failed" =>
                     verdict.failure_category = "provider_error"
               /\ verdict.failure_category = "policy_denied" => context.denials > 0
               /\ verdict.passed /\ expected.policy_decision_equals # {} => context.decisions # {}
<1> DEFINE assertions == Assertions(expected, context)
           verdict == Verdict(expected, context)
<1>1. /\ verdict.passed <=> AllPassed(assertions)
      /\ verdict.artifact_passed <=> GroupPassed(assertions, ARTIFACT_EVALUATORS)
      /\ verdict.runtime_passed <=> GroupPassed(assertions, RUNTIME_EVALUATORS)
      /\ verdict.tool_contract_passed <=> GroupPassed(assertions, TOOL_CONTRACT_EVALUATORS)
      /\ verdict.failure_category = Category(expected, context, assertions)
    BY DEF Verdict
<1>2. /\ verdict.passed \in BOOLEAN /\ verdict.artifact_passed \in BOOLEAN
      /\ verdict.runtime_passed \in BOOLEAN /\ verdict.tool_contract_passed \in BOOLEAN
    BY DEF Verdict, AllPassed, GroupPassed
<1>3. AllPassed(assertions) <=> /\ GroupPassed(assertions, ARTIFACT_EVALUATORS)
                                /\ GroupPassed(assertions, RUNTIME_EVALUATORS)
                                /\ GroupPassed(assertions, TOOL_CONTRACT_EVALUATORS)
    BY EveryAssertionHasAGroup DEF AllPassed, GroupPassed
<1>4. ASSUME AllPassed(assertions), expected.policy_decision_equals # {}
      PROVE  context.decisions # {}
    <2>1. PICK item \in expected.policy_decision_equals : TRUE
        BY <1>4
    <2>2. Assertion("PolicyDecisionEquals", item \in context.decisions) \in assertions
        BY <2>1 DEF Assertions, OutcomeAssertions
    <2>3. Assertion("PolicyDecisionEquals", item \in context.decisions).passed
        BY <2>2, <1>4 DEF AllPassed
    <2> QED
        BY <2>3 DEF Assertion
<1> HIDE DEF assertions, verdict
<1>5. LET category == Category(expected, context, assertions)
      IN  /\ category \in FailureCategories
          /\ category = "none" <=> AllPassed(assertions)
          /\ category = "max_turns" => context.status = "max_turns"
          /\ ~AllPassed(assertions) /\ context.status = "failed" => category = "provider_error"
          /\ category = "policy_denied" => context.denials > 0
    BY CategoryFacts
<1>6. verdict.passed <=> /\ verdict.artifact_passed
                         /\ verdict.runtime_passed
                         /\ verdict.tool_contract_passed
    BY <1>1, <1>3
<1>7. verdict.passed <=> verdict.failure_category = "none"
    BY <1>1, <1>5
<1>8. verdict.passed /\ expected.policy_decision_equals # {} => context.decisions # {}
    BY <1>1, <1>4
<1> QED
    BY <1>1, <1>2, <1>5, <1>6, <1>7, <1>8 DEF verdict

-----------------------------------------------------------------------------
(* Places in a suite.                                                       *)

\* Where a quotient by a positive number lies.
LEMMA Quotient ==
    ASSUME NEW n \in Nat, NEW d \in Nat \ {0}, NEW m \in Nat, n < m * d
    PROVE  n \div d \in 0 .. (m - 1) /\ n % d \in 0 .. (d - 1)
<1>1. PICK q \in Int : q = n \div d
    OBVIOUS
<1>2. n % d \in 0 .. (d - 1)
    OBVIOUS
<1>3. d * q <= n /\ q \in Nat
    BY <1>1
<1>4. ASSUME m <= q PROVE FALSE
    <2>1. PICK k \in Nat : q = m + k
        BY <1>2, <1>4
    <2>2. d * q = d * m + d * k /\ d * k \in Nat /\ d * m = m * d /\ d * q \in Nat /\ m * d \in Nat
        BY <2>1, <1>3
    <2> QED
        BY <2>2, <1>3
<1> QED
    BY <1>1, <1>2, <1>3, <1>4

\* Every position of a suite is that of an attempt of one of its cases.
LEMMA Positions ==
    ASSUME plan \in Plans
    PROVE  /\ plan.suites \in Nat
           /\ Total \in Nat \ {0}
           /\ \A p \in 1 .. Total : /\ CaseAt(p).expected.replay = {}
                                   /\ Slot(p)[2] \in 1 .. RunsPerCase
                                   /\ Slot(p) = <<CaseAt(p).name, Slot(p)[2]>>
                                   /\ Slot(p) \in Slots
<1>1. /\ plan.suites \in Nat
      /\ Len(plan.cases) \in Nat \ {0} /\ DOMAIN plan.cases = 1 .. Len(plan.cases)
      /\ \A i \in DOMAIN plan.cases : plan.cases[i].expected.replay = {}
    BY PlansAssumption
<1>2. RunsPerCase \in Nat \ {0}
    BY RunsAssumption
<1>3. Total \in Nat \ {0}
    BY <1>1, <1>2 DEF Total
<1>4. ASSUME NEW p \in 1 .. Total
      PROVE  /\ CaseAt(p).expected.replay = {}
             /\ Slot(p)[2] \in 1 .. RunsPerCase
             /\ Slot(p) = <<CaseAt(p).name, Slot(p)[2]>>
             /\ Slot(p) \in Slots
    <2>1. p - 1 \in Nat /\ p - 1 < Len(plan.cases) * RunsPerCase
        BY <1>1, <1>2, <1>3 DEF Total
    <2>2. /\ (p - 1) \div RunsPerCase \in 0 .. (Len(plan.cases) - 1)
          /\ (p - 1) % RunsPerCase \in 0 .. (RunsPerCase - 1)
        BY <1>1, <1>2, <2>1, Quotient
    <2>3. 1 + ((p - 1) \div RunsPerCase) \in DOMAIN plan.cases
        BY <1>1, <2>2
    <2>4. CaseAt(p).expected.replay = {}
        BY <1>1, <2>3 DEF CaseAt
    <2>5. Slot(p)[2] \in 1 .. RunsPerCase /\ Slot(p) = <<CaseAt(p).name, Slot(p)[2]>>
        BY <1>2, <2>2 DEF Slot
    <2> QED
        BY <2>4, <2>5 DEF Slots
<1> QED
    BY <1>1, <1>3, <1>4

-----------------------------------------------------------------------------
(* Trace files.                                                             *)

File == [counts : Tally, tail : Kinds \cup {"ended", "torn"}, damaged : BOOLEAN]

\* One more event of a kind.
OneMore(tally, kind) == IF kind \in Counted THEN [tally EXCEPT ![kind] = @ + 1] ELSE tally

\* A tally is a number of responses and one of denied calls.
LEMMA TallyFacts ==
    ASSUME NEW tally \in Tally
    PROVE  /\ tally["response"] \in Nat /\ tally["denial"] \in Nat
           /\ \A kind : OneMore(tally, kind) \in Tally
           /\ None \in Tally
<1>1. \A kind \in Counted : tally[kind] \in Nat
    BY DEF Tally
<1>2. tally["response"] \in Nat /\ tally["denial"] \in Nat
    BY <1>1 DEF Counted
<1>3. ASSUME NEW kind PROVE OneMore(tally, kind) \in Tally
    BY <1>1 DEF OneMore, Tally
<1> QED
    BY <1>2, <1>3 DEF None, Tally

\* A line that is appended ends the file; it damages one whose last line was cut short.
LEMMA ExtendedFile ==
    ASSUME NEW file \in File, NEW kind \in Kinds
    PROVE  /\ Extended(file, kind) \in File
           /\ Extended(file, kind).tail = "ended"
           /\ Extended(file, kind).damaged <=> file.damaged \/ file.tail # "ended"
           /\ file.tail = "ended" => Extended(file, kind).counts = OneMore(file.counts, kind)
<1>1. /\ file.counts \in Tally /\ file.tail \in Kinds \cup {"ended", "torn"}
      /\ file.damaged \in BOOLEAN
    BY DEF File
<1>2. CASE file.tail # "ended"
    BY <1>1, <1>2 DEF Extended, File
<1>3. CASE file.tail = "ended" /\ kind \in Counted
    <2>1. Extended(file, kind) = [file EXCEPT !.counts = OneMore(file.counts, kind)]
        BY <1>3 DEF Extended, OneMore, File
    <2>2. OneMore(file.counts, kind) \in Tally
        BY <1>1, TallyFacts
    <2> QED
        BY <1>1, <1>3, <2>1, <2>2 DEF File
<1>4. CASE file.tail = "ended" /\ kind \notin Counted
    BY <1>1, <1>4 DEF Extended, OneMore, File
<1> QED
    BY <1>2, <1>3, <1>4

\* What a write cut short leaves: it mends nothing, and what can still be read of it is
\* the file as it was or with the one event more.
LEMMA CutShortFile ==
    ASSUME NEW file \in File, NEW kind \in Kinds, NEW left \in CutShort(file, kind)
    PROVE  /\ left \in File
           /\ file.damaged => left.damaged
           /\ left.tail = "ended" =>
                 \/ left = file
                 \/ left = Extended(file, kind)
<1>1. /\ file.counts \in Tally /\ file.tail \in Kinds \cup {"ended", "torn"}
      /\ file.damaged \in BOOLEAN
    BY DEF File
<1>2. CASE left = file
    BY <1>2
<1>3. CASE left = [file EXCEPT !.tail = "torn"]
    BY <1>1, <1>3 DEF File
<1>4. CASE left = Extended(file, kind)
    BY <1>1, <1>4, ExtendedFile
<1>5. CASE left = [file EXCEPT !.tail = kind]
    BY <1>1, <1>5 DEF File, Kinds, Counted
<1> QED
    BY <1>2, <1>3, <1>4, <1>5 DEF CutShort

\* The events of a file, and those of a file whose last line has been ended.
LEMMA EventsFacts ==
    ASSUME NEW file \in File
    PROVE  /\ Events(file) \in Tally
           /\ file.tail = "ended" => Events(file) = file.counts
<1>1. file.counts \in Tally
    BY DEF File
<1>2. \A kind \in Counted : file.counts[kind] \in Nat
    BY <1>1 DEF Tally
<1>3. Events(file) \in Tally
    BY <1>2 DEF Events, Tally
<1>4. ASSUME file.tail = "ended" PROVE Events(file) = file.counts
    <2>1. \A kind \in Counted : file.tail # kind
        BY <1>4 DEF Counted
    <2>2. Events(file) = [kind \in Counted |-> file.counts[kind]]
        BY <1>2, <2>1 DEF Events
    <2> QED
        BY <1>1, <2>2 DEF Tally
<1> QED
    BY <1>3, <1>4

-----------------------------------------------------------------------------
(* Sums.                                                                    *)

\* Every set of numbers that is not empty has a least one.
LEMMA Least ==
    ASSUME NEW S, S \subseteq Nat, S # {}
    PROVE  \E least \in S : \A i \in S : least <= i
<1>1. PICK least \in S : \A i \in S : ~(<<i, least>> \in OpToRel(<, Nat))
    BY NatLessThanWellFounded, WFMin
<1>2. \A i \in S : ~(i < least)
    BY <1>1 DEF OpToRel
<1> QED
    BY <1>2

\* The element a sum takes first.
FirstOf(s) == CHOOSE x \in s : TRUE

\* The sums of a weight over the subsets of a set, as MapThenSumSet takes them.
Sums(h, weight, T) ==
    h = [s \in SUBSET T |-> IF s = {} THEN 0 ELSE weight[FirstOf(s)] + h[s \ {FirstOf(s)}]]

\* Sums in whatever order.
AddsUp(h, weight, T) ==
    /\ h \in [SUBSET T -> Nat] /\ h[{}] = 0
    /\ \A s \in SUBSET T : \A x \in s : h[s] = weight[x] + h[s \ {x}]

\* One element less.
LEMMA Without ==
    ASSUME NEW T, IsFiniteSet(T), NEW s \in SUBSET T
    PROVE  /\ Cardinality(s) \in Nat
           /\ s # {} => FirstOf(s) \in s
           /\ \A x \in s : /\ s \ {x} \in SUBSET T
                           /\ Cardinality(s \ {x}) = Cardinality(s) - 1
<1>1. IsFiniteSet(s)
    BY FS_Subset
<1>2. Cardinality(s) \in Nat
    BY <1>1, FS_CardinalityType
<1>3. \A x \in s : Cardinality(s \ {x}) = Cardinality(s) - 1
    BY <1>1, FS_RemoveElement
<1>4. s # {} => FirstOf(s) \in s
    BY DEF FirstOf
<1> QED
    BY <1>2, <1>3, <1>4

\* There are such sums over every finite set.
LEMMA SumsExist ==
    ASSUME NEW T, IsFiniteSet(T), NEW weight \in [T -> Nat]
    PROVE  \E h : Sums(h, weight, T)
<1> DEFINE Upto(n, h) ==
              /\ h \in [SUBSET T -> Nat]
              /\ \A s \in SUBSET T : Cardinality(s) <= n =>
                    h[s] = IF s = {} THEN 0 ELSE weight[FirstOf(s)] + h[s \ {FirstOf(s)}]
           bad == {n \in Nat : ~ \E h : Upto(n, h)}
<1>1. Cardinality(T) \in Nat
    BY FS_CardinalityType
<1>2. bad = {}
    <2> SUFFICES ASSUME bad # {} PROVE FALSE
        OBVIOUS
    <2>1. PICK n \in bad : \A i \in bad : n <= i
        <3>1. bad \subseteq Nat
            OBVIOUS
        <3> HIDE DEF bad
        <3> QED
            BY <3>1, Least
    <2>2. n # 0
        <3> DEFINE none == [s \in SUBSET T |-> 0]
        <3>1. \A s \in SUBSET T : Cardinality(s) <= 0 => s = {}
            <4> SUFFICES ASSUME NEW s \in SUBSET T, Cardinality(s) <= 0 PROVE s = {}
                OBVIOUS
            <4>1. IsFiniteSet(s) /\ Cardinality(s) \in Nat
                BY FS_Subset, Without
            <4> QED
                BY <4>1, FS_EmptySet
        <3>2. Upto(0, none)
            BY <3>1
        <3>3. 0 \notin bad
            BY <3>2
        <3> QED
            BY <2>1, <3>3
    <2>3. n \in Nat \ {0} /\ n - 1 \in Nat /\ n - 1 \notin bad
        <3>1. n \in Nat \ {0} /\ n - 1 \in Nat /\ ~(n <= n - 1)
            BY <2>1, <2>2
        <3> QED
            BY <2>1, <3>1
    <2>4. PICK h : Upto(n - 1, h)
        BY <2>3
    <2> DEFINE next == [s \in SUBSET T |->
                          IF Cardinality(s) <= n - 1 THEN h[s]
                          ELSE IF s = {} THEN 0 ELSE weight[FirstOf(s)] + h[s \ {FirstOf(s)}]]
    <2>5. next \in [SUBSET T -> Nat]
        <3>1. ASSUME NEW s \in SUBSET T, s # {}
              PROVE  weight[FirstOf(s)] + h[s \ {FirstOf(s)}] \in Nat
            <4>1. FirstOf(s) \in s /\ s \ {FirstOf(s)} \in SUBSET T
                BY <3>1, Without
            <4>2. weight[FirstOf(s)] \in Nat /\ h[s \ {FirstOf(s)}] \in Nat
                BY <2>4, <4>1
            <4> QED
                BY <4>2
        <3>2. \A s \in SUBSET T : h[s] \in Nat
            BY <2>4
        <3> QED
            BY <3>1, <3>2
    <2>6. ASSUME NEW s \in SUBSET T, Cardinality(s) <= n
          PROVE  next[s] = IF s = {} THEN 0 ELSE weight[FirstOf(s)] + next[s \ {FirstOf(s)}]
        <3>1. CASE s = {}
            <4>1. Cardinality(s) = 0
                BY <3>1, FS_EmptySet
            <4>2. h[s] = 0
                BY <2>3, <2>4, <3>1, <4>1
            <4> QED
                BY <3>1, <4>2
        <3>2. CASE s # {}
            <4>1. /\ FirstOf(s) \in s /\ s \ {FirstOf(s)} \in SUBSET T
                  /\ Cardinality(s \ {FirstOf(s)}) = Cardinality(s) - 1 /\ Cardinality(s) \in Nat
                BY <3>2, Without
            <4>2. Cardinality(s \ {FirstOf(s)}) <= n - 1
                BY <2>3, <2>6, <4>1
            <4>3. next[s \ {FirstOf(s)}] = h[s \ {FirstOf(s)}]
                BY <4>1, <4>2
            <4>4. next[s] = weight[FirstOf(s)] + h[s \ {FirstOf(s)}]
                BY <2>4, <3>2
            <4> QED
                BY <3>2, <4>3, <4>4
        <3> QED
            BY <3>1, <3>2
    <2> HIDE DEF next
    <2>7. Upto(n, next)
        BY <2>5, <2>6
    <2> QED
        BY <2>1, <2>7
<1>3. PICK h : Upto(Cardinality(T), h)
    BY <1>1, <1>2
<1>4. \A s \in SUBSET T : Cardinality(s) <= Cardinality(T)
    BY FS_Subset
<1>5. \A s \in SUBSET T :
          h[s] = IF s = {} THEN 0 ELSE weight[FirstOf(s)] + h[s \ {FirstOf(s)}]
    BY <1>3, <1>4
<1>6. h \in [SUBSET T -> Nat]
    BY <1>3
<1> HIDE DEF Upto
<1>7. Sums(h, weight, T)
    BY <1>5, <1>6 DEF Sums
<1> QED
    BY <1>7

\* The order in which they are taken makes no difference.
LEMMA SumsAddUp ==
    ASSUME NEW T, IsFiniteSet(T), NEW weight \in [T -> Nat], NEW h, Sums(h, weight, T)
    PROVE  AddsUp(h, weight, T)
<1> DEFINE Holds(s) == h[s] \in Nat /\ \A x \in s : h[s] = weight[x] + h[s \ {x}]
           bad == {s \in SUBSET T : ~Holds(s)}
           sizes == {Cardinality(s) : s \in bad}
<1>1. /\ DOMAIN h = SUBSET T
      /\ h = [s \in SUBSET T |-> h[s]]
      /\ \A s \in SUBSET T : h[s] = IF s = {} THEN 0 ELSE weight[FirstOf(s)] + h[s \ {FirstOf(s)}]
    BY DEF Sums
<1>2. ASSUME NEW s \in SUBSET T, \A t \in SUBSET T : Cardinality(t) < Cardinality(s) => Holds(t)
      PROVE  Holds(s)
    <2>1. CASE s = {}
        <3>1. h[s] = 0
            BY <1>1, <2>1
        <3> QED
            BY <2>1, <3>1
    <2>2. CASE s # {}
        <3>1. PICK first : first = FirstOf(s)
            OBVIOUS
        <3>2. /\ first \in s /\ Cardinality(s) \in Nat
              /\ \A x \in s : /\ s \ {x} \in SUBSET T
                              /\ Cardinality(s \ {x}) = Cardinality(s) - 1
            BY <2>2, <3>1, Without
        <3>3. \A x \in s : Holds(s \ {x})
            BY <1>2, <3>2
        <3>4. h[s] = weight[first] + h[s \ {first}]
            BY <1>1, <2>2, <3>1
        <3>5. \A x \in s : weight[x] \in Nat /\ h[s \ {x}] \in Nat
            BY <3>3
        <3>6. h[s] \in Nat
            BY <3>2, <3>4, <3>5
        <3>7. ASSUME NEW x \in s, x # first PROVE h[s] = weight[x] + h[s \ {x}]
            <4>1. PICK rest : rest = (s \ {x}) \ {first}
                OBVIOUS
            <4>2. rest = (s \ {first}) \ {x} /\ first \in s \ {x} /\ x \in s \ {first}
                BY <3>2, <3>7, <4>1
            <4>3. h[s \ {first}] = weight[x] + h[rest]
                BY <3>2, <3>3, <4>2
            <4>4. h[s \ {x}] = weight[first] + h[rest]
                BY <3>3, <4>1, <4>2
            <4>5. rest \in SUBSET T /\ Cardinality(s \ {x}) < Cardinality(s)
                BY <3>2, <4>1
            <4>6. Cardinality(rest) < Cardinality(s)
                <5>1. Cardinality(rest) = Cardinality(s \ {x}) - 1
                    BY <3>2, <4>1, <4>2, Without
                <5> QED
                    BY <3>2, <5>1
            <4>7. h[rest] \in Nat
                BY <1>2, <4>5, <4>6
            <4> QED
                BY <3>2, <3>4, <3>5, <4>3, <4>4, <4>7
        <3> QED
            BY <3>4, <3>6, <3>7
    <2> QED
        BY <2>1, <2>2
<1>3. bad = {}
    <2> SUFFICES ASSUME bad # {} PROVE FALSE
        OBVIOUS
    <2>1. sizes \subseteq Nat /\ sizes # {}
        <3>1. \A s \in bad : Cardinality(s) \in Nat
            BY Without
        <3> QED
            BY <3>1
    <2>2. PICK n \in sizes : \A i \in sizes : n <= i
        <3> HIDE DEF sizes
        <3> QED
            BY <2>1, Least
    <2>3. PICK s \in bad : Cardinality(s) = n
        BY <2>2
    <2>4. ASSUME NEW t \in SUBSET T, Cardinality(t) < Cardinality(s) PROVE t \notin bad
        <3>1. t \in bad => Cardinality(s) <= Cardinality(t)
            BY <2>2, <2>3
        <3>2. Cardinality(s) \in Nat /\ Cardinality(t) \in Nat
            BY Without
        <3> QED
            BY <2>4, <3>1, <3>2
    <2> QED
        BY <1>2, <2>3, <2>4
<1>4. \A s \in SUBSET T : Holds(s)
    BY <1>3
<1>5. h \in [SUBSET T -> Nat]
    BY <1>1, <1>4
<1>6. h[{}] = 0
    BY <1>1
<1> QED
    BY <1>4, <1>5, <1>6 DEF AddsUp

\* Two sums of the same weight are equal.
LEMMA OneSum ==
    ASSUME NEW T, IsFiniteSet(T), NEW weight, NEW g, NEW h,
           AddsUp(g, weight, T), AddsUp(h, weight, T)
    PROVE  \A s \in SUBSET T : g[s] = h[s]
<1> DEFINE bad == {s \in SUBSET T : g[s] # h[s]}
           sizes == {Cardinality(s) : s \in bad}
<1> SUFFICES ASSUME bad # {} PROVE FALSE
    OBVIOUS
<1>1. sizes \subseteq Nat /\ sizes # {}
    BY Without
<1>2. PICK n \in sizes : \A i \in sizes : n <= i
    <2> HIDE DEF sizes
    <2> QED
        BY <1>1, Least
<1>3. PICK s \in bad : Cardinality(s) = n
    BY <1>2
<1>4. s # {}
    BY <1>3 DEF AddsUp
<1>5. PICK x \in s : TRUE
    BY <1>4
<1>6. s \ {x} \in SUBSET T /\ Cardinality(s \ {x}) = Cardinality(s) - 1 /\ Cardinality(s) \in Nat
    BY <1>3, <1>5, Without
<1>7. s \ {x} \notin bad
    <2>1. s \ {x} \in bad => Cardinality(s) <= Cardinality(s \ {x})
        BY <1>2, <1>3
    <2> QED
        BY <1>6, <2>1
<1>8. g[s \ {x}] = h[s \ {x}]
    BY <1>6, <1>7
<1> QED
    BY <1>3, <1>5, <1>6, <1>8 DEF AddsUp

-----------------------------------------------------------------------------
(* Usage and price.                                                         *)

\* The kinds of token by name.
LEMMA TokenTypes ==
    ASSUME NEW usage \in [TokenKinds -> Nat]
    PROVE  /\ usage.input \in Nat /\ usage.output \in Nat
           /\ usage.cache_creation \in Nat /\ usage.cache_read \in Nat
<1>1. /\ "input" \in TokenKinds /\ "output" \in TokenKinds
      /\ "cache_creation" \in TokenKinds /\ "cache_read" \in TokenKinds
    BY DEF TokenKinds
<1>2. /\ usage["input"] \in Nat /\ usage["output"] \in Nat
      /\ usage["cache_creation"] \in Nat /\ usage["cache_read"] \in Nat
    BY <1>1
<1> QED
    BY <1>2

\* The client adds the cached tokens to the input.
LEMMA ModelUsageFacts ==
    /\ ModelUsage(Reported) \in [TokenKinds -> Nat]
    /\ ModelUsage(Reported)["input"]
          = Reported.input + Reported.cache_creation + Reported.cache_read
    /\ \A kind \in TokenKinds \ {"input"} : ModelUsage(Reported)[kind] = Reported[kind]
<1>1. PICK more : more = Reported.input + Reported.cache_creation + Reported.cache_read
    OBVIOUS
<1>2. more \in Nat
    BY <1>1, TokenTypes, UsageAssumption
<1>3. ModelUsage(Reported) = [Reported EXCEPT !["input"] = more]
    BY <1>1 DEF ModelUsage
<1>4. "input" \in TokenKinds
    BY DEF TokenKinds
<1>5. /\ [Reported EXCEPT !["input"] = more] \in [TokenKinds -> Nat]
      /\ [Reported EXCEPT !["input"] = more]["input"] = more
      /\ \A kind \in TokenKinds \ {"input"} :
            [Reported EXCEPT !["input"] = more][kind] = Reported[kind]
    BY <1>2, <1>4, UsageAssumption
<1> QED
    BY <1>1, <1>3, <1>5

\* The usage of any number of events.
LEMMA UsageType ==
    ASSUME NEW events \in Tally
    PROVE  UsageOf(events) \in [TokenKinds -> Nat]
<1>1. \A kind \in TokenKinds : ModelUsage(Reported)[kind] \in Nat
    BY ModelUsageFacts
<1>2. events["response"] \in Nat
    BY TallyFacts
<1>3. \A kind \in TokenKinds : events["response"] * ModelUsage(Reported)[kind] \in Nat
    BY <1>1, <1>2
<1> QED
    BY <1>3 DEF UsageOf

\* A rate is a number, none that is not provided.
LEMMA RateType == \A kind \in TokenKinds : RateOrZero(Pricing[kind]) \in Nat
<1> SUFFICES ASSUME NEW kind \in TokenKinds PROVE RateOrZero(Pricing[kind]) \in Nat
    OBVIOUS
<1>1. Pricing[kind] \in SUBSET Nat
    BY PricingAssumption
<1> QED
    BY <1>1 DEF RateOrZero

\* The rates by name.
LEMMA Rates ==
    /\ RateOrZero(Pricing.input) \in Nat /\ RateOrZero(Pricing.output) \in Nat
    /\ RateOrZero(Pricing.cache_creation) \in Nat /\ RateOrZero(Pricing.cache_read) \in Nat
<1>1. /\ "input" \in TokenKinds /\ "output" \in TokenKinds
      /\ "cache_creation" \in TokenKinds /\ "cache_read" \in TokenKinds
    BY DEF TokenKinds
<1>2. /\ RateOrZero(Pricing["input"]) \in Nat /\ RateOrZero(Pricing["output"]) \in Nat
      /\ RateOrZero(Pricing["cache_creation"]) \in Nat
      /\ RateOrZero(Pricing["cache_read"]) \in Nat
    BY <1>1, RateType
<1> QED
    BY <1>2

\* A price can be rounded, up or down.
LEMMA RoundedFacts ==
    ASSUME NEW price \in Nat
    PROVE  Rounded(price) \in Nat /\ IsRounded(Rounded(price), price, 1)
<1>1. PICK u \in Nat \ {0} : u = RateScale
    BY ScaleAssumption
<1>2. PICK q \in Nat, r \in 0 .. (u - 1) : price = q * u + r
    <2>1. PICK q, r \in Int : q = price \div u /\ r = price % u
        OBVIOUS
    <2>2. r \in 0 .. (u - 1) /\ price = u * q + r /\ u * q = q * u
        BY <2>1
    <2>3. u * q <= price /\ q \in Nat
        BY <2>1, <2>2
    <2> QED
        BY <2>2, <2>3
<1>3. (q + 1) * u = q * u + u /\ q * u \in Nat /\ q <= q * u
    <2>1. PICK v \in Nat : u = v + 1
        BY <1>1
    <2>2. q * (v + 1) = q * v + q /\ q * v \in Nat
        OBVIOUS
    <2>3. (q + 1) * u = q * u + u /\ q * u \in Nat
        OBVIOUS
    <2> QED
        BY <2>1, <2>2, <2>3
<1>4. CASE 2 * r <= u
    <2>1. q \in 0 .. price
        BY <1>2, <1>3
    <2>2. 2 * (q * u) <= 2 * price + 1 * u /\ 2 * price <= 2 * (q * u) + 1 * u
        BY <1>2, <1>3, <1>4
    <2>3. IsRounded(q, price, 1)
        BY <1>1, <2>2 DEF IsRounded
    <2> QED
        BY <2>1, <2>3 DEF Rounded
<1>5. CASE ~(2 * r <= u)
    <2>1. q + 1 \in 0 .. price
        BY <1>2, <1>3, <1>5
    <2>2. /\ 2 * ((q + 1) * u) <= 2 * price + 1 * u
          /\ 2 * price <= 2 * ((q + 1) * u) + 1 * u
        BY <1>2, <1>3, <1>5
    <2>3. IsRounded(q + 1, price, 1)
        BY <1>1, <2>2 DEF IsRounded
    <2> QED
        BY <2>1, <2>3 DEF Rounded
<1> QED
    BY <1>4, <1>5

\* A price is a number or none.
LEMMA CostType ==
    ASSUME NEW usage \in [TokenKinds -> Nat]
    PROVE  EstimateUsd(Pricing, usage) \in SUBSET Nat
<1>1. /\ usage.input \in Nat /\ usage.output \in Nat
      /\ usage.cache_creation \in Nat /\ usage.cache_read \in Nat
    BY TokenTypes
<1>2. Uncached(usage) \in Nat
    BY <1>1 DEF Uncached
<1>3. Price(Pricing, usage) \in Nat
    BY <1>1, <1>2, Rates DEF Price
<1> QED
    BY <1>3, RoundedFacts DEF EstimateUsd

-----------------------------------------------------------------------------
(* Types.                                                                   *)

\* A suite that runs is at one of its attempts, and a run that is judged has ended.
InSuite ==
    /\ pc # "idle" => position \in 1 .. Total /\ suite \in 1 .. plan.suites
    /\ pc = "evaluating" => status # "running"

TypeInv == TypeOK /\ InSuite

\* What is fixed by the plan does not change.
LEMMA PlanKept ==
    ASSUME plan' = plan
    PROVE  /\ Total' = Total /\ Slots' = Slots /\ Result' = Result
           /\ \A p : Slot(p)' = Slot(p) /\ CaseAt(p)' = CaseAt(p)
<1>1. Total' = Total /\ \A p : Slot(p)' = Slot(p) /\ CaseAt(p)' = CaseAt(p)
    BY DEF Total, Slot, CaseAt
<1> QED
    BY <1>1 DEF Slots, Result

\* The trace file of the attempt in progress is one of the files.
LEMMA CurrentFile ==
    ASSUME TypeInv, pc # "idle"
    PROVE  /\ position \in 1 .. Total /\ Slot(position) \in Slots
           /\ traces \in [Slots -> File] /\ current \in File
<1>1. traces \in [Slots -> File]
    BY DEF TypeInv, TypeOK, File
<1>2. position \in 1 .. Total /\ Slot(position) \in Slots
    BY Positions DEF TypeInv, TypeOK, InSuite
<1> QED
    BY <1>1, <1>2 DEF current

\* Replacing that file changes no other one.
LEMMA FileReplaced ==
    ASSUME TypeInv, pc # "idle", NEW file \in File,
           traces' = [traces EXCEPT ![Slot(position)] = file]
    PROVE  /\ traces' \in [Slots -> File]
           /\ traces'[Slot(position)] = file
           /\ \A slot \in Slots \ {Slot(position)} : traces'[slot] = traces[slot]
BY CurrentFile

\* A recorded line extends that file.
LEMMA LineRecorded ==
    ASSUME TypeInv, pc # "idle", NEW kind \in Kinds, RecordLine(kind)
    PROVE  /\ Extended(current, kind) \in File
           /\ traces' = [traces EXCEPT ![Slot(position)] = Extended(current, kind)]
<1>1. current \in File /\ Slot(position) \in Slots /\ traces \in [Slots -> File]
    BY CurrentFile
<1> QED
    BY <1>1, ExtendedFile DEF RecordLine, current

\* An event more is counted with those of the attempt.
LEMMA OwnType == ASSUME TypeOK, NEW kind PROVE With(kind) = OneMore(own, kind) /\ With(kind) \in Tally
BY TallyFacts DEF TypeOK, With, OneMore

\* A suite starts well typed.
LEMMA TypeInit == Init => TypeInv
<1> SUFFICES ASSUME Init PROVE TypeInv
    OBVIOUS
<1>1. plan \in Plans /\ pc = "idle" /\ suite = 0 /\ position = 0
    BY DEF Init
<1>2. Total \in Nat /\ plan.suites \in Nat
    BY <1>1, Positions
<1>3. None \in Tally /\ NoFile \in File
    <2>1. None \in Tally
        BY DEF None, Tally
    <2> QED
        BY <2>1 DEF NoFile, File
<1>4. traces \in [Slots -> File]
    BY <1>3 DEF Init
<1>5. <<>> \in Seq(Result)
    OBVIOUS
<1>6. /\ results = Unwritten /\ report = Unwritten
      /\ Unwritten.whole \in BOOLEAN /\ Unwritten.suite = 0 /\ Unwritten.content = <<>>
    BY DEF Init, Unwritten
<1>7. own \in Tally /\ before \in Tally /\ attempts = <<>> /\ status = "running" /\ completed = {}
    BY <1>3 DEF Init
<1>8. suite \in 0 .. plan.suites /\ position \in 0 .. Total /\ results.suite \in 0 .. suite
      /\ report.suite \in 0 .. suite
    BY <1>1, <1>2, <1>6
<1> QED
    BY <1>1, <1>4, <1>5, <1>6, <1>7, <1>8 DEF TypeInv, TypeOK, InSuite, File

\* What an attempt is judged to be is a result.
LEMMA AttemptResultType ==
    ASSUME TypeInv, pc = "evaluating", NEW context, NEW verdict,
           verdict = Verdict(CaseAt(position).expected, context)
    PROVE  AttemptResult(verdict, Events(current)) \in Result
<1>1. position \in 1 .. Total /\ current \in File
    BY CurrentFile
<1>2. CaseAt(position).expected.replay = {} /\ Slot(position)[2] \in 1 .. RunsPerCase
    BY <1>1, Positions DEF TypeInv, TypeOK
<1>3. /\ verdict.passed \in BOOLEAN /\ verdict.artifact_passed \in BOOLEAN
      /\ verdict.runtime_passed \in BOOLEAN /\ verdict.tool_contract_passed \in BOOLEAN
      /\ verdict.failure_category \in FailureCategories
    BY <1>2, VerdictFacts
<1>4. CaseAt(position).name \in {CaseAt(p).name : p \in 1 .. Total}
    BY <1>1
<1>5. Events(current) \in Tally /\ Events(current)["denial"] \in Nat
    BY <1>1, EventsFacts, TallyFacts
<1>6. /\ UsageOf(Events(current)) \in [TokenKinds -> Nat]
      /\ EstimateUsd(Pricing, UsageOf(Events(current))) \in SUBSET Nat
    BY <1>5, UsageType, CostType
<1>7. status \in {"completed", "max_turns", "failed"}
    BY DEF TypeInv, TypeOK, InSuite
<1> QED
    BY <1>2, <1>3, <1>4, <1>5, <1>6, <1>7 DEF AttemptResult, Result

\* Every step keeps every type.
LEMMA TypeStep == TypeInv /\ [Next]_vars => TypeInv'
<1> SUFFICES ASSUME TypeInv, [Next]_vars PROVE TypeInv'
    OBVIOUS
<1>1. plan' = plan
    BY DEF Next, vars
<1>2. /\ Total' = Total /\ Slots' = Slots /\ Result' = Result
      /\ plan \in Plans /\ plan.suites \in Nat /\ Total \in Nat \ {0}
    BY <1>1, PlanKept, Positions DEF TypeInv, TypeOK
<1>3. TypeOK /\ InSuite /\ None \in Tally /\ traces \in [Slots -> File]
    BY TallyFacts DEF TypeInv, TypeOK, File
<1>4. suite \in Nat /\ attempts \in Seq(Result)
    <2>1. suite \in 0 .. plan.suites /\ attempts \in Seq(Result)
        BY DEF TypeInv, TypeOK
    <2> QED
        BY <1>2, <2>1
<1>5. <<>> \in Seq(Result)
    OBVIOUS
<1>6. ASSUME NEW file \in File, pc # "idle",
             traces' = [traces EXCEPT ![Slot(position)] = file]
      PROVE  traces' \in [Slots -> File]
    BY <1>6, FileReplaced
<1> USE DEF diskVars, runVars
<1>7. ASSUME StartSuite PROVE TypeInv'
    <2>1. attempts' \in Seq(Result)
        BY <1>7 DEF StartSuite
    <2>2. suite' \in 1 .. plan.suites /\ suite \in Nat /\ suite' = suite + 1
        BY <1>2, <1>3, <1>7 DEF StartSuite, TypeOK
    <2>3. results'.suite \in 0 .. suite' /\ report'.suite \in 0 .. suite'
          /\ completed' \subseteq 1 .. suite'
        BY <1>3, <1>7, <2>2 DEF StartSuite, TypeOK
    <2> QED
        BY <1>1, <1>2, <1>3, <1>7, <2>1, <2>2, <2>3 DEF StartSuite, TypeInv, TypeOK, InSuite
<1>8. ASSUME StartAttempt PROVE TypeInv'
    <2>1. pc # "idle" /\ RecordLine("other") /\ "other" \in Kinds
        BY <1>8 DEF StartAttempt, Kinds
    <2>2. traces' \in [Slots -> File]
        BY <2>1, <1>6, LineRecorded
    <2>3. before' \in Tally /\ own' \in Tally
        BY <1>3, <1>8, <2>1, CurrentFile, EventsFacts DEF StartAttempt
    <2> QED
        BY <1>1, <1>2, <1>3, <1>8, <2>2, <2>3 DEF StartAttempt, TypeInv, TypeOK, InSuite, File
<1>9. ASSUME RecordEvent PROVE TypeInv'
    <2>1. PICK kind \in Counted : own' = With(kind) /\ RecordLine(kind)
        BY <1>9 DEF RecordEvent
    <2>2. pc # "idle" /\ kind \in Kinds
        BY <1>9 DEF RecordEvent, Kinds
    <2>3. traces' \in [Slots -> File] /\ own' \in Tally
        BY <2>1, <2>2, <1>3, <1>6, LineRecorded, OwnType
    <2> QED
        BY <1>1, <1>2, <1>3, <1>9, <2>3 DEF RecordEvent, TypeInv, TypeOK, InSuite, File
<1>10. ASSUME EndRun PROVE TypeInv'
    <2>1. pc # "idle" /\ RecordLine("other") /\ "other" \in Kinds
        BY <1>10 DEF EndRun, Kinds
    <2>2. traces' \in [Slots -> File]
        BY <2>1, <1>6, LineRecorded
    <2>3. status' \in {"completed", "max_turns", "failed"}
        BY <1>10 DEF EndRun
    <2> QED
        BY <1>1, <1>2, <1>3, <1>10, <2>2, <2>3 DEF EndRun, TypeInv, TypeOK, InSuite, File
<1>11. ASSUME RecordFails PROVE TypeInv'
    <2>1. PICK kind \in Kinds :
              /\ own' = With(kind)
              /\ \E file \in CutShort(current, kind) :
                    traces' = [traces EXCEPT ![Slot(position)] = Extended(file, "other")]
        BY <1>11 DEF RecordFails
    <2>2. PICK file \in CutShort(current, kind) :
              traces' = [traces EXCEPT ![Slot(position)] = Extended(file, "other")]
        BY <2>1
    <2>3. pc # "idle" /\ "other" \in Kinds
        BY <1>11 DEF RecordFails, Kinds
    <2>4. Extended(file, "other") \in File
        BY <2>3, CurrentFile, CutShortFile, ExtendedFile
    <2>5. traces' \in [Slots -> File] /\ own' \in Tally
        BY <2>1, <2>2, <2>3, <2>4, <1>3, <1>6, OwnType
    <2> QED
        BY <1>1, <1>2, <1>3, <1>11, <2>5 DEF RecordFails, TypeInv, TypeOK, InSuite, File
<1>12. ASSUME Evaluate PROVE TypeInv'
    <2>1. PICK context \in Contexts :
              attempts' = Append(attempts,
                AttemptResult(Verdict(CaseAt(position).expected, Context(context, Events(current))),
                              Events(current)))
        BY <1>12 DEF Evaluate
    <2>2. PICK verdict :
              verdict = Verdict(CaseAt(position).expected, Context(context, Events(current)))
        OBVIOUS
    <2>3. PICK result : result = AttemptResult(verdict, Events(current))
        OBVIOUS
    <2>4. result \in Result /\ attempts' = Append(attempts, result)
        BY <1>12, <2>1, <2>2, <2>3, AttemptResultType DEF Evaluate
    <2>5. attempts' \in Seq(Result)
        BY <1>4, <2>4
    <2> QED
        BY <1>1, <1>2, <1>3, <1>12, <2>5 DEF Evaluate, TypeInv, TypeOK, InSuite
<1>13. ASSUME EvaluationFails PROVE TypeInv'
    BY <1>1, <1>2, <1>3, <1>13 DEF EvaluationFails, TypeInv, TypeOK, InSuite
<1>14. ASSUME OpenResults PROVE TypeInv'
    <2>1. /\ results'.whole \in BOOLEAN /\ results'.suite \in 0 .. suite'
          /\ results'.content \in Seq(Result)
        <3>1. results' = Unwritten /\ suite' = suite /\ suite \in Nat /\ <<>> \in Seq(Result)
            BY <1>4, <1>5, <1>14 DEF OpenResults
        <3> QED
            BY <3>1 DEF Unwritten
    <2> QED
        BY <1>1, <1>2, <1>3, <1>14, <2>1 DEF OpenResults, TypeInv, TypeOK, InSuite
<1>15. ASSUME WriteResults PROVE TypeInv'
    <2>1. /\ results'.whole \in BOOLEAN /\ results'.suite \in 0 .. suite'
          /\ results'.content \in Seq(Result)
        <3>1. results' = Written(attempts) /\ suite' = suite /\ suite \in Nat
              /\ attempts \in Seq(Result)
            BY <1>4, <1>15 DEF WriteResults
        <3> QED
            BY <3>1 DEF Written
    <2> QED
        BY <1>1, <1>2, <1>3, <1>15, <2>1 DEF WriteResults, TypeInv, TypeOK, InSuite
<1>16. ASSUME OpenReport PROVE TypeInv'
    <2>1. report'.whole \in BOOLEAN /\ report'.suite \in 0 .. suite'
        <3>1. report' = Unwritten /\ suite' = suite /\ suite \in Nat
            BY <1>4, <1>16 DEF OpenReport
        <3> QED
            BY <3>1 DEF Unwritten
    <2> QED
        BY <1>1, <1>2, <1>3, <1>16, <2>1 DEF OpenReport, TypeInv, TypeOK, InSuite
<1>17. ASSUME WriteReport PROVE TypeInv'
    <2>1. report'.whole \in BOOLEAN /\ report'.suite \in 0 .. suite'
        <3>1. report' = Written(Report(attempts)) /\ suite' = suite /\ suite \in Nat
            BY <1>4, <1>17 DEF WriteReport
        <3> QED
            BY <3>1 DEF Written
    <2> QED
        BY <1>1, <1>2, <1>3, <1>17, <2>1 DEF WriteReport, TypeInv, TypeOK, InSuite
<1>18. ASSUME NextAttempt PROVE TypeInv'
    BY <1>1, <1>2, <1>3, <1>18 DEF NextAttempt, TypeInv, TypeOK, InSuite
<1>19. ASSUME Complete PROVE TypeInv'
    <2>1. suite \in 1 .. suite'
        BY <1>2, <1>3, <1>19 DEF Complete, InSuite
    <2> QED
        BY <1>1, <1>2, <1>3, <1>19, <2>1 DEF Complete, TypeInv, TypeOK, InSuite
<1>20. ASSUME Die PROVE TypeInv'
    <2>1. traces' \in [Slots -> File]
        <3>1. CASE UNCHANGED traces
            BY <1>3, <3>1
        <3>2. CASE pc \in {"attempt", "running"}
            <4>1. PICK kind \in Kinds : \E file \in CutShort(current, kind) :
                      traces' = [traces EXCEPT ![Slot(position)] = file]
                BY <1>20, <3>2 DEF Die, Kinds
            <4>2. PICK file \in CutShort(current, kind) :
                      traces' = [traces EXCEPT ![Slot(position)] = file]
                BY <4>1
            <4>3. file \in File
                BY <3>2, CurrentFile, CutShortFile
            <4> QED
                BY <3>2, <4>2, <4>3, <1>6
        <3> QED
            BY <1>20, <3>1, <3>2 DEF Die
    <2> QED
        BY <1>1, <1>2, <1>3, <1>20, <2>1 DEF Die, TypeInv, TypeOK, InSuite, File
<1>21. ASSUME UNCHANGED vars PROVE TypeInv'
    BY <1>1, <1>2, <1>3, <1>21 DEF vars, TypeInv, TypeOK, InSuite
<1> QED
    BY <1>7, <1>8, <1>9, <1>10, <1>11, <1>12, <1>13, <1>14, <1>15, <1>16, <1>17, <1>18, <1>19,
       <1>20, <1>21 DEF Next, Step

\* For every set of plans, prices and contexts, every variable keeps its type: a result
\* names a case of its plan and one of its attempts, and has a category and a price.
THEOREM LiveEvalTypeCorrect == Spec => []TypeOK
<1>1. TypeInv => TypeOK
    BY DEF TypeInv
<1> QED
    BY <1>1, TypeInit, TypeStep, PTL DEF Spec

-----------------------------------------------------------------------------
(* The results of one suite.                                                *)

\* Where the attempt in progress has its result.
Judged == {"results", "writing results", "report", "writing report", "next"}

\* A list of results in the order of the suite, from its first attempt on.
InOrder(list) ==
    /\ Len(list) <= Total
    /\ \A p \in DOMAIN list : <<list[p].case_name, list[p].attempt>> = Slot(p)

\* The attempts in memory are those before the one in progress, with it once it is judged.
AttemptsInv ==
    /\ InOrder(attempts)
    /\ pc \in {"attempt", "running", "evaluating"} => Len(attempts) = position - 1
    /\ pc \in Judged => Len(attempts) = position

\* results.json holds what was in memory when it was last written.
ResultsInv ==
    /\ pc # "idle" => suite \notin completed
    /\ results.whole =>
          /\ results.content # <<>> /\ InOrder(results.content)
          /\ results.suite \in completed => Len(results.content) = Total
          /\ results.suite = suite => IsPrefix(results.content, attempts)
    /\ pc \in {"report", "writing report", "next"} =>
          results.whole /\ results.suite = suite /\ results.content = attempts

\* A sequence is a prefix of itself and of what it is a part of with one element more.
LEMMA PrefixGrows ==
    ASSUME NEW S, NEW s \in Seq(S), NEW t \in Seq(S), NEW e \in S
    PROVE  IsPrefix(s, s) /\ (IsPrefix(s, t) => IsPrefix(s, Append(t, e)))
<1>1. IsPrefix(s, s)
    BY DEF IsPrefix
<1>2. ASSUME IsPrefix(s, t) PROVE IsPrefix(s, Append(t, e))
    <2>1. /\ Len(s) \in Nat /\ Len(t) \in Nat /\ Len(s) <= Len(t)
          /\ SubSeq(s, 1, Len(s)) = SubSeq(t, 1, Len(s))
        BY <1>2 DEF IsPrefix
    <2>2. /\ Len(Append(t, e)) = Len(t) + 1
          /\ \A i \in 1 .. Len(t) : Append(t, e)[i] = t[i]
        OBVIOUS
    <2>3. SubSeq(Append(t, e), 1, Len(s)) = SubSeq(t, 1, Len(s))
        BY <2>1, <2>2
    <2> QED
        BY <2>1, <2>2, <2>3 DEF IsPrefix
<1> QED
    BY <1>1, <1>2

\* The result of the next attempt keeps the order.
LEMMA InOrderWithNext ==
    ASSUME NEW list \in Seq(Result), InOrder(list), Len(list) < Total, Total \in Nat,
           NEW result \in Result,
           <<result.case_name, result.attempt>> = Slot(Len(list) + 1)
    PROVE  InOrder(Append(list, result)) /\ Len(Append(list, result)) = Len(list) + 1
<1> DEFINE longer == Append(list, result)
<1>1. /\ Len(longer) = Len(list) + 1 /\ DOMAIN longer = 1 .. (Len(list) + 1)
      /\ longer[Len(list) + 1] = result
      /\ \A i \in 1 .. Len(list) : longer[i] = list[i]
      /\ Len(list) \in Nat /\ DOMAIN list = 1 .. Len(list)
    OBVIOUS
<1> HIDE DEF longer
<1>2. ASSUME NEW p \in DOMAIN longer
      PROVE  <<longer[p].case_name, longer[p].attempt>> = Slot(p)
    <2>1. CASE p \in 1 .. Len(list)
        BY <1>1, <2>1 DEF InOrder
    <2>2. CASE p = Len(list) + 1
        BY <1>1, <2>2
    <2> QED
        BY <1>1, <2>1, <2>2
<1> QED
    BY <1>1, <1>2 DEF InOrder, longer

\* The result of an attempt names it.
LEMMA ResultNamesAttempt ==
    ASSUME TypeInv, pc # "idle", NEW verdict, NEW events
    PROVE  LET result == AttemptResult(verdict, events)
           IN  <<result.case_name, result.attempt>> = Slot(position)
<1>1. Slot(position) = <<CaseAt(position).name, Slot(position)[2]>>
    BY CurrentFile, Positions DEF TypeInv, TypeOK
<1>2. LET result == AttemptResult(verdict, events)
      IN  result.case_name = CaseAt(position).name /\ result.attempt = Slot(position)[2]
    BY DEF AttemptResult
<1> QED
    BY <1>1, <1>2

\* Nothing is in memory or on the disk to begin with.
LEMMA ResultsInit == Init => AttemptsInv /\ ResultsInv
<1> SUFFICES ASSUME Init PROVE AttemptsInv /\ ResultsInv
    OBVIOUS
<1>1. plan \in Plans /\ pc = "idle" /\ attempts = <<>> /\ ~results.whole
    BY DEF Init, Unwritten
<1>2. Total \in Nat
    BY <1>1, Positions
<1>3. InOrder(<<>>)
    BY <1>2 DEF InOrder
<1> QED
    BY <1>1, <1>3 DEF AttemptsInv, ResultsInv, Judged

\* One step of run_attempt or run_all keeps them.
LEMMA ResultsStep == TypeInv /\ AttemptsInv /\ ResultsInv /\ [Next]_vars => AttemptsInv' /\ ResultsInv'
<1> SUFFICES ASSUME TypeInv, AttemptsInv, ResultsInv, [Next]_vars
             PROVE  AttemptsInv' /\ ResultsInv'
    OBVIOUS
<1>1. plan' = plan
    BY DEF Next, vars
<1>2. /\ Total' = Total /\ Total \in Nat \ {0} /\ \A p : Slot(p)' = Slot(p)
    BY <1>1, PlanKept, Positions DEF TypeInv, TypeOK
<1>3. /\ attempts \in Seq(Result) /\ results.content \in Seq(Result)
      /\ suite \in 0 .. plan.suites /\ results.suite \in 0 .. suite /\ completed \subseteq 1 .. suite
      /\ plan.suites \in Nat
    BY Positions DEF TypeInv, TypeOK
<1>4. pc # "idle" => position \in 1 .. Total
    BY DEF TypeInv, InSuite
<1>5. Len(attempts) \in Nat /\ Len(results.content) \in Nat
    BY <1>3
<1> USE DEF diskVars, runVars, Judged
<1>6. ASSUME UNCHANGED <<attempts, results, suite, completed>>,
             pc' # "idle" => pc # "idle",
             pc' \in {"attempt", "running", "evaluating"} => Len(attempts) = position' - 1,
             pc' \in Judged => Len(attempts) = position',
             pc' \in {"report", "writing report", "next"} => pc \in {"report", "writing report", "next"}
      PROVE  AttemptsInv' /\ ResultsInv'
    <2>1. InOrder(attempts)'
        BY <1>1, <1>2, <1>6 DEF AttemptsInv, InOrder
    <2>2. results.whole => InOrder(results.content)'
        BY <1>1, <1>2, <1>6 DEF ResultsInv, InOrder
    <2> QED
        BY <1>2, <1>6, <2>1, <2>2 DEF AttemptsInv, ResultsInv
<1>7. ASSUME \/ StartAttempt \/ RecordEvent \/ EndRun \/ RecordFails \/ EvaluationFails
             \/ OpenReport \/ WriteReport \/ NextAttempt \/ Die \/ UNCHANGED vars
      PROVE  AttemptsInv' /\ ResultsInv'
    <2>1. CASE StartAttempt
        BY <1>6, <2>1 DEF StartAttempt, AttemptsInv
    <2>2. CASE RecordEvent
        BY <1>6, <2>2 DEF RecordEvent, AttemptsInv
    <2>3. CASE EndRun
        BY <1>6, <2>3 DEF EndRun, AttemptsInv
    <2>4. CASE RecordFails
        BY <1>6, <2>4 DEF RecordFails, AttemptsInv
    <2>5. CASE EvaluationFails
        BY <1>6, <2>5 DEF EvaluationFails
    <2>6. CASE OpenReport \/ WriteReport
        BY <1>6, <2>6 DEF OpenReport, WriteReport, AttemptsInv
    <2>7. CASE NextAttempt
        <3>1. Len(attempts) = position' - 1
            BY <1>4, <2>7 DEF NextAttempt, AttemptsInv
        <3> QED
            BY <1>6, <2>7, <3>1 DEF NextAttempt
    <2>8. CASE Die
        BY <1>6, <2>8 DEF Die
    <2>9. CASE UNCHANGED vars
        BY <1>6, <2>9 DEF vars, AttemptsInv
    <2> QED
        BY <1>7, <2>1, <2>2, <2>3, <2>4, <2>5, <2>6, <2>7, <2>8, <2>9
<1>8. ASSUME StartSuite PROVE AttemptsInv' /\ ResultsInv'
    <2>1. /\ attempts' = <<>> /\ position' = 1 /\ pc' = "attempt" /\ suite' = suite + 1
          /\ results' = results /\ completed' = completed
        BY <1>8 DEF StartSuite
    <2>2. InOrder(attempts)'
        BY <1>2, <2>1 DEF InOrder
    <2>3. results.whole => InOrder(results.content)'
        BY <1>1, <1>2, <2>1 DEF ResultsInv, InOrder
    <2>4. suite' \notin completed' /\ results'.suite # suite'
        BY <1>3, <2>1
    <2>5. Len(attempts') = position' - 1
        BY <2>1
    <2>6. AttemptsInv'
        BY <2>1, <2>2, <2>5 DEF AttemptsInv
    <2>7. ResultsInv'
        BY <1>2, <2>1, <2>3, <2>4 DEF ResultsInv
    <2> QED
        BY <2>6, <2>7
<1>9. ASSUME Evaluate PROVE AttemptsInv' /\ ResultsInv'
    <2>1. PICK context \in Contexts :
              attempts' = Append(attempts,
                AttemptResult(Verdict(CaseAt(position).expected, Context(context, Events(current))),
                              Events(current)))
        BY <1>9 DEF Evaluate
    <2>2. PICK verdict :
              verdict = Verdict(CaseAt(position).expected, Context(context, Events(current)))
        OBVIOUS
    <2>3. PICK result : result = AttemptResult(verdict, Events(current))
        OBVIOUS
    <2>4. /\ pc = "evaluating" /\ pc' = "results"
          /\ UNCHANGED <<suite, position, results, completed>>
        BY <1>9 DEF Evaluate
    <2>5. result \in Result /\ attempts' = Append(attempts, result)
        BY <2>1, <2>2, <2>3, <2>4, AttemptResultType
    <2>6. <<result.case_name, result.attempt>> = Slot(position) /\ Len(attempts) = position - 1
        BY <2>3, <2>4, ResultNamesAttempt DEF AttemptsInv
    <2>7. InOrder(Append(attempts, result)) /\ Len(Append(attempts, result)) = position
        <3>1. Len(attempts) + 1 = position /\ Len(attempts) < Total
            <4>1. position \in 1 .. Total
                BY <1>4, <2>4
            <4>2. Len(attempts) = position - 1
                BY <2>6
            <4> QED
                BY <1>2, <4>1, <4>2
        <3> QED
            BY <1>2, <1>3, <1>4, <2>4, <2>5, <2>6, <3>1, InOrderWithNext DEF AttemptsInv
    <2>8. InOrder(attempts)' /\ Len(attempts') = position'
        BY <1>1, <1>2, <2>4, <2>5, <2>7 DEF InOrder
    <2>9. results.whole => InOrder(results.content)'
        BY <1>1, <1>2, <2>4 DEF ResultsInv, InOrder
    <2>10. IsPrefix(results.content, attempts) => IsPrefix(results.content, attempts)'
        BY <1>3, <2>4, <2>5, PrefixGrows
    <2> QED
        BY <1>2, <2>4, <2>8, <2>9, <2>10 DEF AttemptsInv, ResultsInv
<1>10. ASSUME OpenResults PROVE AttemptsInv' /\ ResultsInv'
    <2>1. InOrder(attempts)'
        BY <1>1, <1>2, <1>10 DEF OpenResults, AttemptsInv, InOrder
    <2>2. ~results'.whole
        BY <1>10 DEF OpenResults, Unwritten
    <2> QED
        BY <1>10, <2>1, <2>2 DEF OpenResults, AttemptsInv, ResultsInv
<1>11. ASSUME WriteResults PROVE AttemptsInv' /\ ResultsInv'
    <2>1. /\ results'.whole /\ results'.suite = suite /\ results'.content = attempts
          /\ pc = "writing results" /\ pc' = "report"
          /\ UNCHANGED <<suite, position, attempts, completed>>
        BY <1>11 DEF WriteResults, Written
    <2>2. InOrder(attempts)'
        BY <1>1, <1>2, <2>1 DEF AttemptsInv, InOrder
    <2>3. InOrder(results.content)'
        BY <1>1, <1>2, <2>1 DEF AttemptsInv, InOrder
    <2>4. Len(attempts) = position /\ position \in 1 .. Total
        BY <1>4, <2>1 DEF AttemptsInv
    <2>5. attempts # <<>>
        BY <2>4
    <2>6. IsPrefix(results.content, attempts)'
        <3>1. Len(attempts) <= Len(attempts)
            BY <1>5
        <3> QED
            BY <2>1, <3>1 DEF IsPrefix
    <2>7. suite \notin completed
        BY <2>1 DEF ResultsInv
    <2> QED
        BY <2>1, <2>2, <2>3, <2>4, <2>5, <2>6, <2>7 DEF AttemptsInv, ResultsInv
<1>12. ASSUME Complete PROVE AttemptsInv' /\ ResultsInv'
    <2>1. /\ pc = "next" /\ pc' = "idle" /\ position = Total /\ completed' = completed \cup {suite}
          /\ UNCHANGED <<suite, position, attempts, results>>
        BY <1>12 DEF Complete
    <2>2. InOrder(attempts)'
        BY <1>1, <1>2, <2>1 DEF AttemptsInv, InOrder
    <2>3. /\ results.whole /\ results.suite = suite /\ results.content = attempts
          /\ Len(attempts) = Total
        BY <2>1 DEF AttemptsInv, ResultsInv
    <2>4. InOrder(results.content)' /\ results.content # <<>>
        BY <1>1, <1>2, <2>1, <2>3 DEF ResultsInv, InOrder
    <2> QED
        BY <1>2, <2>1, <2>2, <2>3, <2>4 DEF AttemptsInv, ResultsInv
<1> QED
    BY <1>7, <1>8, <1>9, <1>10, <1>11, <1>12 DEF Next, Step

\* results.json, whenever it can be read, holds the attempts of one suite, from its first
\* one on and in order, and all of them of a suite that returned, wherever the process
\* died or a write failed and however often the directory is used.
THEOREM OneSuiteInResults == Spec => []ResultsAreOfOneSuite
<1>1. TypeInv /\ AttemptsInv /\ ResultsInv => ResultsAreOfOneSuite
    <2> SUFFICES ASSUME TypeInv, ResultsInv, results.whole
                 PROVE  /\ Len(results.content) \in 1 .. Total
                        /\ \A p \in DOMAIN results.content :
                              <<results.content[p].case_name, results.content[p].attempt>> = Slot(p)
                        /\ results.suite \in completed => Len(results.content) = Total
                        /\ results.suite = suite => IsPrefix(results.content, attempts)
        BY DEF ResultsAreOfOneSuite
    <2>1. results.content \in Seq(Result) /\ Total \in Nat
        BY Positions DEF TypeInv, TypeOK
    <2>2. results.content # <<>> /\ InOrder(results.content)
        BY DEF ResultsInv
    <2>3. Len(results.content) \in 1 .. Total
        BY <2>1, <2>2 DEF InOrder
    <2> QED
        BY <2>2, <2>3 DEF ResultsInv, InOrder
<1> QED
    BY <1>1, TypeInit, TypeStep, ResultsInit, ResultsStep, PTL DEF Spec

-----------------------------------------------------------------------------
(* Damaged traces.                                                          *)

\* The trace of a judged attempt of the suite in progress is not damaged, unless the
\* attempt in progress is of the same name and number and has damaged it since.
UndamagedInv ==
    pc # "idle" =>
        \A p \in 1 .. Len(attempts) :
            traces[Slot(p)].damaged =>
                pc \in {"running", "evaluating"} /\ Slot(p) = Slot(position)

\* While an attempt runs only its own trace changes.
LEMMA OwnTraceOnly ==
    ASSUME TypeInv, Next, StartAttempt \/ RecordEvent \/ EndRun \/ RecordFails
    PROVE  \A slot \in Slots \ {Slot(position)} : traces'[slot] = traces[slot]
<1>1. pc # "idle" /\ "other" \in Kinds
    BY DEF StartAttempt, RecordEvent, EndRun, RecordFails, Kinds
<1>2. ASSUME NEW kind \in Kinds, RecordLine(kind)
      PROVE  \A slot \in Slots \ {Slot(position)} : traces'[slot] = traces[slot]
    BY <1>1, <1>2, LineRecorded, FileReplaced
<1>3. CASE StartAttempt \/ EndRun
    BY <1>1, <1>2, <1>3 DEF StartAttempt, EndRun
<1>4. CASE RecordEvent
    <2>1. PICK kind \in Counted : RecordLine(kind)
        BY <1>4 DEF RecordEvent
    <2> QED
        BY <1>2, <2>1 DEF Kinds
<1>5. CASE RecordFails
    <2>1. PICK file : traces' = [traces EXCEPT ![Slot(position)] = file]
        BY <1>5 DEF RecordFails
    <2> QED
        BY <1>1, <2>1, CurrentFile
<1> QED
    BY <1>3, <1>4, <1>5

\* A suite starts with no attempt judged.
LEMMA UndamagedInit == Init => UndamagedInv
BY DEF Init, UndamagedInv

\* Every step keeps the judged traces undamaged.
LEMMA UndamagedStep == TypeInv /\ AttemptsInv /\ UndamagedInv /\ [Next]_vars => UndamagedInv'
<1> SUFFICES ASSUME TypeInv, AttemptsInv, UndamagedInv, [Next]_vars PROVE UndamagedInv'
    OBVIOUS
<1>1. plan' = plan
    BY DEF Next, vars
<1>2. /\ \A p : Slot(p)' = Slot(p)
      /\ Total \in Nat \ {0} /\ \A p \in 1 .. Total : Slot(p) \in Slots
    BY <1>1, PlanKept, Positions DEF TypeInv, TypeOK
<1>3. Len(attempts) \in Nat /\ Len(attempts) <= Total
    <2>1. attempts \in Seq(Result)
        BY DEF TypeInv, TypeOK
    <2> QED
        BY <2>1 DEF AttemptsInv, InOrder
<1> USE DEF diskVars, runVars
<1>4. CASE StartSuite
    BY <1>4 DEF StartSuite, UndamagedInv
<1>5. CASE StartAttempt \/ RecordEvent \/ EndRun \/ RecordFails
    <2>1. UNCHANGED <<attempts, position>> /\ pc # "idle" /\ pc' \in {"running", "evaluating"}
        BY <1>5 DEF StartAttempt, RecordEvent, EndRun, RecordFails
    <2>2. Next
        BY <1>1, <1>5 DEF Next, Step
    <2>3. ASSUME NEW p \in 1 .. Len(attempts), Slot(p) # Slot(position)
          PROVE  ~traces'[Slot(p)].damaged
        <3>1. p \in 1 .. Total
            BY <1>2, <1>3
        <3>2. traces'[Slot(p)] = traces[Slot(p)]
            BY <1>2, <1>5, <2>2, <2>3, <3>1, OwnTraceOnly
        <3> QED
            BY <2>1, <2>3, <3>2 DEF UndamagedInv
    <2> QED
        BY <1>2, <2>1, <2>3 DEF UndamagedInv
<1>6. CASE Evaluate
    <2>1. /\ pc = "evaluating" /\ pc' = "results" /\ ~traces[Slot(position)].damaged
          /\ UNCHANGED <<position, traces>>
        BY <1>6 DEF Evaluate, Readable, current
    <2>2. Len(attempts) = position - 1 /\ position \in 1 .. Total
        BY <2>1 DEF AttemptsInv, TypeInv, InSuite
    <2>3. Len(attempts') = position
        <3>1. \E result : attempts' = Append(attempts, result)
            BY <1>6 DEF Evaluate
        <3>2. attempts \in Seq(Result)
            BY DEF TypeInv, TypeOK
        <3>3. Len(attempts') = Len(attempts) + 1
            BY <3>1, <3>2
        <3> QED
            BY <2>2, <3>3
    <2>4. ASSUME NEW p \in 1 .. position PROVE ~traces[Slot(p)].damaged
        <3>1. CASE p = position
            BY <2>1, <3>1
        <3>2. CASE p \in 1 .. Len(attempts)
            BY <2>1, <3>2 DEF UndamagedInv
        <3> QED
            BY <2>2, <3>1, <3>2
    <2> QED
        BY <1>2, <2>1, <2>3, <2>4 DEF UndamagedInv
<1>7. CASE OpenResults \/ WriteResults \/ OpenReport \/ WriteReport \/ NextAttempt
    BY <1>2, <1>7 DEF OpenResults, WriteResults, OpenReport, WriteReport, NextAttempt, UndamagedInv
<1>8. CASE EvaluationFails \/ Complete \/ Die
    BY <1>8 DEF EvaluationFails, Complete, Die, UndamagedInv
<1>9. CASE UNCHANGED vars
    BY <1>2, <1>9 DEF vars, UndamagedInv
<1> QED
    BY <1>4, <1>5, <1>6, <1>7, <1>8, <1>9 DEF Next, Step

\* Only a suite whose traces can all be read is completed.
LEMMA CompletedUndamaged ==
    TypeInv /\ AttemptsInv /\ UndamagedInv /\ [Next]_vars =>
        ((\E slot \in Slots : traces[slot].damaged) => completed' = completed)
<1> SUFFICES ASSUME TypeInv, AttemptsInv, UndamagedInv, [Next]_vars,
                    NEW slot \in Slots, traces[slot].damaged
             PROVE  completed' = completed
    OBVIOUS
<1> USE DEF diskVars, runVars
<1>1. ~Complete
    <2> SUFFICES ASSUME Complete PROVE FALSE
        OBVIOUS
    <2>1. pc = "next" /\ Len(attempts) = Total
        BY DEF Complete, AttemptsInv, Judged
    <2>2. PICK p \in 1 .. Total : slot = Slot(p)
        BY DEF Slots
    <2> QED
        BY <2>1, <2>2 DEF UndamagedInv
<1>2. CASE \/ StartSuite \/ StartAttempt \/ RecordEvent \/ EndRun \/ RecordFails \/ Evaluate
           \/ EvaluationFails
    BY <1>2 DEF StartSuite, StartAttempt, RecordEvent, EndRun, RecordFails, Evaluate, EvaluationFails
<1>3. CASE \/ OpenResults \/ WriteResults \/ OpenReport \/ WriteReport \/ NextAttempt \/ Die
           \/ UNCHANGED vars
    BY <1>3 DEF OpenResults, WriteResults, OpenReport, WriteReport, NextAttempt, Die, vars
<1> QED
    BY <1>1, <1>2, <1>3 DEF Next, Step

\* No suite returns any more once one trace of its plan holds a malformed line within: it
\* comes to the attempt of that trace, or is at it, and cannot judge it.
THEOREM DamageStopsSuites == Spec => DamagedTraceStopsSuites
<1>1. TypeInv /\ AttemptsInv /\ UndamagedInv /\ [Next]_vars =>
        [(\E slot \in Slots : traces[slot].damaged) => completed' = completed]_vars
    BY CompletedUndamaged
<1> QED
    BY <1>1, TypeInit, TypeStep, ResultsInit, ResultsStep, UndamagedInit, UndamagedStep, PTL
       DEF Spec, DamagedTraceStopsSuites

-----------------------------------------------------------------------------
(* The events of an attempt.                                                *)

\* The events of the attempt in progress and those its file held before it.
Both == [kind \in Counted |-> own[kind] + before[kind]]

\* One event of the attempt is missing from a tally.
OneLess(tally) ==
    \E kind \in Counted : own[kind] > 0 /\ tally = [Both EXCEPT ![kind] = @ - 1]

\* The file of an attempt in progress, while it can be read, holds the events of the attempt
\* and those it held before; once the run has failed it may lack one.
EventsInv ==
    pc \in {"running", "evaluating"} /\ ~current.damaged =>
        /\ current.tail = "ended"
        /\ \/ current.counts = Both
           \/ pc = "evaluating" /\ status = "failed" /\ OneLess(current.counts)

\* One event more of the attempt is one more of both.
LEMMA OneMoreOfBoth ==
    ASSUME TypeInv, NEW kind \in Kinds, own' = With(kind), before' = before
    PROVE  /\ Both' = OneMore(Both, kind)
           /\ kind \in Counted => own'[kind] > 0 /\ Both = [OneMore(Both, kind) EXCEPT ![kind] = @ - 1]
<1>1. own \in Tally /\ before \in Tally
    BY DEF TypeInv, TypeOK
<1>2. \A k \in Counted : own[k] \in Nat /\ before[k] \in Nat /\ own[k] + before[k] \in Nat
    BY <1>1 DEF Tally
<1>3. own' = OneMore(own, kind)
    BY OwnType DEF TypeInv
<1>4. CASE kind \in Counted
    <2>1. /\ own'[kind] = own[kind] + 1
          /\ \A k \in Counted \ {kind} : own'[k] = own[k]
        BY <1>1, <1>3, <1>4 DEF OneMore, Tally
    <2>2. Both' = [Both EXCEPT ![kind] = @ + 1]
        <3>1. Both' = [k \in Counted |-> own'[k] + before[k]]
            BY DEF Both
        <3>2. \A k \in Counted : own'[k] + before[k] = [Both EXCEPT ![kind] = @ + 1][k]
            BY <1>2, <1>4, <2>1 DEF Both
        <3>3. [Both EXCEPT ![kind] = @ + 1] = [k \in Counted |-> [Both EXCEPT ![kind] = @ + 1][k]]
            BY DEF Both
        <3> QED
            BY <3>1, <3>2, <3>3
    <2>3. Both \in [Counted -> Nat]
        BY <1>2 DEF Both
    <2>4. Both = [[Both EXCEPT ![kind] = @ + 1] EXCEPT ![kind] = @ - 1]
        <3>1. PICK more : more = [Both EXCEPT ![kind] = @ + 1]
            OBVIOUS
        <3>2. /\ more \in [Counted -> Nat]
              /\ more[kind] - 1 = Both[kind]
              /\ \A k \in Counted \ {kind} : more[k] = Both[k]
            BY <1>4, <2>3, <3>1
        <3>3. \A k \in Counted : [more EXCEPT ![kind] = @ - 1][k] = Both[k]
            BY <1>4, <3>2
        <3> QED
            BY <2>3, <3>1, <3>2, <3>3
    <2> QED
        BY <1>2, <1>4, <2>1, <2>2, <2>4 DEF OneMore
<1>5. CASE kind \notin Counted
    BY <1>3, <1>5 DEF OneMore, Both
<1> QED
    BY <1>4, <1>5

\* No attempt is in progress to begin with.
LEMMA EventsInit == Init => EventsInv
BY DEF Init, EventsInv

\* Every step keeps the file of the attempt in progress in step with the run.
LEMMA EventsStep == TypeInv /\ EventsInv /\ [Next]_vars => EventsInv'
<1> SUFFICES ASSUME TypeInv, EventsInv, [Next]_vars PROVE EventsInv'
    OBVIOUS
<1>1. plan' = plan
    BY DEF Next, vars
<1>2. \A p : Slot(p)' = Slot(p)
    BY <1>1, PlanKept
<1>3. own \in Tally /\ before \in Tally
    BY DEF TypeInv, TypeOK
<1>4. ASSUME position' = position PROVE current' = traces'[Slot(position)]
    BY <1>1, <1>4 DEF current, Slot, CaseAt
<1> USE DEF diskVars, runVars
<1>5. CASE StartAttempt
    <2>1. /\ pc # "idle" /\ pc' = "running" /\ position' = position
          /\ own' = None /\ before' = Events(current) /\ RecordLine("other") /\ "other" \in Kinds
        BY <1>5 DEF StartAttempt, Kinds
    <2>2. current \in File
        BY <2>1, CurrentFile
    <2>3. current' = Extended(current, "other")
        BY <1>4, <2>1, LineRecorded, FileReplaced
    <2>4. ASSUME ~current'.damaged
          PROVE  current'.tail = "ended" /\ current'.counts = Both'
        <3>1. /\ current.tail = "ended" /\ current'.tail = "ended"
              /\ current'.counts = OneMore(current.counts, "other")
            BY <2>1, <2>2, <2>3, <2>4, ExtendedFile
        <3>2. current'.counts = current.counts /\ before' = current.counts
            BY <2>1, <2>2, <3>1, EventsFacts DEF OneMore, Counted
        <3>3. current.counts \in Tally
            BY <2>2 DEF File
        <3>4. Both' = [kind \in Counted |-> 0 + current.counts[kind]]
            BY <2>1, <3>2 DEF Both, None
        <3>5. \A kind \in Counted : 0 + current.counts[kind] = current.counts[kind]
            BY <3>3 DEF Tally
        <3>6. current.counts = [kind \in Counted |-> current.counts[kind]]
            BY <3>3 DEF Tally
        <3> QED
            BY <3>1, <3>2, <3>4, <3>5, <3>6
    <2> QED
        BY <2>1, <2>4 DEF EventsInv
<1>6. CASE RecordEvent
    <2>1. PICK kind \in Counted : own' = With(kind) /\ RecordLine(kind)
        BY <1>6 DEF RecordEvent
    <2>2. /\ pc = "running" /\ pc' = "running" /\ kind \in Kinds
          /\ UNCHANGED <<position, before>>
        BY <1>6 DEF RecordEvent, Kinds
    <2>3. current \in File
        BY <2>2, CurrentFile
    <2>4. current' = Extended(current, kind)
        BY <1>4, <2>1, <2>2, LineRecorded, FileReplaced
    <2>5. ASSUME ~current'.damaged
          PROVE  current'.tail = "ended" /\ current'.counts = Both'
        <3>1. /\ current.tail = "ended" /\ current'.tail = "ended" /\ ~current.damaged
              /\ current'.counts = OneMore(current.counts, kind)
            BY <2>2, <2>3, <2>4, <2>5, ExtendedFile
        <3>2. current.counts = Both
            BY <2>2, <3>1 DEF EventsInv
        <3> QED
            BY <2>1, <2>2, <3>1, <3>2, OneMoreOfBoth
    <2> QED
        BY <2>2, <2>5 DEF EventsInv
<1>7. CASE EndRun
    <2>1. /\ pc = "running" /\ pc' = "evaluating" /\ RecordLine("other") /\ "other" \in Kinds
          /\ UNCHANGED <<position, own, before>>
        BY <1>7 DEF EndRun, Kinds
    <2>2. current \in File
        BY <2>1, CurrentFile
    <2>3. current' = Extended(current, "other")
        BY <1>4, <2>1, LineRecorded, FileReplaced
    <2>4. ASSUME ~current'.damaged
          PROVE  current'.tail = "ended" /\ current'.counts = Both'
        <3>1. /\ current.tail = "ended" /\ current'.tail = "ended" /\ ~current.damaged
              /\ current'.counts = current.counts
            BY <2>1, <2>2, <2>3, <2>4, ExtendedFile DEF OneMore, Counted
        <3>2. current.counts = Both /\ Both' = Both
            BY <2>1, <3>1 DEF EventsInv, Both
        <3> QED
            BY <3>1, <3>2
    <2> QED
        BY <2>1, <2>4 DEF EventsInv
<1>8. CASE RecordFails
    <2>1. PICK kind \in Kinds :
              /\ own' = With(kind)
              /\ \E file \in CutShort(current, kind) :
                    traces' = [traces EXCEPT ![Slot(position)] = Extended(file, "other")]
        BY <1>8 DEF RecordFails
    <2>2. PICK file \in CutShort(current, kind) :
              traces' = [traces EXCEPT ![Slot(position)] = Extended(file, "other")]
        BY <2>1
    <2>3. /\ pc = "running" /\ pc' = "evaluating" /\ status' = "failed" /\ "other" \in Kinds
          /\ UNCHANGED <<position, before>>
        BY <1>8 DEF RecordFails, Kinds
    <2>4. current \in File /\ file \in File /\ Extended(file, "other") \in File
        BY <2>2, <2>3, CurrentFile, CutShortFile, ExtendedFile
    <2>5. current' = Extended(file, "other")
        BY <1>4, <2>2, <2>3, <2>4, FileReplaced
    <2>6. ASSUME ~current'.damaged
          PROVE  /\ current'.tail = "ended"
                 /\ current'.counts = Both' \/ OneLess(current.counts)'
        <3>1. /\ file.tail = "ended" /\ current'.tail = "ended" /\ ~file.damaged
              /\ current'.counts = file.counts
            BY <2>3, <2>4, <2>5, <2>6, ExtendedFile DEF OneMore, Counted
        <3>2. file = current \/ file = Extended(current, kind)
            BY <2>2, <2>4, <3>1, CutShortFile
        <3>3. ~current.damaged
            BY <2>2, <2>4, <3>1, CutShortFile
        <3>4. current.tail = "ended" /\ current.counts = Both
            BY <2>3, <3>3 DEF EventsInv
        <3>5. /\ Both' = OneMore(Both, kind)
              /\ kind \in Counted => own'[kind] > 0
                                     /\ Both = [OneMore(Both, kind) EXCEPT ![kind] = @ - 1]
            BY <2>1, <2>3, OneMoreOfBoth
        <3>6. CASE file = Extended(current, kind)
            BY <2>4, <3>1, <3>4, <3>5, <3>6, ExtendedFile
        <3>7. CASE file = current /\ kind \notin Counted
            BY <3>1, <3>4, <3>5, <3>7 DEF OneMore
        <3>8. CASE file = current /\ kind \in Counted
            <4>1. current'.counts = [Both' EXCEPT ![kind] = @ - 1] /\ own'[kind] > 0
                BY <3>1, <3>4, <3>5, <3>8
            <4> QED
                BY <3>1, <3>8, <4>1 DEF OneLess
        <3> QED
            BY <3>1, <3>2, <3>6, <3>7, <3>8
    <2> QED
        BY <2>3, <2>6 DEF EventsInv
<1>9. CASE UNCHANGED vars
    <2>1. current' = current /\ Both' = Both /\ UNCHANGED <<pc, status, own>>
        BY <1>4, <1>9 DEF vars, current, Both
    <2> QED
        BY <2>1 DEF EventsInv, OneLess
<1>10. CASE \/ StartSuite \/ Evaluate \/ EvaluationFails \/ OpenResults \/ WriteResults
            \/ OpenReport \/ WriteReport \/ NextAttempt \/ Complete \/ Die
    <2>1. pc' \notin {"running", "evaluating"}
        BY <1>10 DEF StartSuite, Evaluate, EvaluationFails, OpenResults, WriteResults, OpenReport,
                     WriteReport, NextAttempt, Complete, Die
    <2> QED
        BY <2>1 DEF EventsInv
<1> QED
    BY <1>5, <1>6, <1>7, <1>8, <1>9, <1>10 DEF Next, Step

-----------------------------------------------------------------------------
(* What is said of an attempt.                                              *)

\* A judged attempt is the last one in memory, and its result that of its run and file.
LEMMA EvaluatedAttempt ==
    ASSUME TypeInv, Next, Evaluate
    PROVE  \E context \in Contexts, events \in Tally, result \in Result :
              /\ result = AttemptResult(Verdict(CaseAt(position).expected, Context(context, events)),
                                        events)
              /\ events = current.counts \/ current.tail # "ended"
              /\ attempts' = Append(attempts, result)
              /\ Last(attempts') = result
<1>1. PICK events : events = Events(current)
    OBVIOUS
<1>2. PICK context \in Contexts :
          attempts' = Append(attempts,
            AttemptResult(Verdict(CaseAt(position).expected, Context(context, events)), events))
    BY <1>1 DEF Evaluate
<1>3. PICK verdict : verdict = Verdict(CaseAt(position).expected, Context(context, events))
    OBVIOUS
<1>4. PICK result : result = AttemptResult(verdict, events)
    OBVIOUS
<1>5. result \in Result
    BY <1>1, <1>3, <1>4, AttemptResultType DEF Evaluate
<1>6. events \in Tally /\ (events = current.counts \/ current.tail # "ended")
    BY <1>1, CurrentFile, EventsFacts DEF Evaluate
<1>7. attempts \in Seq(Result) /\ attempts' = Append(attempts, result)
    BY <1>2, <1>3, <1>4 DEF TypeInv, TypeOK
<1>8. Last(attempts') = result
    <2>1. Len(attempts') = Len(attempts) + 1 /\ attempts'[Len(attempts) + 1] = result
        BY <1>5, <1>7
    <2> QED
        BY <2>1 DEF Last
<1> QED
    BY <1>3, <1>4, <1>5, <1>6, <1>7, <1>8, Zenon

\* What an attempt is judged by: the events it had and those its file held before, but one
\* at the most, that of a run that failed.
EventsOfTheFile(events) ==
    events = Both \/ (status = "failed" /\ OneLess(events))

\* What can still be read when it is judged is that.
LEMMA EvaluatedEvents ==
    ASSUME TypeInv, EventsInv, Evaluate
    PROVE  current.tail = "ended" /\ EventsOfTheFile(current.counts)
BY DEF Evaluate, Readable, EventsInv, EventsOfTheFile

\* No more denied calls are read than there were.
LEMMA DenialsRead ==
    ASSUME TypeInv, NEW events \in Tally, EventsOfTheFile(events), events["denial"] > 0
    PROVE  own["denial"] + before["denial"] > 0
<1>1. own \in Tally /\ before \in Tally
    BY DEF TypeInv, TypeOK
<1>2. own["denial"] \in Nat /\ before["denial"] \in Nat /\ events["denial"] \in Nat
    BY <1>1, TallyFacts
<1>3. "denial" \in Counted
    BY DEF Counted
<1>4. Both["denial"] = own["denial"] + before["denial"]
    BY <1>3 DEF Both
<1>5. CASE events = Both
    BY <1>4, <1>5
<1>6. CASE OneLess(events)
    <2>1. PICK kind \in Counted : own[kind] > 0 /\ events = [Both EXCEPT ![kind] = @ - 1]
        BY <1>6 DEF OneLess
    <2>2. CASE kind = "denial"
        BY <1>2, <2>1, <2>2
    <2>3. CASE kind # "denial"
        <3>1. events["denial"] = Both["denial"]
            BY <1>3, <2>1, <2>3 DEF Both
        <3> QED
            BY <1>4, <3>1
    <2> QED
        BY <2>2, <2>3
<1> QED
    BY <1>5, <1>6 DEF EventsOfTheFile

\* A judged attempt's result agrees with itself and with the run.
LEMMA VerdictStep ==
    ASSUME TypeInv, EventsInv, Next, Evaluate
    PROVE  VerdictIsOfTheRun'
<1>1. PICK context \in Contexts, events \in Tally, result \in Result :
          /\ result = AttemptResult(Verdict(CaseAt(position).expected, Context(context, events)),
                                    events)
          /\ events = current.counts \/ current.tail # "ended"
          /\ Last(attempts') = result
    BY EvaluatedAttempt
<1>2. plan' = plan /\ UNCHANGED <<position, own, before, status>> /\ pc = "evaluating"
    BY DEF Next, Evaluate, runVars
<1>3. EventsOfTheFile(events)
    BY <1>1, EvaluatedEvents
<1>4. CaseAt(position)' = CaseAt(position)
    BY <1>2 DEF CaseAt
<1>5. PICK expected : expected = CaseAt(position).expected
    OBVIOUS
<1>6. expected.replay = {}
    BY <1>2, <1>5, CurrentFile, Positions DEF TypeInv, TypeOK
<1>7. PICK shown, verdict : shown = Context(context, events) /\ verdict = Verdict(expected, shown)
    OBVIOUS
<1>8. /\ shown.status = status /\ shown.denials = events["denial"]
      /\ shown.decisions # {} => events["denial"] > 0
    BY <1>7 DEF Context
<1>9. /\ verdict.passed <=> /\ verdict.artifact_passed
                            /\ verdict.runtime_passed
                            /\ verdict.tool_contract_passed
      /\ verdict.passed <=> verdict.failure_category = "none"
      /\ verdict.failure_category = "max_turns" => shown.status = "max_turns"
      /\ ~verdict.passed /\ shown.status = "failed" =>
            verdict.failure_category = "provider_error"
      /\ verdict.failure_category = "policy_denied" => shown.denials > 0
      /\ verdict.passed /\ expected.policy_decision_equals # {} => shown.decisions # {}
    BY <1>6, <1>7, VerdictFacts
<1>10. /\ result.passed = verdict.passed /\ result.artifact_passed = verdict.artifact_passed
       /\ result.runtime_passed = verdict.runtime_passed
       /\ result.tool_contract_passed = verdict.tool_contract_passed
       /\ result.failure_category = verdict.failure_category
    BY <1>1, <1>5, <1>7 DEF AttemptResult
<1>11. /\ result.passed <=> /\ result.artifact_passed
                            /\ result.runtime_passed
                            /\ result.tool_contract_passed
       /\ result.passed <=> result.failure_category = "none"
       /\ result.failure_category = "max_turns" => status = "max_turns"
       /\ ~result.passed /\ status = "failed" => result.failure_category = "provider_error"
    BY <1>8, <1>9, <1>10
<1>12. ASSUME \/ result.failure_category = "policy_denied"
              \/ result.passed /\ expected.policy_decision_equals # {}
       PROVE  own["denial"] + before["denial"] > 0
    <2>1. events["denial"] > 0
        BY <1>8, <1>9, <1>10, <1>12
    <2> QED
        BY <1>3, <2>1, DenialsRead
<1> QED
    BY <1>1, <1>2, <1>4, <1>5, <1>11, <1>12 DEF VerdictIsOfTheRun

\* Where the last attempt has just been judged it was judged in this step, or nothing changed.
LEMMA JustJudged ==
    [Next]_vars /\ pc' = "results" => (Evaluate /\ Next) \/ UNCHANGED vars
BY DEF Next, Step, StartSuite, StartAttempt, RecordEvent, EndRun, RecordFails, Evaluate,
       EvaluationFails, OpenResults, WriteResults, OpenReport, WriteReport, NextAttempt,
       Complete, Die

\* A result passed if its three groups did and has a category that says how its run ended,
\* and a denial it is judged by is of its own run or of those the file was used by before,
\* for every expectation, every run, and every error that cut its trace short.
THEOREM VerdictsAreOfTheRun == Spec => []VerdictIsOfTheRun
<1>1. Init => VerdictIsOfTheRun
    BY DEF Init, VerdictIsOfTheRun
<1>2. TypeInv /\ EventsInv /\ VerdictIsOfTheRun /\ [Next]_vars => VerdictIsOfTheRun'
    <2> SUFFICES ASSUME TypeInv, EventsInv, VerdictIsOfTheRun, [Next]_vars, pc' = "results"
                 PROVE  VerdictIsOfTheRun'
        BY DEF VerdictIsOfTheRun
    <2>1. CASE Evaluate /\ Next
        BY <2>1, VerdictStep
    <2>2. CASE UNCHANGED vars
        BY <2>2 DEF vars, VerdictIsOfTheRun, CaseAt
    <2> QED
        BY <2>1, <2>2, JustJudged
<1> QED
    BY <1>1, <1>2, TypeInit, TypeStep, EventsInit, EventsStep, PTL DEF Spec

-----------------------------------------------------------------------------
(* What an attempt is charged.                                              *)

\* The tokens a provider reports of a response, each at the rate of its kind.
Charge ==
    Reported.input * RateOrZero(Pricing.input) + Reported.output * RateOrZero(Pricing.output)
    + Reported.cache_creation * RateOrZero(Pricing.cache_creation)
    + Reported.cache_read * RateOrZero(Pricing.cache_read)

\* That is the sum over the kinds.
LEMMA ChargeIsASum ==
    MapThenSumSet(LAMBDA kind : Reported[kind] * RateOrZero(Pricing[kind]), TokenKinds) = Charge
<1> DEFINE weight == [kind \in TokenKinds |-> Reported[kind] * RateOrZero(Pricing[kind])]
<1>1. \A kind \in TokenKinds : Reported[kind] * RateOrZero(Pricing[kind]) \in Nat
    <2> SUFFICES ASSUME NEW kind \in TokenKinds
                 PROVE  Reported[kind] * RateOrZero(Pricing[kind]) \in Nat
        OBVIOUS
    <2>1. Reported[kind] \in Nat /\ RateOrZero(Pricing[kind]) \in Nat
        BY UsageAssumption, RateType
    <2> QED
        BY <2>1
<1>2. weight \in [TokenKinds -> Nat]
    BY <1>1
<1>3. IsFiniteSet(TokenKinds)
    <2>1. IsFiniteSet({})
        BY FS_EmptySet
    <2>2. IsFiniteSet({"input"})
        BY <2>1, FS_AddElement
    <2>3. IsFiniteSet({"input"} \cup {"output"})
        BY <2>2, FS_AddElement
    <2>4. IsFiniteSet(({"input"} \cup {"output"}) \cup {"cache_creation"})
        BY <2>3, FS_AddElement
    <2>5. IsFiniteSet((({"input"} \cup {"output"}) \cup {"cache_creation"}) \cup {"cache_read"})
        BY <2>4, FS_AddElement
    <2>6. TokenKinds = (({"input"} \cup {"output"}) \cup {"cache_creation"}) \cup {"cache_read"}
        BY DEF TokenKinds
    <2> QED
        BY <2>5, <2>6
<1>4. PICK h : Sums(h, weight, TokenKinds)
    BY <1>2, <1>3, SumsExist
<1> DEFINE Iter(f) ==
              [s \in SUBSET TokenKinds |->
                 IF s = {} THEN 0
                 ELSE Reported[CHOOSE x \in s : TRUE] * RateOrZero(Pricing[CHOOSE x \in s : TRUE])
                      + f[s \ {CHOOSE x \in s : TRUE}]]
<1>5. PICK g : g = CHOOSE f : f = Iter(f)
    OBVIOUS
<1>6. MapThenSumSet(LAMBDA kind : Reported[kind] * RateOrZero(Pricing[kind]), TokenKinds)
        = g[TokenKinds]
    BY <1>5 DEF MapThenSumSet, MapThenFoldSet
<1>7. ASSUME NEW f PROVE f = Iter(f) <=> Sums(f, weight, TokenKinds)
    BY <1>1 DEF Sums, FirstOf
<1> HIDE DEF Iter
<1>8. g = Iter(g)
    BY <1>4, <1>5, <1>7
<1>9. Sums(g, weight, TokenKinds)
    BY <1>7, <1>8
<1>10. AddsUp(g, weight, TokenKinds)
    BY <1>2, <1>3, <1>9, SumsAddUp
<1>11. g[TokenKinds] = weight["input"] + (weight["output"] + (weight["cache_creation"]
                          + (weight["cache_read"] + 0)))
    <2> HIDE DEF weight
    <2>1. g[TokenKinds] = weight["input"] + g[{"output", "cache_creation", "cache_read"}]
        <3>1. TokenKinds \ {"input"} = {"output", "cache_creation", "cache_read"}
              /\ "input" \in TokenKinds
            BY DEF TokenKinds
        <3> QED
            BY <1>10, <3>1 DEF AddsUp
    <2>2. g[{"output", "cache_creation", "cache_read"}]
            = weight["output"] + g[{"cache_creation", "cache_read"}]
        <3>1. /\ {"output", "cache_creation", "cache_read"} \in SUBSET TokenKinds
              /\ {"output", "cache_creation", "cache_read"} \ {"output"}
                    = {"cache_creation", "cache_read"}
            BY DEF TokenKinds
        <3> QED
            BY <1>10, <3>1 DEF AddsUp
    <2>3. g[{"cache_creation", "cache_read"}] = weight["cache_creation"] + g[{"cache_read"}]
        <3>1. /\ {"cache_creation", "cache_read"} \in SUBSET TokenKinds
              /\ {"cache_creation", "cache_read"} \ {"cache_creation"} = {"cache_read"}
            BY DEF TokenKinds
        <3> QED
            BY <1>10, <3>1 DEF AddsUp
    <2>4. g[{"cache_read"}] = weight["cache_read"] + 0
        <3>1. /\ {"cache_read"} \in SUBSET TokenKinds
              /\ {"cache_read"} \ {"cache_read"} = {}
            BY DEF TokenKinds
        <3> QED
            BY <1>10, <3>1 DEF AddsUp
    <2> QED
        BY <2>1, <2>2, <2>3, <2>4
<1>12. /\ weight["input"] = Reported.input * RateOrZero(Pricing.input)
       /\ weight["output"] = Reported.output * RateOrZero(Pricing.output)
       /\ weight["cache_creation"] = Reported.cache_creation * RateOrZero(Pricing.cache_creation)
       /\ weight["cache_read"] = Reported.cache_read * RateOrZero(Pricing.cache_read)
    BY DEF TokenKinds
<1>13. /\ weight["input"] \in Nat /\ weight["output"] \in Nat
       /\ weight["cache_creation"] \in Nat /\ weight["cache_read"] \in Nat
    BY <1>2 DEF TokenKinds
<1> HIDE DEF weight
<1>14. g[TokenKinds] = weight["input"] + weight["output"] + weight["cache_creation"]
                          + weight["cache_read"]
    BY <1>11, <1>13
<1> QED
    BY <1>6, <1>12, <1>14 DEF Charge

\* A number of responses is charged that number of times.
LEMMA Charged ==
    ASSUME NEW events \in Tally
    PROVE  /\ UsageOf(events).output = events["response"] * Reported.output
           /\ Uncached(UsageOf(events)) = events["response"] * Reported.input
           /\ Price(Pricing, UsageOf(events)) = events["response"] * Charge
           /\ EstimateUsd(Pricing, UsageOf(events)) \in {{}, {Rounded(events["response"] * Charge)}}
           /\ (\A kind \in TokenKinds : Pricing[kind] # {}) =>
                 EstimateUsd(Pricing, UsageOf(events)) # {}
<1>1. PICK n \in Nat : n = events["response"]
    BY TallyFacts
<1>2. PICK usage : usage = UsageOf(events)
    OBVIOUS
<1>3. PICK i, o, c, r \in Nat :
          /\ i = Reported.input /\ o = Reported.output
          /\ c = Reported.cache_creation /\ r = Reported.cache_read
    BY TokenTypes, UsageAssumption
<1>4. PICK pi, po, pc1, pr \in Nat :
          /\ pi = RateOrZero(Pricing.input) /\ po = RateOrZero(Pricing.output)
          /\ pc1 = RateOrZero(Pricing.cache_creation) /\ pr = RateOrZero(Pricing.cache_read)
    BY Rates
<1>5. /\ usage.input = n * (i + c + r) /\ usage.output = n * o
      /\ usage.cache_creation = n * c /\ usage.cache_read = n * r
    <2>1. /\ ModelUsage(Reported)["input"] = i + c + r /\ ModelUsage(Reported)["output"] = o
          /\ ModelUsage(Reported)["cache_creation"] = c /\ ModelUsage(Reported)["cache_read"] = r
        BY <1>3, ModelUsageFacts DEF TokenKinds
    <2>2. /\ usage["input"] = n * ModelUsage(Reported)["input"]
          /\ usage["output"] = n * ModelUsage(Reported)["output"]
          /\ usage["cache_creation"] = n * ModelUsage(Reported)["cache_creation"]
          /\ usage["cache_read"] = n * ModelUsage(Reported)["cache_read"]
        BY <1>1, <1>2 DEF UsageOf, TokenKinds
    <2> QED
        BY <2>1, <2>2
<1>6. n * i \in Nat /\ n * c \in Nat /\ n * r \in Nat /\ n * (i + c + r) = n * i + n * c + n * r
    OBVIOUS
<1>7. Uncached(usage) = n * i
    BY <1>5, <1>6 DEF Uncached
<1>8. (n * i) * pi + (n * o) * po + (n * c) * pc1 + (n * r) * pr
        = n * (i * pi + o * po + c * pc1 + r * pr)
    OBVIOUS
<1>9. Charge = i * pi + o * po + c * pc1 + r * pr
    BY <1>3, <1>4 DEF Charge
<1>10. PICK price : price = Price(Pricing, usage)
    OBVIOUS
<1>11. price = n * Charge
    BY <1>4, <1>5, <1>7, <1>8, <1>9, <1>10 DEF Price
<1>12. EstimateUsd(Pricing, usage) =
          IF \/ Pricing.input = {} \/ Pricing.output = {}
             \/ \E kind \in {"cache_creation", "cache_read"} : usage[kind] > 0 /\ Pricing[kind] = {}
          THEN {} ELSE {Rounded(price)}
    BY <1>10 DEF EstimateUsd
<1>13. EstimateUsd(Pricing, usage) \in {{}, {Rounded(n * Charge)}}
    BY <1>11, <1>12
<1>14. ASSUME \A kind \in TokenKinds : Pricing[kind] # {}
       PROVE  EstimateUsd(Pricing, usage) # {}
    <2>1. /\ Pricing["input"] # {} /\ Pricing["output"] # {}
          /\ Pricing["cache_creation"] # {} /\ Pricing["cache_read"] # {}
        BY <1>14 DEF TokenKinds
    <2> QED
        BY <1>12, <2>1
<1> QED
    BY <1>1, <1>2, <1>3, <1>5, <1>7, <1>10, <1>11, <1>13, <1>14

\* What a result says of a tally of events.
Tells(result, events, charge) ==
    /\ result.usage.output = events["response"] * Reported.output
    /\ result.denials = events["denial"]
    /\ result.cost \in {{}, {Rounded(events["response"] * charge)}}
    /\ (\A kind \in TokenKinds : Pricing[kind] # {}) => result.cost # {}

\* UsageIsOfTheFile, with the charge by its terms.
UsageTold ==
    pc = "results" =>
        \/ Tells(Last(attempts), Both, Charge)
        \/ /\ status = "failed"
           /\ \E kind \in Counted :
                 own[kind] > 0 /\ Tells(Last(attempts), [Both EXCEPT ![kind] = @ - 1], Charge)

\* It is the same.
LEMMA SameUsage == UsageIsOfTheFile <=> UsageTold
<1>1. PICK charge :
          charge = MapThenSumSet(LAMBDA kind : Reported[kind] * RateOrZero(Pricing[kind]), TokenKinds)
    OBVIOUS
<1>2. charge = Charge
    BY <1>1, ChargeIsASum
<1> QED
    BY <1>1, <1>2 DEF UsageIsOfTheFile, UsageTold, Tells, Both

\* A judged attempt's result tells of the events its file held.
LEMMA UsageStep ==
    ASSUME TypeInv, EventsInv, Next, Evaluate
    PROVE  UsageTold'
<1>1. PICK context \in Contexts, events \in Tally, result \in Result :
          /\ result = AttemptResult(Verdict(CaseAt(position).expected, Context(context, events)),
                                    events)
          /\ events = current.counts \/ current.tail # "ended"
          /\ Last(attempts') = result
    BY EvaluatedAttempt
<1>2. UNCHANGED <<own, before, status>>
    BY DEF Evaluate, runVars
<1>3. EventsOfTheFile(events)
    BY <1>1, EvaluatedEvents
<1>4. /\ result.usage = UsageOf(events) /\ result.denials = events["denial"]
      /\ result.cost = EstimateUsd(Pricing, UsageOf(events))
    BY <1>1 DEF AttemptResult
<1>5. Tells(result, events, Charge)
    BY <1>4, Charged DEF Tells
<1>6. Both' = Both
    BY <1>2 DEF Both
<1>7. \/ Tells(result, Both, Charge)
      \/ /\ status' = "failed"
         /\ \E kind \in Counted :
               own'[kind] > 0 /\ Tells(result, [Both EXCEPT ![kind] = @ - 1], Charge)
    BY <1>2, <1>3, <1>5 DEF EventsOfTheFile, OneLess
<1> QED
    BY <1>1, <1>6, <1>7 DEF UsageTold

\* The usage and the denials of a result are those of its attempt plus all its file held
\* before it, but for one event of a run that failed, and every token is charged once and
\* at the rate of its kind: whatever is reported, whatever is charged for it, and whatever
\* is missing from the price list.
THEOREM UsageIsCounted == Spec => []UsageIsOfTheFile
<1>1. Init => UsageTold
    BY DEF Init, UsageTold
<1>2. TypeInv /\ EventsInv /\ UsageTold /\ [Next]_vars => UsageTold'
    <2> SUFFICES ASSUME TypeInv, EventsInv, UsageTold, [Next]_vars, pc' = "results"
                 PROVE  UsageTold'
        BY DEF UsageTold
    <2>1. CASE Evaluate /\ Next
        BY <2>1, UsageStep
    <2>2. CASE UNCHANGED vars
        BY <2>2 DEF vars, UsageTold, Both
    <2> QED
        BY <2>1, <2>2, JustJudged
<1> QED
    BY <1>1, <1>2, SameUsage, TypeInit, TypeStep, EventsInit, EventsStep, PTL DEF Spec

-----------------------------------------------------------------------------
(* Counting by class.                                                       *)

\* The members of a set counted by class.
ClassSizes(P, class, T) == [t \in T |-> Cardinality({i \in P : class[i] = t})]

\* The counts add up to that of the set.
LEMMA CountsByClass ==
    ASSUME NEW P, IsFiniteSet(P), NEW class, NEW T, IsFiniteSet(T), \A i \in P : class[i] \in T
    PROVE  /\ ClassSizes(P, class, T) \in [T -> Nat]
           /\ \E count : AddsUp(count, ClassSizes(P, class, T), T) /\ count[T] = Cardinality(P)
<1> DEFINE Of(D) == {i \in P : class[i] \in D}
           count == [D \in SUBSET T |-> Cardinality(Of(D))]
           weight == ClassSizes(P, class, T)
<1>1. \A D : IsFiniteSet(Of(D)) /\ Cardinality(Of(D)) \in Nat
    <2> SUFFICES ASSUME NEW D PROVE IsFiniteSet(Of(D)) /\ Cardinality(Of(D)) \in Nat
        OBVIOUS
    <2>1. Of(D) \in SUBSET P
        OBVIOUS
    <2> HIDE DEF Of
    <2> QED
        BY <2>1, FS_Subset, FS_CardinalityType
<1>2. \A t : {i \in P : class[i] = t} = Of({t})
    OBVIOUS
<1>3. weight \in [T -> Nat] /\ \A t \in T : weight[t] = Cardinality(Of({t}))
    BY <1>1, <1>2 DEF ClassSizes
<1>4. count[{}] = 0
    <2>1. Of({}) = {}
        OBVIOUS
    <2>2. Cardinality(Of({})) = 0
        BY <2>1, FS_EmptySet
    <2> QED
        BY <2>2
<1>5. ASSUME NEW D \in SUBSET T, NEW t \in D
      PROVE  count[D] = weight[t] + count[D \ {t}]
    <2>1. /\ Of(D) = Of({t}) \cup Of(D \ {t})
          /\ Of({t}) \cap Of(D \ {t}) = {}
        OBVIOUS
    <2>2. /\ weight[t] = Cardinality(Of({t})) /\ count[D] = Cardinality(Of(D))
          /\ count[D \ {t}] = Cardinality(Of(D \ {t}))
        BY <1>3
    <2>3. Cardinality({}) = 0
        BY FS_EmptySet
    <2> HIDE DEF Of
    <2>4. Cardinality(Of(D)) = Cardinality(Of({t})) + Cardinality(Of(D \ {t})) - 0
        BY <1>1, <2>1, <2>3, FS_Union
    <2>5. Cardinality(Of({t})) \in Nat /\ Cardinality(Of(D \ {t})) \in Nat
        BY <1>1
    <2> HIDE DEF weight, count
    <2> QED
        BY <2>2, <2>4, <2>5
<1>6. count \in [SUBSET T -> Nat]
    BY <1>1
<1>7. count[T] = Cardinality(P)
    <2>1. Of(T) = P
        OBVIOUS
    <2> QED
        BY <2>1
<1> HIDE DEF count, weight
<1>8. AddsUp(count, weight, T)
    BY <1>4, <1>5, <1>6 DEF AddsUp
<1> QED
    BY <1>3, <1>7, <1>8 DEF weight

\* Classes that all have the same number of members.
LEMMA EvenClasses ==
    ASSUME NEW P, IsFiniteSet(P), NEW class, NEW T, IsFiniteSet(T), \A i \in P : class[i] \in T,
           NEW m \in Nat, \A t \in T : Cardinality({i \in P : class[i] = t}) = m
    PROVE  Cardinality(P) = m * Cardinality(T)
<1> DEFINE weight == ClassSizes(P, class, T)
           even == [D \in SUBSET T |-> m * Cardinality(D)]
<1>1. PICK count : AddsUp(count, weight, T) /\ count[T] = Cardinality(P)
    BY CountsByClass
<1>2. \A D \in SUBSET T : Cardinality(D) \in Nat
    BY Without
<1>3. even \in [SUBSET T -> Nat]
    BY <1>2
<1>4. even[{}] = 0
    BY FS_EmptySet
<1>5. \A t \in T : weight[t] = m
    BY DEF ClassSizes
<1>6. ASSUME NEW D \in SUBSET T, NEW t \in D
      PROVE  even[D] = weight[t] + even[D \ {t}]
    <2>1. /\ Cardinality(D) \in Nat /\ D \ {t} \in SUBSET T
          /\ Cardinality(D \ {t}) = Cardinality(D) - 1
        BY Without
    <2>2. m * Cardinality(D) = m + m * (Cardinality(D) - 1)
        BY <2>1
    <2>3. even[D] = m * Cardinality(D) /\ even[D \ {t}] = m * (Cardinality(D) - 1)
        BY <2>1
    <2> HIDE DEF even, weight
    <2> QED
        BY <1>5, <2>2, <2>3
<1>7. even[T] = m * Cardinality(T)
    OBVIOUS
<1> HIDE DEF even, weight
<1>8. AddsUp(even, weight, T)
    BY <1>3, <1>4, <1>6 DEF AddsUp
<1>9. count[T] = even[T]
    BY <1>1, <1>8, OneSum
<1> QED
    BY <1>1, <1>7, <1>9

\* A sum is a constant times another whose terms are so.
LEMMA SumTimes ==
    ASSUME NEW T, IsFiniteSet(T), NEW weight, NEW times, NEW factor \in Nat,
           NEW h, AddsUp(h, weight, T), NEW g, AddsUp(g, times, T),
           \A x \in T : weight[x] \in Nat /\ times[x] = weight[x] * factor
    PROVE  g[T] = h[T] * factor
<1> DEFINE scaled == [s \in SUBSET T |-> h[s] * factor]
<1>1. h \in [SUBSET T -> Nat] /\ h[{}] = 0
    BY DEF AddsUp
<1>2. \A s \in SUBSET T : h[s] \in Nat
    BY <1>1
<1>3. scaled \in [SUBSET T -> Nat] /\ scaled[{}] = 0
    BY <1>1, <1>2
<1>4. ASSUME NEW s \in SUBSET T, NEW x \in s
      PROVE  scaled[s] = times[x] + scaled[s \ {x}]
    <2>1. h[s] = weight[x] + h[s \ {x}]
        BY DEF AddsUp
    <2>2. h[s \ {x}] \in Nat /\ weight[x] \in Nat
        BY <1>2
    <2>3. (weight[x] + h[s \ {x}]) * factor = weight[x] * factor + h[s \ {x}] * factor
        BY <2>2
    <2>4. scaled[s] = h[s] * factor /\ scaled[s \ {x}] = h[s \ {x}] * factor
        OBVIOUS
    <2> QED
        BY <2>1, <2>3, <2>4
<1>5. scaled[T] = h[T] * factor
    OBVIOUS
<1> HIDE DEF scaled
<1>6. AddsUp(scaled, times, T)
    BY <1>3, <1>4 DEF AddsUp
<1>7. g[T] = scaled[T]
    BY <1>6, OneSum
<1> QED
    BY <1>5, <1>7

\* A sum of costs is the sum of their prices but for the rounding of each.
LEMMA SumRounded ==
    ASSUME NEW T, IsFiniteSet(T), NEW costs, NEW prices,
           NEW g, AddsUp(g, costs, T), NEW h, AddsUp(h, prices, T),
           \A x \in T : /\ costs[x] \in Nat /\ prices[x] \in Nat
                        /\ IsRounded(costs[x], prices[x], 1)
    PROVE  IsRounded(g[T], h[T], Cardinality(T))
<1> DEFINE Holds(s) == IsRounded(g[s], h[s], Cardinality(s))
           bad == {s \in SUBSET T : ~Holds(s)}
           sizes == {Cardinality(s) : s \in bad}
<1>1. PICK u \in Nat : u = RateScale
    BY ScaleAssumption
<1>2. \A s \in SUBSET T : g[s] \in Nat /\ h[s] \in Nat
    BY DEF AddsUp
<1> SUFFICES ASSUME bad # {} PROVE FALSE
    OBVIOUS
<1>3. sizes \subseteq Nat /\ sizes # {}
    BY Without
<1>4. PICK n \in sizes : \A i \in sizes : n <= i
    <2> HIDE DEF sizes
    <2> QED
        BY <1>3, Least
<1>5. PICK s \in bad : Cardinality(s) = n
    BY <1>4
<1>6. CASE s = {}
    <2>1. Cardinality(s) = 0 /\ g[s] = 0 /\ h[s] = 0
        BY <1>6, FS_EmptySet DEF AddsUp
    <2>2. IsRounded(0, 0, 0)
        BY <1>1 DEF IsRounded
    <2> QED
        BY <1>5, <2>1, <2>2
<1>7. CASE s # {}
    <2>1. PICK x \in s : TRUE
        BY <1>7
    <2>2. PICK rest : rest = s \ {x}
        OBVIOUS
    <2>3. /\ rest \in SUBSET T /\ Cardinality(rest) = Cardinality(s) - 1
          /\ Cardinality(s) \in Nat
        BY <1>5, <2>1, <2>2, Without
    <2>4. rest \notin bad
        <3>1. rest \in bad => Cardinality(s) <= Cardinality(rest)
            BY <1>4, <1>5
        <3> QED
            BY <2>3, <3>1
    <2>5. Holds(rest)
        BY <2>3, <2>4
    <2>6. PICK a, b, c, d, k \in Nat :
              /\ a = costs[x] /\ b = prices[x] /\ c = g[rest] /\ d = h[rest]
              /\ k = Cardinality(rest)
        BY <1>2, <1>5, <2>1, <2>3, Without
    <2>7. g[s] = a + c /\ h[s] = b + d /\ Cardinality(s) = k + 1
        BY <1>5, <2>1, <2>2, <2>3, <2>6 DEF AddsUp
    <2>8. /\ 2 * (a * u) <= 2 * b + 1 * u /\ 2 * b <= 2 * (a * u) + 1 * u
          /\ 2 * (c * u) <= 2 * d + k * u /\ 2 * d <= 2 * (c * u) + k * u
        BY <1>1, <1>5, <2>1, <2>5, <2>6 DEF IsRounded
    <2>9. /\ (a + c) * u = a * u + c * u /\ (k + 1) * u = k * u + u
          /\ a * u \in Nat /\ c * u \in Nat /\ k * u \in Nat
        OBVIOUS
    <2>10. /\ 2 * ((a + c) * u) <= 2 * (b + d) + (k + 1) * u
           /\ 2 * (b + d) <= 2 * ((a + c) * u) + (k + 1) * u
        BY <2>8, <2>9
    <2>11. Holds(s)
        BY <1>1, <2>7, <2>10 DEF IsRounded
    <2> QED
        BY <1>5, <2>11
<1> QED
    BY <1>6, <1>7

\* A sum is zero where all its terms are.
LEMMA SumOfNothing ==
    ASSUME NEW T, IsFiniteSet(T), NEW weight, NEW h, AddsUp(h, weight, T),
           \A x \in T : weight[x] \in Nat
    PROVE  h[T] \in Nat /\ (h[T] = 0 <=> \A x \in T : weight[x] = 0)
<1>1. h \in [SUBSET T -> Nat] /\ h[{}] = 0 /\ T \in SUBSET T
    BY DEF AddsUp
<1>2. ASSUME h[T] = 0, NEW x \in T PROVE weight[x] = 0
    <2>1. h[T] = weight[x] + h[T \ {x}] /\ h[T \ {x}] \in Nat
        BY <1>1 DEF AddsUp
    <2> QED
        BY <1>2, <2>1
<1>3. ASSUME \A x \in T : weight[x] = 0 PROVE h[T] = 0
    <2> DEFINE none == [s \in SUBSET T |-> 0]
    <2>1. none \in [SUBSET T -> Nat] /\ none[{}] = 0 /\ none[T] = 0
        OBVIOUS
    <2>2. \A s \in SUBSET T : \A x \in s : none[s] = weight[x] + none[s \ {x}]
        BY <1>3
    <2> HIDE DEF none
    <2>3. AddsUp(none, weight, T)
        BY <2>1, <2>2 DEF AddsUp
    <2> QED
        BY <2>1, <2>3, OneSum
<1> QED
    BY <1>1, <1>2, <1>3
-----------------------------------------------------------------------------
(* The report of a list of results.                                         *)

\* A result that agrees with itself and has the price of its responses.
Fine(result) ==
    /\ result.passed <=> /\ result.artifact_passed
                         /\ result.runtime_passed
                         /\ result.tool_contract_passed
    /\ result.passed <=> result.failure_category = "none"
    /\ \E events \in Tally : /\ result.usage = UsageOf(events)
                             /\ result.cost = EstimateUsd(Pricing, UsageOf(events))

\* The results a report may be made of.
Reportable(list) ==
    list \in Seq(Result) /\ list # <<>> /\ \A i \in DOMAIN list : Fine(list[i])

\* The places of a list, and those of its attempts that are counted in a column.
Counts(list, column) == {i \in DOMAIN list : column = "attempts" \/ list[i][column]}

\* The name of the case of each attempt, and its category.
NameOf(list) == [i \in DOMAIN list |-> list[i].case_name]
CategoryOf(list) == [i \in DOMAIN list |-> list[i].failure_category]

\* The sets a report counts are finite.
LEMMA FiniteList ==
    ASSUME NEW list, Reportable(list)
    PROVE  /\ IsFiniteSet(DOMAIN list) /\ Cardinality(DOMAIN list) = Len(list)
           /\ Len(list) \in Nat \ {0} /\ DOMAIN list = 1 .. Len(list)
           /\ \A S \in SUBSET DOMAIN list :
                 /\ IsFiniteSet(S) /\ Cardinality(S) \in Nat
                 /\ Cardinality(S) <= Cardinality(DOMAIN list)
           /\ \A i \in DOMAIN list : list[i] \in Result
<1>1. list \in Seq(Result) /\ list # <<>>
    BY DEF Reportable
<1>2. Len(list) \in Nat \ {0} /\ DOMAIN list = 1 .. Len(list)
    BY <1>1
<1>3. IsFiniteSet(1 .. Len(list)) /\ Cardinality(1 .. Len(list)) = Len(list)
    <2>1. Len(list) \in Int /\ 1 \in Int
        BY <1>2
    <2>2. /\ IsFiniteSet(1 .. Len(list))
          /\ Cardinality(1 .. Len(list)) = IF 1 > Len(list) THEN 0 ELSE Len(list) - 1 + 1
        BY <2>1, FS_Interval
    <2> QED
        BY <1>2, <2>2
<1>4. \A S \in SUBSET DOMAIN list :
          /\ IsFiniteSet(S) /\ Cardinality(S) \in Nat
          /\ Cardinality(S) <= Cardinality(DOMAIN list)
    BY <1>2, <1>3, FS_Subset, FS_CardinalityType
<1>5. \A i \in DOMAIN list : list[i] \in Result
    BY <1>1
<1> QED
    BY <1>2, <1>3, <1>4, <1>5

\* The image of a finite set is finite.
LEMMA FiniteImage ==
    ASSUME NEW P, IsFiniteSet(P), NEW f
    PROVE  IsFiniteSet({f[i] : i \in P})
<1> DEFINE bad == {n \in Nat : \E s \in SUBSET P : Cardinality(s) = n /\ ~IsFiniteSet({f[i] : i \in s})}
<1>1. bad = {}
    <2> SUFFICES ASSUME bad # {} PROVE FALSE
        OBVIOUS
    <2>1. PICK n \in bad : \A k \in bad : n <= k
        <3>1. bad \subseteq Nat
            OBVIOUS
        <3> HIDE DEF bad
        <3> QED
            BY <3>1, Least
    <2>2. PICK s \in SUBSET P : Cardinality(s) = n /\ ~IsFiniteSet({f[i] : i \in s})
        BY <2>1
    <2>3. s # {}
        <3>1. s = {} => {f[i] : i \in s} = {}
            OBVIOUS
        <3> QED
            BY <2>2, <3>1, FS_EmptySet
    <2>4. PICK x \in s : TRUE
        BY <2>3
    <2>5. /\ s \ {x} \in SUBSET P /\ Cardinality(s \ {x}) = n - 1
          /\ n \in Nat /\ Cardinality(s \ {x}) \in Nat
        BY <2>1, <2>2, <2>4, Without
    <2>6. n - 1 \notin bad
        <3>1. ~(n <= n - 1)
            BY <2>5
        <3> QED
            BY <2>1, <3>1
    <2>7. IsFiniteSet({f[i] : i \in s \ {x}})
        BY <2>5, <2>6
    <2>8. {f[i] : i \in s} = {f[i] : i \in s \ {x}} \cup {f[x]}
        BY <2>4
    <2>9. IsFiniteSet({f[i] : i \in s \ {x}} \cup {f[x]})
        BY <2>7, FS_AddElement
    <2> QED
        BY <2>2, <2>8, <2>9
<1>2. Cardinality(P) \in Nat /\ P \in SUBSET P
    BY FS_CardinalityType
<1> QED
    BY <1>1, <1>2

\* The cases and the categories of a report are finitely many.
LEMMA FiniteClasses ==
    ASSUME NEW list, Reportable(list)
    PROVE  /\ IsFiniteSet(CaseNames(list))
           /\ \A S \in SUBSET DOMAIN list :
                 /\ IsFiniteSet({list[i].case_name : i \in S})
                 /\ IsFiniteSet({list[i].failure_category : i \in S})
<1>1. ASSUME NEW S \in SUBSET DOMAIN list
      PROVE  /\ IsFiniteSet({list[i].case_name : i \in S})
             /\ IsFiniteSet({list[i].failure_category : i \in S})
    <2>1. IsFiniteSet(S)
        BY FiniteList
    <2>2. IsFiniteSet({NameOf(list)[i] : i \in S}) /\ IsFiniteSet({CategoryOf(list)[i] : i \in S})
        BY <2>1, FiniteImage
    <2>3. /\ \A i \in S : NameOf(list)[i] = list[i].case_name
          /\ \A i \in S : CategoryOf(list)[i] = list[i].failure_category
        BY DEF NameOf, CategoryOf
    <2>4. /\ {NameOf(list)[i] : i \in S} = {list[i].case_name : i \in S}
          /\ {CategoryOf(list)[i] : i \in S} = {list[i].failure_category : i \in S}
        BY <2>3
    <2> QED
        BY <2>2, <2>4
<1>2. DOMAIN list \in SUBSET DOMAIN list
    OBVIOUS
<1> QED
    BY <1>1, <1>2 DEF CaseNames

\* A row of the report counts the attempts of its case.
LEMMA RowCounts ==
    ASSUME NEW list, NEW name \in CaseNames(list), NEW column \in Columns
    PROVE  CaseRow(list, name)[column]
              = ClassSizes(Counts(list, column), NameOf(list), CaseNames(list))[name]
<1>1. CaseRow(list, name)[column]
        = Cardinality({i \in DOMAIN list : list[i].case_name = name
                                           /\ (column = "attempts" \/ list[i][column])})
    BY DEF CaseRow, CountOf
<1>2. {i \in DOMAIN list : list[i].case_name = name /\ (column = "attempts" \/ list[i][column])}
        = {i \in Counts(list, column) : NameOf(list)[i] = name}
    BY DEF Counts, NameOf
<1> QED
    BY <1>1, <1>2 DEF ClassSizes

\* The rows of a report add up to all attempts and to all that passed.
LEMMA RowsAddUp ==
    ASSUME NEW list, Reportable(list), NEW column \in Columns,
           NEW rows, rows = [name \in CaseNames(list) |-> CaseRow(list, name)]
    PROVE  MapThenSumSet(LAMBDA name : rows[name][column], DOMAIN rows)
              = Cardinality(Counts(list, column))
<1> DEFINE T == CaseNames(list)
           P == Counts(list, column)
           weight == ClassSizes(P, NameOf(list), T)
<1>1. DOMAIN rows = T
    OBVIOUS
<1>2. IsFiniteSet(T) /\ IsFiniteSet(P) /\ \A i \in P : NameOf(list)[i] \in T
    <2>1. P \in SUBSET DOMAIN list
        BY DEF Counts
    <2>2. \A i \in DOMAIN list : NameOf(list)[i] \in T
        BY DEF NameOf, CaseNames
    <2> QED
        BY <2>1, <2>2, FiniteClasses, FiniteList
<1>3. weight \in [T -> Nat] /\ \E count : AddsUp(count, weight, T) /\ count[T] = Cardinality(P)
    BY <1>2, CountsByClass
<1>4. PICK count : AddsUp(count, weight, T) /\ count[T] = Cardinality(P)
    BY <1>3
<1> DEFINE value == [name \in T |-> rows[name][column]]
<1>5. weight = value
    <2>1. \A name \in T : weight[name] = rows[name][column]
        BY RowCounts
    <2>2. weight = [name \in T |-> weight[name]]
        BY DEF ClassSizes
    <2> QED
        BY <2>1, <2>2
<1> HIDE DEF T, P, weight, value
<1>6. PICK h : Sums(h, value, T)
    BY <1>2, <1>3, <1>5, SumsExist
<1> DEFINE Iter(f) ==
              [s \in SUBSET T |->
                 IF s = {} THEN 0
                 ELSE rows[CHOOSE x \in s : TRUE][column] + f[s \ {CHOOSE x \in s : TRUE}]]
<1>7. PICK g : g = CHOOSE f : f = Iter(f)
    OBVIOUS
<1>8. MapThenSumSet(LAMBDA name : rows[name][column], DOMAIN rows) = g[T]
    BY <1>1, <1>7 DEF MapThenSumSet, MapThenFoldSet
<1>9. ASSUME NEW f PROVE f = Iter(f) <=> Sums(f, value, T)
    BY DEF Sums, FirstOf, value
<1> HIDE DEF Iter
<1>10. Sums(g, value, T)
    BY <1>6, <1>7, <1>9
<1>11. g[T] = count[T]
    BY <1>2, <1>3, <1>4, <1>5, <1>10, SumsAddUp, OneSum
<1> QED
    BY <1>4, <1>8, <1>11 DEF P
\* The failures of a report, by category, add up to the attempts that did not pass.
LEMMA FailuresAddUp ==
    ASSUME NEW list, Reportable(list), NEW failures, failures = FailureCounts(list)
    PROVE  /\ MapThenSumSet(LAMBDA c : failures[c], DOMAIN failures)
                 = Cardinality({i \in DOMAIN list : ~list[i].passed})
           /\ "none" \notin DOMAIN failures
<1> DEFINE P == {i \in DOMAIN list : ~list[i].passed}
           T == {list[i].failure_category : i \in P}
           weight == ClassSizes(P, CategoryOf(list), T)
<1>1. DOMAIN failures = T
    BY DEF FailureCounts
<1>2. IsFiniteSet(T) /\ IsFiniteSet(P) /\ \A i \in P : CategoryOf(list)[i] \in T
    BY FiniteClasses, FiniteList DEF CategoryOf
<1>3. weight \in [T -> Nat] /\ \E count : AddsUp(count, weight, T) /\ count[T] = Cardinality(P)
    BY <1>2, CountsByClass
<1>4. PICK count : AddsUp(count, weight, T) /\ count[T] = Cardinality(P)
    BY <1>3
<1>5. failures = weight
    <2>1. \A c : {i \in P : list[i].failure_category = c} = {i \in P : CategoryOf(list)[i] = c}
        BY DEF CategoryOf
    <2> QED
        BY <2>1 DEF FailureCounts, ClassSizes
<1>6. "none" \notin T
    <2> SUFFICES ASSUME NEW i \in P PROVE list[i].failure_category # "none"
        OBVIOUS
    <2>1. Fine(list[i]) /\ ~list[i].passed
        BY DEF Reportable
    <2> QED
        BY <2>1 DEF Fine
<1> HIDE DEF T, P, weight
<1>7. PICK h : Sums(h, failures, T)
    BY <1>2, <1>3, <1>5, SumsExist
<1> DEFINE Iter(f) ==
              [s \in SUBSET T |->
                 IF s = {} THEN 0
                 ELSE failures[CHOOSE x \in s : TRUE] + f[s \ {CHOOSE x \in s : TRUE}]]
<1>8. PICK g : g = CHOOSE f : f = Iter(f)
    OBVIOUS
<1>9. MapThenSumSet(LAMBDA c : failures[c], DOMAIN failures) = g[T]
    BY <1>1, <1>8 DEF MapThenSumSet, MapThenFoldSet
<1>10. ASSUME NEW f PROVE f = Iter(f) <=> Sums(f, failures, T)
    BY DEF Sums, FirstOf
<1> HIDE DEF Iter
<1>11. Sums(g, failures, T)
    BY <1>7, <1>8, <1>10
<1>12. g[T] = count[T]
    BY <1>2, <1>3, <1>4, <1>5, <1>11, SumsAddUp, OneSum
<1> QED
    BY <1>1, <1>4, <1>6, <1>9, <1>12 DEF P

\* The verdicts of a result are truth values.
LEMMA VerdictTypes ==
    ASSUME NEW result \in Result, NEW verdict \in Verdicts
    PROVE  result[verdict] \in BOOLEAN
<1>1. /\ result["passed"] \in BOOLEAN /\ result["artifact_passed"] \in BOOLEAN
      /\ result["runtime_passed"] \in BOOLEAN /\ result["tool_contract_passed"] \in BOOLEAN
    BY DEF Result
<1> QED
    BY <1>1 DEF Verdicts

\* Pass rates and pass@k, by the attempts they count.
LEMMA RateFacts ==
    ASSUME NEW list, Reportable(list), NEW verdict \in Verdicts
    PROVE  /\ PassRate(list, verdict)[1] = Cardinality(Counts(list, verdict))
           /\ PassRate(list, verdict)[2] = Cardinality(DOMAIN list)
           /\ PassAtK(list, verdict)[1]
                 = Cardinality({list[i].case_name : i \in Counts(list, verdict)})
           /\ PassAtK(list, verdict)[2] = Cardinality(CaseNames(list))
<1>1. verdict # "attempts"
    BY DEF Verdicts
<1>2. {i \in DOMAIN list : list[i][verdict]} = Counts(list, verdict)
    BY <1>1 DEF Counts
<1> QED
    BY <1>2 DEF PassRate, PassAtK, CountOf

\* The cases that passed at all are those whose row has an attempt that passed.
LEMMA PassedCases ==
    ASSUME NEW list, Reportable(list), NEW verdict \in Verdicts
    PROVE  {list[i].case_name : i \in Counts(list, verdict)}
              = {name \in CaseNames(list) : CaseRow(list, name)[verdict] > 0}
<1>1. ASSUME NEW name \in CaseNames(list)
      PROVE  CaseRow(list, name)[verdict] > 0
                <=> \E i \in Counts(list, verdict) : list[i].case_name = name
    <2> DEFINE P == {i \in Counts(list, verdict) : NameOf(list)[i] = name}
    <2>1. CaseRow(list, name)[verdict] = Cardinality(P)
        BY RowCounts DEF Columns, ClassSizes
    <2>2. P \in SUBSET DOMAIN list
        BY DEF Counts
    <2>3. P # {} <=> \E i \in Counts(list, verdict) : list[i].case_name = name
        BY DEF Counts, NameOf
    <2> HIDE DEF P
    <2>4. IsFiniteSet(P) /\ Cardinality(P) \in Nat
        BY <2>2, FiniteList
    <2>5. Cardinality(P) = 0 <=> P = {}
        BY <2>4, FS_EmptySet
    <2> QED
        BY <2>1, <2>3, <2>4, <2>5
<1>2. {list[i].case_name : i \in Counts(list, verdict)} \in SUBSET CaseNames(list)
    BY DEF Counts, CaseNames
<1> QED
    BY <1>1, <1>2

\* What passed passed each group.
LEMMA FewestPassed ==
    ASSUME NEW list, Reportable(list), NEW verdict \in Verdicts
    PROVE  Cardinality(Counts(list, "passed")) <= Cardinality(Counts(list, verdict))
<1>1. ASSUME NEW i \in Counts(list, "passed") PROVE i \in Counts(list, verdict)
    <2>1. i \in DOMAIN list /\ list[i].passed /\ Fine(list[i])
        BY DEF Counts, Reportable
    <2>2. list[i]["passed"] /\ list[i]["artifact_passed"] /\ list[i]["runtime_passed"]
          /\ list[i]["tool_contract_passed"]
        BY <2>1 DEF Fine
    <2>3. list[i][verdict]
        BY <2>2 DEF Verdicts
    <2> QED
        BY <2>1, <2>3 DEF Counts
<1>2. Counts(list, verdict) \in SUBSET DOMAIN list
    BY DEF Counts
<1>3. IsFiniteSet(Counts(list, verdict))
    BY <1>2, FiniteList
<1> QED
    BY <1>1, <1>3, FS_Subset

\* Those that did not pass are the others.
LEMMA FailedAreTheRest ==
    ASSUME NEW list, Reportable(list)
    PROVE  Cardinality({i \in DOMAIN list : ~list[i].passed})
              = Cardinality(DOMAIN list) - Cardinality(Counts(list, "passed"))
<1>1. {i \in DOMAIN list : ~list[i].passed} = DOMAIN list \ Counts(list, "passed")
    BY DEF Counts
<1>2. DOMAIN list \cap Counts(list, "passed") = Counts(list, "passed")
    BY DEF Counts
<1>3. IsFiniteSet(DOMAIN list)
    BY FiniteList
<1> QED
    BY <1>1, <1>2, <1>3, FS_Difference

\* Where every case has as many attempts, no pass rate is above its pass@k.
LEMMA RateBelowAtK ==
    ASSUME NEW list, Reportable(list), NEW verdict \in Verdicts, NEW m \in Nat,
           \A name \in CaseNames(list) : CaseRow(list, name).attempts = m
    PROVE  Cardinality(Counts(list, verdict)) * Cardinality(CaseNames(list))
              <= Cardinality({list[i].case_name : i \in Counts(list, verdict)})
                    * Cardinality(DOMAIN list)
<1> DEFINE N == DOMAIN list
           passing == Counts(list, verdict)
           passed == {list[i].case_name : i \in passing}
           theirs == {i \in N : list[i].case_name \in passed}
<1>1. /\ \A i \in N : NameOf(list)[i] = list[i].case_name
      /\ passing \in SUBSET N /\ theirs \in SUBSET N /\ passing \in SUBSET theirs
      /\ passed \in SUBSET CaseNames(list)
      /\ \A i \in N : NameOf(list)[i] \in CaseNames(list)
    BY DEF NameOf, Counts, CaseNames
<1>2. /\ IsFiniteSet(N) /\ IsFiniteSet(passing) /\ IsFiniteSet(theirs)
      /\ Cardinality(passing) \in Nat
    BY <1>1, FiniteList
<1>3. IsFiniteSet(passed) /\ IsFiniteSet(CaseNames(list))
    BY <1>1, FiniteClasses
<1>4. Cardinality(passed) \in Nat /\ Cardinality(CaseNames(list)) \in Nat
    BY <1>3, FS_CardinalityType
<1>5. ASSUME NEW name \in CaseNames(list)
      PROVE  Cardinality({i \in N : NameOf(list)[i] = name}) = m
    <2>1. "attempts" \in Columns /\ Counts(list, "attempts") = N
        BY DEF Columns, Counts
    <2>2. CaseRow(list, name)["attempts"] = m
        OBVIOUS
    <2> QED
        BY <2>1, <2>2, RowCounts DEF ClassSizes
<1>6. Cardinality(N) = m * Cardinality(CaseNames(list))
    <2> HIDE DEF N, passing, passed, theirs
    <2>1. PICK class, T : class = NameOf(list) /\ T = CaseNames(list)
        OBVIOUS
    <2>2. \A t \in T : Cardinality({i \in N : class[i] = t}) = m
        BY <1>5, <2>1
    <2>3. Cardinality(N) = m * Cardinality(T)
        BY <1>1, <1>2, <1>3, <2>1, <2>2, EvenClasses
    <2> QED
        BY <2>1, <2>3
<1>7. ASSUME NEW name \in passed
      PROVE  Cardinality({i \in theirs : NameOf(list)[i] = name}) = m
    <2>1. {i \in theirs : NameOf(list)[i] = name} = {i \in N : NameOf(list)[i] = name}
        BY <1>1
    <2> QED
        BY <1>1, <1>5, <2>1
<1>8. \A i \in theirs : NameOf(list)[i] \in passed
    BY <1>1
<1> HIDE DEF N, passing, passed, theirs
<1>9. Cardinality(theirs) = m * Cardinality(passed)
    BY <1>2, <1>3, <1>7, <1>8, EvenClasses
<1>10. Cardinality(passing) <= Cardinality(theirs)
    BY <1>1, <1>2, FS_Subset
<1>11. PICK a, b, c \in Nat :
           a = Cardinality(passing) /\ b = Cardinality(passed) /\ c = Cardinality(CaseNames(list))
    BY <1>2, <1>4
<1>12. a <= m * b
    BY <1>9, <1>10, <1>11
<1>13. a * c <= (m * b) * c
    <2>1. PICK d \in Nat : m * b = a + d
        BY <1>12
    <2>2. (a + d) * c = a * c + d * c /\ d * c \in Nat /\ a * c \in Nat
        OBVIOUS
    <2> QED
        BY <2>1, <2>2
<1>14. (m * b) * c = b * (m * c)
    OBVIOUS
<1> QED
    BY <1>6, <1>11, <1>13, <1>14 DEF N, passing, passed
-----------------------------------------------------------------------------
(* The price of a report.                                                   *)

\* All that a number of responses used is in the price list.
Priced(n) ==
    /\ Pricing.input # {} /\ Pricing.output # {}
    /\ \A kind \in {"cache_creation", "cache_read"} :
          n = 0 \/ Reported[kind] = 0 \/ Pricing[kind] # {}

\* The price of that number of responses.
LEMMA PriceOf ==
    ASSUME NEW events \in Tally
    PROVE  EstimateUsd(Pricing, UsageOf(events))
              = IF Priced(events["response"]) THEN {Rounded(events["response"] * Charge)}
                ELSE {}
<1>1. PICK n \in Nat : n = events["response"]
    BY TallyFacts
<1>2. PICK usage : usage = UsageOf(events)
    OBVIOUS
<1>3. EstimateUsd(Pricing, usage) \in {{}, {Rounded(n * Charge)}}
    BY <1>1, <1>2, Charged
<1>4. ASSUME NEW kind \in {"cache_creation", "cache_read"}
      PROVE  usage[kind] > 0 <=> n # 0 /\ Reported[kind] # 0
    <2>1. kind \in TokenKinds \ {"input"}
        BY DEF TokenKinds
    <2>2. PICK r \in Nat : r = Reported[kind]
        BY <2>1, UsageAssumption
    <2>3. usage[kind] = n * r
        BY <1>1, <1>2, <2>1, <2>2, ModelUsageFacts DEF UsageOf
    <2>4. n * r > 0 <=> n # 0 /\ r # 0
        <3>1. CASE n = 0 \/ r = 0
            BY <3>1
        <3>2. CASE n # 0 /\ r # 0
            <4>1. PICK k \in Nat : n = k + 1
                BY <3>2
            <4>2. n * r = k * r + r /\ k * r \in Nat
                BY <4>1
            <4> QED
                BY <3>2, <4>2
        <3> QED
            BY <3>1, <3>2
    <2> QED
        BY <2>2, <2>3, <2>4
<1>5. EstimateUsd(Pricing, usage) = {} <=>
         \/ Pricing.input = {} \/ Pricing.output = {}
         \/ \E kind \in {"cache_creation", "cache_read"} : usage[kind] > 0 /\ Pricing[kind] = {}
    <2>1. PICK cost : cost = Rounded(Price(Pricing, usage))
        OBVIOUS
    <2>2. EstimateUsd(Pricing, usage) =
             IF \/ Pricing.input = {} \/ Pricing.output = {}
                \/ \E kind \in {"cache_creation", "cache_read"} :
                      usage[kind] > 0 /\ Pricing[kind] = {}
             THEN {} ELSE {cost}
        BY <2>1 DEF EstimateUsd
    <2> QED
        BY <2>2
<1>6. EstimateUsd(Pricing, usage) = {} <=> ~Priced(n)
    BY <1>4, <1>5 DEF Priced
<1> QED
    BY <1>1, <1>2, <1>3, <1>6

\* The sum of one kind of token over a list.
LEMMA UsageSum ==
    ASSUME NEW list, Reportable(list), NEW kind \in TokenKinds
    PROVE  \E g : /\ AddsUp(g, [i \in DOMAIN list |-> list[i].usage[kind]], DOMAIN list)
                  /\ TotalUsage(list)[kind] = g[DOMAIN list]
<1> DEFINE T == DOMAIN list
           value == [i \in T |-> list[i].usage[kind]]
<1>1. IsFiniteSet(T)
    BY FiniteList
<1>2. value \in [T -> Nat]
    <2>1. \A i \in T : list[i].usage \in [TokenKinds -> Nat]
        BY FiniteList DEF Result
    <2> QED
        BY <2>1
<1>3. PICK h : Sums(h, value, T)
    BY <1>1, <1>2, SumsExist
<1> DEFINE Iter(f) ==
              [s \in SUBSET T |->
                 IF s = {} THEN 0
                 ELSE list[CHOOSE x \in s : TRUE].usage[kind] + f[s \ {CHOOSE x \in s : TRUE}]]
<1>4. PICK g : g = CHOOSE f : f = Iter(f)
    OBVIOUS
<1>5. TotalUsage(list)[kind] = g[T]
    BY <1>4 DEF TotalUsage, SumOf, MapThenSumSet, MapThenFoldSet
<1>6. ASSUME NEW f PROVE f = Iter(f) <=> Sums(f, value, T)
    BY DEF Sums, FirstOf
<1> HIDE DEF Iter, value, T
<1>7. Sums(g, value, T)
    BY <1>3, <1>4, <1>6
<1>8. AddsUp(g, value, T)
    BY <1>1, <1>2, <1>7, SumsAddUp
<1> QED
    BY <1>5, <1>8 DEF value, T

\* The sum of the prices of a list, none of which is missing.
LEMMA CostSum ==
    ASSUME NEW list, Reportable(list), \A i \in DOMAIN list : list[i].cost # {}
    PROVE  \E g : /\ AddsUp(g, [i \in DOMAIN list |-> RateOrZero(list[i].cost)], DOMAIN list)
                  /\ TotalEstimatedCost(list) = {g[DOMAIN list]}
<1> DEFINE T == DOMAIN list
           value == [i \in T |-> RateOrZero(list[i].cost)]
<1>1. IsFiniteSet(T)
    BY FiniteList
<1>2. value \in [T -> Nat]
    <2>1. \A i \in T : list[i].cost \in SUBSET Nat
        BY FiniteList DEF Result
    <2> QED
        BY <2>1 DEF RateOrZero
<1>3. PICK h : Sums(h, value, T)
    BY <1>1, <1>2, SumsExist
<1> DEFINE Iter(f) ==
              [s \in SUBSET T |->
                 IF s = {} THEN 0
                 ELSE RateOrZero(list[CHOOSE x \in s : TRUE].cost)
                      + f[s \ {CHOOSE x \in s : TRUE}]]
<1>4. PICK g : g = CHOOSE f : f = Iter(f)
    OBVIOUS
<1>5. TotalEstimatedCost(list) = {g[T]}
    BY <1>4 DEF TotalEstimatedCost, SumOf, MapThenSumSet, MapThenFoldSet
<1>6. ASSUME NEW f PROVE f = Iter(f) <=> Sums(f, value, T)
    BY DEF Sums, FirstOf
<1> HIDE DEF Iter, value, T
<1>7. Sums(g, value, T)
    BY <1>3, <1>4, <1>6
<1>8. AddsUp(g, value, T)
    BY <1>1, <1>2, <1>7, SumsAddUp
<1> QED
    BY <1>5, <1>8 DEF value, T

\* The cost in a report is the price of its tokens, but for the rounding of each.
LEMMA CostAddsUp ==
    ASSUME NEW list, Reportable(list)
    PROVE  /\ TotalEstimatedCost(list) = {} <=> EstimateUsd(Pricing, TotalUsage(list)) = {}
           /\ \A cost \in TotalEstimatedCost(list) :
                 IsRounded(cost, Price(Pricing, TotalUsage(list)), Cardinality(DOMAIN list))
<1> DEFINE T == DOMAIN list
           Is(i, events) == /\ list[i].usage = UsageOf(events)
                            /\ list[i].cost = EstimateUsd(Pricing, UsageOf(events))
           events == [i \in T |-> CHOOSE e \in Tally : Is(i, e)]
           count == [i \in T |-> events[i]["response"]]
<1>1. \A i \in T : events[i] \in Tally /\ Is(i, events[i])
    <2>1. \A i \in T : \E e \in Tally : Is(i, e)
        BY DEF Reportable, Fine
    <2> QED
        BY <2>1
<1>2. \A i \in T : /\ count[i] \in Nat
                   /\ \A kind \in TokenKinds :
                         list[i].usage[kind] = count[i] * ModelUsage(Reported)[kind]
                   /\ list[i].cost = IF Priced(count[i]) THEN {Rounded(count[i] * Charge)}
                                     ELSE {}
    <2> SUFFICES ASSUME NEW i \in T
                 PROVE  /\ count[i] \in Nat
                        /\ \A kind \in TokenKinds :
                              list[i].usage[kind] = count[i] * ModelUsage(Reported)[kind]
                        /\ list[i].cost = IF Priced(count[i]) THEN {Rounded(count[i] * Charge)}
                                          ELSE {}
        OBVIOUS
    <2>1. PICK e \in Tally : e = events[i] /\ Is(i, e) /\ count[i] = e["response"]
        BY <1>1
    <2> HIDE DEF count, events
    <2>2. e["response"] \in Nat
        BY TallyFacts
    <2>3. list[i].cost = IF Priced(e["response"]) THEN {Rounded(e["response"] * Charge)}
                         ELSE {}
        BY <2>1, PriceOf
    <2> QED
        BY <2>1, <2>2, <2>3 DEF UsageOf
<1>3. IsFiniteSet(T) /\ T # {} /\ count \in [T -> Nat]
    <2>1. count \in [T -> Nat]
        BY <1>2
    <2> QED
        BY <2>1, FiniteList
<1> HIDE DEF T, count, events
<1>4. PICK h : AddsUp(h, count, T)
    BY <1>3, SumsExist, SumsAddUp
<1>5. PICK n \in Nat : n = h[T]
    BY <1>2, <1>3, <1>4, SumOfNothing
<1>6. n = 0 <=> \A i \in T : count[i] = 0
    BY <1>2, <1>3, <1>4, <1>5, SumOfNothing
<1>7. ASSUME NEW kind \in TokenKinds
      PROVE  TotalUsage(list)[kind] = n * ModelUsage(Reported)[kind]
    <2>1. PICK used, g : /\ used = [i \in T |-> list[i].usage[kind]]
                         /\ AddsUp(g, used, T)
                         /\ TotalUsage(list)[kind] = g[T]
        BY UsageSum DEF T
    <2>2. PICK factor \in Nat : factor = ModelUsage(Reported)[kind]
        BY ModelUsageFacts
    <2>3. ASSUME NEW i \in T PROVE used[i] = count[i] * factor
        BY <1>2, <2>1, <2>2
    <2>4. \A i \in T : count[i] \in Nat
        BY <1>2
    <2>5. IsFiniteSet(T)
        BY <1>3
    <2>6. AddsUp(g, used, T)
        BY <2>1
    <2>7. g[T] = h[T] * factor
        BY <1>4, <2>3, <2>4, <2>5, <2>6, SumTimes
    <2> QED
        BY <1>5, <2>1, <2>2, <2>7
<1>8. PICK all \in Tally : all["response"] = n
    <2>1. [k \in Counted |-> n] \in Tally /\ [k \in Counted |-> n]["response"] = n
        BY DEF Tally, Counted
    <2> QED
        BY <2>1
<1>9. TotalUsage(list) = UsageOf(all)
    <2>1. TotalUsage(list) = [kind \in TokenKinds |-> TotalUsage(list)[kind]]
        BY DEF TotalUsage
    <2>2. UsageOf(all) = [kind \in TokenKinds |-> n * ModelUsage(Reported)[kind]]
        BY <1>8 DEF UsageOf
    <2> QED
        BY <1>7, <2>1, <2>2
<1>10. /\ EstimateUsd(Pricing, TotalUsage(list)) = {} <=> ~Priced(n)
       /\ Price(Pricing, TotalUsage(list)) = n * Charge
    BY <1>8, <1>9, PriceOf, Charged
<1>11. \A i \in T : list[i].cost = {} <=> ~Priced(count[i])
    BY <1>2
<1>12. Priced(n) <=> \A i \in T : Priced(count[i])
    BY <1>3, <1>6 DEF Priced
<1>13. CASE Priced(n)
    <2>1. PICK cost, g : /\ cost = [i \in T |-> RateOrZero(list[i].cost)]
                         /\ AddsUp(g, cost, T)
                         /\ TotalEstimatedCost(list) = {g[T]}
        BY <1>11, <1>12, <1>13, CostSum DEF T
    <2>2. PICK charge : charge = Charge
        OBVIOUS
    <2>3. charge \in Nat
        <3>1. PICK i, o, c, r \in Nat :
                  /\ i = Reported.input /\ o = Reported.output
                  /\ c = Reported.cache_creation /\ r = Reported.cache_read
            BY TokenTypes, UsageAssumption
        <3>2. PICK pi, po, pc1, pr \in Nat :
                  /\ pi = RateOrZero(Pricing.input) /\ po = RateOrZero(Pricing.output)
                  /\ pc1 = RateOrZero(Pricing.cache_creation) /\ pr = RateOrZero(Pricing.cache_read)
            BY Rates
        <3>3. i * pi + o * po + c * pc1 + r * pr \in Nat
            OBVIOUS
        <3> QED
            BY <2>2, <3>1, <3>2, <3>3 DEF Charge
    <2> DEFINE exact == [i \in T |-> count[i] * charge]
    <2>4. ASSUME NEW i \in T
          PROVE  /\ cost[i] \in Nat /\ exact[i] \in Nat /\ IsRounded(cost[i], exact[i], 1)
                 /\ exact[i] = count[i] * charge
        <3>1. PICK k \in Nat : k = count[i]
            BY <1>2
        <3>2. list[i].cost = {Rounded(k * charge)} /\ k * charge \in Nat
            <4>1. Priced(count[i])
                BY <1>12, <1>13
            <4>2. list[i].cost = {Rounded(count[i] * Charge)}
                BY <1>2, <4>1
            <4>3. list[i].cost = {Rounded(k * charge)}
                BY <2>2, <3>1, <4>2, Zenon
            <4>4. k * charge \in Nat
                BY <2>3
            <4> QED
                BY <4>3, <4>4
        <3>3. \A x : RateOrZero({x}) = x
            BY DEF RateOrZero
        <3>4. cost[i] = Rounded(k * charge) /\ exact[i] = k * charge
            BY <2>1, <3>1, <3>2, <3>3
        <3> QED
            BY <3>1, <3>2, <3>4, RoundedFacts
    <2>5. PICK sum : AddsUp(sum, exact, T)
        <3>1. exact \in [T -> Nat]
            BY <2>4
        <3> HIDE DEF exact
        <3> QED
            BY <1>3, <3>1, SumsExist, SumsAddUp
    <2> HIDE DEF exact
    <2>6. sum[T] = h[T] * charge
        BY <1>2, <1>3, <1>4, <2>3, <2>4, <2>5, SumTimes
    <2>7. IsRounded(g[T], sum[T], Cardinality(T))
        BY <1>3, <2>1, <2>4, <2>5, SumRounded
    <2> QED
        BY <1>5, <1>10, <1>13, <2>1, <2>2, <2>6, <2>7 DEF T
<1>14. CASE ~Priced(n)
    <2>1. \E i \in DOMAIN list : list[i].cost = {}
        BY <1>11, <1>12, <1>14 DEF T
    <2>2. TotalEstimatedCost(list) = {}
        BY <2>1 DEF TotalEstimatedCost
    <2> QED
        BY <1>10, <1>14, <2>2
<1> QED
    BY <1>13, <1>14
-----------------------------------------------------------------------------
(* The report on the disk.                                                  *)

\* What ReportAddsUp says of a report by itself.
Right(content, rows) ==
    /\ MapThenSumSet(LAMBDA name : rows[name]["attempts"], DOMAIN rows) = content.attempts
    /\ \A verdict \in Verdicts :
          /\ MapThenSumSet(LAMBDA name : rows[name][verdict], DOMAIN rows)
                = content.rate[verdict][1]
          /\ content.at_k[verdict][1]
                = Cardinality({name \in DOMAIN rows : rows[name][verdict] > 0})
          /\ content.rate["passed"][1] <= content.rate[verdict][1]
          /\ (\A name, other \in DOMAIN rows : rows[name].attempts = rows[other].attempts)
             => content.rate[verdict][1] * content.at_k[verdict][2]
                    <= content.at_k[verdict][1] * content.rate[verdict][2]
    /\ MapThenSumSet(LAMBDA c : content.failures[c], DOMAIN content.failures)
          = content.attempts - content.rate["passed"][1]
    /\ "none" \notin DOMAIN content.failures
    /\ content.cost = {} <=> EstimateUsd(Pricing, content.usage) = {}
    /\ \A cost \in content.cost :
          IsRounded(cost, Price(Pricing, content.usage), content.attempts)

\* It is so of the report of a list.
LEMMA ReportFacts ==
    ASSUME NEW list, Reportable(list), NEW content, content = Report(list),
           NEW rows, rows = content.cases
    PROVE  content.attempts = Len(list) /\ Right(content, rows)
<1>1. /\ content.attempts = Cardinality(DOMAIN list)
      /\ \A verdict \in Verdicts : content.rate[verdict] = PassRate(list, verdict)
      /\ \A verdict \in Verdicts : content.at_k[verdict] = PassAtK(list, verdict)
      /\ content.usage = TotalUsage(list) /\ content.cost = TotalEstimatedCost(list)
      /\ content.failures = FailureCounts(list)
      /\ rows = [name \in CaseNames(list) |-> CaseRow(list, name)]
    BY DEF Report
<1>2. /\ "passed" \in Verdicts /\ "attempts" \in Columns /\ Verdicts \subseteq Columns
      /\ Counts(list, "attempts") = DOMAIN list
    BY DEF Verdicts, Columns, Counts
<1>3. content.attempts = Len(list)
    BY <1>1, FiniteList
<1>4. MapThenSumSet(LAMBDA name : rows[name]["attempts"], DOMAIN rows) = content.attempts
    <2>1. PICK column \in Columns : column = "attempts"
        BY <1>2
    <2>2. MapThenSumSet(LAMBDA name : rows[name][column], DOMAIN rows)
            = Cardinality(Counts(list, column))
        BY <1>1, RowsAddUp
    <2> QED
        BY <1>1, <1>2, <2>1, <2>2
<1>5. ASSUME NEW verdict \in Verdicts
      PROVE  MapThenSumSet(LAMBDA name : rows[name][verdict], DOMAIN rows)
                = content.rate[verdict][1]
    <2>1. MapThenSumSet(LAMBDA name : rows[name][verdict], DOMAIN rows)
            = Cardinality(Counts(list, verdict))
        BY <1>1, <1>2, RowsAddUp
    <2> QED
        BY <1>1, <2>1, RateFacts
<1>6. ASSUME NEW verdict \in Verdicts
      PROVE  content.at_k[verdict][1]
                = Cardinality({name \in DOMAIN rows : rows[name][verdict] > 0})
    <2>1. {name \in DOMAIN rows : rows[name][verdict] > 0}
            = {name \in CaseNames(list) : CaseRow(list, name)[verdict] > 0}
        BY <1>1
    <2>2. Cardinality({name \in DOMAIN rows : rows[name][verdict] > 0})
             = Cardinality({list[i].case_name : i \in Counts(list, verdict)})
        BY <2>1, PassedCases
    <2> QED
        BY <1>1, <2>2, RateFacts
<1>7. ASSUME NEW verdict \in Verdicts
      PROVE  content.rate["passed"][1] <= content.rate[verdict][1]
    <2>1. /\ content.rate["passed"][1] = Cardinality(Counts(list, "passed"))
          /\ content.rate[verdict][1] = Cardinality(Counts(list, verdict))
        BY <1>1, <1>2, RateFacts
    <2> QED
        BY <2>1, FewestPassed
<1>8. ASSUME NEW verdict \in Verdicts,
             \A name, other \in DOMAIN rows : rows[name].attempts = rows[other].attempts
      PROVE  content.rate[verdict][1] * content.at_k[verdict][2]
                <= content.at_k[verdict][1] * content.rate[verdict][2]
    <2>1. PICK i \in DOMAIN list : TRUE
        BY FiniteList
    <2>2. PICK name \in CaseNames(list) : TRUE
        BY DEF CaseNames
    <2>3. PICK m : m = CaseRow(list, name)["attempts"]
        OBVIOUS
    <2>4. \A other \in CaseNames(list) : CaseRow(list, other).attempts = m
        BY <1>1, <1>8, <2>3
    <2>5. m \in Nat
        <3> DEFINE P == {k \in Counts(list, "attempts") : NameOf(list)[k] = name}
        <3>1. P \in SUBSET DOMAIN list
            BY <1>2
        <3>2. m = Cardinality(P)
            BY <1>2, <2>3, RowCounts DEF ClassSizes
        <3> HIDE DEF P
        <3> QED
            BY <3>1, <3>2, FiniteList
    <2>6. Cardinality(Counts(list, verdict)) * Cardinality(CaseNames(list))
             <= Cardinality({list[k].case_name : k \in Counts(list, verdict)})
                   * Cardinality(DOMAIN list)
        BY <2>4, <2>5, RateBelowAtK
    <2> QED
        BY <1>1, <2>6, RateFacts
<1>9. /\ MapThenSumSet(LAMBDA c : content.failures[c], DOMAIN content.failures)
            = content.attempts - content.rate["passed"][1]
      /\ "none" \notin DOMAIN content.failures
    <2>1. PICK failures : failures = content.failures /\ failures = FailureCounts(list)
        BY <1>1
    <2>2. /\ MapThenSumSet(LAMBDA c : failures[c], DOMAIN failures)
                = Cardinality({i \in DOMAIN list : ~list[i].passed})
          /\ "none" \notin DOMAIN failures
        BY <2>1, FailuresAddUp
    <2>3. content.rate["passed"][1] = Cardinality(Counts(list, "passed"))
        BY <1>1, <1>2, RateFacts
    <2> QED
        BY <1>1, <2>1, <2>2, <2>3, FailedAreTheRest
<1>10. /\ content.cost = {} <=> EstimateUsd(Pricing, content.usage) = {}
       /\ \A cost \in content.cost :
             IsRounded(cost, Price(Pricing, content.usage), content.attempts)
    BY <1>1, CostAddsUp
<1> QED
    BY <1>3, <1>4, <1>5, <1>6, <1>7, <1>8, <1>9, <1>10 DEF Right
\* The list a report was made of, where it is in the suite and beside results.json: it has
\* not the attempt in progress yet, or is of an earlier suite while this one has its first.
Told(list) ==
    /\ pc \in {"attempt", "running", "evaluating", "results", "writing results", "report"} =>
          \/ report.suite = suite /\ Len(list) = position - 1 /\ IsPrefix(list, attempts)
          \/ report.suite < suite /\ position = 1
    /\ pc = "next" => report.suite = suite /\ list = attempts
    /\ results.whole =>
          \/ /\ report.suite = results.suite
             /\ Len(list) \in {Len(results.content) - 1, Len(results.content)}
             /\ IsPrefix(list, results.content)
          \/ report.suite < results.suite /\ Len(results.content) = 1

\* The report on the disk is that of such a list.
ReportInv ==
    /\ \A i \in DOMAIN attempts : Fine(attempts[i])
    /\ pc = "writing report" => ~report.whole
    /\ report.whole =>
          \E list \in Seq(Result) :
             report.content = Report(list) /\ Reportable(list) /\ Told(list)

\* The result of a judged attempt is fine.
LEMMA EvaluatedIsFine ==
    ASSUME TypeInv, pc = "evaluating", NEW context, NEW events \in Tally, NEW result,
           result = AttemptResult(Verdict(CaseAt(position).expected, Context(context, events)),
                                  events)
    PROVE  Fine(result)
<1>1. PICK expected, shown, verdict :
          /\ expected = CaseAt(position).expected /\ shown = Context(context, events)
          /\ verdict = Verdict(expected, shown)
    OBVIOUS
<1>2. expected.replay = {}
    BY <1>1, CurrentFile, Positions DEF TypeInv, TypeOK
<1>3. /\ verdict.passed <=> /\ verdict.artifact_passed
                            /\ verdict.runtime_passed
                            /\ verdict.tool_contract_passed
      /\ verdict.passed <=> verdict.failure_category = "none"
    BY <1>1, <1>2, VerdictFacts
<1>4. /\ result.passed = verdict.passed /\ result.artifact_passed = verdict.artifact_passed
      /\ result.runtime_passed = verdict.runtime_passed
      /\ result.tool_contract_passed = verdict.tool_contract_passed
      /\ result.failure_category = verdict.failure_category
      /\ result.usage = UsageOf(events) /\ result.cost = EstimateUsd(Pricing, UsageOf(events))
    BY <1>1 DEF AttemptResult
<1> QED
    BY <1>3, <1>4 DEF Fine

\* Nothing is reported to begin with.
LEMMA ReportInit == Init => ReportInv
BY DEF Init, ReportInv, Unwritten

\* What a step does to a report it leaves alone.
LEMMA ReportKept ==
    ASSUME TypeInv, ReportInv, plan' = plan, report' = report,
           \A i \in DOMAIN attempts' : Fine(attempts'[i]), pc' # "writing report",
           \A list \in Seq(Result) : report.whole /\ Told(list) => Told(list)'
    PROVE  ReportInv'
<1>1. Result' = Result
    BY PlanKept
<1>2. \A list : Reportable(list)' <=> Reportable(list)
    BY <1>1 DEF Reportable, Fine
<1>3. ASSUME report.whole
      PROVE  \E list \in Seq(Result) :
                report.content = Report(list) /\ Reportable(list)' /\ Told(list)'
    BY <1>2, <1>3 DEF ReportInv
<1> QED
    BY <1>1, <1>3 DEF ReportInv

\* Every step of a suite keeps the report and results.json together.
LEMMA ReportStep ==
    TypeInv /\ AttemptsInv /\ ResultsInv /\ ReportInv /\ [Next]_vars => ReportInv'
<1> SUFFICES ASSUME TypeInv, AttemptsInv, ResultsInv, ReportInv, [Next]_vars PROVE ReportInv'
    OBVIOUS
<1>1. plan' = plan
    BY DEF Next, vars
<1>2. /\ attempts \in Seq(Result) /\ suite \in Nat /\ report.suite \in 0 .. suite
      /\ pc # "idle" => position \in 1 .. Total
      /\ Total \in Nat
    <2>1. plan.suites \in Nat /\ Total \in Nat
        BY Positions DEF TypeInv, TypeOK
    <2>2. /\ attempts \in Seq(Result) /\ suite \in 0 .. plan.suites
          /\ report.suite \in 0 .. suite /\ (pc # "idle" => position \in 1 .. Total)
        BY DEF TypeInv, TypeOK, InSuite
    <2> QED
        BY <2>1, <2>2
<1>3. \A i \in DOMAIN attempts : Fine(attempts[i])
    BY DEF ReportInv
<1> USE DEF diskVars, runVars
<1>4. CASE StartSuite
    <2>1. /\ pc = "idle" /\ pc' = "attempt" /\ suite' = suite + 1 /\ position' = 1
          /\ attempts' = <<>> /\ results' = results /\ report' = report
        BY <1>4 DEF StartSuite
    <2>2. report.suite < suite'
        BY <1>2, <2>1
    <2>3. \A list \in Seq(Result) : Told(list) => Told(list)'
        BY <2>1, <2>2 DEF Told
    <2>4. \A i \in DOMAIN attempts' : Fine(attempts'[i])
        BY <2>1
    <2> QED
        BY <1>1, <2>1, <2>3, <2>4, ReportKept
<1>5. CASE StartAttempt \/ RecordEvent \/ EndRun \/ RecordFails
    <2>1. /\ pc \in {"attempt", "running", "evaluating"} /\ pc' \in {"running", "evaluating"}
          /\ UNCHANGED <<suite, position, attempts, results, report>>
        BY <1>5 DEF StartAttempt, RecordEvent, EndRun, RecordFails
    <2>2. \A list \in Seq(Result) : Told(list) => Told(list)'
        BY <2>1 DEF Told
    <2> QED
        BY <1>1, <1>3, <2>1, <2>2, ReportKept
<1>6. CASE Evaluate
    <2>1. PICK context \in Contexts, events \in Tally, result \in Result :
              /\ result = AttemptResult(
                             Verdict(CaseAt(position).expected, Context(context, events)), events)
              /\ attempts' = Append(attempts, result)
        <3>1. Next
            BY <1>1, <1>6 DEF Next, Step
        <3> QED
            BY <1>6, <3>1, EvaluatedAttempt
    <2>2. /\ pc = "evaluating" /\ pc' = "results"
          /\ UNCHANGED <<suite, position, results, report>>
        BY <1>6 DEF Evaluate
    <2>3. Fine(result)
        BY <2>1, <2>2, EvaluatedIsFine
    <2>4. ASSUME NEW i \in DOMAIN attempts' PROVE Fine(attempts'[i])
        <3>1. /\ DOMAIN attempts' = 1 .. (Len(attempts) + 1) /\ DOMAIN attempts = 1 .. Len(attempts)
              /\ attempts'[Len(attempts) + 1] = result
              /\ \A k \in 1 .. Len(attempts) : attempts'[k] = attempts[k]
              /\ Len(attempts) \in Nat
            BY <1>2, <2>1
        <3>2. CASE i \in 1 .. Len(attempts)
            BY <1>3, <3>1, <3>2
        <3>3. CASE i = Len(attempts) + 1
            BY <2>3, <3>1, <3>3
        <3> QED
            BY <3>1, <3>2, <3>3
    <2>5. \A list \in Seq(Result) : IsPrefix(list, attempts) => IsPrefix(list, attempts')
        BY <1>2, <2>1, PrefixGrows
    <2>6. ASSUME NEW list \in Seq(Result), Told(list) PROVE Told(list)'
        BY <2>2, <2>5, <2>6 DEF Told
    <2> QED
        BY <1>1, <2>2, <2>4, <2>6, ReportKept
<1>7. CASE EvaluationFails \/ Complete \/ Die
    <2>1. /\ pc' = "idle" /\ UNCHANGED <<suite, position, attempts, results, report>>
        BY <1>7 DEF EvaluationFails, Complete, Die
    <2>2. \A list \in Seq(Result) : Told(list) => Told(list)'
        BY <2>1 DEF Told
    <2> QED
        BY <1>1, <1>3, <2>1, <2>2, ReportKept
<1>8. CASE OpenResults
    <2>1. /\ pc = "results" /\ pc' = "writing results" /\ ~results'.whole
          /\ UNCHANGED <<suite, position, attempts, report>>
        BY <1>8 DEF OpenResults, Unwritten
    <2>2. \A list \in Seq(Result) : Told(list) => Told(list)'
        BY <2>1 DEF Told
    <2> QED
        BY <1>1, <1>3, <2>1, <2>2, ReportKept
<1>9. CASE WriteResults
    <2>1. /\ pc = "writing results" /\ pc' = "report"
          /\ results'.whole /\ results'.suite = suite /\ results'.content = attempts
          /\ UNCHANGED <<suite, position, attempts, report>>
        BY <1>9 DEF WriteResults, Written
    <2>2. Len(attempts) = position
        BY <2>1 DEF AttemptsInv, Judged
    <2>3. \A list \in Seq(Result) : Told(list) => Told(list)'
        BY <2>1, <2>2 DEF Told
    <2> QED
        BY <1>1, <1>3, <2>1, <2>3, ReportKept
<1>10. CASE OpenReport
    <2>1. /\ pc' = "writing report" /\ ~report'.whole /\ attempts' = attempts
        BY <1>10 DEF OpenReport, Unwritten
    <2> QED
        BY <1>3, <2>1 DEF ReportInv
<1>11. CASE WriteReport
    <2>1. /\ pc = "writing report" /\ pc' = "next"
          /\ report'.suite = suite /\ report'.content = Report(attempts)
          /\ UNCHANGED <<suite, position, attempts, results>>
        BY <1>11 DEF WriteReport, Written
    <2>2. Result' = Result
        BY <1>1, PlanKept
    <2>3. Len(attempts) = position /\ position \in 1 .. Total
        BY <1>2, <2>1 DEF AttemptsInv, Judged
    <2>4. results.whole /\ results.suite = suite /\ results.content = attempts
        BY <2>1 DEF ResultsInv
    <2>5. PICK list \in Seq(Result) : list = attempts
        BY <1>2
    <2>6. Reportable(list)'
        <3>1. list # <<>>
            BY <2>3, <2>5
        <3>2. \A i \in DOMAIN list : Fine(list[i])'
            BY <1>3, <2>5 DEF Fine
        <3> QED
            BY <2>2, <3>1, <3>2 DEF Reportable
    <2>7. IsPrefix(list, list) /\ Len(list) \in Nat
        BY PrefixGrows, <1>2 DEF IsPrefix
    <2>8. Told(list)'
        BY <2>1, <2>4, <2>5, <2>7 DEF Told
    <2>9. report'.content = Report(list)
        BY <2>1, <2>5
    <2> QED
        BY <1>3, <2>1, <2>2, <2>6, <2>8, <2>9 DEF ReportInv
<1>12. CASE NextAttempt
    <2>1. /\ pc = "next" /\ pc' = "attempt" /\ position' = position + 1
          /\ UNCHANGED <<suite, attempts, results, report>>
        BY <1>12 DEF NextAttempt
    <2>2. Len(attempts) = position' - 1
        BY <1>2, <2>1 DEF AttemptsInv, Judged
    <2>3. IsPrefix(attempts, attempts)
        <3>1. Len(attempts) <= Len(attempts)
            BY <1>2
        <3> QED
            BY <3>1 DEF IsPrefix
    <2>4. \A list \in Seq(Result) : Told(list) => Told(list)'
        BY <2>1, <2>2, <2>3 DEF Told
    <2> QED
        BY <1>1, <1>3, <2>1, <2>4, ReportKept
<1>13. CASE UNCHANGED vars
    <2>1. \A list \in Seq(Result) : Told(list) => Told(list)'
        BY <1>13 DEF vars, Told
    <2>2. CASE pc = "writing report"
        <3>1. ~report.whole
            BY <2>2 DEF ReportInv
        <3> QED
            BY <1>3, <1>13, <3>1 DEF vars, ReportInv
    <2>3. CASE pc # "writing report"
        BY <1>1, <1>3, <1>13, <2>1, <2>3, ReportKept DEF vars
    <2> QED
        BY <2>2, <2>3
<1> QED
    BY <1>4, <1>5, <1>6, <1>7, <1>8, <1>9, <1>10, <1>11, <1>12, <1>13 DEF Next, Step

\* What can be read of a report adds up.
LEMMA ReportIsRight == TypeInv /\ ReportInv => ReportAddsUp
<1> SUFFICES ASSUME TypeInv, ReportInv, report.whole PROVE ReportAddsUp
    BY DEF ReportAddsUp
<1>1. PICK list \in Seq(Result) : report.content = Report(list) /\ Reportable(list) /\ Told(list)
    BY DEF ReportInv
<1>2. PICK content : content = report.content
    OBVIOUS
<1>3. PICK rows : rows = content.cases
    OBVIOUS
<1>4. content.attempts = Len(list) /\ Right(content, rows)
    BY <1>1, <1>2, <1>3, ReportFacts
<1>5. ASSUME results.whole
      PROVE  \/ /\ report.suite = results.suite
                /\ report.content.attempts \in {Len(results.content) - 1, Len(results.content)}
                /\ report.content
                      = Report(SubSeq(results.content, 1, report.content.attempts))
             \/ report.suite < results.suite /\ Len(results.content) = 1
    <2>1. CASE report.suite < results.suite /\ Len(results.content) = 1
        BY <2>1
    <2>2. CASE /\ report.suite = results.suite
               /\ Len(list) \in {Len(results.content) - 1, Len(results.content)}
               /\ IsPrefix(list, results.content)
        <3>1. SubSeq(list, 1, Len(list)) = SubSeq(results.content, 1, Len(list))
            BY <2>2 DEF IsPrefix
        <3>2. SubSeq(list, 1, Len(list)) = list
            OBVIOUS
        <3>3. content = Report(SubSeq(results.content, 1, content.attempts))
            BY <1>1, <1>2, <1>4, <3>1, <3>2
        <3> QED
            BY <1>2, <1>4, <2>2, <3>3
    <2> QED
        BY <1>1, <1>5, <2>1, <2>2 DEF Told
<1>6. Right(report.content, report.content.cases)
    BY <1>2, <1>3, <1>4
<1> QED
    BY <1>5, <1>6, Zenon DEF ReportAddsUp, Right

\* The report, whenever it can be read, adds up and tells of attempts of results.json:
\* whatever the plan, the verdicts, the usage and the prices, and wherever a suite died.
THEOREM TheReportAddsUp == Spec => []ReportAddsUp
BY TypeInit, TypeStep, ResultsInit, ResultsStep, ReportInit, ReportStep, ReportIsRight, PTL DEF Spec
=============================================================================
