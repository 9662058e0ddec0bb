------------------------ MODULE ProbeExecutorProofs ------------------------
(***************************************************************************)
(* The properties of ProbeExecutor, for every suite, number of samples,    *)
(* budget of calls and time, and everything the provider may answer.       *)
(*                                                                         *)
(* None of them is inductive alone.  Each reads a total or an aggregate,   *)
(* and what keeps those true is known of the sample in progress: which     *)
(* calls were sent for it (CallInv), that a refusal is final (RejectInv),  *)
(* that a pause ends the unit (PauseInv), and what let the units before    *)
(* this one pass (SuiteInv).                                               *)
(***************************************************************************)
EXTENDS ProbeExecutor, WellFoundedInduction, TLAPS

Gs == GatesForUnit(unit)

Blocked == Outcome("blocked", "external", "other")

RanOut == {Budget("call_limit_reached"), Budget("wall_clock_limit_reached")}

\* What a sample can say of a gate.
SampleOutcomes == {Passed, Failed, Transient, TooLarge, Blocked} \cup RanOut

Spent == used >= MaxCalls \/ TimeIsUp

InSample == {"ask", "charged", "calling"}

Newest == samples[Len(samples)]

CounterInv ==
    /\ live \in BOOLEAN /\ rejected \in BOOLEAN /\ paused \in BOOLEAN
    /\ used \in Nat /\ sent \in Nat /\ sentBefore \in Nat /\ elapsed \in Nat
    /\ sentBefore <= sent
    /\ elapsed <= MaxElapsed
    /\ turns \in 0..MaxTurns

SampleInv ==
    /\ pc \in InSample \cup {"done", "reported"}
    /\ samples \in Seq([Gs -> SampleOutcomes])
    /\ pc \in InSample => Len(samples) < Expected
    /\ pc = "done" => Len(samples) > 0 /\ Len(samples) <= Expected
    /\ pc = "done" => Len(samples) = Expected \/ paused
    /\ pc = "reported" => samples = <<>>

ChargeInv ==
    /\ used <= MaxCalls
    /\ used = sent \/ (used = sent + 1 /\ (pc = "charged" \/ TimeIsUp))
    /\ pc = "charged" => used = sent + 1
    /\ pc = "calling" => used = sent

\* Once a call was refused, every later one is.
RejectInv ==
    rejected =>
        /\ Spent
        /\ pc \notin {"charged", "calling"}
        /\ samples # <<>> => \E outcome \in RanOut : Newest = ForAllGates(outcome)

\* Samples that passed a gate took a call each.
CallInv ==
    \A g \in Gs :
        (\A i \in 1..Len(samples) : samples[i][g].verdict = "pass") =>
            sentBefore + Len(samples) + (IF pc = "calling" THEN 1 ELSE 0) <= sent

\* A transient sample was recorded, or is the bundle's that ran out of time.
BellInv ==
    \A i \in 1..Len(samples), g \in Gs :
        samples[i][g] = Transient => paused \/ (IsBundle /\ TimeIsUp /\ used = sent + 1)

\* A pause lets one more sample be taken, of a direct unit.
PauseInv ==
    paused =>
        /\ pc \in {"charged", "calling"} => ~IsBundle
        /\ pc \in InSample => samples = <<>> /\ Expected > 1
        /\ pc = "done" => Len(samples) < Expected \/ Newest = ForAllGates(Transient)

\* A result that lets the suite go on although one of its samples was transient.
Excuse(result) == result.verdict = "fail" \/ result = TooLarge

Distinct(units) ==
    \A i, j \in DOMAIN units : i < j => units[i] # units[j] /\ units[i] # "repair_bundle"

SuiteInv ==
    /\ unit \in Units /\ queue \in Seq(Units)
    /\ ~live => queue = <<>> /\ pc # "reported"
    /\ pc # "reported" =>
        /\ \A g \in DOMAIN report : ~Stops(g, report[g])
        /\ Distinct(queue)
        /\ \A i \in DOMAIN queue : queue[i] # unit /\ queue[i] \notin DOMAIN report
        /\ queue # <<>> => ~IsBundle
        /\ unit \notin DOMAIN report
        /\ paused => \/ \E g \in DOMAIN report : Excuse(report[g])
                     \/ samples # <<>> /\ Newest = ForAllGates(Transient)

ExecutorInv ==
    /\ CounterInv /\ SampleInv /\ ChargeInv /\ RejectInv
    /\ CallInv /\ BellInv /\ PauseInv /\ SuiteInv

-----------------------------------------------------------------------------
(***************************************************************************)
(* aggregate_samples.                                                      *)
(***************************************************************************)
LEMMA Smallest ==
    ASSUME NEW S, S \subseteq Nat, S # {}
    PROVE  \E x \in S : \A y \in S : x <= y
<1> DEFINE R == OpToRel(<, Nat)
<1>1. IsWellFoundedOn(R, Nat)
  BY NatLessThanWellFounded
<1>2. \A x, y \in Nat : <<y, x>> \in R <=> y < x
  BY DEF OpToRel
<1> HIDE DEF R
<1>3. PICK x \in S : \A y \in S : ~ (<<y, x>> \in R)
  BY <1>1, WFMin
<1>4. ASSUME NEW y \in S PROVE x <= y
  <2>1. x \in Nat /\ y \in Nat /\ ~(y < x)
    BY <1>2, <1>3
  <2>2. QED
    BY <2>1
<1>5. QED
  BY <1>4

\* The first sample with a verdict is one of the samples, and has it.
LEMMA FirstWithIsOne ==
    ASSUME NEW n \in Nat, NEW outcomes, DOMAIN outcomes = 1..n,
           NEW verdict, Has(outcomes, verdict)
    PROVE  \E i \in 1..n :
              /\ FirstWith(outcomes, verdict) = outcomes[i]
              /\ outcomes[i].verdict = verdict
<1> DEFINE those == {i \in 1..n : outcomes[i].verdict = verdict}
           IsFirst(i) == /\ outcomes[i].verdict = verdict
                         /\ \A j \in 1..(i - 1) : outcomes[j].verdict # verdict
<1>1. those \subseteq Nat /\ those # {}
  BY DEF Has
<1>2. PICK i \in those : \A j \in those : i <= j
  BY <1>1, Smallest
<1>3. \A j \in 1..(i - 1) : j \in 1..n /\ ~(i <= j)
  BY <1>1, <1>2
<1>4. i \in DOMAIN outcomes /\ IsFirst(i)
  BY <1>2, <1>3
<1> DEFINE first == CHOOSE k \in DOMAIN outcomes : IsFirst(k)
<1>5. first \in DOMAIN outcomes /\ IsFirst(first)
  BY <1>4
<1>6. FirstWith(outcomes, verdict) = outcomes[first]
  BY DEF FirstWith
<1>7. QED
  BY <1>5, <1>6

\* The verdicts tell the outcomes of a sample apart, but for what ended it.
LEMMA OutcomesByVerdict ==
    ASSUME NEW outcome \in SampleOutcomes
    PROVE  /\ outcome \in Outcomes
           /\ outcome.verdict \in AllVerdicts
           /\ outcome.verdict = "pass" <=> outcome = Passed
           /\ outcome.verdict = "fail" <=> outcome = Failed
           /\ outcome.verdict = "blocked" <=> outcome = Blocked
           /\ outcome.verdict = "inconclusive" <=> outcome \in {Transient, TooLarge}
           /\ outcome.verdict = "not_tested" <=> outcome \in RanOut
<1>1. /\ Passed.verdict = "pass" /\ Failed.verdict = "fail" /\ Blocked.verdict = "blocked"
      /\ Transient.verdict = "inconclusive" /\ TooLarge.verdict = "inconclusive"
      /\ Budget("call_limit_reached").verdict = "not_tested"
      /\ Budget("wall_clock_limit_reached").verdict = "not_tested"
  BY DEF Passed, Failed, Blocked, Transient, TooLarge, Budget, Outcome
<1>2. SampleOutcomes \subseteq Outcomes
  BY DEF SampleOutcomes, RanOut, Passed, Failed, Blocked, Transient, TooLarge, Budget,
         Outcome, Outcomes, AllVerdicts
<1>3. QED
  BY <1>1, <1>2 DEF SampleOutcomes, RanOut, AllVerdicts

\* The six ways to aggregate, in their order.
FailedBy(g, result) ==
    \E i \in 1..Len(samples) : samples[i][g] = Failed /\ result = Failed

PassedBy(g, result) ==
    /\ Len(samples) = Expected
    /\ \A i \in 1..Expected : samples[i][g] = Passed
    /\ result = Passed

BlockedBy(g, result) ==
    /\ \E i \in 1..Len(samples) : samples[i][g] = Blocked
    /\ result \in {Blocked, Outcome("inconclusive", "external", "other")}

UndecidedBy(g, result) ==
    /\ \E i \in 1..Len(samples) : samples[i][g] = result
    /\ result \in {Transient, TooLarge}

UntestedBy(g, result) ==
    /\ \A i \in 1..Len(samples) : samples[i][g] \in RanOut \cup {Passed}
    /\ \E i \in 1..Len(samples) : samples[i][g] \in RanOut
    /\ result \in {Budget("call_limit_reached"),
                   Outcome("inconclusive", "budget", "call_limit_reached")}

CutShort(g, result) ==
    /\ \A i \in 1..Len(samples) : samples[i][g] = Passed
    /\ Len(samples) # Expected
    /\ result = Outcome("inconclusive", "other", "other")

LEMMA Aggregates ==
    ASSUME samples \in Seq([Gs -> SampleOutcomes]), NEW g \in Gs
    PROVE  LET result == Aggregate(g)
           IN \/ FailedBy(g, result) \/ PassedBy(g, result) \/ BlockedBy(g, result)
              \/ UndecidedBy(g, result) \/ UntestedBy(g, result) \/ CutShort(g, result)
<1> DEFINE n == Len(samples)
           found == OutcomesOf(g)
           result == Aggregate(g)
<1>1. n \in Nat /\ DOMAIN found = 1..n /\ Len(found) = n
  BY DEF OutcomesOf
<1>2. \A i \in 1..n : found[i] = samples[i][g] /\ samples[i][g] \in SampleOutcomes
  BY DEF OutcomesOf
<1>3. \A v : Has(found, v) <=> \E i \in 1..n : samples[i][g].verdict = v
  BY <1>1, <1>2 DEF Has
<1>4. AllPassed(found) <=> n = Expected /\ \A i \in 1..n : samples[i][g].verdict = "pass"
  BY <1>1, <1>2 DEF AllPassed
<1>5. result =
        IF Has(found, "fail") THEN FirstWith(found, "fail")
        ELSE IF AllPassed(found) THEN Passed
        ELSE IF Has(found, "blocked")
             THEN IF Has(found, "pass")
                  THEN [FirstWith(found, "blocked") EXCEPT !.verdict = "inconclusive"]
                  ELSE FirstWith(found, "blocked")
        ELSE IF Has(found, "inconclusive") THEN FirstWith(found, "inconclusive")
        ELSE IF Has(found, "not_tested")
        THEN Outcome(IF NoneTested(found) THEN "not_tested" ELSE "inconclusive",
                     "budget", "call_limit_reached")
        ELSE Outcome("inconclusive", "other", "other")
  BY DEF Aggregate, Has, AllPassed, NoneTested
<1>6. \A v : Has(found, v) =>
               \E i \in 1..n : FirstWith(found, v) = samples[i][g] /\ samples[i][g].verdict = v
  BY <1>1, <1>2, FirstWithIsOne
<1> HIDE DEF n, found, result
<1>7. CASE Has(found, "fail")
  <2>1. PICK i \in 1..n : result = samples[i][g] /\ samples[i][g].verdict = "fail"
    BY <1>5, <1>6, <1>7
  <2>2. samples[i][g] = Failed
    BY <1>2, <2>1, OutcomesByVerdict
  <2>3. FailedBy(g, result)
    BY <2>1, <2>2 DEF FailedBy, n
  <2>4. QED
    BY <2>3 DEF result
<1>8. CASE ~Has(found, "fail") /\ AllPassed(found)
  <2>1. n = Expected /\ \A i \in 1..n : samples[i][g] = Passed
    BY <1>2, <1>4, <1>8, OutcomesByVerdict
  <2>2. result = Passed
    BY <1>5, <1>8
  <2>3. PassedBy(g, result)
    BY <2>1, <2>2 DEF PassedBy, n
  <2>4. QED
    BY <2>3 DEF result
<1>9. CASE ~Has(found, "fail") /\ ~AllPassed(found) /\ Has(found, "blocked")
  <2>1. PICK i \in 1..n :
          FirstWith(found, "blocked") = samples[i][g] /\ samples[i][g].verdict = "blocked"
    BY <1>6, <1>9
  <2>2. samples[i][g] = Blocked
    BY <1>2, <2>1, OutcomesByVerdict
  <2>3. result \in {Blocked, [Blocked EXCEPT !.verdict = "inconclusive"]}
    BY <1>5, <1>9, <2>1, <2>2
  <2>4. [Blocked EXCEPT !.verdict = "inconclusive"] = Outcome("inconclusive", "external", "other")
    BY DEF Blocked, Outcome
  <2>5. BlockedBy(g, result)
    BY <2>2, <2>3, <2>4 DEF BlockedBy, n
  <2>6. QED
    BY <2>5 DEF result
<1>10. CASE /\ ~Has(found, "fail") /\ ~AllPassed(found) /\ ~Has(found, "blocked")
            /\ Has(found, "inconclusive")
  <2>1. PICK i \in 1..n : result = samples[i][g] /\ samples[i][g].verdict = "inconclusive"
    BY <1>5, <1>6, <1>10
  <2>2. samples[i][g] \in {Transient, TooLarge}
    BY <1>2, <2>1, OutcomesByVerdict
  <2>3. UndecidedBy(g, result)
    BY <2>1, <2>2 DEF UndecidedBy, n
  <2>4. QED
    BY <2>3 DEF result
<1>11. CASE /\ ~Has(found, "fail") /\ ~AllPassed(found) /\ ~Has(found, "blocked")
            /\ ~Has(found, "inconclusive")
  <2>1. \A i \in 1..n : samples[i][g] \in RanOut \cup {Passed}
    <3>1. ASSUME NEW i \in 1..n
          PROVE  samples[i][g].verdict \in {"pass", "not_tested"}
      <4>1. samples[i][g].verdict \in AllVerdicts
        BY <1>2, OutcomesByVerdict
      <4>2. samples[i][g].verdict \notin {"fail", "blocked", "inconclusive"}
        BY <1>3, <1>11
      <4>3. QED
        BY <4>1, <4>2 DEF AllVerdicts
    <3>2. QED
      BY <1>2, <3>1, OutcomesByVerdict
  <2>2. CASE Has(found, "not_tested")
    <3>1. PICK i \in 1..n : samples[i][g].verdict = "not_tested"
      BY <1>3, <2>2
    <3>2. samples[i][g] \in RanOut
      BY <1>2, <3>1, OutcomesByVerdict
    <3>3. result \in {Outcome("not_tested", "budget", "call_limit_reached"),
                      Outcome("inconclusive", "budget", "call_limit_reached")}
      BY <1>5, <1>11, <2>2
    <3>4. UntestedBy(g, result)
      BY <2>1, <3>2, <3>3 DEF UntestedBy, Budget, n
    <3>5. QED
      BY <3>4 DEF result
  <2>3. CASE ~Has(found, "not_tested")
    <3>1. \A i \in 1..n : samples[i][g] = Passed
      BY <1>2, <1>3, <2>1, <2>3, OutcomesByVerdict
    <3>2. n # Expected
      BY <1>2, <1>4, <1>11, <3>1, OutcomesByVerdict
    <3>3. result = Outcome("inconclusive", "other", "other")
      BY <1>5, <1>11, <2>3
    <3>4. CutShort(g, result)
      BY <3>1, <3>2, <3>3 DEF CutShort, n
    <3>5. QED
      BY <3>4 DEF result
  <2>4. QED
    BY <2>2, <2>3
<1>12. QED
  BY <1>7, <1>8, <1>9, <1>10, <1>11

-----------------------------------------------------------------------------
(***************************************************************************)
(* What a step is: six of the actions end a sample.                        *)
(***************************************************************************)
\* No answer: the circuit was open, the call refused, or its time up before it was sent.
Unasked(outcomes) ==
    /\ pc = "ask" \/ (pc = "charged" /\ TimeIsUp)
    /\ UNCHANGED paused
    /\ rejected => rejected'
    /\ rejected' =>
          Spent /\ \E outcome \in RanOut : outcomes = ForAllGates(outcome)
    /\ \A g \in Gs : outcomes[g].verdict # "pass"
    /\ \A g \in Gs : outcomes[g] = Transient =>
          pc = "charged" /\ IsBundle

Answered(outcomes) ==
    /\ pc = "calling"
    /\ UNCHANGED rejected
    /\ \/ paused' = TRUE /\ outcomes = ForAllGates(Transient)
       \/ UNCHANGED paused /\ \A g \in Gs : outcomes[g] # Transient

Sampled(outcomes) ==
    /\ outcomes \in [Gs -> SampleOutcomes]
    /\ EndSample(outcomes)
    /\ UNCHANGED <<suiteVars, used, elapsed, sent>>
    /\ rejected' \in BOOLEAN /\ paused' \in BOOLEAN
    /\ Unasked(outcomes) \/ Answered(outcomes)

LEMMA OutcomesDiffer ==
    /\ Blocked # Transient /\ Passed # Transient /\ Failed # Transient /\ TooLarge # Transient
    /\ \A outcome \in RanOut : outcome # Transient
    /\ Passed \in SampleOutcomes /\ Failed \in SampleOutcomes /\ Blocked \in SampleOutcomes
    /\ Transient \in SampleOutcomes /\ TooLarge \in SampleOutcomes
    /\ RanOut \subseteq SampleOutcomes
BY DEF Blocked, Passed, Failed, TooLarge, RanOut, Transient, Budget, Outcome, SampleOutcomes

LEMMA SameForAll ==
    ASSUME NEW outcome \in SampleOutcomes
    PROVE  /\ ForAllGates(outcome) \in [Gs -> SampleOutcomes]
           /\ \A g \in Gs : ForAllGates(outcome)[g] = outcome
BY DEF ForAllGates, Gs

\* A sample that ends with the same outcome for every gate, and no answer.
LEMMA UnaskedForAll ==
    ASSUME NEW outcome \in SampleOutcomes, outcome # Passed,
           pc = "ask" \/ (pc = "charged" /\ TimeIsUp), UNCHANGED paused, rejected => rejected',
           rejected' => Spent /\ outcome \in RanOut,
           outcome = Transient => pc = "charged" /\ IsBundle
    PROVE  Unasked(ForAllGates(outcome))
<1>1. outcome.verdict # "pass"
  BY OutcomesByVerdict
<1>2. \A g \in Gs : ForAllGates(outcome)[g] = outcome
  BY SameForAll
<1>3. QED
  BY <1>1, <1>2 DEF Unasked

LEMMA UnaskedSteps ==
    ASSUME CounterInv, RejectInv,
           StopAtOpenCircuit \/ Refuse \/ TimesOutBeforeSending
    PROVE  \E outcomes : Sampled(outcomes)
<1>1. rejected \in BOOLEAN /\ paused \in BOOLEAN
  BY DEF CounterInv
<1>2. Budget("call_limit_reached") \in RanOut /\ Budget("wall_clock_limit_reached") \in RanOut
  BY DEF RanOut
<1>3. \A outcome \in RanOut : outcome # Passed
  BY DEF RanOut, Passed, Budget, Outcome
<1>4. CASE StopAtOpenCircuit
  <2>1. PICK outcome \in {Blocked} \cup RanOut :
          /\ EndSample(ForAllGates(outcome))
          /\ outcome = Blocked => ~rejected
    <3>1. Blocked \notin RanOut
      BY DEF Blocked, RanOut, Budget, Outcome
    <3>2. CASE ~rejected
      BY <1>4, <3>2 DEF StopAtOpenCircuit, Blocked
    <3>3. CASE rejected
      <4>1. \/ EndSample(ForAllGates(Budget("wall_clock_limit_reached")))
            \/ EndSample(ForAllGates(Budget("call_limit_reached")))
        BY <1>4, <3>3 DEF StopAtOpenCircuit
      <4>2. QED
        BY <1>2, <3>1, <4>1
    <3>4. QED
      BY <3>2, <3>3
  <2>2. /\ pc = "ask" /\ UNCHANGED <<suiteVars, used, rejected, paused, elapsed, sent>>
    BY <1>4 DEF StopAtOpenCircuit
  <2>3. outcome \in SampleOutcomes /\ outcome # Passed /\ outcome # Transient
    BY <1>3, <2>1, OutcomesDiffer DEF Blocked, Passed, Outcome
  <2>4. rejected' => Spent /\ outcome \in RanOut
    BY <2>1, <2>2 DEF RejectInv
  <2>5. Unasked(ForAllGates(outcome))
    BY <2>2, <2>3, <2>4, UnaskedForAll
  <2>6. QED
    BY <1>1, <2>1, <2>2, <2>3, <2>5, SameForAll DEF Sampled
<1>5. CASE Refuse
  <2>1. PICK outcome \in RanOut : EndSample(ForAllGates(outcome))
    BY <1>2, <1>5, Zenon DEF Refuse
  <2>2. /\ pc = "ask" /\ rejected' = TRUE /\ Spent
        /\ UNCHANGED <<suiteVars, used, paused, elapsed, sent>>
    BY <1>5 DEF Refuse, Spent
  <2>3. outcome \in SampleOutcomes /\ outcome # Passed /\ outcome # Transient
    BY <1>3, <2>1, OutcomesDiffer
  <2>4. Unasked(ForAllGates(outcome))
    BY <2>1, <2>2, <2>3, UnaskedForAll
  <2>5. QED
    BY <1>1, <2>1, <2>2, <2>3, <2>4, SameForAll DEF Sampled
<1>6. CASE TimesOutBeforeSending
  <2>1. /\ pc = "charged" /\ TimeIsUp
        /\ UNCHANGED <<suiteVars, used, rejected, paused, elapsed, sent>>
    BY <1>6 DEF TimesOutBeforeSending
  <2>2. PICK outcome \in {Transient} \cup RanOut :
          /\ EndSample(ForAllGates(outcome))
          /\ outcome = Transient => IsBundle
    <3>1. CASE IsBundle
      BY <1>6, <3>1 DEF TimesOutBeforeSending
    <3>2. CASE ~IsBundle
      BY <1>2, <1>6, <3>2, OutcomesDiffer DEF TimesOutBeforeSending
    <3>3. QED
      BY <3>1, <3>2
  <2>3. outcome \in SampleOutcomes /\ outcome # Passed
    BY <1>3, <2>2, OutcomesDiffer
  <2>4. ~rejected
    BY <2>1 DEF RejectInv
  <2>5. Unasked(ForAllGates(outcome))
    BY <2>1, <2>2, <2>3, <2>4, UnaskedForAll
  <2>6. QED
    BY <1>1, <2>1, <2>2, <2>3, <2>5, SameForAll DEF Sampled
<1>7. QED
  BY <1>4, <1>5, <1>6

LEMMA JudgedOutcome ==
    ASSUME NEW gate, NEW answer
    PROVE  Judge(gate, answer) \in {Passed, Failed, TooLarge}
BY DEF Judge

LEMMA AnsweredSteps ==
    ASSUME CounterInv,
           AnswerTransient \/ AnswerError \/ AnswerToDirectUnit \/ FinishRepair
    PROVE  \E outcomes : Sampled(outcomes)
<1>1. rejected \in BOOLEAN /\ paused \in BOOLEAN
  BY DEF CounterInv
<1>2. pc = "calling" /\ UNCHANGED <<suiteVars, used, rejected, elapsed, sent>>
  BY DEF AnswerTransient, AnswerError, AnswerToDirectUnit, FinishRepair, Answer
<1>3. CASE AnswerTransient
  <2>1. paused' = TRUE /\ EndSample(ForAllGates(Transient))
    BY <1>3 DEF AnswerTransient
  <2>2. QED
    BY <1>1, <1>2, <2>1, SameForAll, OutcomesDiffer DEF Sampled, Answered
<1>4. ASSUME NEW outcomes \in [Gs -> {Passed, Failed, TooLarge, Blocked}],
             UNCHANGED paused, EndSample(outcomes)
      PROVE  Sampled(outcomes)
  <2>1. \A g \in Gs : outcomes[g] \in SampleOutcomes /\ outcomes[g] # Transient
    BY <1>4, OutcomesDiffer
  <2>2. outcomes \in [Gs -> SampleOutcomes]
    BY <1>4, <2>1
  <2>3. QED
    BY <1>1, <1>2, <1>4, <2>1, <2>2 DEF Sampled, Answered
<1>5. CASE AnswerError
  <2>1. PICK outcome \in {Failed, Blocked} : UNCHANGED paused /\ EndSample(ForAllGates(outcome))
    BY <1>5 DEF AnswerError, Blocked
  <2>2. ForAllGates(outcome) \in [Gs -> {Passed, Failed, TooLarge, Blocked}]
    BY <2>1 DEF ForAllGates, Gs
  <2>3. QED
    BY <1>4, <2>1, <2>2
<1>6. CASE AnswerToDirectUnit
  <2>1. PICK answer \in Answers :
          UNCHANGED paused /\ EndSample(ForAllGates(Judge(unit, answer)))
    BY <1>6 DEF AnswerToDirectUnit
  <2>2. ForAllGates(Judge(unit, answer)) \in [Gs -> {Passed, Failed, TooLarge, Blocked}]
    BY JudgedOutcome DEF ForAllGates, Gs
  <2>3. QED
    BY <1>4, <2>1, <2>2
<1>7. CASE FinishRepair
  <2>1. PICK repair \in {Passed, Failed}, multi_file \in {Passed, Failed} :
          EndSample([g \in GatesForUnit(unit) |->
              CASE g = "autonomous_repair" -> repair
                [] g = "multi_file" -> multi_file
                [] g = "bounded_convergence" -> Passed])
    BY <1>7 DEF FinishRepair
  <2>2. UNCHANGED paused /\ IsBundle
    BY <1>7 DEF FinishRepair
  <2> DEFINE outcomes == [g \in GatesForUnit(unit) |->
              CASE g = "autonomous_repair" -> repair
                [] g = "multi_file" -> multi_file
                [] g = "bounded_convergence" -> Passed]
  <2>3. Gs = {"autonomous_repair", "multi_file", "bounded_convergence"}
    BY <2>2 DEF Gs, GatesForUnit, IsBundle
  <2>4. outcomes \in [Gs -> {Passed, Failed, TooLarge, Blocked}]
    BY <2>3 DEF Gs
  <2>5. EndSample(outcomes)
    BY <2>1
  <2> HIDE DEF outcomes
  <2>6. QED
    BY <1>4, <2>2, <2>4, <2>5
<1>8. QED
  BY <1>3, <1>5, <1>6, <1>7

\* Every step ends a sample, or is one of these.
LEMMA Steps ==
    ASSUME CounterInv, RejectInv, [Next]_vars
    PROVE  \/ \E outcomes : Sampled(outcomes)
           \/ Charge \/ Send \/ NextTurn \/ Tick \/ Report
           \/ UNCHANGED vars
BY UnaskedSteps, AnsweredSteps DEF Next, Done

\* What the end of a sample leaves.
LEMMA SampledFields ==
    ASSUME CounterInv, SampleInv, NEW outcomes, Sampled(outcomes)
    PROVE  /\ pc \in InSample /\ pc' \in {"ask", "done"}
           /\ samples' = Append(samples, outcomes)
           /\ Len(samples') = Len(samples) + 1 /\ Len(samples) \in Nat
           /\ \A i \in 1..Len(samples) : samples'[i] = samples[i]
           /\ samples'[Len(samples')] = outcomes
           /\ samples' # <<>>
           /\ samples' \in Seq([Gs -> SampleOutcomes])
           /\ pc' = "done" <=> (Len(samples') = Expected \/ paused')
           /\ UNCHANGED <<live, unit, queue, report, sentBefore, used, elapsed, sent>>
           /\ turns' = 0
<1>1. /\ samples' = Append(samples, outcomes) /\ turns' = 0
      /\ pc' = IF Len(samples') = Expected \/ paused' THEN "done" ELSE "ask"
      /\ UNCHANGED <<live, unit, queue, report, sentBefore, used, elapsed, sent>>
      /\ pc \in InSample
      /\ outcomes \in [Gs -> SampleOutcomes]
  BY DEF Sampled, EndSample, suiteVars, InSample, Unasked, Answered
<1>2. samples \in Seq([Gs -> SampleOutcomes])
  BY DEF SampleInv
<1>3. /\ Len(samples') = Len(samples) + 1 /\ Len(samples) \in Nat
      /\ \A i \in 1..Len(samples) : samples'[i] = samples[i]
      /\ samples'[Len(samples')] = outcomes
      /\ samples' \in Seq([Gs -> SampleOutcomes])
  BY <1>1, <1>2
<1>4. samples' # <<>>
  BY <1>3
<1>5. pc' \in {"ask", "done"} /\ (pc' = "done" <=> (Len(samples') = Expected \/ paused'))
  BY <1>1
<1>6. QED
  BY <1>1, <1>3, <1>4, <1>5

-----------------------------------------------------------------------------
(***************************************************************************)
(* The invariant, part by part.                                            *)
(***************************************************************************)
LEMMA LimitsAreNat ==
    /\ MaxCalls \in Nat /\ MaxElapsed \in Nat
    /\ Expected \in Nat /\ Expected > 0
    /\ MaxTurns \in Nat /\ MaxTurns > 0
BY BudgetAssumption

LEMMA ReportFields ==
    ASSUME Report
    PROVE  /\ pc = "done" /\ live /\ pc' \in {"ask", "reported"}
           /\ samples' = <<>> /\ turns' = 0 /\ sentBefore' = sent
           /\ UNCHANGED <<live, used, rejected, paused, elapsed, sent>>
BY DEF Report

LEMMA CountersKept ==
    ASSUME CounterInv, SampleInv, RejectInv, [Next]_vars
    PROVE  CounterInv'
<1>1. CASE \E outcomes : Sampled(outcomes)
  <2>1. UNCHANGED <<live, sentBefore, used, elapsed, sent>> /\ turns' = 0
    BY <1>1, SampledFields
  <2>2. rejected' \in BOOLEAN /\ paused' \in BOOLEAN
    BY <1>1 DEF Sampled
  <2>3. QED
    BY <2>1, <2>2, LimitsAreNat DEF CounterInv
<1>2. CASE Charge
  BY <1>2 DEF Charge, CounterInv, suiteVars
<1>3. CASE Send
  BY <1>3 DEF Send, CounterInv, suiteVars
<1>4. CASE NextTurn
  BY <1>4, LimitsAreNat DEF NextTurn, Answer, CounterInv, suiteVars
<1>5. CASE Tick
  BY <1>5, LimitsAreNat DEF Tick, CounterInv, suiteVars
<1>6. CASE Report
  BY <1>6, ReportFields, LimitsAreNat DEF CounterInv
<1>7. CASE UNCHANGED vars
  BY <1>7 DEF CounterInv, vars, suiteVars
<1>8. QED
  BY <1>1, <1>2, <1>3, <1>4, <1>5, <1>6, <1>7, Steps

LEMMA SamplesKept ==
    ASSUME CounterInv, SampleInv, RejectInv, PauseInv, [Next]_vars
    PROVE  SampleInv'
<1>1. /\ pc \in InSample \cup {"done", "reported"}
      /\ samples \in Seq([Gs -> SampleOutcomes])
      /\ Len(samples) \in Nat
  BY DEF SampleInv
<1>2. CASE \E outcomes : Sampled(outcomes)
  <2>1. PICK outcomes : Sampled(outcomes)
    BY <1>2
  <2>2. /\ samples' \in Seq([Gs -> SampleOutcomes])
        /\ Gs' = Gs
        /\ pc' \in {"ask", "done"}
        /\ pc' = "done" <=> (Len(samples') = Expected \/ paused')
        /\ Len(samples') = Len(samples) + 1
        /\ pc \in InSample
    BY <2>1, SampledFields DEF Gs
  <2>3. Len(samples) < Expected
    BY <2>2 DEF SampleInv
  <2>4. QED
    BY <1>1, <2>2, <2>3, LimitsAreNat DEF SampleInv, InSample
<1>3. CASE Charge \/ Send \/ NextTurn
  BY <1>3 DEF Charge, Send, NextTurn, Answer, SampleInv, InSample, suiteVars, Gs
<1>4. CASE Tick \/ UNCHANGED vars
  BY <1>4 DEF Tick, SampleInv, InSample, vars, suiteVars, Gs
<1>5. CASE Report
  <2>1. samples' = <<>> /\ pc' \in {"ask", "reported"}
    BY <1>5, ReportFields
  <2>2. samples' \in Seq([Gs' -> SampleOutcomes]) /\ Len(samples') = 0
    BY <2>1
  <2>3. QED
    BY <2>1, <2>2, LimitsAreNat DEF SampleInv, InSample
<1>6. QED
  BY <1>2, <1>3, <1>4, <1>5, Steps

LEMMA ChargesKept ==
    ASSUME CounterInv, SampleInv, RejectInv, ChargeInv, [Next]_vars
    PROVE  ChargeInv'
<1>1. used \in Nat /\ sent \in Nat /\ elapsed \in Nat
  BY DEF CounterInv
<1>2. CASE \E outcomes : Sampled(outcomes)
  <2>1. PICK outcomes : Sampled(outcomes)
    BY <1>2
  <2>2. UNCHANGED <<used, elapsed, sent>> /\ pc' \in {"ask", "done"}
    BY <2>1, SampledFields
  <2>3. pc = "charged" => TimeIsUp
    BY <2>1 DEF Sampled, Unasked, Answered
  <2>4. QED
    BY <2>2, <2>3 DEF ChargeInv, TimeIsUp
<1>3. CASE Charge
  <2>1. used' = sent + 1 /\ sent' = sent /\ pc' = "charged" /\ used' <= MaxCalls
    BY <1>1, <1>3, LimitsAreNat DEF Charge, ChargeInv
  <2>2. QED
    BY <2>1 DEF ChargeInv
<1>4. CASE Send
  BY <1>1, <1>4 DEF Send, ChargeInv, TimeIsUp, suiteVars
<1>5. CASE NextTurn \/ UNCHANGED vars
  BY <1>1, <1>5 DEF NextTurn, Answer, ChargeInv, TimeIsUp, vars, suiteVars
<1>6. CASE Tick
  BY <1>1, <1>6, LimitsAreNat DEF Tick, ChargeInv, TimeIsUp, suiteVars
<1>7. CASE Report
  BY <1>7, ReportFields DEF ChargeInv, TimeIsUp
<1>8. QED
  BY <1>2, <1>3, <1>4, <1>5, <1>6, <1>7, Steps

\* Neither the calls charged nor the time go back.
LEMMA SpentStays ==
    ASSUME CounterInv, SampleInv, RejectInv, [Next]_vars
    PROVE  /\ TimeIsUp => TimeIsUp'
           /\ Spent => Spent'
           /\ used' >= used /\ elapsed' >= elapsed
<1>1. used \in Nat /\ elapsed \in Nat
  BY DEF CounterInv
<1>2. used' >= used /\ used' \in Nat /\ elapsed' >= elapsed /\ elapsed' \in Nat
  <2>1. CASE \E outcomes : Sampled(outcomes)
    BY <1>1, <2>1, SampledFields
  <2>2. CASE Charge
    BY <1>1, <2>2 DEF Charge
  <2>3. CASE Tick
    BY <1>1, <2>3 DEF Tick
  <2>4. CASE Send \/ NextTurn \/ Report \/ UNCHANGED vars
    BY <1>1, <2>4 DEF Send, NextTurn, Answer, Report, vars
  <2>5. QED
    BY <2>1, <2>2, <2>3, <2>4, Steps
<1>3. QED
  BY <1>1, <1>2, LimitsAreNat DEF TimeIsUp, Spent

LEMMA RejectionStays ==
    ASSUME CounterInv, SampleInv, RejectInv, [Next]_vars
    PROVE  RejectInv'
<1>1. SUFFICES ASSUME rejected'
               PROVE  /\ Spent'
                      /\ pc' \notin {"charged", "calling"}
                      /\ samples' # <<>> =>
                            \E outcome \in RanOut : Newest' = ForAllGates(outcome)'
  BY DEF RejectInv
<1>2. CASE \E outcomes : Sampled(outcomes)
  <2>1. PICK outcomes : Sampled(outcomes)
    BY <1>2
  <2>2. /\ UNCHANGED <<used, elapsed, unit>> /\ pc' \in {"ask", "done"}
        /\ samples'[Len(samples')] = outcomes
    BY <2>1, SampledFields
  <2>3. CASE Unasked(outcomes)
    <3>1. PICK outcome \in RanOut : outcomes = ForAllGates(outcome) /\ Spent
      BY <1>1, <2>3 DEF Unasked
    <3>2. ForAllGates(outcome)' = ForAllGates(outcome) /\ Spent'
      BY <2>2, <3>1 DEF ForAllGates, Spent, TimeIsUp
    <3>3. QED
      BY <2>2, <3>1, <3>2 DEF Newest
  <2>4. CASE Answered(outcomes)
    BY <1>1, <2>4 DEF Answered, RejectInv
  <2>5. QED
    BY <2>1, <2>3, <2>4 DEF Sampled
<1>3. CASE Charge
  <2>1. rejected /\ ~Spent
    BY <1>1, <1>3, LimitsAreNat DEF Charge, Spent, CounterInv
  <2>2. QED
    BY <2>1 DEF RejectInv
<1>4. CASE Send \/ NextTurn
  BY <1>1, <1>4 DEF Send, NextTurn, Answer, RejectInv
<1>5. CASE Tick \/ UNCHANGED vars
  <2>1. /\ rejected /\ UNCHANGED <<pc, samples, unit>>
    BY <1>1, <1>5 DEF Tick, vars, suiteVars
  <2>2. Spent'
    BY <2>1, SpentStays DEF RejectInv
  <2>3. Newest' = Newest /\ \A outcome : ForAllGates(outcome)' = ForAllGates(outcome)
    BY <2>1 DEF Newest, ForAllGates
  <2>4. QED
    BY <2>1, <2>2, <2>3 DEF RejectInv
<1>6. CASE Report
  <2>1. rejected /\ samples' = <<>> /\ pc' \in {"ask", "reported"}
    BY <1>1, <1>6, ReportFields
  <2>2. QED
    BY <2>1, SpentStays DEF RejectInv
<1>7. QED
  BY <1>2, <1>3, <1>4, <1>5, <1>6, Steps

LEMMA CallsKept ==
    ASSUME CounterInv, SampleInv, RejectInv, CallInv, [Next]_vars
    PROVE  CallInv'
<1>1. sent \in Nat /\ sentBefore \in Nat /\ Len(samples) \in Nat
  BY DEF CounterInv, SampleInv
<1>2. CASE \E outcomes : Sampled(outcomes)
  <2>1. PICK outcomes : Sampled(outcomes)
    BY <1>2
  <2>2. /\ UNCHANGED <<unit, sent, sentBefore>> /\ pc' \in {"ask", "done"}
        /\ Len(samples') = Len(samples) + 1
        /\ \A i \in 1..Len(samples) : samples'[i] = samples[i]
        /\ samples'[Len(samples) + 1] = outcomes
        /\ Gs' = Gs
    BY <2>1, SampledFields DEF Gs
  <2>3. SUFFICES ASSUME NEW g \in Gs, \A i \in 1..Len(samples') : samples'[i][g].verdict = "pass"
                 PROVE  sentBefore + Len(samples) + 1 <= sent
    BY <1>1, <2>2 DEF CallInv
  <2>4. \A i \in 1..Len(samples) : samples[i][g].verdict = "pass"
    BY <1>1, <2>2, <2>3
  <2>5. outcomes[g].verdict = "pass"
    BY <1>1, <2>2, <2>3
  <2>6. pc = "calling"
    BY <2>1, <2>5 DEF Sampled, Unasked, Answered
  <2>7. QED
    BY <1>1, <2>4, <2>6 DEF CallInv
<1>3. CASE Charge \/ Tick \/ NextTurn \/ UNCHANGED vars
  <2>1. /\ UNCHANGED <<unit, samples, sent, sentBefore>> /\ Gs' = Gs
        /\ pc' = "calling" => pc = "calling"
    BY <1>3 DEF Charge, Tick, NextTurn, Answer, vars, suiteVars, Gs
  <2>2. QED
    BY <1>1, <2>1 DEF CallInv
<1>4. CASE Send
  <2>1. /\ UNCHANGED <<unit, samples, sentBefore>> /\ Gs' = Gs /\ sent' = sent + 1
        /\ pc = "charged" /\ pc' = "calling"
    BY <1>4 DEF Send, suiteVars, Gs
  <2>2. QED
    BY <1>1, <2>1 DEF CallInv
<1>5. CASE Report
  <2>1. samples' = <<>> /\ pc' # "calling" /\ sentBefore' = sent /\ sent' = sent
    BY <1>5, ReportFields
  <2>2. Len(samples') = 0
    BY <2>1
  <2>3. QED
    BY <1>1, <2>1, <2>2 DEF CallInv
<1>6. QED
  BY <1>2, <1>3, <1>4, <1>5, Steps

LEMMA BellKept ==
    ASSUME CounterInv, SampleInv, RejectInv, ChargeInv, BellInv, [Next]_vars
    PROVE  BellInv'
<1>1. /\ used \in Nat /\ sent \in Nat /\ elapsed \in Nat /\ Len(samples) \in Nat
  BY DEF CounterInv, SampleInv
<1>2. CASE \E outcomes : Sampled(outcomes)
  <2>1. PICK outcomes : Sampled(outcomes)
    BY <1>2
  <2>2. /\ UNCHANGED <<unit, used, sent, elapsed>>
        /\ Len(samples') = Len(samples) + 1
        /\ \A i \in 1..Len(samples) : samples'[i] = samples[i]
        /\ samples'[Len(samples) + 1] = outcomes
    BY <2>1, SampledFields
  <2>3. Gs' = Gs /\ IsBundle' = IsBundle /\ TimeIsUp' = TimeIsUp
    BY <2>2 DEF Gs, IsBundle, TimeIsUp
  <2>4. paused => paused'
    BY <2>1 DEF Sampled, Unasked, Answered
  <2>5. ASSUME NEW g \in Gs, outcomes[g] = Transient
        PROVE  paused' \/ (IsBundle /\ TimeIsUp /\ used = sent + 1)
    BY <2>1, <2>5 DEF Sampled, Unasked, Answered, ChargeInv
  <2>6. SUFFICES ASSUME NEW i \in 1..(Len(samples) + 1), NEW g \in Gs,
                        samples'[i][g] = Transient
                 PROVE  paused' \/ (IsBundle /\ TimeIsUp /\ used = sent + 1)
    BY <2>2, <2>3 DEF BellInv
  <2>7. CASE i = Len(samples) + 1
    BY <2>2, <2>5, <2>6, <2>7
  <2>8. CASE i \in 1..Len(samples)
    <3>1. samples[i][g] = Transient
      BY <2>2, <2>6, <2>8
    <3>2. QED
      BY <2>4, <2>8, <3>1 DEF BellInv
  <2>9. QED
    BY <1>1, <2>7, <2>8
<1>3. CASE Charge \/ Send \/ NextTurn \/ Tick \/ UNCHANGED vars
  <2>1. UNCHANGED <<unit, paused, samples>> /\ Gs' = Gs /\ IsBundle' = IsBundle
    BY <1>3 DEF Charge, Send, NextTurn, Answer, Tick, vars, suiteVars, Gs, IsBundle
  <2>2. TimeIsUp => TimeIsUp' /\ UNCHANGED <<used, sent>>
    BY <1>3, SpentStays DEF Charge, Send, NextTurn, Answer, Tick, vars, suiteVars
  <2>3. QED
    BY <2>1, <2>2 DEF BellInv
<1>4. CASE Report
  <2>1. Len(samples') = 0
    BY <1>4, ReportFields
  <2>2. QED
    BY <2>1 DEF BellInv
<1>5. QED
  BY <1>2, <1>3, <1>4, Steps

-----------------------------------------------------------------------------
(***************************************************************************)
(* From one unit to the next.                                              *)
(***************************************************************************)
LEMMA SampleTyped == SampleInv => samples \in Seq([Gs -> SampleOutcomes])
BY DEF SampleInv

LEMMA DirectUnit ==
    ASSUME ~IsBundle
    PROVE  Gs = {unit} /\ GatesForUnit(unit) = {unit}
BY DEF Gs, GatesForUnit, IsBundle

\* A direct unit that ended with a transient sample only lets the suite go on when a
\* sample before it failed or could not be judged.
LEMMA GoesOnExcused ==
    ASSUME SampleInv, pc = "done", ~IsBundle, ~Stops(unit, Aggregate(unit)),
           Newest = ForAllGates(Transient)
    PROVE  Excuse(Aggregate(unit)) /\ Len(samples) > 1
<1> DEFINE n == Len(samples)
           result == Aggregate(unit)
<1>1. n \in Nat /\ n > 0
  BY DEF SampleInv
<1>2. unit \in Gs
  BY DirectUnit
<1>3. samples[n][unit] = Transient
  <2>1. ForAllGates(Transient)[unit] = Transient
    BY <1>2, SameForAll, OutcomesDiffer
  <2>2. QED
    BY <2>1 DEF Newest
<1>4. \/ FailedBy(unit, result) \/ PassedBy(unit, result) \/ BlockedBy(unit, result)
      \/ UndecidedBy(unit, result) \/ UntestedBy(unit, result) \/ CutShort(unit, result)
  BY <1>2, SampleTyped, Aggregates
<1> HIDE DEF result
<1>5. ASSUME result.layer = "external", result.verdict \in {"blocked", "inconclusive"}
      PROVE  Stops(unit, result)
  BY <1>5 DEF Stops, OpensExternalCircuit
<1>6. ~Stops(unit, result)
  BY DEF result
<1>7. ~PassedBy(unit, result) /\ ~UntestedBy(unit, result) /\ ~CutShort(unit, result)
  BY <1>1, <1>3, OutcomesDiffer DEF PassedBy, UntestedBy, CutShort
<1>8. ~BlockedBy(unit, result)
  <2>1. ASSUME BlockedBy(unit, result)
        PROVE  result.layer = "external" /\ result.verdict \in {"blocked", "inconclusive"}
    BY <2>1 DEF BlockedBy, Blocked, Outcome
  <2>2. QED
    BY <1>5, <1>6, <2>1
<1>9. result # Transient
  <2>1. ASSUME result = Transient
        PROVE  result.layer = "external" /\ result.verdict \in {"blocked", "inconclusive"}
    BY <2>1 DEF Transient, Outcome
  <2>2. QED
    BY <1>5, <1>6, <2>1
<1>10. PICK i \in 1..n : samples[i][unit] = result /\ result \in {Failed, TooLarge}
  BY <1>4, <1>7, <1>8, <1>9 DEF FailedBy, UndecidedBy
<1>11. i # n
  BY <1>3, <1>9, <1>10
<1>12. Excuse(result)
  BY <1>10 DEF Excuse, Failed, Outcome
<1>13. QED
  BY <1>1, <1>10, <1>11, <1>12 DEF result

LEMMA PauseStays ==
    ASSUME CounterInv, SampleInv, RejectInv, PauseInv, SuiteInv, [Next]_vars
    PROVE  PauseInv'
<1>1. SUFFICES ASSUME paused'
               PROVE  /\ pc' \in {"charged", "calling"} => ~IsBundle'
                      /\ pc' \in InSample => samples' = <<>> /\ Expected > 1
                      /\ pc' = "done" => \/ Len(samples') < Expected
                                         \/ Newest' = ForAllGates(Transient)'
  BY DEF PauseInv
<1>2. CASE \E outcomes : Sampled(outcomes)
  <2>1. PICK outcomes : Sampled(outcomes)
    BY <1>2
  <2>2. /\ pc \in InSample /\ pc' = "done" /\ unit' = unit
        /\ Len(samples') = Len(samples) + 1
        /\ samples'[Len(samples')] = outcomes
    BY <1>1, <2>1, SampledFields
  <2>3. CASE paused
    <3>1. samples = <<>> /\ Expected > 1
      BY <2>2, <2>3 DEF PauseInv
    <3>2. Len(samples') < Expected
      BY <2>2, <3>1, LimitsAreNat
    <3>3. QED
      BY <2>2, <3>2 DEF InSample
  <2>4. CASE ~paused
    <3>1. outcomes = ForAllGates(Transient)
      BY <1>1, <2>1, <2>4 DEF Sampled, Unasked, Answered
    <3>2. Newest' = ForAllGates(Transient)'
      BY <2>2, <3>1 DEF Newest, ForAllGates
    <3>3. QED
      BY <2>2, <3>2 DEF InSample
  <2>5. QED
    BY <2>3, <2>4
<1>3. CASE Charge
  <2>1. paused /\ UNCHANGED <<unit, samples>> /\ pc = "ask" /\ pc' = "charged" /\ ~IsBundle
    BY <1>1, <1>3 DEF Charge, CircuitIsOpen, suiteVars
  <2>2. QED
    BY <2>1 DEF PauseInv, InSample, IsBundle
<1>4. CASE Send
  <2>1. /\ paused /\ UNCHANGED <<unit, samples>>
        /\ pc = "charged" /\ pc' = "calling"
    BY <1>1, <1>4 DEF Send, suiteVars
  <2>2. QED
    BY <2>1 DEF PauseInv, InSample, IsBundle
<1>5. CASE NextTurn
  BY <1>1, <1>5 DEF NextTurn, Answer, PauseInv
<1>6. CASE Tick \/ UNCHANGED vars
  <2>1. paused /\ UNCHANGED <<unit, pc, samples>>
    BY <1>1, <1>6 DEF Tick, vars, suiteVars
  <2>2. Newest' = Newest /\ ForAllGates(Transient)' = ForAllGates(Transient)
    BY <2>1 DEF Newest, ForAllGates
  <2>3. QED
    BY <2>1, <2>2 DEF PauseInv, IsBundle
<1>7. CASE Report
  <2>1. paused /\ pc = "done" /\ samples' = <<>> /\ pc' \in {"ask", "reported"}
    BY <1>1, <1>7, ReportFields
  <2>2. ASSUME pc' = "ask"
        PROVE  Expected > 1
    <3>1. queue # <<>> /\ ~Stops(unit, Aggregate(unit))
      BY <1>7, <2>2 DEF Report
    <3>2. ~IsBundle
      BY <2>1, <3>1 DEF SuiteInv
    <3>3. Len(samples) > 1 \/ Len(samples) < Expected
      BY <2>1, <3>1, <3>2, GoesOnExcused DEF PauseInv
    <3>4. Len(samples) \in Nat /\ Len(samples) > 0 /\ Len(samples) <= Expected
      BY <2>1 DEF SampleInv
    <3>5. QED
      BY <3>3, <3>4, LimitsAreNat
  <2>3. QED
    BY <2>1, <2>2 DEF InSample
<1>8. QED
  BY <1>2, <1>3, <1>4, <1>5, <1>6, <1>7, Steps

\* The report with the results of a direct unit.
LEMMA ReportOfUnit ==
    ASSUME ~IsBundle, unit \notin DOMAIN report
    PROVE  /\ DOMAIN Extended(report, Results) = DOMAIN report \cup {unit}
           /\ \A g \in DOMAIN report : Extended(report, Results)[g] = report[g]
           /\ Extended(report, Results)[unit] = Aggregate(unit)
<1>1. DOMAIN Results = {unit} /\ Results[unit] = Aggregate(unit)
  BY DirectUnit DEF Results
<1> HIDE DEF Results
<1>2. QED
  BY <1>1 DEF Extended

LEMMA SuiteKept ==
    ASSUME CounterInv, SampleInv, RejectInv, PauseInv, SuiteInv, [Next]_vars
    PROVE  SuiteInv'
<1>1. CASE \E outcomes : Sampled(outcomes)
  <2>1. PICK outcomes : Sampled(outcomes)
    BY <1>1
  <2>2. /\ pc \in InSample /\ pc' \in {"ask", "done"} /\ UNCHANGED <<live, unit, queue, report>>
        /\ samples'[Len(samples')] = outcomes /\ samples' # <<>>
    BY <2>1, SampledFields
  <2>3. ASSUME paused'
        PROVE  \/ \E g \in DOMAIN report : Excuse(report[g])
               \/ samples' # <<>> /\ Newest' = ForAllGates(Transient)'
    <3>1. CASE paused
      <4>1. samples = <<>>
        BY <2>2, <3>1 DEF PauseInv
      <4>2. QED
        BY <2>2, <3>1, <4>1 DEF SuiteInv, InSample
    <3>2. CASE ~paused
      <4>1. outcomes = ForAllGates(Transient)
        BY <2>1, <2>3, <3>2 DEF Sampled, Unasked, Answered
      <4>2. QED
        BY <2>2, <4>1 DEF Newest, ForAllGates
    <3>3. QED
      BY <3>1, <3>2
  <2>4. pc # "reported"
    BY <2>2 DEF InSample
  <2>5. IsBundle' = IsBundle
    BY <2>2 DEF IsBundle
  <2>6. QED
    BY <2>2, <2>3, <2>4, <2>5 DEF SuiteInv
<1>2. CASE Charge \/ Send \/ NextTurn \/ Tick \/ UNCHANGED vars
  <2>1. /\ UNCHANGED <<live, unit, queue, report, samples, paused>>
        /\ pc' = "reported" <=> pc = "reported"
    BY <1>2 DEF Charge, Send, NextTurn, Answer, Tick, vars, suiteVars
  <2>2. /\ Newest' = Newest /\ ForAllGates(Transient)' = ForAllGates(Transient)
        /\ IsBundle' = IsBundle
    BY <2>1 DEF Newest, ForAllGates, IsBundle
  <2>3. QED
    BY <2>1, <2>2 DEF SuiteInv
<1>3. CASE Report
  <2>1. pc = "done" /\ live /\ UNCHANGED <<live, paused>> /\ samples' = <<>>
    BY <1>3, ReportFields
  <2>2. CASE pc' = "reported"
    <3>1. unit' = unit /\ queue' = <<>>
      BY <1>3, <2>2 DEF Report
    <3>2. QED
      BY <2>1, <2>2, <3>1 DEF SuiteInv
  <2>3. CASE pc' # "reported"
    <3>1. /\ queue # <<>> /\ ~Stops(unit, Aggregate(unit))
          /\ report' = Extended(report, Results)
          /\ unit' = Head(queue) /\ queue' = Tail(queue)
      BY <1>3, <2>3 DEF Report
    <3>2. /\ ~IsBundle /\ unit \notin DOMAIN report
          /\ queue \in Seq(Units) /\ Distinct(queue)
          /\ \A i \in DOMAIN queue : queue[i] # unit /\ queue[i] \notin DOMAIN report
          /\ \A g \in DOMAIN report : ~Stops(g, report[g])
      BY <2>1, <3>1 DEF SuiteInv
    <3>3. /\ DOMAIN report' = DOMAIN report \cup {unit}
          /\ \A g \in DOMAIN report : report'[g] = report[g]
          /\ report'[unit] = Aggregate(unit)
      BY <3>1, <3>2, ReportOfUnit
    <3>4. \A g \in DOMAIN report' : ~Stops(g, report'[g])
      BY <3>1, <3>2, <3>3
    <3>5. /\ DOMAIN queue = 1..Len(queue) /\ Len(queue) \in Nat /\ Len(queue) > 0
          /\ unit' = queue[1] /\ queue' \in Seq(Units)
          /\ DOMAIN queue' = 1..(Len(queue) - 1)
          /\ \A i \in DOMAIN queue' : i + 1 \in DOMAIN queue /\ queue'[i] = queue[i + 1]
      BY <3>1, <3>2
    <3>6. unit' \notin DOMAIN report'
      BY <3>2, <3>3, <3>5
    <3>7. \A i \in DOMAIN queue' : queue'[i] # unit' /\ queue'[i] \notin DOMAIN report'
      BY <3>2, <3>3, <3>5 DEF Distinct
    <3>8. Distinct(queue')
      BY <3>2, <3>5 DEF Distinct
    <3>9. queue' # <<>> => ~IsBundle'
      BY <3>2, <3>5 DEF Distinct, IsBundle
    <3>10. unit' \in Units
      BY <3>2, <3>5
    <3>11. paused' => \E g \in DOMAIN report' : Excuse(report'[g])
      <4>1. CASE \E g \in DOMAIN report : Excuse(report[g])
        BY <3>3, <4>1
      <4>2. CASE Newest = ForAllGates(Transient)
        BY <2>1, <3>1, <3>2, <3>3, <4>2, GoesOnExcused
      <4>3. QED
        BY <2>1, <4>1, <4>2 DEF SuiteInv
    <3>12. QED
      BY <2>1, <3>4, <3>5, <3>6, <3>7, <3>8, <3>9, <3>10, <3>11 DEF SuiteInv
  <2>4. QED
    BY <2>2, <2>3
<1>4. QED
  BY <1>1, <1>2, <1>3, Steps

-----------------------------------------------------------------------------
(***************************************************************************)
(* The invariant.                                                          *)
(***************************************************************************)
LEMMA InitExecutor == Init => ExecutorInv
<1> SUFFICES ASSUME Init
             PROVE  ExecutorInv
  OBVIOUS
<1>1. /\ live \in BOOLEAN /\ report = <<>> /\ sentBefore = 0 /\ pc = "ask" /\ used = 0
      /\ rejected = FALSE /\ paused = FALSE /\ elapsed = 0 /\ turns = 0
      /\ samples = <<>> /\ sent = 0
  BY DEF Init
<1>2. CounterInv
  <2>1. live \in BOOLEAN /\ rejected \in BOOLEAN /\ paused \in BOOLEAN
    BY <1>1, Zenon
  <2>2. /\ used \in Nat /\ sent \in Nat /\ sentBefore \in Nat /\ elapsed \in Nat
        /\ sentBefore <= sent /\ elapsed <= MaxElapsed /\ turns \in 0..MaxTurns
    BY <1>1, LimitsAreNat
  <2>3. QED
    BY <2>1, <2>2 DEF CounterInv
<1>3. Len(samples) = 0 /\ samples \in Seq([Gs -> SampleOutcomes])
  BY <1>1
<1>4. SampleInv
  BY <1>1, <1>3, LimitsAreNat DEF SampleInv, InSample
<1>5. ChargeInv /\ RejectInv /\ BellInv /\ PauseInv
  BY <1>1, <1>3, LimitsAreNat DEF ChargeInv, RejectInv, BellInv, PauseInv
<1>6. CallInv
  BY <1>1, <1>3 DEF CallInv
<1>7. SuiteInv
  <2>1. DOMAIN report = {}
    BY <1>1
  <2>2. /\ \A u \in UnitsRun : u \in Units
        /\ Suite \in Seq(Units) /\ Suite # <<>>
        /\ Distinct(Suite)
    <3>1. {u \in Units : IsExternal(u)} \subseteq Units
      OBVIOUS
    <3>2. QED
      BY <3>1, BudgetAssumption DEF Distinct
  <2>3. CASE live
    <3>1. unit = Head(Suite) /\ queue = Tail(Suite)
      BY <2>3 DEF Init
    <3>2. /\ DOMAIN Suite = 1..Len(Suite) /\ Len(Suite) \in Nat /\ Len(Suite) > 0
          /\ unit = Suite[1] /\ unit \in Units /\ queue \in Seq(Units)
          /\ DOMAIN queue = 1..(Len(Suite) - 1)
          /\ \A i \in DOMAIN queue : i + 1 \in DOMAIN Suite /\ queue[i] = Suite[i + 1]
      BY <2>2, <3>1
    <3>3. Distinct(queue)
      BY <2>2, <3>2 DEF Distinct
    <3>4. \A i \in DOMAIN queue : queue[i] # unit
      BY <2>2, <3>2 DEF Distinct
    <3>5. queue # <<>> => ~IsBundle
      BY <2>2, <3>2 DEF Distinct, IsBundle
    <3>6. QED
      BY <1>1, <2>1, <2>3, <3>2, <3>3, <3>4, <3>5 DEF SuiteInv
  <2>4. CASE ~live
    <3>1. unit \in UnitsRun /\ queue = <<>>
      BY <2>4 DEF Init
    <3>2. DOMAIN queue = {} /\ queue \in Seq(Units)
      BY <3>1
    <3>3. Distinct(queue)
      BY <3>2 DEF Distinct
    <3>4. QED
      BY <1>1, <2>1, <2>2, <2>4, <3>1, <3>2, <3>3 DEF SuiteInv
  <2>5. QED
    BY <2>3, <2>4
<1>8. QED
  BY <1>2, <1>4, <1>5, <1>6, <1>7 DEF ExecutorInv

LEMMA ExecutorInvKept == ExecutorInv /\ [Next]_vars => ExecutorInv'
<1>1. ASSUME ExecutorInv, [Next]_vars
      PROVE  ExecutorInv'
  BY <1>1, CountersKept, SamplesKept, ChargesKept, RejectionStays, CallsKept, BellKept,
     PauseStays, SuiteKept DEF ExecutorInv
<1>2. QED
  BY <1>1

LEMMA Invariance == Spec => []ExecutorInv
BY InitExecutor, ExecutorInvKept, PTL DEF Spec

-----------------------------------------------------------------------------
(***************************************************************************)
(* What follows from it.                                                   *)
(***************************************************************************)
\* CallBudget::consume and sent are in step: never more than was granted is charged, and
\* never more than one call is charged and not sent, in the unit or in the whole suite.
THEOREM ChargesStayTight == Spec => []ChargesAreTight
<1>1. ExecutorInv => ChargesAreTight
  BY DEF ExecutorInv, CounterInv, ChargeInv, ChargesAreTight
<1>2. QED
  BY <1>1, Invariance, PTL

\* Only samples that all passed aggregate to a pass.
LEMMA OnlyPassedByPasses ==
    ASSUME SampleInv, NEW g \in Gs, Aggregate(g).verdict = "pass"
    PROVE  PassedBy(g, Aggregate(g))
<1> DEFINE result == Aggregate(g)
<1>1. ~FailedBy(g, result) /\ ~BlockedBy(g, result) /\ ~UndecidedBy(g, result)
  BY DEF FailedBy, BlockedBy, UndecidedBy, Failed, Blocked, Transient, TooLarge, Outcome
<1>2. ~UntestedBy(g, result) /\ ~CutShort(g, result)
  BY DEF UntestedBy, CutShort, Budget, Outcome
<1>3. QED
  BY <1>1, <1>2, SampleTyped, Aggregates

\* aggregate_samples gives no gate a pass for less than the samples of the profile, each
\* with a call of its own and none cut short by a pause or a refusal.
THEOREM PassStaysEarned == Spec => []PassIsEarned
<1>1. ASSUME ExecutorInv, pc = "done", NEW g \in GatesForUnit(unit),
             Aggregate(g).verdict = "pass"
      PROVE  /\ Len(samples) = Expected
             /\ \A i \in 1..Expected : samples[i][g] = Passed
             /\ sent - sentBefore >= Expected
             /\ ~paused /\ ~rejected
  <2>1. SampleInv /\ CallInv /\ RejectInv /\ PauseInv /\ CounterInv
    BY <1>1 DEF ExecutorInv
  <2>2. g \in Gs
    BY DEF Gs
  <2>3. Len(samples) = Expected /\ \A i \in 1..Expected : samples[i][g] = Passed
    BY <1>1, <2>1, <2>2, OnlyPassedByPasses DEF PassedBy
  <2>4. Passed.verdict = "pass"
    BY DEF Passed, Outcome
  <2>5. sentBefore + Expected <= sent
    <3>1. sentBefore + Len(samples) + (IF pc = "calling" THEN 1 ELSE 0) <= sent
      BY <2>1, <2>2, <2>3, <2>4 DEF CallInv
    <3>2. QED
      BY <1>1, <2>1, <2>3, <3>1, LimitsAreNat DEF CounterInv
  <2>6. Newest[g] = Passed /\ samples # <<>>
    BY <2>3, LimitsAreNat DEF Newest
  <2>7. \A outcome \in RanOut \cup {Transient} :
           outcome # Passed /\ ForAllGates(outcome)[g] = outcome
    BY <2>2, SameForAll, OutcomesDiffer DEF RanOut, Passed, Budget, Outcome
  <2>8. ~rejected
    BY <2>1, <2>6, <2>7 DEF RejectInv
  <2>9. ~paused
    BY <1>1, <2>1, <2>3, <2>6, <2>7, LimitsAreNat DEF PauseInv
  <2>10. sent - sentBefore >= Expected
    BY <2>1, <2>5, LimitsAreNat DEF CounterInv
  <2>11. QED
    BY <2>3, <2>8, <2>9, <2>10
<1>2. ExecutorInv => PassIsEarned
  BY <1>1 DEF PassIsEarned
<1>3. QED
  BY <1>2, Invariance, PTL

\* The scheduler looks for a gate that ran out, and no other result hides one: what it
\* confirms of a refused unit is what a sample said.
THEOREM NothingUntestedStaysConfirmed == Spec => []NothingUntestedIsConfirmed
<1>1. ASSUME ExecutorInv, pc = "done", Decision = "confirm", rejected,
             NEW g \in GatesForUnit(unit)
      PROVE  \E i \in 1..Len(samples) :
                /\ samples[i][g].verdict \in {"fail", "blocked", "inconclusive"}
                /\ samples[i][g].layer = Aggregate(g).layer
  <2> DEFINE result == Aggregate(g)
             n == Len(samples)
  <2>1. SampleInv /\ RejectInv
    BY <1>1 DEF ExecutorInv
  <2>2. g \in Gs
    BY DEF Gs
  <2>3. n \in Nat /\ n > 0 /\ samples # <<>>
    BY <1>1, <2>1 DEF SampleInv
  <2>4. samples[n][g] \in RanOut
    <3>1. PICK outcome \in RanOut : samples[n] = ForAllGates(outcome)
      BY <1>1, <2>1, <2>3 DEF RejectInv, Newest
    <3>2. ForAllGates(outcome)[g] = outcome
      BY <2>2, SameForAll, OutcomesDiffer
    <3>3. QED
      BY <3>1, <3>2
  <2>5. Passed \notin RanOut
    BY DEF Passed, RanOut, Budget, Outcome
  <2>6. ~Exhausted
    BY <1>1 DEF Decision
  <2>7. CASE FailedBy(g, result)
    BY <2>7 DEF FailedBy, Failed, Outcome
  <2>8. CASE BlockedBy(g, result)
    BY <2>8 DEF BlockedBy, Blocked, Outcome
  <2>9. CASE UndecidedBy(g, result)
    BY <2>9 DEF UndecidedBy, Transient, TooLarge, Outcome
  <2>10. CASE UntestedBy(g, result)
    <3>1. result.layer = "budget" /\ result.reason = "call_limit_reached"
      BY <2>10 DEF UntestedBy, Budget, Outcome
    <3>2. QED
      BY <2>6, <3>1 DEF Exhausted
  <2>11. ~PassedBy(g, result) /\ ~CutShort(g, result)
    BY <2>3, <2>4, <2>5 DEF PassedBy, CutShort
  <2>12. QED
    BY <2>1, <2>2, <2>7, <2>8, <2>9, <2>10, <2>11, SampleTyped, Aggregates
<1>2. ExecutorInv => NothingUntestedIsConfirmed
  BY <1>1 DEF NothingUntestedIsConfirmed
<1>3. QED
  BY <1>2, Invariance, PTL

\* A transient sample pauses the scheduler, but for the one the bundle's BudgetedModelClient
\* makes up when the time ends between the charge and the call.
THEOREM TransientStaysWithTheBell == Spec => []TransientNeedsTheBell
<1>1. Decision = "confirm" => ~paused
  BY DEF Decision
<1>2. ExecutorInv => TransientNeedsTheBell
  BY <1>1 DEF ExecutorInv, BellInv, TransientNeedsTheBell, Gs
<1>3. QED
  BY <1>2, Invariance, PTL

\* The guards of CallBudget::consume and call_budget_time, OpensExternalCircuit and the
\* repair client, together: no call is sent after a refusal, past the time, or behind a
\* gate that stopped the suite, and after a pause only the one the exception allows.
THEOREM CallsStayAllowed == Spec => CallsOnlyWhenAllowed
<1>1. ASSUME ExecutorInv, [Next]_vars, sent' # sent
      PROVE  /\ ~rejected /\ elapsed < MaxElapsed
             /\ \A g \in DOMAIN report : ~Stops(g, report[g])
             /\ paused =>
                   /\ ~IsBundle /\ samples = <<>>
                   /\ \E g \in DOMAIN report :
                         report[g].verdict = "fail" \/ report[g] = TooLarge
  <2>1. CounterInv /\ SampleInv /\ RejectInv /\ PauseInv /\ SuiteInv
    BY <1>1 DEF ExecutorInv
  <2>2. Send
    <3>1. ~\E outcomes : Sampled(outcomes)
      BY <1>1, <2>1, SampledFields
    <3>2. ~(Charge \/ NextTurn \/ Tick \/ Report \/ UNCHANGED vars)
      BY <1>1 DEF Charge, NextTurn, Answer, Tick, Report, vars
    <3>3. QED
      BY <1>1, <2>1, <3>1, <3>2, Steps
  <2>3. pc = "charged" /\ ~TimeIsUp
    BY <2>2 DEF Send
  <2>4. ~rejected
    BY <2>1, <2>3 DEF RejectInv
  <2>5. elapsed < MaxElapsed
    BY <2>1, <2>3, LimitsAreNat DEF CounterInv, TimeIsUp
  <2>6. \A g \in DOMAIN report : ~Stops(g, report[g])
    BY <2>1, <2>3 DEF SuiteInv
  <2>7. ASSUME paused
        PROVE  /\ ~IsBundle /\ samples = <<>>
               /\ \E g \in DOMAIN report : Excuse(report[g])
    <3>1. ~IsBundle /\ samples = <<>>
      BY <2>1, <2>3, <2>7 DEF PauseInv, InSample
    <3>2. QED
      BY <2>1, <2>3, <2>7, <3>1 DEF SuiteInv
  <2>8. QED
    BY <2>4, <2>5, <2>6, <2>7 DEF Excuse
<1>2. ExecutorInv /\ [Next]_vars =>
        [ sent' # sent =>
            /\ ~rejected /\ elapsed < MaxElapsed
            /\ \A g \in DOMAIN report : ~Stops(g, report[g])
            /\ paused =>
                  /\ ~IsBundle /\ samples = <<>>
                  /\ \E g \in DOMAIN report :
                        report[g].verdict = "fail" \/ report[g] = TooLarge ]_vars
  BY <1>1
<1>3. QED
  BY <1>2, Invariance, PTL DEF Spec, CallsOnlyWhenAllowed

-----------------------------------------------------------------------------
(***************************************************************************)
(* Types.                                                                  *)
(***************************************************************************)
SuiteGates == UNION {GatesForUnit(u) : u \in Range(Suite)}

ReportTyped(results) == \A g \in DOMAIN results : g \in SuiteGates /\ results[g] \in Outcomes

TypeInv ==
    /\ unit \in UnitsRun \cup Range(Suite)
    /\ live => unit \in Range(Suite)
    /\ queue \in Seq(Range(Suite))
    /\ ReportTyped(report)

LEMMA AggregateTyped ==
    ASSUME SampleInv, NEW g \in Gs
    PROVE  Aggregate(g) \in Outcomes
<1> DEFINE result == Aggregate(g)
<1>1. /\ FailedBy(g, result) => result \in Outcomes
      /\ PassedBy(g, result) => result \in Outcomes
      /\ BlockedBy(g, result) => result \in Outcomes
      /\ UndecidedBy(g, result) => result \in Outcomes
  BY DEF FailedBy, PassedBy, BlockedBy, UndecidedBy, Failed, Passed, Blocked, Transient,
         TooLarge, Outcome, Outcomes, AllVerdicts
<1>2. /\ UntestedBy(g, result) => result \in Outcomes
      /\ CutShort(g, result) => result \in Outcomes
  BY DEF UntestedBy, CutShort, Budget, Outcome, Outcomes, AllVerdicts
<1>3. QED
  BY <1>1, <1>2, SampleTyped, Aggregates

LEMMA ExtendedTyped ==
    ASSUME NEW results, NEW more, ReportTyped(results), ReportTyped(more)
    PROVE  ReportTyped(Extended(results, more))
BY DEF ReportTyped, Extended

LEMMA ResultsTyped ==
    ASSUME SampleInv, unit \in Range(Suite)
    PROVE  ReportTyped(Results)
<1>1. \A g \in GatesForUnit(unit) : g \in SuiteGates
  BY DEF SuiteGates
<1>2. \A g \in GatesForUnit(unit) : Aggregate(g) \in Outcomes
  BY AggregateTyped DEF Gs
<1>3. QED
  BY <1>1, <1>2 DEF ReportTyped, Results

LEMMA SkippedTyped ==
    ASSUME NEW units \in Seq(Range(Suite)), NEW outcome \in Outcomes
    PROVE  ReportTyped(Skipped(units, outcome.layer))
<1>1. Range(units) \subseteq Range(Suite)
  BY DEF Range
<1>2. outcome.layer \in {"other", "external", "budget"}
  BY DEF Outcomes
<1>3. PrerequisiteNotTested(outcome.layer) \in Outcomes
  BY <1>2 DEF PrerequisiteNotTested, Outcome, Outcomes, AllVerdicts
<1>4. \A g \in UNION {GatesForUnit(u) : u \in Range(units)} : g \in SuiteGates
  BY <1>1 DEF SuiteGates
<1>5. QED
  BY <1>3, <1>4 DEF ReportTyped, Skipped

LEMMA InitTyped == Init => TypeInv
<1> SUFFICES ASSUME Init
             PROVE  TypeInv
  OBVIOUS
<1>1. live \in BOOLEAN /\ report = <<>>
  BY DEF Init
<1>2. ReportTyped(report)
  BY <1>1 DEF ReportTyped
<1>3. Suite \in Seq(Range(Suite)) /\ Suite # <<>>
  BY BudgetAssumption DEF Range
<1>4. CASE live
  <2>1. unit = Head(Suite) /\ queue = Tail(Suite)
    BY <1>4 DEF Init
  <2>2. QED
    BY <1>2, <1>3, <2>1 DEF TypeInv
<1>5. CASE ~live
  <2>1. unit \in UnitsRun /\ queue = <<>>
    BY <1>5 DEF Init
  <2>2. QED
    BY <1>2, <1>5, <2>1 DEF TypeInv
<1>6. QED
  BY <1>1, <1>4, <1>5

LEMMA TypesKept ==
    ASSUME ExecutorInv, TypeInv, [Next]_vars
    PROVE  TypeInv'
<1>1. CounterInv /\ SampleInv /\ RejectInv /\ SuiteInv
  BY DEF ExecutorInv
<1>2. CASE UNCHANGED <<live, unit, queue, report>>
  BY <1>2 DEF TypeInv, ReportTyped
<1>3. CASE Report
  <2>1. live' = live /\ live /\ unit \in Range(Suite)
    BY <1>3, ReportFields DEF TypeInv
  <2>2. ReportTyped(Extended(report, Results))
    BY <1>1, <2>1, ResultsTyped, ExtendedTyped DEF TypeInv
  <2>3. CASE unit' = unit /\ queue' = queue /\ report' = Extended(report, Results)
    BY <2>1, <2>2, <2>3 DEF TypeInv, ReportTyped
  <2>4. CASE /\ queue # <<>> /\ report' = Extended(report, Results)
             /\ unit' = Head(queue) /\ queue' = Tail(queue)
    <3>1. unit' \in Range(Suite) /\ queue' \in Seq(Range(Suite))
      BY <2>4 DEF TypeInv
    <3>2. QED
      BY <2>2, <2>4, <3>1 DEF TypeInv, ReportTyped
  <2>5. CASE /\ queue # <<>> /\ unit' = unit /\ queue' = <<>>
             /\ report' = Extended(Extended(report, Results),
                                   Skipped(queue, Aggregate(unit).layer))
    <3>1. ~IsBundle
      BY <1>1, <1>3, <2>5 DEF SuiteInv, Report
    <3>2. Aggregate(unit) \in Outcomes
      BY <1>1, <3>1, DirectUnit, AggregateTyped
    <3>3. ReportTyped(report')
      BY <2>2, <2>5, <3>2, SkippedTyped, ExtendedTyped DEF TypeInv
    <3>4. QED
      BY <2>1, <2>5, <3>3 DEF TypeInv, ReportTyped
  <2>6. QED
    BY <1>3, <2>3, <2>4, <2>5 DEF Report
<1>4. QED
  <2>1. (\E outcomes : Sampled(outcomes)) => UNCHANGED <<live, unit, queue, report>>
    BY <1>1, SampledFields
  <2>2. Charge \/ Send \/ NextTurn \/ Tick \/ UNCHANGED vars =>
          UNCHANGED <<live, unit, queue, report>>
    BY DEF Charge, Send, NextTurn, Answer, Tick, vars, suiteVars
  <2>3. QED
    BY <1>1, <1>2, <1>3, <2>1, <2>2, Steps

\* Every variable has its type, and a result of the report is a gate's of the suite.
THEOREM TypeCorrect == Spec => []TypeOK
<1>1. ExecutorInv /\ TypeInv => TypeOK
  <2> SUFFICES ASSUME ExecutorInv, TypeInv
               PROVE  TypeOK
    OBVIOUS
  <2>1. CounterInv /\ SampleInv
    BY DEF ExecutorInv
  <2>2. DOMAIN report \subseteq SuiteGates /\ Range(report) \subseteq Outcomes
    BY DEF TypeInv, ReportTyped, Range
  <2>3. samples \in Seq([GatesForUnit(unit) -> Outcomes])
    <3>1. [Gs -> SampleOutcomes] \subseteq [Gs -> Outcomes]
      BY OutcomesByVerdict
    <3>2. QED
      BY <2>1, <3>1 DEF SampleInv, Gs
  <2>4. Len(samples) <= Expected
    BY <2>1, LimitsAreNat DEF SampleInv
  <2>5. /\ elapsed \in 0..MaxElapsed /\ turns \in 0..MaxTurns
        /\ used \in Nat /\ sent \in Nat /\ sentBefore \in 0..sent
    BY <2>1, LimitsAreNat DEF CounterInv
  <2>6. live \in BOOLEAN /\ rejected \in BOOLEAN /\ paused \in BOOLEAN
    BY <2>1 DEF CounterInv
  <2>7. pc \in {"ask", "charged", "calling", "done", "reported"}
    BY <2>1 DEF SampleInv, InSample
  <2>8. unit \in UnitsRun \cup Range(Suite) /\ queue \in Seq(Range(Suite))
    BY DEF TypeInv
  <2>9. QED
    BY <2>2, <2>3, <2>4, <2>5, <2>6, <2>7, <2>8 DEF TypeOK, SuiteGates
<1>2. ExecutorInv /\ TypeInv /\ [Next]_vars => TypeInv'
  BY TypesKept
<1>3. QED
  BY <1>1, <1>2, InitTyped, Invariance, PTL DEF Spec
=============================================================================
