--------------------------- MODULE ProbeExecutor ---------------------------
(***************************************************************************)
(* The executor of the compatibility probe                                 *)
(* (src/src/harness/model_compatibility_probe.rs): samples of one external *)
(* unit after the other under a budget of calls and active time, and their *)
(* aggregation into one result per gate.  Either the scheduler hands it a  *)
(* unit and what is left of its budgets (execute_unit), or it runs the     *)
(* whole suite under the one budget of the command line (run_live).        *)
(*                                                                         *)
(* A direct unit asks the provider once per sample.  The repair bundle     *)
(* runs a whole AgentLoop per sample, one call per turn, through           *)
(* BudgetedModelClient; its recovery budget is zero, so the first failed   *)
(* call ends the sample.  The clock runs between any two steps: the budget *)
(* is asked once when a call is charged and once more when it is sent.     *)
(***************************************************************************)
EXTENDS Integers, Sequences, SequencesExt, ProbeUnits

CONSTANTS
    UnitsRun,    \* the external units the scheduler runs
    Suite,       \* the external units of run_live, in their order, the bundle the last
    Expected,    \* samples of the profile: 1 for smoke, 3 for certify
    MaxCalls,    \* calls of the budget
    MaxElapsed,  \* active time of the budget
    MaxTurns     \* turns of the AgentLoop in one sample of the bundle

ASSUME BudgetAssumption ==
    /\ UnitsRun \subseteq {u \in Units : IsExternal(u)}
    /\ Suite \in Seq({u \in Units : IsExternal(u)}) /\ Suite # <<>>
    /\ \A i, j \in DOMAIN Suite : i < j => Suite[i] # Suite[j] /\ Suite[i] # "repair_bundle"
    /\ Expected \in Nat \ {0}
    /\ MaxCalls \in Nat
    /\ MaxElapsed \in Nat
    /\ MaxTurns \in Nat \ {0}

VARIABLES
    live,      \* run_live; otherwise the scheduler's execute_unit
    unit,      \* the unit under execution
    queue,     \* the units that come after it
    report,    \* the results of the units before it, gate by gate
    pc,        \* "ask", "charged", "calling", "done" with the unit, or "reported"
    used,      \* CallBudgetState.used
    rejected,  \* CallBudgetState.rejected
    paused,    \* CallBudgetState.pause is set
    elapsed,   \* active time, as far as the budget can tell it apart
    turns,     \* turns taken in the current sample
    samples,   \* the outcomes of the finished samples, gate by gate
    sent,      \* history: calls that reached the provider
    sentBefore \* history: those of the units before this one

suiteVars == <<live, unit, queue, report, sentBefore>>

vars == <<suiteVars, pc, used, rejected, paused, elapsed, turns, samples, sent>>

IsBundle == unit = "repair_bundle"

\* What is told apart of ProbeLayer and of the reason codes: "other" stands for
\* the model, adapter and harness layers and for every reason outside Budget.
Outcome(verdict, layer, reason) ==
    [verdict |-> verdict, layer |-> layer, reason |-> reason]

Passed == Outcome("pass", "other", "other")
Failed == Outcome("fail", "other", "other")
Transient == Outcome("inconclusive", "external", "other")
TooLarge == Outcome("inconclusive", "budget", "response_size_limit")
Budget(reason) == Outcome("not_tested", "budget", reason)

Outcomes == [verdict : AllVerdicts, layer : {"other", "external", "budget"},
             reason : {"other", "response_size_limit", "call_limit_reached",
                       "wall_clock_limit_reached", "prerequisite_not_satisfied"}]

TypeOK ==
    /\ live \in BOOLEAN
    /\ unit \in UnitsRun \cup Range(Suite)
    /\ queue \in Seq(Range(Suite))
    /\ DOMAIN report \subseteq UNION {GatesForUnit(u) : u \in Range(Suite)}
    /\ Range(report) \subseteq Outcomes
    /\ pc \in {"ask", "charged", "calling", "done", "reported"}
    /\ used \in Nat
    /\ rejected \in BOOLEAN
    /\ paused \in BOOLEAN
    /\ elapsed \in 0..MaxElapsed
    /\ turns \in 0..MaxTurns
    /\ samples \in Seq([GatesForUnit(unit) -> Outcomes])
    /\ Len(samples) <= Expected
    /\ sent \in Nat /\ sentBefore \in 0..sent

TimeIsUp == elapsed >= MaxElapsed

-----------------------------------------------------------------------------
Init ==
    /\ live \in BOOLEAN
    /\ IF live THEN unit = Head(Suite) ELSE unit \in UnitsRun
    /\ queue = IF live THEN Tail(Suite) ELSE <<>>
    /\ report = <<>>
    /\ sentBefore = 0
    /\ pc = "ask"
    /\ used = 0
    /\ rejected = FALSE
    /\ paused = FALSE
    /\ elapsed = 0
    /\ turns = 0
    /\ samples = <<>>
    /\ sent = 0

\* The sample loop goes on unless the budget has recorded a pause.
EndSample(outcomes) ==
    /\ samples' = Append(samples, outcomes)
    /\ turns' = 0
    /\ pc' = IF Len(samples') = Expected \/ paused' THEN "done" ELSE "ask"

ForAllGates(outcome) == [g \in GatesForUnit(unit) |-> outcome]

\* Mutant: only the calls are counted.
ChargeUntimed ==
    /\ pc = "ask"
    /\ used < MaxCalls
    /\ used' = used + 1
    /\ pc' = "charged"
    /\ UNCHANGED <<suiteVars, rejected, paused, elapsed, turns, samples, sent>>

\* Only the bundle asks whether a pause is recorded; it can be that of a unit before.
CircuitIsOpen == IsBundle /\ paused

\* A configuration error, which the AgentLoop reports as permanent unless the budget has
\* refused a call before.
StopAtOpenCircuit ==
    /\ pc = "ask"
    /\ CircuitIsOpen
    /\ UNCHANGED <<suiteVars, used, rejected, paused, elapsed, sent>>
    /\ \/ ~rejected /\ EndSample(ForAllGates(Outcome("blocked", "external", "other")))
       \/ rejected /\ TimeIsUp /\ EndSample(ForAllGates(Budget("wall_clock_limit_reached")))
       \/ rejected /\ ~TimeIsUp /\ EndSample(ForAllGates(Budget("call_limit_reached")))

\* CallBudget::consume.
Charge ==
    /\ pc = "ask" /\ ~CircuitIsOpen
    /\ used < MaxCalls
    /\ ~TimeIsUp
    /\ used' = used + 1
    /\ pc' = "charged"
    /\ UNCHANGED <<suiteVars, rejected, paused, elapsed, turns, samples, sent>>

\* The reason is read from the clock again after the refusal.  In the bundle
\* the refusal is a configuration error that stops the AgentLoop, and
\* run_repair_sample then looks at `rejected'.
Refuse ==
    /\ pc = "ask" /\ ~CircuitIsOpen
    /\ used >= MaxCalls \/ TimeIsUp
    /\ rejected' = TRUE
    /\ UNCHANGED <<suiteVars, used, paused, elapsed, sent>>
    /\ \/ EndSample(ForAllGates(Budget("wall_clock_limit_reached")))
       \/ ~TimeIsUp /\ EndSample(ForAllGates(Budget("call_limit_reached")))

\* No time is left to wait for the answer.  A direct unit runs out of budget;
\* BudgetedModelClient reports a timeout and does not record it as a pause.
TimesOutBeforeSending ==
    /\ pc = "charged"
    /\ TimeIsUp
    /\ UNCHANGED <<suiteVars, used, rejected, paused, elapsed, sent>>
    /\ EndSample(ForAllGates(IF IsBundle THEN Transient
                             ELSE Budget("wall_clock_limit_reached")))

Send ==
    /\ pc = "charged"
    /\ ~TimeIsUp
    /\ sent' = sent + 1
    /\ pc' = "calling"
    /\ UNCHANGED <<suiteVars, used, rejected, paused, elapsed, turns, samples>>

Answer == pc = "calling" /\ UNCHANGED <<suiteVars, used, rejected, elapsed, sent>>

\* Mutant: the pause is not recorded.
AnswerTransientUnrecorded ==
    /\ Answer
    /\ UNCHANGED paused
    /\ EndSample(ForAllGates(Transient))

\* 429, 5xx, timeout, transport: record_model_error sets the pause.
AnswerTransient ==
    /\ Answer
    /\ paused' = TRUE
    /\ EndSample(ForAllGates(Transient))

\* Any other error ends the sample: authentication blocks it; other statuses do in the
\* bundle and fail a direct unit; a malformed envelope fails both.  There is a key.
AnswerError ==
    /\ Answer
    /\ UNCHANGED paused
    /\ \E outcome \in {Failed, Outcome("blocked", "external", "other")} :
          EndSample(ForAllGates(outcome))

\* What parse_strict_model_decision and ExpectedAction tell apart in an answer: nothing but
\* white space, more bytes than allowed, no object or none the grammar takes, another
\* action than the one asked for, that action.
Answers == {"blank", "oversized", "ungrammatical", "other_action", "asked_action"}

\* The text gate only wants some text, the object gate any decision, an action its own.
Accepts(gate) ==
    CASE gate = "transport_prompt_only" -> {"ungrammatical", "other_action", "asked_action"}
      [] gate = "json_object_strict" -> {"other_action", "asked_action"}
      [] OTHER -> {"asked_action"}

Judge(gate, answer) ==
    IF answer \in Accepts(gate) THEN Passed
    ELSE IF answer = "oversized" THEN TooLarge
    ELSE Failed

AnswerToDirectUnit ==
    /\ Answer
    /\ UNCHANGED paused
    /\ ~IsBundle
    /\ \E answer \in Answers : EndSample(ForAllGates(Judge(unit, answer)))

\* The AgentLoop takes another turn.
NextTurn ==
    /\ Answer
    /\ UNCHANGED <<paused, samples>>
    /\ IsBundle
    /\ turns + 1 < MaxTurns
    /\ turns' = turns + 1
    /\ pc' = "ask"

\* The AgentLoop completed, so the iterations are within the bound and only the
\* other two gates can fail.  A loop that does not complete fails all three,
\* as AnswerError does.
FinishRepair ==
    /\ Answer
    /\ UNCHANGED paused
    /\ IsBundle
    /\ \E repair, multi_file \in {Passed, Failed} :
          EndSample([g \in GatesForUnit(unit) |->
              CASE g = "autonomous_repair" -> repair
                [] g = "multi_file" -> multi_file
                [] g = "bounded_convergence" -> Passed])

\* Time passes while the unit runs; past MaxElapsed it is all the same.
Tick ==
    /\ pc \notin {"done", "reported"}
    /\ elapsed < MaxElapsed
    /\ elapsed' = elapsed + 1
    /\ UNCHANGED <<suiteVars, pc, used, rejected, paused, turns, samples, sent>>

-----------------------------------------------------------------------------
(***************************************************************************)
(* aggregate_samples: one result per gate.                                 *)
(***************************************************************************)
OutcomesOf(gate) == [i \in 1..Len(samples) |-> samples[i][gate]]

Has(outcomes, verdict) == \E i \in DOMAIN outcomes : outcomes[i].verdict = verdict

FirstWith(outcomes, verdict) ==
    outcomes[CHOOSE i \in DOMAIN outcomes :
                /\ outcomes[i].verdict = verdict
                /\ \A j \in 1..(i - 1) : outcomes[j].verdict # verdict]

\* Mutant: whatever was sampled has passed.
NoneFailed(outcomes) == ~Has(outcomes, "fail") /\ Has(outcomes, "pass")

AllPassed(outcomes) ==
    Len(outcomes) = Expected /\ \A i \in DOMAIN outcomes : outcomes[i].verdict = "pass"

NoneTested(outcomes) == \A i \in DOMAIN outcomes : outcomes[i].verdict = "not_tested"

Aggregate(gate) ==
    LET found == OutcomesOf(gate)
    IN CASE Has(found, "fail") -> FirstWith(found, "fail")
         [] AllPassed(found) -> Passed
         [] OTHER ->
            IF Has(found, "blocked")
            THEN IF Has(found, "pass")
                 THEN [FirstWith(found, "blocked") EXCEPT !.verdict = "inconclusive"]
                 ELSE FirstWith(found, "blocked")
            ELSE IF Has(found, "inconclusive") THEN FirstWith(found, "inconclusive")
            ELSE IF Has(found, "not_tested")
            THEN Outcome(IF NoneTested(found) THEN "not_tested" ELSE "inconclusive",
                         "budget", "call_limit_reached")
            ELSE Outcome("inconclusive", "other", "other")

Results == [g \in GatesForUnit(unit) |-> Aggregate(g)]

-----------------------------------------------------------------------------
(***************************************************************************)
(* run_live: the units after each other under one budget.                  *)
(***************************************************************************)
\* Mutant: only what is blocked opens the circuit.
OpensExternalCircuitBlocked(result) ==
    result.layer = "external" /\ result.verdict = "blocked"

OpensExternalCircuit(result) ==
    result.layer = "external" /\ result.verdict \in {"blocked", "inconclusive"}

\* A gate that keeps the units after it from being asked.
Stops(gate, result) ==
    IF IsPrerequisite(gate) THEN result.verdict # "pass" ELSE OpensExternalCircuit(result)

PrerequisiteNotTested(layer) == Outcome("not_tested", layer, "prerequisite_not_satisfied")

Skipped(units, layer) ==
    [g \in UNION {GatesForUnit(u) : u \in Range(units)} |-> PrerequisiteNotTested(layer)]

\* Results are added to those that are there.
Extended(results, more) ==
    [g \in DOMAIN results \cup DOMAIN more |->
        IF g \in DOMAIN results THEN results[g] ELSE more[g]]

\* The bundle is the last: it stops nothing.
Report ==
    /\ pc = "done" /\ live
    /\ UNCHANGED <<live, used, rejected, paused, elapsed, sent>>
    /\ samples' = <<>> /\ turns' = 0
    /\ sentBefore' = sent
    /\ \/ /\ queue = <<>>
          /\ report' = Extended(report, Results)
          /\ pc' = "reported"
          /\ UNCHANGED <<unit, queue>>
       \/ /\ queue # <<>> /\ ~Stops(unit, Aggregate(unit))
          /\ report' = Extended(report, Results)
          /\ unit' = Head(queue) /\ queue' = Tail(queue)
          /\ pc' = "ask"
       \/ /\ queue # <<>> /\ Stops(unit, Aggregate(unit))
          /\ report' = Extended(Extended(report, Results), Skipped(queue, Aggregate(unit).layer))
          /\ queue' = <<>>
          /\ pc' = "reported"
          /\ UNCHANGED unit

\* The unit or the suite has reported.
Done == pc \in (IF live THEN {"reported"} ELSE {"done"}) /\ UNCHANGED vars

Next ==
    \/ StopAtOpenCircuit \/ Charge \/ Refuse \/ TimesOutBeforeSending \/ Send
    \/ AnswerTransient \/ AnswerError \/ AnswerToDirectUnit
    \/ NextTurn \/ FinishRepair
    \/ Tick \/ Report \/ Done

Spec == Init /\ [][Next]_vars

-----------------------------------------------------------------------------
(***************************************************************************)
(* What the scheduler does with a unit (run_with_executor).                *)
(***************************************************************************)
\* Mutant: only a result that was not tested at all blocks.
ExhaustedIfUntested == \A g \in GatesForUnit(unit) : Aggregate(g).verdict = "not_tested"

\* The scheduler looks for a gate that ran out of budget.
Exhausted ==
    \E g \in GatesForUnit(unit) :
        /\ Aggregate(g).layer = "budget"
        /\ Aggregate(g).reason \in {"call_limit_reached", "wall_clock_limit_reached"}

Decision ==
    IF paused THEN "pause" ELSE IF Exhausted THEN "block" ELSE "confirm"

-----------------------------------------------------------------------------
(***************************************************************************)
(* Properties.                                                             *)
(***************************************************************************)

\* A call leaves the process only while nothing was refused and time is left, whatever
\* the clock did since it was charged.  In a suite, nothing before it may have kept its
\* unit from being asked; a transient failure does so unless a sample before it failed or
\* was too large to judge, and then every direct unit that follows still makes one call,
\* and the bundle none.
CallsOnlyWhenAllowed ==
    [][ sent' # sent =>
            /\ ~rejected /\ elapsed < MaxElapsed
            /\ \A g \in DOMAIN report : ~Stops(g, report[g])
            /\ paused =>
                  /\ ~IsBundle /\ samples = <<>>
                  /\ \E g \in DOMAIN report :
                        report[g].verdict = "fail" \/ report[g] = TooLarge ]_vars

\* What the budget is charged: never more than was granted, never less than was sent, and
\* at most one call that was not sent, in a unit as in the whole suite.
ChargesAreTight ==
    /\ used <= MaxCalls
    /\ sent <= used
    /\ used <= sent + 1

\* A gate passes only if the profile's samples were all taken and all passed it, each
\* with a call of its own, with no pause and no refusal on the way.
PassIsEarned ==
    pc = "done" =>
        \A g \in GatesForUnit(unit) :
            Aggregate(g).verdict = "pass" =>
                /\ Len(samples) = Expected
                /\ \A i \in 1..Expected : samples[i][g] = Passed
                /\ sent - sentBefore >= Expected
                /\ ~paused
                /\ ~rejected

\* A unit whose budget ran out before every sample was taken is confirmed only
\* with a result some sample gave: never as passed, never as not tested.
NothingUntestedIsConfirmed ==
    pc = "done" /\ ~live /\ Decision = "confirm" /\ rejected =>
        \A g \in GatesForUnit(unit) :
            \E i \in 1..Len(samples) :
                /\ samples[i][g].verdict \in {"fail", "blocked", "inconclusive"}
                /\ samples[i][g].layer = Aggregate(g).layer

\* ADR-001 says that a transient result does not complete a unit.  One does, exactly when
\* the time of the unit ended between the charge of the bundle's call and its sending.
TransientNeedsTheBell ==
    pc = "done" /\ ~live /\ Decision = "confirm" =>
        \A i \in 1..Len(samples), g \in GatesForUnit(unit) :
            samples[i][g] = Transient => IsBundle /\ TimeIsUp /\ used = sent + 1
=============================================================================
