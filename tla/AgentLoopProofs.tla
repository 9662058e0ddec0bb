-------------------------- MODULE AgentLoopProofs --------------------------
(***************************************************************************)
(* What AgentLoop promises, for every catalogue of models, every budget    *)
(* and every answer of the provider, and what a LiveSession over clients   *)
(* that retry by themselves makes of it.                                   *)
(*                                                                         *)
(* LedgerHolds is not inductive alone: that the agent's count of switches  *)
(* stays within its own limit is known to the plan, which looks at         *)
(* routing, and that the two counts agree is known to the step that        *)
(* charges both.  LedgerInv adds the types these steps calculate with.     *)
(***************************************************************************)
EXTENDS LiveSession, FiniteSetTheorems, WellFoundedInduction, TLAPS

LedgerTyped ==
    /\ ledger \in [attempts : Nat, switches : Nat, waited : Nat]
    /\ routing.escalations \in Nat

LedgerInv == LedgerTyped /\ LedgerHolds

AnyFailure ==
    [class : Classes, retryable : BOOLEAN, hint : Hints \cup {NoHint}]

-----------------------------------------------------------------------------
LEMMA WaitIsNat ==
    ASSUME NEW failure \in AnyFailure
    PROVE  RetryWait(failure) \in Nat
<1>1. failure.hint \in Hints \cup {NoHint}
  BY DEF AnyFailure
<1>2. CASE failure.hint \in Nat
  BY <1>2, LimitsAssumption DEF RetryWait
<1>3. CASE failure.hint = -1
  BY <1>3, LimitsAssumption DEF RetryWait
<1>4. QED
  BY <1>1, <1>2, <1>3, LoopAssumption DEF NoHint

LEMMA ProposalsAreFailures == ProposalFailures(Hints) \subseteq AnyFailure
<1>1. SUFFICES ASSUME NEW failure \in ProposalFailures(Hints)
               PROVE  failure \in AnyFailure
  OBVIOUS
<1>2. CASE \E hint \in Hints \cup {NoHint} :
             failure = Failure("external_transient", TRUE, hint)
  BY <1>2 DEF AnyFailure, Failure, Classes
<1>3. CASE \E class \in {"external_transient", "external_permanent",
                        "model_capability", "system_failure"} :
             failure = Failure(class, FALSE, NoHint)
  BY <1>3 DEF AnyFailure, Failure, Classes
<1>4. QED
  BY <1>1, <1>2, <1>3 DEF ProposalFailures

LEMMA StallsAreFailures ==
    ASSUME NEW label
    PROVE  StallFailure(label) \in AnyFailure
BY DEF StallFailure, AnyFailure, Failure, Classes

LEMMA ConsumeSpends ==
    ASSUME NEW wait \in Nat, NEW b \in [attempts : Nat, switches : Nat, waited : Nat]
    PROVE  /\ ConsumeRecovery(wait, b) \in [attempts : Nat, switches : Nat, waited : Nat]
           /\ ConsumeRecovery(wait, b).attempts = b.attempts + 1
           /\ ConsumeRecovery(wait, b).waited = b.waited + wait
           /\ ConsumeRecovery(wait, b).switches = b.switches
<1>1. SUFFICES ConsumeRecovery(wait, b) \in [attempts : Nat, switches : Nat, waited : Nat]
  BY DEF ConsumeRecovery
<1>2. ASSUME NEW x \in Nat, NEW y \in Nat
      PROVE  [b EXCEPT !.attempts = x, !.waited = y] \in
                [attempts : Nat, switches : Nat, waited : Nat]
  OBVIOUS
<1>3. b.attempts + 1 \in Nat /\ b.waited + wait \in Nat
  OBVIOUS
<1>4. QED
  BY <1>2, <1>3, Zenon DEF ConsumeRecovery

\* A plan that changes the model was made with a switch left in the agent's own
\* budget.
LEMMA ChangeHasEscalation ==
    ASSUME NEW failure, NEW state, NEW recent,
           ChangesModel(PlanRouting(failure, state, recent))
    PROVE  EscalationsRemain(state)
<1> DEFINE choices == IF failure.class = "external_permanent"
                      THEN Alternatives(state) ELSE Escalations(state)
<1>1. SUFFICES ASSUME ~EscalationsRemain(state) PROVE FALSE
  OBVIOUS
<1>2. PlanRouting(failure, state, recent) \in
        {Route("none", 0), Route("stop", 0), Route("wait_same_model", 0), Route("stay", 0)}
  BY <1>1 DEF PlanRouting
<1>3. QED
  BY <1>2 DEF ChangesModel, Route

-----------------------------------------------------------------------------
\* Whatever the failure, its handling keeps the ledger: a retry is planned only
\* with an attempt and the time for its wait left, a route only with a switch
\* left in both budgets, and each is charged where it is taken.
LEMMA FailureKeepsLedger ==
    ASSUME LedgerInv, NEW failure \in AnyFailure, NEW source, NEW p,
           HandleFailure(failure, source, p)
    PROVE  LedgerInv'
<1> DEFINE route == PlanRouting(failure, routing, p.recent)
           action == PlanAdaptive(failure, ledger, route)
           wait == RetryWait(failure)
<1>1. wait \in Nat
  BY WaitIsNat
<1>2. CASE /\ action = "retry_same_model"
           /\ ledger' = ConsumeRecovery(wait, ledger)
           /\ UNCHANGED routing
  <2>1. ledger.attempts < MaxAttempts /\ CanWait(wait, ledger)
    BY <1>2 DEF PlanAdaptive, PlansRetry, AttemptsRemain
  <2>2. /\ ledger' \in [attempts : Nat, switches : Nat, waited : Nat]
        /\ ledger'.attempts = ledger.attempts + 1
        /\ ledger'.waited = ledger.waited + wait
        /\ ledger'.switches = ledger.switches
    BY <1>1, <1>2, ConsumeSpends DEF LedgerInv, LedgerTyped
  <2>3. QED
    BY <1>1, <1>2, <2>1, <2>2, LimitsAssumption
       DEF LedgerInv, LedgerTyped, LedgerHolds, CanWait
<1>3. CASE /\ action = "route_model"
           /\ ledger' = ConsumeSwitch(ledger)
           /\ routing' = ApplyRoute(route, routing)
  <2>1. ledger.switches < MaxSwitches /\ ChangesModel(route)
    BY <1>3 DEF PlanAdaptive, CanSwitch
  <2>2. routing.escalations < MaxEscalations
    BY <2>1, ChangeHasEscalation DEF EscalationsRemain
  <2>3. /\ ledger' \in [attempts : Nat, switches : Nat, waited : Nat]
        /\ ledger'.attempts = ledger.attempts
        /\ ledger'.waited = ledger.waited
        /\ ledger'.switches = ledger.switches + 1
    BY <1>3 DEF ConsumeSwitch, LedgerInv, LedgerTyped
  <2>4. routing'.escalations = routing.escalations + 1
    BY <1>3 DEF ApplyRoute
  <2>5. QED
    BY <2>1, <2>2, <2>3, <2>4, LimitsAssumption DEF LedgerInv, LedgerTyped, LedgerHolds
<1>4. CASE action = "stop" /\ UNCHANGED <<ledger, routing>>
  BY <1>4 DEF LedgerInv, LedgerTyped, LedgerHolds
<1>5. QED
  BY <1>2, <1>3, <1>4 DEF HandleFailure

\* The end of an iteration only spends through the handling of a stall.
LEMMA AssessmentKeepsLedger ==
    ASSUME LedgerInv, NEW state, NEW label, Assess(state, label)
    PROVE  LedgerInv'
<1>1. CASE UNCHANGED <<ledger, routing>>
  BY <1>1 DEF LedgerInv, LedgerTyped, LedgerHolds
<1>2. CASE \E p : HandleFailure(StallFailure(label), "stall", p)
  BY <1>2, StallsAreFailures, FailureKeepsLedger
<1>3. QED
  BY <1>1, <1>2 DEF Assess

LEMMA StepKeepsLedger ==
    ASSUME LedgerInv, [Next]_vars
    PROVE  LedgerInv'
<1>1. CASE ProposalFails
  BY <1>1, ProposalsAreFailures, FailureKeepsLedger DEF ProposalFails
<1>2. CASE UnknownTool
  <2>1. SystemFailure \in AnyFailure
    BY DEF SystemFailure, Failure, AnyFailure, Classes
  <2>2. QED
    BY <1>2, <2>1, FailureKeepsLedger DEF UnknownTool
<1>3. CASE Finish
  BY <1>3 DEF Finish, LedgerInv, LedgerTyped, LedgerHolds
<1>4. CASE RunTool
  BY <1>4, AssessmentKeepsLedger DEF RunTool
<1>5. CASE RunNothing
  BY <1>5, AssessmentKeepsLedger DEF RunNothing
<1>6. CASE IterationsExhausted
  BY <1>6 DEF IterationsExhausted, LedgerInv, LedgerTyped, LedgerHolds
<1>7. CASE Returned \/ UNCHANGED vars
  BY <1>7 DEF Returned, vars, LedgerInv, LedgerTyped, LedgerHolds
<1>8. QED
  BY <1>1, <1>2, <1>3, <1>4, <1>5, <1>6, <1>7 DEF Next

\* AgentLoop::run never recovers beyond the common budget, and never changes
\* models without charging both that budget and the agent's own.
THEOREM LedgerKept == Spec => []LedgerHolds
<1>1. Init => LedgerInv
  BY LimitsAssumption DEF Init, NewLedger, NewRouting, LedgerInv, LedgerTyped, LedgerHolds
<1>2. LedgerInv /\ [Next]_vars => LedgerInv'
  BY StepKeepsLedger
<1>3. LedgerInv => LedgerHolds
  BY DEF LedgerInv
<1>4. QED
  BY <1>1, <1>2, <1>3, PTL DEF Spec

-----------------------------------------------------------------------------
(***************************************************************************)
(* "Restored" is never claimed without a recovery.  The progress known at  *)
(* a call of handle_classified_failure may already count the iteration;    *)
(* it is as true as the one before.                                        *)
(***************************************************************************)
Recoveries(spent) == spent.attempts + spent.switches

TrueOf(p, spent) ==
    /\ p \in [meaningful : BOOLEAN, recent : BOOLEAN, pending : BOOLEAN, restored : BOOLEAN]
    /\ p.restored => p.meaningful /\ Recoveries(spent) > 0
    /\ p.pending => ~p.recent /\ Recoveries(spent) > 0

RestoredInv == LedgerInv /\ TrueOf(progress, ledger)

LEMMA ProgressStaysTrue ==
    ASSUME NEW p, NEW spent, TrueOf(p, spent), NEW improved \in BOOLEAN
    PROVE  TrueOf(Progressed(p), spent) /\ TrueOf(Assessed(p, improved), spent)
<1>1. TrueOf(Progressed(p), spent)
  BY DEF TrueOf, Progressed
<1>2. TrueOf([p EXCEPT !.recent = FALSE], spent)
  BY DEF TrueOf
<1>3. QED
  BY <1>1, <1>2 DEF Assessed

LEMMA PendingIsTrue ==
    ASSUME NEW p, NEW before, NEW spent, TrueOf(p, before),
           Recoveries(before) \in Nat, Recoveries(spent) = Recoveries(before) + 1
    PROVE  TrueOf(RecoveryPending(p), spent)
<1>1. p \in [meaningful : BOOLEAN, recent : BOOLEAN, pending : BOOLEAN, restored : BOOLEAN]
  BY DEF TrueOf
<1>2. ASSUME NEW q \in [meaningful : BOOLEAN, recent : BOOLEAN, pending : BOOLEAN,
                       restored : BOOLEAN],
             NEW x \in BOOLEAN, NEW y \in BOOLEAN
      PROVE  /\ [q EXCEPT !.pending = x, !.recent = y] \in
                   [meaningful : BOOLEAN, recent : BOOLEAN, pending : BOOLEAN, restored : BOOLEAN]
             /\ [q EXCEPT !.pending = x, !.recent = y].recent = y
             /\ [q EXCEPT !.pending = x, !.recent = y].restored = q.restored
             /\ [q EXCEPT !.pending = x, !.recent = y].meaningful = q.meaningful
  OBVIOUS
<1>3. RecoveryPending(p) \in
        [meaningful : BOOLEAN, recent : BOOLEAN, pending : BOOLEAN, restored : BOOLEAN]
  BY <1>1, <1>2, Zenon DEF RecoveryPending
<1>4. /\ RecoveryPending(p).restored => RecoveryPending(p).meaningful
      /\ ~RecoveryPending(p).recent
  <2>1. /\ RecoveryPending(p).recent = FALSE
        /\ RecoveryPending(p).restored = p.restored
        /\ RecoveryPending(p).meaningful = p.meaningful
    BY <1>1, <1>2, Zenon DEF RecoveryPending
  <2>2. QED
    BY <2>1 DEF TrueOf
<1>5. Recoveries(spent) > 0
  OBVIOUS
<1>6. QED
  BY <1>3, <1>4, <1>5 DEF TrueOf

\* Every recovery that is made pending is charged.
LEMMA FailureKeepsTruth ==
    ASSUME LedgerInv, NEW failure \in AnyFailure, NEW source, NEW p, TrueOf(p, ledger),
           HandleFailure(failure, source, p)
    PROVE  TrueOf(progress', ledger')
<1>1. ledger \in [attempts : Nat, switches : Nat, waited : Nat] /\ Recoveries(ledger) \in Nat
  BY DEF LedgerInv, LedgerTyped, Recoveries
<1>2. CASE /\ ledger' = ConsumeRecovery(RetryWait(failure), ledger)
           /\ progress' = RecoveryPending(p)
  <2>1. RetryWait(failure) \in Nat
    BY WaitIsNat
  <2>2. /\ ledger'.attempts = ledger.attempts + 1
        /\ ledger'.switches = ledger.switches
    BY <1>1, <1>2, <2>1, ConsumeSpends
  <2>3. Recoveries(ledger') = Recoveries(ledger) + 1
    BY <1>1, <2>2 DEF Recoveries
  <2>4. QED
    BY <1>1, <1>2, <2>3, PendingIsTrue
<1>3. CASE ledger' = ConsumeSwitch(ledger) /\ progress' = RecoveryPending(p)
  <2>1. Recoveries(ledger') = Recoveries(ledger) + 1
    BY <1>1, <1>3 DEF ConsumeSwitch, Recoveries
  <2>2. QED
    BY <1>1, <1>3, <2>1, PendingIsTrue
<1>4. CASE progress' = p /\ UNCHANGED ledger
  BY <1>4
<1>5. QED
  BY <1>2, <1>3, <1>4 DEF HandleFailure

LEMMA AssessmentKeepsTruth ==
    ASSUME RestoredInv, NEW state, NEW label, Assess(state, label)
    PROVE  TrueOf(progress', ledger')
<1>1. CASE UNCHANGED <<ledger, progress>>
  BY <1>1 DEF RestoredInv
<1>2. CASE progress' = Progressed(progress) /\ UNCHANGED ledger
  BY <1>2, ProgressStaysTrue DEF RestoredInv
<1>3. CASE \E p : /\ p = Assessed(progress, Improves(tracker, state))
                  /\ \/ HandleFailure(StallFailure(label), "stall", p)
                     \/ progress' = p /\ UNCHANGED ledger
  <2>1. Improves(tracker, state) \in BOOLEAN
    BY DEF Improves
  <2>2. TrueOf(Assessed(progress, Improves(tracker, state)), ledger)
    BY <2>1, ProgressStaysTrue DEF RestoredInv
  <2>3. QED
    BY <1>3, <2>2, StallsAreFailures, FailureKeepsTruth DEF RestoredInv
<1>4. QED
  BY <1>1, <1>2, <1>3 DEF Assess

LEMMA InitRestored == Init => RestoredInv
BY LimitsAssumption
   DEF Init, NewLedger, NewRouting, RestoredInv, LedgerInv, LedgerTyped, LedgerHolds, TrueOf

LEMMA StepKeepsRestored ==
    ASSUME RestoredInv, [Next]_vars
    PROVE  RestoredInv'
<1>1. LedgerInv /\ LedgerInv' /\ TrueOf(progress, ledger)
  BY StepKeepsLedger DEF RestoredInv
<1>2. CASE ProposalFails
  BY <1>1, <1>2, ProposalsAreFailures, FailureKeepsTruth DEF ProposalFails, RestoredInv
<1>3. CASE UnknownTool
  <2>1. SystemFailure \in AnyFailure
    BY DEF SystemFailure, Failure, AnyFailure, Classes
  <2>2. QED
    BY <1>1, <1>3, <2>1, FailureKeepsTruth DEF UnknownTool, RestoredInv
<1>4. CASE RunTool \/ RunNothing
  BY <1>1, <1>4, AssessmentKeepsTruth DEF RunTool, RunNothing, RestoredInv
<1>5. CASE Finish \/ IterationsExhausted \/ Returned \/ UNCHANGED vars
  BY <1>1, <1>5 DEF Finish, IterationsExhausted, Returned, vars, RestoredInv
<1>6. QED
  BY <1>2, <1>3, <1>4, <1>5 DEF Next

\* A session says that progress was restored only after a recovery and progress, and
\* never counts as recent what came before a recovery that is pending
\* (agent_loop.rs, RecoveryProgressState).
THEOREM RestoredIsEarned == Spec => []RestoredIsTrue
<1>1. RestoredInv /\ [Next]_vars => RestoredInv'
  BY StepKeepsRestored
<1>2. RestoredInv => RestoredIsTrue
  BY DEF RestoredInv, TrueOf, Recoveries, RestoredIsTrue
<1>3. QED
  BY InitRestored, <1>1, <1>2, PTL DEF Spec

-----------------------------------------------------------------------------
(***************************************************************************)
(* No oscillation.  A plan names its choice with CHOOSE: that the choice   *)
(* is one of the candidates it was made from takes a least candidate in    *)
(* the order of min_by_key, found one key after the other.                 *)
(***************************************************************************)
LEMMA Smallest ==
    ASSUME NEW S, S \subseteq Nat, S # {}
    PROVE  \E x \in S : \A y \in S : x <= y
<1> DEFINE R == OpToRel(<, Nat)
<1>1. IsWellFoundedOn(R, Nat)
  BY NatLessThanWellFounded
<1>2. \A x, y \in Nat : <<y, x>> \in R <=> y < x
  BY DEF OpToRel
<1> HIDE DEF R
<1>3. PICK x \in S : \A y \in S : ~ (<<y, x>> \in R)
  BY <1>1, WFMin
<1>4. ASSUME NEW y \in S PROVE x <= y
  <2>1. x \in Nat /\ y \in Nat
    OBVIOUS
  <2>2. ~(y < x)
    BY <1>2, <1>3, <2>1
  <2>3. QED
    BY <2>1, <2>2
<1>5. QED
  BY <1>4

LEMMA LeastBy ==
    ASSUME NEW S, S # {}, NEW key, \A x \in S : key[x] \in Nat
    PROVE  \E x \in S : \A y \in S : key[x] <= key[y]
<1> DEFINE keys == {key[x] : x \in S}
<1>1. keys \subseteq Nat /\ keys # {}
  OBVIOUS
<1>2. PICK k \in keys : \A other \in keys : k <= other
  BY <1>1, Smallest
<1>3. PICK x \in S : k = key[x]
  OBVIOUS
<1>4. \A y \in S : key[y] \in keys
  OBVIOUS
<1>5. QED
  BY <1>2, <1>3, <1>4

LEMMA CandidateKeys ==
    \A i \in DOMAIN Candidates :
        /\ i \in Nat
        /\ Candidates[i].capability \in Nat
        /\ Candidates[i].cost \in Nat
        /\ Candidates[i].id \in Nat
<1>1. ASSUME NEW i \in DOMAIN Candidates
      PROVE  Candidates[i] \in Candidate /\ i \in Nat
  <2> HIDE DEF Candidate
  <2>1. QED
    BY CandidatesAssumption
<1>2. QED
  BY <1>1 DEF Candidate

LEMMA FirstChoice ==
    ASSUME NEW choices, choices \subseteq DOMAIN Candidates, choices # {}
    PROVE  \E i \in choices : \A j \in choices : i <= j
<1>1. choices \subseteq Nat
  BY CandidateKeys
<1>2. QED
  BY <1>1, Smallest

LEMMA WeakestChoice ==
    ASSUME NEW choices, choices \subseteq DOMAIN Candidates, choices # {}
    PROVE  \E i \in choices : \A j \in choices : Before(i, j)
<1> DEFINE capability == [i \in choices |-> Candidates[i].capability]
           cost == [i \in choices |-> Candidates[i].cost]
           id == [i \in choices |-> Candidates[i].id]
<1>1. \A i \in choices :
         capability[i] \in Nat /\ cost[i] \in Nat /\ id[i] \in Nat /\ i \in Nat
  BY CandidateKeys
<1>2. \A i, j \in choices :
         Before(i, j) <=>
            \/ capability[i] < capability[j]
            \/ capability[i] = capability[j] /\ cost[i] < cost[j]
            \/ capability[i] = capability[j] /\ cost[i] = cost[j] /\ id[i] < id[j]
            \/ /\ capability[i] = capability[j] /\ cost[i] = cost[j] /\ id[i] = id[j]
               /\ i <= j
  BY DEF Before
<1> HIDE DEF capability, cost, id
<1>3. PICK a \in choices : \A j \in choices : capability[a] <= capability[j]
  BY <1>1, LeastBy
<1> DEFINE weakest == {i \in choices : capability[i] = capability[a]}
<1>4. PICK b \in weakest : \A j \in weakest : cost[b] <= cost[j]
  BY <1>1, LeastBy
<1> DEFINE cheapest == {i \in weakest : cost[i] = cost[b]}
<1>5. PICK c \in cheapest : \A j \in cheapest : id[c] <= id[j]
  BY <1>1, LeastBy
<1> DEFINE tied == {i \in cheapest : id[i] = id[c]}
<1>6. PICK d \in tied : \A j \in tied : d <= j
  BY <1>1, Smallest
<1>7. /\ d \in choices
      /\ capability[d] = capability[a] /\ cost[d] = cost[b] /\ id[d] = id[c]
  OBVIOUS
<1>8. ASSUME NEW j \in choices
      PROVE  Before(d, j)
  <2>1. capability[d] < capability[j] \/ j \in weakest
    BY <1>1, <1>3, <1>7
  <2>2. j \in weakest => cost[d] < cost[j] \/ j \in cheapest
    BY <1>1, <1>4, <1>7
  <2>3. j \in cheapest => id[d] < id[j] \/ j \in tied
    BY <1>1, <1>5, <1>7
  <2>4. j \in tied => d <= j
    BY <1>6
  <2>5. QED
    BY <1>2, <1>7, <2>1, <2>2, <2>3, <2>4
<1>9. QED
  BY <1>7, <1>8

\* A model that is chosen has not been used, and is stronger unless the failure
\* would come back with any answer of this provider.
LEMMA RouteGoesForward ==
    ASSUME NEW failure, NEW state, NEW recent, NEW route,
           route = PlanRouting(failure, state, recent), ChangesModel(route)
    PROVE  /\ route.to \in Alternatives(state)
           /\ failure.class # "external_permanent" => route.to \in Escalations(state)
<1> DEFINE choices == IF failure.class = "external_permanent"
                      THEN Alternatives(state) ELSE Escalations(state)
           first == CHOOSE i \in choices : \A j \in choices : i <= j
           weakest == CHOOSE i \in choices : \A j \in choices : Before(i, j)
<1>1. choices \subseteq Alternatives(state) /\ Alternatives(state) \subseteq DOMAIN Candidates
  BY DEF Alternatives, Escalations
<1>2. /\ choices # {}
      /\ \/ route = Route("switch_alternative", first)
         \/ route = Route("escalate_capability", weakest)
  BY DEF PlanRouting, ChangesModel, Route
<1>3. first \in choices
  BY <1>1, <1>2, FirstChoice
<1>4. weakest \in choices
  BY <1>1, <1>2, WeakestChoice
<1>5. route.to = first \/ route.to = weakest
  <2> HIDE DEF first, weakest
  <2>1. QED
    BY <1>2 DEF Route
<1>6. route.to \in choices
  <2> HIDE DEF first, weakest
  <2>1. QED
    BY <1>3, <1>4, <1>5
<1>7. QED
  BY <1>1, <1>6

Forward ==
    routing'.active # routing.active =>
        /\ routing'.active \notin routing.visited
        /\ last'.failure.class # "external_permanent" =>
              Candidates[routing'.active].capability > Candidates[routing.active].capability

LEMMA FailureGoesForward ==
    ASSUME NEW failure, NEW source, NEW p, HandleFailure(failure, source, p)
    PROVE  Forward
<1> DEFINE route == PlanRouting(failure, routing, p.recent)
<1>1. CASE UNCHANGED routing
  BY <1>1 DEF Forward
<1>2. CASE /\ PlanAdaptive(failure, ledger, route) = "route_model"
           /\ routing' = ApplyRoute(route, routing)
           /\ last' = Report(failure, source, "route_model", iterations')
  <2>1. ChangesModel(route)
    BY <1>2 DEF PlanAdaptive
  <2>2. routing'.active = route.to /\ last'.failure = failure
    BY <1>2 DEF ApplyRoute, Report
  <2>3. /\ route.to \in Alternatives(routing)
        /\ failure.class # "external_permanent" => route.to \in Escalations(routing)
    BY <2>1, RouteGoesForward
  <2>4. QED
    BY <2>2, <2>3 DEF Forward, Alternatives, Escalations, HasVisited
<1>3. QED
  BY <1>1, <1>2 DEF HandleFailure

\* A change of models never goes back to one that was used, and goes to a stronger
\* one unless the failure was permanent (model_routing.rs, plan_routing).
THEOREM ModelsGoForward == Spec => RoutesForward
<1>1. ASSUME [Next]_vars
      PROVE  Forward
  <2>1. CASE UNCHANGED routing
    BY <2>1 DEF Forward
  <2>2. CASE \E failure, source, p : HandleFailure(failure, source, p)
    BY <2>2, FailureGoesForward
  <2>3. QED
    BY <1>1, <2>1, <2>2
       DEF Next, ProposalFails, UnknownTool, Finish, RunTool, RunNothing, Assess,
           IterationsExhausted, Returned, vars
<1>2. [Next]_vars => [Forward]_vars
  BY <1>1
<1>3. QED
  BY <1>2, PTL DEF Spec, RoutesForward, Forward

-----------------------------------------------------------------------------
(***************************************************************************)
(* A stall is earned.  The stale count is reset by a gain only and grows   *)
(* by at most one with an evaluation, so that it never exceeds the number  *)
(* of evaluations since the last gain; and a stall is reported in the very *)
(* iteration that counted it.                                              *)
(***************************************************************************)
Score(state) == Cardinality(Passed(state))

\* No evaluation after the one at gain has more passed criteria than the one before it.
NoGainAfter(gain, states) ==
    \A i \in (gain + 1)..Len(states) : Score(states[i]) <= Score(states[i - 1])

WindowIsTrue(t) ==
    /\ t \in [states : Seq(Evaluations), labels : Seq(Labels), stale : Nat]
    /\ t.states = <<>> => t.stale = 0
    /\ t.states # <<>> =>
          \E gain \in 1..Len(t.states) :
              Len(t.states) - gain >= t.stale /\ NoGainAfter(gain, t.states)

StallInv ==
    /\ WindowIsTrue(tracker)
    /\ goal \in Evaluations
    /\ iterations \in Nat
    /\ last.at <= iterations /\ last.at \in Nat
    /\ StallIsEarned

LEMMA ScoreIsNat == \A state : Score(state) \in Nat
<1>1. TAKE state
<1>2. Passed(state) \subseteq Criteria
  BY DEF Passed
<1>3. IsFiniteSet(Passed(state))
  BY <1>2, LoopAssumption, FS_Subset
<1>4. QED
  BY <1>3, FS_CardinalityType DEF Score

\* One more evaluation.
LEMMA RecordKeepsWindow ==
    ASSUME NEW t, WindowIsTrue(t), NEW state \in Evaluations, NEW label \in Labels
    PROVE  WindowIsTrue(Record(t, state, label))
<1> DEFINE new == Record(t, state, label)
<1>1. /\ t.states \in Seq(Evaluations) /\ t.labels \in Seq(Labels) /\ t.stale \in Nat
      /\ Len(t.states) \in Nat
  BY DEF WindowIsTrue
<1>2. /\ new.states = Append(t.states, state) /\ new.states \in Seq(Evaluations)
      /\ new.labels \in Seq(Labels)
      /\ DOMAIN new = {"states", "labels", "stale"}
      /\ new.stale = IF Improves(t, state) THEN 0
                     ELSE IF WastesWindow(t, state, label) THEN t.stale + 1 ELSE t.stale
  BY <1>1 DEF Record
<1>3. new \in [states : Seq(Evaluations), labels : Seq(Labels), stale : Nat]
  BY <1>1 DEF Record
<1>4. /\ Len(new.states) = Len(t.states) + 1
      /\ new.states[Len(t.states) + 1] = state
      /\ \A i \in 1..Len(t.states) : new.states[i] = t.states[i]
  BY <1>1, <1>2
<1> HIDE DEF new
<1>5. SUFFICES WindowIsTrue(new)
  BY DEF new
<1>6. ASSUME NEW gain \in 1..(Len(t.states) + 1),
             Len(t.states) + 1 - gain >= new.stale, NoGainAfter(gain, new.states)
      PROVE  WindowIsTrue(new)
  <2>1. new.states # <<>>
    BY <1>1, <1>4
  <2>2. gain \in 1..Len(new.states) /\ Len(new.states) - gain >= new.stale
    BY <1>4, <1>6
  <2>3. \E g \in 1..Len(new.states) :
          Len(new.states) - g >= new.stale /\ NoGainAfter(g, new.states)
    BY <1>6, <2>2
  <2>4. QED
    BY <1>3, <2>1, <2>3 DEF WindowIsTrue
<1>7. CASE Improves(t, state)
  <2>1. new.stale = 0 /\ NoGainAfter(Len(t.states) + 1, new.states)
    BY <1>1, <1>2, <1>4, <1>7 DEF NoGainAfter
  <2>2. /\ Len(t.states) + 1 \in 1..(Len(t.states) + 1)
        /\ Len(t.states) + 1 - (Len(t.states) + 1) >= new.stale
    BY <1>1, <2>1
  <2>3. QED
    BY <1>6, <2>1, <2>2
<1>8. CASE t.states = <<>>
  <2>1. new.stale = 0 /\ Len(t.states) = 0
    <3>1. ~WastesWindow(t, state, label) /\ t.stale = 0
      BY <1>8 DEF WastesWindow, WindowIsTrue
    <3>2. QED
      BY <1>2, <1>8, <3>1
  <2>2. NoGainAfter(1, new.states)
    BY <1>4, <2>1 DEF NoGainAfter
  <2>3. QED
    BY <1>6, <2>1, <2>2
<1>9. CASE ~Improves(t, state) /\ t.states # <<>>
  <2>1. PICK gain \in 1..Len(t.states) :
          Len(t.states) - gain >= t.stale /\ NoGainAfter(gain, t.states)
    BY <1>9 DEF WindowIsTrue
  <2>2. Len(t.states) + 1 - gain >= new.stale
    BY <1>1, <1>2, <1>9, <2>1
  <2>3. Score(state) <= Score(t.states[Len(t.states)])
    <3>1. ~(Score(state) > Score(t.states[Len(t.states)]))
      BY <1>9 DEF Improves, Signal, LastOf, Score
    <3>2. QED
      BY <3>1, ScoreIsNat
  <2>4. NoGainAfter(gain, new.states)
    <3>1. SUFFICES ASSUME NEW i \in (gain + 1)..(Len(t.states) + 1)
                   PROVE  Score(new.states[i]) <= Score(new.states[i - 1])
      BY <1>4 DEF NoGainAfter
    <3>2. i - 1 \in 1..Len(t.states) /\ new.states[i - 1] = t.states[i - 1]
      <4>1. i \in Int /\ i >= gain + 1 /\ i <= Len(t.states) + 1 /\ gain >= 1 /\ gain \in Int
        BY <1>1, <2>1, <3>1
      <4>2. i - 1 \in 1..Len(t.states)
        BY <1>1, <4>1
      <4>3. QED
        BY <1>4, <4>2
    <3>3. CASE i = Len(t.states) + 1
      BY <1>1, <1>4, <2>3, <3>2, <3>3
    <3>4. CASE i <= Len(t.states)
      <4>1. new.states[i] = t.states[i] /\ i \in (gain + 1)..Len(t.states)
        BY <1>1, <1>4, <2>1, <3>4
      <4>2. QED
        BY <2>1, <3>2, <4>1 DEF NoGainAfter
    <3>5. QED
      BY <1>1, <3>3, <3>4
  <2>5. gain \in 1..(Len(t.states) + 1)
    BY <1>1, <2>1
  <2>6. QED
    BY <1>6, <2>2, <2>4, <2>5
<1>10. QED
  BY <1>7, <1>8, <1>9

\* A window as long as the limit is what StallIsEarned asks for.
LEMMA FullWindowIsEarned ==
    ASSUME NEW t, WindowIsTrue(t), t.states # <<>>, t.stale >= MaxStale
    PROVE  \E gain \in 1..Len(t.states) :
              /\ Len(t.states) - gain >= MaxStale
              /\ \A i \in (gain + 1)..Len(t.states) :
                    Cardinality(Passed(t.states[i])) <= Cardinality(Passed(t.states[i - 1]))
<1>1. PICK gain \in 1..Len(t.states) :
        Len(t.states) - gain >= t.stale /\ NoGainAfter(gain, t.states)
  BY DEF WindowIsTrue
<1>2. Len(t.states) - gain >= MaxStale
  BY <1>1, LoopAssumption DEF WindowIsTrue
<1>3. QED
  BY <1>1, <1>2 DEF NoGainAfter, Score

\* An iteration without a failure leaves the last one behind.
LEMMA NoReportNoStall ==
    ASSUME StallInv, WindowIsTrue(tracker'), goal' \in Evaluations,
           iterations' = iterations + 1, last' = last
    PROVE  StallInv'
BY DEF StallInv, StallIsEarned

LEMMA ReportKeepsStall ==
    ASSUME StallInv, WindowIsTrue(tracker'), goal' \in Evaluations,
           iterations' = iterations + 1, NEW failure, NEW source, NEW p,
           HandleFailure(failure, source, p),
           source = "stall" => tracker'.states # <<>> /\ tracker'.stale >= MaxStale
    PROVE  StallInv'
<1>1. iterations' \in Nat
  BY DEF StallInv
<1>2. last'.at = iterations' /\ last'.source = source
  BY DEF HandleFailure, Report
<1>3. StallIsEarned'
  BY <1>2, FullWindowIsEarned DEF StallIsEarned
<1>4. QED
  BY <1>1, <1>2, <1>3 DEF StallInv

LEMMA AssessmentKeepsStall ==
    ASSUME StallInv, iterations' = iterations + 1,
           NEW state \in Evaluations, NEW label \in Labels, Assess(state, label)
    PROVE  StallInv'
<1>1. goal' \in Evaluations
  BY DEF Assess
<1>2. CASE UNCHANGED <<tracker, last>>
  BY <1>1, <1>2, NoReportNoStall DEF StallInv
<1>3. CASE tracker' = Record(tracker, state, label)
  <2>1. WindowIsTrue(tracker')
    BY <1>3, RecordKeepsWindow DEF StallInv
  <2>2. tracker'.states # <<>>
    <3>1. tracker'.states = Append(tracker.states, state)
      BY <1>3 DEF Record
    <3>2. tracker.states \in Seq(Evaluations)
      BY DEF StallInv, WindowIsTrue
    <3>3. QED
      BY <3>1, <3>2
  <2>3. CASE UNCHANGED last
    BY <1>1, <2>1, <2>3, NoReportNoStall
  <2>4. CASE /\ tracker'.stale >= MaxStale
             /\ \E p : HandleFailure(StallFailure(label), "stall", p)
    BY <1>1, <2>1, <2>2, <2>4, ReportKeepsStall
  <2>5. QED
    BY <1>3, <2>3, <2>4 DEF Assess
<1>4. QED
  BY <1>2, <1>3 DEF Assess

LEMMA StepKeepsStall == StallInv /\ [Next]_vars => StallInv'
<1> SUFFICES ASSUME StallInv, [Next]_vars PROVE StallInv'
  OBVIOUS
<1>1. WindowIsTrue(tracker) /\ goal \in Evaluations
  BY DEF StallInv
<1>2. CASE ProposalFails \/ UnknownTool
  <2>1. /\ UNCHANGED <<tracker, goal>> /\ iterations' = iterations + 1
        /\ \E failure : \E source \in {"proposal", "tool"} :
              HandleFailure(failure, source, progress)
    <3>1. CASE ProposalFails
      BY <3>1 DEF ProposalFails, Iteration
    <3>2. CASE UnknownTool
      BY <3>2 DEF UnknownTool, Iteration
    <3>3. QED
      BY <1>2, <3>1, <3>2
  <2>2. WindowIsTrue(tracker') /\ goal' \in Evaluations
    BY <1>1, <2>1
  <2>3. QED
    BY <2>1, <2>2, ReportKeepsStall
<1>3. CASE Finish
  <2>1. UNCHANGED <<tracker, goal, last>> /\ iterations' = iterations + 1
    BY <1>3 DEF Finish, Iteration
  <2>2. WindowIsTrue(tracker') /\ goal' \in Evaluations
    BY <1>1, <2>1
  <2>3. QED
    BY <2>1, <2>2, NoReportNoStall
<1>4. CASE RunTool
  <2>1. iterations' = iterations + 1
    BY <1>4 DEF RunTool, Iteration
  <2>2. QED
    BY <1>4, <2>1, AssessmentKeepsStall DEF RunTool, Labels
<1>5. CASE RunNothing
  <2>1. iterations' = iterations + 1
    BY <1>5 DEF RunNothing, Iteration
  <2>2. QED
    BY <1>1, <1>5, <2>1, AssessmentKeepsStall DEF RunNothing
<1>6. CASE IterationsExhausted \/ Returned \/ UNCHANGED vars
  <2>1. UNCHANGED <<iterations, tracker, goal, last>>
    BY <1>6 DEF IterationsExhausted, Returned, vars
  <2>2. WindowIsTrue(tracker')
    BY <1>1, <2>1
  <2>3. QED
    BY <2>1, <2>2 DEF StallInv, StallIsEarned
<1>7. QED
  BY <1>2, <1>3, <1>4, <1>5, <1>6 DEF Next

LEMMA InitStall == Init => StallInv
<1>1. Init => WindowIsTrue(tracker) /\ goal \in Evaluations
  BY DEF Init, NewTracker, WindowIsTrue, Evaluations, Verdicts
<1>2. QED
  BY <1>1 DEF Init, Report, StallInv, StallIsEarned

\* The loop calls a stall only after as many evaluations without a gain as the limit
\* asks for, for every specification, limit and order of failures.
THEOREM StallsAreEarned == Spec => []StallIsEarned
<1>1. StallInv => StallIsEarned
  BY DEF StallInv
<1>2. QED
  BY InitStall, StepKeepsStall, <1>1, PTL DEF Spec

-----------------------------------------------------------------------------
(***************************************************************************)
(* A session is given up only when there was nothing left to try.  A plan  *)
(* stays with the model after progress: that this progress is the last     *)
(* evaluation's, and not one that later evaluations took back, is what     *)
(* RecentInv adds.  Without stall detection nothing counts as progress.    *)
(***************************************************************************)
RecentInv ==
    /\ RestoredInv
    /\ StallInv
    /\ progress.recent => JustImproved /\ MaxStale > 0

\* Every failure that may be retried is the provider's.
RetryableIsTransient(failure) ==
    failure \in AnyFailure /\ (failure.retryable => failure.class = "external_transient")

LEMMA FailuresAreClassed ==
    /\ \A failure \in ProposalFailures(Hints) : RetryableIsTransient(failure)
    /\ RetryableIsTransient(SystemFailure)
    /\ \A label : RetryableIsTransient(StallFailure(label))
<1>1. ASSUME NEW failure \in ProposalFailures(Hints)
      PROVE  failure.retryable => failure.class = "external_transient"
  BY DEF ProposalFailures, Failure
<1>2. RetryableIsTransient(SystemFailure)
  BY DEF RetryableIsTransient, SystemFailure, Failure, AnyFailure, Classes
<1>3. ASSUME NEW label PROVE RetryableIsTransient(StallFailure(label))
  <2>1. ~StallFailure(label).retryable
    BY DEF StallFailure, Failure
  <2>2. QED
    BY <2>1, StallsAreFailures DEF RetryableIsTransient
<1>4. QED
  BY <1>1, <1>2, <1>3, ProposalsAreFailures DEF RetryableIsTransient

\* An end that is not the provider's comes of a failure that is not.
LEMMA EndNamesFailure ==
    ASSUME NEW failure, RetryableIsTransient(failure), NEW spent
    PROVE  /\ StatusOf(Strategy(failure, spent)) = "external_service_blocked" =>
                 failure.class = "external_transient"
           /\ StatusOf(Strategy(failure, spent)) \in
                 {"model_capability_failure", "non_progress", "external_configuration_blocked"} =>
                 failure.class \in
                    {"model_capability", "convergence_stalled", "external_permanent"}
<1>1. failure.class \in Classes
  BY DEF RetryableIsTransient, AnyFailure
<1>2. CASE failure.class = "external_transient"
  <2>1. Strategy(failure, spent) \in RetryStrategies \cup {"stop_external_blocked"}
    BY <1>2 DEF Strategy, StopStrategy, RetryStrategies
  <2>2. StatusOf(Strategy(failure, spent)) = "external_service_blocked"
    BY <2>1 DEF StatusOf, RetryStrategies
  <2>3. QED
    BY <1>2, <2>2
<1>3. CASE failure.class # "external_transient"
  <2>1. Strategy(failure, spent) = StopStrategy(failure.class)
    BY <1>3 DEF Strategy, PlansRetry
  <2>2. CASE failure.class = "system_failure"
    <3>1. StatusOf(Strategy(failure, spent)) = "system_failure"
      BY <2>1, <2>2 DEF StopStrategy, StatusOf, RetryStrategies
    <3>2. QED
      BY <3>1
  <2>3. CASE failure.class # "system_failure"
    <3>1. StatusOf(Strategy(failure, spent)) # "external_service_blocked"
      BY <1>1, <1>3, <2>1, <2>3 DEF StopStrategy, StatusOf, RetryStrategies, Classes
    <3>2. QED
      BY <1>1, <1>3, <2>3, <3>1 DEF Classes
  <2>4. QED
    BY <2>2, <2>3
<1>4. QED
  BY <1>2, <1>3

\* A stop of the plan, for a failure that is not of the provider's availability.
LEMMA PlannedStopIsSpent ==
    ASSUME NEW failure, NEW recent, NEW route, route = PlanRouting(failure, routing, recent),
           failure.class \in {"model_capability", "convergence_stalled", "external_permanent"},
           ~ChangesModel(route)
    PROVE  \/ Candidates = <<>>
           \/ recent
           \/ ~EscalationsRemain(routing)
           \/ Escalations(routing) = {} /\ failure.class # "external_permanent"
           \/ Alternatives(routing) = {}
<1>1. SUFFICES ASSUME Candidates # <<>>, ~recent, EscalationsRemain(routing),
                      Alternatives(routing) # {},
                      Escalations(routing) # {} \/ failure.class = "external_permanent"
               PROVE  FALSE
  OBVIOUS
<1>2. /\ failure.class # "system_failure" /\ failure.class # "external_transient"
  OBVIOUS
<1>3. route.action = IF failure.class = "external_permanent"
                     THEN "switch_alternative" ELSE "escalate_capability"
  BY <1>1, <1>2 DEF PlanRouting, Route
<1>4. QED
  BY <1>3 DEF ChangesModel

\* The handling of a failure, when what counts as recent in p is still the last evaluation.
LEMMA FailureStopsSpent ==
    ASSUME LedgerInv, NEW failure, RetryableIsTransient(failure), NEW source, NEW p,
           HandleFailure(failure, source, p), p.recent => JustImproved', status = "running"
    PROVE  StopsOnlyWhenSpent'
<1> DEFINE route == PlanRouting(failure, routing, p.recent)
           action == PlanAdaptive(failure, ledger, route)
<1>1. last'.failure = failure
  BY DEF HandleFailure, Report
<1>2. CASE status' = "running"
  BY <1>2 DEF StopsOnlyWhenSpent
<1>3. CASE /\ action = "stop"
           /\ status' = StatusOf(Strategy(failure, ledger))
           /\ UNCHANGED <<ledger, routing>>
  <2>1. /\ ledger.attempts \in Nat /\ ledger.attempts <= MaxAttempts
        /\ ledger.switches \in Nat /\ ledger.switches <= MaxSwitches
        /\ routing.escalations \in Nat /\ routing.escalations <= MaxEscalations
    BY DEF LedgerInv, LedgerTyped, LedgerHolds
  <2>2. ASSUME status' = "external_service_blocked", failure.retryable
        PROVE  \/ ledger'.attempts = MaxAttempts
               \/ ~CanWait(RetryWait(failure), ledger)'
    <3>1. failure.class = "external_transient"
      BY <2>2 DEF RetryableIsTransient
    <3>2. CASE AttemptsRemain(ledger)
      <4>1. PlansRetry(failure, ledger)
        BY <2>2, <3>1, <3>2 DEF PlansRetry
      <4>2. ~CanWait(RetryWait(failure), ledger)
        BY <1>3, <4>1 DEF PlanAdaptive
      <4>3. QED
        BY <1>3, <4>2 DEF CanWait
    <3>3. CASE ~AttemptsRemain(ledger)
      BY <1>3, <2>1, <3>3, LimitsAssumption DEF AttemptsRemain
    <3>4. QED
      BY <3>2, <3>3
  <2>3. ASSUME status' \in {"model_capability_failure", "non_progress",
                            "external_configuration_blocked"}
        PROVE  \/ JustImproved'
               \/ ledger'.switches = MaxSwitches
               \/ routing'.escalations = MaxEscalations
               \/ Candidates = <<>>
               \/ Escalations(routing)' = {} /\ failure.class # "external_permanent"
               \/ Alternatives(routing)' = {}
    <3>1. failure.class \in {"model_capability", "convergence_stalled", "external_permanent"}
      BY <1>3, <2>3, EndNamesFailure
    <3>2. ~ChangesModel(route) \/ ~CanSwitch(ledger)
      BY <1>3, <3>1 DEF PlanAdaptive, PlansRetry
    <3>3. CASE ~CanSwitch(ledger)
      BY <1>3, <2>1, <3>3, LimitsAssumption DEF CanSwitch
    <3>4. CASE ~ChangesModel(route)
      <4>1. \/ Candidates = <<>>
            \/ p.recent
            \/ ~EscalationsRemain(routing)
            \/ Escalations(routing) = {} /\ failure.class # "external_permanent"
            \/ Alternatives(routing) = {}
        BY <3>1, <3>4, PlannedStopIsSpent
      <4>2. ~EscalationsRemain(routing) => routing.escalations = MaxEscalations
        BY <2>1, LimitsAssumption DEF EscalationsRemain
      <4>3. Escalations(routing)' = Escalations(routing)
            /\ Alternatives(routing)' = Alternatives(routing)
        BY <1>3 DEF Escalations, Alternatives, HasVisited
      <4>4. QED
        BY <1>3, <4>1, <4>2, <4>3
    <3>5. QED
      BY <3>2, <3>3, <3>4
  <2>4. QED
    BY <1>1, <2>2, <2>3 DEF StopsOnlyWhenSpent
<1>4. QED
  BY <1>2, <1>3 DEF HandleFailure

\* A recovery makes nothing recent, and a stop leaves what is known.
LEMMA FailureKeepsRecent ==
    ASSUME LedgerInv, NEW failure, NEW source, NEW p, TrueOf(p, ledger),
           HandleFailure(failure, source, p), p.recent => JustImproved' /\ MaxStale > 0
    PROVE  progress'.recent => JustImproved' /\ MaxStale > 0
<1>1. CASE progress' = RecoveryPending(p)
  <2>1. p \in [meaningful : BOOLEAN, recent : BOOLEAN, pending : BOOLEAN, restored : BOOLEAN]
    BY DEF TrueOf
  <2>2. ~RecoveryPending(p).recent
    BY <2>1 DEF RecoveryPending
  <2>3. QED
    BY <1>1, <2>2
<1>2. CASE progress' = p
  BY <1>2
<1>3. QED
  BY <1>1, <1>2 DEF HandleFailure

\* The evaluation that improves is the last gain.
LEMMA ImprovedIsJust ==
    ASSUME WindowIsTrue(tracker), NEW state \in Evaluations, NEW label,
           tracker' = Record(tracker, state, label), Improves(tracker, state)
    PROVE  JustImproved' /\ tracker'.stale = 0
<1> DEFINE n == Len(tracker.states)
<1>1. tracker.states \in Seq(Evaluations) /\ n \in Nat
  BY DEF WindowIsTrue
<1>2. /\ tracker.states # <<>>
      /\ Cardinality(Passed(state)) > Cardinality(Passed(LastOf(tracker.states)))
  BY DEF Improves, Signal
<1>3. tracker'.states = Append(tracker.states, state) /\ tracker'.stale = 0
  BY DEF Record
<1>4. /\ Len(tracker'.states) = n + 1 /\ n > 0
      /\ tracker'.states[n + 1] = state /\ tracker'.states[n] = tracker.states[n]
      /\ n + 1 - 1 = n
  BY <1>1, <1>2, <1>3
<1> HIDE DEF n
<1>5. /\ Len(tracker'.states) > 1
      /\ LastOf(tracker'.states) = state
      /\ tracker'.states[Len(tracker'.states) - 1] = tracker.states[n]
  BY <1>1, <1>4 DEF LastOf
<1>6. LastOf(tracker.states) = tracker.states[n]
  BY DEF LastOf, n
<1>7. QED
  BY <1>2, <1>3, <1>5, <1>6 DEF JustImproved

\* The end of an iteration.  A stall is never called on progress: a gain empties the window.
LEMMA AssessmentStopsSpent ==
    ASSUME RecentInv, status = "running", NEW state \in Evaluations, NEW label \in Labels,
           Assess(state, label)
    PROVE  /\ progress'.recent => JustImproved' /\ MaxStale > 0
           /\ StopsOnlyWhenSpent'
<1>1. /\ LedgerInv /\ TrueOf(progress, ledger) /\ WindowIsTrue(tracker)
      /\ goal' = state /\ MaxStale \in Nat
  BY LoopAssumption DEF RecentInv, RestoredInv, StallInv, Assess
<1>2. CASE MaxStale = 0 /\ UNCHANGED <<status, progress>>
  BY <1>2 DEF RecentInv, StopsOnlyWhenSpent
<1>3. CASE MaxStale > 0 /\ Satisfied(state) /\ UNCHANGED status
  BY <1>1, <1>3 DEF JustImproved, StopsOnlyWhenSpent
<1>4. CASE /\ MaxStale > 0
           /\ tracker' = Record(tracker, state, label)
           /\ \E p : /\ p = Assessed(progress, Improves(tracker, state))
                     /\ \/ /\ tracker'.stale >= MaxStale
                           /\ HandleFailure(StallFailure(label), "stall", p)
                        \/ progress' = p /\ UNCHANGED status
  <2>1. PICK p : /\ p = Assessed(progress, Improves(tracker, state))
                 /\ \/ /\ tracker'.stale >= MaxStale
                       /\ HandleFailure(StallFailure(label), "stall", p)
                    \/ progress' = p /\ UNCHANGED status
    BY <1>4
  <2>2. TrueOf(p, ledger)
    <3>1. Improves(tracker, state) \in BOOLEAN
      BY DEF Improves
    <3>2. QED
      BY <1>1, <2>1, <3>1, ProgressStaysTrue
  <2>3. p.recent => JustImproved'
    <3>1. CASE Improves(tracker, state)
      BY <1>1, <1>4, <3>1, ImprovedIsJust
    <3>2. CASE ~Improves(tracker, state)
      <4>1. p = [progress EXCEPT !.recent = FALSE]
        BY <2>1, <3>2 DEF Assessed
      <4>2. ~p.recent
        BY <1>1, <4>1 DEF TrueOf
      <4>3. QED
        BY <4>2
    <3>3. QED
      BY <3>1, <3>2
  <2>4. CASE HandleFailure(StallFailure(label), "stall", p)
    <3>1. StopsOnlyWhenSpent'
      BY <1>1, <2>3, <2>4, FailuresAreClassed, FailureStopsSpent
    <3>2. progress'.recent => JustImproved' /\ MaxStale > 0
      BY <1>1, <1>4, <2>2, <2>3, <2>4, FailureKeepsRecent
    <3>3. QED
      BY <3>1, <3>2
  <2>5. CASE progress' = p /\ UNCHANGED status
    BY <1>4, <2>3, <2>5 DEF StopsOnlyWhenSpent
  <2>6. QED
    BY <2>1, <2>4, <2>5
<1>5. QED
  BY <1>2, <1>3, <1>4 DEF Assess

LEMMA StepStopsSpent ==
    ASSUME RecentInv, StopsOnlyWhenSpent, [Next]_vars
    PROVE  RecentInv' /\ StopsOnlyWhenSpent'
<1>1. RestoredInv' /\ StallInv'
  BY StepKeepsRestored, StepKeepsStall DEF RecentInv
<1>2. /\ LedgerInv /\ TrueOf(progress, ledger) /\ goal \in Evaluations
  BY DEF RecentInv, RestoredInv, StallInv
<1>3. SUFFICES /\ progress'.recent => JustImproved' /\ MaxStale > 0
               /\ StopsOnlyWhenSpent'
  BY <1>1 DEF RecentInv
<1>4. CASE ProposalFails \/ UnknownTool
  <2>1. PICK failure, source :
          RetryableIsTransient(failure) /\ HandleFailure(failure, source, progress)
    BY <1>4, FailuresAreClassed DEF ProposalFails, UnknownTool
  <2>2. status = "running" /\ UNCHANGED <<tracker, goal>>
    BY <1>4 DEF ProposalFails, UnknownTool, Iteration
  <2>3. progress.recent => JustImproved' /\ MaxStale > 0
    BY <2>2 DEF RecentInv, JustImproved
  <2>4. QED
    BY <1>2, <2>1, <2>2, <2>3, FailureStopsSpent, FailureKeepsRecent
<1>5. CASE RunTool
  BY <1>5, AssessmentStopsSpent DEF RunTool, Iteration, Labels
<1>6. CASE RunNothing
  BY <1>2, <1>6, AssessmentStopsSpent DEF RunNothing, Iteration
<1>7. CASE Finish \/ IterationsExhausted
  BY <1>7 DEF Finish, IterationsExhausted, RecentInv, JustImproved, StopsOnlyWhenSpent
<1>8. CASE Returned \/ UNCHANGED vars
  <2>1. UNCHANGED vars
    BY <1>8 DEF Returned
  <2>2. JustImproved' = JustImproved
    BY <2>1 DEF vars, JustImproved
  <2>3. CanWait(RetryWait(last.failure), ledger)' = CanWait(RetryWait(last.failure), ledger)
    BY <2>1 DEF vars, CanWait, RetryWait
  <2>4. /\ Escalations(routing)' = Escalations(routing)
        /\ Alternatives(routing)' = Alternatives(routing)
    BY <2>1 DEF vars, Escalations, Alternatives, HasVisited
  <2>5. QED
    BY <2>1, <2>2, <2>3, <2>4 DEF vars, RecentInv, StopsOnlyWhenSpent
<1>9. QED
  BY <1>4, <1>5, <1>6, <1>7, <1>8 DEF Next

\* For every catalogue, budget and order of failures, a session that is given up had no
\* attempt, waiting time, switch or model left to try, or had just seen a gain
\* (adaptive_recovery.rs and model_routing.rs below handle_classified_failure).
THEOREM StopsAreSpent == Spec => []StopsOnlyWhenSpent
<1>1. Init => RecentInv /\ StopsOnlyWhenSpent
  BY InitRestored, InitStall DEF Init, RecentInv, StopsOnlyWhenSpent
<1>2. RecentInv /\ StopsOnlyWhenSpent /\ [Next]_vars => (RecentInv /\ StopsOnlyWhenSpent)'
  BY StepStopsSpent
<1>3. QED
  BY <1>1, <1>2, PTL DEF Spec

-----------------------------------------------------------------------------
(***************************************************************************)
(* The two retry budgets of a live session, for every catalogue of models, *)
(* every choice of wrapped clients and every answer of the providers.      *)
(*                                                                         *)
(* A session takes the steps of AgentLoop or leaves its variables alone,   *)
(* which carries the invariants of the loop over.  RetriesMultiply is not  *)
(* inductive: the requests that failed are bounded by the attempts already *)
(* charged while the session runs, and only the call that ends it may add  *)
(* those of one more.                                                      *)
(***************************************************************************)
Calls == ClientRetries + 1  \* requests of one call

RetryInv ==
    /\ attempt \in 0..ClientRetries
    /\ failing \in Nat
    /\ status = "running" => failing <= ledger.attempts * Calls
    /\ status # "running" => failing <= (ledger.attempts + 1) * Calls

MultiplyInv == LedgerInv /\ RetryInv

-----------------------------------------------------------------------------
LEMMA StepOfLoop == [SessionNext]_sessionVars => [Next]_vars
BY DEF SessionNext, ClientRetry, CallFails, CallAnswered, SessionEnds, SessionReturned,
       sessionVars, Next

LEMMA Multiples ==
    ASSUME NEW a \in Nat, NEW b \in Nat, a <= b, NEW c \in Nat
    PROVE  /\ a * c \in Nat
           /\ a * c <= b * c
           /\ (a + 1) * c = a * c + c
<1>1. (a + 1) * c = a * c + c
  OBVIOUS
<1>2. PICK d \in Nat : b = a + d
  <2>1. b - a \in Nat /\ b = a + (b - a)
    OBVIOUS
  <2>2. QED
    BY <2>1
<1>3. b * c = a * c + d * c
  BY <1>2
<1>4. a * c \in Nat /\ d * c \in Nat
  OBVIOUS
<1>5. QED
  BY <1>1, <1>3, <1>4

LEMMA CallsAreNat == Calls \in Nat
BY SessionAssumption DEF Calls

\* What is still bounded by the attempts after the call.
LEMMA StaysBounded ==
    ASSUME NEW n \in Nat, NEW m \in Nat, n <= m, failing \in Nat,
           failing <= n * Calls
    PROVE  failing <= m * Calls /\ failing <= (m + 1) * Calls
<1>1. n * Calls <= m * Calls /\ n * Calls \in Nat /\ m * Calls \in Nat
  BY CallsAreNat, Multiples
<1>2. (m + 1) * Calls = m * Calls + Calls
  BY CallsAreNat, Multiples
<1>3. QED
  BY <1>1, <1>2, CallsAreNat

\* Attempts are only ever charged.
LEMMA FailureCharges ==
    ASSUME LedgerInv, NEW failure \in AnyFailure, NEW source, NEW p,
           HandleFailure(failure, source, p)
    PROVE  /\ ledger'.attempts >= ledger.attempts
           /\ status' = status => \/ ledger'.attempts = ledger.attempts + 1
                                  \/ last'.action = "route_model"
                                  \/ StatusOf(Strategy(failure, ledger)) = status
           /\ last'.failure = failure
<1>1. ledger \in [attempts : Nat, switches : Nat, waited : Nat]
  BY DEF LedgerInv, LedgerTyped
<1>2. last'.failure = failure
  BY DEF HandleFailure, Report
<1>3. CASE ledger' = ConsumeRecovery(RetryWait(failure), ledger)
  <2>1. RetryWait(failure) \in Nat
    BY WaitIsNat
  <2>2. ledger'.attempts = ledger.attempts + 1
    BY <1>1, <1>3, <2>1, ConsumeSpends
  <2>3. QED
    BY <1>1, <1>2, <2>2
<1>4. CASE /\ ledger' = ConsumeSwitch(ledger)
           /\ last' = Report(failure, source, "route_model", iterations')
  <2>1. ledger'.attempts = ledger.attempts /\ last'.action = "route_model"
    BY <1>1, <1>4 DEF ConsumeSwitch, Report
  <2>2. QED
    BY <1>1, <1>2, <2>1
<1>5. CASE status' = StatusOf(Strategy(failure, ledger)) /\ UNCHANGED ledger
  BY <1>1, <1>2, <1>5
<1>6. QED
  BY <1>2, <1>3, <1>4, <1>5 DEF HandleFailure

\* No end of a session is called "running".
LEMMA EndsAreEnds ==
    ASSUME NEW failure \in AnyFailure, NEW spent
    PROVE  StatusOf(Strategy(failure, spent)) # "running"
<1>1. failure.class \in Classes
  BY DEF AnyFailure
<1>2. Strategy(failure, spent) \in RetryStrategies
        \cup {"stop_external_blocked", "stop_configuration_blocked", "stop_model_capability",
              "stop_system_failure", "stop_convergence_stalled"}
  BY <1>1 DEF Strategy, StopStrategy, Classes, RetryStrategies
<1>3. QED
  BY <1>2 DEF StatusOf, RetryStrategies

\* A failure that may be retried changes no model.
LEMMA RetryableStays ==
    ASSUME NEW failure, failure.class = "external_transient", NEW state, NEW spent, NEW recent
    PROVE  PlanAdaptive(failure, spent, PlanRouting(failure, state, recent)) # "route_model"
<1>1. PlanRouting(failure, state, recent) \in {Route("none", 0), Route("wait_same_model", 0)}
  BY DEF PlanRouting
<1>2. ~ChangesModel(PlanRouting(failure, state, recent))
  BY <1>1 DEF ChangesModel, Route
<1>3. QED
  BY <1>2 DEF PlanAdaptive

LEMMA AssessmentCharges ==
    ASSUME LedgerInv, NEW state, NEW label, Assess(state, label)
    PROVE  ledger'.attempts >= ledger.attempts
<1>1. CASE UNCHANGED ledger
  BY <1>1 DEF LedgerInv, LedgerTyped
<1>2. CASE \E p : HandleFailure(StallFailure(label), "stall", p)
  BY <1>2, StallsAreFailures, FailureCharges
<1>3. QED
  BY <1>1, <1>2 DEF Assess

LEMMA ProposalCharges ==
    ASSUME LedgerInv, ProposalFails
    PROVE  /\ ledger'.attempts >= ledger.attempts
           /\ status' = "running" /\ last'.failure.retryable =>
                 ledger'.attempts = ledger.attempts + 1
           /\ status = "running"
<1>1. PICK failure \in ProposalFailures(Hints) : HandleFailure(failure, "proposal", progress)
  BY DEF ProposalFails
<1>2. failure \in AnyFailure
  BY ProposalsAreFailures
<1>3. status = "running"
  BY DEF ProposalFails, Iteration
<1>4. failure.retryable => failure.class = "external_transient"
  BY DEF ProposalFailures, Failure
<1>5. last'.action = PlanAdaptive(failure, ledger, PlanRouting(failure, routing, progress.recent))
  BY <1>1 DEF HandleFailure, Report
<1>6. QED
  BY <1>1, <1>2, <1>3, <1>4, <1>5, FailureCharges, EndsAreEnds, RetryableStays

\* What an answer does to the budget.
LEMMA AnswerCharges ==
    ASSUME LedgerInv, CallAnswered
    PROVE  ledger'.attempts >= ledger.attempts /\ status = "running"
<1>1. CASE Finish
  BY <1>1 DEF Finish, Iteration, LedgerInv, LedgerTyped
<1>2. CASE RunTool
  BY <1>2, AssessmentCharges DEF RunTool, Iteration
<1>3. CASE RunNothing
  BY <1>3, AssessmentCharges DEF RunNothing, Iteration
<1>4. CASE UnknownTool
  <2>1. SystemFailure \in AnyFailure
    BY DEF SystemFailure, Failure, AnyFailure, Classes
  <2>2. QED
    BY <1>4, <2>1, FailureCharges DEF UnknownTool, Iteration
<1>5. CASE ProposalFails
  BY <1>5, ProposalCharges
<1>6. QED
  BY <1>1, <1>2, <1>3, <1>4, <1>5 DEF CallAnswered

-----------------------------------------------------------------------------
\* The call that fails for good charges an attempt for its requests, or ends the session.
LEMMA FailingCallCounted ==
    ASSUME MultiplyInv, CallFails
    PROVE  RetryInv'
<1>1. LedgerInv /\ LedgerInv' /\ ProposalFails
  BY StepKeepsLedger DEF MultiplyInv, CallFails, Next
<1>2. /\ status = "running"
      /\ ledger'.attempts >= ledger.attempts
      /\ status' = "running" /\ last'.failure.retryable =>
            ledger'.attempts = ledger.attempts + 1
  BY <1>1, ProposalCharges
<1>3. ledger.attempts \in Nat /\ ledger'.attempts \in Nat
  BY <1>1 DEF LedgerInv, LedgerTyped
<1>4. /\ attempt \in 0..ClientRetries
      /\ failing \in Nat
      /\ failing <= ledger.attempts * Calls
  BY <1>2 DEF MultiplyInv, RetryInv
<1>5. attempt' = 0 /\ attempt' \in 0..ClientRetries
  BY SessionAssumption DEF CallFails, CallEnds
<1>6. CASE ~last'.failure.retryable
  <2>1. failing' = failing
    BY <1>6 DEF CallFails
  <2>2. failing <= ledger'.attempts * Calls /\ failing <= (ledger'.attempts + 1) * Calls
    BY <1>2, <1>3, <1>4, StaysBounded
  <2>3. QED
    BY <1>4, <1>5, <2>1, <2>2 DEF RetryInv, Calls
<1>7. CASE last'.failure.retryable
  <2>1. failing' = failing + attempt + 1
    BY <1>7 DEF CallFails
  <2>2. failing' \in Nat /\ failing' <= failing + Calls
    BY <1>4, <2>1, SessionAssumption DEF Calls
  <2>3. /\ (ledger.attempts + 1) * Calls = ledger.attempts * Calls + Calls
        /\ ledger.attempts * Calls \in Nat
    BY <1>3, CallsAreNat, Multiples
  <2>4. failing' <= (ledger.attempts + 1) * Calls
    BY <1>4, <2>2, <2>3, CallsAreNat
  <2>5. CASE status' = "running"
    BY <1>2, <1>5, <1>7, <2>2, <2>4, <2>5 DEF RetryInv, Calls
  <2>6. CASE status' # "running"
    <3>1. (ledger.attempts + 1) * Calls <= (ledger'.attempts + 1) * Calls
      <4>1. ledger.attempts + 1 \in Nat /\ ledger'.attempts + 1 \in Nat
            /\ ledger.attempts + 1 <= ledger'.attempts + 1
        BY <1>2, <1>3
      <4>2. QED
        BY <4>1, CallsAreNat, Multiples
    <3>2. /\ (ledger.attempts + 1) * Calls \in Nat
          /\ (ledger'.attempts + 1) * Calls \in Nat
      BY <1>3, CallsAreNat
    <3>3. failing' <= (ledger'.attempts + 1) * Calls
      BY <2>2, <2>4, <3>1, <3>2
    <3>4. QED
      BY <1>5, <2>2, <2>6, <3>3 DEF RetryInv, Calls
  <2>7. QED
    BY <2>5, <2>6
<1>8. QED
  BY <1>6, <1>7

LEMMA SessionKeeps ==
    ASSUME MultiplyInv, [SessionNext]_sessionVars
    PROVE  MultiplyInv'
<1>1. LedgerInv /\ LedgerInv' /\ [Next]_vars
  BY StepOfLoop, StepKeepsLedger DEF MultiplyInv
<1>2. ledger.attempts \in Nat /\ ledger'.attempts \in Nat
  BY <1>1 DEF LedgerInv, LedgerTyped
<1>3. CASE ClientRetry
  <2>1. attempt' \in 0..ClientRetries
    BY <1>3, SessionAssumption DEF ClientRetry, MultiplyInv, RetryInv
  <2>2. QED
    BY <1>1, <1>3, <2>1 DEF ClientRetry, MultiplyInv, RetryInv, Calls, vars
<1>4. CASE CallFails
  BY <1>1, <1>4, FailingCallCounted DEF MultiplyInv
<1>5. CASE CallAnswered
  <2>1. status = "running" /\ ledger'.attempts >= ledger.attempts
    BY <1>1, <1>5, AnswerCharges
  <2>2. failing \in Nat /\ failing <= ledger.attempts * Calls
    BY <2>1 DEF MultiplyInv, RetryInv
  <2>3. failing <= ledger'.attempts * Calls /\ failing <= (ledger'.attempts + 1) * Calls
    BY <1>2, <2>1, <2>2, StaysBounded
  <2>4. failing' = failing /\ attempt' \in 0..ClientRetries
    BY <1>5, SessionAssumption DEF CallAnswered, CallEnds
  <2>5. QED
    BY <1>1, <2>2, <2>3, <2>4 DEF MultiplyInv, RetryInv, Calls
<1>6. CASE SessionEnds
  <2>1. failing \in Nat /\ failing <= ledger.attempts * Calls
    BY <1>6 DEF SessionEnds, IterationsExhausted, MultiplyInv, RetryInv
  <2>2. failing <= (ledger.attempts + 1) * Calls
    BY <1>2, <2>1, StaysBounded
  <2>3. QED
    BY <1>1, <1>6, <2>1, <2>2
       DEF SessionEnds, IterationsExhausted, clientVars, MultiplyInv, RetryInv, Calls
<1>7. CASE SessionReturned \/ UNCHANGED sessionVars
  BY <1>1, <1>7 DEF SessionReturned, Returned, sessionVars, clientVars, vars,
                    MultiplyInv, RetryInv, Calls
<1>8. QED
  BY <1>3, <1>4, <1>5, <1>6, <1>7 DEF SessionNext

-----------------------------------------------------------------------------
\* However the two budgets interleave, a provider that keeps failing is asked at most
\* (MaxAttempts + 1) * (ClientRetries + 1) times (retrying_model_client.rs below
\* agent_loop.rs).
THEOREM RetriesBounded == SessionSpec => []RetriesMultiply
<1>1. SessionInit => MultiplyInv
  <2> SUFFICES ASSUME SessionInit PROVE MultiplyInv
    OBVIOUS
  <2>1. LedgerInv /\ ledger.attempts = 0 /\ status = "running"
    BY LimitsAssumption
       DEF SessionInit, Init, NewLedger, NewRouting, LedgerInv, LedgerTyped, LedgerHolds
  <2>2. attempt \in 0..ClientRetries /\ failing = 0
    BY SessionAssumption DEF SessionInit
  <2>3. 0 * Calls = 0
    BY CallsAreNat
  <2>4. QED
    BY <2>1, <2>2, <2>3 DEF MultiplyInv, RetryInv
<1>2. MultiplyInv /\ [SessionNext]_sessionVars => MultiplyInv'
  BY SessionKeeps
<1>3. MultiplyInv => RetriesMultiply
  <2> SUFFICES ASSUME MultiplyInv PROVE failing <= (MaxAttempts + 1) * Calls
    BY DEF RetriesMultiply, Calls
  <2>1. /\ ledger.attempts \in Nat /\ ledger.attempts <= MaxAttempts /\ MaxAttempts \in Nat
        /\ failing \in Nat
    BY LimitsAssumption DEF MultiplyInv, RetryInv, LedgerInv, LedgerTyped, LedgerHolds
  <2>2. failing <= ledger.attempts * Calls \/ failing <= (ledger.attempts + 1) * Calls
    BY DEF MultiplyInv, RetryInv
  <2>3. CASE failing <= ledger.attempts * Calls
    BY <2>1, <2>3, StaysBounded
  <2>4. CASE failing <= (ledger.attempts + 1) * Calls
    <3>1. /\ (ledger.attempts + 1) * Calls <= (MaxAttempts + 1) * Calls
          /\ (ledger.attempts + 1) * Calls \in Nat
      <4>1. ledger.attempts + 1 \in Nat /\ MaxAttempts + 1 \in Nat
            /\ ledger.attempts + 1 <= MaxAttempts + 1
        BY <2>1
      <4>2. QED
        BY <4>1, CallsAreNat, Multiples
    <3>2. (MaxAttempts + 1) * Calls \in Nat
      BY <2>1, CallsAreNat
    <3>3. QED
      BY <2>1, <2>4, <3>1, <3>2
  <2>5. QED
    BY <2>2, <2>3, <2>4
<1>4. QED
  BY <1>1, <1>2, <1>3, PTL DEF SessionSpec

-----------------------------------------------------------------------------
(***************************************************************************)
(* What the trace tells of the retries.  An iteration charges an attempt   *)
(* exactly when the next one repeats its request, and the wrapper repeats  *)
(* a request exactly when its count of the call grows; the count of a call *)
(* is lost only when another model than the handle's made it.              *)
(***************************************************************************)
CountsTyped ==
    /\ attempt \in Nat /\ repeats \in Nat
    /\ metrics \in [total : Nat, perCall : Seq(Nat)]
    /\ sent \in Seq(Nat)

\* Two lists that are equally long have a count of every call.
ListsInv ==
    /\ Len(sent) = iterations
    /\ Len(metrics.perCall) <= iterations
    /\ Len(metrics.perCall) = iterations =>
          \A i \in 1..iterations : metrics.perCall[i] = sent[i] - 1

ToldInv == LedgerInv /\ StallInv /\ CountsTyped /\ ListsInv

TotalInv ==
    /\ ToldInv
    /\ Wrapped = {Handle}
    /\ attempt > 0 => routing.active \in Wrapped
    /\ TotalIsTold

\* The attempt charged by an iteration, which the next one makes.
LEMMA FailureChargesRepeat ==
    ASSUME LedgerInv, NEW failure \in AnyFailure, NEW source, NEW p,
           HandleFailure(failure, source, p)
    PROVE  ledger'.attempts = ledger.attempts + (IF LoopRepeats' THEN 1 ELSE 0)
<1>1. ledger \in [attempts : Nat, switches : Nat, waited : Nat]
  BY DEF LedgerInv, LedgerTyped
<1> DEFINE action == PlanAdaptive(failure, ledger, PlanRouting(failure, routing, p.recent))
<1>2. last'.at = iterations' /\ last'.action = action
  BY DEF HandleFailure, Report
<1>3. LoopRepeats' <=> action = "retry_same_model"
  BY <1>2 DEF LoopRepeats
<1>4. CASE action = "retry_same_model" /\ ledger' = ConsumeRecovery(RetryWait(failure), ledger)
  <2>1. ledger'.attempts = ledger.attempts + 1
    BY <1>1, <1>4, WaitIsNat, ConsumeSpends
  <2>2. QED
    BY <1>3, <1>4, <2>1
<1>5. CASE action # "retry_same_model" /\ ledger' = ConsumeSwitch(ledger)
  <2>1. ledger'.attempts = ledger.attempts
    BY <1>1, <1>5 DEF ConsumeSwitch
  <2>2. QED
    BY <1>1, <1>3, <1>5, <2>1
<1>6. CASE action # "retry_same_model" /\ UNCHANGED ledger
  BY <1>1, <1>3, <1>6
<1>7. QED
  <2> HIDE DEF action
  <2>1. \/ action = "retry_same_model" /\ ledger' = ConsumeRecovery(RetryWait(failure), ledger)
        \/ action = "route_model" /\ ledger' = ConsumeSwitch(ledger)
        \/ action = "stop" /\ UNCHANGED ledger
    BY DEF HandleFailure, action
  <2>2. QED
    BY <1>4, <1>5, <1>6, <2>1

\* An iteration without a failure repeats nothing.
LEMMA NoFailureNoRepeat ==
    ASSUME LedgerInv, StallInv, iterations' = iterations + 1, UNCHANGED <<ledger, last>>
    PROVE  ledger'.attempts = ledger.attempts + (IF LoopRepeats' THEN 1 ELSE 0)
<1>1. last'.at # iterations'
  BY DEF StallInv
<1>2. QED
  BY <1>1 DEF LoopRepeats, LedgerInv, LedgerTyped

LEMMA IterationChargesRepeat ==
    ASSUME LedgerInv, StallInv, CallFails \/ CallAnswered
    PROVE  /\ iterations' = iterations + 1
           /\ ledger'.attempts = ledger.attempts + (IF LoopRepeats' THEN 1 ELSE 0)
<1>1. ProposalFails \/ Finish \/ RunTool \/ RunNothing \/ UnknownTool
  BY DEF CallFails, CallAnswered
<1>2. iterations' = iterations + 1
  BY <1>1 DEF ProposalFails, Finish, RunTool, RunNothing, UnknownTool, Iteration
<1>3. CASE \E failure \in AnyFailure : \E source, p : HandleFailure(failure, source, p)
  BY <1>2, <1>3, FailureChargesRepeat
<1>4. CASE UNCHANGED <<ledger, last>>
  BY <1>2, <1>4, NoFailureNoRepeat
<1>5. CASE ProposalFails
  <2>1. \E failure \in AnyFailure : \E source, p : HandleFailure(failure, source, p)
    BY <1>5, ProposalsAreFailures DEF ProposalFails
  <2>2. QED
    BY <1>3, <2>1
<1>6. CASE UnknownTool
  <2>1. SystemFailure \in AnyFailure
    BY DEF SystemFailure, Failure, AnyFailure, Classes
  <2>2. QED
    BY <1>3, <1>6, <2>1 DEF UnknownTool
<1>7. CASE Finish
  BY <1>4, <1>7 DEF Finish
<1>8. CASE \E state, label : Assess(state, label)
  <2>1. PICK state, label : Assess(state, label)
    BY <1>8
  <2>2. CASE UNCHANGED <<ledger, last>>
    BY <1>4, <2>2
  <2>3. CASE \E p : HandleFailure(StallFailure(label), "stall", p)
    BY <1>3, <2>3, StallsAreFailures
  <2>4. QED
    BY <2>1, <2>2, <2>3 DEF Assess
<1>9. QED
  BY <1>1, <1>2, <1>5, <1>6, <1>7, <1>8 DEF RunTool, RunNothing

\* One more call in the lists.
LEMMA CallKeepsLists ==
    ASSUME CountsTyped, ListsInv, iterations \in Nat, iterations' = iterations + 1, CallEnds
    PROVE  CountsTyped' /\ ListsInv'
<1> DEFINE told == metrics.perCall
           longer == Append(told, attempt)
           made == Append(sent, attempt + 1)
<1>1. /\ attempt \in Nat /\ repeats \in Nat /\ told \in Seq(Nat) /\ metrics.total \in Nat
      /\ sent \in Seq(Nat) /\ Len(told) \in Nat /\ Len(sent) \in Nat
  BY DEF CountsTyped
<1>2. attempt' = 0 /\ repeats' \in Nat /\ sent' = made
  BY <1>1 DEF CallEnds, Request
<1>3. /\ made \in Seq(Nat) /\ Len(made) = iterations + 1
      /\ made[iterations + 1] = attempt + 1
      /\ \A i \in 1..iterations : made[i] = sent[i]
  BY <1>1 DEF ListsInv
<1>4. CASE UNCHANGED metrics
  <2>1. Len(metrics'.perCall) <= iterations
    BY <1>4 DEF ListsInv
  <2>2. ListsInv'
    BY <1>1, <1>2, <1>3, <1>4, <2>1 DEF ListsInv
  <2>3. QED
    BY <1>1, <1>2, <1>3, <1>4, <2>2 DEF CountsTyped
<1>5. CASE metrics' = [total |-> metrics.total + attempt, perCall |-> longer]
  <2>1. /\ longer \in Seq(Nat) /\ Len(longer) = Len(told) + 1
        /\ longer[Len(told) + 1] = attempt
        /\ \A i \in 1..Len(told) : longer[i] = told[i]
    BY <1>1
  <2>2. metrics'.perCall = longer /\ metrics' \in [total : Nat, perCall : Seq(Nat)]
    BY <1>1, <1>5, <2>1
  <2>3. ASSUME Len(longer) = iterations + 1, NEW i \in 1..(iterations + 1)
        PROVE  longer[i] = made[i] - 1
    <3>1. Len(told) = iterations
      BY <1>1, <2>1, <2>3
    <3>2. CASE i = iterations + 1
      BY <1>1, <1>3, <2>1, <3>1, <3>2
    <3>3. CASE i \in 1..iterations
      BY <1>3, <2>1, <3>1, <3>3 DEF ListsInv
    <3>4. i = iterations + 1 \/ i \in 1..iterations
      BY <2>3
    <3>5. QED
      BY <3>2, <3>3, <3>4
  <2> HIDE DEF longer, made
  <2>4. Len(longer) <= iterations + 1
    BY <1>1, <2>1 DEF ListsInv
  <2>5. ListsInv'
    BY <1>2, <1>3, <2>2, <2>3, <2>4 DEF ListsInv
  <2>6. QED
    BY <1>2, <1>3, <2>2, <2>5 DEF CountsTyped
<1>6. QED
  BY <1>4, <1>5 DEF CallEnds, Recorded

LEMMA StepKeepsTold ==
    ASSUME ToldInv, [SessionNext]_sessionVars
    PROVE  ToldInv'
<1>1. /\ LedgerInv' /\ StallInv'
      /\ LedgerInv /\ StallInv /\ CountsTyped /\ ListsInv
      /\ iterations \in Nat
  BY StepOfLoop, StepKeepsLedger, StepKeepsStall DEF ToldInv, StallInv
<1>2. SUFFICES CountsTyped' /\ ListsInv'
  BY <1>1 DEF ToldInv
<1>3. CASE ClientRetry
  BY <1>1, <1>3 DEF ClientRetry, Request, vars, CountsTyped, ListsInv
<1>4. CASE CallFails \/ CallAnswered
  <2>1. iterations' = iterations + 1 /\ CallEnds
    BY <1>1, <1>4, IterationChargesRepeat DEF CallFails, CallAnswered
  <2>2. QED
    BY <1>1, <2>1, CallKeepsLists
<1>5. CASE SessionEnds \/ SessionReturned \/ UNCHANGED sessionVars
  BY <1>1, <1>5 DEF SessionEnds, IterationsExhausted, SessionReturned, Returned, sessionVars,
                    clientVars, vars, CountsTyped, ListsInv
<1>6. QED
  BY <1>3, <1>4, <1>5 DEF SessionNext

LEMMA InitTold == SessionInit => ToldInv
<1>1. SessionInit => LedgerInv
  BY LimitsAssumption
     DEF SessionInit, Init, NewLedger, NewRouting, LedgerInv, LedgerTyped, LedgerHolds
<1>2. SessionInit => StallInv
  BY InitStall DEF SessionInit
<1>3. SessionInit => CountsTyped /\ ListsInv
  BY DEF SessionInit, Init, CountsTyped, ListsInv
<1>4. QED
  BY <1>1, <1>2, <1>3 DEF ToldInv

\* A step is told a count of retries only if it is its own call's, whichever clients are
\* wrapped and whichever models the session changes to (build_session_trace,
\* live_session.rs).
THEOREM StepsToldTrue == SessionSpec => []StepsAreTold
<1>1. ToldInv => StepsAreTold
  BY DEF ToldInv, ListsInv, StepsAreTold, StepRetries
<1>2. ToldInv /\ [SessionNext]_sessionVars => ToldInv'
  BY StepKeepsTold
<1>3. QED
  BY InitTold, <1>1, <1>2, PTL DEF SessionSpec

-----------------------------------------------------------------------------
\* What a call adds to the two counts.
LEMMA CallKeepsTotal ==
    ASSUME TotalInv, CallFails \/ CallAnswered
    PROVE  TotalIsTold' /\ attempt' = 0
<1>1. /\ LedgerInv /\ StallInv
      /\ attempt \in Nat /\ repeats \in Nat /\ metrics.total \in Nat
      /\ ledger.attempts \in Nat
  BY DEF TotalInv, ToldInv, CountsTyped, LedgerInv, LedgerTyped
<1>2. ledger'.attempts = ledger.attempts + (IF LoopRepeats' THEN 1 ELSE 0)
  BY <1>1, IterationChargesRepeat
<1>3. CallEnds
  BY DEF CallFails, CallAnswered
<1>4. metrics'.total = metrics.total + attempt
  <2>1. CASE routing.active = Handle
    BY <1>3, <2>1 DEF CallEnds, Recorded
  <2>2. CASE routing.active # Handle
    <3>1. attempt = 0
      BY <1>1, <2>2 DEF TotalInv
    <3>2. QED
      BY <1>1, <1>3, <2>2, <3>1 DEF CallEnds, Recorded
  <2>3. QED
    BY <2>1, <2>2
<1>5. /\ attempt' = 0
      /\ repeats' = repeats + (IF attempt > 0 \/ LoopRepeats THEN 1 ELSE 0)
  BY <1>1, <1>3 DEF CallEnds, Request
<1>6. metrics.total + ledger.attempts + attempt
        = repeats + (IF attempt > 0 \/ LoopRepeats THEN 1 ELSE 0)
  BY DEF TotalInv, TotalIsTold, TotalRetries
<1> DEFINE before == IF attempt > 0 \/ LoopRepeats THEN 1 ELSE 0
           after == IF LoopRepeats' THEN 1 ELSE 0
<1>7. before \in Nat /\ after \in Nat
  OBVIOUS
<1> HIDE DEF before, after
<1>8. metrics'.total + ledger'.attempts + 0 = repeats' + after
  BY <1>1, <1>2, <1>4, <1>5, <1>6, <1>7 DEF before, after
<1>9. QED
  BY <1>5, <1>8 DEF TotalIsTold, TotalRetries, after

LEMMA StepKeepsTotal ==
    ASSUME TotalInv, [SessionNext]_sessionVars
    PROVE  TotalInv'
<1>1. ToldInv' /\ Wrapped = {Handle}
  BY StepKeepsTold DEF TotalInv
<1>2. SUFFICES (attempt' > 0 => routing'.active \in Wrapped) /\ TotalIsTold'
  BY <1>1 DEF TotalInv
<1>3. CASE ClientRetry
  <2>1. /\ attempt \in Nat /\ repeats \in Nat /\ metrics.total \in Nat /\ ledger.attempts \in Nat
    BY DEF TotalInv, ToldInv, CountsTyped, LedgerInv, LedgerTyped
  <2>2. /\ attempt' = attempt + 1 /\ attempt' > 0
        /\ repeats' = repeats + (IF attempt > 0 \/ LoopRepeats THEN 1 ELSE 0)
        /\ metrics' = metrics /\ ledger' = ledger /\ routing' = routing
        /\ routing.active \in Wrapped
    BY <1>3, <2>1 DEF ClientRetry, Request, vars
  <2>3. TotalIsTold
    BY DEF TotalInv
  <2>4. metrics.total + ledger.attempts + attempt
          = repeats + (IF attempt > 0 \/ LoopRepeats THEN 1 ELSE 0)
    BY <2>3 DEF TotalIsTold, TotalRetries
  <2>5. metrics.total + ledger.attempts + (attempt + 1) = repeats' + 1
    BY <2>1, <2>2, <2>4
  <2>6. QED
    BY <2>2, <2>5 DEF TotalIsTold, TotalRetries
<1>4. CASE CallFails \/ CallAnswered
  BY <1>4, CallKeepsTotal
<1>5. CASE SessionEnds \/ SessionReturned \/ UNCHANGED sessionVars
  BY <1>5 DEF SessionEnds, IterationsExhausted, SessionReturned, Returned, sessionVars,
              clientVars, vars, TotalInv, TotalIsTold, TotalRetries, LoopRepeats
<1>6. QED
  BY <1>3, <1>4, <1>5 DEF SessionNext

\* With no client wrapped but the one whose counts the session is given, the trace
\* counts every repeated request once, whichever of the two budgets it was of
\* (build_session_trace over RetryMetricsState and the loop's ledger).
THEOREM RetriesToldTrue == Wrapped = {Handle} /\ SessionSpec => []RetriesAreTold
<1>1. Wrapped = {Handle} /\ SessionInit => TotalInv
  BY InitTold
     DEF SessionInit, Init, NewLedger, Report, TotalInv, TotalIsTold, TotalRetries, LoopRepeats
<1>2. TotalInv /\ [SessionNext]_sessionVars => TotalInv'
  BY StepKeepsTotal
<1>3. TotalInv => RetriesAreTold
  BY DEF TotalInv, ToldInv, ListsInv, StepsAreTold, StepRetries, RetriesAreTold
<1>4. QED
  BY <1>1, <1>2, <1>3, PTL DEF SessionSpec

-----------------------------------------------------------------------------
\* The clients that retry below the loop change nothing about the loop: a live session
\* is a session of AgentLoop, and everything proved of that holds of it.
THEOREM SessionIsLoop == SessionSpec => Spec
<1>1. SessionInit => Init
  BY DEF SessionInit
<1>2. [SessionNext]_sessionVars => [Next]_vars
  BY StepOfLoop
<1>3. QED
  BY <1>1, <1>2, PTL DEF SessionSpec, Spec

\* The recovery budget, the truth of "restored", what earns a stall or a stop, and the
\* direction of every change of models, for a live session.
THEOREM SessionKeepsLoop ==
    SessionSpec => [](LedgerHolds /\ RestoredIsTrue /\ StallIsEarned /\ StopsOnlyWhenSpent)
                    /\ RoutesForward
BY SessionIsLoop, LedgerKept, RestoredIsEarned, StallsAreEarned, StopsAreSpent,
   ModelsGoForward, PTL
=============================================================================
