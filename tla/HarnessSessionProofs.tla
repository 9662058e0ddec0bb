------------------------ MODULE HarnessSessionProofs ------------------------
(***************************************************************************)
(* What holds of HarnessSession, for every specification, artifact, batch, *)
(* set of tools and number of iterations, and of the construction that     *)
(* starts one (AutonomousConstruction).                                    *)
(*                                                                         *)
(* CompletedIsPass is not inductive: Finish reads the last verdict of each *)
(* criterion, the property all of the evidence.  EvidenceInv ties the two: *)
(* a criterion last observed to pass still passes on everything that was   *)
(* gathered.  That needs, in turn, that only the first criterion of a kind *)
(* is ever observed, for the others would keep a verdict their tool has    *)
(* overtaken.                                                              *)
(***************************************************************************)
EXTENDS AutonomousConstruction, SequenceTheorems, WellFoundedInduction, TLAPS

Labels == {"tool"} \cup {StatusLabel[tool] : tool \in Gates}

Items == [label : Labels, detail : Tools \cup {"ok", "error"}]

Outcomes == {"ok", "error", "none"}

KnownKinds == Kinds \ {"unknown"}

-----------------------------------------------------------------------------
(***************************************************************************)
(* Kinds, tools and labels.                                                *)
(***************************************************************************)
LEMMA KindsAre == KnownKinds = {"compile", "validate", "run_tests", "clippy", "check_format"}
<1>1. DOMAIN ToolOf = {"compile", "validate", "run_tests", "clippy", "check_format"}
  BY DEF ToolOf
<1>2. "unknown" \notin DOMAIN ToolOf
  BY <1>1
<1>3. KnownKinds = DOMAIN ToolOf
  BY <1>2 DEF KnownKinds, Kinds
<1>4. QED
  BY <1>1, <1>3

LEMMA GatesAre == Gates = {"compile", "validate", "run_tests", "run_clippy", "check_format"}
BY DEF Gates, ToolOf

LEMMA ToolsOfKinds == \A kind \in KnownKinds : ToolOf[kind] \in Gates
BY KindsAre, GatesAre DEF ToolOf

LEMMA LabelsAre ==
    \A tool \in Gates :
        StatusLabel[tool] = IF tool = "compile" THEN "compile_status"
                            ELSE IF tool = "validate" THEN "validate_status"
                            ELSE "exit_status"
BY DEF StatusLabel

LEMMA LabelFacts ==
    /\ \A tool \in Gates : StatusLabel[tool] # "tool"
    /\ \A tool, other \in Gates :
          tool # other /\ StatusLabel[tool] = StatusLabel[other] =>
              StatusLabel[tool] = "exit_status"
<1>1. \A tool \in Gates : StatusLabel[tool] # "tool"
  BY LabelsAre
<1>2. ASSUME NEW tool \in Gates, NEW other \in Gates,
             tool # other, StatusLabel[tool] = StatusLabel[other]
      PROVE  StatusLabel[tool] = "exit_status"
  BY <1>2, LabelsAre
<1>3. QED
  BY <1>1, <1>2

LEMMA RunsAreEvidence ==
    ASSUME NEW tool \in Tools, NEW outcome \in Outcomes, outcome # "none" => tool \in Gates
    PROVE  /\ RunEvidence(tool, outcome) \in Seq(Items)
           /\ outcome = "none" => RunEvidence(tool, outcome) = <<Item("tool", tool)>>
           /\ outcome # "none" =>
                 RunEvidence(tool, outcome) =
                     <<Item("tool", tool), Item(StatusLabel[tool], outcome)>>
<1>1. Item("tool", tool) \in Items
  BY DEF Item, Items, Labels
<1>2. CASE outcome = "none"
  BY <1>1, <1>2 DEF RunEvidence
<1>3. CASE outcome # "none"
  <2>1. Item(StatusLabel[tool], outcome) \in Items
    BY <1>3 DEF Item, Items, Labels, Outcomes
  <2>2. RunEvidence(tool, outcome) = <<Item("tool", tool), Item(StatusLabel[tool], outcome)>>
    BY <1>3 DEF RunEvidence
  <2>3. QED
    BY <1>1, <1>3, <2>1, <2>2
<1>4. QED
  BY <1>2, <1>3

-----------------------------------------------------------------------------
(***************************************************************************)
(* What the evidence of a run makes of a verdict.                          *)
(***************************************************************************)
\* An outcome is only ever stated inside a run.
Sound(trail) ==
    /\ trail \in Seq(Items)
    /\ \A tool \in Gates : Statuses(tool, trail) # {} => Present(tool, trail)

Stated(outcome) == outcome \in {"ok", "error"}

\* The outcomes of a tool after a run of this or another one.
LEMMA RunAppended ==
    ASSUME NEW trail \in Seq(Items), NEW tool \in Tools, NEW outcome \in Outcomes,
           outcome # "none" => tool \in Gates, NEW mine \in Gates
    PROVE  LET n == Len(trail)
               longer == trail \o RunEvidence(tool, outcome)
           IN /\ n \in Nat /\ longer \in Seq(Items)
              /\ DOMAIN trail = 1..n
              /\ DOMAIN longer = 1..(n + IF Stated(outcome) THEN 2 ELSE 1)
              /\ \A i \in 1..n : longer[i] = trail[i]
              /\ longer[n + 1] = Item("tool", tool)
              /\ Stated(outcome) => longer[n + 2] = Item(StatusLabel[tool], outcome)
              /\ \A i \in 1..n : BelongsTo(mine, longer, i) <=> BelongsTo(mine, trail, i)
              /\ Statuses(mine, longer) =
                    Statuses(mine, trail) \cup
                        (IF tool = mine /\ Stated(outcome) THEN {n + 2} ELSE {})
              /\ Present(mine, longer) <=> Present(mine, trail) \/ tool = mine
<1> DEFINE n == Len(trail)
           run == RunEvidence(tool, outcome)
           longer == trail \o run
           last == n + 2
<1>1. /\ n \in Nat /\ longer \in Seq(Items)
      /\ DOMAIN trail = 1..n
      /\ DOMAIN longer = 1..(n + IF Stated(outcome) THEN 2 ELSE 1)
      /\ \A i \in 1..n : longer[i] = trail[i]
      /\ longer[n + 1] = Item("tool", tool)
      /\ Stated(outcome) => longer[last] = Item(StatusLabel[tool], outcome)
  <2>1. run \in Seq(Items)
    BY RunsAreEvidence
  <2>2. CASE outcome = "none"
    <3>1. run = <<Item("tool", tool)>> /\ ~Stated(outcome)
      BY <2>2, RunsAreEvidence DEF Stated
    <3> HIDE DEF run
    <3>2. QED
      BY <2>1, <3>1
  <2>3. CASE outcome # "none"
    <3>1. run = <<Item("tool", tool), Item(StatusLabel[tool], outcome)>> /\ Stated(outcome)
      BY <2>3, RunsAreEvidence DEF Stated, Outcomes
    <3> HIDE DEF run
    <3>2. QED
      BY <2>1, <3>1
  <2>4. QED
    BY <2>2, <2>3
<1> HIDE DEF longer, n, run
<1>2. \A i \in 1..n : BelongsTo(mine, longer, i) <=> BelongsTo(mine, trail, i)
  BY <1>1, SMTT(30) DEF BelongsTo
<1>3. longer[n + 1].label # StatusLabel[mine]
  BY <1>1, LabelFacts DEF Item
<1>4. \A i \in 1..n : i \in Statuses(mine, longer) <=> i \in Statuses(mine, trail)
  BY <1>1, <1>2 DEF Statuses
<1>5. Stated(outcome) => tool \in Gates
  BY DEF Stated
<1>6. ASSUME Stated(outcome)
      PROVE  last \in Statuses(mine, longer) <=> tool = mine
  <2>1. longer[last] = Item(StatusLabel[tool], outcome) /\ longer[last].label = StatusLabel[tool]
    BY <1>1, <1>6 DEF Item
  <2>2. CASE tool = mine
    <3>1. n + 1 \in 1..last /\ longer[n + 1] = Item("tool", mine)
      BY <1>1, <2>2
    <3>2. \A k \in (n + 1 + 1)..last : longer[k].label # "tool"
      BY <1>1, <1>5, <1>6, <2>1, LabelFacts
    <3> HIDE DEF last
    <3>3. BelongsTo(mine, longer, last)
      BY <3>1, <3>2, Zenon DEF BelongsTo
    <3>4. last \in DOMAIN longer
      BY <1>1, <1>6 DEF last
    <3>5. QED
      BY <2>1, <2>2, <3>3, <3>4 DEF Statuses
  <2>3. CASE tool # mine
    <3>1. SUFFICES ASSUME NEW j \in 1..last, longer[j] = Item("tool", mine),
                          \A k \in (j + 1)..last : longer[k].label # "tool",
                          StatusLabel[tool] = StatusLabel[mine]
                   PROVE  FALSE
      BY <1>5, <1>6, <2>1, <2>3, LabelFacts DEF Statuses, BelongsTo
    <3>2. j # last
      BY <1>5, <1>6, <2>1, <3>1, LabelFacts DEF Item
    <3>3. j # n + 1
      BY <1>1, <2>3, <3>1 DEF Item
    <3>4. n + 1 \in (j + 1)..last
      BY <1>1, <3>2, <3>3
    <3>5. QED
      BY <1>1, <3>1, <3>4 DEF Item
  <2>4. QED
    BY <2>2, <2>3
<1>7. Statuses(mine, longer) =
        Statuses(mine, trail) \cup (IF tool = mine /\ Stated(outcome) THEN {last} ELSE {})
  <2>1. Statuses(mine, trail) \subseteq 1..n /\ Statuses(mine, longer) \subseteq DOMAIN longer
    BY <1>1 DEF Statuses
  <2>2. n + 1 \notin Statuses(mine, longer)
    BY <1>3 DEF Statuses
  <2>3. QED
    BY <1>1, <1>4, <1>6, <2>1, <2>2
<1>8. Present(mine, longer) <=> Present(mine, trail) \/ tool = mine
  <2>1. Stated(outcome) => longer[last] # Item("tool", mine)
    BY <1>1, <1>5, LabelFacts DEF Item
  <2>2. longer[n + 1] = Item("tool", mine) <=> tool = mine
    BY <1>1 DEF Item
  <2>3. QED
    BY <1>1, <2>1, <2>2 DEF Present
<1>9. QED
  BY <1>1, <1>2, <1>7, <1>8 DEF longer, n, run

\* The verdict of a criterion after a run: the run's own if it is a run of the criterion's
\* tool that came to an outcome, and what it was before if not.
LEMMA RunDecides ==
    ASSUME NEW trail, Sound(trail), NEW kind \in KnownKinds,
           NEW tool \in Tools, NEW outcome \in Outcomes, outcome # "none" => tool \in Gates
    PROVE  LET longer == trail \o RunEvidence(tool, outcome)
           IN /\ Sound(longer)
              /\ Verdict(kind, longer) =
                    IF tool = ToolOf[kind] /\ Stated(outcome)
                    THEN IF outcome = "ok" THEN "pass" ELSE "fail"
                    ELSE Verdict(kind, trail)
<1> DEFINE n == Len(trail)
           mine == ToolOf[kind]
           longer == trail \o RunEvidence(tool, outcome)
           before == Statuses(mine, trail)
           after == Statuses(mine, longer)
<1>1. mine \in Gates /\ kind # "unknown" /\ trail \in Seq(Items)
  BY ToolsOfKinds DEF KnownKinds, Sound
<1>2. Sound(longer)
  <2>1. ASSUME NEW other \in Gates, Statuses(other, longer) # {}
        PROVE  Present(other, longer)
    <3>1. Statuses(other, trail) # {} \/ tool = other
      BY <1>1, <2>1, RunAppended
    <3>2. QED
      BY <1>1, <3>1, RunAppended DEF Sound
  <2>2. longer \in Seq(Items)
    BY <1>1, RunAppended
  <2>3. QED
    BY <2>1, <2>2 DEF Sound
<1>3. /\ n \in Nat /\ before \subseteq 1..n
      /\ \A i \in 1..n : longer[i] = trail[i]
      /\ after = before \cup (IF tool = mine /\ Stated(outcome) THEN {n + 2} ELSE {})
      /\ Stated(outcome) => longer[n + 2] = Item(StatusLabel[tool], outcome)
  BY <1>1, RunAppended DEF Statuses
<1>4. /\ before # {} => Present(mine, trail)
      /\ after # {} => Present(mine, longer)
  BY <1>1, <1>2 DEF Sound
<1> HIDE DEF n, mine, longer, before, after
<1>5. Verdict(kind, trail) =
        IF before = {} THEN "insufficient_evidence"
        ELSE IF \E i \in before : IsDecisive(i, before) /\ trail[i].detail = "ok"
        THEN "pass" ELSE "fail"
  BY <1>1, <1>4 DEF Verdict, before, mine
<1>6. Verdict(kind, longer) =
        IF after = {} THEN "insufficient_evidence"
        ELSE IF \E i \in after : IsDecisive(i, after) /\ longer[i].detail = "ok"
        THEN "pass" ELSE "fail"
  BY <1>1, <1>4 DEF Verdict, after, mine
<1>7. CASE tool = mine /\ Stated(outcome)
  <2>1. after = before \cup {n + 2} /\ longer[n + 2].detail = outcome
    BY <1>3, <1>7 DEF Item
  <2>2. \A i \in after : IsDecisive(i, after) <=> i = n + 2
    BY <1>3, <2>1 DEF IsDecisive
  <2>3. Verdict(kind, longer) = IF outcome = "ok" THEN "pass" ELSE "fail"
    BY <1>6, <2>1, <2>2
  <2>4. QED
    BY <1>2, <1>7, <2>3 DEF mine, longer
<1>8. CASE ~(tool = mine /\ Stated(outcome))
  <2>1. after = before /\ \A i \in before : longer[i] = trail[i]
    BY <1>3, <1>8
  <2>2. Verdict(kind, longer) = Verdict(kind, trail)
    BY <1>5, <1>6, <2>1
  <2>3. QED
    BY <1>2, <1>8, <2>2 DEF mine, longer
<1>9. QED
  BY <1>7, <1>8

LEMMA NothingIsSound ==
    /\ Sound(<<>>)
    /\ \A kind \in KnownKinds : Verdict(kind, <<>>) = "insufficient_evidence"
<1>1. <<>> \in Seq(Items) /\ DOMAIN <<>> = {}
  OBVIOUS
<1>2. \A tool : Statuses(tool, <<>>) = {}
  BY <1>1 DEF Statuses
<1>3. QED
  BY <1>1, <1>2 DEF Sound, Verdict, KnownKinds

\* The verdict of a run on its own.
LEMMA RunAlone ==
    ASSUME NEW kind \in KnownKinds, NEW outcome \in Outcomes
    PROVE  Verdict(kind, RunEvidence(ToolOf[kind], outcome)) =
               IF outcome = "ok" THEN "pass"
               ELSE IF outcome = "error" THEN "fail" ELSE "insufficient_evidence"
<1> DEFINE tool == ToolOf[kind]
           run == RunEvidence(tool, outcome)
<1>1. tool \in Gates /\ tool \in Tools
  BY ToolsOfKinds DEF Tools
<1>2. run \in Seq(Items)
  BY <1>1, RunsAreEvidence
<1>3. <<>> \o run = run
  <2> HIDE DEF run
  <2>1. QED
    BY <1>2
<1>4. \A trail : Sound(trail) /\ Verdict(kind, trail) = "insufficient_evidence" =>
         Verdict(kind, trail \o run) =
            IF Stated(outcome) THEN IF outcome = "ok" THEN "pass" ELSE "fail"
            ELSE "insufficient_evidence"
  BY <1>1, RunDecides
<1>5. Verdict(kind, run) =
        IF Stated(outcome) THEN IF outcome = "ok" THEN "pass" ELSE "fail"
        ELSE "insufficient_evidence"
  <2> HIDE DEF run
  <2>1. QED
    BY <1>3, <1>4, NothingIsSound
<1>6. QED
  BY <1>5 DEF Stated, Outcomes

-----------------------------------------------------------------------------
(***************************************************************************)
(* The inductive invariant.                                                *)
(***************************************************************************)
ObservedTyped ==
    /\ criteria \in Specifications
    /\ Sound(evidence)
    /\ DOMAIN observed = CriteriaOf(criteria)

\* Only the first criterion of a kind is ever observed.
FirstObserved ==
    \A i \in DOMAIN criteria :
        observed[criteria[i].id] # "none" =>
            criteria[i].kind \in KnownKinds /\ i \in Evaluated(criteria, ToolOf[criteria[i].kind])

\* What was last observed to pass passes on all of the evidence.
PassesHold ==
    \A i \in DOMAIN criteria :
        observed[criteria[i].id] = "pass" => Verdict(criteria[i].kind, evidence) = "pass"

EvidenceInv == ObservedTyped /\ FirstObserved /\ PassesHold /\ CompletedIsPass

\* The steps, as far as the evidence is concerned.
Idle ==
    /\ UNCHANGED <<criteria, evidence, context, observed>>
    /\ status' = status \/ status' # "completed" \/ FinishAllowed

Ran ==
    /\ UNCHANGED criteria
    /\ status' # "completed"
    /\ \E tool \in Tools, outcome \in Outcomes :
          /\ outcome # "none" => tool \in Gates
          /\ Dispatch(tool, outcome)

Missed ==
    /\ UNCHANGED criteria
    /\ status' # "completed"
    /\ \E tool \in Tools : UnknownTool(tool)

LEMMA RunIs ==
    ASSUME NEW tool \in Tools, Run(tool), UNCHANGED criteria
    PROVE  Ran \/ Missed
<1>1. CASE UnknownTool(tool)
  BY <1>1 DEF Missed, UnknownTool
<1>2. CASE \E outcome \in Results(tool) : Dispatch(tool, outcome)
  <2>1. PICK outcome \in Results(tool) : Dispatch(tool, outcome)
    BY <1>2
  <2>2. outcome \in Outcomes /\ (outcome # "none" => tool \in Gates)
    BY GatesAre DEF Results, Outcomes
  <2>3. status' # "completed"
    BY <2>1 DEF Dispatch, Continue
  <2>4. QED
    BY <2>1, <2>2, <2>3 DEF Ran
<1>3. QED
  BY <1>1, <1>2 DEF Run

LEMMA RefusalIsIdle == Refuse => Idle
BY DEF Refuse, Iterate, LeaveNoEvidence, Continue, Idle

LEMMA StepIs ==
    ASSUME [Next]_vars
    PROVE  Idle \/ Ran \/ Missed
<1>1. CASE UNCHANGED vars
  BY <1>1 DEF vars, Idle
<1>2. CASE Compile
  BY <1>2, RunIs, RefusalIsIdle, GatesAre DEF Compile, Iterate, Tools
<1>3. CASE Validate
  BY <1>3, RunIs, RefusalIsIdle, GatesAre DEF Validate, Iterate, Tools
<1>4. CASE RunCargo
  BY <1>4, RunIs, RefusalIsIdle, GatesAre DEF RunCargo, Iterate, Tools
<1>5. CASE RepairDiagnostic
  BY <1>5, RunIs, RefusalIsIdle DEF RepairDiagnostic, Iterate, Tools
<1>6. CASE ApplyCorrections
  BY <1>6, RunIs, RefusalIsIdle DEF ApplyCorrections, Mutate, Iterate, Tools, Mutations
<1>7. CASE ApplyFileOperations
  BY <1>7, RunIs, RefusalIsIdle DEF ApplyFileOperations, Mutate, Iterate, Tools, Mutations
<1>8. CASE InvokeTool
  BY <1>8, RunIs, RefusalIsIdle, SessionAssumption DEF InvokeTool, Iterate
<1>9. CASE NoOp
  BY <1>9 DEF NoOp, Iterate, LeaveNoEvidence, Continue, Idle
<1>10. CASE Finish
  BY <1>10, RefusalIsIdle DEF Finish, Iterate, LeaveNoEvidence, Idle
<1>11. CASE ProposalFails
  BY <1>11 DEF ProposalFails, Iterate, LeaveNoEvidence, Idle
<1>12. CASE IterationsExhausted
  BY <1>12 DEF IterationsExhausted, LeaveNoEvidence, Idle
<1>13. CASE Returned
  BY <1>13 DEF Returned, vars, Idle
<1>14. QED
  BY <1>1, <1>2, <1>3, <1>4, <1>5, <1>6, <1>7, <1>8, <1>9, <1>10, <1>11, <1>12,
     <1>13 DEF Next

-----------------------------------------------------------------------------
LEMMA SpecificationFacts ==
    ASSUME criteria \in Specifications
    PROVE  /\ criteria \in Seq([id : CriteriaOf(criteria), kind : Kinds])
           /\ \A i \in DOMAIN criteria :
                 criteria[i].id \in CriteriaOf(criteria) /\ criteria[i].kind \in Kinds
           /\ \A i, j \in DOMAIN criteria : criteria[i].id = criteria[j].id => i = j
<1>1. /\ criteria \in Seq([id : CriteriaOf(criteria), kind : Kinds])
      /\ \A i, j \in DOMAIN criteria : criteria[i].id = criteria[j].id => i = j
  BY SessionAssumption
<1> DEFINE Criteria == [id : CriteriaOf(criteria), kind : Kinds]
<1>2. criteria \in Seq(Criteria)
  BY <1>1
<1>3. \A i \in DOMAIN criteria : criteria[i] \in Criteria
  <2> HIDE DEF Criteria
  <2>1. QED
    BY <1>2
<1>4. QED
  BY <1>1, <1>3

\* A permitted Finish means that the evidence satisfies the specification.
LEMMA FinishIsEarned ==
    ASSUME ObservedTyped, PassesHold, FinishAllowed
    PROVE  SpecificationVerdict(criteria, evidence) = "pass"
<1> DEFINE verdicts == {Verdict(criteria[i].kind, evidence) : i \in DOMAIN criteria}
<1>1. \A i \in DOMAIN criteria : Verdict(criteria[i].kind, evidence) = "pass"
  BY DEF FinishAllowed, PassesHold
<1>2. DOMAIN criteria # {}
  BY SpecificationFacts DEF ObservedTyped, FinishAllowed
<1>3. verdicts = {"pass"}
  BY <1>1, <1>2
<1>4. QED
  BY <1>3 DEF SpecificationVerdict

LEMMA IdleKeeps ==
    ASSUME EvidenceInv, Idle
    PROVE  EvidenceInv'
<1>1. ObservedTyped' /\ FirstObserved' /\ PassesHold'
  BY DEF EvidenceInv, Idle, ObservedTyped, FirstObserved, PassesHold
<1>2. CompletedIsPass'
  BY FinishIsEarned DEF EvidenceInv, Idle, CompletedIsPass
<1>3. QED
  BY <1>1, <1>2 DEF EvidenceInv

\* A tool that is not there leaves the evidence of a run that broke off.
LEMMA MissedIs ==
    ASSUME ObservedTyped, Missed
    PROVE  \E tool \in Tools :
              /\ evidence' = evidence \o RunEvidence(tool, "none")
              /\ UNCHANGED <<criteria, context, observed>>
<1>1. PICK tool \in Tools : UnknownTool(tool)
  BY DEF Missed
<1>2. evidence \in Seq(Items) /\ Item("tool", tool) \in Items
  BY DEF ObservedTyped, Sound, Item, Items, Labels
<1>3. evidence' = evidence \o <<Item("tool", tool)>>
  BY <1>1, <1>2 DEF UnknownTool
<1>4. RunEvidence(tool, "none") = <<Item("tool", tool)>>
  BY DEF RunEvidence
<1>5. UNCHANGED <<criteria, context, observed>>
  BY <1>1 DEF UnknownTool, Missed
<1>6. QED
  BY <1>3, <1>4, <1>5

LEMMA MissedKeeps ==
    ASSUME EvidenceInv, Missed
    PROVE  EvidenceInv'
<1>1. PICK tool \in Tools : /\ evidence' = evidence \o RunEvidence(tool, "none")
                          /\ UNCHANGED <<criteria, observed>>
  BY MissedIs DEF EvidenceInv
<1>2. Sound(evidence)
  BY DEF EvidenceInv, ObservedTyped
<1>3. /\ Sound(evidence')
      /\ \A kind \in KnownKinds : Verdict(kind, evidence') = Verdict(kind, evidence)
  <2>1. "none" \in Outcomes /\ ~Stated("none")
    BY DEF Outcomes, Stated
  <2>2. KnownKinds # {}
    BY KindsAre
  <2>3. QED
    BY <1>1, <1>2, <2>1, <2>2, RunDecides
<1>4. ObservedTyped' /\ FirstObserved' /\ CompletedIsPass'
  <2>1. ObservedTyped'
    BY <1>1, <1>3 DEF EvidenceInv, ObservedTyped
  <2>2. QED
    BY <1>1, <2>1 DEF EvidenceInv, Missed, FirstObserved, CompletedIsPass
<1>5. PassesHold'
  <2>1. SUFFICES ASSUME NEW i \in DOMAIN criteria, observed[criteria[i].id] = "pass"
                 PROVE  Verdict(criteria[i].kind, evidence') = "pass"
    BY <1>1 DEF PassesHold
  <2>2. criteria[i].kind \in KnownKinds /\ Verdict(criteria[i].kind, evidence) = "pass"
    BY <2>1 DEF EvidenceInv, FirstObserved, PassesHold
  <2>3. QED
    BY <1>3, <2>2
<1>6. QED
  BY <1>4, <1>5 DEF EvidenceInv

\* The criteria a run is evaluated for get its verdict, the others keep theirs.
LEMMA ObservedAfter ==
    ASSUME criteria \in Specifications, NEW tool, NEW outcome, Dispatch(tool, outcome)
    PROVE  /\ DOMAIN observed' = CriteriaOf(criteria)
           /\ \A i \in Evaluated(criteria, tool) :
                 /\ i \in DOMAIN criteria
                 /\ criteria[i].kind \in KnownKinds /\ ToolOf[criteria[i].kind] = tool
           /\ \A i \in DOMAIN criteria :
                 observed'[criteria[i].id] =
                     IF i \in Evaluated(criteria, tool)
                     THEN Verdict(criteria[i].kind, RunEvidence(tool, outcome))
                     ELSE observed[criteria[i].id]
<1> DEFINE Id(i) == criteria[i].id
           Kind(i) == criteria[i].kind
           judged == Evaluated(criteria, tool)
           run == RunEvidence(tool, outcome)
<1>1. \A i \in DOMAIN criteria :
         Id(i) \in CriteriaOf(criteria) /\ Kind(i) \in Kinds
  BY SpecificationFacts
<1>2. \A i \in judged : i \in DOMAIN criteria /\ Kind(i) \in KnownKinds /\ ToolOf[Kind(i)] = tool
  BY <1>1 DEF Evaluated, KnownKinds
<1>3. ASSUME NEW i \in judged
      PROVE  observed'[Id(i)] = Verdict(Kind(i), run)
  <2>1. \A j \in judged : Id(j) = Id(i) => j = i
    BY <1>2, SpecificationFacts
  <2>2. (CHOOSE j \in judged : Id(j) = Id(i)) = i
    BY <1>3, <2>1
  <2>3. QED
    BY <1>1, <1>2, <1>3, <2>2 DEF Dispatch
<1>4. ASSUME NEW i \in DOMAIN criteria, i \notin judged
      PROVE  observed'[Id(i)] = observed[Id(i)]
  <2>1. ~\E j \in judged : Id(j) = Id(i)
    BY <1>2, <1>4, SpecificationFacts
  <2>2. QED
    BY <1>1, <1>4, <2>1 DEF Dispatch
<1>5. QED
  BY <1>2, <1>3, <1>4 DEF Dispatch

LEMMA RanKeeps ==
    ASSUME EvidenceInv, Ran
    PROVE  EvidenceInv'
<1> DEFINE Id(i) == criteria[i].id
           Kind(i) == criteria[i].kind
<1>1. PICK tool \in Tools, outcome \in Outcomes :
         (outcome # "none" => tool \in Gates) /\ Dispatch(tool, outcome)
  BY DEF Ran
<1> DEFINE run == RunEvidence(tool, outcome)
           judged == Evaluated(criteria, tool)
<1>2. /\ criteria \in Specifications
      /\ UNCHANGED criteria
      /\ Sound(evidence)
      /\ evidence' = evidence \o run
  BY <1>1 DEF EvidenceInv, ObservedTyped, Ran, Dispatch, HistoryWith
<1>3. /\ \A i \in judged : i \in DOMAIN criteria /\ Kind(i) \in KnownKinds /\ ToolOf[Kind(i)] = tool
      /\ \A i \in DOMAIN criteria :
            observed'[Id(i)] = IF i \in judged THEN Verdict(Kind(i), run) ELSE observed[Id(i)]
      /\ DOMAIN observed' = CriteriaOf(criteria)
  BY <1>1, <1>2, ObservedAfter
<1>4. /\ Sound(evidence')
      /\ \A kind \in KnownKinds :
            Verdict(kind, evidence') = IF tool = ToolOf[kind] /\ Stated(outcome)
                                       THEN IF outcome = "ok" THEN "pass" ELSE "fail"
                                       ELSE Verdict(kind, evidence)
  <2>1. KnownKinds # {}
    BY KindsAre
  <2>2. QED
    BY <1>1, <1>2, <2>1, RunDecides
<1>5. ObservedTyped'
  BY <1>2, <1>3, <1>4 DEF ObservedTyped
<1>6. FirstObserved'
  <2>1. SUFFICES ASSUME NEW i \in DOMAIN criteria, observed'[Id(i)] # "none"
                 PROVE  Kind(i) \in KnownKinds /\ i \in Evaluated(criteria, ToolOf[Kind(i)])
    BY <1>2 DEF FirstObserved
  <2>2. CASE i \in judged
    BY <1>3, <2>2
  <2>3. CASE i \notin judged
    BY <1>3, <2>1, <2>3 DEF EvidenceInv, FirstObserved
  <2>4. QED
    BY <2>2, <2>3
<1>7. PassesHold'
  <2>1. SUFFICES ASSUME NEW i \in DOMAIN criteria, observed'[Id(i)] = "pass"
                 PROVE  Verdict(Kind(i), evidence') = "pass"
    BY <1>2 DEF PassesHold
  <2>2. CASE i \in judged
    <3>1. Kind(i) \in KnownKinds /\ ToolOf[Kind(i)] = tool /\ Verdict(Kind(i), run) = "pass"
      BY <1>3, <2>1, <2>2
    <3>2. outcome = "ok"
      BY <3>1, RunAlone
    <3>3. QED
      BY <1>4, <3>1, <3>2 DEF Stated
  <2>3. CASE i \notin judged
    <3>1. /\ Kind(i) \in KnownKinds
          /\ i \in Evaluated(criteria, ToolOf[Kind(i)])
          /\ Verdict(Kind(i), evidence) = "pass"
      BY <1>3, <2>1, <2>3 DEF EvidenceInv, FirstObserved, PassesHold
    <3>2. tool # ToolOf[Kind(i)]
      BY <2>3, <3>1
    <3>3. QED
      BY <1>4, <3>1, <3>2
  <2>4. QED
    BY <2>2, <2>3
<1>8. CompletedIsPass'
  BY DEF Ran, CompletedIsPass
<1>9. QED
  BY <1>5, <1>6, <1>7, <1>8 DEF EvidenceInv

-----------------------------------------------------------------------------
LEMMA SessionStarts ==
    ASSUME Init
    PROVE  EvidenceInv
<1>1. criteria \in Specifications /\ status = "running"
  BY DEF Init
<1>2. observed = [id \in CriteriaOf(criteria) |-> "none"] /\ evidence = <<>>
  BY DEF Init
<1>3. \A i \in DOMAIN criteria : observed[criteria[i].id] = "none"
  BY <1>1, <1>2, SpecificationFacts
<1>4. QED
  BY <1>1, <1>2, <1>3, NothingIsSound
     DEF EvidenceInv, ObservedTyped, FirstObserved, PassesHold, CompletedIsPass

LEMMA EvidenceKept == Spec => []EvidenceInv
<1>1. Init => EvidenceInv
  BY SessionStarts
<1>2. EvidenceInv /\ [Next]_vars => EvidenceInv'
  BY StepIs, IdleKeeps, RanKeeps, MissedKeeps
<1>3. QED
  BY <1>1, <1>2, PTL DEF Spec

\* A session that was allowed to finish has satisfied its specification by all
\* of its evidence (action_policy.rs 218-277 against evaluation_engine.rs).
THEOREM FinishedIsSatisfied == Spec => []CompletedIsPass
<1>1. EvidenceInv => CompletedIsPass
  BY DEF EvidenceInv
<1>2. QED
  BY <1>1, EvidenceKept, PTL

-----------------------------------------------------------------------------
(***************************************************************************)
(* The two trails.                                                         *)
(***************************************************************************)
ViewsInv ==
    /\ Sound(context)
    /\ \A kind \in KnownKinds : Verdict(kind, evidence) = Verdict(kind, context)

LEMMA AppendedOnce ==
    ASSUME NEW a, NEW b
    PROVE  Append(<<>>, a) = <<a>> /\ Append(<<a>>, b) = <<a, b>>
<1> DEFINE S == {a, b}
<1>1. Append(<<>>, a) = <<a>>
  OBVIOUS
<1>2. <<a>> \in Seq(S) /\ Append(<<a>>, b) \in Seq(S) /\ <<a, b>> \in Seq(S)
  OBVIOUS
<1>3. /\ Len(Append(<<a>>, b)) = 2 /\ Len(<<a, b>>) = 2
      /\ Append(<<a>>, b)[1] = a /\ Append(<<a>>, b)[2] = b
      /\ <<a, b>>[1] = a /\ <<a, b>>[2] = b
  BY <1>2
<1>4. \A i \in 1..Len(Append(<<a>>, b)) : Append(<<a>>, b)[i] = <<a, b>>[i]
  BY <1>3
<1>5. Append(<<a>>, b) = <<a, b>>
  BY <1>2, <1>3, <1>4, SeqEqual
<1>6. QED
  BY <1>1, <1>5

\* Of a run, an evaluation quotes everything.
LEMMA RunsAreQuoted ==
    ASSUME NEW kind \in KnownKinds, NEW outcome \in Outcomes
    PROVE  LET run == RunEvidence(ToolOf[kind], outcome) IN Quoted(kind, run) = run
<1> DEFINE tool == ToolOf[kind]
           run == RunEvidence(tool, outcome)
           labels == {"tool", StatusLabel[tool]}
           first == Item("tool", tool)
           second == Item(StatusLabel[tool], outcome)
           Step(f) == [i \in 0..Len(run) |->
                         IF i = 0 THEN <<>>
                         ELSE IF run[i].label \in labels THEN Append(f[i - 1], run[i])
                         ELSE f[i - 1]]
           quoted == CHOOSE f : f = Step(f)
           prefixes == [i \in 0..Len(run) |->
                          IF i = 0 THEN <<>> ELSE IF i = 1 THEN <<first>> ELSE <<first, second>>]
<1>1. tool \in Gates /\ tool \in Tools
  BY ToolsOfKinds DEF Tools
<1>2. first.label \in labels /\ second.label \in labels
  BY DEF Item
<1>3. run = <<first>> \/ run = <<first, second>>
  BY DEF RunEvidence
<1> HIDE DEF run, first, second, labels
<1>4. Append(<<>>, first) = <<first>> /\ Append(<<first>>, second) = <<first, second>>
  BY AppendedOnce
<1> DEFINE n == Len(run)
<1>5. (n = 1 \/ n = 2) /\ run[1] = first /\ (n = 2 => run[2] = second)
  BY <1>3
<1>6. \A i \in 0..n : i = 0 \/ i = 1 \/ (i = 2 /\ n = 2)
  <2> HIDE DEF n
  <2>1. QED
    BY <1>5
<1>7. prefixes = Step(prefixes)
  <2>1. /\ prefixes[0] = <<>> /\ prefixes[1] = <<first>>
        /\ n = 2 => prefixes[2] = <<first, second>>
    BY <1>5
  <2> DEFINE At(i) == IF i = 0 THEN <<>>
                      ELSE IF run[i].label \in labels THEN Append(prefixes[i - 1], run[i])
                      ELSE prefixes[i - 1]
  <2>2. \A i \in 0..n : prefixes[i] = At(i)
    <3> HIDE DEF prefixes
    <3>1. prefixes[0] = At(0)
      BY <2>1
    <3>2. prefixes[1] = At(1)
      BY <1>2, <1>4, <1>5, <2>1
    <3>3. ASSUME n = 2
          PROVE  prefixes[2] = At(2)
      <4>1. run[2].label \in labels /\ prefixes[2] = Append(prefixes[1], run[2])
        BY <1>2, <1>4, <1>5, <2>1, <3>3
      <4>2. 2 - 1 = 1 /\ 2 # 0
        OBVIOUS
      <4>3. QED
        BY <4>1, <4>2, Zenon
    <3> HIDE DEF At
    <3>4. QED
      BY <1>6, <3>1, <3>2, <3>3
  <2>3. prefixes = [i \in 0..n |-> prefixes[i]] /\ Step(prefixes) = [i \in 0..n |-> At(i)]
    OBVIOUS
  <2>4. QED
    BY <2>2, <2>3
<1>8. quoted = Step(quoted)
  <2> HIDE DEF prefixes, Step
  <2>1. QED
    BY <1>7
<1> HIDE DEF quoted
<1>9. quoted[n] = run
  <2>1. \A i \in 0..n :
           quoted[i] = IF i = 0 THEN <<>>
                       ELSE IF run[i].label \in labels THEN Append(quoted[i - 1], run[i])
                       ELSE quoted[i - 1]
    BY <1>8
  <2> HIDE DEF n
  <2>2. 0 \in 0..n /\ 1 \in 0..n /\ (n = 2 => 2 \in 0..n)
    BY <1>5
  <2>3. quoted[0] = <<>>
    BY <2>1, <2>2
  <2>4. quoted[1] = Append(quoted[0], first)
    <3>1. run[1].label \in labels
      BY <1>2, <1>5
    <3>2. 1 - 1 = 0 /\ 1 # 0
      OBVIOUS
    <3>3. quoted[1] = Append(quoted[0], run[1])
      BY <2>1, <2>2, <3>1, <3>2, Zenon
    <3>4. QED
      BY <1>5, <3>3
  <2>5. ASSUME n = 2
        PROVE  quoted[2] = Append(quoted[1], second)
    <3>1. run[2].label \in labels
      BY <1>2, <1>5, <2>5
    <3>2. 2 - 1 = 1 /\ 2 # 0
      OBVIOUS
    <3>3. quoted[2] = Append(quoted[1], run[2])
      BY <2>1, <2>2, <2>5, <3>1, <3>2, Zenon
    <3>4. QED
      BY <1>5, <2>5, <3>3
  <2>6. quoted[1] = <<first>>
    BY <1>4, <2>3, <2>4
  <2>7. n = 2 => quoted[2] = <<first, second>>
    BY <1>4, <2>5, <2>6
  <2>8. CASE run = <<first>>
    BY <2>6, <2>8 DEF n
  <2>9. CASE run = <<first, second>>
    BY <2>7, <2>9 DEF n
  <2>10. QED
    BY <1>3, <2>8, <2>9
<1>10. Quoted(kind, run) = quoted[n]
  BY DEF Quoted, quoted, labels, tool
<1>11. QED
  BY <1>9, <1>10 DEF run

LEMMA ToolHasOneKind == \A kind, other \in KnownKinds : ToolOf[kind] = ToolOf[other] => kind = other
BY KindsAre DEF ToolOf

\* The context gets a run once, and once more if it was evaluated.
LEMMA ContextAfter ==
    ASSUME criteria \in Specifications, NEW tool \in Tools, NEW outcome \in Outcomes,
           Dispatch(tool, outcome)
    PROVE  LET run == RunEvidence(tool, outcome)
           IN context' = context \o run \/ context' = context \o run \o run
<1> DEFINE run == RunEvidence(tool, outcome)
<1>1. CASE Evaluated(criteria, tool) = {}
  BY <1>1 DEF Dispatch
<1>2. CASE Evaluated(criteria, tool) # {}
  <2> DEFINE kind == CHOOSE k \in Kinds \ {"unknown"} : ToolOf[k] = tool
  <2>1. \E k \in KnownKinds : ToolOf[k] = tool
    BY <1>2, ObservedAfter
  <2>2. kind \in KnownKinds /\ ToolOf[kind] = tool
    BY <2>1 DEF KnownKinds
  <2>3. Quoted(kind, run) = run
    BY <2>2, RunsAreQuoted
  <2>4. context' = context \o run \o Quoted(kind, run)
    BY <1>2 DEF Dispatch
  <2>5. QED
    BY <2>3, <2>4
<1>3. QED
  BY <1>1, <1>2

LEMMA ViewsKept ==
    ASSUME EvidenceInv, ViewsInv, [Next]_vars
    PROVE  ViewsInv'
<1>1. criteria \in Specifications /\ Sound(evidence) /\ Sound(context)
  BY DEF EvidenceInv, ObservedTyped, ViewsInv
<1>2. KnownKinds # {}
  BY KindsAre
<1>3. CASE UNCHANGED <<evidence, context>>
  BY <1>3 DEF ViewsInv
<1>4. CASE Missed
  <2>1. PICK tool \in Tools :
           evidence' = evidence \o RunEvidence(tool, "none") /\ context' = context
    BY <1>4, MissedIs DEF EvidenceInv
  <2>2. "none" \in Outcomes /\ ~Stated("none")
    BY DEF Outcomes, Stated
  <2>3. \A kind \in KnownKinds : Verdict(kind, evidence') = Verdict(kind, evidence)
    BY <1>1, <2>1, <2>2, RunDecides
  <2>4. QED
    BY <2>1, <2>3 DEF ViewsInv
<1>5. CASE Ran
  <2>1. PICK tool \in Tools, outcome \in Outcomes :
           (outcome # "none" => tool \in Gates) /\ Dispatch(tool, outcome)
    BY <1>5 DEF Ran
  <2> DEFINE run == RunEvidence(tool, outcome)
             After(kind, verdict) == IF tool = ToolOf[kind] /\ Stated(outcome)
                                     THEN IF outcome = "ok" THEN "pass" ELSE "fail"
                                     ELSE verdict
  <2>2. \A trail : Sound(trail) =>
           /\ Sound(trail \o run)
           /\ \A kind \in KnownKinds :
                 Verdict(kind, trail \o run) = After(kind, Verdict(kind, trail))
    BY <1>2, <2>1, RunDecides
  <2>3. evidence' = evidence \o run
    BY <2>1 DEF Dispatch, HistoryWith
  <2>4. context' = context \o run \/ context' = context \o run \o run
    BY <1>1, <2>1, ContextAfter
  <2>5. \A kind, verdict : After(kind, After(kind, verdict)) = After(kind, verdict)
    OBVIOUS
  <2> HIDE DEF run, After
  <2>6. /\ Sound(context')
        /\ \A kind \in KnownKinds : Verdict(kind, context') = After(kind, Verdict(kind, context))
    <3>1. /\ Sound(context \o run)
          /\ \A kind \in KnownKinds :
                Verdict(kind, context \o run) = After(kind, Verdict(kind, context))
      BY <1>1, <2>2
    <3>2. CASE context' = context \o run
      BY <3>1, <3>2
    <3>3. CASE context' = context \o run \o run
      <4>1. /\ Sound((context \o run) \o run)
            /\ \A kind \in KnownKinds :
                  Verdict(kind, (context \o run) \o run)
                     = After(kind, Verdict(kind, context \o run))
        BY <2>2, <3>1
      <4>2. QED
        BY <2>5, <3>1, <3>3, <4>1
    <3>4. QED
      BY <2>4, <3>2, <3>3
  <2>7. QED
    BY <1>1, <2>2, <2>3, <2>6 DEF ViewsInv
<1>6. Idle => UNCHANGED <<evidence, context>>
  BY DEF Idle
<1>7. QED
  BY <1>3, <1>4, <1>5, <1>6, StepIs

\* The report never says of a criterion what the loop did not see: the history, read by
\* the result, and the context, which holds some runs twice, give the same verdict.
THEOREM ViewsStayEqual == Spec => []ViewsAgree
<1>1. Init => ViewsInv
  BY NothingIsSound DEF Init, ViewsInv
<1>2. EvidenceInv /\ ViewsInv => ViewsAgree
  <2>1. ASSUME EvidenceInv, ViewsInv, NEW i \in DOMAIN criteria
        PROVE  Verdict(criteria[i].kind, evidence) = Verdict(criteria[i].kind, context)
    <3>1. criteria[i].kind \in Kinds
      BY <2>1, SpecificationFacts DEF EvidenceInv, ObservedTyped
    <3>2. CASE criteria[i].kind = "unknown"
      BY <3>2 DEF Verdict
    <3>3. CASE criteria[i].kind # "unknown"
      BY <2>1, <3>1, <3>3 DEF ViewsInv, KnownKinds
    <3>4. QED
      BY <3>2, <3>3
  <2>2. QED
    BY <2>1 DEF ViewsAgree
<1>3. EvidenceInv /\ ViewsInv /\ [Next]_vars => ViewsInv'
  BY ViewsKept
<1>4. QED
  BY <1>1, <1>2, <1>3, EvidenceKept, PTL DEF Spec

-----------------------------------------------------------------------------
(***************************************************************************)
(* A satisfied goal that Finish refuses.                                   *)
(***************************************************************************)
\* What passes was observed to pass, but for the two gaps.
GapsInv ==
    \A i \in DOMAIN criteria :
        LET kind == criteria[i].kind
        IN kind \in KnownKinds /\ i \in Evaluated(criteria, ToolOf[kind])
             /\ Verdict(kind, evidence) = "pass" =>
                 observed[criteria[i].id] = "pass" \/ BrokeOff(ToolOf[kind])

\* A run that broke off is the last of its tool until there is another.
LEMMA BrokenRun ==
    ASSUME Sound(evidence), NEW tool \in Tools, NEW outcome \in Outcomes,
           outcome # "none" => tool \in Gates,
           evidence' = evidence \o RunEvidence(tool, outcome), NEW mine \in Gates
    PROVE  /\ tool = mine /\ outcome = "none" => BrokeOff(mine)'
           /\ tool # mine /\ BrokeOff(mine) => BrokeOff(mine)'
<1> DEFINE n == Len(evidence)
<1>1. /\ n \in Nat
      /\ DOMAIN evidence = 1..n
      /\ DOMAIN evidence' = 1..(n + IF Stated(outcome) THEN 2 ELSE 1)
      /\ \A i \in 1..n : evidence'[i] = evidence[i]
      /\ evidence'[n + 1] = Item("tool", tool)
      /\ Stated(outcome) => evidence'[n + 2] = Item(StatusLabel[tool], outcome)
      /\ \A i \in 1..n : BelongsTo(mine, evidence', i) <=> BelongsTo(mine, evidence, i)
  BY RunAppended DEF Sound
<1>2. Statuses(mine, evidence') =
        Statuses(mine, evidence) \cup (IF tool = mine /\ Stated(outcome) THEN {n + 2} ELSE {})
  BY RunAppended DEF Sound
<1> HIDE DEF n
<1>3. Statuses(mine, evidence) \subseteq 1..n
  BY <1>1 DEF Statuses
<1>4. \A j \in DOMAIN evidence' : j \in 1..n \/ j = n + 1 \/ (j = n + 2 /\ Stated(outcome))
  <2>1. CASE Stated(outcome)
    BY <1>1, <2>1
  <2>2. CASE ~Stated(outcome)
    BY <1>1, <2>2
  <2>3. QED
    BY <2>1, <2>2
<1>5. ASSUME tool = mine, outcome = "none"
      PROVE  BrokeOff(mine)'
  <2>1. DOMAIN evidence' = 1..(n + 1) /\ evidence'[n + 1] = Item("tool", mine)
    BY <1>1, <1>5 DEF Stated
  <2>2. n + 1 \in DOMAIN evidence' /\ \A j \in DOMAIN evidence' : ~(j > n + 1)
    BY <1>1, <2>1
  <2>3. QED
    BY <2>1, <2>2 DEF BrokeOff
<1>6. ASSUME tool # mine, BrokeOff(mine)
      PROVE  BrokeOff(mine)'
  <2>1. PICK i \in DOMAIN evidence :
          /\ evidence[i] = Item("tool", mine)
          /\ \A j \in DOMAIN evidence :
                j > i => /\ evidence[j] # Item("tool", mine)
                         /\ ~(/\ evidence[j].label = StatusLabel[mine]
                              /\ BelongsTo(mine, evidence, j))
    BY <1>6 DEF BrokeOff
  <2>2. i \in DOMAIN evidence' /\ evidence'[i] = Item("tool", mine)
    BY <1>1, <2>1
  <2>3. ASSUME NEW j \in DOMAIN evidence', j > i
        PROVE  /\ evidence'[j] # Item("tool", mine)
               /\ ~(evidence'[j].label = StatusLabel[mine] /\ BelongsTo(mine, evidence', j))
    <3>1. CASE j \in 1..n
      BY <1>1, <2>1, <2>3, <3>1
    <3>2. CASE j = n + 1
      BY <1>1, <1>6, <3>2, LabelFacts DEF Item
    <3>3. CASE j = n + 2 /\ Stated(outcome)
      <4>1. evidence'[j] = Item(StatusLabel[tool], outcome) /\ tool \in Gates
        BY <1>1, <3>3 DEF Stated
      <4>2. evidence'[j] # Item("tool", mine)
        BY <4>1, LabelFacts DEF Item
      <4>3. ASSUME evidence'[j].label = StatusLabel[mine]
            PROVE  ~BelongsTo(mine, evidence', j)
        <5>1. StatusLabel[mine] = StatusLabel[tool]
          BY <4>1, <4>3 DEF Item
        <5>2. j \notin Statuses(mine, evidence')
          BY <1>1, <1>2, <1>6, <1>3, <3>3
        <5>3. QED
          BY <4>3, <5>2 DEF Statuses
      <4>4. QED
        BY <4>2, <4>3
    <3>4. QED
      BY <1>4, <3>1, <3>2, <3>3
  <2>4. QED
    BY <2>2, <2>3 DEF BrokeOff
<1>7. QED
  BY <1>5, <1>6

LEMMA GapsKept ==
    ASSUME EvidenceInv, GapsInv, [Next]_vars
    PROVE  GapsInv'
<1>1. criteria \in Specifications /\ Sound(evidence)
  BY DEF EvidenceInv, ObservedTyped
<1>2. CASE Idle
  <2>1. UNCHANGED <<criteria, evidence, observed>>
    BY <1>2 DEF Idle
  <2>2. QED
    BY <2>1 DEF GapsInv, BrokeOff
<1>3. ASSUME NEW tool \in Tools, NEW outcome \in Outcomes, outcome # "none" => tool \in Gates,
             evidence' = evidence \o RunEvidence(tool, outcome), UNCHANGED criteria,
             \A i \in DOMAIN criteria :
                /\ i \notin Evaluated(criteria, tool) =>
                      observed'[criteria[i].id] = observed[criteria[i].id]
                /\ i \in Evaluated(criteria, tool) /\ Stated(outcome) =>
                      observed'[criteria[i].id] = IF outcome = "ok" THEN "pass" ELSE "fail"
      PROVE  GapsInv'
  <2>1. SUFFICES ASSUME NEW i \in DOMAIN criteria, criteria[i].kind \in KnownKinds,
                        i \in Evaluated(criteria, ToolOf[criteria[i].kind]),
                        Verdict(criteria[i].kind, evidence') = "pass"
                 PROVE  \/ observed'[criteria[i].id] = "pass"
                        \/ BrokeOff(ToolOf[criteria[i].kind])'
    BY <1>3 DEF GapsInv
  <2> DEFINE kind == criteria[i].kind
             mine == ToolOf[kind]
  <2>2. mine \in Gates
    BY <2>1, ToolsOfKinds
  <2>3. Verdict(kind, evidence') =
          IF tool = mine /\ Stated(outcome)
          THEN IF outcome = "ok" THEN "pass" ELSE "fail"
          ELSE Verdict(kind, evidence)
    BY <1>1, <1>3, <2>1, RunDecides
  <2>4. CASE tool = mine /\ Stated(outcome)
    BY <1>3, <2>1, <2>3, <2>4
  <2>5. CASE tool = mine /\ ~Stated(outcome)
    <3>1. outcome = "none"
      BY <2>5 DEF Stated, Outcomes
    <3>2. QED
      BY <1>1, <1>3, <2>2, <2>5, <3>1, BrokenRun
  <2>6. CASE tool # mine
    <3>1. i \notin Evaluated(criteria, tool)
      BY <2>6 DEF Evaluated
    <3>2. observed'[criteria[i].id] = observed[criteria[i].id]
      BY <1>3, <3>1
    <3>3. observed[criteria[i].id] = "pass" \/ BrokeOff(mine)
      BY <2>1, <2>3, <2>6 DEF GapsInv
    <3>4. BrokeOff(mine) => BrokeOff(mine)'
      BY <1>1, <1>3, <2>2, <2>6, BrokenRun
    <3>5. QED
      BY <3>2, <3>3, <3>4
  <2>7. QED
    BY <2>4, <2>5, <2>6
<1>4. CASE Missed
  <2>1. PICK tool \in Tools : /\ evidence' = evidence \o RunEvidence(tool, "none")
                            /\ UNCHANGED <<criteria, observed>>
    BY <1>4, MissedIs DEF EvidenceInv
  <2>2. "none" \in Outcomes /\ ~Stated("none")
    BY DEF Outcomes, Stated
  <2>3. QED
    BY <1>3, <2>1, <2>2
<1>5. CASE Ran
  <2>1. PICK tool \in Tools, outcome \in Outcomes :
           (outcome # "none" => tool \in Gates) /\ Dispatch(tool, outcome)
    BY <1>5 DEF Ran
  <2>2. evidence' = evidence \o RunEvidence(tool, outcome) /\ UNCHANGED criteria
    BY <1>5, <2>1 DEF Dispatch, HistoryWith, Ran
  <2>3. \A i \in DOMAIN criteria :
          /\ i \notin Evaluated(criteria, tool) =>
                observed'[criteria[i].id] = observed[criteria[i].id]
          /\ i \in Evaluated(criteria, tool) /\ Stated(outcome) =>
                observed'[criteria[i].id] = IF outcome = "ok" THEN "pass" ELSE "fail"
    BY <1>1, <2>1, ObservedAfter, RunAlone DEF Stated
  <2>4. QED
    BY <1>3, <2>1, <2>2, <2>3
<1>6. QED
  BY <1>2, <1>4, <1>5, StepIs

\* FinishConstraint refuses a goal that all of the evidence satisfies for two reasons only,
\* both of them in how the runtime observes verdicts: it evaluates a run for the first
\* criterion of its kind, and a run that broke off leaves no verdict of its own.
THEOREM GapsStayKnown == Spec => []OnlyKnownGaps
<1>1. Init => GapsInv
  BY NothingIsSound DEF Init, GapsInv
<1>2. EvidenceInv /\ GapsInv => OnlyKnownGaps
  <2>1. SUFFICES ASSUME EvidenceInv, GapsInv, ~FinishAllowed,
                        SpecificationVerdict(criteria, evidence) = "pass"
                 PROVE  \E i \in DOMAIN criteria :
                            LET tool == ToolOf[criteria[i].kind]
                            IN i \notin Evaluated(criteria, tool) \/ BrokeOff(tool)
    BY DEF OnlyKnownGaps
  <2> DEFINE verdicts == {Verdict(criteria[i].kind, evidence) : i \in DOMAIN criteria}
  <2>2. verdicts = {"pass"}
    BY <2>1 DEF SpecificationVerdict
  <2>3. \A i \in DOMAIN criteria : Verdict(criteria[i].kind, evidence) = "pass"
    BY <2>2
  <2>4. criteria # <<>>
    BY <2>2
  <2>5. PICK i \in DOMAIN criteria : observed[criteria[i].id] # "pass"
    BY <2>1, <2>4 DEF FinishAllowed
  <2>6. criteria[i].kind \in KnownKinds
    <3>1. criteria[i].kind \in Kinds
      BY <2>1, SpecificationFacts DEF EvidenceInv, ObservedTyped
    <3>2. criteria[i].kind # "unknown"
      BY <2>3 DEF Verdict
    <3>3. QED
      BY <3>1, <3>2 DEF KnownKinds
  <2>7. QED
    BY <2>1, <2>3, <2>5, <2>6 DEF GapsInv
<1>3. EvidenceInv /\ GapsInv /\ [Next]_vars => GapsInv'
  BY GapsKept
<1>4. QED
  BY <1>1, <1>2, <1>3, EvidenceKept, PTL DEF Spec

-----------------------------------------------------------------------------
(***************************************************************************)
(* The trap of a blank primary.                                            *)
(***************************************************************************)
LEMMA BlankStep ==
    ASSUME [Next]_vars, ~HasSource
    PROVE  UNCHANGED artifact
<1>1. Refuse => UNCHANGED artifact
  BY DEF Refuse, LeaveNoEvidence
<1>2. CASE UNCHANGED vars
  BY <1>2 DEF vars
<1>3. CASE Compile \/ Validate \/ ApplyCorrections \/ ApplyFileOperations
  BY <1>1, <1>3 DEF Compile, Validate, ApplyCorrections, ApplyFileOperations
<1>4. CASE RunCargo \/ RepairDiagnostic \/ InvokeTool
  BY <1>1, <1>4 DEF RunCargo, RepairDiagnostic, InvokeTool
<1>5. CASE NoOp \/ Finish \/ ProposalFails \/ IterationsExhausted \/ Returned
  BY <1>1, <1>5 DEF NoOp, Finish, ProposalFails, IterationsExhausted, Returned,
                    LeaveNoEvidence, vars
<1>6. QED
  BY <1>2, <1>3, <1>4, <1>5 DEF Next

\* A primary that has become blank stays so: every action that could write it is
\* refused for want of a source (action_policy.rs 33-53).
THEOREM BlankStays == Spec => BlankIsForever
<1>1. [Next]_vars =>
        [PrimarySource(artifact) \in Blank => Content(artifact') = Content(artifact)]_vars
  BY BlankStep DEF HasSource, Content
<1>2. QED
  BY <1>1, PTL DEF Spec, BlankIsForever

-----------------------------------------------------------------------------
(***************************************************************************)
(* Batches are tried one operation after the other.  A recursive function  *)
(* is known to exist when its values can be collected up to every length;  *)
(* what every operation keeps, the last copy has: the first copy without   *)
(* it would be a counterexample to that.                                   *)
(***************************************************************************)
LEMMA Smallest ==
    ASSUME NEW S, S \subseteq Nat, S # {}
    PROVE  \E x \in S : \A y \in S : x <= y
<1> DEFINE R == OpToRel(<, Nat)
<1>1. IsWellFoundedOn(R, Nat)
  BY NatLessThanWellFounded
<1>2. \A x, y \in Nat : <<y, x>> \in R <=> y < x
  BY DEF OpToRel
<1> HIDE DEF R
<1>3. PICK x \in S : \A y \in S : ~ (<<y, x>> \in R)
  BY <1>1, WFMin
<1>4. ASSUME NEW y \in S PROVE x <= y
  <2>1. x \in Nat /\ y \in Nat /\ ~(y < x)
    BY <1>2, <1>3
  <2>2. QED
    BY <2>1
<1>5. QED
  BY <1>4

\* Induction, on a set of numbers.
LEMMA Upward ==
    ASSUME NEW n \in Nat, NEW S, 0 \in S,
           \A i \in 1..n : i - 1 \in S => i \in S
    PROVE  \A i \in 0..n : i \in S
<1> DEFINE missing == {i \in 0..n : i \notin S}
<1>1. SUFFICES ASSUME missing # {} PROVE FALSE
  OBVIOUS
<1>2. missing \subseteq Nat
  OBVIOUS
<1>3. PICK i \in missing : \A j \in missing : i <= j
  BY <1>1, <1>2, Smallest
<1>4. i \in 1..n
  BY <1>3
<1>5. i - 1 \notin missing /\ i - 1 \in 0..n
  BY <1>3, <1>4
<1>6. QED
  BY <1>3, <1>4, <1>5

\* The values that a table of steps leads to.
Follows(f, n, base, step) == f[0] = base /\ \A i \in 1..n : f[i] = step[i][f[i - 1]]

LEMMA StepsExist ==
    ASSUME NEW n \in Nat, NEW T, NEW base \in T, NEW step \in [1..n -> [T -> T]]
    PROVE  \E f \in [0..n -> T] : Follows(f, n, base, step)
<1> DEFINE reached == {m \in 0..n : \E f \in [0..n -> T] : Follows(f, m, base, step)}
<1>1. 0 \in reached
  <2> DEFINE f == [i \in 0..n |-> base]
  <2>1. f \in [0..n -> T] /\ Follows(f, 0, base, step)
    BY DEF Follows
  <2> HIDE DEF f
  <2>2. QED
    BY <2>1
<1>2. ASSUME NEW m \in 1..n, m - 1 \in reached
      PROVE  m \in reached
  <2>1. PICK f \in [0..n -> T] : Follows(f, m - 1, base, step)
    BY <1>2
  <2> HIDE DEF reached
  <2> DEFINE value == step[m][f[m - 1]]
             g == [f EXCEPT ![m] = value]
  <2>2. m \in 0..n /\ m - 1 \in 0..n /\ m # 0 /\ m - 1 # m
    BY <1>2
  <2>3. value \in T
    <3>1. f[m - 1] \in T
      BY <2>1, <2>2
    <3>2. QED
      BY <3>1
  <2> HIDE DEF value
  <2>4. /\ g \in [0..n -> T] /\ g[m] = value
        /\ \A i \in 0..n : i # m => g[i] = f[i]
    BY <2>2, <2>3
  <2> HIDE DEF g
  <2>5. g[0] = base
    BY <2>1, <2>2, <2>4 DEF Follows
  <2>6. ASSUME NEW i \in 1..m
        PROVE  g[i] = step[i][g[i - 1]]
    <3>1. i \in 0..n /\ i - 1 \in 0..n /\ i - 1 # m
      BY <2>2
    <3>2. CASE i = m
      BY <2>2, <2>4, <3>1, <3>2 DEF value
    <3>3. CASE i # m
      <4>1. i \in 1..(m - 1)
        BY <2>2, <3>3
      <4>2. f[i] = step[i][f[i - 1]]
        BY <2>1, <4>1 DEF Follows
      <4>3. QED
        BY <2>4, <3>1, <3>3, <4>2
    <3>4. QED
      BY <3>2, <3>3
  <2>7. Follows(g, m, base, step)
    BY <2>5, <2>6 DEF Follows
  <2>8. QED
    BY <2>2, <2>4, <2>7 DEF reached
<1> HIDE DEF reached
<1>3. n \in reached
  <2>1. \A m \in 1..n : m - 1 \in reached => m \in reached
    BY <1>2
  <2>2. \A m \in 0..n : m \in reached
    BY <1>1, <2>1, Upward
  <2>3. QED
    BY <2>2
<1>4. QED
  BY <1>3 DEF reached

\* What is true of the first value and kept by every step, when the values are in G.
LEMMA StepsKeep ==
    ASSUME NEW n \in Nat, NEW f, NEW G, f[0] \in G,
           \A i \in 1..n : f[i - 1] \in G => f[i] \in G
    PROVE  \A i \in 0..n : f[i] \in G
<1> DEFINE S == {i \in 0..n : f[i] \in G}
<1>1. 0 \in S /\ \A i \in 1..n : i - 1 \in S => i \in S
  OBVIOUS
<1> HIDE DEF S
<1>2. \A i \in 0..n : i \in S
  BY <1>1, Upward
<1>3. QED
  BY <1>2 DEF S

-----------------------------------------------------------------------------
(***************************************************************************)
(* What one operation makes of a copy.                                     *)
(***************************************************************************)
Trials == Contents \cup {Failed}

LEMMA ContentFacts ==
    ASSUME NEW c \in Contents
    PROVE  /\ c = [files |-> c.files, primary |-> c.primary]
           /\ DOMAIN c.files \subseteq Paths
           /\ c.files \in [DOMAIN c.files -> Sources]
           /\ c.primary \in DOMAIN c.files
<1>1. PICK names \in (SUBSET Paths) \ {{}} : c.files \in [names -> Sources]
  BY DEF Contents
<1>2. DOMAIN c.files = names
  BY <1>1
<1>3. c = [files |-> c.files, primary |-> c.primary] /\ c.primary \in DOMAIN c.files
  BY DEF Contents
<1>4. QED
  BY <1>1, <1>2, <1>3

LEMMA ContentIs ==
    ASSUME NEW files, NEW primary \in DOMAIN files, DOMAIN files \subseteq Paths,
           files \in [DOMAIN files -> Sources]
    PROVE  [files |-> files, primary |-> primary] \in Contents
<1>1. DOMAIN files # {} /\ DOMAIN files \in SUBSET Paths
  OBVIOUS
<1>2. files \in UNION {[names -> Sources] : names \in (SUBSET Paths) \ {{}}}
  BY <1>1
<1>3. QED
  BY <1>2 DEF Contents

LEMMA FileOperationKeeps ==
    ASSUME NEW c \in Contents, NEW operation \in FileOperations
    PROVE  LET next == ApplyFileOperation(c, operation)
           IN IF Applicable(operation, c)
              THEN next \in Contents /\ next.files[next.primary] = c.files[c.primary]
              ELSE next = Failed
<1> DEFINE next == ApplyFileOperation(c, operation)
           Fine(d) == d \in Contents /\ d.files[d.primary] = c.files[c.primary]
<1>1. SUFFICES ASSUME Applicable(operation, c) PROVE Fine(next)
  BY DEF ApplyFileOperation
<1>2. /\ DOMAIN c.files \subseteq Paths
      /\ c.files \in [DOMAIN c.files -> Sources]
      /\ c.primary \in DOMAIN c.files
      /\ c = [files |-> c.files, primary |-> c.primary]
  BY ContentFacts
<1>3. c # Failed /\ Applicable(operation, c)
  BY <1>1, ArtifactAssumption
<1>4. ASSUME NEW path \in Paths, NEW source \in Sources, operation = Create(path, source)
      PROVE  Fine(next)
  <2>1. operation.kind = "create" /\ operation.path = path /\ operation.source = source
    BY <1>4 DEF Create
  <2>2. next = [c EXCEPT !.files = With(@, path, source)]
    BY <1>3, <2>1 DEF ApplyFileOperation
  <2> DEFINE files == With(c.files, path, source)
  <2>3. next = [files |-> files, primary |-> c.primary]
    BY <1>2, <2>2
  <2>4. path \notin DOMAIN c.files
    BY <1>3, <2>1 DEF Applicable
  <2>5. /\ DOMAIN files \subseteq Paths /\ files \in [DOMAIN files -> Sources]
        /\ c.primary \in DOMAIN files /\ files[c.primary] = c.files[c.primary]
    BY <1>2, <2>4 DEF With
  <2> HIDE DEF files, next
  <2>6. QED
    BY <2>3, <2>5, ContentIs
<1>5. ASSUME NEW path \in Paths, operation = Delete(path)
      PROVE  Fine(next)
  <2>1. operation.kind = "delete" /\ operation.path = path
    BY <1>5 DEF Delete
  <2>2. next = [c EXCEPT !.files = Without(@, path)]
    BY <1>3, <2>1 DEF ApplyFileOperation
  <2> DEFINE files == Without(c.files, path)
  <2>3. next = [files |-> files, primary |-> c.primary]
    BY <1>2, <2>2
  <2>4. path # c.primary
    BY <1>3, <2>1 DEF Applicable
  <2>5. /\ DOMAIN files \subseteq Paths /\ files \in [DOMAIN files -> Sources]
        /\ c.primary \in DOMAIN files /\ files[c.primary] = c.files[c.primary]
    BY <1>2, <2>4 DEF Without
  <2> HIDE DEF files, next
  <2>6. QED
    BY <2>3, <2>5, ContentIs
<1>6. ASSUME NEW from \in Paths, NEW to \in Paths, operation = Rename(from, to)
      PROVE  Fine(next)
  <2>1. operation.kind = "rename" /\ operation.from = from /\ operation.to = to
    BY <1>6 DEF Rename
  <2>2. next = IF from = to THEN c ELSE Moved(c, from, to)
    BY <1>3, <2>1 DEF ApplyFileOperation
  <2>3. CASE from = to
    BY <2>2, <2>3
  <2>4. CASE from # to
    <3>1. from \in DOMAIN c.files /\ to \notin DOMAIN c.files
      BY <1>3, <2>1, <2>4 DEF Applicable
    <3> DEFINE files == With(Without(c.files, from), to, c.files[from])
               primary == IF c.primary = from THEN to ELSE c.primary
    <3>2. next = [files |-> files, primary |-> primary]
      BY <2>2, <2>4 DEF Moved
    <3>3. /\ DOMAIN files \subseteq Paths /\ files \in [DOMAIN files -> Sources]
          /\ primary \in DOMAIN files /\ files[primary] = c.files[c.primary]
      BY <1>2, <3>1 DEF With, Without
    <3> HIDE DEF files, primary, next
    <3>4. QED
      BY <3>2, <3>3, ContentIs
  <2>5. QED
    BY <2>3, <2>4
<1>7. QED
  BY <1>4, <1>5, <1>6 DEF FileOperations

LEMMA CorrectionKeeps ==
    ASSUME NEW c \in Contents, NEW correction \in Corrections
    PROVE  LET next == ApplyCorrection(c, correction)
           IN next # Failed =>
                 /\ next \in Contents
                 /\ DOMAIN next.files = DOMAIN c.files
                 /\ next.primary = c.primary
<1> DEFINE next == ApplyCorrection(c, correction)
           path == ResolvedPath(correction, c)
           source == Effect[correction.edit][c.files[path]]
<1>1. SUFFICES ASSUME next # Failed
               PROVE  /\ next \in Contents
                      /\ DOMAIN next.files = DOMAIN c.files
                      /\ next.primary = c.primary
  OBVIOUS
<1>2. /\ DOMAIN c.files \subseteq Paths
      /\ c.files \in [DOMAIN c.files -> Sources]
      /\ c.primary \in DOMAIN c.files
      /\ c = [files |-> c.files, primary |-> c.primary]
      /\ c # Failed
  BY ContentFacts, ArtifactAssumption
<1>3. path \in DOMAIN c.files /\ source # Failed /\ next = [c EXCEPT !.files[path] = source]
  BY <1>1, <1>2 DEF ApplyCorrection
<1>4. source \in Sources
  <2>1. correction.edit \in Edits /\ c.files[path] \in Sources
    BY <1>2, <1>3 DEF Corrections
  <2> HIDE DEF path
  <2>2. QED
    BY <1>3, <2>1, ArtifactAssumption
<1> HIDE DEF path, source, next
<1> DEFINE files == [c.files EXCEPT ![path] = source]
<1>5. next = [files |-> files, primary |-> c.primary]
  BY <1>2, <1>3
<1>6. /\ DOMAIN files = DOMAIN c.files /\ files \in [DOMAIN files -> Sources]
      /\ DOMAIN files \subseteq Paths /\ c.primary \in DOMAIN files
  BY <1>2, <1>3, <1>4
<1> HIDE DEF files
<1>7. QED
  BY <1>5, <1>6, ContentIs

LEMMA TriedFileOperationsAre ==
    ASSUME NEW c \in Contents, NEW batch \in Seq(FileOperations)
    PROVE  LET tried == TriedFileOperations(c, batch)
           IN /\ tried[0] = c
              /\ \A i \in 1..Len(batch) : tried[i] = ApplyFileOperation(tried[i - 1], batch[i])
              /\ \A i \in 0..Len(batch) : tried[i] \in Trials
<1> DEFINE n == Len(batch)
           After(t, i) == ApplyFileOperation(t, batch[i])
           step == [i \in 1..n |-> [t \in Trials |-> After(t, i)]]
           Step(f) == [i \in 0..n |-> IF i = 0 THEN c ELSE After(f[i - 1], i)]
           tried == CHOOSE f : f = Step(f)
<1>1. n \in Nat /\ \A i \in 1..n : batch[i] \in FileOperations
  OBVIOUS
<1>2. ASSUME NEW t \in Trials, NEW i \in 1..n
      PROVE  After(t, i) \in Trials
  <2>1. CASE t = Failed
    BY <2>1 DEF ApplyFileOperation, Trials
  <2>2. CASE t \in Contents
    BY <1>1, <2>2, FileOperationKeeps DEF Trials
  <2>3. QED
    BY <2>1, <2>2 DEF Trials
<1> HIDE DEF n, After
<1>3. step \in [1..n -> [Trials -> Trials]]
  BY <1>2
<1>4. \A t \in Trials, i \in 1..n : step[i][t] = After(t, i)
  OBVIOUS
<1> HIDE DEF step
<1>5. c \in Trials
  BY DEF Trials
<1>6. PICK f \in [0..n -> Trials] : Follows(f, n, c, step)
  BY <1>1, <1>3, <1>5, StepsExist
<1>7. f = Step(f)
  <2>1. ASSUME NEW i \in 0..n
        PROVE  f[i] = IF i = 0 THEN c ELSE After(f[i - 1], i)
    <3>1. i # 0 => i \in 1..n /\ f[i - 1] \in Trials
      BY <1>1
    <3>2. QED
      BY <1>4, <1>6, <3>1 DEF Follows
  <2>2. QED
    BY <2>1
<1>8. tried = Step(tried)
  <2> HIDE DEF Step
  <2>1. QED
    BY <1>7
<1> HIDE DEF tried
<1>9. \A i \in 0..n : tried[i] = IF i = 0 THEN c ELSE After(tried[i - 1], i)
  BY <1>8
<1>10. /\ tried[0] = c
       /\ \A i \in 1..n : tried[i] = After(tried[i - 1], i)
  BY <1>1, <1>9
<1>11. \A i \in 0..n : tried[i] \in Trials
  <2>1. \A i \in 1..n : tried[i - 1] \in Trials => tried[i] \in Trials
    BY <1>2, <1>10
  <2>2. n \in Nat /\ tried[0] \in Trials
    BY <1>1, <1>5, <1>10
  <2>3. QED
    BY <2>1, <2>2, StepsKeep
<1>12. TriedFileOperations(c, batch) = tried
  BY DEF TriedFileOperations, tried, After, n
<1>13. QED
  BY <1>10, <1>11, <1>12 DEF After, n

LEMMA TriedCorrectionsAre ==
    ASSUME NEW c \in Contents, NEW batch \in Seq(Corrections)
    PROVE  LET tried == TriedCorrections(c, batch)
           IN /\ tried[0] = c
              /\ \A i \in 1..Len(batch) : tried[i] = ApplyCorrection(tried[i - 1], batch[i])
              /\ \A i \in 0..Len(batch) : tried[i] \in Trials
<1> DEFINE n == Len(batch)
           After(t, i) == ApplyCorrection(t, batch[i])
           step == [i \in 1..n |-> [t \in Trials |-> After(t, i)]]
           Step(f) == [i \in 0..n |-> IF i = 0 THEN c ELSE After(f[i - 1], i)]
           tried == CHOOSE f : f = Step(f)
<1>1. n \in Nat /\ \A i \in 1..n : batch[i] \in Corrections
  OBVIOUS
<1>2. ASSUME NEW t \in Trials, NEW i \in 1..n
      PROVE  After(t, i) \in Trials
  <2>1. CASE t = Failed
    BY <2>1 DEF ApplyCorrection, Trials
  <2>2. CASE t \in Contents
    BY <1>1, <2>2, CorrectionKeeps DEF Trials
  <2>3. QED
    BY <2>1, <2>2 DEF Trials
<1> HIDE DEF n, After
<1>3. step \in [1..n -> [Trials -> Trials]]
  BY <1>2
<1>4. \A t \in Trials, i \in 1..n : step[i][t] = After(t, i)
  OBVIOUS
<1> HIDE DEF step
<1>5. c \in Trials
  BY DEF Trials
<1>6. PICK f \in [0..n -> Trials] : Follows(f, n, c, step)
  BY <1>1, <1>3, <1>5, StepsExist
<1>7. f = Step(f)
  <2>1. ASSUME NEW i \in 0..n
        PROVE  f[i] = IF i = 0 THEN c ELSE After(f[i - 1], i)
    <3>1. i # 0 => i \in 1..n /\ f[i - 1] \in Trials
      BY <1>1
    <3>2. QED
      BY <1>4, <1>6, <3>1 DEF Follows
  <2>2. QED
    BY <2>1
<1>8. tried = Step(tried)
  <2> HIDE DEF Step
  <2>1. QED
    BY <1>7
<1> HIDE DEF tried
<1>9. \A i \in 0..n : tried[i] = IF i = 0 THEN c ELSE After(tried[i - 1], i)
  BY <1>8
<1>10. /\ tried[0] = c
       /\ \A i \in 1..n : tried[i] = After(tried[i - 1], i)
  BY <1>1, <1>9
<1>11. \A i \in 0..n : tried[i] \in Trials
  <2>1. \A i \in 1..n : tried[i - 1] \in Trials => tried[i] \in Trials
    BY <1>2, <1>10
  <2>2. n \in Nat /\ tried[0] \in Trials
    BY <1>1, <1>5, <1>10
  <2>3. QED
    BY <2>1, <2>2, StepsKeep
<1>12. TriedCorrections(c, batch) = tried
  BY DEF TriedCorrections, tried, After, n
<1>13. QED
  BY <1>10, <1>11, <1>12 DEF After, n

\* A batch of file operations rearranges the tree around the source of the primary.
LEMMA FileOperationsKeep ==
    ASSUME NEW c \in Contents, NEW batch \in Seq(FileOperations)
    PROVE  LET preview == PreviewFileOperations(c, batch)
           IN preview # Failed =>
                 preview \in Contents /\ preview.files[preview.primary] = c.files[c.primary]
<1> DEFINE G == {Failed} \cup {t \in Contents : t.files[t.primary] = c.files[c.primary]}
           tried == TriedFileOperations(c, batch)
           n == Len(batch)
<1>1. /\ n \in Nat /\ tried[0] = c
      /\ \A i \in 1..n : tried[i] = ApplyFileOperation(tried[i - 1], batch[i])
  BY TriedFileOperationsAre
<1>2. \A i \in 1..n : batch[i] \in FileOperations
  OBVIOUS
<1> HIDE DEF tried, n
<1>3. ASSUME NEW i \in 1..n, tried[i - 1] \in G
      PROVE  tried[i] \in G
  <2>1. CASE tried[i - 1] = Failed
    BY <1>1, <2>1 DEF ApplyFileOperation
  <2>2. CASE tried[i - 1] \in Contents
    <3>1. tried[i - 1] # Failed
      BY <2>2, ArtifactAssumption
    <3>2. tried[i] = ApplyFileOperation(tried[i - 1], batch[i])
      BY <1>1
    <3>3. tried[i] # Failed =>
            /\ tried[i] \in Contents
            /\ tried[i].files[tried[i].primary] =
                  tried[i - 1].files[tried[i - 1].primary]
      BY <1>2, <2>2, <3>2, FileOperationKeeps
    <3>4. QED
      BY <1>3, <3>1, <3>3
  <2>3. QED
    BY <1>3, <2>1, <2>2
<1>4. tried[0] \in G
  BY <1>1
<1> HIDE DEF G
<1>5. tried[n] \in G
  <2>1. \A i \in 1..n : tried[i - 1] \in G => tried[i] \in G
    BY <1>3
  <2>2. \A i \in 0..n : tried[i] \in G
    BY <1>1, <1>4, <2>1, StepsKeep
  <2>3. QED
    BY <1>1, <2>2
<1>6. PreviewFileOperations(c, batch) # Failed => PreviewFileOperations(c, batch) = tried[n]
  BY DEF PreviewFileOperations, tried, n
<1>7. QED
  BY <1>5, <1>6 DEF G

\* A batch of corrections edits sources and leaves the tree as it is.
LEMMA CorrectionsKeep ==
    ASSUME NEW c \in Contents, NEW batch \in Seq(Corrections)
    PROVE  LET preview == PreviewCorrections(c, batch)
           IN preview # Failed =>
                 /\ preview \in Contents
                 /\ DOMAIN preview.files = DOMAIN c.files
                 /\ preview.primary = c.primary
<1> DEFINE G == {Failed} \cup {t \in Contents : /\ DOMAIN t.files = DOMAIN c.files
                                                /\ t.primary = c.primary}
           tried == TriedCorrections(c, batch)
           n == Len(batch)
<1>1. /\ n \in Nat /\ tried[0] = c
      /\ \A i \in 1..n : tried[i] = ApplyCorrection(tried[i - 1], batch[i])
  BY TriedCorrectionsAre
<1>2. \A i \in 1..n : batch[i] \in Corrections
  OBVIOUS
<1> HIDE DEF tried, n
<1>3. ASSUME NEW i \in 1..n, tried[i - 1] \in G
      PROVE  tried[i] \in G
  <2>1. CASE tried[i - 1] = Failed
    BY <1>1, <2>1 DEF ApplyCorrection
  <2>2. CASE tried[i - 1] \in Contents
    <3>1. tried[i - 1] # Failed
      BY <2>2, ArtifactAssumption
    <3>2. tried[i] = ApplyCorrection(tried[i - 1], batch[i])
      BY <1>1
    <3>3. tried[i] # Failed =>
            /\ tried[i] \in Contents
            /\ DOMAIN tried[i].files = DOMAIN tried[i - 1].files
            /\ tried[i].primary = tried[i - 1].primary
      BY <1>2, <2>2, <3>2, CorrectionKeeps
    <3>4. QED
      BY <1>3, <3>1, <3>3
  <2>3. QED
    BY <1>3, <2>1, <2>2
<1>4. tried[0] \in G
  BY <1>1
<1> HIDE DEF G
<1>5. tried[n] \in G
  <2>1. \A i \in 1..n : tried[i - 1] \in G => tried[i] \in G
    BY <1>3
  <2>2. \A i \in 0..n : tried[i] \in G
    BY <1>1, <1>4, <2>1, StepsKeep
  <2>3. QED
    BY <1>1, <2>2
<1>6. PreviewCorrections(c, batch) # Failed => PreviewCorrections(c, batch) = tried[n]
  BY DEF PreviewCorrections, tried, n
<1>7. QED
  BY <1>5, <1>6 DEF G

\* What the tool reads of a batch is a batch.
LEMMA ReceivedAre ==
    ASSUME NEW batch \in Seq(FileOperations), batch # <<>>, ~IsDamaged(batch)
    PROVE  LET received == ReceivedFileOperations(batch)
               n == Len(batch)
           IN /\ received \in Seq(FileOperations) /\ Len(received) = n
              /\ \A i \in 1..(n - 1) : received[i] = batch[i]
              /\ \/ received[n] = batch[n]
                 \/ \E path \in Paths : \E before, next \in Sources :
                       batch[n] = Create(path, before) /\ received[n] = Create(path, next)
<1> DEFINE n == Len(batch)
           received == ReceivedFileOperations(batch)
<1>1. n \in Nat /\ n \in 1..n /\ batch[n] \in FileOperations
  OBVIOUS
<1>2. CASE batch[n].kind # "create"
  <2>1. received = batch
    BY <1>2 DEF ReceivedFileOperations
  <2>2. QED
    BY <2>1
<1>3. CASE batch[n].kind = "create"
  <2>1. PICK path \in Paths, source \in Sources : batch[n] = Create(path, source)
    BY <1>1, <1>3 DEF FileOperations, Delete, Rename
  <2> DEFINE after == TrimEnd[source]
  <2>2. after \in Sources
    BY ArtifactAssumption
  <2>3. batch[n].source = source
    BY <2>1 DEF Create
  <2>4. [batch[n] EXCEPT !.source = after] = Create(path, after)
    BY <2>1 DEF Create
  <2>5. received = [batch EXCEPT ![n] = Create(path, after)]
    <3>1. received = [batch EXCEPT ![n].source = TrimEnd[@]]
      BY <1>3 DEF ReceivedFileOperations
    <3> HIDE DEF received, n
    <3>2. received = [batch EXCEPT ![n] = [batch[n] EXCEPT !.source = TrimEnd[batch[n].source]]]
      BY <3>1
    <3>3. QED
      BY <2>3, <2>4, <3>2
  <2>6. Create(path, after) \in FileOperations
    BY <2>2 DEF FileOperations
  <2> HIDE DEF received, after
  <2>7. received \in Seq(FileOperations) /\ Len(received) = n
    BY <1>1, <2>5, <2>6
  <2>8. received[n] = Create(path, after) /\ \A i \in 1..(n - 1) : received[i] = batch[i]
    BY <1>1, <2>5
  <2>9. \E p \in Paths : \E before, next \in Sources :
          batch[n] = Create(p, before) /\ received[n] = Create(p, next)
    BY <2>1, <2>2, <2>8
  <2> HIDE DEF n
  <2>10. QED
    BY <2>7, <2>8, <2>9 DEF received, n
<1>4. QED
  BY <1>2, <1>3

-----------------------------------------------------------------------------
(***************************************************************************)
(* The versions of the artifact.                                           *)
(***************************************************************************)
ArtifactInv ==
    /\ artifact = [files |-> artifact.files, primary |-> artifact.primary,
                   revision |-> artifact.revision]
    /\ Content(artifact) \in Contents
    /\ artifact.revision \in Nat

\* Unchanged, or the next version.
Versioned == ArtifactInv' /\ [Versions!Next]_(Versions!vars)

LEMMA SameVersion ==
    ASSUME ArtifactInv, UNCHANGED artifact
    PROVE  Versioned
<1>1. Content(artifact)' = Content(artifact)
  BY DEF Content
<1>2. QED
  BY <1>1 DEF Versioned, ArtifactInv, Versions!vars

LEMMA NewVersion ==
    ASSUME ArtifactInv, NEW next \in Contents, next # Content(artifact),
           artifact' = [files |-> next.files, primary |-> next.primary,
                        revision |-> artifact.revision + 1],
           \/ DOMAIN next.files = DOMAIN artifact.files /\ next.primary = artifact.primary
           \/ next.files[next.primary] = PrimarySource(artifact)
    PROVE  Versioned
<1>1. next = [files |-> next.files, primary |-> next.primary]
  BY ContentFacts
<1>2. Content(artifact)' = next
  BY <1>1 DEF Content
<1>3. /\ Content(artifact).files = artifact.files
      /\ Content(artifact).primary = artifact.primary
  BY DEF Content
<1>4. artifact.revision \in Nat /\ artifact'.revision = artifact.revision + 1
  BY DEF ArtifactInv
<1>5. ArtifactInv'
  BY <1>2, <1>4 DEF ArtifactInv
<1>6. Versions!Version
  BY <1>2, <1>4 DEF Versions!Version
<1>7. Versions!Edit \/ Versions!Rearrange
  BY <1>2, <1>3, <1>6 DEF Versions!Edit, Versions!Rearrange, PrimarySource
<1>8. QED
  BY <1>5, <1>7 DEF Versioned, Versions!Next

LEMMA ReplacedIsVersion ==
    ASSUME ArtifactInv, NEW source \in Sources, artifact' = ReplaceSource(artifact, source)
    PROVE  Versioned
<1>1. CASE source = PrimarySource(artifact)
  BY <1>1, SameVersion DEF ReplaceSource
<1>2. CASE source # PrimarySource(artifact)
  <2> DEFINE files == [artifact.files EXCEPT ![artifact.primary] = source]
             next == [files |-> files, primary |-> artifact.primary]
  <2>1. artifact' = [artifact EXCEPT !.files[artifact.primary] = source, !.revision = @ + 1]
    BY <1>2 DEF ReplaceSource
  <2>2. artifact' = [files |-> files, primary |-> artifact.primary,
                     revision |-> artifact.revision + 1]
    <3>1. artifact = [files |-> artifact.files, primary |-> artifact.primary,
                      revision |-> artifact.revision]
      BY DEF ArtifactInv
    <3>2. QED
      BY <2>1, <3>1
  <2>3. /\ Content(artifact).files = artifact.files
        /\ Content(artifact).primary = artifact.primary
    BY DEF Content
  <2>4. /\ DOMAIN artifact.files \subseteq Paths
        /\ artifact.files \in [DOMAIN artifact.files -> Sources]
        /\ artifact.primary \in DOMAIN artifact.files
    BY <2>3, ContentFacts DEF ArtifactInv
  <2>5. /\ DOMAIN files = DOMAIN artifact.files
        /\ files \in [DOMAIN files -> Sources] /\ files[artifact.primary] = source
    BY <2>4
  <2> HIDE DEF files
  <2>6. next \in Contents
    BY <2>4, <2>5, ContentIs
  <2>7. next.files = files /\ next.primary = artifact.primary
    OBVIOUS
  <2>8. next # Content(artifact)
    BY <1>2, <2>3, <2>5, <2>7 DEF PrimarySource
  <2> HIDE DEF next
  <2>9. QED
    BY <2>2, <2>5, <2>6, <2>7, <2>8, NewVersion
<1>3. QED
  BY <1>1, <1>2

LEMMA CommittedIsVersion ==
    ASSUME ArtifactInv, NEW preview \in Contents, artifact' = CommitPreview(artifact, preview),
           \/ DOMAIN preview.files = DOMAIN artifact.files /\ preview.primary = artifact.primary
           \/ preview.files[preview.primary] = PrimarySource(artifact)
    PROVE  Versioned
<1>1. CASE preview = Content(artifact)
  BY <1>1, SameVersion DEF CommitPreview
<1>2. CASE preview # Content(artifact)
  BY <1>2, NewVersion DEF CommitPreview
<1>3. QED
  BY <1>1, <1>2

LEMMA MutationIsVersion ==
    ASSUME ArtifactInv, NEW tool, NEW batch, NEW preview, Mutate(tool, batch, preview),
           preview # Failed =>
              /\ preview \in Contents
              /\ \/ /\ DOMAIN preview.files = DOMAIN artifact.files
                    /\ preview.primary = artifact.primary
                 \/ preview.files[preview.primary] = PrimarySource(artifact)
    PROVE  Versioned
<1>1. CASE UNCHANGED artifact
  BY <1>1, SameVersion
<1>2. CASE preview # Failed /\ artifact' = CommitPreview(artifact, preview)
  BY <1>2, CommittedIsVersion
<1>3. QED
  BY <1>1, <1>2 DEF Mutate

LEMMA StepIsVersion ==
    ASSUME ArtifactInv, [Next]_vars
    PROVE  Versioned
<1>1. Refuse => Versioned
  BY SameVersion DEF Refuse, LeaveNoEvidence
<1>2. /\ Content(artifact) \in Contents
      /\ Content(artifact).files = artifact.files
      /\ Content(artifact).primary = artifact.primary
  BY DEF ArtifactInv, Content
<1>3. CASE Compile
  <2>1. CASE \E code \in Sources :
               artifact' = IF code = "" THEN artifact ELSE ReplaceSource(artifact, code)
    BY <2>1, SameVersion, ReplacedIsVersion
  <2>2. QED
    BY <1>1, <1>3, <2>1 DEF Compile
<1>4. CASE Validate
  BY <1>1, <1>4, SameVersion, ReplacedIsVersion DEF Validate
<1>5. CASE RunCargo \/ RepairDiagnostic \/ InvokeTool
  BY <1>1, <1>5, SameVersion DEF RunCargo, RepairDiagnostic, InvokeTool
<1>6. CASE ApplyCorrections
  <2>1. CASE Refuse
    BY <1>1, <2>1
  <2>2. CASE \E batch \in CorrectionBatches :
               Mutate("apply_correction", batch, PreviewCorrections(Content(artifact), batch))
    <3>1. PICK batch \in CorrectionBatches :
            Mutate("apply_correction", batch, PreviewCorrections(Content(artifact), batch))
      BY <2>2
    <3>2. batch \in Seq(Corrections)
      BY SessionAssumption
    <3>3. QED
      BY <1>2, <3>1, <3>2, CorrectionsKeep, MutationIsVersion
  <2>3. QED
    BY <1>6, <2>1, <2>2 DEF ApplyCorrections
<1>7. CASE ApplyFileOperations
  <2>1. CASE Refuse
    BY <1>1, <2>1
  <2>2. CASE \E batch \in FileBatches :
               /\ OperationsAllowed(batch)
               /\ Mutate("apply_file_operations", batch,
                         FileOperationsTool(Content(artifact), batch))
    <3>1. PICK batch \in FileBatches :
            /\ OperationsAllowed(batch)
            /\ Mutate("apply_file_operations", batch,
                      FileOperationsTool(Content(artifact), batch))
      BY <2>2
    <3>2. batch \in Seq(FileOperations) /\ batch # <<>>
      BY <3>1, SessionAssumption DEF OperationsAllowed, PreviewFileOperations
    <3> DEFINE preview == FileOperationsTool(Content(artifact), batch)
    <3>3. preview # Failed =>
            preview \in Contents /\ preview.files[preview.primary] = PrimarySource(artifact)
      <4>1. SUFFICES ASSUME preview # Failed
                     PROVE  /\ preview \in Contents
                            /\ preview.files[preview.primary] = PrimarySource(artifact)
        OBVIOUS
      <4>2. /\ ~IsDamaged(batch)
            /\ preview = PreviewFileOperations(Content(artifact), ReceivedFileOperations(batch))
        BY <4>1 DEF FileOperationsTool
      <4>3. ReceivedFileOperations(batch) \in Seq(FileOperations)
        BY <3>2, <4>2, ReceivedAre
      <4>4. QED
        BY <1>2, <4>1, <4>2, <4>3, FileOperationsKeep DEF PrimarySource
    <3> HIDE DEF preview
    <3>4. Mutate("apply_file_operations", batch, preview)
      BY <3>1 DEF preview
    <3>5. QED
      BY <3>3, <3>4, MutationIsVersion
  <2>3. QED
    BY <1>7, <2>1, <2>2 DEF ApplyFileOperations
<1>8. CASE NoOp \/ Finish \/ ProposalFails \/ IterationsExhausted \/ Returned \/ UNCHANGED vars
  <2>1. UNCHANGED artifact \/ Refuse
    BY <1>8 DEF NoOp, Finish, ProposalFails, IterationsExhausted, Returned, LeaveNoEvidence, vars
  <2>2. QED
    BY <1>1, <2>1, SameVersion
<1>9. QED
  BY <1>3, <1>4, <1>5, <1>6, <1>7, <1>8 DEF Next

LEMMA StartIsVersion ==
    ASSUME Init
    PROVE  ArtifactInv /\ Versions!Init
<1>1. PICK content \in InitialContents :
        artifact = [files |-> content.files, primary |-> content.primary, revision |-> 0]
  BY DEF Init
<1>2. content \in Contents
  BY SessionAssumption
<1>3. Content(artifact) = content
  BY <1>1, <1>2, ContentFacts DEF Content
<1>4. QED
  BY <1>1, <1>2, <1>3 DEF ArtifactInv, Versions!Init

LEMMA ArtifactKept == Spec => []ArtifactInv
<1>1. Init => ArtifactInv
  BY StartIsVersion
<1>2. ArtifactInv /\ [Next]_vars => ArtifactInv'
  BY StepIsVersion DEF Versioned
<1>3. QED
  BY <1>1, <1>2, PTL DEF Spec

\* Whatever a session does, its artifact goes through the versions of VersionedArtifact:
\* every change has a number of its own, and either edits sources or rearranges the tree
\* around the source of the primary (artifact_mutation.rs and artifact.rs below
\* execute_step), for every batch, text and tool.
THEOREM VersionsAreWhole == Spec => ImplementsVersions
<1>1. Init => Versions!Init
  BY StartIsVersion
<1>2. ArtifactInv /\ [Next]_vars => [Versions!Next]_(Versions!vars)
  BY StepIsVersion DEF Versioned
<1>3. QED
  BY <1>1, <1>2, ArtifactKept, PTL DEF Spec, ImplementsVersions, Versions!Spec

-----------------------------------------------------------------------------
(***************************************************************************)
(* What the policy lets through.                                           *)
(***************************************************************************)
\* A single correction is tried by the policy on the copy the tool tries it on.
LEMMA AllowedAlone ==
    ASSUME ArtifactInv, NEW batch \in Seq(Corrections), CorrectionsAllowed(batch),
           PreviewCorrections(Content(artifact), batch) = Failed
    PROVE  Len(batch) > 1
<1> DEFINE c == Content(artifact)
           tried == TriedCorrections(c, batch)
<1>1. c \in Contents /\ Len(batch) \in Nat /\ batch # <<>>
  BY DEF ArtifactInv, CorrectionsAllowed
<1>2. Len(batch) # 0
  BY <1>1, EmptySeq
<1>3. ASSUME Len(batch) = 1
      PROVE  FALSE
  <2>1. tried[0] = c /\ tried[1] = ApplyCorrection(tried[1 - 1], batch[1])
    BY <1>1, <1>3, TriedCorrectionsAre
  <2>2. tried[1] = ApplyCorrection(c, batch[1])
    <3>1. 1 - 1 = 0
      OBVIOUS
    <3> HIDE DEF tried, c
    <3>2. QED
      BY <2>1, <3>1
  <2>3. ApplyCorrection(c, batch[1]) # Failed
    BY <1>3 DEF CorrectionsAllowed
  <2>4. PreviewCorrections(c, batch) = tried[1]
    BY <1>1, <1>3 DEF PreviewCorrections
  <2>5. QED
    BY <2>2, <2>3, <2>4
<1> HIDE DEF c, tried
<1>4. \A n \in Nat : n # 0 /\ n # 1 => n > 1
  OBVIOUS
<1>5. Len(batch) \in Nat /\ Len(batch) # 0 /\ Len(batch) # 1
  BY <1>1, <1>2, <1>3
<1>6. QED
  BY <1>4, <1>5

\* Trimmed or not, a source is created wherever the other is.
LEMMA CreatedAlike ==
    ASSUME NEW t \in Trials, NEW path \in Paths, NEW before \in Sources, NEW next \in Sources,
           ApplyFileOperation(t, Create(path, before)) # Failed
    PROVE  ApplyFileOperation(t, Create(path, next)) # Failed
<1>1. t \in Contents
  BY DEF ApplyFileOperation, Trials
<1>2. Create(path, before) \in FileOperations /\ Create(path, next) \in FileOperations
  BY DEF FileOperations
<1>3. Applicable(Create(path, before), t)
  BY <1>1, <1>2, FileOperationKeeps
<1>4. Applicable(Create(path, next), t)
  BY <1>3 DEF Applicable, Create
<1>5. ApplyFileOperation(t, Create(path, next)) \in Contents
  BY <1>1, <1>2, <1>4, FileOperationKeeps
<1>6. QED
  BY <1>5, ArtifactAssumption

\* The tool tries the whole batch, as the policy did, up to the source at its end.
LEMMA AllowedArrives ==
    ASSUME ArtifactInv, NEW batch \in Seq(FileOperations), OperationsAllowed(batch),
           ~IsDamaged(batch)
    PROVE  FileOperationsTool(Content(artifact), batch) # Failed
<1> DEFINE c == Content(artifact)
           received == ReceivedFileOperations(batch)
           n == Len(batch)
           allowed == TriedFileOperations(c, batch)
           tried == TriedFileOperations(c, received)
<1>1. c \in Contents /\ n \in Nat /\ batch # <<>> /\ n > 0
  BY DEF ArtifactInv, OperationsAllowed, PreviewFileOperations
<1>2. /\ received \in Seq(FileOperations) /\ Len(received) = n
      /\ \A i \in 1..(n - 1) : received[i] = batch[i]
      /\ \/ received[n] = batch[n]
         \/ \E path \in Paths : \E before, next \in Sources :
               batch[n] = Create(path, before) /\ received[n] = Create(path, next)
  BY <1>1, ReceivedAre
<1>3. /\ allowed[0] = c /\ allowed[n] # Failed
      /\ \A i \in 1..n : allowed[i] = ApplyFileOperation(allowed[i - 1], batch[i])
      /\ \A i \in 0..n : allowed[i] \in Trials
  BY <1>1, TriedFileOperationsAre DEF OperationsAllowed, PreviewFileOperations
<1>4. /\ tried[0] = c
      /\ \A i \in 1..n : tried[i] = ApplyFileOperation(tried[i - 1], received[i])
  BY <1>1, <1>2, TriedFileOperationsAre
<1>5. /\ received # <<>>
      /\ FileOperationsTool(c, batch) = tried[n]
  BY <1>1, <1>2 DEF FileOperationsTool, PreviewFileOperations
<1> HIDE DEF allowed, tried, received, c
<1> DEFINE S == {i \in 0..(n - 1) : tried[i] = allowed[i]}
<1>6. n - 1 \in Nat /\ 0 \in S
  BY <1>1, <1>3, <1>4
<1>7. ASSUME NEW i \in 1..(n - 1), i - 1 \in S
      PROVE  i \in S
  <2>1. i \in 1..n /\ i \in 0..(n - 1)
    BY <1>1
  <2>2. tried[i - 1] = allowed[i - 1] /\ received[i] = batch[i]
    BY <1>2, <1>7
  <2>3. tried[i] = allowed[i]
    BY <1>3, <1>4, <2>1, <2>2
  <2>4. QED
    BY <2>1, <2>3
<1>8. tried[n - 1] = allowed[n - 1]
  <2> HIDE DEF S
  <2>1. \A i \in 0..(n - 1) : i \in S
    BY <1>6, <1>7, Upward
  <2>2. n - 1 \in S
    BY <1>6, <2>1
  <2>3. QED
    BY <2>2 DEF S
<1> DEFINE t == allowed[n - 1]
<1>9. n \in 1..n /\ n - 1 \in 0..n
  BY <1>1
<1>10. t \in Trials
  BY <1>3, <1>9
<1>11. allowed[n] = ApplyFileOperation(t, batch[n])
  BY <1>3, <1>9
<1>12. tried[n] = ApplyFileOperation(t, received[n])
  BY <1>4, <1>8, <1>9
<1> HIDE DEF t, n, S
<1>13. tried[n] # Failed
  <2>1. CASE received[n] = batch[n]
    BY <1>3, <1>11, <1>12, <2>1
  <2>2. CASE \E path \in Paths : \E before, next \in Sources :
               batch[n] = Create(path, before) /\ received[n] = Create(path, next)
    BY <1>3, <1>10, <1>11, <1>12, <2>2, CreatedAlike
  <2>3. QED
    BY <1>2, <2>1, <2>2
<1>14. QED
  BY <1>5, <1>13 DEF c

\* A batch is damaged by the file that ends it.
LEMMA DamagedIsBlank ==
    ASSUME NEW batch \in Seq(FileOperations), batch # <<>>, IsDamaged(batch)
    PROVE  \E path \in Paths, source \in Blank : batch[Len(batch)] = Create(path, source)
<1> DEFINE last == batch[Len(batch)]
<1>1. last \in FileOperations
  OBVIOUS
<1>2. last.kind = "create" /\ last.source \in Blank
  BY DEF IsDamaged
<1> HIDE DEF last
<1>3. PICK path \in Paths, source \in Sources : last = Create(path, source)
  BY <1>1, <1>2 DEF FileOperations, Delete, Rename
<1>4. last.source = source
  BY <1>3 DEF Create
<1>5. QED
  BY <1>2, <1>3, <1>4 DEF last

LEMMA StepForesees ==
    ASSUME ArtifactInv, PolicyForesees, [Next]_vars
    PROVE  PolicyForesees'
<1>1. Iterate(NoBatch) => PolicyForesees'
  BY DEF Iterate, NoBatch, Batch, PolicyForesees
<1>2. Refuse => PolicyForesees'
  BY <1>1 DEF Refuse
<1>3. CASE Compile \/ Validate \/ RunCargo \/ RepairDiagnostic \/ InvokeTool
  BY <1>1, <1>2, <1>3 DEF Compile, Validate, RunCargo, RepairDiagnostic, InvokeTool
<1>4. CASE NoOp \/ Finish \/ ProposalFails
  BY <1>1, <1>2, <1>4 DEF NoOp, Finish, ProposalFails
<1>5. CASE IterationsExhausted \/ Returned \/ UNCHANGED vars
  BY <1>5 DEF IterationsExhausted, Returned, vars, PolicyForesees
<1>6. CASE ApplyCorrections
  <2>1. CASE \E batch \in CorrectionBatches :
               /\ CorrectionsAllowed(batch)
               /\ Mutate("apply_correction", batch, PreviewCorrections(Content(artifact), batch))
    <3>1. PICK batch \in CorrectionBatches :
            /\ CorrectionsAllowed(batch)
            /\ Mutate("apply_correction", batch, PreviewCorrections(Content(artifact), batch))
      BY <2>1
    <3>2. batch \in Seq(Corrections)
      BY SessionAssumption
    <3>3. applied' = Batch("apply_correction", batch,
                           PreviewCorrections(Content(artifact), batch) = Failed)
      BY <3>1 DEF Mutate, Iterate
    <3>4. applied'.failed => Len(batch) > 1
      BY <3>1, <3>2, <3>3, AllowedAlone DEF Batch
    <3>5. applied'.tool = "apply_correction" /\ applied'.operations = batch
      BY <3>3 DEF Batch
    <3>6. QED
      BY <3>4, <3>5 DEF PolicyForesees
  <2>2. QED
    BY <1>2, <1>6, <2>1 DEF ApplyCorrections
<1>7. CASE ApplyFileOperations
  <2>1. CASE \E batch \in FileBatches :
               /\ OperationsAllowed(batch)
               /\ Mutate("apply_file_operations", batch,
                         FileOperationsTool(Content(artifact), batch))
    <3>1. PICK batch \in FileBatches :
            /\ OperationsAllowed(batch)
            /\ Mutate("apply_file_operations", batch,
                      FileOperationsTool(Content(artifact), batch))
      BY <2>1
    <3>2. batch \in Seq(FileOperations) /\ batch # <<>>
      BY <3>1, SessionAssumption DEF OperationsAllowed, PreviewFileOperations
    <3>3. applied' = Batch("apply_file_operations", batch,
                           FileOperationsTool(Content(artifact), batch) = Failed)
      BY <3>1 DEF Mutate, Iterate
    <3>4. applied'.failed => FileOperationsTool(Content(artifact), batch) = Failed
      BY <3>3 DEF Batch
    <3>5. applied'.failed => IsDamaged(batch)
      BY <3>1, <3>2, <3>4, AllowedArrives
    <3>6. applied'.failed =>
            \E path \in Paths, source \in Blank : batch[Len(batch)] = Create(path, source)
      BY <3>2, <3>5, DamagedIsBlank
    <3>7. applied'.tool = "apply_file_operations" /\ applied'.operations = batch
      BY <3>3 DEF Batch
    <3>8. QED
      BY <3>6, <3>7 DEF PolicyForesees
  <2>2. QED
    BY <1>2, <1>7, <2>1 DEF ApplyFileOperations
<1>8. QED
  BY <1>3, <1>4, <1>5, <1>6, <1>7 DEF Next

\* A batch the policy allows fails in its tool for two reasons only: its corrections were
\* each tried alone, or the text it is written as ends with a blank file (action_policy.rs
\* against correction_tool.rs and file_operations_tool.rs), for batches of every length.
THEOREM PolicyIsForeseeing == Spec => []PolicyForesees
<1>1. Init => PolicyForesees
  BY DEF Init, NoBatch, Batch, PolicyForesees
<1>2. ArtifactInv /\ PolicyForesees /\ [Next]_vars => PolicyForesees'
  BY StepForesees
<1>3. QED
  BY <1>1, <1>2, ArtifactKept, PTL DEF Spec

-----------------------------------------------------------------------------
(***************************************************************************)
(* ReportedAsItEnded, for every draft, builder and session.                *)
(*                                                                         *)
(* The session of a construction takes the steps of HarnessSession, so     *)
(* EvidenceInv is an invariant of the construction as well; ResultInv adds *)
(* that no session ends before its first iteration and none starts for a   *)
(* draft that is refused.                                                  *)
(***************************************************************************)
Ends == {"completed", "failed", "stopped", "max_iterations"}

\* The session, as far as its end is concerned.
EndInv ==
    /\ iterations \in Nat
    /\ status \in Ends \cup {"running"}
    /\ status # "running" => iterations # 0

RefusedInv == ~IsValid(draft) => status = "running" /\ iterations = 0

ResultInv ==
    result # NoResult =>
        IF IsValid(draft)
        THEN /\ status # "running"
             /\ result.status \in {"completed", "failed", "max_iterations"}
             /\ result.status = "completed" <=> status = "completed"
        ELSE result.status = "invalid_specification"

ConstructionInv == EvidenceInv /\ EndInv /\ RefusedInv /\ ResultInv

-----------------------------------------------------------------------------
LEMMA RunGoesOn ==
    ASSUME NEW tool, Run(tool)
    PROVE  status' \in {"running", "stopped"}
BY DEF Run, Dispatch, UnknownTool, Continue

LEMMA RefusalGoesOn == Refuse => status' \in {"running", "stopped"} /\ iterations' = iterations + 1
BY DEF Refuse, Iterate, Continue

\* Every end but that by exhaustion is the end of an iteration.
LEMMA StepEnds ==
    ASSUME EndInv, [Next]_vars
    PROVE  EndInv'
<1> USE DEF EndInv, Ends
<1> DEFINE Iterated == iterations' = iterations + 1 /\ status' \in Ends \cup {"running"}
<1>1. CASE UNCHANGED vars
  BY <1>1 DEF vars
<1>2. Iterated => EndInv'
  OBVIOUS
<1>3. CASE Compile
  BY <1>2, <1>3, RunGoesOn, RefusalGoesOn DEF Compile, Iterate
<1>4. CASE Validate
  BY <1>2, <1>4, RunGoesOn, RefusalGoesOn DEF Validate, Iterate
<1>5. CASE RunCargo
  BY <1>2, <1>5, RunGoesOn, RefusalGoesOn DEF RunCargo, Iterate
<1>6. CASE RepairDiagnostic
  BY <1>2, <1>6, RunGoesOn, RefusalGoesOn DEF RepairDiagnostic, Iterate
<1>7. CASE ApplyCorrections
  BY <1>2, <1>7, RunGoesOn, RefusalGoesOn DEF ApplyCorrections, Mutate, Iterate
<1>8. CASE ApplyFileOperations
  BY <1>2, <1>8, RunGoesOn, RefusalGoesOn DEF ApplyFileOperations, Mutate, Iterate
<1>9. CASE InvokeTool
  BY <1>2, <1>9, RunGoesOn, RefusalGoesOn DEF InvokeTool, Iterate
<1>10. CASE NoOp
  BY <1>2, <1>10 DEF NoOp, Iterate, Continue
<1>11. CASE Finish
  BY <1>2, <1>11, RefusalGoesOn DEF Finish, Iterate
<1>12. CASE ProposalFails
  BY <1>2, <1>12 DEF ProposalFails, Iterate
<1>13. CASE IterationsExhausted
  BY <1>13, SessionAssumption DEF IterationsExhausted
<1>14. CASE Returned
  BY <1>14 DEF Returned, vars
<1>15. QED
  BY <1>1, <1>3, <1>4, <1>5, <1>6, <1>7, <1>8, <1>9, <1>10, <1>11, <1>12, <1>13,
     <1>14 DEF Next

\* What the harness accepted as finished is reported as completed.
LEMMA ResolvedIs ==
    ASSUME EvidenceInv, EndInv, status # "running",
           NEW evaluation, evaluation = SpecificationVerdict(criteria, evidence)
    PROVE  /\ ResolvedStatus(evaluation) \in {"completed", "failed", "max_iterations"}
           /\ ResolvedStatus(evaluation) = "completed" <=> status = "completed"
<1>1. status = "completed" => evaluation = "pass"
  BY DEF EvidenceInv, CompletedIsPass
<1>2. CASE status = "max_iterations"
  BY <1>2 DEF ResolvedStatus
<1>3. CASE status = "completed"
  BY <1>1, <1>3 DEF ResolvedStatus
<1>4. CASE status \in {"failed", "stopped"}
  BY <1>4 DEF ResolvedStatus
<1>5. QED
  BY <1>2, <1>3, <1>4 DEF EndInv, Ends

-----------------------------------------------------------------------------
LEMMA ConstructionStarts == ConstructionInit => ConstructionInv
<1> SUFFICES ASSUME ConstructionInit PROVE ConstructionInv
  OBVIOUS
<1>1. Init /\ result = NoResult
  BY DEF ConstructionInit
<1>2. EvidenceInv
  BY <1>1, SessionStarts
<1>3. EndInv /\ RefusedInv
  BY <1>1 DEF Init, EndInv, RefusedInv
<1>4. QED
  BY <1>1, <1>2, <1>3 DEF ConstructionInv, ResultInv

LEMMA ConstructionKeeps ==
    ASSUME ConstructionInv, [ConstructionNext]_constructionVars
    PROVE  ConstructionInv'
<1>1. EvidenceInv /\ EndInv /\ RefusedInv /\ ResultInv
  BY DEF ConstructionInv
<1>2. IsValid(draft') = IsValid(draft) /\ draft' = draft
  BY DEF ConstructionNext, RejectSpecification, RunSession, Conclude, Concluded,
         constructionVars
<1>3. [Next]_vars
  BY DEF ConstructionNext, RejectSpecification, RunSession, Conclude, Concluded,
         constructionVars
<1>4. EvidenceInv' /\ EndInv'
  BY <1>1, <1>3, StepIs, IdleKeeps, RanKeeps, MissedKeeps, StepEnds
<1>5. CASE RejectSpecification
  <2>1. result'.status = "invalid_specification"
    BY <1>5 DEF RejectSpecification, Result
  <2>2. RefusedInv' /\ ResultInv'
    BY <1>1, <1>2, <1>5, <2>1 DEF RejectSpecification, RefusedInv, ResultInv, vars
  <2>3. QED
    BY <1>4, <2>2 DEF ConstructionInv
<1>6. CASE RunSession
  <2>1. RefusedInv' /\ ResultInv'
    BY <1>2, <1>6 DEF RunSession, RefusedInv, ResultInv, NoResult, Result
  <2>2. QED
    BY <1>4, <2>1 DEF ConstructionInv
<1>7. CASE Conclude
  <2> DEFINE evaluation == SpecificationVerdict(criteria, evidence)
  <2>1. result'.status = ResolvedStatus(evaluation)
    BY <1>7 DEF Conclude, Result
  <2>2. /\ result'.status \in {"completed", "failed", "max_iterations"}
        /\ result'.status = "completed" <=> status = "completed"
    BY <1>1, <1>7, <2>1, ResolvedIs DEF Conclude
  <2>3. RefusedInv' /\ ResultInv'
    BY <1>2, <1>7, <2>2 DEF Conclude, RefusedInv, ResultInv, vars
  <2>4. QED
    BY <1>4, <2>3 DEF ConstructionInv
<1>8. CASE UNCHANGED constructionVars
  <2>1. RefusedInv' /\ ResultInv'
    BY <1>1, <1>2, <1>8 DEF RefusedInv, ResultInv, constructionVars, vars, NoResult, Result
  <2>2. QED
    BY <1>4, <2>1 DEF ConstructionInv
<1>9. QED
  BY <1>5, <1>6, <1>7, <1>8 DEF ConstructionNext, Concluded

\* A construction reports "completed" exactly when its session was allowed to finish
\* and did, and refuses a draft only before anything has run
\* (autonomous_construction.rs, run and resolve_status).
THEOREM ConstructionReports == ConstructionSpec => []ReportedAsItEnded
<1>1. ConstructionInv => ReportedAsItEnded
  BY DEF ConstructionInv, EndInv, RefusedInv, ResultInv, ReportedAsItEnded
<1>2. QED
  BY <1>1, ConstructionStarts, ConstructionKeeps, PTL DEF ConstructionSpec

\* The session a construction runs is a session like any other: what it answers, applies
\* and observes is what HarnessSession promises (autonomous_construction.rs, run, which
\* starts a HarnessRuntime and its loop).
THEOREM ConstructionKeepsSession ==
    ConstructionSpec =>
        /\ ImplementsVersions
        /\ [](PolicyForesees /\ ViewsAgree /\ OnlyKnownGaps /\ CompletedIsPass)
        /\ BlankIsForever
<1>1. ConstructionInit => Init
  BY DEF ConstructionInit
<1>2. [ConstructionNext]_constructionVars => [Next]_vars
  BY DEF ConstructionNext, RejectSpecification, RunSession, Conclude, Concluded, constructionVars
<1>3. ConstructionSpec => Spec
  BY <1>1, <1>2, PTL DEF ConstructionSpec, Spec
<1>4. QED
  BY <1>3, VersionsAreWhole, PolicyIsForeseeing, ViewsStayEqual, GapsStayKnown,
     FinishedIsSatisfied, BlankStays, PTL
=============================================================================
