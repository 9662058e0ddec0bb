------------------------ MODULE GuidedSessionProofs ------------------------
(***************************************************************************)
(* What the guidance of a session and its report promise, for every        *)
(* specification, agent, driver, size of the windows and number of         *)
(* iterations, whatever the model answers and the tools say.               *)
(*                                                                         *)
(* The guidance reads the newest observations and the newest outcome, two  *)
(* memories that are written apart: RecentInv says how they agree.  A      *)
(* finish reads the observed verdicts, the report the history: EarnedInv   *)
(* ties those.                                                             *)
(***************************************************************************)
EXTENDS GuidedSession, SequenceTheorems, WellFoundedInduction, TLAPS

Seen == [kind : {"outcome", "verdict", "rejected", "specification", "finished"},
         tool : Decisions \cup {"none"}, result : Results \cup Verdicts]

TypeInv ==
    /\ criteria \in Specifications
    /\ agent \in {"model", "mock", "gap"} /\ driver \in {"goal_driven", "plain"}
    /\ known \in [Known -> Verdicts] /\ earned \in [Known -> Verdicts]

\* The newest outcome that is still quoted is the newest of all, and a verdict is the newest
\* observation only right after its tool ran.
RecentInv ==
    /\ recent \in Seq(Seen)
    /\ \A i \in 1..Len(recent) :
          /\ recent[i].kind = "outcome"
          /\ \A j \in 1..(i - 1) : recent[j].kind # "outcome"
          => recent[i] = lastOutcome
    /\ recent # <<>> /\ recent[1].kind = "verdict" => lastOutcome.tool \in Gates

\* What was observed to pass has passed by the history of the loop, and nothing since has
\* taken it back.
EarnedInv ==
    /\ DOMAIN observed = DOMAIN criteria
    /\ \A i \in DOMAIN criteria :
          observed[i] = "pass" =>
              /\ criteria[i].kind \in Known
              /\ i \in Evaluated(criteria, ToolOf[criteria[i].kind])
              /\ earned[criteria[i].kind] = "pass"

EndInv ==
    /\ status \in {"running", "presatisfied", "completed", "failed", "stopped", "max_iterations"}
    /\ status = "presatisfied" => driver = "goal_driven"
    /\ status \in {"completed", "failed"} => SatisfiedBy(earned)
    /\ status = "failed" => spoke

GuidedInv == TypeInv /\ RecentInv /\ EarnedInv /\ EndInv

-----------------------------------------------------------------------------
(***************************************************************************)
(* Kinds and tools.                                                        *)
(***************************************************************************)
LEMMA KnownIs == Known = {"compile", "validate", "run_tests", "clippy", "check_format"}
BY DEF Known, ToolOf

LEMMA GatesAre == Gates = {"compile", "validate", "run_tests", "run_clippy", "check_format"}
BY DEF Gates, ToolOf

LEMMA KindsAre == Kinds = Known \cup {"unknown"} /\ "unknown" \notin Known
BY KnownIs DEF Kinds, Known

LEMMA ToolsOfKinds ==
    /\ \A kind \in Known : ToolOf[kind] \in Gates
    /\ \A kind, other \in Known : ToolOf[kind] = ToolOf[other] => kind = other
    /\ \A tool \in Gates : KindOf(tool) \in Known /\ ToolOf[KindOf(tool)] = tool
<1>1. \A kind \in Known : ToolOf[kind] \in Gates
  BY KnownIs, GatesAre DEF ToolOf
<1>2. \A kind, other \in Known : ToolOf[kind] = ToolOf[other] => kind = other
  BY KnownIs DEF ToolOf
<1>3. \A tool \in Gates : \E kind \in Known : ToolOf[kind] = tool
  BY KnownIs, GatesAre DEF ToolOf
<1>4. QED
  BY <1>1, <1>2, <1>3 DEF KindOf

LEMMA ToolsAre ==
    Tools = {"compile", "validate", "run_tests", "run_clippy", "check_format",
             "apply_correction", "apply_file_operations", "repair_diagnostic"}
BY GatesAre DEF Tools, Mutations

LEMMA KindIn == ASSUME NEW S, NEW T, NEW x \in [id : S, kind : T] PROVE x.kind \in T
OBVIOUS

LEMMA KindsOfCriteria ==
    ASSUME criteria \in Specifications
    PROVE  /\ \A i \in DOMAIN criteria : criteria[i].kind \in Kinds
           /\ criteria # <<>> <=> DOMAIN criteria # {}
           /\ KindsAsked \subseteq Kinds
<1>0. criteria \in Seq([id : IdsOf(criteria), kind : Kinds])
  BY GuidedAssumption
<1> DEFINE S == [id : IdsOf(criteria), kind : Kinds]
<1>1. criteria \in Seq(S)
  BY <1>0
<1>2. \A x \in S : x.kind \in Kinds
  BY KindIn
<1> HIDE DEF S
<1>3. \A i \in DOMAIN criteria : criteria[i].kind \in Kinds
  BY <1>1, <1>2
<1>4. criteria # <<>> <=> DOMAIN criteria # {}
  BY <1>1
<1>5. QED
  BY <1>3, <1>4 DEF KindsAsked

-----------------------------------------------------------------------------
(***************************************************************************)
(* The gap that comes first.                                               *)
(***************************************************************************)
LEMMA Smallest ==
    ASSUME NEW S, S \subseteq Nat, S # {}
    PROVE  \E x \in S : \A y \in S : x <= y
<1> DEFINE R == OpToRel(<, Nat)
<1>1. IsWellFoundedOn(R, Nat)
  BY NatLessThanWellFounded
<1>2. \A x, y \in Nat : <<y, x>> \in R <=> y < x
  BY DEF OpToRel
<1> HIDE DEF R
<1>3. PICK x \in S : \A y \in S : ~ (<<y, x>> \in R)
  BY <1>1, WFMin
<1>4. ASSUME NEW y \in S PROVE x <= y
  <2>1. x \in Nat /\ y \in Nat /\ ~(y < x)
    BY <1>2, <1>3
  <2>2. QED
    BY <2>1
<1>5. QED
  BY <1>4

LEMMA Priorities ==
    /\ Priority["compile"] = 0 /\ Priority["validate"] = 1 /\ Priority["run_tests"] = 2
    /\ Priority["clippy"] = 3 /\ Priority["check_format"] = 4 /\ Priority["unknown"] = 254
    /\ \A kind \in Kinds : Priority[kind] \in Nat
<1>1. /\ Priority["compile"] = 0 /\ Priority["validate"] = 1 /\ Priority["run_tests"] = 2
      /\ Priority["clippy"] = 3 /\ Priority["check_format"] = 4 /\ Priority["unknown"] = 254
  BY DEF Priority
<1>2. QED
  BY <1>1, KindsAre, KnownIs

LEMMA FirstGap ==
    ASSUME criteria \in Specifications, Gaps # {}
    PROVE  /\ PrimaryGap \in Gaps /\ PrimaryGap \in Kinds
           /\ \A other \in Gaps : Priority[PrimaryGap] <= Priority[other]
<1> DEFINE urgencies == {Priority[kind] : kind \in Gaps}
<1>1. Gaps \subseteq Kinds
  BY KindsOfCriteria DEF Gaps
<1>2. urgencies \subseteq Nat /\ urgencies # {}
  BY <1>1, Priorities
<1>3. PICK least \in urgencies : \A other \in urgencies : least <= other
  BY <1>2, Smallest
<1>4. \E kind \in Gaps : \A other \in Gaps : Priority[kind] <= Priority[other]
  BY <1>3
<1>5. PrimaryGap \in Gaps /\ \A other \in Gaps : Priority[PrimaryGap] <= Priority[other]
  BY <1>4 DEF PrimaryGap
<1>6. QED
  BY <1>1, <1>5

LEMMA RecommendedTyped ==
    ASSUME TypeInv
    PROVE  Recommended \in Tools \cup {"finish_allowed", "no_action"}
<1>1. Gaps # {} => PrimaryGap \in Kinds
  BY FirstGap DEF TypeInv
<1>2. \A kind \in Kinds : RecommendedFor(kind) \in Tools \cup {"no_action"}
  BY KindsAre, ToolsOfKinds, GatesAre, ToolsAre DEF RecommendedFor
<1>3. QED
  BY <1>1, <1>2, ToolsAre DEF Recommended

LEMMA DirectedTyped ==
    ASSUME TypeInv, HasAction
    PROVE  Directed \subseteq Tools /\ Recommended \in Tools
BY RecommendedTyped, ToolsAre DEF Directed, DiagnosisOrBuild, HasAction

LEMMA GuidedTyped ==
    ASSUME TypeInv, NEW decision \in Decisions
    PROVE  Guided(decision) \subseteq Decisions
<1>1. HasAction => Directed \subseteq Decisions
  BY DirectedTyped DEF Decisions
<1>2. "compile" \in Decisions
  BY ToolsAre DEF Decisions
<1>3. QED
  BY <1>1, <1>2 DEF Guided

LEMMA MockTyped ==
    ASSUME TypeInv
    PROVE  MockDecisions \subseteq Decisions
<1>1. HasAction => Directed \subseteq Decisions
  BY DirectedTyped DEF Decisions
<1>2. {"compile", "validate", "repair_diagnostic", "apply_correction", "finish"} \subseteq Decisions
  BY ToolsAre DEF Decisions
<1>3. DiagnosisOrBuild \subseteq Decisions
  BY <1>2 DEF DiagnosisOrBuild
<1>4. OrFinish \subseteq Decisions
  BY <1>1, <1>2 DEF OrFinish
<1>5. QED
  BY <1>1, <1>2, <1>3, <1>4, SMTT(30) DEF MockDecisions

\* What a run of a tool can be of.
LEMMA ProposedIs ==
    ASSUME TypeInv, NEW tool \in Proposals \ {"finish"}
    PROVE  /\ tool \in Tools
           /\ Guidance => \E decision \in Decisions : tool \in Guided(decision)
<1>1. CASE agent = "gap"
  <2>1. GapDecision \in Tools \cup {"finish"}
    BY RecommendedTyped, ToolsAre DEF GapDecision, HasAction
  <2>2. Proposals = {GapDecision}
    BY <1>1 DEF Proposals
  <2>3. QED
    BY <1>1, <2>1, <2>2 DEF Guidance, GuidedAgents
<1>2. CASE agent = "mock"
  <2>1. Proposals = UNION {Guided(decision) : decision \in MockDecisions}
    BY <1>2 DEF Proposals
  <2>2. PICK decision \in MockDecisions : tool \in Guided(decision)
    BY <2>1
  <2>3. decision \in Decisions
    BY MockTyped
  <2>4. QED
    BY <2>2, <2>3, GuidedTyped DEF Decisions
<1>3. CASE agent = "model"
  <2>1. Proposals = UNION {Guided(decision) : decision \in Decisions}
    BY <1>3 DEF Proposals
  <2>2. PICK decision \in Decisions : tool \in Guided(decision)
    BY <2>1
  <2>3. QED
    BY <2>2, GuidedTyped DEF Decisions
<1>4. QED
  BY <1>1, <1>2, <1>3 DEF TypeInv

-----------------------------------------------------------------------------
(***************************************************************************)
(* The window of the newest observations.                                  *)
(***************************************************************************)
LEMMA WindowIs ==
    ASSUME recent \in Seq(Seen), NEW new \in Seq(Seen), new # <<>>, See(new)
    PROVE  /\ recent' \in Seq(Seen) /\ recent' # <<>>
           /\ \A i \in 1..Len(recent') :
                 /\ i <= Len(new) => recent'[i] = new[i]
                 /\ i > Len(new) => /\ i - Len(new) \in 1..Len(recent)
                                    /\ recent'[i] = recent[i - Len(new)]
<1> DEFINE all == new \o recent
           size == IF Len(all) < DiagnosticWindow THEN Len(all) ELSE DiagnosticWindow
<1>1. /\ all \in Seq(Seen) /\ Len(all) = Len(new) + Len(recent)
      /\ \A i \in 1..Len(all) : all[i] = IF i <= Len(new) THEN new[i] ELSE recent[i - Len(new)]
  BY ConcatProperties
<1>2. recent' = SubSeq(all, 1, size)
  BY DEF See
<1>3. Len(new) \in Nat /\ Len(recent) \in Nat /\ Len(new) > 0
  BY EmptySeq, LenProperties
<1> HIDE DEF all
<1>4. DiagnosticWindow \in Nat /\ DiagnosticWindow > 0
  BY GuidedAssumption
<1>5. size \in 1..Len(all)
  BY <1>1, <1>3, <1>4
<1> HIDE DEF size
<1>6. /\ recent' \in Seq(Seen) /\ Len(recent') = size
      /\ \A i \in 1..size : recent'[i] = all[i]
  BY <1>1, <1>2, <1>5
<1>7. recent' # <<>>
  BY <1>5, <1>6
<1>8. ASSUME NEW i \in 1..Len(recent')
      PROVE  /\ i <= Len(new) => recent'[i] = new[i]
             /\ i > Len(new) => /\ i - Len(new) \in 1..Len(recent)
                                /\ recent'[i] = recent[i - Len(new)]
  <2>1. i \in 1..Len(all) /\ recent'[i] = all[i]
    BY <1>1, <1>3, <1>5, <1>6
  <2>2. QED
    BY <2>1, <1>1, <1>3
<1>9. QED
  BY <1>6, <1>7, <1>8

\* What is seen of a refusal hides no outcome.
LEMMA RefusalSeen ==
    ASSUME RecentInv, NEW seen \in Seen, seen.kind \in {"rejected", "finished"}, See(<<seen>>),
           UNCHANGED lastOutcome
    PROVE  RecentInv'
<1> DEFINE new == <<seen>>
<1>1. new \in Seq(Seen) /\ new # <<>> /\ Len(new) = 1 /\ new[1] = seen
  OBVIOUS
<1> HIDE DEF new
<1>2. /\ recent' \in Seq(Seen) /\ recent' # <<>>
      /\ \A i \in 1..Len(recent') :
            /\ i <= 1 => recent'[i] = new[i]
            /\ i > 1 => i - 1 \in 1..Len(recent) /\ recent'[i] = recent[i - 1]
  BY <1>1, WindowIs, Zenon DEF RecentInv, new
<1>3. Len(recent') \in Nat /\ 1 \in 1..Len(recent')
  BY <1>2, EmptySeq, LenProperties
<1>4. recent'[1].kind \in {"rejected", "finished"}
  BY <1>1, <1>2, <1>3
<1>5. ASSUME NEW i \in 1..Len(recent'), recent'[i].kind = "outcome",
             \A j \in 1..(i - 1) : recent'[j].kind # "outcome"
      PROVE  recent'[i] = lastOutcome'
  <2>1. i > 1
    BY <1>4, <1>5
  <2>2. i - 1 \in 1..Len(recent) /\ recent'[i] = recent[i - 1]
    BY <1>2, <2>1
  <2>3. ASSUME NEW j \in 1..(i - 1 - 1) PROVE recent[j].kind # "outcome"
    <3>1. j + 1 \in 1..(i - 1) /\ j + 1 \in 1..Len(recent') /\ j + 1 > 1 /\ (j + 1) - 1 = j
      BY <1>3
    <3>2. recent'[j + 1] = recent[j]
      BY <1>2, <3>1
    <3>3. QED
      BY <1>5, <3>1, <3>2
  <2>4. QED
    BY <1>5, <2>2, <2>3 DEF RecentInv
<1>6. QED
  BY <1>2, <1>4, <1>5 DEF RecentInv

\* A run is seen as its outcome, below the verdict if there is one.
LEMMA RunSeen ==
    ASSUME TypeInv, RecentInv, NEW tool \in Tools, NEW result \in Results, RunTool(tool, result)
    PROVE  RecentInv'
<1> DEFINE judged == Evaluated(criteria, tool)
           evaluated == Observation("verdict", tool, IF result = "none"
                          THEN "insufficient_evidence" ELSE VerdictOf(result))
           outcome == Outcome(tool, result)
           told == IF judged = {} THEN <<>> ELSE <<evaluated>>
           new == told \o <<outcome>>
<1>1. /\ evaluated \in Seen /\ outcome \in Seen
      /\ evaluated.kind = "verdict" /\ outcome.kind = "outcome"
  BY DEF Seen, Observation, Outcome, VerdictOf, Verdicts, Results, Decisions
<1>2. lastOutcome' = outcome
  BY DEF RunTool
<1>3. See(new)
  BY Zenon DEF RunTool
<1> HIDE DEF evaluated, outcome
<1>4. /\ told \in Seq(Seen) /\ Len(told) \in 0..1
      /\ Len(told) = 1 => judged # {} /\ told[1] = evaluated
  BY <1>1
<1>5. /\ <<outcome>> \in Seq(Seen) /\ Len(<<outcome>>) = 1 /\ <<outcome>>[1] = outcome
  BY <1>1
<1> HIDE DEF told
<1>6. /\ new \in Seq(Seen) /\ new # <<>> /\ Len(new) \in 1..2 /\ new[Len(new)] = outcome
      /\ Len(new) = 2 => judged # {} /\ new[1] = evaluated
  <2> DEFINE last == <<outcome>>
  <2> HIDE DEF last
  <2>1. /\ told \o last \in Seq(Seen) /\ Len(told \o last) = Len(told) + 1
        /\ \A i \in 1..(Len(told) + 1) :
              (told \o last)[i] = IF i <= Len(told) THEN told[i] ELSE last[i - Len(told)]
    BY <1>4, <1>5, ConcatProperties, Zenon DEF last
  <2>2. Len(told) = 0 => (told \o last)[1] = last[1]
    <3>1. Len(told) = 0 => 1 \in 1..(Len(told) + 1) /\ ~(1 <= Len(told)) /\ 1 - Len(told) = 1
      OBVIOUS
    <3>2. Len(told) = 0 => (told \o last)[1] = last[1 - Len(told)]
      BY <2>1, <3>1
    <3>3. QED
      BY <3>1, <3>2, Zenon
  <2>3. Len(told) = 1 => (told \o last)[1] = told[1] /\ (told \o last)[2] = last[1]
    BY <2>1
  <2>4. last[1] = outcome
    BY <1>5, Zenon DEF last
  <2>5. new = told \o last
    BY DEF last
  <2> HIDE DEF new
  <2>6. QED
    BY <1>4, <2>1, <2>2, <2>3, <2>4, <2>5, EmptySeq
<1>7. judged # {} => tool \in Gates
  <2>1. \A i \in DOMAIN criteria : criteria[i].kind \in Kinds
    BY KindsOfCriteria DEF TypeInv
  <2>2. QED
    BY <2>1, KindsAre, ToolsOfKinds DEF Evaluated
<1> HIDE DEF new, judged
<1>8. /\ recent' \in Seq(Seen) /\ recent' # <<>>
      /\ \A i \in 1..Len(recent') : i <= Len(new) => recent'[i] = new[i]
  BY <1>6, <1>3, WindowIs DEF RecentInv
<1>9. Len(recent') \in Nat /\ 1 \in 1..Len(recent')
  BY <1>8, EmptySeq, LenProperties
<1>10. ASSUME NEW i \in 1..Len(recent'), recent'[i].kind = "outcome",
              \A j \in 1..(i - 1) : recent'[j].kind # "outcome"
       PROVE  recent'[i] = lastOutcome'
  <2>1. i <= Len(new)
    <3>1. SUFFICES ASSUME i > Len(new) PROVE FALSE
      BY <1>6
    <3>2. Len(new) \in 1..(i - 1) /\ Len(new) \in 1..Len(recent')
      BY <1>6, <1>9, <3>1
    <3>3. recent'[Len(new)] = outcome
      BY <1>6, <1>8, <3>2
    <3>4. QED
      BY <1>1, <1>10, <3>2, <3>3
  <2>2. recent'[i] = new[i]
    BY <1>8, <2>1
  <2>3. i = Len(new)
    <3>1. CASE Len(new) = 1
      BY <2>1, <3>1
    <3>2. CASE Len(new) = 2 /\ i = 1
      <4>1. recent'[i] = evaluated
        BY <1>6, <2>2, <3>2
      <4>2. QED
        BY <1>1, <1>10, <4>1
    <3>3. QED
      BY <1>6, <2>1, <3>1, <3>2
  <2>4. QED
    BY <1>2, <1>6, <2>2, <2>3
<1>11. recent'[1].kind = "verdict" => lastOutcome'.tool \in Gates
  <2>1. recent'[1] = new[1]
    BY <1>6, <1>8, <1>9
  <2>2. CASE Len(new) = 2
    <3>1. tool \in Gates
      BY <1>6, <1>7, <2>2
    <3>2. lastOutcome'.tool = tool
      BY <1>2 DEF outcome, Outcome, Observation
    <3>3. QED
      BY <3>1, <3>2
  <2>3. CASE Len(new) = 1
    BY <1>1, <1>6, <2>1, <2>3
  <2>4. QED
    BY <1>6, <2>2, <2>3
<1>12. QED
  BY <1>8, <1>10, <1>11 DEF RecentInv

-----------------------------------------------------------------------------
(***************************************************************************)
(* The steps.  A step that is no run of a tool changes no verdict and no   *)
(* outcome.                                                                *)
(***************************************************************************)
Ran == \E tool \in Proposals \ {"finish"} : \E result \in Results : RunTool(tool, result)

Idle ==
    /\ UNCHANGED <<criteria, agent, driver, known, earned, observed, lastOutcome>>
    /\ \/ UNCHANGED recent
       \/ \E seen \in Seen : seen.kind \in {"rejected", "finished"} /\ See(<<seen>>)

LEMMA StepIs ==
    ASSUME TypeInv, [Next]_vars
    PROVE  Ran \/ Idle
<1>1. ASSUME Run PROVE Ran
  <2>1. \A tool : ResultsOf(tool) \subseteq Results
    BY DEF ResultsOf, Results
  <2>2. QED
    BY <1>1, <2>1 DEF Run, Ran
<1>2. ASSUME Refused PROVE Idle
  <2>1. PICK decision \in Proposals : Refuse(decision)
    BY <1>2 DEF Refused
  <2>2. decision \in Decisions
    <3>1. decision # "finish" => decision \in Tools
      BY ProposedIs
    <3>2. QED
      BY <3>1 DEF Decisions
  <2> DEFINE seen == Observation("rejected", decision,
                         IF decision = "finish" /\ FinishBlockedByFail THEN "fail" ELSE "none")
  <2>3. seen \in Seen /\ seen.kind \in {"rejected", "finished"}
    BY <2>2 DEF Seen, Observation, Results, Verdicts
  <2>4. See(<<seen>>) /\ UNCHANGED <<criteria, agent, driver, known, earned, observed, lastOutcome>>
    BY <2>1, Zenon DEF Refuse, Iterate
  <2> HIDE DEF seen
  <2>5. QED
    BY <2>3, <2>4 DEF Idle
<1>3. ASSUME Finish PROVE Idle
  BY <1>3 DEF Finish, Iterate, Idle
<1>4. ASSUME ProposalFails PROVE Idle
  <2> DEFINE seen == Observation(IF FinishAllowed THEN "finished" ELSE "rejected", "finish",
                         IF ~FinishAllowed /\ FinishBlockedByFail THEN "fail" ELSE "none")
  <2>1. seen \in Seen /\ seen.kind \in {"rejected", "finished"}
    BY DEF Seen, Observation, Results, Verdicts, Decisions
  <2>2. See(<<seen>>) /\ UNCHANGED <<criteria, agent, driver, known, earned, observed, lastOutcome>>
    BY <1>4, Zenon DEF ProposalFails, Iterate
  <2> HIDE DEF seen
  <2>3. QED
    BY <2>1, <2>2 DEF Idle
<1>5. ASSUME IterationsExhausted \/ Returned \/ UNCHANGED vars PROVE Idle
  BY <1>5 DEF IterationsExhausted, Returned, vars, Idle
<1>6. QED
  BY <1>1, <1>2, <1>3, <1>4, <1>5 DEF Next

\* What a run adds to the verdicts of a view.
LEMMA ToldIs ==
    ASSUME NEW view \in [Known -> Verdicts], NEW tool \in Tools, NEW result \in Results
    PROVE  /\ Told(view, tool, result) \in [Known -> Verdicts]
           /\ \A kind \in Known :
                 Told(view, tool, result)[kind] =
                     IF ToolOf[kind] = tool /\ result # "none"
                     THEN VerdictOf(result) ELSE view[kind]
<1>1. VerdictOf(result) \in Verdicts
  BY DEF VerdictOf, Verdicts
<1>2. CASE tool \in Gates /\ result # "none"
  <2>1. Told(view, tool, result) = [view EXCEPT ![KindOf(tool)] = VerdictOf(result)]
    BY <1>2 DEF Told
  <2>2. /\ KindOf(tool) \in Known
        /\ \A kind \in Known : kind = KindOf(tool) <=> ToolOf[kind] = tool
    BY <1>2, ToolsOfKinds
  <2>3. QED
    BY <1>1, <1>2, <2>1, <2>2
<1>3. CASE ~(tool \in Gates /\ result # "none")
  <2>1. Told(view, tool, result) = view
    BY <1>3 DEF Told
  <2>2. \A kind \in Known : ~(ToolOf[kind] = tool /\ result # "none")
    BY <1>3, ToolsOfKinds
  <2>3. QED
    BY <2>1, <2>2
<1>4. QED
  BY <1>2, <1>3

LEMMA EarnedAfter ==
    ASSUME TypeInv, EarnedInv, NEW tool \in Tools, NEW result \in Results, RunTool(tool, result)
    PROVE  EarnedInv'
<1> DEFINE judged == Evaluated(criteria, tool)
           verdict == IF result = "none" THEN "insufficient_evidence" ELSE VerdictOf(result)
<1>1. /\ UNCHANGED criteria
      /\ earned' = Told(earned, tool, result)
      /\ observed' = [i \in DOMAIN criteria |-> IF i \in judged THEN verdict ELSE observed[i]]
  BY Zenon DEF RunTool, Iterate
<1>2. verdict = "pass" => result # "none" /\ VerdictOf(result) = "pass"
  OBVIOUS
<1>3. \A kind \in Known :
         earned'[kind] = IF ToolOf[kind] = tool /\ result # "none"
                         THEN VerdictOf(result) ELSE earned[kind]
  BY <1>1, ToldIs DEF TypeInv
<1>4. \A i \in DOMAIN criteria : criteria[i].kind \in Kinds
  BY KindsOfCriteria DEF TypeInv
<1>5. ASSUME NEW i \in judged
      PROVE  criteria[i].kind \in Known /\ ToolOf[criteria[i].kind] = tool
  BY <1>4, <1>5, KindsAre DEF Evaluated
<1> HIDE DEF verdict
<1>6. ASSUME NEW i \in DOMAIN criteria, observed'[i] = "pass"
      PROVE  /\ criteria[i].kind \in Known
             /\ i \in Evaluated(criteria, ToolOf[criteria[i].kind])
             /\ earned'[criteria[i].kind] = "pass"
  <2>1. CASE i \in judged
    <3>1. verdict = "pass"
      BY <1>1, <1>6, <2>1
    <3>2. QED
      BY <1>2, <1>3, <1>5, <2>1, <3>1
  <2>2. CASE i \notin judged
    <3>1. observed[i] = "pass"
      BY <1>1, <1>6, <2>2
    <3>2. /\ criteria[i].kind \in Known
          /\ i \in Evaluated(criteria, ToolOf[criteria[i].kind])
          /\ earned[criteria[i].kind] = "pass"
      BY <3>1 DEF EarnedInv
    <3>3. ToolOf[criteria[i].kind] # tool
      BY <2>2, <3>2
    <3>4. QED
      BY <1>3, <3>2, <3>3
  <2>3. QED
    BY <2>1, <2>2
<1> HIDE DEF judged
<1>7. DOMAIN observed' = DOMAIN criteria
  BY <1>1
<1>8. \A i : Evaluated(criteria', ToolOf[criteria'[i].kind])
                = Evaluated(criteria, ToolOf[criteria[i].kind])
  BY <1>1
<1>9. QED
  BY <1>1, <1>6, <1>7, <1>8 DEF EarnedInv

LEMMA FinishIsEarned ==
    ASSUME EarnedInv, FinishAllowed
    PROVE  SatisfiedBy(earned)
<1>1. ASSUME NEW i \in DOMAIN criteria PROVE VerdictIn(earned, criteria[i].kind) = "pass"
  <2>1. criteria[i].kind \in Known /\ earned[criteria[i].kind] = "pass"
    BY DEF EarnedInv, FinishAllowed
  <2>2. QED
    BY <2>1, KindsAre DEF VerdictIn
<1>2. QED
  BY <1>1 DEF SatisfiedBy, FinishAllowed

LEMMA EndAfter ==
    ASSUME GuidedInv, [Next]_vars
    PROVE  EndInv'
<1>1. ASSUME Run \/ Refused PROVE EndInv'
  <2>1. Continue
    BY <1>1 DEF Run, RunTool, Refused, Refuse
  <2>2. status' \in {"running", "stopped"}
    BY <2>1 DEF Continue
  <2>3. QED
    BY <2>2 DEF EndInv
<1>2. ASSUME Finish PROVE EndInv'
  <2>1. /\ FinishAllowed /\ status' \in {"completed", "failed"} /\ (status' = "failed" => spoke')
        /\ UNCHANGED <<criteria, earned>>
    BY <1>2 DEF Finish, Iterate
  <2>2. SatisfiedBy(earned)
    BY <2>1, FinishIsEarned DEF GuidedInv
  <2>3. SatisfiedBy(earned)'
    BY <2>1, <2>2 DEF SatisfiedBy, VerdictIn
  <2>4. QED
    BY <2>1, <2>3 DEF EndInv
<1>3. ASSUME ProposalFails \/ IterationsExhausted PROVE EndInv'
  <2>1. status' \in {"running", "stopped", "max_iterations"}
    BY <1>3 DEF ProposalFails, IterationsExhausted
  <2>2. QED
    BY <2>1 DEF EndInv
<1>4. ASSUME UNCHANGED vars PROVE EndInv'
  BY <1>4 DEF vars, GuidedInv, EndInv, SatisfiedBy, VerdictIn
<1>5. QED
  BY <1>1, <1>2, <1>3, <1>4 DEF Next, Returned

LEMMA StepKeeps ==
    ASSUME GuidedInv, [Next]_vars
    PROVE  GuidedInv'
<1>1. EndInv'
  BY EndAfter
<1>2. ASSUME Ran PROVE TypeInv' /\ RecentInv' /\ EarnedInv'
  <2>1. PICK tool \in Proposals \ {"finish"} : \E result \in Results : RunTool(tool, result)
    BY <1>2 DEF Ran
  <2>2. PICK result \in Results : RunTool(tool, result)
    BY <2>1
  <2>3. tool \in Tools
    BY ProposedIs DEF GuidedInv
  <2>4. RecentInv'
    BY <2>2, <2>3, RunSeen DEF GuidedInv
  <2>5. EarnedInv'
    BY <2>2, <2>3, EarnedAfter DEF GuidedInv
  <2>6. /\ UNCHANGED <<criteria, agent, driver>>
        /\ known' = Told(known, tool, result) /\ earned' = Told(earned, tool, result)
    BY <2>2, Zenon DEF RunTool, Iterate
  <2>7. TypeInv'
    BY <2>3, <2>6, ToldIs DEF GuidedInv, TypeInv
  <2>8. QED
    BY <2>4, <2>5, <2>7
<1>3. ASSUME Idle PROVE TypeInv' /\ RecentInv' /\ EarnedInv'
  <2>1. TypeInv'
    BY <1>3 DEF Idle, GuidedInv, TypeInv
  <2>2. EarnedInv'
    BY <1>3 DEF Idle, GuidedInv, EarnedInv, Evaluated
  <2>3. RecentInv'
    <3>1. CASE UNCHANGED recent
      BY <1>3, <3>1 DEF Idle, GuidedInv, RecentInv
    <3>2. CASE \E seen \in Seen : seen.kind \in {"rejected", "finished"} /\ See(<<seen>>)
      BY <1>3, <3>2, RefusalSeen DEF Idle, GuidedInv
    <3>3. QED
      BY <1>3, <3>1, <3>2 DEF Idle
  <2>4. QED
    BY <2>1, <2>2, <2>3
<1>4. QED
  BY <1>1, <1>2, <1>3, StepIs DEF GuidedInv

LEMMA SessionStarts ==
    ASSUME Init
    PROVE  GuidedInv
<1>1. /\ \/ earlier = NoRun
         \/ /\ earlier.kind = "outcome" /\ earlier.tool \in Gates
            /\ earlier.result \in {"ok", "error"} /\ earlier \in Seen
      /\ earlier \in Seen
  <2>1. NoRun \in Seen
    BY DEF NoRun, Outcome, Observation, Seen, Results
  <2>2. ASSUME NEW tool \in Gates, NEW result \in {"ok", "error"}
        PROVE  /\ Outcome(tool, result) \in Seen /\ Outcome(tool, result).kind = "outcome"
               /\ Outcome(tool, result).tool = tool /\ Outcome(tool, result).result = result
    BY DEF Outcome, Observation, Seen, Results, Decisions, Tools
  <2>3. earlier \in {NoRun}
            \cup {Outcome(tool, result) : tool \in Gates, result \in {"ok", "error"}}
    BY GuidedAssumption DEF Init
  <2>4. QED
    BY <2>1, <2>2, <2>3
<1>2. NoVerdicts \in [Known -> Verdicts]
  BY DEF NoVerdicts, Verdicts
<1>3. Told(NoVerdicts, earlier.tool, earlier.result) \in [Known -> Verdicts]
  <2>1. CASE earlier = NoRun
    <3>1. earlier.result = "none"
      BY <2>1 DEF NoRun, Outcome, Observation
    <3>2. QED
      BY <1>2, <3>1 DEF Told
  <2>2. CASE earlier.tool \in Gates /\ earlier.result \in {"ok", "error"}
    BY <1>2, <2>2, ToldIs DEF Tools, Results
  <2>3. QED
    BY <1>1, <2>1, <2>2
<1>4. TypeInv
  BY <1>2, <1>3, GuidedAssumption DEF Init, TypeInv
<1>5. EarnedInv
  BY DEF Init, EarnedInv
<1>6. EndInv
  BY <1>4 DEF Init, EndInv, TypeInv
<1>7. RecentInv
  <2> DEFINE goal == Observation("specification",
                         IF "compile" \in KindsAsked THEN "compile" ELSE "none",
                         known["compile"])
             told == IF driver = "goal_driven" THEN <<goal>> ELSE <<>>
             before == IF earlier = NoRun THEN <<>> ELSE <<earlier>>
  <2>1. recent = told \o before /\ lastOutcome = earlier
    BY Zenon DEF Init
  <2>2. goal \in Seen /\ goal.kind = "specification"
    <3>1. known["compile"] \in Verdicts
      BY <1>4, KnownIs DEF TypeInv
    <3>2. QED
      BY <3>1, ToolsAre DEF Seen, Observation, Decisions
  <2> HIDE DEF goal
  <2>3. /\ told \in Seq(Seen) /\ Len(told) \in 0..1
        /\ Len(told) = 1 => told[1] = goal
    BY <2>2
  <2>4. /\ before \in Seq(Seen) /\ Len(before) \in 0..1
        /\ Len(before) = 1 => before[1] = earlier /\ earlier.kind = "outcome"
    BY <1>1
  <2> HIDE DEF told, before
  <2>5. /\ recent \in Seq(Seen) /\ Len(recent) = Len(told) + Len(before)
        /\ \A i \in 1..Len(recent) :
              recent[i] = IF i <= Len(told) THEN told[i] ELSE before[i - Len(told)]
    BY <2>1, <2>3, <2>4, ConcatProperties
  <2>6. ASSUME NEW i \in 1..Len(recent)
        PROVE  \/ recent[i] = goal
               \/ recent[i] = earlier /\ earlier.kind = "outcome"
    <3>1. CASE i <= Len(told)
      <4>1. i = 1 /\ Len(told) = 1
        BY <2>3, <2>5, <3>1
      <4>2. recent[i] = told[i]
        BY <2>5, <3>1
      <4>3. QED
        BY <2>3, <4>1, <4>2
    <3>2. CASE i > Len(told)
      <4>1. i - Len(told) = 1 /\ Len(before) = 1
        BY <2>3, <2>4, <2>5, <3>2
      <4>2. recent[i] = before[i - Len(told)]
        BY <2>3, <2>5, <3>2
      <4>3. QED
        BY <2>4, <4>1, <4>2
    <3>3. QED
      BY <2>3, <3>1, <3>2
  <2>7. recent # <<>> => 1 \in 1..Len(recent)
    BY <2>5, EmptySeq, LenProperties
  <2>8. QED
    BY <2>1, <2>2, <2>5, <2>6, <2>7 DEF RecentInv
<1>8. QED
  BY <1>4, <1>5, <1>6, <1>7 DEF GuidedInv

LEMMA GuidedKept == Spec => []GuidedInv
<1>1. Init => GuidedInv
  BY SessionStarts
<1>2. GuidedInv /\ [Next]_vars => GuidedInv'
  BY StepKeeps
<1>3. QED
  BY <1>1, <1>2, PTL DEF Spec

-----------------------------------------------------------------------------
(***************************************************************************)
(* What is reported.                                                       *)
(***************************************************************************)
\* Whichever session is reported as a success, and only such a one, ended in a finish that
\* was believed or had nothing left to do: the policy that allows the finish and the
\* evaluation that confirms it cannot disagree.
THEOREM SuccessIsBelieved == Spec => []FinishIsBelieved
<1>1. GuidedInv => FinishIsBelieved
  <2>1. SUFFICES ASSUME GuidedInv PROVE FinishIsBelieved
    OBVIOUS
  <2>2. CASE driver = "goal_driven"
    <3> DEFINE satisfied == SatisfiedBy(earned)
               hopeless == NoHypothesis
    <3>1. Report = IF status = "running" THEN "none" ELSE GoalDrivenStatus
      BY <2>2 DEF Report
    <3>2. status \in {"completed", "failed"} => satisfied
      BY <2>1 DEF GuidedInv, EndInv
    <3> HIDE DEF satisfied, hopeless
    <3>3. GoalDrivenStatus =
             IF status = "presatisfied" THEN "goal_satisfied"
             ELSE IF status = "stopped" THEN "stopped"
             ELSE IF ~satisfied /\ (status = "max_iterations" \/ hopeless) THEN "escalated"
             ELSE IF satisfied /\ status = "completed" THEN "goal_satisfied"
             ELSE IF status = "max_iterations" THEN "max_iterations"
             ELSE "failed"
      BY DEF GoalDrivenStatus, satisfied, hopeless
    <3>4. QED
      BY <3>1, <3>2, <3>3 DEF FinishIsBelieved
  <2>3. CASE driver = "plain"
    <3>1. Report = IF status = "running" THEN "none" ELSE ConstructionStatus
      BY <2>3 DEF Report
    <3>2. status = "completed" => SatisfiedBy(earned)
      BY <2>1 DEF GuidedInv, EndInv
    <3>3. status # "presatisfied"
      BY <2>1, <2>3 DEF GuidedInv, EndInv
    <3>4. QED
      BY <3>1, <3>2, <3>3 DEF FinishIsBelieved, ConstructionStatus
  <2>4. QED
    BY <2>1, <2>2, <2>3 DEF GuidedInv, TypeInv
<1>2. QED
  BY <1>1, GuidedKept, PTL

\* A goal-driven session reported as failed or out of iterations had met its goal, and a
\* failed one only because its own summary spoke of failure.
THEOREM UnhappyEndsMet == Spec => []UnhappyEndsHadMetTheGoal
<1>1. GuidedInv => UnhappyEndsHadMetTheGoal
  <2>1. SUFFICES ASSUME GuidedInv, driver = "goal_driven", Report \in {"failed", "max_iterations"}
                 PROVE  SatisfiedBy(earned) /\ (Report = "failed" => spoke)
    BY DEF UnhappyEndsHadMetTheGoal
  <2> DEFINE satisfied == SatisfiedBy(earned)
             hopeless == NoHypothesis
  <2>2. /\ status \in {"running", "presatisfied", "completed", "failed", "stopped",
                       "max_iterations"}
        /\ status \in {"completed", "failed"} => satisfied
        /\ status = "failed" => spoke
    BY <2>1 DEF GuidedInv, EndInv
  <2> HIDE DEF satisfied, hopeless
  <2>3. Report =
           IF status = "running" THEN "none"
           ELSE IF status = "presatisfied" THEN "goal_satisfied"
           ELSE IF status = "stopped" THEN "stopped"
           ELSE IF ~satisfied /\ (status = "max_iterations" \/ hopeless) THEN "escalated"
           ELSE IF satisfied /\ status = "completed" THEN "goal_satisfied"
           ELSE IF status = "max_iterations" THEN "max_iterations"
           ELSE "failed"
    BY <2>1 DEF Report, GoalDrivenStatus, satisfied, hopeless
  <2>4. satisfied
    BY <2>1, <2>2, <2>3
  <2>5. Report = "failed" => status = "failed"
    BY <2>2, <2>3, <2>4
  <2>6. QED
    BY <2>2, <2>4, <2>5 DEF satisfied
<1>2. QED
  BY <1>1, GuidedKept, PTL

-----------------------------------------------------------------------------
(***************************************************************************)
(* The order of the pipeline.                                              *)
(***************************************************************************)
LEMMA GapOrder ==
    ASSUME TypeInv, NEW kind \in Known, kind \in KindsAsked, known[kind] # "pass"
    PROVE  /\ Gaps # {} /\ ~SatisfiedBy(known)
           /\ PrimaryGap \in Known /\ PrimaryGap \in KindsAsked /\ known[PrimaryGap] # "pass"
           /\ Priority[PrimaryGap] <= Priority[kind]
<1>1. VerdictIn(known, kind) # "pass"
  BY KindsAre DEF VerdictIn
<1>2. kind \in Gaps /\ ~SatisfiedBy(known)
  BY <1>1 DEF Gaps, KindsAsked, SatisfiedBy
<1>3. /\ PrimaryGap \in Gaps /\ PrimaryGap \in Kinds
      /\ Priority[PrimaryGap] <= Priority[kind]
  BY <1>2, FirstGap DEF TypeInv
<1>4. Priority[kind] \in 0..4
  BY Priorities, KnownIs
<1>5. PrimaryGap # "unknown"
  <2>1. SUFFICES ASSUME PrimaryGap = "unknown" PROVE FALSE
    OBVIOUS
  <2>2. Priority[PrimaryGap] = 254
    BY <2>1, Priorities
  <2>3. QED
    BY <1>3, <1>4, <2>2
<1>6. PrimaryGap \in Known
  BY <1>3, <1>5, KindsAre
<1>7. known[PrimaryGap] # "pass" /\ PrimaryGap \in KindsAsked
  BY <1>3, <1>5 DEF Gaps, VerdictIn
<1>8. QED
  BY <1>2, <1>3, <1>6, <1>7

\* While a criterion has not passed, no tool of a later one is let through.
LEMMA GuidedInOrder ==
    ASSUME TypeInv, NEW decision \in Decisions, NEW tool \in Guided(decision), tool \in Gates,
           NEW kind \in Known, kind \in KindsAsked, known[kind] # "pass"
    PROVE  Priority[KindOf(tool)] <= Priority[kind]
<1>1. /\ Gaps # {} /\ ~SatisfiedBy(known)
      /\ PrimaryGap \in Known /\ Priority[PrimaryGap] <= Priority[kind]
  BY GapOrder
<1>2. CASE tool = "compile"
  <2>1. KindOf(tool) = "compile"
    BY <1>2, ToolsOfKinds, KnownIs DEF ToolOf
  <2>2. QED
    BY <2>1, Priorities, KnownIs
<1>3. CASE tool # "compile"
  <2>1. /\ tool \in {Recommended} \cup DiagnosisOrBuild
        /\ Recommended \notin {"finish_allowed", "no_action"}
    <3>1. HasAction
      <4>1. Recommended # "finish_allowed" /\ Recommended # "no_action"
        <5>1. \A other \in Known : RecommendedFor(other) \in Gates \cup {"repair_diagnostic"}
          BY ToolsOfKinds, KindsAre DEF RecommendedFor
        <5>2. "finish_allowed" \notin Gates /\ "no_action" \notin Gates
          BY GatesAre
        <5>3. QED
          BY <1>1, <5>1, <5>2 DEF Recommended
      <4>2. QED
        BY <4>1 DEF HasAction
    <3>2. tool # "apply_correction" /\ tool # "repair_diagnostic"
      BY GatesAre
    <3>3. tool \in {Recommended} \cup Directed
      BY <1>1, <1>3, <3>1, <3>2 DEF Guided
    <3>4. QED
      BY <3>1, <3>3 DEF Directed, HasAction
  <2>2. tool # "repair_diagnostic" /\ tool # "apply_correction"
    BY GatesAre
  <2>3. tool = Recommended
    BY <1>3, <2>1, <2>2 DEF DiagnosisOrBuild
  <2>4. tool = RecommendedFor(PrimaryGap)
    BY <1>1, <1>3, <2>1, <2>2, <2>3 DEF Recommended
  <2>5. tool = ToolOf[PrimaryGap]
    BY <1>1, <2>2, <2>4, KindsAre DEF RecommendedFor
  <2>6. KindOf(tool) = PrimaryGap
    BY <1>1, <2>5, ToolsOfKinds
  <2>7. QED
    BY <1>1, <2>6
<1>4. QED
  BY <1>2, <1>3

LEMMA PipelineIs ==
    /\ DOMAIN Pipeline = 1..5
    /\ \A i \in 1..5 : Pipeline[i] \in Known /\ Priority[Pipeline[i]] = i - 1
<1>1. DOMAIN Pipeline = 1..5
  BY DEF Pipeline
<1>2. ASSUME NEW i \in 1..5
      PROVE  Pipeline[i] \in Known /\ Priority[Pipeline[i]] = i - 1
  <2>1. CASE i = 1
    BY <2>1, KnownIs, Priorities DEF Pipeline
  <2>2. CASE i = 2
    BY <2>2, KnownIs, Priorities DEF Pipeline
  <2>3. CASE i = 3
    BY <2>3, KnownIs, Priorities DEF Pipeline
  <2>4. CASE i = 4
    BY <2>4, KnownIs, Priorities DEF Pipeline
  <2>5. CASE i = 5
    BY <2>5, KnownIs, Priorities DEF Pipeline
  <2>6. QED
    BY <2>1, <2>2, <2>3, <2>4, <2>5
<1>3. QED
  BY <1>1, <1>2

\* Under guidance the tool of a criterion runs only when every criterion before it in the
\* pipeline has passed.
THEOREM PipelineKept == Spec => PipelineInOrder
<1> DEFINE Ordered ==
        iterations' # iterations /\ Guidance /\ lastOutcome' # lastOutcome =>
            \A i, j \in DOMAIN Pipeline :
                /\ j < i
                /\ lastOutcome'.tool = ToolOf[Pipeline[i]]
                /\ Pipeline[j] \in KindsAsked
                => known[Pipeline[j]] = "pass"
<1>1. GuidedInv /\ [Next]_vars => Ordered
  <2>1. SUFFICES ASSUME GuidedInv, [Next]_vars, Guidance, lastOutcome' # lastOutcome,
                        NEW i \in DOMAIN Pipeline, NEW j \in DOMAIN Pipeline, j < i,
                        lastOutcome'.tool = ToolOf[Pipeline[i]],
                        Pipeline[j] \in KindsAsked, known[Pipeline[j]] # "pass"
                 PROVE  FALSE
    OBVIOUS
  <2>2. Ran
    BY <2>1, StepIs DEF GuidedInv, Idle
  <2>3. PICK tool \in Proposals \ {"finish"} : \E result \in Results : RunTool(tool, result)
    BY <2>2 DEF Ran
  <2>4. lastOutcome'.tool = tool
    BY <2>3 DEF RunTool, Outcome, Observation
  <2>5. PICK decision \in Decisions : tool \in Guided(decision)
    BY <2>1, ProposedIs DEF GuidedInv
  <2>6. /\ Pipeline[i] \in Known /\ Pipeline[j] \in Known
        /\ Priority[Pipeline[i]] = i - 1 /\ Priority[Pipeline[j]] = j - 1
        /\ i \in 1..5 /\ j \in 1..5
    BY <2>1, PipelineIs
  <2>7. tool \in Gates /\ KindOf(tool) = Pipeline[i]
    <3>1. tool = ToolOf[Pipeline[i]]
      BY <2>1, <2>4
    <3>2. tool \in Gates
      BY <2>6, <3>1, ToolsOfKinds
    <3>3. KindOf(tool) \in Known /\ ToolOf[KindOf(tool)] = ToolOf[Pipeline[i]]
      BY <3>1, <3>2, ToolsOfKinds
    <3>4. QED
      BY <2>6, <3>2, <3>3, ToolsOfKinds, Zenon
  <2>8. Priority[Pipeline[i]] <= Priority[Pipeline[j]]
    BY <2>1, <2>5, <2>6, <2>7, GuidedInOrder DEF GuidedInv
  <2>9. QED
    BY <2>1, <2>6, <2>8
<1>2. Ordered => [Ordered]_vars
  OBVIOUS
<1>3. QED
  BY <1>1, GuidedKept, PTL DEF Spec, PipelineInOrder

-----------------------------------------------------------------------------
(***************************************************************************)
(* The cycle of a repair.                                                  *)
(***************************************************************************)
Asked == Guidance /\ "compile" \in KindsAsked

LEMMA PhaseIs ==
    ASSUME TypeInv
    PROVE  /\ ~Asked => Phase = "none"
           /\ Asked /\ known["compile"] = "pass" => Phase = "passed"
           /\ Asked /\ known["compile"] = "insufficient_evidence" => Phase = "unverified"
           /\ Asked /\ known["compile"] = "fail" =>
                 Phase = IF Just("repair_diagnostic") THEN "diagnosed"
                         ELSE IF Just("apply_correction") THEN "corrected" ELSE "failed"
           /\ known["compile"] \in {"pass", "fail", "insufficient_evidence"}
<1>1. known["compile"] \in {"pass", "fail", "insufficient_evidence"}
  BY KnownIs DEF TypeInv, Verdicts
<1>2. ~Asked <=> (~Guidance \/ "compile" \notin KindsAsked)
  BY DEF Asked
<1>3. QED
  BY <1>1, <1>2 DEF Phase, Asked

LEMMA PhaseAfterIs ==
    ASSUME TypeInv'
    PROVE  /\ ~Asked' => Phase' = "none"
           /\ Asked' /\ known'["compile"] = "pass" => Phase' = "passed"
           /\ Asked' /\ known'["compile"] = "insufficient_evidence" => Phase' = "unverified"
           /\ Asked' /\ known'["compile"] = "fail" =>
                 Phase' = IF lastOutcome' = Outcome("repair_diagnostic", "ok") THEN "diagnosed"
                          ELSE IF lastOutcome' = Outcome("apply_correction", "ok")
                          THEN "corrected" ELSE "failed"
           /\ known'["compile"] \in {"pass", "fail", "insufficient_evidence"}
<1>1. known'["compile"] \in {"pass", "fail", "insufficient_evidence"}
  BY KnownIs DEF TypeInv, Verdicts
<1>2. ~Asked' <=> (~Guidance' \/ "compile" \notin KindsAsked')
  BY DEF Asked
<1>3. QED
  BY <1>1, <1>2 DEF Phase, Asked, Just

\* A failing build comes before every other gap.
LEMMA BuildComesFirst ==
    ASSUME TypeInv, "compile" \in KindsAsked, known["compile"] = "fail"
    PROVE  /\ ~SatisfiedBy(known) /\ Gaps # {} /\ PrimaryGap = "compile"
           /\ Recommended = IF Just("repair_diagnostic") THEN "apply_correction"
                            ELSE IF Just("apply_correction") THEN "compile"
                            ELSE "repair_diagnostic"
           /\ HasAction
<1>1. /\ ~SatisfiedBy(known) /\ Gaps # {} /\ PrimaryGap \in Known
      /\ Priority[PrimaryGap] <= Priority["compile"]
  BY GapOrder, KnownIs
<1>2. PrimaryGap = "compile"
  BY <1>1, KnownIs, Priorities
<1>3. Recommended = IF Just("repair_diagnostic") THEN "apply_correction"
                    ELSE IF Just("apply_correction") THEN "compile"
                    ELSE "repair_diagnostic"
  BY <1>1, <1>2 DEF Recommended, RecommendedFor, Just
<1>4. Recommended \notin {"finish_allowed", "no_action"}
  BY <1>3
<1>5. QED
  BY <1>1, <1>2, <1>3, <1>4 DEF HasAction

\* The newest observation that is an outcome is the newest outcome.
LEMMA NewestOutcome ==
    ASSUME RecentInv, NEW i \in 1..Len(recent), recent[i].kind = "outcome"
    PROVE  \E j \in 1..i : recent[j].kind = "outcome" /\ recent[j] = lastOutcome
<1> DEFINE outcomes == {j \in 1..i : recent[j].kind = "outcome"}
<1>1. i \in Nat /\ Len(recent) \in Nat /\ i <= Len(recent)
  BY LenProperties DEF RecentInv
<1>2. outcomes \subseteq Nat /\ i \in outcomes
  BY <1>1
<1>3. PICK j \in outcomes : \A k \in outcomes : j <= k
  BY <1>2, Smallest
<1>4. ASSUME NEW k \in 1..(j - 1) PROVE recent[k].kind # "outcome"
  <2>1. k \in 1..i /\ ~(j <= k)
    BY <1>1, <1>3
  <2>2. QED
    BY <1>3, <2>1
<1>5. recent[j] = lastOutcome
  BY <1>1, <1>3, <1>4 DEF RecentInv
<1>6. QED
  BY <1>3, <1>5

\* A correction that waits for its build is no longer pending once it was diagnosed anew.
LEMMA DiagnosisLifts ==
    ASSUME RecentInv, Just("repair_diagnostic")
    PROVE  ~PendingRecompile
<1>1. SUFFICES ASSUME PendingRecompile PROVE FALSE
  OBVIOUS
<1>2. PICK i \in Newest(RecentWindow) :
         /\ recent[i] = Outcome("apply_correction", "ok")
         /\ \A j \in 1..(i - 1) :
               ~(/\ recent[j].kind = "outcome"
                 /\ recent[j].tool \in {"compile", "validate", "repair_diagnostic"})
  BY <1>1 DEF PendingRecompile
<1>3. Len(recent) \in Nat
  BY LenProperties DEF RecentInv
<1>4. i \in 1..Len(recent)
  BY <1>2, <1>3, GuidedAssumption DEF Newest
<1>5. recent[i].kind = "outcome" /\ recent[i].tool = "apply_correction"
  BY <1>2 DEF Outcome, Observation
<1>6. PICK j \in 1..i : recent[j].kind = "outcome" /\ recent[j] = lastOutcome
  BY <1>4, <1>5, NewestOutcome
<1>7. lastOutcome.tool = "repair_diagnostic"
  BY DEF Just, Outcome, Observation
<1>8. j # i
  BY <1>5, <1>6, <1>7
<1>9. j \in 1..(i - 1)
  BY <1>4, <1>6, <1>8
<1>10. QED
  BY <1>2, <1>6, <1>7, <1>9

\* Only right after the run of a gate the newest observation is a failed verdict.
LEMMA FailIsOfAGate ==
    ASSUME RecentInv, FailJustObserved
    PROVE  lastOutcome.tool \in Gates
BY DEF RecentInv, FailJustObserved

LEMMA DiagnosisIsNewest ==
    ASSUME RecentInv, LastIs("outcome", "repair_diagnostic", "ok")
    PROVE  Just("repair_diagnostic")
<1>1. recent # <<>> /\ recent[1] = Outcome("repair_diagnostic", "ok")
  BY DEF LastIs, Outcome
<1>2. 1 \in 1..Len(recent) /\ recent[1].kind = "outcome"
  BY <1>1, EmptySeq, LenProperties DEF RecentInv, Outcome, Observation
<1>3. PICK j \in 1..1 : recent[j] = lastOutcome
  BY <1>2, NewestOutcome
<1>4. j = 1
  BY <1>3
<1>5. QED
  BY <1>1, <1>3, <1>4 DEF Just

\* What the guidance lets through while the build fails.
LEMMA RepairIsGuided ==
    ASSUME TypeInv, RecentInv, "compile" \in KindsAsked, known["compile"] = "fail",
           NEW decision \in Decisions, NEW tool \in Guided(decision)
    PROVE  /\ Just("repair_diagnostic") => tool = "apply_correction"
           /\ ~Just("repair_diagnostic") /\ Just("apply_correction") => tool = "compile"
           /\ ~Just("repair_diagnostic") /\ ~Just("apply_correction") =>
                 tool \in {"compile", "repair_diagnostic"}
<1>1. /\ ~SatisfiedBy(known) /\ HasAction
      /\ Recommended = IF Just("repair_diagnostic") THEN "apply_correction"
                       ELSE IF Just("apply_correction") THEN "compile"
                       ELSE "repair_diagnostic"
  BY BuildComesFirst
<1>2. CASE Just("repair_diagnostic")
  <2>1. ~PendingRecompile
    BY <1>2, DiagnosisLifts
  <2>2. lastOutcome.tool \notin Gates
    BY <1>2, GatesAre DEF Just, Outcome, Observation
  <2>3. ~FailJustObserved
    BY <2>2, FailIsOfAGate
  <2>4. Directed = {"apply_correction"}
    BY <1>1, <1>2 DEF Directed
  <2>5. tool \in {decision} \cup Directed /\ (decision # Recommended => tool = "apply_correction")
    BY <1>1, <2>1, <2>3, <2>4 DEF Guided
  <2>6. QED
    BY <1>1, <1>2, <2>4, <2>5
<1>3. CASE ~Just("repair_diagnostic")
  <2>1. ~LastIs("outcome", "repair_diagnostic", "ok")
    BY <1>3, DiagnosisIsNewest
  <2>2. \/ tool = "compile"
        \/ tool = "repair_diagnostic" /\ FailJustObserved
        \/ decision # Recommended /\ tool \in Directed
        \/ decision = Recommended /\ tool = decision
    BY <1>1, <2>1 DEF Guided
  <2>3. Just("apply_correction") => ~FailJustObserved
    <3>1. Just("apply_correction") => lastOutcome.tool \notin Gates
      BY GatesAre DEF Just, Outcome, Observation
    <3>2. QED
      BY <3>1, FailIsOfAGate
  <2>4. CASE Just("apply_correction")
    BY <1>1, <1>3, <2>2, <2>3, <2>4 DEF Directed
  <2>5. CASE ~Just("apply_correction")
    BY <1>1, <1>3, <2>2, <2>5 DEF Directed, DiagnosisOrBuild
  <2>6. QED
    BY <1>3, <2>4, <2>5
<1>4. QED
  BY <1>2, <1>3

LEMMA RepairStep ==
    ASSUME GuidedInv, [Next]_vars
    PROVE  [Cycle!Next]_Phase
<1>1. GuidedInv' /\ TypeInv /\ TypeInv' /\ RecentInv
  BY StepKeeps DEF GuidedInv
<1>2. ASSUME Idle PROVE Phase' = Phase
  BY <1>2 DEF Idle, Phase, Guidance, KindsAsked, Just
<1>3. ASSUME Ran PROVE [Cycle!Next]_Phase
  <2>1. PICK tool \in Proposals \ {"finish"} : \E result \in Results : RunTool(tool, result)
    BY <1>3 DEF Ran
  <2>2. PICK result \in Results : RunTool(tool, result)
    BY <2>1
  <2>3. tool \in Tools /\ (Guidance => \E decision \in Decisions : tool \in Guided(decision))
    BY <1>1, ProposedIs
  <2>4. /\ UNCHANGED <<criteria, agent>> /\ known' = Told(known, tool, result)
        /\ lastOutcome' = Outcome(tool, result)
    BY <2>2, Zenon DEF RunTool, Iterate
  <2>5. Asked' = Asked
    BY <2>4 DEF Asked, Guidance, KindsAsked
  <2>6. known'["compile"] = IF tool = "compile" /\ result # "none"
                            THEN VerdictOf(result) ELSE known["compile"]
    <3>1. "compile" \in Known /\ ToolOf["compile"] = "compile"
      BY KnownIs DEF ToolOf
    <3>2. known'["compile"] = IF ToolOf["compile"] = tool /\ result # "none"
                              THEN VerdictOf(result) ELSE known["compile"]
      BY <1>1, <2>3, <2>4, <3>1, ToldIs DEF TypeInv
    <3>3. QED
      BY <3>1, <3>2
  <2>7. \A other, said : lastOutcome' = Outcome(other, said) <=> tool = other /\ result = said
    BY <2>4 DEF Outcome, Observation
  <2>8. CASE ~Asked
    BY <1>1, <2>5, <2>8, PhaseIs, PhaseAfterIs
  <2>9. CASE Asked /\ known["compile"] = "fail"
    <3> DEFINE diagnosed == Just("repair_diagnostic")
               corrected == Just("apply_correction")
    <3>1. PICK decision \in Decisions : tool \in Guided(decision)
      BY <2>3, <2>9 DEF Asked
    <3>2. /\ diagnosed => tool = "apply_correction"
          /\ ~diagnosed /\ corrected => tool = "compile"
          /\ ~diagnosed /\ ~corrected => tool \in {"compile", "repair_diagnostic"}
      BY <1>1, <2>9, <3>1, RepairIsGuided DEF Asked
    <3>3. Phase = IF diagnosed THEN "diagnosed" ELSE IF corrected THEN "corrected" ELSE "failed"
      BY <1>1, <2>9, PhaseIs
    <3> HIDE DEF diagnosed, corrected
    <3>4. CASE tool = "compile"
      <4>1. ~diagnosed
        BY <3>2, <3>4
      <4>2. Phase \in {"corrected", "failed"}
        BY <3>3, <4>1
      <4>3. Phase' \in {"passed", "failed"}
        BY <1>1, <2>5, <2>6, <2>7, <2>9, <3>4, PhaseAfterIs DEF VerdictOf
      <4>4. QED
        BY <4>2, <4>3 DEF Cycle!Next, Cycle!Build
    <3>5. CASE tool # "compile"
      <4>1. known'["compile"] = "fail"
        BY <2>6, <2>9, <3>5
      <4>2. Phase' = IF tool = "repair_diagnostic" /\ result = "ok" THEN "diagnosed"
                     ELSE IF tool = "apply_correction" /\ result = "ok" THEN "corrected"
                     ELSE "failed"
        BY <1>1, <2>5, <2>7, <2>9, <4>1, PhaseAfterIs
      <4>3. CASE diagnosed
        BY <3>2, <3>3, <4>2, <4>3 DEF Cycle!Next, Cycle!Correct, Cycle!CorrectionFails
      <4>4. CASE ~diagnosed
        <5>1. ~corrected /\ tool = "repair_diagnostic" /\ Phase = "failed"
          BY <3>2, <3>3, <3>5, <4>4
        <5>2. QED
          BY <4>2, <5>1 DEF Cycle!Next, Cycle!Diagnose
      <4>5. QED
        BY <4>3, <4>4
    <3>6. QED
      BY <3>4, <3>5
  <2>10. CASE Asked /\ known["compile"] \in {"pass", "insufficient_evidence"}
    <3>1. Phase = IF known["compile"] = "pass" THEN "passed" ELSE "unverified"
      BY <1>1, <2>10, PhaseIs
    <3>2. CASE tool = "compile" /\ result # "none"
      <4>1. known'["compile"] \in {"pass", "fail"}
        BY <2>6, <3>2 DEF VerdictOf
      <4>2. Phase' \in {"passed", "failed"}
        BY <1>1, <2>5, <2>7, <2>10, <3>2, <4>1, PhaseAfterIs
      <4>3. QED
        BY <3>1, <4>2 DEF Cycle!Next, Cycle!Build
    <3>3. CASE ~(tool = "compile" /\ result # "none")
      BY <1>1, <2>5, <2>6, <2>10, <3>1, <3>3, PhaseAfterIs
    <3>4. QED
      BY <3>2, <3>3
  <2>11. QED
    BY <1>1, <2>8, <2>9, <2>10, PhaseIs
<1>4. QED
  BY <1>1, <1>2, <1>3, StepIs

\* Whatever a model answers, the guidance leads a failing build through diagnosis,
\* correction and build: the session implements RepairCycle.
THEOREM CycleIsFollowed == Spec => FollowsRepairCycle
<1>1. Init => Cycle!Init
  <2>1. SUFFICES ASSUME Init PROVE Cycle!Init
    OBVIOUS
  <2>2. TypeInv
    BY <2>1, SessionStarts DEF GuidedInv
  <2>3. lastOutcome.tool \in Gates \cup {"none"}
    <3>1. earlier \in {NoRun}
              \cup {Outcome(tool, result) : tool \in Gates, result \in {"ok", "error"}}
      BY <2>1, GuidedAssumption DEF Init
    <3>2. NoRun.tool = "none" /\ \A tool, result : Outcome(tool, result).tool = tool
      BY DEF NoRun, Outcome, Observation
    <3>3. lastOutcome = earlier
      BY <2>1 DEF Init
    <3>4. QED
      BY <3>1, <3>2, <3>3
  <2>4. ~Just("repair_diagnostic") /\ ~Just("apply_correction")
    <3>1. \A tool, result : Outcome(tool, result).tool = tool
      BY DEF Outcome, Observation
    <3>2. "repair_diagnostic" \notin Gates /\ "apply_correction" \notin Gates
      BY GatesAre
    <3>3. QED
      BY <2>3, <3>1, <3>2 DEF Just
  <2>5. Phase \in {"none", "unverified", "failed", "passed"}
    BY <2>2, <2>4, PhaseIs
  <2>6. QED
    BY <2>5 DEF Cycle!Init
<1>2. GuidedInv /\ [Next]_vars => [Cycle!Next]_Phase
  BY RepairStep
<1>3. QED
  BY <1>1, <1>2, GuidedKept, PTL DEF Spec, FollowsRepairCycle, Cycle!Spec
=============================================================================
