-------------------------- MODULE CompletionProofs --------------------------
(***************************************************************************)
(* The two places that decide what is complete: when a unit counts as      *)
(* closed, for any number of calls in any order, and what the constructor  *)
(* of the command line approves, for every request and every limit of      *)
(* iterations.                                                             *)
(*                                                                         *)
(* ClosesByProtocol speaks of the flags verified and delivered only.  The  *)
(* invariant, LogInv, says of each flag which accepted calls it stands     *)
(* for; a call appended to the log is the last, so that each operation     *)
(* changes what one of them says and leaves the others.  Of the            *)
(* constructor, BlamedInv and PathInv say what it makes of the errors it   *)
(* keeps and of the planted defect.                                        *)
(***************************************************************************)
EXTENDS UnitCompletion, ConstructorCycle, TLAPS

-----------------------------------------------------------------------------
(***************************************************************************)
(* The phases of a unit (unit_completion.rs).                              *)
(***************************************************************************)
Verifying == {"verify", "unreported"}

\* What the flags stand for, in a log l.
Checked(l) == \E v \in DOMAIN l : l[v] \in Verifying

Kept(l, b) == \A j \in DOMAIN l : j > b => l[j] # "unreported"

\* A report built after some verification, not taken back.
Reported(l, b) ==
    /\ b \in DOMAIN l /\ l[b] = "build" /\ Kept(l, b)
    /\ \E v \in DOMAIN l : v < b /\ l[v] \in Verifying

Acknowledged(l) ==
    \E b, a \in DOMAIN l : Reported(l, b) /\ b < a /\ l[a] = "acknowledge"

LogInv ==
    /\ log \in Seq(Operations)
    /\ verified <=> Checked(log)
    /\ built <=> \E b \in DOMAIN log : Reported(log, b)
    /\ delivered <=> Acknowledged(log)

-----------------------------------------------------------------------------
LEMMA Appended ==
    ASSUME NEW l \in Seq(Operations), NEW operation \in Operations
    PROVE  LET m == Append(l, operation)
           IN /\ m \in Seq(Operations)
              /\ Len(l) \in Nat
              /\ DOMAIN l = 1..Len(l)
              /\ DOMAIN m = 1..(Len(l) + 1)
              /\ \A i \in 1..Len(l) : m[i] = l[i]
              /\ m[Len(l) + 1] = operation
OBVIOUS

\* The effect of one more call on what the flags stand for.
LEMMA CheckedAfter ==
    ASSUME NEW l \in Seq(Operations), NEW operation \in Operations
    PROVE  Checked(Append(l, operation)) <=> Checked(l) \/ operation \in Verifying
<1>1. /\ DOMAIN Append(l, operation) = 1..(Len(l) + 1)
      /\ DOMAIN l = 1..Len(l) /\ Len(l) \in Nat
      /\ \A i \in 1..Len(l) : Append(l, operation)[i] = l[i]
      /\ Append(l, operation)[Len(l) + 1] = operation
  BY Appended
<1>2. QED
  BY <1>1 DEF Checked

LEMMA ReportedBefore ==
    ASSUME NEW l \in Seq(Operations), NEW operation \in Operations, NEW b \in DOMAIN l
    PROVE  Reported(Append(l, operation), b) <=> Reported(l, b) /\ operation # "unreported"
<1>1. /\ DOMAIN Append(l, operation) = 1..(Len(l) + 1)
      /\ DOMAIN l = 1..Len(l) /\ Len(l) \in Nat
      /\ \A i \in 1..Len(l) : Append(l, operation)[i] = l[i]
      /\ Append(l, operation)[Len(l) + 1] = operation
  BY Appended
<1>2. Kept(Append(l, operation), b) <=> Kept(l, b) /\ operation # "unreported"
  BY <1>1 DEF Kept
<1>3. (\E v \in DOMAIN Append(l, operation) : v < b /\ Append(l, operation)[v] \in Verifying)
        <=> (\E v \in DOMAIN l : v < b /\ l[v] \in Verifying)
  BY <1>1
<1>4. QED
  BY <1>1, <1>2, <1>3 DEF Reported

LEMMA ReportedLast ==
    ASSUME NEW l \in Seq(Operations), NEW operation \in Operations
    PROVE  Reported(Append(l, operation), Len(l) + 1) <=> operation = "build" /\ Checked(l)
<1>1. /\ DOMAIN Append(l, operation) = 1..(Len(l) + 1)
      /\ DOMAIN l = 1..Len(l) /\ Len(l) \in Nat
      /\ \A i \in 1..Len(l) : Append(l, operation)[i] = l[i]
      /\ Append(l, operation)[Len(l) + 1] = operation
  BY Appended
<1>2. Kept(Append(l, operation), Len(l) + 1)
  BY <1>1 DEF Kept
<1>3. (\E v \in DOMAIN Append(l, operation) :
          v < Len(l) + 1 /\ Append(l, operation)[v] \in Verifying)
        <=> Checked(l)
  BY <1>1 DEF Checked
<1>4. QED
  BY <1>1, <1>2, <1>3 DEF Reported

LEMMA BuiltAfter ==
    ASSUME NEW l \in Seq(Operations), NEW operation \in Operations
    PROVE  (\E b \in DOMAIN Append(l, operation) : Reported(Append(l, operation), b))
              <=> \/ (\E b \in DOMAIN l : Reported(l, b)) /\ operation # "unreported"
                  \/ operation = "build" /\ Checked(l)
<1>1. /\ DOMAIN Append(l, operation) = 1..(Len(l) + 1)
      /\ DOMAIN l = 1..Len(l) /\ Len(l) \in Nat
  BY Appended
<1>2. DOMAIN Append(l, operation) = DOMAIN l \cup {Len(l) + 1}
  BY <1>1
<1>3. QED
  BY <1>2, ReportedBefore, ReportedLast

LEMMA AcknowledgedAfter ==
    ASSUME NEW l \in Seq(Operations), NEW operation \in Operations
    PROVE  Acknowledged(Append(l, operation))
              <=> \/ Acknowledged(l) /\ operation # "unreported"
                  \/ operation = "acknowledge" /\ \E b \in DOMAIN l : Reported(l, b)
<1> DEFINE m == Append(l, operation)
<1>1. /\ DOMAIN m = 1..(Len(l) + 1)
      /\ DOMAIN l = 1..Len(l) /\ Len(l) \in Nat
      /\ \A i \in 1..Len(l) : m[i] = l[i]
      /\ m[Len(l) + 1] = operation
  BY Appended
<1>2. \A b \in DOMAIN l : Reported(m, b) <=> Reported(l, b) /\ operation # "unreported"
  BY ReportedBefore
<1> HIDE DEF m
<1>3. Acknowledged(m) <=>
        \E b, a \in 1..(Len(l) + 1) : Reported(m, b) /\ b < a /\ m[a] = "acknowledge"
  BY <1>1 DEF Acknowledged
<1>4. \A b, a \in 1..(Len(l) + 1) : b < a => b \in 1..Len(l)
  BY <1>1
<1>5. \A a \in 1..(Len(l) + 1) : a \in 1..Len(l) \/ a = Len(l) + 1
  BY <1>1
<1>6. \A b \in 1..Len(l) : b < Len(l) + 1
  BY <1>1
<1>7. ASSUME Acknowledged(m)
      PROVE  \/ Acknowledged(l) /\ operation # "unreported"
             \/ operation = "acknowledge" /\ \E b \in DOMAIN l : Reported(l, b)
  <2>1. PICK b, a \in 1..(Len(l) + 1) : Reported(m, b) /\ b < a /\ m[a] = "acknowledge"
    BY <1>3, <1>7
  <2>2. b \in DOMAIN l /\ Reported(l, b) /\ operation # "unreported"
    BY <1>1, <1>2, <1>4, <2>1
  <2>3. CASE a \in 1..Len(l)
    BY <1>1, <2>1, <2>2, <2>3 DEF Acknowledged
  <2>4. CASE a = Len(l) + 1
    BY <1>1, <2>1, <2>2, <2>4
  <2>5. QED
    BY <1>5, <2>1, <2>3, <2>4
<1>8. ASSUME Acknowledged(l), operation # "unreported"
      PROVE  Acknowledged(m)
  <2>1. PICK b, a \in DOMAIN l : Reported(l, b) /\ b < a /\ l[a] = "acknowledge"
    BY <1>8 DEF Acknowledged
  <2>2. a \in 1..(Len(l) + 1) /\ b \in 1..(Len(l) + 1)
    BY <1>1, <2>1
  <2>3. QED
    BY <1>1, <1>2, <1>3, <1>8, <2>1, <2>2
<1>9. ASSUME operation = "acknowledge", NEW b \in DOMAIN l, Reported(l, b)
      PROVE  Acknowledged(m)
  <2>1. b \in 1..(Len(l) + 1) /\ Len(l) + 1 \in 1..(Len(l) + 1) /\ b < Len(l) + 1
    BY <1>1, <1>6, <1>9
  <2>2. QED
    BY <1>1, <1>2, <1>3, <1>9, <2>1
<1>10. QED
  BY <1>7, <1>8, <1>9 DEF m

-----------------------------------------------------------------------------
LEMMA LogKept ==
    ASSUME LogInv, [Next]_vars
    PROVE  LogInv'
<1>1. /\ log \in Seq(Operations)
      /\ verified <=> Checked(log)
      /\ built <=> \E b \in DOMAIN log : Reported(log, b)
      /\ delivered <=> Acknowledged(log)
  BY DEF LogInv
<1>2. ASSUME NEW operation \in Operations, log' = Append(log, operation)
      PROVE  /\ log' \in Seq(Operations)
             /\ Checked(log') <=> verified \/ operation \in Verifying
             /\ (\E b \in DOMAIN log' : Reported(log', b)) <=>
                    \/ built /\ operation # "unreported"
                    \/ operation = "build" /\ verified
             /\ Acknowledged(log') <=>
                    \/ delivered /\ operation # "unreported"
                    \/ operation = "acknowledge" /\ built
  BY <1>1, <1>2, Appended, CheckedAfter, BuiltAfter, AcknowledgedAfter
<1> DEFINE Effect(operation) ==
             /\ log' \in Seq(Operations)
             /\ Checked(log') <=> verified \/ operation \in {"verify", "unreported"}
             /\ (\E b \in DOMAIN log' : Reported(log', b)) <=>
                    \/ built /\ operation # "unreported"
                    \/ operation = "build" /\ verified
             /\ Acknowledged(log') <=>
                    \/ delivered /\ operation # "unreported"
                    \/ operation = "acknowledge" /\ built
<1>3. \A operation \in Operations : Accepted(operation) => Effect(operation)
  BY <1>2 DEF Accepted, Verifying
<1>4. CASE MarkTechnicalWorkCompleted
  <2>1. Effect("technical")
    BY <1>3, <1>4 DEF MarkTechnicalWorkCompleted, Operations
  <2>2. QED
    BY <1>4, <2>1 DEF MarkTechnicalWorkCompleted, LogInv
<1>5. CASE MarkAwaitingTerminalVerification
  <2>1. Effect("await")
    BY <1>3, <1>5 DEF MarkAwaitingTerminalVerification, Operations
  <2>2. QED
    BY <1>5, <2>1 DEF MarkAwaitingTerminalVerification, flags, LogInv
<1>6. CASE \E outcome \in Verifiable : VerifyTerminal(outcome)
  <2>1. Effect("verify")
    BY <1>3, <1>6 DEF VerifyTerminal, Operations
  <2>2. QED
    BY <1>6, <2>1 DEF VerifyTerminal, LogInv
<1>7. CASE BuildFinalReport
  <2>1. Effect("build")
    BY <1>3, <1>7 DEF BuildFinalReport, Operations
  <2>2. QED
    BY <1>7, <2>1 DEF BuildFinalReport, LogInv
<1>8. CASE AcknowledgeExternalReportDelivery
  <2>1. Effect("acknowledge")
    BY <1>3, <1>8 DEF AcknowledgeExternalReportDelivery, Operations
  <2>2. QED
    BY <1>8, <2>1 DEF AcknowledgeExternalReportDelivery, LogInv
<1>9. CASE MarkIncompleteUnreported
  <2>1. Effect("unreported")
    BY <1>3, <1>9 DEF MarkIncompleteUnreported, Operations
  <2>2. QED
    BY <1>9, <2>1 DEF MarkIncompleteUnreported, LogInv
<1>10. CASE Done \/ UNCHANGED vars
  BY <1>1, <1>10 DEF Done, vars, flags, LogInv
<1>11. QED
  BY <1>4, <1>5, <1>6, <1>7, <1>8, <1>9, <1>10 DEF Next

\* Some report was acknowledged that the log has not taken back.
LEMMA ProtocolIs ==
    ASSUME log \in Seq(Operations)
    PROVE  Acknowledged(log) <=>
             \E v, b, a \in DOMAIN log :
                /\ v < b /\ b < a
                /\ log[v] \in {"verify", "unreported"}
                /\ log[b] = "build"
                /\ log[a] = "acknowledge"
                /\ ~TakenBack(b)
<1>1. \A b \in DOMAIN log : Kept(log, b) <=> ~TakenBack(b)
  BY DEF Kept, TakenBack
<1>2. QED
  BY <1>1 DEF Acknowledged, Reported, Verifying

\* A unit is closed exactly when its report was built after a verification and
\* acknowledged after that, and no unreported termination came later
\* (unit_completion.rs, unit_completed).
THEOREM ClosedByProtocol == Spec => []ClosesByProtocol
<1>1. Init => LogInv
  BY DEF Init, LogInv, Checked, Reported, Acknowledged
<1>2. LogInv /\ [Next]_vars => LogInv'
  BY LogKept
<1>3. LogInv => ClosesByProtocol
  <2> SUFFICES ASSUME LogInv PROVE ClosesByProtocol
    OBVIOUS
  <2>1. Acknowledged(log) => Checked(log)
    BY DEF Acknowledged, Reported, Checked
  <2>2. Completed <=> Acknowledged(log)
    BY <2>1 DEF LogInv, Completed
  <2>3. QED
    BY <2>2, ProtocolIs DEF LogInv, ClosesByProtocol
<1>4. QED
  BY <1>1, <1>2, <1>3, PTL DEF Spec

-----------------------------------------------------------------------------
LEMMA AcceptedIsLogged ==
    ASSUME log \in Seq(Operations), NEW operation \in Operations, Accepted(operation)
    PROVE  log' \in Seq(Operations) /\ log' # <<>>
BY DEF Accepted

\* PhaseAgreesWithFlags needs only that what was accepted is in the log.
PhaseInv == log \in Seq(Operations) /\ PhaseAgreesWithFlags

LEMMA PhaseKept ==
    ASSUME PhaseInv, [Next]_vars
    PROVE  PhaseInv'
<1> USE DEF PhaseInv, PhaseAgreesWithFlags, Completed
<1>1. CASE MarkTechnicalWorkCompleted
  <2>1. log' \in Seq(Operations) /\ log' # <<>>
    BY <1>1, AcceptedIsLogged DEF MarkTechnicalWorkCompleted, Operations
  <2>2. QED
    BY <1>1, <2>1 DEF MarkTechnicalWorkCompleted
<1>2. CASE MarkAwaitingTerminalVerification
  <2>1. log' \in Seq(Operations) /\ log' # <<>>
    BY <1>2, AcceptedIsLogged DEF MarkAwaitingTerminalVerification, Operations
  <2>2. QED
    BY <1>2, <2>1 DEF MarkAwaitingTerminalVerification, flags
<1>3. CASE \E outcome \in Verifiable : VerifyTerminal(outcome)
  <2>1. PICK outcome \in Verifiable : VerifyTerminal(outcome)
    BY <1>3
  <2>2. log' \in Seq(Operations) /\ log' # <<>>
    BY <2>1, AcceptedIsLogged DEF VerifyTerminal, Operations
  <2>3. QED
    BY <2>1, <2>2 DEF VerifyTerminal, Verifiable
<1>4. CASE BuildFinalReport
  <2>1. log' \in Seq(Operations) /\ log' # <<>>
    BY <1>4, AcceptedIsLogged DEF BuildFinalReport, Operations
  <2>2. QED
    BY <1>4, <2>1 DEF BuildFinalReport
<1>5. CASE AcknowledgeExternalReportDelivery
  <2>1. log' \in Seq(Operations) /\ log' # <<>>
    BY <1>5, AcceptedIsLogged DEF AcknowledgeExternalReportDelivery, Operations
  <2>2. QED
    BY <1>5, <2>1 DEF AcknowledgeExternalReportDelivery
<1>6. CASE MarkIncompleteUnreported
  <2>1. log' \in Seq(Operations) /\ log' # <<>>
    BY <1>6, AcceptedIsLogged DEF MarkIncompleteUnreported, Operations
  <2>2. QED
    BY <1>6, <2>1 DEF MarkIncompleteUnreported
<1>7. CASE Done \/ UNCHANGED vars
  BY <1>7 DEF Done, vars, flags
<1>8. QED
  BY <1>1, <1>2, <1>3, <1>4, <1>5, <1>6, <1>7 DEF Next

\* The phase that the last call left never contradicts the flags that all calls left
\* (unit_completion.rs, UnitCompletionPhase).
THEOREM PhaseIsTrue == Spec => []PhaseAgreesWithFlags
<1>1. Init => PhaseInv
  BY DEF Init, PhaseInv, PhaseAgreesWithFlags, Completed
<1>2. PhaseInv /\ [Next]_vars => PhaseInv'
  BY PhaseKept
<1>3. PhaseInv => PhaseAgreesWithFlags
  BY DEF PhaseInv
<1>4. QED
  BY <1>1, <1>2, <1>3, PTL DEF Spec

-----------------------------------------------------------------------------
(***************************************************************************)
(* The cycle of the constructor (main.rs).                                 *)
(***************************************************************************)
Blamed(instructions) == "delimiter" \in Range(instructions)

\* The line that was blamed is in every version that follows, and what compiles with
\* that line is a request that fits.
BlamedInv ==
    /\ Blamed(feedback) /\ step \in {"compile", "validate"} => "request" \in code.statements
    /\ step = "validate" /\ "request" \in code.statements => request.fits = "whole"
    /\ Blamed(feedback) /\ Approved => request.fits = "whole"

\* A request that fits, with a compiler that runs, takes one path.
PathInv ==
    \/ step = "build" /\ iteration = 0 /\ errors = <<>>
    \/ step = "compile" /\ iteration = 1 /\ errors = <<>> /\ code = FirstVersion
    \/ step = "repair" /\ iteration = 1 /\ errors = <<"delimiter">>
    \/ step = "build" /\ iteration = 1 /\ feedback = <<"delimiter">>
    \/ step = "done" /\ limit <= 1
    \/ step = "compile" /\ iteration = 2 /\ code = Implementation(plan, {"request"})
    \/ /\ step = "validate" /\ iteration = 2 /\ code = Implementation(plan, {"request"})
       /\ compiled
    \/ /\ step = "done" /\ iteration = 2 /\ code = Implementation(plan, {"request"})
       /\ compiled /\ errors = <<>>

PlantedInv ==
    /\ limit \in Nat
    /\ plan = ClassifyPlanKind(request.words)
    /\ request.fits = "whole" /\ ~unrun => PathInv

-----------------------------------------------------------------------------
LEMMA BlamedStep ==
    ASSUME BlamedInv, [CycleNext]_cycleVars
    PROVE  BlamedInv'
<1> USE DEF BlamedInv, Approved
<1>1. CASE Build
  <2>1. step' = "compile" /\ feedback' = feedback
    BY <1>1 DEF Build
  <2>2. Blamed(feedback) => "request" \in code'.statements
    <3>1. CASE iteration' = 1
      BY <1>1, <3>1 DEF Build, FirstVersion
    <3>2. CASE iteration' # 1
      BY <1>1, <3>2 DEF Build, Implementation, ApplyFeedback, Blamed
    <3>3. QED
      BY <3>1, <3>2
  <2>3. QED
    BY <2>1, <2>2
<1>2. CASE Compile
  <2>1. CASE Compiles
    BY <1>2, <2>1 DEF Compile, Compiles
  <2>2. CASE ~Compiles
    BY <1>2, <2>2 DEF Compile, Refused
  <2>3. QED
    BY <2>1, <2>2
<1>3. CASE CompileUnrun
  BY <1>3 DEF CompileUnrun, Refused
<1>4. CASE Validate
  <2>1. step' \in {"done", "repair"} /\ UNCHANGED <<request, code, feedback>>
    BY <1>4 DEF Validate
  <2>2. Blamed(feedback) => request.fits = "whole"
    BY <1>4 DEF Validate
  <2>3. QED
    BY <2>1, <2>2
<1>5. CASE Repair
  <2>1. step' = "done" => errors' # <<>>
    <3>1. <<>> # Append(errors, "limit") /\ (iteration < limit => step' = "build")
      BY <1>5 DEF Repair
    <3>2. QED
      BY <1>5, <3>1 DEF Repair
  <2>2. step' \in {"build", "done"}
    BY <1>5 DEF Repair
  <2>3. QED
    BY <2>1, <2>2
<1>6. CASE CycleDone \/ UNCHANGED cycleVars
  BY <1>6 DEF CycleDone, cycleVars
<1>7. QED
  BY <1>1, <1>2, <1>3, <1>4, <1>5, <1>6 DEF CycleNext

\* Once a delimiter was blamed, a request that does not fit is never approved, however
\* many iterations there are (main.rs, builder.rs, repairer.rs).
THEOREM BlameStays == CycleSpec => []BlamedLineReturns
<1>1. CycleInit => BlamedInv
  BY DEF CycleInit, BlamedInv, Approved
<1>2. BlamedInv /\ [CycleNext]_cycleVars => BlamedInv'
  BY BlamedStep
<1>3. BlamedInv => BlamedLineReturns
  <2>1. ASSUME NEW i \in DOMAIN feedback, feedback[i] = "delimiter"
        PROVE  Blamed(feedback)
    BY <2>1 DEF Blamed, Range
  <2>2. QED
    BY <2>1 DEF BlamedInv, BlamedLineReturns
<1>4. QED
  BY <1>1, <1>2, <1>3, PTL DEF CycleSpec

-----------------------------------------------------------------------------
\* What the repairer says of a missing parenthesis puts the line back, closed.
LEMMA DelimiterRepaired ==
    ASSUME feedback = <<"delimiter">>
    PROVE  ApplyFeedback = {"request"}
<1>1. Range(feedback) = {"delimiter"}
  BY DEF Range
<1>2. QED
  BY <1>1 DEF ApplyFeedback

LEMMA PlansAre == ClassifyPlanKind(request.words) \in Kinds
BY DEF ClassifyPlanKind, Kinds

LEMMA PathStep ==
    ASSUME limit \in Nat, plan \in Kinds, request.fits = "whole", PathInv, CycleNext, ~unrun'
    PROVE  PathInv'
<1>1. CASE Build
  <2>1. CASE iteration = 0 /\ errors = <<>>
    BY <1>1, <2>1 DEF Build, PathInv
  <2>2. CASE iteration = 1 /\ feedback = <<"delimiter">>
    BY <1>1, <2>2, DelimiterRepaired DEF Build, PathInv
  <2>3. QED
    BY <1>1, <2>1, <2>2 DEF Build, PathInv
<1>2. CASE Compile
  <2>1. CASE iteration = 1 /\ errors = <<>> /\ code = FirstVersion
    <3>1. ~Compiles /\ CauseOfFailure = "delimiter"
      BY <2>1 DEF Compiles, CauseOfFailure
    <3>2. errors' = <<"delimiter">> /\ step' = "repair" /\ iteration' = 1
      BY <1>2, <2>1, <3>1 DEF Compile, Refused
    <3>3. QED
      BY <3>2 DEF PathInv
  <2>2. CASE iteration = 2 /\ code = Implementation(plan, {"request"})
    <3>1. plan # "none"
      BY DEF Kinds
    <3>2. code # FirstVersion
      BY <2>2, <3>1 DEF FirstVersion, Implementation
    <3>3. Compiles
      BY <3>2 DEF Compiles
    <3>4. compiled' = TRUE /\ step' = "validate" /\ UNCHANGED <<iteration, code, plan>>
      BY <1>2, <3>3 DEF Compile
    <3>5. QED
      BY <2>2, <3>4 DEF PathInv
  <2>3. QED
    BY <1>2, <2>1, <2>2 DEF Compile, PathInv
<1>3. CASE CompileUnrun
  BY <1>3 DEF CompileUnrun
<1>4. CASE Validate
  <2>1. iteration = 2 /\ code = Implementation(plan, {"request"}) /\ compiled
    BY <1>4 DEF Validate, PathInv
  <2>2. IsExpected
    BY <2>1 DEF IsExpected, Implementation
  <2>3. errors' = <<>> /\ step' = "done" /\ UNCHANGED <<iteration, code, plan, compiled>>
    BY <1>4, <2>2 DEF Validate
  <2>4. QED
    BY <2>1, <2>3 DEF PathInv
<1>5. CASE Repair
  <2>1. iteration = 1 /\ errors = <<"delimiter">>
    BY <1>5 DEF Repair, PathInv
  <2>2. CASE iteration < limit
    BY <1>5, <2>1, <2>2 DEF Repair, PathInv
  <2>3. CASE ~(iteration < limit)
    <3>1. limit <= 1
      BY <2>1, <2>3
    <3>2. step' = "done" /\ limit' = limit
      BY <1>5, <2>3 DEF Repair
    <3>3. QED
      BY <3>1, <3>2 DEF PathInv
  <2>4. QED
    BY <2>2, <2>3
<1>6. CASE CycleDone
  BY <1>6 DEF CycleDone, cycleVars, PathInv
<1>7. QED
  BY <1>1, <1>2, <1>3, <1>4, <1>5, <1>6 DEF CycleNext

LEMMA PlantedStep ==
    ASSUME PlantedInv, [CycleNext]_cycleVars
    PROVE  PlantedInv'
<1>1. /\ UNCHANGED <<request, limit, plan>>
      /\ unrun => unrun'
  BY DEF CycleNext, Build, Compile, CompileUnrun, Validate, Repair, CycleDone, Refused, cycleVars
<1>2. /\ limit' \in Nat
      /\ plan' = ClassifyPlanKind(request'.words)
  BY <1>1 DEF PlantedInv
<1>3. ASSUME request'.fits = "whole", ~unrun'
      PROVE  PathInv'
  <2>1. request.fits = "whole" /\ ~unrun /\ PathInv
    BY <1>1, <1>3 DEF PlantedInv
  <2>2. CASE CycleNext
    BY <1>3, <2>1, <2>2, PathStep, PlansAre DEF PlantedInv
  <2>3. CASE UNCHANGED cycleVars
    BY <2>1, <2>3 DEF cycleVars, PathInv
  <2>4. QED
    BY <2>2, <2>3
<1>4. QED
  BY <1>2, <1>3 DEF PlantedInv

\* A request that fits is approved in the second iteration, with the line that prints
\* it, in the implementation of its plan (main.rs, run_constructor).
THEOREM PlantedIsRepaired == CycleSpec => []PlantedDefectIsRepaired
<1>1. CycleInit => PlantedInv
  BY ConstructorAssumption DEF CycleInit, PlantedInv, PathInv
<1>2. PlantedInv /\ [CycleNext]_cycleVars => PlantedInv'
  BY PlantedStep
<1>3. PlantedInv => PlantedDefectIsRepaired
  <2> SUFFICES ASSUME PlantedInv, step = "done", request.fits = "whole", limit > 1, ~unrun
               PROVE  /\ Approved
                      /\ iteration = 2
                      /\ code = Implementation(ClassifyPlanKind(request.words), {"request"})
    BY DEF PlantedDefectIsRepaired
  <2>1. ~(limit <= 1)
    BY DEF PlantedInv
  <2>2. QED
    BY <2>1 DEF PlantedInv, PathInv, Approved
<1>4. QED
  BY <1>1, <1>2, <1>3, PTL DEF CycleSpec
=============================================================================
