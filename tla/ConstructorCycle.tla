-------------------------- MODULE ConstructorCycle --------------------------
(***************************************************************************)
(* The constructor of the command line (src/src/main.rs): planner, builder *)
(* (builder.rs), compiler (compiler.rs), validator (validator.rs) and      *)
(* repairer (repairer.rs) around one CodeState (state.rs), until the code  *)
(* is approved or the iterations are used up.                              *)
(*                                                                         *)
(* The first version is broken on purpose.  What a request can do to the   *)
(* line that prints it, and to the compiler's message that quotes that     *)
(* line, is the shape of the request.                                      *)
(***************************************************************************)
EXTENDS Integers, Sequences, SequencesExt

CONSTANTS
    Words,      \* sets of words of the planner a request may hold
    Fits,       \* how a request may fit in the line that prints it
    Quotes,     \* what words of a request that is quoted may be taken for
    Limits      \* iteration limits; MAX_ITERATIONS is 3

Kinds == {"api", "calculator", "authentication", "generic"}

\* "whole": the line compiles once it is closed.  "argument": closed it still does not,
\* for want of an argument or an escape.  "open": a quote leaves its string open, and
\* the first version fails for that and not for its parenthesis.
ASSUME ConstructorAssumption ==
    /\ Words \subseteq SUBSET {"api", "rest", "calculadora", "login"}
    /\ Fits \subseteq {"whole", "argument", "open"}
    /\ Quotes \subseteq {"nothing", "delimiter", "structure"}
    /\ Limits \subseteq Nat

Causes == {"delimiter", "structure", "other"}

VARIABLES
    request,    \* [words, fits, quotes]
    limit,
    plan,       \* the kind of the plan
    code,       \* NoCode, or [base, statements]: what is in main besides the base
    errors,     \* their causes, as the repairer tells them apart
    feedback,
    iteration,
    step,       \* where run_constructor is
    compiled,   \* of the code at hand
    unrun       \* history: some compilation could not be run

cycleVars == <<request, limit, plan, code, errors, feedback, iteration, step, compiled, unrun>>

NoCode == [base |-> "none", statements |-> {}]

\* The first version has only the line that prints the request, not closed.
FirstVersion == [base |-> "none", statements |-> {"request"}]

-----------------------------------------------------------------------------
\* classify_plan_kind.
ClassifyPlanKind(words) ==
    CASE words \cap {"api", "rest"} # {} -> "api"
      [] words \cap {"api", "rest"} = {} /\ "calculadora" \in words -> "calculator"
      [] words = {"login"} -> "authentication"
      [] OTHER -> "generic"

CycleInit ==
    /\ request \in [words : Words, fits : Fits, quotes : Quotes]
    /\ limit \in Limits
    /\ plan = ClassifyPlanKind(request.words)
    /\ code = NoCode
    /\ errors = <<>> /\ feedback = <<>>
    /\ iteration = 0
    /\ step = "build"
    /\ compiled = FALSE
    /\ unrun = FALSE

\* Mutant: only the newest feedback is applied.
ApplyNewestFeedback ==
    CASE feedback = <<>> -> {}
      [] feedback # <<>> /\ Last(feedback) = "delimiter" -> {"request"}
      [] feedback # <<>> /\ Last(feedback) = "structure" -> {"structure"}
      [] OTHER -> {"generic"}

\* apply_feedback: the statements that go into main of the base implementation.
ApplyFeedback ==
    LET delimiter == "delimiter" \in Range(feedback)
        structure == "structure" \in Range(feedback)
    IN (IF delimiter THEN {"request"} ELSE {})
       \cup (IF structure THEN {"structure"} ELSE {})
       \cup (IF feedback # <<>> /\ ~delimiter /\ ~structure THEN {"generic"} ELSE {})

\* base_implementation_for, and what is put into its main.
Implementation(kind, statements) == [base |-> kind, statements |-> statements]

\* builder::build.
Build ==
    /\ step = "build"
    /\ iteration' = iteration + 1
    /\ code' = IF iteration' = 1 THEN FirstVersion ELSE Implementation(plan, ApplyFeedback)
    /\ step' = "compile"
    /\ compiled' = FALSE
    /\ UNCHANGED <<request, limit, plan, errors, feedback, unrun>>

\* What rustc makes of the code.
Compiles == code # FirstVersion /\ ("request" \in code.statements => request.fits = "whole")

\* The message about a line quotes it, and the words of the request are read with it.
QuotedCause == IF request.quotes = "nothing" THEN "other" ELSE request.quotes

CauseOfFailure ==
    IF code = FirstVersion /\ request.fits # "open" THEN "delimiter" ELSE QuotedCause

Refused(cause) ==
    /\ compiled' = FALSE
    /\ errors' = Append(errors, cause)
    /\ step' = "repair"

\* compiler::compile answers.
Compile ==
    /\ step = "compile"
    /\ IF Compiles
       THEN /\ compiled' = TRUE
            /\ step' = "validate"
            /\ UNCHANGED errors
       ELSE Refused(CauseOfFailure)
    /\ UNCHANGED <<request, limit, plan, code, feedback, iteration, unrun>>

\* The file could not be written or rustc not be run.
CompileUnrun ==
    /\ step = "compile"
    /\ Refused("other")
    /\ unrun' = TRUE
    /\ UNCHANGED <<request, limit, plan, code, feedback, iteration>>

\* The marks the validator looks for are those of the base implementations.
IsExpected == plan = "generic" \/ code.base = plan

\* Mutant: the errors of the compilations before are kept.
ValidateKeeping ==
    /\ step = "validate"
    /\ errors' = IF IsExpected THEN errors ELSE Append(errors, "other")
    /\ step' = IF errors' = <<>> THEN "done" ELSE "repair"
    /\ UNCHANGED <<request, limit, plan, code, feedback, iteration, compiled, unrun>>

\* validator::validate, and the approval.
Validate ==
    /\ step = "validate"
    /\ errors' = IF IsExpected THEN <<>> ELSE <<"other">>
    /\ step' = IF errors' = <<>> THEN "done" ELSE "repair"
    /\ UNCHANGED <<request, limit, plan, code, feedback, iteration, compiled, unrun>>

\* Mutant: the errors an instruction was made of are done with.
RepairForgetting ==
    /\ step = "repair"
    /\ feedback' = errors
    /\ IF iteration < limit
       THEN step' = "build" /\ errors' = <<>>
       ELSE step' = "done" /\ errors' = <<"limit">>
    /\ UNCHANGED <<request, limit, plan, code, iteration, compiled, unrun>>

\* repairer::repair, one instruction for each error kept; then reached_iteration_limit.
Repair ==
    /\ step = "repair"
    /\ feedback' = errors
    /\ IF iteration < limit
       THEN step' = "build" /\ UNCHANGED errors
       ELSE step' = "done" /\ errors' = Append(errors, "limit")
    /\ UNCHANGED <<request, limit, plan, code, iteration, compiled, unrun>>

CycleDone == step = "done" /\ UNCHANGED cycleVars

CycleNext == Build \/ Compile \/ CompileUnrun \/ Validate \/ Repair \/ CycleDone

\* The loop runs on; that rustc is there is not assumed.
CycleSpec ==
    /\ CycleInit /\ [][CycleNext]_cycleVars
    /\ WF_cycleVars(Build \/ Compile \/ CompileUnrun \/ Validate \/ Repair)

-----------------------------------------------------------------------------
(***************************************************************************)
(* Properties.                                                             *)
(***************************************************************************)
Approved == step = "done" /\ compiled /\ errors = <<>>

CycleTypeOK ==
    /\ request \in [words : Words, fits : Fits, quotes : Quotes]
    /\ limit \in Limits
    /\ plan \in Kinds
    /\ code \in [base : Kinds \cup {"none"},
                 statements : SUBSET {"request", "structure", "generic"}]
    /\ errors \in Seq(Causes \cup {"limit"}) /\ feedback \in Seq(Causes)
    /\ iteration \in Nat
    /\ step \in {"build", "compile", "validate", "repair", "done"}
    /\ compiled \in BOOLEAN /\ unrun \in BOOLEAN

\* The defect planted in the first version is repaired: with a compiler that runs, a
\* request that fits is approved in the second iteration with the line that prints it, in
\* the implementation of its own plan.
PlantedDefectIsRepaired ==
    step = "done" /\ request.fits = "whole" /\ limit > 1 /\ ~unrun =>
        /\ Approved
        /\ iteration = 2
        /\ code = Implementation(ClassifyPlanKind(request.words), {"request"})

\* The errors of failed compilations stay, and so does the feedback made of them: once a
\* delimiter was blamed, every later version prints the request, and a request that does
\* not fit there is never approved, however many iterations there are; a version without
\* that line would be.
BlamedLineReturns ==
    \A i \in DOMAIN feedback :
        feedback[i] = "delimiter" =>
            /\ step \in {"compile", "validate"} => "request" \in code.statements
            /\ request.fits # "whole" => ~Approved

LimitTold == Len(errors) = iteration + 1 /\ Last(errors) = "limit"

\* The cycle ends, by approval, or by the limit with every error it met told.
Ends ==
    <>(step = "done" /\ (Approved \/ LimitTold))
=============================================================================
