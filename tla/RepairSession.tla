--------------------------- MODULE RepairSession ---------------------------
(***************************************************************************)
(* The bridge from the constructor to the agent loop                       *)
(* (src/src/harness/bridge.rs) and the scripted agents that repair what    *)
(* they are given: ValidateThenRepairAgent (agent.rs), which validates,    *)
(* diagnoses, corrects and validates again; BridgedValidateRepairAgent,    *)
(* which compiles the result as well; and BridgedCompileRepairAgent.  The  *)
(* corrections are those of DeterministicCorrectionPolicy                  *)
(* (correction_policy.rs), the harness only restricts the tools, and the   *)
(* session has no specification.                                           *)
(*                                                                         *)
(* A text is the set of words that the validator, the policy and the       *)
(* compiler tell apart in it; the empty set is the empty text.             *)
(***************************************************************************)
EXTENDS Integers

CONSTANTS
    Texts,      \* codes of the constructor and codes an agent is given
    Limits      \* iteration limits of the loop

\* What an API needs, and what introduce_validation_defect and the policy put in
\* its place.
Substitute ==
    [HTTP |-> "NET", Endpoints |-> "Routes", endpoint |-> "route", api |-> "x",
     GET |-> "READ", POST |-> "WRITE", Server |-> "Host", server |-> "host"]

Required == DOMAIN Substitute
Substitutes == {Substitute[word] : word \in Required}

\* "sumar": sumar or a + b; "login": one of the two messages of a login; "main": the
\* line fn main() {; "unclosed": a call in it that is not closed.
Words ==
    Required \cup Substitutes
        \cup {"sumar", "validar_credenciales", "login", "main", "login-check", "unclosed"}

ASSUME RepairAssumption ==
    /\ Texts \subseteq SUBSET Words
    /\ Limits \subseteq Nat \ {0}

Kinds == {"api", "calculator", "authentication", "generic", "unknown"}

VARIABLES
    session,    \* [agent, kind, original, given, planted, limit]
    working,    \* the source of the artifact, or NoText
    last,       \* the last outcome observed: which tool, and whether it succeeded
    errors,     \* of the validator, in its last failure
    corrected,  \* what the agent keeps of its last correction, or NoText
    validated,  \* history: the last text that validated, or NoText
    compiled,   \* history: the last text that compiled, or NoText
    status,     \* of the loop
    iterations

vars == <<session, working, last, errors, corrected, validated, compiled, status, iterations>>

NoText == {"none"}

Observation(tool, success) == [tool |-> tool, success |-> success]

-----------------------------------------------------------------------------
(***************************************************************************)
(* The validator and the planted defects.                                  *)
(***************************************************************************)
HasServer(text) == text \cap {"HTTP", "Server", "server"} # {}
HasEndpoint(text) == text \cap {"GET", "POST", "endpoint", "api"} # {}

\* The errors, by what they name; the kind of the plan is known.
ValidatorErrors(kind, text) ==
    {error \in {"empty", "api", "calculator", "authentication"} :
        \/ error = "empty" /\ text = {}
        \/ error = "api" /\ kind = "api" /\ ~(HasServer(text) /\ HasEndpoint(text))
        \/ error = "calculator" /\ kind = "calculator" /\ "sumar" \notin text
        \/ /\ error = "authentication" /\ kind = "authentication"
           /\ ~({"validar_credenciales", "login"} \subseteq text)}

IntroduceValidationDefect(text) ==
    (text \ Required) \cup {Substitute[word] : word \in text \cap Required}

\* Nothing is injected where there is no main.
IntroduceCompileDefect(text) == IF "main" \in text THEN text \cup {"unclosed"} ELSE text

-----------------------------------------------------------------------------
(***************************************************************************)
(* The policy: corrections replace a word or insert one.                   *)
(***************************************************************************)
Replace(search, replacement) == [removes |-> {search}, adds |-> {replacement}]
Insert(word) == [removes |-> {}, adds |-> {word}]

\* Mutant: the words of the server and of GET only.
InferServerMarkers(text) ==
    {Replace(Substitute[word], word) : word \in
        {w \in {"HTTP", "Server", "server", "GET"} :
            w \notin text /\ Substitute[w] \in text}}

\* infer_missing_marker_corrections.
InferMissingMarkers(text) ==
    {Replace(Substitute[word], word) : word \in
        {w \in Required : w \notin text /\ Substitute[w] \in text}}

\* The comment for the login is inserted before main, whether it is there or not.
InferLogin(text) ==
    {Insert("validar_credenciales") : word \in {"validar_credenciales"} \ text}
        \cup {Insert("login-check") : word \in
                {w \in {"main"} : w \in text /\ "login" \notin text}}

\* Mutant: the calculator gets a comment as well.
InferComment(error, text) ==
    CASE error = "api" -> InferMissingMarkers(text)
      [] error = "calculator" -> {Insert("login-check")}
      [] error = "authentication" -> InferLogin(text)

\* infer_corrections_for_error.  Its rule for delimiters is for an error that the
\* validator does not have.
InferCorrections(error, text) ==
    CASE error = "api" -> InferMissingMarkers(text)
      [] error = "calculator" -> {Insert("sumar")}
      [] error = "authentication" -> InferLogin(text)

\* propose_corrections; none is the policy's error.
ProposedCorrections ==
    IF working = {} THEN {}
    ELSE UNION {InferCorrections(error, working) : error \in errors}

\* apply_operation, on one correction after the other.
Corrected(text, corrections) ==
    (text \ UNION {c.removes : c \in corrections}) \cup UNION {c.adds : c \in corrections}

-----------------------------------------------------------------------------
(***************************************************************************)
(* An iteration of the loop.                                               *)
(***************************************************************************)
Session(agent, kind, original, given, planted, limit) ==
    [agent |-> agent, kind |-> kind, original |-> original, given |-> given,
     planted |-> planted, limit |-> limit]

\* ValidateThenRepairAgent is given a text and starts without an artifact; the
\* bridge puts a copy of the constructor's code there.  for_api and from_valid_code
\* plant the defect themselves.
Init ==
    /\ \E text \in Texts, original \in Texts, kind \in Kinds, limit \in Limits :
          \/ /\ session = Session("validate", kind, text, text, FALSE, limit)
             /\ working = NoText
          \/ /\ \/ session = Session("bridged", kind, text, text, FALSE, limit)
                \/ session = Session("bridged", "api", text,
                                     IntroduceValidationDefect(text), TRUE, limit)
                \/ session = Session("compile", "generic", text,
                                     IntroduceCompileDefect(text), TRUE, limit)
                \/ session = Session("compile", "generic", text, original, FALSE, limit)
             /\ working = text
    /\ last = Observation("none", TRUE)
    /\ errors = {}
    /\ corrected = NoText /\ validated = NoText /\ compiled = NoText
    /\ status = "running"
    /\ iterations = 0

Iterate ==
    /\ status = "running"
    /\ iterations < session.limit
    /\ iterations' = iterations + 1
    /\ UNCHANGED session

\* AgentContext::update_working_source; without an artifact, a new one of that text.
SetSource(text) == working' = text

\* ValidationTool; the code becomes the source first.  A kind it does not know is a
\* failure without an error of the validator.
RunValidate(text) ==
    /\ Iterate
    /\ SetSource(text)
    /\ LET found == IF session.kind = "unknown" THEN {}
                    ELSE ValidatorErrors(session.kind, text)
           success == session.kind # "unknown" /\ found = {}
       IN /\ last' = Observation("validate", success)
          /\ errors' = IF success THEN errors ELSE found
          /\ validated' = IF success THEN text ELSE validated
    /\ UNCHANGED <<compiled, status>>

\* CompileTool checks the artifact, not the code it is given; there may be no place
\* for the crate, or no cargo.  An empty code leaves the source as it is.
RunCompile(text) ==
    /\ Iterate
    /\ SetSource(IF text = {} THEN working ELSE text)
    /\ \E success \in BOOLEAN :
          /\ success => working' # {} /\ "unclosed" \notin working'
          /\ last' = Observation("compile", success)
          /\ compiled' = IF success THEN working' ELSE compiled
    /\ UNCHANGED <<errors, corrected, validated, status>>

\* RepairDiagnosticTool: one piece of feedback for every error, and none is a failure.
RunDiagnostic ==
    /\ Iterate
    /\ last' = Observation("repair_diagnostic", errors # {})
    /\ UNCHANGED <<working, errors, corrected, validated, compiled, status>>

\* The loop reads how the session ended in the words of the summary.
FinishWith(ends) ==
    /\ Iterate
    /\ status' \in ends
    /\ UNCHANGED <<working, last, errors, corrected, validated, compiled>>

-----------------------------------------------------------------------------
(***************************************************************************)
(* What the agents propose, for the last observation.                      *)
(***************************************************************************)
\* The agent's text, whatever the session was given.
Begin ==
    /\ last.tool = "none"
    /\ RunValidate(session.given)
    /\ UNCHANGED corrected

Diagnose ==
    /\ last = Observation("validate", FALSE)
    /\ IF errors = {} THEN FinishWith({"failed"})
       ELSE RunDiagnostic

Correct ==
    /\ last = Observation("repair_diagnostic", TRUE)
    /\ IF ProposedCorrections = {} THEN FinishWith({"failed"})
       ELSE /\ Iterate
            /\ SetSource(Corrected(working, ProposedCorrections))
            /\ last' = Observation("apply_correction", TRUE)
            /\ UNCHANGED <<errors, corrected, validated, compiled, status>>

\* The text of the correction's evidence, which is the one that was committed.
Revalidate ==
    /\ last = Observation("apply_correction", TRUE)
    /\ RunValidate(working)
    /\ corrected' = IF session.agent = "bridged" THEN working ELSE corrected

FinishAfter(tool) ==
    /\ last = Observation(tool, TRUE)
    /\ FinishWith({"completed"})

ValidateThenRepair ==
    /\ session.agent = "validate"
    /\ Begin \/ Diagnose \/ Correct \/ Revalidate \/ FinishAfter("validate")

\* Mutant: what is compiled is the code of the constructor.
CompileOriginal ==
    /\ last = Observation("validate", TRUE)
    /\ RunCompile(session.original)

CompileValidated ==
    /\ last = Observation("validate", TRUE)
    /\ RunCompile(IF corrected # NoText THEN corrected ELSE working)

\* The summary quotes the compiler's message, with the word "error" or without.
StopAfterCompile ==
    /\ last = Observation("compile", FALSE)
    /\ FinishWith({"failed", "completed"})

BridgedValidateRepair ==
    /\ session.agent = "bridged"
    /\ \/ Begin \/ Diagnose \/ Correct \/ Revalidate
       \/ CompileValidated \/ FinishAfter("compile") \/ StopAfterCompile

\* The text that compiles is offered until it does.
BridgedCompileRepair ==
    /\ session.agent = "compile"
    /\ \/ last.tool = "none" /\ RunCompile(session.given)
       \/ last = Observation("compile", FALSE) /\ RunCompile(session.original)
       \/ FinishAfter("compile")

IterationsExhausted ==
    /\ status = "running"
    /\ iterations = session.limit
    /\ status' = "max_iterations"
    /\ UNCHANGED <<session, working, last, errors, corrected, validated, compiled, iterations>>

Returned == status # "running" /\ UNCHANGED vars

Next ==
    \/ ValidateThenRepair \/ BridgedValidateRepair \/ BridgedCompileRepair
    \/ IterationsExhausted \/ Returned

Spec == Init /\ [][Next]_vars

-----------------------------------------------------------------------------
(***************************************************************************)
(* Properties.                                                             *)
(***************************************************************************)

Validating == session.agent \in {"validate", "bridged"}

\* A validation, a diagnosis, a correction, a validation, a compilation, an end.
OneRound == 6

\* A completed session leaves an artifact that its validator accepts and, with the
\* bridge, that compiled as it is; unless the compiler failed and did not say "error".
CompletionIsOfTheArtifact ==
    status = "completed" /\ Validating =>
        /\ validated = working
        /\ session.agent = "bridged" /\ last.success => compiled = working

\* The defect that for_api plants in a code that validates is undone in one round, word
\* by word; a substitute that was there before becomes the required word as well.
PlantedDefectIsUndone ==
    /\ session.agent = "bridged" /\ session.planted
    /\ ValidatorErrors("api", session.original) = {}
    /\ status # "running" /\ session.limit >= OneRound
    => /\ validated = working
       /\ working = (session.original \ Substitutes)
                       \cup {word \in Required :
                                {word, Substitute[word]} \cap session.original # {}}

\* A login without its messages: each round adds the comment that the validator does
\* not look for.
Hopeless ==
    /\ Validating
    /\ session.kind = "authentication"
    /\ "main" \in session.given /\ "login" \notin session.given

\* Only such a login uses up the iterations, and it always does: any other text is
\* repaired or given up within one round.
OnlyLoginsRunOut ==
    Validating /\ session.limit >= OneRound =>
        /\ status = "max_iterations" => Hopeless
        /\ status \in {"completed", "failed"} => ~Hopeless
=============================================================================
