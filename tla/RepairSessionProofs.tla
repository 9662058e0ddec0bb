------------------------ MODULE RepairSessionProofs ------------------------
(***************************************************************************)
(* A completed repair leaves the artifact that was validated and compiled, *)
(* for every text, kind of plan and limit of iterations.                   *)
(*                                                                         *)
(* The agent proposes what it remembers, the tools act on the artifact:    *)
(* RepairInv says that the two are the same text whenever the one is used  *)
(* for the other, and what the last observation stands for.  How far a     *)
(* session is in its round is told by its iterations: RoundInv, PlantedInv *)
(* and HopelessInv say what text it then has and what there is to correct. *)
(***************************************************************************)
EXTENDS RepairSession, TLAPS

Tools == {"none", "validate", "repair_diagnostic", "apply_correction", "compile"}

RepairInv ==
    /\ session.agent \in {"validate", "bridged", "compile"}
    /\ last \in [tool : Tools, success : BOOLEAN]
    /\ last.tool = "none" \/ session.agent # "bridged" => corrected = NoText
    /\ last.tool = "validate" /\ corrected # NoText => corrected = working
    /\ last = Observation("validate", TRUE) => validated = working
    /\ Validating /\ last.tool = "compile" =>
          /\ session.agent = "bridged"
          /\ validated = working
          /\ last.success => compiled = working
    /\ Validating /\ status = "completed" =>
          IF session.agent = "bridged" THEN last.tool = "compile"
          ELSE last = Observation("validate", TRUE)

-----------------------------------------------------------------------------
LEMMA ObservationIs ==
    ASSUME NEW tool \in Tools, NEW success \in BOOLEAN
    PROVE  /\ Observation(tool, success) \in [tool : Tools, success : BOOLEAN]
           /\ Observation(tool, success).tool = tool
           /\ Observation(tool, success).success = success
BY DEF Observation

LEMMA ValidationKeeps ==
    ASSUME RepairInv, NEW text, RunValidate(text),
           corrected' = NoText \/ corrected' = text,
           session.agent = "bridged" \/ corrected' = NoText
    PROVE  RepairInv'
<1>1. /\ working' = text
      /\ last'.tool = "validate" /\ last' \in [tool : Tools, success : BOOLEAN]
      /\ last' = Observation("validate", TRUE) => validated' = text
      /\ UNCHANGED <<session, status>>
      /\ status = "running"
  BY DEF RunValidate, SetSource, Observation, Iterate, Tools
<1>2. QED
  BY <1>1 DEF RepairInv, Validating

LEMMA CompilationKeeps ==
    ASSUME RepairInv, NEW text, RunCompile(text),
           Validating =>
              /\ session.agent = "bridged"
              /\ validated = working
              /\ text = working
    PROVE  RepairInv'
<1>1. /\ last'.tool = "compile" /\ last' \in [tool : Tools, success : BOOLEAN]
      /\ last'.success => compiled' = working'
      /\ UNCHANGED <<session, status, corrected, validated>>
      /\ status = "running"
      /\ Validating => working' = working
  BY DEF RunCompile, SetSource, Observation, Iterate, Tools
<1>2. QED
  BY <1>1 DEF RepairInv, Validating, Observation

LEMMA EndKeeps ==
    ASSUME RepairInv, NEW ends, FinishWith(ends),
           "completed" \in ends /\ Validating =>
              IF session.agent = "bridged" THEN last.tool = "compile"
              ELSE last = Observation("validate", TRUE)
    PROVE  RepairInv'
BY DEF RepairInv, FinishWith, Iterate, Validating, Observation

LEMMA DiagnosisKeeps ==
    ASSUME RepairInv, Diagnose
    PROVE  RepairInv'
<1>1. CASE FinishWith({"failed"})
  BY <1>1, EndKeeps
<1>2. CASE RunDiagnostic
  <2>1. /\ last'.tool = "repair_diagnostic" /\ last' \in [tool : Tools, success : BOOLEAN]
        /\ UNCHANGED <<session, status, corrected>>
        /\ status = "running"
    BY <1>2 DEF RunDiagnostic, Iterate, Observation, Tools
  <2>2. QED
    BY <2>1 DEF RepairInv, Validating, Observation
<1>3. QED
  BY <1>1, <1>2 DEF Diagnose

LEMMA CorrectionKeeps ==
    ASSUME RepairInv, Correct
    PROVE  RepairInv'
<1>1. CASE ProposedCorrections = {}
  <2>1. FinishWith({"failed"})
    BY <1>1 DEF Correct, FinishWith
  <2>2. QED
    BY <2>1, EndKeeps
<1>2. CASE ProposedCorrections # {}
  <2>1. /\ last' = Observation("apply_correction", TRUE)
        /\ UNCHANGED <<session, status, corrected>>
        /\ status = "running"
    BY <1>2 DEF Correct, FinishWith, SetSource, Iterate
  <2>2. last'.tool = "apply_correction" /\ last' \in [tool : Tools, success : BOOLEAN]
    BY <2>1, ObservationIs DEF Tools
  <2>3. QED
    BY <2>1, <2>2 DEF RepairInv, Validating, Observation
<1>3. QED
  BY <1>1, <1>2

LEMMA RoundKeeps ==
    ASSUME RepairInv, Begin \/ Diagnose \/ Correct \/ Revalidate
    PROVE  RepairInv'
<1>1. CASE Begin
  <2>1. corrected' = NoText
    BY <1>1 DEF Begin, Observation, RepairInv
  <2>2. QED
    BY <1>1, <2>1, ValidationKeeps DEF Begin
<1>2. CASE Revalidate
  <2>1. CASE session.agent = "bridged"
    <3>1. corrected' = working
      BY <1>2, <2>1 DEF Revalidate
    <3>2. QED
      BY <1>2, <2>1, <3>1, ValidationKeeps DEF Revalidate
  <2>2. CASE session.agent # "bridged"
    <3>1. corrected' = NoText
      BY <1>2, <2>2 DEF Revalidate, RepairInv
    <3>2. QED
      BY <1>2, <3>1, ValidationKeeps DEF Revalidate
  <2>3. QED
    BY <2>1, <2>2
<1>3. QED
  BY <1>1, <1>2, DiagnosisKeeps, CorrectionKeeps

LEMMA FinishKeeps ==
    ASSUME RepairInv, NEW tool, FinishAfter(tool),
           Validating => tool = IF session.agent = "bridged" THEN "compile" ELSE "validate"
    PROVE  RepairInv'
<1>1. last = Observation(tool, TRUE) /\ FinishWith({"completed"})
  BY DEF FinishAfter
<1>2. last.tool = tool
  BY <1>1 DEF Observation
<1>3. QED
  BY <1>1, <1>2, EndKeeps

LEMMA RepairStep ==
    ASSUME RepairInv, [Next]_vars
    PROVE  RepairInv'
<1>1. CASE ValidateThenRepair
  <2>1. session.agent = "validate"
    BY <1>1 DEF ValidateThenRepair
  <2>2. CASE FinishAfter("validate")
    BY <2>1, <2>2, FinishKeeps
  <2>3. QED
    BY <1>1, <2>2, RoundKeeps DEF ValidateThenRepair
<1>2. CASE BridgedValidateRepair
  <2>1. session.agent = "bridged"
    BY <1>2 DEF BridgedValidateRepair
  <2>2. CASE CompileValidated
    <3>1. /\ last = Observation("validate", TRUE) /\ last.tool = "validate"
          /\ RunCompile(IF corrected # NoText THEN corrected ELSE working)
      BY <2>2 DEF CompileValidated, Observation
    <3>2. /\ validated = working
          /\ (IF corrected # NoText THEN corrected ELSE working) = working
      BY <3>1 DEF RepairInv
    <3>3. QED
      BY <2>1, <3>1, <3>2, CompilationKeeps
  <2>3. CASE FinishAfter("compile")
    BY <2>1, <2>3, FinishKeeps
  <2>4. CASE StopAfterCompile
    <3>1. last = Observation("compile", FALSE) /\ FinishWith({"failed", "completed"})
      BY <2>4 DEF StopAfterCompile
    <3>2. last.tool = "compile"
      BY <3>1 DEF Observation
    <3>3. QED
      BY <2>1, <3>1, <3>2, EndKeeps
  <2>5. QED
    BY <1>2, <2>2, <2>3, <2>4, RoundKeeps DEF BridgedValidateRepair
<1>3. CASE BridgedCompileRepair
  <2>1. ~Validating
    BY <1>3 DEF BridgedCompileRepair, Validating
  <2>2. CASE FinishAfter("compile")
    BY <2>1, <2>2, FinishKeeps
  <2>3. CASE RunCompile(session.given) \/ RunCompile(session.original)
    BY <2>1, <2>3, CompilationKeeps
  <2>4. QED
    BY <1>3, <2>2, <2>3 DEF BridgedCompileRepair
<1>4. CASE IterationsExhausted
  BY <1>4 DEF IterationsExhausted, RepairInv, Validating
<1>5. CASE Returned \/ UNCHANGED vars
  <2>1. UNCHANGED <<session, working, last, corrected, validated, compiled, status>>
    BY <1>5 DEF Returned, vars
  <2>2. QED
    BY <2>1 DEF RepairInv, Validating
<1>6. QED
  BY <1>1, <1>2, <1>3, <1>4, <1>5 DEF Next

-----------------------------------------------------------------------------
\* A repair that completes leaves an artifact its validator accepted and, with the
\* bridge and unless the compiler refused it, that compiled as it is (agent.rs,
\* bridge.rs).
THEOREM CompletedIsOfTheArtifact == Spec => []CompletionIsOfTheArtifact
<1>1. Init => RepairInv
  <2> SUFFICES ASSUME Init PROVE RepairInv
    OBVIOUS
  <2>1. session.agent \in {"validate", "bridged", "compile"}
    BY DEF Init, Session
  <2>2. /\ last.tool = "none" /\ last \in [tool : Tools, success : BOOLEAN]
        /\ corrected = NoText /\ status = "running"
    BY DEF Init, Observation, Tools
  <2>3. QED
    BY <2>1, <2>2 DEF RepairInv, Observation
<1>2. RepairInv /\ [Next]_vars => RepairInv'
  BY RepairStep
<1>3. RepairInv => CompletionIsOfTheArtifact
  <2> SUFFICES ASSUME RepairInv, status = "completed", Validating
               PROVE  /\ validated = working
                      /\ session.agent = "bridged" /\ last.success => compiled = working
    BY DEF CompletionIsOfTheArtifact
  <2>1. QED
    BY DEF RepairInv
<1>4. QED
  BY <1>1, <1>2, <1>3, PTL DEF Spec

-----------------------------------------------------------------------------
(***************************************************************************)
(* Where a session is in its first round, which the iterations tell.       *)
(***************************************************************************)
Found(text) == IF session.kind = "unknown" THEN {} ELSE ValidatorErrors(session.kind, text)

Inferred(text) ==
    IF text = {} THEN {} ELSE UNION {InferCorrections(error, text) : error \in Found(text)}

\* The last observation, by name.
Begun == Observation("none", TRUE)
Accepted == Observation("validate", TRUE)
Refused == Observation("validate", FALSE)
Diagnosed == Observation("repair_diagnostic", TRUE)
Amended == Observation("apply_correction", TRUE)

At(observation, place) == last = observation /\ iterations = place

\* A text that is not a hopeless login has no correction left after the first one.
RoundInv ==
    Validating /\ ~Hopeless =>
        /\ status = "running" =>
              \/ last = Begun /\ iterations = 0
              \/ /\ \/ At(Refused, 1)
                    \/ At(Diagnosed, 2)
                 /\ working = session.given /\ errors = Found(working)
              \/ At(Amended, 3) /\ Inferred(working) = {}
              \/ /\ \/ At(Refused, 4)
                    \/ At(Diagnosed, 5)
                 /\ errors = Found(working) /\ Inferred(working) = {}
              \/ last = Accepted /\ iterations \in {1, 4}
              \/ last.tool = "compile" /\ iterations \in {2, 5}
        /\ status = "max_iterations" => session.limit < OneRound

\* A hopeless login stays one.
HopelessInv ==
    Hopeless =>
        /\ status \in {"running", "max_iterations"}
        /\ \/ last = Begun
           \/ /\ \/ /\ \/ last = Refused
                          \/ last = Diagnosed
                       /\ errors = {"authentication"}
                 \/ last = Amended
              /\ "main" \in working /\ "login" \notin working

Planted ==
    /\ session.agent = "bridged" /\ session.planted
    /\ ValidatorErrors("api", session.original) = {}

Undone ==
    (session.original \ Substitutes)
        \cup {word \in Required : {word, Substitute[word]} \cap session.original # {}}

PlantedInv ==
    Planted =>
        /\ session.kind = "api" /\ session.given = IntroduceValidationDefect(session.original)
        /\ status = "running" =>
              \/ last = Begun /\ iterations = 0
              \/ /\ \/ At(Refused, 1)
                    \/ At(Diagnosed, 2)
                 /\ working = session.given /\ errors = {"api"}
              \/ /\ \/ At(Amended, 3)
                    \/ At(Accepted, 4)
                    \/ last.tool = "compile" /\ iterations = 5
                 /\ working = Undone
        /\ status # "running" =>
              session.limit < OneRound \/ (validated = working /\ working = Undone)

-----------------------------------------------------------------------------
(***************************************************************************)
(* The words and the corrections.                                          *)
(***************************************************************************)
LEMMA WordsAre ==
    /\ Required = {"HTTP", "Endpoints", "endpoint", "api", "GET", "POST", "Server", "server"}
    /\ \A word \in Required : Substitute[word] \notin Required
    /\ \A word, other \in Required : Substitute[word] = Substitute[other] => word = other
<1>1. Required = {"HTTP", "Endpoints", "endpoint", "api", "GET", "POST", "Server", "server"}
  BY DEF Required, Substitute
<1>2. /\ Substitute["HTTP"] = "NET" /\ Substitute["Endpoints"] = "Routes"
      /\ Substitute["endpoint"] = "route" /\ Substitute["api"] = "x"
      /\ Substitute["GET"] = "READ" /\ Substitute["POST"] = "WRITE"
      /\ Substitute["Server"] = "Host" /\ Substitute["server"] = "host"
  BY DEF Substitute
<1>3. \A word \in Required : Substitute[word] \notin Required
  BY <1>1, <1>2
<1>4. \A word, other \in Required : Substitute[word] = Substitute[other] => word = other
  BY <1>1, <1>2
<1>5. QED
  BY <1>1, <1>3, <1>4

\* The words the policy puts back.
Missing(text) == {word \in Required : word \notin text /\ Substitute[word] \in text}

LEMMA MarkersCorrected ==
    ASSUME NEW text
    PROVE  /\ Corrected(text, InferMissingMarkers(text))
                 = (text \ {Substitute[word] : word \in Missing(text)}) \cup Missing(text)
           /\ InferMissingMarkers(text) = {} <=> Missing(text) = {}
<1> DEFINE C == InferMissingMarkers(text)
<1>1. C = {Replace(Substitute[word], word) : word \in Missing(text)}
  BY DEF InferMissingMarkers, Missing
<1>2. \A a, b : Replace(a, b).removes = {a} /\ Replace(a, b).adds = {b}
  BY DEF Replace
<1> HIDE DEF C
<1>3. UNION {c.removes : c \in C} = {Substitute[word] : word \in Missing(text)}
  <2>1. ASSUME NEW x \in UNION {c.removes : c \in C}
        PROVE  x \in {Substitute[word] : word \in Missing(text)}
    <3>1. PICK c \in C : x \in c.removes
      OBVIOUS
    <3>2. PICK word \in Missing(text) : c = Replace(Substitute[word], word)
      BY <1>1
    <3>3. x = Substitute[word]
      BY <1>2, <3>1, <3>2
    <3>4. QED
      BY <3>3
  <2>2. ASSUME NEW word \in Missing(text)
        PROVE  Substitute[word] \in UNION {c.removes : c \in C}
    <3>1. Replace(Substitute[word], word) \in C
      BY <1>1
    <3>2. QED
      BY <1>2, <3>1
  <2>3. QED
    BY <2>1, <2>2
<1>4. UNION {c.adds : c \in C} = Missing(text)
  <2>1. ASSUME NEW x \in UNION {c.adds : c \in C} PROVE x \in Missing(text)
    <3>1. PICK c \in C : x \in c.adds
      OBVIOUS
    <3>2. PICK word \in Missing(text) : c = Replace(Substitute[word], word)
      BY <1>1
    <3>3. QED
      BY <1>2, <3>1, <3>2
  <2>2. ASSUME NEW word \in Missing(text) PROVE word \in UNION {c.adds : c \in C}
    <3>1. Replace(Substitute[word], word) \in C
      BY <1>1
    <3>2. QED
      BY <1>2, <3>1
  <2>3. QED
    BY <2>1, <2>2
<1>5. Corrected(text, C)
         = (text \ {Substitute[word] : word \in Missing(text)}) \cup Missing(text)
  BY <1>3, <1>4 DEF Corrected
<1>6. C = {} <=> Missing(text) = {}
  BY <1>1
<1>7. QED
  BY <1>5, <1>6 DEF C

\* What was put back once is not missing again.
LEMMA MarkersSettle ==
    ASSUME NEW text
    PROVE  Missing(Corrected(text, InferMissingMarkers(text))) = {}
<1> DEFINE W == Missing(text)
           next == (text \ {Substitute[word] : word \in W}) \cup W
<1>1. Corrected(text, InferMissingMarkers(text)) = next
  BY MarkersCorrected
<1>2. W \subseteq Required
  BY DEF Missing
<1>3. SUFFICES ASSUME NEW word \in Required, word \notin next, Substitute[word] \in next
               PROVE  FALSE
  BY <1>1 DEF Missing
<1>4. Substitute[word] \notin W /\ word \notin W
  BY <1>2, <1>3, WordsAre
<1>5. Substitute[word] \in text
  BY <1>3, <1>4
<1>6. word \in text
  BY <1>3, <1>4, <1>5 DEF Missing
<1>7. word \in {Substitute[other] : other \in W}
  BY <1>3, <1>6
<1>8. QED
  BY <1>2, <1>3, <1>7, WordsAre

LEMMA InsertIs == ASSUME NEW word PROVE Insert(word).removes = {} /\ Insert(word).adds = {word}
BY DEF Insert

LEMMA InsertsCorrected ==
    ASSUME NEW text, NEW C, NEW W, C = {Insert(word) : word \in W}
    PROVE  Corrected(text, C) = text \cup W
<1>1. UNION {c.removes : c \in C} = {}
  BY InsertIs
<1>2. UNION {c.adds : c \in C} = W
  <2>1. ASSUME NEW x \in UNION {c.adds : c \in C} PROVE x \in W
    <3>1. PICK c \in C : x \in c.adds
      OBVIOUS
    <3>2. PICK word \in W : c = Insert(word)
      OBVIOUS
    <3>3. QED
      BY <3>1, <3>2, InsertIs
  <2>2. ASSUME NEW word \in W PROVE word \in UNION {c.adds : c \in C}
    BY InsertIs
  <2>3. QED
    BY <2>1, <2>2
<1>3. QED
  BY <1>1, <1>2 DEF Corrected

LEMMA FoundIs ==
    ASSUME NEW text, session.kind \in Kinds
    PROVE  Found(text) =
              {error \in {"empty", "api", "calculator", "authentication"} :
                  /\ session.kind # "unknown"
                  /\ \/ error = "empty" /\ text = {}
                     \/ error = "api" /\ session.kind = "api"
                           /\ ~(HasServer(text) /\ HasEndpoint(text))
                     \/ error = "calculator" /\ session.kind = "calculator"
                           /\ "sumar" \notin text
                     \/ error = "authentication" /\ session.kind = "authentication"
                           /\ ~({"validar_credenciales", "login"} \subseteq text)}
BY DEF Found, ValidatorErrors, Kinds

LEMMA ErrorsAre ==
    ASSUME NEW text, text # {}, session.kind \in Kinds
    PROVE  /\ session.kind = "api" => Found(text) =
                 IF HasServer(text) /\ HasEndpoint(text) THEN {} ELSE {"api"}
           /\ session.kind = "calculator" => Found(text) =
                 IF "sumar" \in text THEN {} ELSE {"calculator"}
           /\ session.kind = "authentication" => Found(text) =
                 IF {"validar_credenciales", "login"} \subseteq text
                 THEN {} ELSE {"authentication"}
           /\ session.kind \in {"generic", "unknown"} => Found(text) = {}
<1> DEFINE serves == HasServer(text) /\ HasEndpoint(text)
           logs == {"validar_credenciales", "login"} \subseteq text
<1>1. Found(text) =
         {error \in {"empty", "api", "calculator", "authentication"} :
             /\ session.kind # "unknown"
             /\ \/ error = "empty" /\ text = {}
                \/ error = "api" /\ session.kind = "api" /\ ~serves
                \/ error = "calculator" /\ session.kind = "calculator" /\ "sumar" \notin text
                \/ error = "authentication" /\ session.kind = "authentication" /\ ~logs}
  BY FoundIs, Zenon
<1>2. serves <=> (HasServer(text) /\ HasEndpoint(text))
  OBVIOUS
<1>3. logs <=> {"validar_credenciales", "login"} \subseteq text
  OBVIOUS
<1> HIDE DEF serves, logs
<1>4. /\ session.kind = "api" => Found(text) = IF serves THEN {} ELSE {"api"}
      /\ session.kind = "calculator" => Found(text) =
            IF "sumar" \in text THEN {} ELSE {"calculator"}
      /\ session.kind = "authentication" => Found(text) = IF logs THEN {} ELSE {"authentication"}
      /\ session.kind \in {"generic", "unknown"} => Found(text) = {}
  BY <1>1
<1>5. QED
  BY <1>2, <1>3, <1>4

LEMMA InferredIs ==
    ASSUME NEW text, text # {}, session.kind \in Kinds
    PROVE  /\ session.kind = "api" => Inferred(text) =
                 IF HasServer(text) /\ HasEndpoint(text) THEN {} ELSE InferMissingMarkers(text)
           /\ session.kind = "calculator" => Inferred(text) =
                 IF "sumar" \in text THEN {} ELSE {Insert("sumar")}
           /\ session.kind = "authentication" => Inferred(text) =
                 IF {"validar_credenciales", "login"} \subseteq text THEN {} ELSE InferLogin(text)
           /\ session.kind \in {"generic", "unknown"} => Inferred(text) = {}
<1>1. Inferred(text) = UNION {InferCorrections(error, text) : error \in Found(text)}
  BY DEF Inferred
<1>2. /\ InferCorrections("api", text) = InferMissingMarkers(text)
      /\ InferCorrections("calculator", text) = {Insert("sumar")}
      /\ InferCorrections("authentication", text) = InferLogin(text)
  BY DEF InferCorrections
<1>3. /\ session.kind = "api" => Found(text) =
            IF HasServer(text) /\ HasEndpoint(text) THEN {} ELSE {"api"}
      /\ session.kind = "calculator" => Found(text) =
            IF "sumar" \in text THEN {} ELSE {"calculator"}
      /\ session.kind = "authentication" => Found(text) =
            IF {"validar_credenciales", "login"} \subseteq text THEN {} ELSE {"authentication"}
      /\ session.kind \in {"generic", "unknown"} => Found(text) = {}
  BY ErrorsAre, Zenon
<1>4. UNION {InferCorrections(error, text) : error \in {}} = {}
  OBVIOUS
<1>5. \A only : UNION {InferCorrections(error, text) : error \in {only}}
                   = InferCorrections(only, text)
  BY Zenon
<1>6. QED
  BY <1>1, <1>2, <1>3, <1>4, <1>5

\* One round of corrections leaves nothing to correct, save for a hopeless login.
LEMMA RoundSettles ==
    ASSUME NEW text, text # {}, session.kind \in Kinds, Inferred(text) # {},
           ~(session.kind = "authentication" /\ "main" \in text /\ "login" \notin text)
    PROVE  Inferred(Corrected(text, Inferred(text))) = {}
<1> DEFINE next == Corrected(text, Inferred(text))
<1>1. CASE session.kind = "api"
  <2>1. Inferred(text) = InferMissingMarkers(text)
    BY <1>1, InferredIs
  <2>2. Missing(next) = {}
    BY <2>1, MarkersSettle
  <2>3. InferMissingMarkers(next) = {}
    BY <2>2, MarkersCorrected
  <2> HIDE DEF next
  <2>4. CASE next = {}
    BY <2>4 DEF Inferred, next
  <2>5. CASE next # {}
    <3>1. Inferred(next) = {}
      BY <1>1, <2>3, <2>5, InferredIs
    <3>2. QED
      BY <3>1 DEF next
  <2>6. QED
    BY <2>4, <2>5
<1>2. CASE session.kind = "calculator"
  <2>1. Inferred(text) = {Insert(word) : word \in {"sumar"}}
    BY <1>2, InferredIs
  <2>2. next = text \cup {"sumar"}
    BY <2>1, InsertsCorrected
  <2> HIDE DEF next
  <2>3. Inferred(next) = {}
    BY <1>2, <2>2, InferredIs
  <2>4. QED
    BY <2>3 DEF next
<1>3. CASE session.kind = "authentication"
  <2>1. Inferred(text) = InferLogin(text) /\ ~({"validar_credenciales", "login"} \subseteq text)
    BY <1>3, InferredIs
  <2> DEFINE W == {"validar_credenciales"} \ text
  <2>2. InferLogin(text) = {Insert(word) : word \in W}
    <3>1. {w \in {"main"} : w \in text /\ "login" \notin text} = {}
      BY <1>3
    <3>2. {Insert("validar_credenciales") : word \in W} = {Insert(word) : word \in W}
      OBVIOUS
    <3>3. QED
      BY <3>1, <3>2 DEF InferLogin
  <2>3. next = text \cup W
    BY <2>1, <2>2, InsertsCorrected
  <2>4. "login" \in text => {"validar_credenciales", "login"} \subseteq next
    BY <2>3
  <2>5. "login" \notin text => InferLogin(next) = {}
    BY <1>3, <2>3 DEF InferLogin
  <2>6. next # {}
    BY <2>3
  <2> HIDE DEF next
  <2>7. Inferred(next) = {}
    BY <1>3, <2>4, <2>5, <2>6, InferredIs
  <2>8. QED
    BY <2>7 DEF next
<1>4. QED
  BY <1>1, <1>2, <1>3, InferredIs DEF Kinds

-----------------------------------------------------------------------------
(***************************************************************************)
(* The two extremes: the planted defect and the hopeless login.            *)
(***************************************************************************)
LEMMA PlantedIs ==
    ASSUME ValidatorErrors("api", session.original) = {}, session.kind = "api"
    PROVE  LET given == IntroduceValidationDefect(session.original)
           IN /\ given # {} /\ Found(given) = {"api"}
              /\ Inferred(given) # {}
              /\ Corrected(given, Inferred(given)) = Undone
              /\ Found(Undone) = {}
<1> DEFINE original == session.original
           given == IntroduceValidationDefect(original)
<1>1. HasServer(original) /\ HasEndpoint(original)
  <2>1. "api" \notin ValidatorErrors("api", original)
    OBVIOUS
  <2>2. QED
    BY <2>1 DEF ValidatorErrors
<1>2. PICK served \in {"HTTP", "Server", "server"} : served \in original
  BY <1>1 DEF HasServer
<1>3. PICK reached \in {"GET", "POST", "endpoint", "api"} : reached \in original
  BY <1>1 DEF HasEndpoint
<1>4. served \in Required /\ reached \in Required
  BY WordsAre
<1>5. given = (original \ Required) \cup {Substitute[word] : word \in original \cap Required}
  BY Zenon DEF IntroduceValidationDefect
<1> HIDE DEF original, given
<1>6. given \cap Required = {} /\ Substitute[served] \in given
  BY <1>2, <1>4, <1>5, WordsAre
<1>7. given # {} /\ ~HasServer(given)
  BY <1>6, WordsAre DEF HasServer
<1>8. Found(given) = {"api"}
  BY <1>7, ErrorsAre DEF Kinds
<1>9. Missing(given) =
         {word \in Required : {word, Substitute[word]} \cap original # {}}
  <2>1. ASSUME NEW word \in Required
        PROVE  Substitute[word] \in given <=> word \in original \/ Substitute[word] \in original
    BY <1>5, WordsAre
  <2>2. QED
    BY <1>6, <2>1 DEF Missing
<1>10. Inferred(given) = InferMissingMarkers(given)
  BY <1>7, InferredIs DEF Kinds
<1>11. served \in Missing(given) /\ reached \in Missing(given)
  BY <1>2, <1>3, <1>4, <1>9
<1>12. Inferred(given) # {}
  BY <1>10, <1>11, MarkersCorrected
<1>13. Corrected(given, Inferred(given)) = Undone
  <2>1. Undone = (original \ Substitutes) \cup Missing(given)
    BY <1>9 DEF Undone, original
  <2>2. Corrected(given, Inferred(given))
           = (given \ {Substitute[word] : word \in Missing(given)}) \cup Missing(given)
    BY <1>10, MarkersCorrected
  <2>3. {Substitute[word] : word \in Missing(given)} \subseteq Substitutes
    BY DEF Missing, Substitutes
  <2>4. ASSUME NEW x
        PROVE  x \in given /\ x \notin {Substitute[word] : word \in Missing(given)}
                  => x \in original \ Substitutes
    <3>1. SUFFICES ASSUME x \in given, \A word \in Missing(given) : x # Substitute[word]
                   PROVE  x \in original \ Substitutes
      OBVIOUS
    <3>2. \A word \in Required : x # Substitute[word]
      BY <1>6, <3>1 DEF Missing
    <3>3. QED
      BY <1>5, <3>1, <3>2 DEF Substitutes
  <2>5. ASSUME NEW x \in original \ Substitutes
        PROVE  x \in (given \ {Substitute[word] : word \in Missing(given)}) \cup Missing(given)
    <3>1. CASE x \in Required
      BY <1>9, <2>5, <3>1
    <3>2. CASE x \notin Required
      BY <1>5, <2>3, <2>5, <3>2
    <3>3. QED
      BY <3>1, <3>2
  <2>6. QED
    BY <2>1, <2>2, <2>4, <2>5
<1>14. served \in Undone /\ reached \in Undone
  BY <1>9, <1>11 DEF Undone, original
<1>15. HasServer(Undone) /\ HasEndpoint(Undone) /\ Undone # {}
  BY <1>14 DEF HasServer, HasEndpoint
<1>16. Found(Undone) = {}
  BY <1>15, ErrorsAre DEF Kinds
<1>17. QED
  BY <1>7, <1>8, <1>12, <1>13, <1>16 DEF given, original

LEMMA HopelessIs ==
    ASSUME session.kind = "authentication", NEW text, "main" \in text, "login" \notin text
    PROVE  /\ text # {} /\ Found(text) = {"authentication"}
           /\ Inferred(text) # {}
           /\ "main" \in Corrected(text, Inferred(text))
           /\ "login" \notin Corrected(text, Inferred(text))
<1>1. text # {} /\ ~({"validar_credenciales", "login"} \subseteq text)
  OBVIOUS
<1>2. Found(text) = {"authentication"}
  BY <1>1, ErrorsAre DEF Kinds
<1>3. Inferred(text) = InferLogin(text)
  BY <1>1, InferredIs DEF Kinds
<1> DEFINE W == ({"validar_credenciales"} \ text) \cup {"login-check"}
<1>4. InferLogin(text) = {Insert(word) : word \in W}
  <2>1. {w \in {"main"} : w \in text /\ "login" \notin text} = {"main"}
    OBVIOUS
  <2>2. {Insert("login-check") : word \in {"main"}} = {Insert("login-check")}
    OBVIOUS
  <2>3. {Insert("validar_credenciales") : word \in {"validar_credenciales"} \ text}
           = {Insert(word) : word \in {"validar_credenciales"} \ text}
    OBVIOUS
  <2>4. InferLogin(text) = {Insert(word) : word \in {"validar_credenciales"} \ text}
                              \cup {Insert("login-check")}
    BY <2>1, <2>2, <2>3 DEF InferLogin
  <2>5. QED
    BY <2>4
<1>5. Corrected(text, Inferred(text)) = text \cup W
  <2> HIDE DEF W
  <2>1. Corrected(text, InferLogin(text)) = text \cup W
    BY <1>4, InsertsCorrected
  <2>2. QED
    BY <1>3, <2>1
<1>6. "main" \in text \cup W /\ "login" \notin text \cup W
  OBVIOUS
<1>7. {Insert(word) : word \in W} # {}
  OBVIOUS
<1>8. QED
  BY <1>1, <1>2, <1>3, <1>4, <1>5, <1>6, <1>7

-----------------------------------------------------------------------------
(***************************************************************************)
(* The steps of a round.                                                   *)
(***************************************************************************)
CountInv == session.kind \in Kinds /\ session.limit \in Nat /\ iterations \in Nat

PlaceInv == RoundInv /\ HopelessInv /\ PlantedInv

SessionInv == RepairInv /\ CountInv /\ PlaceInv

LEMMA ObservationsDiffer ==
    /\ Begun.tool = "none" /\ Accepted.tool = "validate" /\ Refused.tool = "validate"
    /\ Diagnosed.tool = "repair_diagnostic" /\ Amended.tool = "apply_correction"
    /\ Accepted # Refused
<1>1. /\ Begun.tool = "none" /\ Accepted.tool = "validate" /\ Refused.tool = "validate"
      /\ Diagnosed.tool = "repair_diagnostic" /\ Amended.tool = "apply_correction"
  BY DEF Begun, Accepted, Refused, Diagnosed, Amended, Observation
<1>2. Accepted.success = TRUE /\ Refused.success = FALSE
  BY DEF Accepted, Refused, Observation
<1>3. QED
  BY <1>1, <1>2

LEMMA SameSession ==
    ASSUME session' = session
    PROVE  /\ Validating' <=> Validating
           /\ Hopeless' <=> Hopeless
           /\ Planted' <=> Planted
           /\ Undone' = Undone
BY DEF Validating, Hopeless, Planted, Undone

\* What a step leaves of the three invariants, with the session as it was.
LEMMA PlaceAfter ==
    ASSUME session' = session
    PROVE  /\ RoundInv' <=>
                (Validating /\ ~Hopeless =>
                    /\ status' = "running" =>
                          \/ last' = Begun /\ iterations' = 0
                          \/ /\ \/ last' = Refused /\ iterations' = 1
                                \/ last' = Diagnosed
                                      /\ iterations' = 2
                             /\ working' = session.given /\ errors' = Found(working')
                          \/ /\ last' = Amended /\ iterations' = 3
                             /\ Inferred(working') = {}
                          \/ /\ \/ last' = Refused /\ iterations' = 4
                                \/ last' = Diagnosed
                                      /\ iterations' = 5
                             /\ errors' = Found(working') /\ Inferred(working') = {}
                          \/ last' = Accepted /\ iterations' \in {1, 4}
                          \/ last'.tool = "compile" /\ iterations' \in {2, 5}
                    /\ status' = "max_iterations" => session.limit < OneRound)
           /\ HopelessInv' <=>
                (Hopeless =>
                    /\ status' \in {"running", "max_iterations"}
                    /\ \/ last' = Begun
                       \/ /\ \/ /\ \/ last' = Refused
                                   \/ last' = Diagnosed
                                /\ errors' = {"authentication"}
                             \/ last' = Amended
                          /\ "main" \in working' /\ "login" \notin working')
           /\ PlantedInv' <=>
                (Planted =>
                    /\ session.kind = "api"
                    /\ session.given = IntroduceValidationDefect(session.original)
                    /\ status' = "running" =>
                          \/ last' = Begun /\ iterations' = 0
                          \/ /\ \/ last' = Refused /\ iterations' = 1
                                \/ last' = Diagnosed
                                      /\ iterations' = 2
                             /\ working' = session.given /\ errors' = {"api"}
                          \/ /\ \/ last' = Amended
                                      /\ iterations' = 3
                                \/ last' = Accepted /\ iterations' = 4
                                \/ last'.tool = "compile" /\ iterations' = 5
                             /\ working' = Undone
                    /\ status' # "running" =>
                          session.limit < OneRound
                             \/ (validated' = working' /\ working' = Undone))
<1>1. Found(working)' = Found(working') /\ Inferred(working)' = Inferred(working')
  BY DEF Found, Inferred
<1>2. QED
  BY <1>1, SameSession DEF RoundInv, HopelessInv, PlantedInv, At, OneRound

\* What a validation says, and what a diagnosis and a correction are of.
LEMMA ValidationIs ==
    ASSUME NEW text, RunValidate(text)
    PROVE  /\ session' = session /\ status = "running" /\ status' = "running"
           /\ iterations' = iterations + 1 /\ working' = text
           /\ \/ last' = Accepted
              \/ last' = Refused /\ errors' = Found(text)
           /\ session.kind # "unknown" /\ Found(text) = {} => last' = Accepted
           /\ Found(text) # {} =>
                 last' = Refused /\ errors' = Found(text)
<1> DEFINE success == session.kind # "unknown" /\ Found(text) = {}
<1>1. /\ last' = Observation("validate", success)
      /\ errors' = IF success THEN errors ELSE Found(text)
  BY DEF RunValidate, Found
<1>2. success \in BOOLEAN /\ (success <=> session.kind # "unknown" /\ Found(text) = {})
  OBVIOUS
<1>3. /\ session' = session /\ status = "running" /\ status' = "running"
      /\ iterations' = iterations + 1 /\ working' = text
  BY DEF RunValidate, Iterate, SetSource
<1> HIDE DEF success
<1>4. success = TRUE \/ success = FALSE
  BY <1>2
<1>5. QED
  BY <1>1, <1>2, <1>3, <1>4 DEF Accepted, Refused

LEMMA EndIs ==
    ASSUME NEW ends, FinishWith(ends)
    PROVE  /\ session' = session /\ status = "running" /\ status' \in ends
           /\ iterations' = iterations + 1
           /\ UNCHANGED <<working, last, errors, corrected, validated, compiled>>
BY DEF FinishWith, Iterate

LEMMA BeginKeepsPlace ==
    ASSUME SessionInv, Validating, Begin
    PROVE  PlaceInv'
<1>1. RunValidate(session.given) /\ last.tool = "none"
  BY DEF Begin
<1>2. /\ session' = session /\ status = "running" /\ status' = "running"
      /\ iterations' = iterations + 1 /\ working' = session.given
      /\ \/ last' = Accepted
         \/ last' = Refused /\ errors' = Found(session.given)
      /\ Found(session.given) # {} =>
            last' = Refused /\ errors' = Found(session.given)
  BY <1>1, ValidationIs
<1>3. RoundInv'
  <2>1. Validating /\ ~Hopeless => iterations = 0
    BY <1>1, <1>2, ObservationsDiffer DEF SessionInv, PlaceInv, RoundInv, At
  <2>2. QED
    BY <1>2, <2>1, PlaceAfter
<1>4. HopelessInv'
  <2>1. Hopeless => Found(session.given) = {"authentication"}
    BY HopelessIs DEF Hopeless
  <2>2. Hopeless => "main" \in session.given /\ "login" \notin session.given
    BY DEF Hopeless
  <2>3. QED
    BY <1>2, <2>1, <2>2, PlaceAfter
<1>5. PlantedInv'
  <2>1. Planted => /\ session.kind = "api" /\ iterations = 0
                   /\ session.given = IntroduceValidationDefect(session.original)
    BY <1>1, <1>2, ObservationsDiffer DEF SessionInv, PlaceInv, PlantedInv, At
  <2>2. Planted => Found(session.given) = {"api"}
    BY <2>1, PlantedIs DEF Planted
  <2>3. QED
    BY <1>2, <2>1, <2>2, PlaceAfter
<1>6. QED
  BY <1>3, <1>4, <1>5 DEF PlaceInv

LEMMA DiagnosisKeepsPlace ==
    ASSUME SessionInv, Validating, Diagnose
    PROVE  PlaceInv'
<1>1. last = Refused
  BY DEF Diagnose, Refused
<1>2. CASE errors = {}
  <2>1. FinishWith({"failed"})
    BY <1>2 DEF Diagnose
  <2>2. session' = session /\ status = "running" /\ status' = "failed"
    BY <2>1, EndIs
  <2>3. ~Hopeless /\ ~Planted
    BY <1>1, <1>2, <2>2, ObservationsDiffer DEF SessionInv, PlaceInv, HopelessInv, PlantedInv, At
  <2>4. QED
    BY <2>2, <2>3, PlaceAfter DEF PlaceInv
<1>3. CASE errors # {}
  <2>1. RunDiagnostic
    BY <1>3 DEF Diagnose
  <2>2. /\ session' = session /\ status = "running" /\ status' = "running"
        /\ iterations' = iterations + 1 /\ UNCHANGED <<working, errors>>
        /\ last' = Diagnosed
    <3>1. (errors # {}) = TRUE
      BY <1>3
    <3>2. QED
      BY <2>1, <3>1 DEF RunDiagnostic, Iterate, Diagnosed
  <2>3. RoundInv'
    <3>1. Validating /\ ~Hopeless =>
             /\ errors = Found(working)
             /\ \/ iterations = 1 /\ working = session.given
                \/ iterations = 4 /\ Inferred(working) = {}
      BY <1>1, <2>2, ObservationsDiffer DEF SessionInv, PlaceInv, RoundInv, At
    <3>2. QED
      BY <2>2, <3>1, PlaceAfter
  <2>4. HopelessInv'
    <3>1. Hopeless =>
             "main" \in working /\ "login" \notin working /\ errors = {"authentication"}
      BY <1>1, ObservationsDiffer DEF SessionInv, PlaceInv, HopelessInv
    <3>2. QED
      BY <2>2, <3>1, PlaceAfter
  <2>5. PlantedInv'
    <3>1. Planted => /\ session.kind = "api" /\ iterations = 1
                     /\ session.given = IntroduceValidationDefect(session.original)
                     /\ working = session.given /\ errors = {"api"}
      BY <1>1, <2>2, ObservationsDiffer DEF SessionInv, PlaceInv, PlantedInv, At
    <3>2. QED
      BY <2>2, <3>1, PlaceAfter
  <2>6. QED
    BY <2>3, <2>4, <2>5 DEF PlaceInv
<1>4. QED
  BY <1>2, <1>3

LEMMA CorrectionKeepsPlace ==
    ASSUME SessionInv, Validating, Correct
    PROVE  PlaceInv'
<1>1. last = Diagnosed /\ status = "running"
  BY DEF Correct, FinishWith, Iterate, Diagnosed
<1>2. /\ ~Hopeless =>
            /\ errors = Found(working)
            /\ \/ iterations = 2 /\ working = session.given
               \/ iterations = 5 /\ Inferred(working) = {}
      /\ Hopeless => "main" \in working /\ "login" \notin working /\ errors = {"authentication"}
      /\ Planted => /\ session.kind = "api" /\ iterations = 2
                    /\ session.given = IntroduceValidationDefect(session.original)
                    /\ working = session.given /\ errors = {"api"}
  BY <1>1, ObservationsDiffer
  DEF SessionInv, PlaceInv, RoundInv, HopelessInv, PlantedInv, At
<1>3. Hopeless => Found(working) = {"authentication"} /\ Inferred(working) # {}
  BY <1>2, HopelessIs DEF Hopeless
<1>4. ProposedCorrections = Inferred(working)
  BY <1>2, <1>3 DEF ProposedCorrections, Inferred
<1>5. Planted => Inferred(working) # {} /\ Corrected(working, Inferred(working)) = Undone
  BY <1>2, PlantedIs DEF Planted
<1>6. CASE Inferred(working) = {}
  <2>1. FinishWith({"failed"})
    BY <1>4, <1>6 DEF Correct
  <2>2. session' = session /\ status' = "failed" /\ ~Hopeless /\ ~Planted
    BY <1>3, <1>5, <1>6, <2>1, EndIs
  <2>3. QED
    BY <2>2, PlaceAfter DEF PlaceInv
<1>7. CASE Inferred(working) # {}
  <2>1. /\ session' = session /\ status' = "running" /\ iterations' = iterations + 1
        /\ working' = Corrected(working, Inferred(working))
        /\ last' = Amended
    BY <1>1, <1>4, <1>7 DEF Correct, Iterate, SetSource, Amended
  <2>2. ~Hopeless => iterations = 2 /\ Inferred(working') = {}
    <3>1. SUFFICES ASSUME ~Hopeless PROVE iterations = 2 /\ Inferred(working') = {}
      OBVIOUS
    <3>2. iterations = 2 /\ working = session.given
      BY <1>2, <1>7, <3>1
    <3>3. ~(session.kind = "authentication" /\ "main" \in working /\ "login" \notin working)
      BY <3>1, <3>2 DEF Hopeless
    <3>4. working # {}
      BY <1>7 DEF Inferred
    <3>5. QED
      BY <1>7, <2>1, <3>2, <3>3, <3>4, RoundSettles DEF SessionInv, CountInv
  <2>3. Hopeless => "main" \in working' /\ "login" \notin working'
    BY <1>2, <2>1, HopelessIs DEF Hopeless
  <2>4. QED
    BY <1>2, <1>5, <2>1, <2>2, <2>3, PlaceAfter DEF PlaceInv
<1>8. QED
  BY <1>6, <1>7

LEMMA RevalidationKeepsPlace ==
    ASSUME SessionInv, Validating, Revalidate
    PROVE  PlaceInv'
<1>1. last = Amended /\ RunValidate(working)
  BY DEF Revalidate, Amended
<1>2. /\ session' = session /\ status = "running" /\ status' = "running"
      /\ iterations' = iterations + 1 /\ working' = working
      /\ \/ last' = Accepted
         \/ last' = Refused /\ errors' = Found(working)
      /\ session.kind # "unknown" /\ Found(working) = {} => last' = Accepted
      /\ Found(working) # {} => last' = Refused /\ errors' = Found(working)
  BY <1>1, ValidationIs
<1>3. RoundInv'
  <2>1. Validating /\ ~Hopeless => iterations = 3 /\ Inferred(working) = {}
    BY <1>1, <1>2, ObservationsDiffer DEF SessionInv, PlaceInv, RoundInv, At
  <2>2. QED
    BY <1>2, <2>1, PlaceAfter
<1>4. HopelessInv'
  <2>1. Hopeless => "main" \in working /\ "login" \notin working
    BY <1>1, ObservationsDiffer DEF SessionInv, PlaceInv, HopelessInv
  <2>2. Hopeless => Found(working) = {"authentication"}
    BY <2>1, HopelessIs DEF Hopeless
  <2>3. QED
    BY <1>2, <2>1, <2>2, PlaceAfter
<1>5. PlantedInv'
  <2>1. Planted => /\ session.kind = "api" /\ iterations = 3
                   /\ session.given = IntroduceValidationDefect(session.original)
                   /\ working = Undone
    BY <1>1, <1>2, ObservationsDiffer DEF SessionInv, PlaceInv, PlantedInv, At
  <2>2. Planted => Found(working) = {}
    BY <2>1, PlantedIs DEF Planted
  <2>3. QED
    BY <1>2, <2>1, <2>2, PlaceAfter
<1>6. QED
  BY <1>3, <1>4, <1>5 DEF PlaceInv

LEMMA CompilationKeepsPlace ==
    ASSUME SessionInv, Validating, CompileValidated
    PROVE  PlaceInv'
<1>1. /\ last = Accepted /\ last.tool = "validate"
      /\ RunCompile(IF corrected # NoText THEN corrected ELSE working)
  BY ObservationsDiffer DEF CompileValidated, Accepted
<1>2. (IF corrected # NoText THEN corrected ELSE working) = working
  BY <1>1 DEF SessionInv, RepairInv, Accepted
<1>3. /\ session' = session /\ status = "running" /\ status' = "running"
      /\ iterations' = iterations + 1 /\ working' = working /\ last'.tool = "compile"
  BY <1>1, <1>2, ObservationsDiffer DEF RunCompile, SetSource, Iterate, Observation
<1>4. ~Hopeless /\ iterations \in {1, 4}
  BY <1>1, <1>3, ObservationsDiffer DEF SessionInv, PlaceInv, RoundInv, HopelessInv, At
<1>5. Planted => /\ session.kind = "api" /\ iterations = 4
                 /\ session.given = IntroduceValidationDefect(session.original)
                 /\ working = Undone
  BY <1>1, <1>3, ObservationsDiffer DEF SessionInv, PlaceInv, PlantedInv, At
<1>6. QED
  BY <1>3, <1>4, <1>5, PlaceAfter DEF PlaceInv

\* After the compiler, and without a bridge after the validation.
LEMMA EndKeepsPlace ==
    ASSUME SessionInv, Validating, FinishWith({"failed", "completed"}),
           \/ session.agent = "bridged" /\ last.tool = "compile"
           \/ session.agent = "validate" /\ last = Accepted
    PROVE  PlaceInv'
<1>1. /\ session' = session /\ status = "running" /\ status' \in {"failed", "completed"}
      /\ UNCHANGED <<working, last, validated>>
  BY EndIs
<1>2. ~Hopeless
  BY ObservationsDiffer DEF SessionInv, PlaceInv, HopelessInv
<1>3. Planted => /\ session.kind = "api"
                 /\ session.given = IntroduceValidationDefect(session.original)
                 /\ working = Undone
  <2>1. Planted => last.tool = "compile"
    BY DEF Planted
  <2>2. QED
    BY <1>1, <2>1, ObservationsDiffer DEF SessionInv, PlaceInv, PlantedInv, At
<1>4. Planted => validated = working
  BY DEF SessionInv, RepairInv, Planted, Validating
<1>5. QED
  BY <1>1, <1>2, <1>3, <1>4, PlaceAfter DEF PlaceInv

LEMMA LimitKeepsPlace ==
    ASSUME SessionInv, Validating, IterationsExhausted
    PROVE  PlaceInv'
<1>1. /\ session' = session /\ status = "running" /\ status' = "max_iterations"
      /\ iterations = session.limit
      /\ UNCHANGED <<working, last, errors, validated>>
  BY DEF IterationsExhausted
<1>2. ~Hopeless => iterations < OneRound
  BY <1>1 DEF SessionInv, PlaceInv, RoundInv, At, OneRound
<1>3. Planted => iterations < OneRound
  BY <1>1 DEF SessionInv, PlaceInv, PlantedInv, At, OneRound
<1>4. RoundInv'
  BY <1>1, <1>2, PlaceAfter
<1>5. HopelessInv'
  BY <1>1, PlaceAfter DEF SessionInv, PlaceInv, HopelessInv
<1>6. PlantedInv'
  <2>1. Planted => /\ session.kind = "api"
                   /\ session.given = IntroduceValidationDefect(session.original)
    BY DEF SessionInv, PlaceInv, PlantedInv
  <2>2. QED
    BY <1>1, <1>3, <2>1, PlaceAfter
<1>7. QED
  BY <1>4, <1>5, <1>6 DEF PlaceInv

LEMMA PlaceStep ==
    ASSUME SessionInv, [Next]_vars
    PROVE  PlaceInv'
<1>1. CASE ~Validating
  <2>1. session' = session
    <3>1. CASE BridgedCompileRepair
      BY <3>1 DEF BridgedCompileRepair, RunCompile, FinishAfter, FinishWith, Iterate
    <3>2. CASE IterationsExhausted \/ Returned \/ UNCHANGED vars
      BY <3>2 DEF IterationsExhausted, Returned, vars
    <3>3. QED
      BY <1>1, <3>1, <3>2
      DEF Next, Validating, ValidateThenRepair, BridgedValidateRepair
  <2>2. ~Hopeless /\ ~Planted
    BY <1>1 DEF Hopeless, Planted, Validating
  <2>3. QED
    BY <1>1, <2>1, <2>2, PlaceAfter DEF PlaceInv
<1>2. CASE Validating
  <2>1. CASE Begin \/ Diagnose \/ Correct \/ Revalidate \/ CompileValidated
    BY <1>2, <2>1, BeginKeepsPlace, DiagnosisKeepsPlace, CorrectionKeepsPlace,
       RevalidationKeepsPlace, CompilationKeepsPlace
  <2>2. CASE session.agent = "validate" /\ FinishAfter("validate")
    <3>1. last = Accepted /\ FinishWith({"failed", "completed"})
      BY <2>2 DEF FinishAfter, FinishWith, Accepted
    <3>2. QED
      BY <1>2, <2>2, <3>1, EndKeepsPlace
  <2>3. CASE session.agent = "bridged" /\ (FinishAfter("compile") \/ StopAfterCompile)
    <3>1. last.tool = "compile" /\ FinishWith({"failed", "completed"})
      BY <2>3 DEF FinishAfter, StopAfterCompile, FinishWith, Observation
    <3>2. QED
      BY <1>2, <2>3, <3>1, EndKeepsPlace
  <2>4. CASE IterationsExhausted
    BY <1>2, <2>4, LimitKeepsPlace
  <2>5. CASE Returned \/ UNCHANGED vars
    <3>1. /\ session' = session
          /\ UNCHANGED <<status, iterations, working, last, errors, validated>>
      BY <2>5 DEF Returned, vars
    <3>2. RoundInv' /\ HopelessInv' /\ PlantedInv'
      BY <3>1, PlaceAfter DEF SessionInv, PlaceInv, RoundInv, HopelessInv, PlantedInv, At
    <3>3. QED
      BY <3>2 DEF PlaceInv
  <2>6. CASE BridgedCompileRepair
    BY <1>2, <2>6 DEF BridgedCompileRepair, Validating
  <2>7. QED
    BY <1>2, <2>1, <2>2, <2>3, <2>4, <2>5, <2>6
    DEF Next, ValidateThenRepair, BridgedValidateRepair
<1>3. QED
  BY <1>1, <1>2

LEMMA CountStep ==
    ASSUME CountInv, [Next]_vars
    PROVE  CountInv'
<1>1. session' = session /\ (iterations' = iterations \/ iterations' = iterations + 1)
  <2>1. ASSUME Iterate
        PROVE  session' = session /\ iterations' = iterations + 1
    BY <2>1 DEF Iterate
  <2>2. CASE IterationsExhausted \/ Returned \/ UNCHANGED vars
    BY <2>2 DEF IterationsExhausted, Returned, vars
  <2>3. CASE ValidateThenRepair \/ BridgedValidateRepair \/ BridgedCompileRepair
    <3>1. Iterate
      BY <2>3 DEF ValidateThenRepair, BridgedValidateRepair, BridgedCompileRepair, Begin,
         Diagnose, Correct, Revalidate, FinishAfter, StopAfterCompile, CompileValidated,
         RunValidate, RunCompile, RunDiagnostic, FinishWith
    <3>2. QED
      BY <2>1, <3>1
  <2>4. QED
    BY <2>2, <2>3 DEF Next
<1>2. QED
  BY <1>1 DEF CountInv

LEMMA SessionStarts ==
    ASSUME Init
    PROVE  SessionInv
<1>1. PICK text \in Texts, original \in Texts, kind \in Kinds, limit \in Limits :
         \/ session = Session("validate", kind, text, text, FALSE, limit)
         \/ session = Session("bridged", kind, text, text, FALSE, limit)
         \/ session = Session("bridged", "api", text,
                              IntroduceValidationDefect(text), TRUE, limit)
         \/ session = Session("compile", "generic", text,
                              IntroduceCompileDefect(text), TRUE, limit)
         \/ session = Session("compile", "generic", text, original, FALSE, limit)
  BY DEF Init
<1>2. /\ session.agent \in {"validate", "bridged", "compile"}
      /\ session.kind \in Kinds /\ session.limit = limit
      /\ session.agent = "bridged" /\ session.planted =>
            /\ session.kind = "api"
            /\ session.given = IntroduceValidationDefect(session.original)
  <2>1. "api" \in Kinds /\ "generic" \in Kinds
    BY DEF Kinds
  <2>2. CASE session = Session("bridged", "api", text,
                               IntroduceValidationDefect(text), TRUE, limit)
    <3>1. /\ session.agent = "bridged" /\ session.kind = "api" /\ session.limit = limit
          /\ session.original = text /\ session.given = IntroduceValidationDefect(text)
      BY <2>2 DEF Session
    <3>2. QED
      BY <2>1, <3>1
  <2>3. CASE session = Session("bridged", kind, text, text, FALSE, limit)
    <3>1. /\ session.agent = "bridged" /\ session.kind = kind /\ session.limit = limit
          /\ session.planted = FALSE
      BY <2>3 DEF Session
    <3>2. QED
      BY <3>1
  <2>4. CASE session = Session("validate", kind, text, text, FALSE, limit)
    <3>1. session.agent = "validate" /\ session.kind = kind /\ session.limit = limit
      BY <2>4 DEF Session
    <3>2. QED
      BY <3>1
  <2>5. CASE \/ session = Session("compile", "generic", text,
                                  IntroduceCompileDefect(text), TRUE, limit)
             \/ session = Session("compile", "generic", text, original, FALSE, limit)
    <3>1. session.agent = "compile" /\ session.kind = "generic" /\ session.limit = limit
      BY <2>5 DEF Session
    <3>2. QED
      BY <2>1, <3>1
  <2>6. QED
    BY <1>1, <2>2, <2>3, <2>4, <2>5
<1>3. /\ last = Begun /\ corrected = NoText /\ status = "running" /\ iterations = 0
  BY DEF Init, Begun
<1>4. RepairInv
  <2>1. last.tool = "none" /\ last \in [tool : Tools, success : BOOLEAN]
    BY <1>3, ObservationIs DEF Begun, Tools
  <2>2. QED
    BY <1>2, <1>3, <2>1 DEF RepairInv, Observation
<1>5. CountInv
  BY <1>2, <1>3, RepairAssumption DEF CountInv
<1>6. PlaceInv
  BY <1>2, <1>3 DEF PlaceInv, RoundInv, HopelessInv, PlantedInv, Planted
<1>7. QED
  BY <1>4, <1>5, <1>6 DEF SessionInv

LEMMA SessionKept == Spec => []SessionInv
<1>1. Init => SessionInv
  BY SessionStarts
<1>2. SessionInv /\ [Next]_vars => SessionInv'
  BY RepairStep, CountStep, PlaceStep DEF SessionInv
<1>3. QED
  BY <1>1, <1>2, PTL DEF Spec

\* The defect for_api plants in a code that validates is undone within one round, word by
\* word, whatever the code: the validated artifact is the code with the words of an API.
THEOREM PlantedIsUndone == Spec => []PlantedDefectIsUndone
<1>1. SessionInv => PlantedDefectIsUndone
  <2> SUFFICES ASSUME SessionInv, Planted, status # "running", session.limit >= OneRound
               PROVE  /\ validated = working
                      /\ working = Undone
    BY DEF PlantedDefectIsUndone, Planted, Undone
  <2>1. ~(session.limit < OneRound)
    BY DEF SessionInv, CountInv, OneRound
  <2>2. QED
    BY <2>1 DEF SessionInv, PlaceInv, PlantedInv
<1>2. QED
  BY <1>1, SessionKept, PTL

\* Any text but a login without its messages is repaired or given up within one round, and
\* such a login never ends: the comment the policy adds is not what the validator wants.
THEOREM LoginsRunOut == Spec => []OnlyLoginsRunOut
<1>1. SessionInv => OnlyLoginsRunOut
  <2> SUFFICES ASSUME SessionInv, Validating, session.limit >= OneRound
               PROVE  /\ status = "max_iterations" => Hopeless
                      /\ status \in {"completed", "failed"} => ~Hopeless
    BY DEF OnlyLoginsRunOut
  <2>1. ~(session.limit < OneRound)
    BY DEF SessionInv, CountInv, OneRound
  <2>2. QED
    BY <2>1 DEF SessionInv, PlaceInv, RoundInv, HopelessInv
<1>2. QED
  BY <1>1, SessionKept, PTL
=============================================================================
