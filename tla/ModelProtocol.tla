--------------------------- MODULE ModelProtocol ---------------------------
(***************************************************************************)
(* One proposal of AiAgent after the other (src/src/harness/ai_agent.rs):  *)
(* the HTTP call (openai_compatible_client.rs), the reading of the answer  *)
(* by hand-written scanners and its conversion into an action (model.rs).  *)
(*                                                                         *)
(* A text is a sequence of tokens, one for each kind of character the      *)
(* scanners tell apart.  The keys of an object and the words without a     *)
(* choice in them, operation names and numbers, are tokens of their own;   *)
(* an item of a batch holds the texts of its fields in order.              *)
(***************************************************************************)
EXTENDS ModelErrors, SequencesExt

CONSTANTS
    HttpStatuses, \* HTTP statuses a provider may send
    Hints,        \* Retry-After values it may send
    Batches,      \* [action, items] a model may want
    Files,        \* paths of the artifact besides its primary file
    SourceLength, \* length of every file of the artifact
    MaxProposals  \* bound: proposals looked at

Chars == {"plain", "wide", "quote", "backslash", "lbrace", "rbrace", "lbracket", "rbracket"}

\* A character of two bytes is read as two characters.
ReadChars == Chars \cup {"byte"}

NoText == <<"none">>

CorrectionFields ==
    [replace_text |-> <<"search", "replacement">>,
     insert_text  |-> <<"position", "text">>,
     remove_text  |-> <<"start", "end">>]

FileFields ==
    [create_file |-> <<"path", "source">>,
     delete_file |-> <<"path">>,
     rename_file |-> <<"from", "to">>]

Numbers == {"position", "start", "end"}

FieldsOf(action) == IF action = "apply_correction" THEN CorrectionFields ELSE FileFields

\* path is NoText where a correction names none, and in every file operation.
BatchItem(operation, path, texts) == [operation |-> operation, path |-> path, texts |-> texts]

IsBatchItem(action, item) ==
    LET fields == FieldsOf(action)[item.operation]
    IN /\ item \in [operation : DOMAIN FieldsOf(action), path : Seq(Chars) \cup {NoText},
                    texts : [DOMAIN fields -> Seq(Chars)]]
       /\ action = "apply_file_operations" => item.path = NoText
       /\ \A k \in DOMAIN fields : fields[k] \in Numbers => item.texts[k] = <<"plain">>

\* An answer that holds no batch asks for one of these; complete when it has the
\* fields the action needs.
SimpleActions == {"validate", "repair_diagnostic", "compile", "run_tests", "run_clippy",
                  "check_format", "finish"}

NeedsNothing == {"run_tests", "run_clippy", "check_format"}

ASSUME ProtocolAssumption ==
    /\ HttpStatuses \subseteq 200..599
    /\ Hints \subseteq Nat
    /\ \A batch \in Batches :
          /\ batch \in [action : {"apply_correction", "apply_file_operations"},
                       items : Seq(Range(batch.items))]
          /\ \A i \in DOMAIN batch.items : IsBatchItem(batch.action, batch.items[i])
    /\ SourceLength \in Nat /\ MaxProposals \in Nat

VARIABLES
    hasKey,         \* the client has an API key
    proposals,
    answer,         \* what the provider sent last
    modelError,     \* last_model_error
    responseError,  \* last_response_error
    proposal,       \* the action that was proposed
    lastCall,       \* last_call: metadata of an HTTP call
    lastStatus      \* history: the status of the last answer, 0 when there was none

protocolVars ==
    <<hasKey, proposals, answer, modelError, responseError, proposal, lastCall, lastStatus>>

NoError == PlainError("none")

NoCall == [status |-> 0, category |-> "none"]

NoBatch == [action |-> "none", items |-> <<>>]

-----------------------------------------------------------------------------
(***************************************************************************)
(* Writing: serialize_decision, json_string.                               *)
(***************************************************************************)
Escaped(char) == IF char \in {"quote", "backslash"} THEN <<"backslash", char>> ELSE <<char>>

JsonString(text) ==
    <<"quote">> \o FlattenSeq([i \in DOMAIN text |-> Escaped(text[i])]) \o <<"quote">>

Written(field, text) == <<field>> \o (IF field \in Numbers THEN text ELSE JsonString(text))

WrittenFields(action, item) ==
    LET fields == FieldsOf(action)[item.operation]
    IN <<item.operation>>
       \o (IF item.path \in {NoText, <<>>} THEN <<>> ELSE Written("path", item.path))
       \o FlattenSeq([i \in DOMAIN fields |-> Written(fields[i], item.texts[i])])

WrittenItem(action, item) == <<"lbrace">> \o WrittenFields(action, item) \o <<"rbrace">>

WrittenItems(batch) ==
    FlattenSeq([i \in DOMAIN batch.items |-> WrittenItem(batch.action, batch.items[i])])

WrittenArray(batch) == <<"lbracket">> \o WrittenItems(batch) \o <<"rbracket">>

-----------------------------------------------------------------------------
(***************************************************************************)
(* Reading.  Brackets are counted wherever they stand, in a text as well.  *)
(***************************************************************************)
Depth(raw, i, open, close) ==
    Cardinality({j \in 1..i : raw[j] = open}) - Cardinality({j \in 1..i : raw[j] = close})

\* Mutant: the search for the bracket that closes stops at the first one.
ClosesAtFirst(raw, from, open, close) ==
    {j \in DOMAIN raw : j > from /\ raw[j] = close}

\* Where the bracket opened at `from' may be closed.
Closes(raw, from, open, close) ==
    {j \in DOMAIN raw :
        /\ j > from /\ raw[j] = close
        /\ Depth(raw, j, open, close) = Depth(raw, from - 1, open, close)}

First(positions) == CHOOSE i \in positions : \A j \in positions : i <= j

\* extract_array_body, find_matching_bracket.
ArrayBody(raw) ==
    LET ends == Closes(raw, 1, "lbracket", "rbracket")
    IN IF ends = {} THEN NoText ELSE SubSeq(raw, 2, First(ends) - 1)

\* split_top_level_objects: a closing brace too many and no object is at the top
\* level any more.
ObjectStarts(body) ==
    {i \in DOMAIN body :
        /\ body[i] = "lbrace"
        /\ Depth(body, i - 1, "lbrace", "rbrace") = 0
        /\ Closes(body, i, "lbrace", "rbrace") # {}}

Objects(body) ==
    LET starts == ObjectStarts(body)
        start(n) == CHOOSE i \in starts : Cardinality({j \in starts : j <= i}) = n
    IN [n \in 1..Cardinality(starts) |->
           SubSeq(body, start(n), First(Closes(body, start(n), "lbrace", "rbrace")))]

\* read_json_string: what one more character makes of what was read.
Scanned(read, char) ==
    IF read.mode = "closed" THEN read
    ELSE IF read.mode = "open" /\ char = "quote" THEN [read EXCEPT !.mode = "closed"]
    ELSE IF read.mode = "open" /\ char = "backslash" THEN [read EXCEPT !.mode = "escaped"]
    ELSE [text |-> read.text \o (IF char = "wide" THEN <<"byte", "byte">> ELSE <<char>>),
          mode |-> "open"]

\* The text whose opening quote stands before `start'.
ReadString(raw, start) ==
    LET ahead == Len(raw) - start + 1
        read[i \in 0..ahead] ==
            IF i = 0 THEN [text |-> <<>>, mode |-> "open"]
            ELSE Scanned(read[i - 1], raw[start + i - 1])
    IN IF read[ahead].mode = "closed" THEN read[ahead].text ELSE NoText

\* extract_string_field, extract_number_field: the first place with the key.
Extract(object, field) ==
    LET places == {i \in DOMAIN object : object[i] = field}
        at == First(places) + 1
    IN IF places = {} \/ at > Len(object) THEN NoText
       ELSE IF field \in Numbers
       THEN IF object[at] = "plain" THEN <<object[at]>> ELSE NoText
       ELSE IF object[at] = "quote" THEN ReadString(object, at + 1)
       ELSE NoText

\* parse_correction_object, parse_file_operation_object: an item without operation
\* or a field of it, or one that searches for nothing, spoils the batch.
ReadItem(action, object) ==
    LET named == {i \in DOMAIN object : object[i] \in DOMAIN FieldsOf(action)}
        operation == object[First(named)]
        fields == FieldsOf(action)[operation]
    IN IF named = {} THEN BatchItem("none", NoText, <<NoText>>)
       ELSE BatchItem(operation,
                      IF action = "apply_correction" THEN Extract(object, "path") ELSE NoText,
                      [i \in DOMAIN fields |-> Extract(object, fields[i])])

IsWellFormed(item) ==
    /\ NoText \notin Range(item.texts)
    /\ item.operation = "replace_text" => item.texts[1] # <<>>

\* parse_corrections_array, parse_file_operations_array, and the check for an empty
\* batch in parse_model_response: the items read, or none.
ReadBatch(action, raw) ==
    LET body == ArrayBody(raw)
        objects == Objects(body)
        items == [n \in DOMAIN objects |-> ReadItem(action, objects[n])]
    IN IF body # NoText /\ \A n \in DOMAIN items : IsWellFormed(items[n])
       THEN items ELSE <<>>

\* The class of what a batch gets wrong.
BatchError(action) ==
    PlainError(IF action = "apply_correction" THEN "invalid_correction"
               ELSE "invalid_file_operation")

-----------------------------------------------------------------------------
(***************************************************************************)
(* decision_to_action: paths are checked and no program is replaced.       *)
(***************************************************************************)
\* ArtifactPath::parse: letters, digits and some marks, under src or tests.
IsPath(text) == text # <<>> /\ Range(text) = {"plain"}

\* validate_apply_correction: text by text, in a file that exists.
ReplacesProgram(item) ==
    /\ Len(item.texts[2]) >= SourceLength
    /\ Len(item.texts[1]) < SourceLength \div 2

CorrectionIsValid(item) ==
    /\ item.path \in {NoText, <<>>} \/ IsPath(item.path)
    /\ item.operation = "replace_text" =>
          /\ item.path \in {NoText, <<>>} \cup Files
          /\ ~ReplacesProgram(item)

PathsOf(item) ==
    CASE item.operation = "rename_file" -> {item.texts[1], item.texts[2]}
      [] OTHER -> {item.texts[1]}

ItemIsValid(action, item) ==
    IF action = "apply_correction" THEN CorrectionIsValid(item)
    ELSE \A path \in PathsOf(item) : IsPath(path)

-----------------------------------------------------------------------------
(***************************************************************************)
(* The provider and the proposals.                                         *)
(***************************************************************************)
\* meant: history, the batch that was written.
Asks(batch) ==
    [action |-> batch.action, raw |-> WrittenArray(batch), complete |-> TRUE, meant |-> batch]

Contents ==
    {Asks(batch) : batch \in Batches} \cup
    [action : SimpleActions \cup {"unsupported", "absent"}, raw : {<<>>}, complete : BOOLEAN,
     meant : {NoBatch}]

NoContent == [action |-> "absent", raw |-> <<>>, complete |-> FALSE, meant |-> NoBatch]

Answer(transport, status, hint, late, body, content) ==
    [transport |-> transport, status |-> status, hint |-> hint, late |-> late,
     body |-> body, content |-> content]

Unanswered ==
    {Answer(transport, 0, NoAnswerHint, late, "none", NoContent) :
        transport \in {"timed_out", "connection", "other"}, late \in BOOLEAN}

Refusals ==
    {Answer("none", status, hint, late, "none", NoContent) :
        status \in HttpStatuses \cap 400..599, hint \in Hints \cup {NoAnswerHint}, late \in BOOLEAN}

\* A body may be cut, too large or not UTF-8 ("unreadable"), or an envelope without content.
Unusable ==
    {Answer("none", status, NoAnswerHint, FALSE, body, NoContent) :
        status \in HttpStatuses \cap 200..399, body \in {"cut", "unreadable", "envelope"}}

\* The answer of a model.
Replies ==
    {Answer("none", 200, NoAnswerHint, FALSE, "content", content) : content \in Contents}

Answers == Unanswered \cup Refusals \cup Unusable \cup Replies

ProtocolInit ==
    /\ hasKey \in BOOLEAN
    /\ proposals = 0
    /\ answer = Answer("none", 0, NoAnswerHint, FALSE, "none", NoContent)
    /\ modelError = NoError /\ responseError = NoError
    /\ proposal = NoBatch
    /\ lastCall = NoCall
    /\ lastStatus = 0

\* ureq reports a status from 400 on as an error.
Arrives(a) == a.transport = "none" /\ a.status < 400

IsSuccess(status) == status \in 200..299

\* record_call, once the body was read; an error leaves what the call before wrote.
RecordOf(a) ==
    IF Arrives(a) /\ a.body \in {"envelope", "content"}
    THEN [status |-> a.status, category |-> IF IsSuccess(a.status) THEN "none" ELSE "http_3xx"]
    ELSE lastCall

\* OpenAICompatibleModelClient::complete.
CompleteError(a) ==
    IF ~Arrives(a) THEN CallError(a)
    ELSE IF a.body \in {"cut", "unreadable"} THEN BodyError(a.body)
    ELSE IF ~IsSuccess(a.status) THEN StatusError(a.status, a.hint)
    ELSE IF a.body = "envelope" THEN PlainError("invalid_response")
    ELSE NoError

\* parse_model_response and decision_to_action.
ContentError(content) ==
    CASE content.action = "absent" -> PlainError("invalid_model_response")
      [] content.action = "unsupported" -> PlainError("unsupported_action")
      [] content.action \in SimpleActions ->
            IF content.complete \/ content.action \in NeedsNothing THEN NoError
            ELSE PlainError("invalid_model_response")
      [] OTHER ->
            LET items == ReadBatch(content.action, content.raw)
            IN IF items # <<>> /\ \A n \in DOMAIN items : ItemIsValid(content.action, items[n])
               THEN NoError ELSE BatchError(content.action)

ActionOf(content) ==
    [action |-> content.action,
     items |-> IF content.action \in SimpleActions THEN <<>>
               ELSE ReadBatch(content.action, content.raw)]

\* A failed proposal is a finish that tells the error.
ErrorFinish == [action |-> "finish", items |-> <<>>]

Ask(a) ==
    /\ answer' = a
    /\ lastStatus' = a.status
    /\ lastCall' = RecordOf(a)

\* Mutant: the error of the proposal before is kept.
ProposeKeeping(error, refusal, content) ==
    /\ proposals < MaxProposals
    /\ proposals' = proposals + 1
    /\ modelError' = IF error = NoError THEN modelError ELSE error
    /\ responseError' = refusal
    /\ proposal' = IF error = NoError /\ refusal = NoError THEN ActionOf(content) ELSE ErrorFinish
    /\ UNCHANGED hasKey

Propose(error, refusal, content) ==
    /\ proposals < MaxProposals
    /\ proposals' = proposals + 1
    /\ modelError' = error
    /\ responseError' = refusal
    /\ proposal' = IF error = NoError /\ refusal = NoError THEN ActionOf(content) ELSE ErrorFinish
    /\ UNCHANGED hasKey

\* require_api_key: nothing is sent.
WithoutKey ==
    /\ ~hasKey
    /\ Propose(PlainError("configuration"), NoError, NoContent)
    /\ UNCHANGED <<answer, lastCall, lastStatus>>

CallFails ==
    /\ hasKey
    /\ \E a \in Answers :
          /\ CompleteError(a) # NoError
          /\ Ask(a)
          /\ Propose(CompleteError(a), NoError, NoContent)

Answered ==
    /\ hasKey
    /\ \E a \in Answers :
          /\ CompleteError(a) = NoError
          /\ Ask(a)
          /\ Propose(NoError, ContentError(a.content), a.content)

Done == proposals = MaxProposals /\ UNCHANGED protocolVars

ProtocolNext == WithoutKey \/ CallFails \/ Answered \/ Done

ProtocolSpec == ProtocolInit /\ [][ProtocolNext]_protocolVars

-----------------------------------------------------------------------------
(***************************************************************************)
(* Properties.                                                             *)
(***************************************************************************)
\* What the proposal came from is an answer with a batch of the model's.
BatchArrived == hasKey /\ answer.body = "content" /\ answer.content.meant # NoBatch

Meant == answer.content.meant

TextsOf(item) == (IF item.path = NoText THEN <<>> ELSE item.path) \o FlattenSeq(item.texts)

IsNested(text, open, close) ==
    /\ \A i \in DOMAIN text : Depth(text, i, open, close) >= 0
    /\ Depth(text, Len(text), open, close) = 0

\* Every character is of one byte, braces are balanced in every item and brackets in
\* the batch.
IsHarmless(batch) ==
    LET texts == [i \in DOMAIN batch.items |-> TextsOf(batch.items[i])]
    IN /\ "wide" \notin Range(FlattenSeq(texts))
       /\ \A i \in DOMAIN texts : IsNested(texts[i], "lbrace", "rbrace")
       /\ IsNested(FlattenSeq(texts), "lbracket", "rbracket")

\* An empty path is the same as none.
Aimed(item) ==
    BatchItem(item.operation, IF item.path = <<>> THEN NoText ELSE item.path, item.texts)

\* A harmless batch is proposed exactly as the model meant it, or refused as a whole
\* because one of its items is not allowed: none is lost, merged or changed, whatever
\* its texts quote or escape.
HarmlessArrives ==
    BatchArrived /\ IsHarmless(Meant) =>
        proposal = IF /\ Meant.items # <<>>
                      /\ \A i \in DOMAIN Meant.items :
                            /\ IsWellFormed(Meant.items[i])
                            /\ ItemIsValid(Meant.action, Meant.items[i])
                   THEN [action |-> Meant.action,
                         items |-> [i \in DOMAIN Meant.items |-> Aimed(Meant.items[i])]]
                   ELSE ErrorFinish

\* last_failure_evidence: the model's error goes first.
Evidence ==
    IF modelError # NoError THEN modelError
    ELSE IF responseError # NoError THEN responseError ELSE NoError

\* Recovery acts on this proposal alone: its evidence blames the model only when a
\* whole body with a status below 400 came back, and the provider only when none did;
\* what is retried is what the provider said or let pass, never an answer it gave.
\* The metadata are those of this call at least when its answer is used.
BlameIsOfThisCall ==
    hasKey /\ proposals > 0 =>
        LET whole == Arrives(answer) /\ answer.body # "cut"
            answered == whole /\ IsSuccess(answer.status)
        IN /\ Evidence # NoError /\ ClassOf(Evidence) = "model_capability" => whole
           /\ Evidence # NoError /\ ClassOf(Evidence) # "model_capability" => ~answered
           /\ ~answered => Evidence # NoError
           /\ Retryable(Evidence) =>
                 answer.late \/ answer.transport = "timed_out" \/ lastStatus \in {429} \cup 500..599
           /\ Evidence = NoError => lastCall = [status |-> lastStatus, category |-> "none"]

\* A character of two bytes is read as two.
AsRead(text) == FlattenSeq([i \in DOMAIN text |->
                               IF text[i] = "wide" THEN <<"byte", "byte">> ELSE <<text[i]>>])

\* README: a correction that names no path edits the primary file.  Braces in the texts
\* of two items make them one, with the edit of the first and the file of the second.
PathIsOfItsEdit ==
    BatchArrived /\ proposal # ErrorFinish =>
        \A n \in DOMAIN proposal.items :
            \E i \in DOMAIN Meant.items :
                /\ proposal.items[n].path = Aimed(Meant.items[i]).path
                /\ proposal.items[n].texts =
                      [k \in DOMAIN Meant.items[i].texts |-> AsRead(Meant.items[i].texts[k])]
=============================================================================
