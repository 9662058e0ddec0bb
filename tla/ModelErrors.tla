---------------------------- MODULE ModelErrors ----------------------------
(***************************************************************************)
(* What can go wrong in a call to a model and what it means: ModelError    *)
(* and ModelResponseError (src/src/harness/model.rs), how the HTTP client  *)
(* (openai_compatible_client.rs) arrives at them, and their classes        *)
(* (failure_classification.rs).                                            *)
(***************************************************************************)
EXTENDS Integers

NoAnswerHint == -1  \* no Retry-After

ModelErrorKinds == {"configuration", "authentication", "rate_limited", "timeout",
                    "transport", "http", "invalid_response"}

ResponseErrorKinds == {"context_serialization", "invalid_model_response",
                       "unsupported_action", "invalid_correction", "invalid_file_operation"}

\* A status is kept for the kind http only, a hint for http and rate_limited.
Error(kind, status, hint) == [kind |-> kind, status |-> status, hint |-> hint]

PlainError(kind) == Error(kind, 0, NoAnswerHint)

IsServerError(status) == status \in 500..599

\* ModelError::is_retryable.
Retryable(error) ==
    \/ error.kind \in {"rate_limited", "timeout"}
    \/ error.kind = "http" /\ IsServerError(error.status)

\* classify_model_error, classify_response_error.  A broken connection is transient
\* and yet not retryable.
ClassOf(error) ==
    CASE error.kind \in {"rate_limited", "timeout", "transport"} -> "external_transient"
      [] error.kind = "http" ->
            IF IsServerError(error.status) THEN "external_transient" ELSE "external_permanent"
      [] error.kind \in {"authentication", "configuration"} -> "external_permanent"
      [] error.kind = "context_serialization" -> "system_failure"
      [] OTHER -> "model_capability"

\* map_http_status.
StatusError(status, hint) ==
    CASE status \in {401, 403} -> PlainError("authentication")
      [] status = 429 -> Error("rate_limited", 0, hint)
      [] OTHER -> Error("http", status, hint)

\* map_ureq_error: whatever failed, when it took as long as the timeout it is one.
CallError(answer) ==
    IF answer.late \/ answer.transport = "timed_out" THEN PlainError("timeout")
    ELSE IF answer.transport = "none" THEN StatusError(answer.status, answer.hint)
    ELSE PlainError("transport")

\* read_utf8_limited.  A body that stops, a timeout among the reasons, is a broken
\* connection.
BodyError(body) ==
    IF body = "cut" THEN PlainError("transport") ELSE PlainError("invalid_response")
=============================================================================
