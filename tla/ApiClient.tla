------------------------------ MODULE ApiClient ------------------------------
(*
The frontend's way to the API: lib/api-client.ts, lib/config.ts and the demo
switch every service starts with. A response body is an envelope or something
else; a header, a URL and a message are left out. The way a request ends is
chosen by its caller.
*)
CONSTANTS
    Null,         \* null and undefined
    Token         \* the access token a successful login returns

VARIABLES
    useDemoData,  \* config.useDemoData, fixed when the bundle is built
    accessToken   \* the token of lib/api-client.ts, lost when the tab is reloaded

clientVars == <<useDemoData, accessToken>>

ClientInit ==
    /\ useDemoData \in BOOLEAN
    /\ accessToken = Null

setAccessToken(token) == accessToken' = token

\* Bodies the server, or something before it, may send.
Envelope(success, data, code) ==
    [envelope |-> TRUE, success |-> success, data |-> data, code |-> code]
NotAnEnvelope ==
    [envelope |-> FALSE, success |-> FALSE, data |-> Null, code |-> Null]
Delivered(data) == Envelope(TRUE, data, Null)
Refused == Envelope(FALSE, Null, "SERVER_ERROR")

\* What a call of apiRequest resolves to, or the ApiError it throws.
Result(data) == [ok |-> TRUE, data |-> data, code |-> Null]
ApiError(code) == [ok |-> FALSE, data |-> Null, code |-> code]

\* (Mutant: the data of an unsuccessful envelope is dropped.)
parseEnvelopeStrictly(body, acceptErrorData) ==
    IF body.envelope /\ body.success
    THEN Result(body.data)
    ELSE ApiError(IF body.envelope /\ body.code # Null THEN body.code ELSE "UNKNOWN")

parseEnvelope(body, acceptErrorData) ==
    IF ~body.envelope
    THEN ApiError("BAD_RESPONSE")
    ELSE IF body.success \/ (acceptErrorData /\ body.data # Null)
    THEN Result(body.data)
    ELSE ApiError(IF body.code # Null THEN body.code ELSE "UNKNOWN")

\* An exchange ends with a whole body, with one that is no JSON or that the abort
\* timer cut, with the timer before any header, or without a connection.
\* response.json().catch(() => null) turns a body cut by the timer into null, so
\* only an abort before the headers is reported as a timeout.
apiRequest(end, body, acceptErrorData) ==
    CASE end = "replied"     -> parseEnvelope(body, acceptErrorData)
      [] end = "unreadable"  -> parseEnvelope(NotAnEnvelope, acceptErrorData)
      [] end = "aborted"     -> ApiError("TIMEOUT")
      [] end = "unconnected" -> ApiError("NETWORK_ERROR")

\* The codes of an ApiError; having none is something else.
ErrorCodes == {"BAD_RESPONSE", "SERVER_ERROR", "UNKNOWN", "TIMEOUT", "NETWORK_ERROR"}

ASSUME NullAssumption == Null \notin ErrorCodes
=============================================================================
