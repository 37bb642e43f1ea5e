------------------------------- MODULE ComApi -------------------------------
(***************************************************************************)
(* A call to an http api (com_api.go) with one HTTPRequest                 *)
(* (helper/httplib.go): HttpGet, HttpPost and HttpPostJson make up to two  *)
(* attempts with the same request, whose body, answer and content stay     *)
(* from the first attempt to the second.  The caller may add files, params *)
(* or a body in a callback; it is taken to ask for no retries within an    *)
(* attempt.  net/http and the server are external; a connection is dialled *)
(* for each attempt.                                                       *)
(***************************************************************************)
EXTENDS Integers

CONSTANTS MaxTry    \* attempts of one call (2)

ASSUME TryAssumption == MaxTry \in Nat \ {0}

RequestKinds == {"get", "post", "postJson"}

VARIABLES
    req,        \* the HTTPRequest: method, params, files, Body, url, resp and body
    try,        \* attempts that were begun
    attempt,    \* where the attempt is
    late,       \* complete requests on their way whose attempt was given up
    executed,   \* complete requests the server executed
    answer      \* what the call returned

apiVars == <<req, try, attempt, late, executed, answer>>

\* Body: of a request without one it is nil; "whole" has a ContentLength and is
\* "drained" once it was read; "files" are written into a pipe, whose length is
\* not known, and "rest" is what the pipe still gives once it was read from.
\* body: the content of the answer that was read, nil before.
ApiInit ==
    /\ req \in [kind : RequestKinds, params : {0, 1}, files : BOOLEAN, Body : {"nil"},
                query : {0}, resp : {FALSE}, body : {"nil"}]
    /\ try = 0 /\ attempt = "idle"
    /\ late = 0 /\ executed = 0 /\ answer = "none"

-----------------------------------------------------------------------------
(* One attempt: apiLimit.Go(fun), in which req.Bytes runs.                 *)

\* JSONBody, or the callback, sets a body before the first attempt; a value that
\* has no JSON leaves the request without one, and its error is not looked at.
Prepare ==
    /\ attempt = "idle"
    /\ \/ UNCHANGED req
       \/ req.kind # "get" /\ req' = [req EXCEPT !.Body = "whole"]
    /\ attempt' = "ready"
    /\ UNCHANGED <<try, late, executed, answer>>

\* The body of a POST is of its files, which also take the params, or of its
\* params; a request with neither has none.
NewBody ==
    IF req.files THEN "files" ELSE IF req.params > 0 THEN "whole" ELSE "nil"

\* Mutant: the body is built for each attempt.
BuildURLAgain ==
    IF req.kind = "get" THEN [req EXCEPT !.query = @ + req.params]
    ELSE IF req.files \/ req.params > 0 THEN [req EXCEPT !.Body = NewBody]
    ELSE req

\* buildURL: the params of a GET are appended to the url of the request, each
\* time; a POST gets a body, unless it has one.
BuildURL ==
    IF req.kind = "get" THEN [req EXCEPT !.query = @ + req.params]
    ELSE IF req.Body = "nil" THEN [req EXCEPT !.Body = NewBody]
    ELSE req

\* getResponse: one that had an answer is not asked again.
GetResponse == ~req.resp

\* Bytes: content that is there is returned.  A content that was cut off counts
\* as content.
Cached ==
    /\ attempt = "ready" /\ try < MaxTry
    /\ req.body # "nil"
    /\ answer' = req.body
    /\ attempt' = "returned" /\ try' = try + 1
    /\ UNCHANGED <<req, late, executed>>

DoRequest ==
    /\ attempt = "ready" /\ try < MaxTry
    /\ req.body = "nil" /\ GetResponse
    /\ req' = BuildURL
    /\ attempt' = "dialling" /\ try' = try + 1
    /\ UNCHANGED <<late, executed, answer>>

\* The attempt fails: the loop goes round, or the error is returned.
AttemptFails ==
    IF try < MaxTry THEN attempt' = "ready" /\ UNCHANGED answer
    ELSE attempt' = "returned" /\ answer' = "error"

\* No connection within three seconds: the body was not touched.
DialRefused ==
    /\ attempt = "dialling"
    /\ AttemptFails
    /\ UNCHANGED <<req, try, late, executed>>

\* The transport reads the body as it writes the request.  A drained one is
\* shorter than its ContentLength, which the transport makes an error; what is
\* left of a pipe has no length to miss, and goes out as a complete request.
Send ==
    /\ attempt = "dialling" /\ req.Body # "drained"
    /\ attempt' = "sent"
    /\ req' = [req EXCEPT !.Body = CASE @ = "whole" -> "drained"
                                    [] @ \in {"files", "rest"} -> "rest"
                                    [] OTHER -> @]
    /\ UNCHANGED <<try, late, executed, answer>>

SendDrained ==
    /\ attempt = "dialling" /\ req.Body = "drained"
    /\ AttemptFails
    /\ UNCHANGED <<req, try, late, executed>>

\* The server executes a request that is complete.
Serve ==
    /\ attempt = "sent"
    /\ attempt' = "executed" /\ executed' = executed + 1
    /\ UNCHANGED <<req, try, late, answer>>

ExecuteLate ==
    /\ late > 0
    /\ late' = late - 1 /\ executed' = executed + 1
    /\ UNCHANGED <<req, try, attempt, answer>>

\* The deadline of ten seconds, or a connection that breaks, before an answer.
NoAnswer ==
    /\ attempt \in {"sent", "executed"}
    /\ AttemptFails
    /\ late' \in IF attempt = "sent" THEN {late, late + 1} ELSE {late}
    /\ UNCHANGED <<req, try, executed>>

\* The answer is read to its end, or breaks off.
Answer(content) ==
    /\ attempt = "executed"
    /\ req' = [req EXCEPT !.resp = TRUE, !.body = content]
    /\ IF content = "whole" THEN attempt' = "returned" /\ answer' = content ELSE AttemptFails
    /\ UNCHANGED <<try, late, executed>>

ApiNext ==
    \/ Prepare \/ Cached \/ DoRequest \/ DialRefused \/ Send \/ SendDrained
    \/ Serve \/ ExecuteLate \/ NoAnswer
    \/ \E content \in {"whole", "cut"} : Answer(content)

ApiSpec == ApiInit /\ [][ApiNext]_apiVars

-----------------------------------------------------------------------------
(* Properties.                                                             *)

\* Two attempts, one execution: a POST whose body has a ContentLength is
\* executed at most once, since its body is drained by the first attempt that
\* reaches the server (com_api.go HttpPost, httplib.go buildURL).  One without a
\* body, or with files, may be executed on each attempt.
PostedOnce == req.Body \in {"whole", "drained"} => executed <= 1
=============================================================================
