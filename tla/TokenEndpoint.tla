---------------------------- MODULE TokenEndpoint ----------------------------
(***************************************************************************)
(* The token requests of oauth/authcode.go and the parsing of their        *)
(* answers in oauth/token.go: concurrent Exchange and Refresh calls that   *)
(* share the application's http.Client.  The token endpoint and the        *)
(* network are external: a request may be lost, be answered late, be       *)
(* redirected to another host, or get an answer of any kind and size.      *)
(***************************************************************************)
EXTENDS Duration

CONSTANTS Request,    \* concurrent calls of Exchange and Refresh
          Limit,      \* MaxTokenResponseBytes
          Answer,     \* the answers the endpoint may give
          Redirect,   \* the answer that is one
          Nil,        \* the zero time, and the absence of an answer or a token
          MaxTime

\* An answer: does its status say success, how long is it, is it JSON, and has it
\* an access token or an error code; expires_in is 0 also if it is missing.
AnswerType == [success : BOOLEAN, size : Nat, json : BOOLEAN, access : BOOLEAN,
               error : BOOLEAN, expires_in : Int]

\* What the constants have to be.
EndpointAssumption ==
    /\ Limit \in Nat /\ MaxTime \in Nat
    /\ Answer \subseteq AnswerType
    /\ Nil \notin Int
    /\ \A a \in Answer : ~a.json => ~a.access /\ ~a.error /\ a.expires_in = 0

VARIABLES shared,    \* CheckRedirect of the application's client
          now,
          pc,
          own,       \* CheckRedirect of the client that makes the request
          reached,   \* the hosts that have received the form with its secrets
          answer,    \* the answer on its way
          issued,    \* history: when the endpoint made it
          parsed,    \* history: when it was parsed
          res        \* <<kind of result, ExpiresAt>>

vars == <<shared, now, pc, own, reached, answer, issued, parsed, res>>

TypeOK ==
    /\ shared \in {"follow", "refuse"}
    /\ now \in 0 .. MaxTime
    /\ pc \in [Request -> {"idle", "send", "wait", "read", "done"}]
    /\ own \in [Request -> {"follow", "refuse"}]
    /\ reached \in [Request -> SUBSET {"endpoint", "elsewhere"}]
    /\ answer \in [Request -> Answer \cup {Nil, Redirect}]

NoResult == <<"none", Nil>>

Init ==
    /\ shared = "follow" /\ now = 0
    /\ pc = [r \in Request |-> "idle"]
    /\ own = [r \in Request |-> "follow"]
    /\ reached = [r \in Request |-> {}]
    /\ answer = [r \in Request |-> Nil]
    /\ issued = [r \in Request |-> 0]
    /\ parsed = [r \in Request |-> 0]
    /\ res = [r \in Request |-> NoResult]

Goto(r, l) == pc' = [pc EXCEPT ![r] = l]

Finish(r, kind, expires) == Goto(r, "done") /\ res' = [res EXCEPT ![r] = <<kind, expires>>]

\* Mutant: the policy is set on the client itself.
CopyClient_InPlace(r) == shared' = "refuse" /\ own' = [own EXCEPT ![r] = shared]

\* The request is made with a copy of the client that refuses redirects.
CopyClient(r) == own' = [own EXCEPT ![r] = "refuse"] /\ UNCHANGED shared

\* Exchange or Refresh: the form is built and the client copied.  An empty or
\* malformed TokenURL ends the call here.
Begin(r) ==
    /\ pc[r] = "idle"
    /\ \/ Goto(r, "send") /\ CopyClient(r) /\ UNCHANGED res
       \/ Finish(r, "config", Nil) /\ UNCHANGED <<shared, own>>
    /\ UNCHANGED <<now, reached, answer, issued, parsed>>

\* The form arrives at the endpoint, which answers or redirects.
Send(r) ==
    /\ pc[r] = "send"
    /\ reached' = [reached EXCEPT ![r] = @ \cup {"endpoint"}]
    /\ \E a \in Answer \cup {Redirect} : answer' = [answer EXCEPT ![r] = a]
    /\ issued' = [issued EXCEPT ![r] = now]
    /\ Goto(r, "wait")
    /\ UNCHANGED <<shared, now, own, parsed, res>>

\* A redirect that keeps the method makes http.Client send the form once more.
Redirected(r) ==
    /\ pc[r] = "wait" /\ answer[r] = Redirect
    /\ IF own[r] = "refuse"
       THEN Finish(r, "redirect", Nil) /\ UNCHANGED <<reached, answer>>
       ELSE /\ reached' = [reached EXCEPT ![r] = @ \cup {"elsewhere"}]
            /\ \E a \in Answer : answer' = [answer EXCEPT ![r] = a]
            /\ UNCHANGED <<pc, res>>
    /\ UNCHANGED <<shared, now, own, issued, parsed>>

Receive(r) ==
    /\ pc[r] = "wait" /\ answer[r] # Redirect
    /\ Goto(r, "read")
    /\ UNCHANGED <<shared, now, own, reached, answer, issued, parsed, res>>

\* The connection, the context or the reading of the body fails.
NetworkFails(r) ==
    /\ pc[r] \in {"send", "wait", "read"}
    /\ Finish(r, "network", Nil)
    /\ UNCHANGED <<shared, now, own, reached, answer, issued, parsed>>

\* What the limited reader returns of an answer.
BodyLength(a) == IF a.size > Limit + 1 THEN Limit + 1 ELSE a.size

\* Mutant: the bound on expires_in is missing.
Supported_Any(a) == TRUE

Supported(a) == a.expires_in <= MaxSeconds

\* Token.UnmarshalJSON at time t: lifetimes that are not positive are unknown.
ExpiresAt(a, t) == IF a.expires_in > 0 THEN t + Wrap(a.expires_in * Second) ELSE Nil

\* A success without access token is an error answer if it has an error code.
Outcome(a, t) ==
    CASE BodyLength(a) > Limit -> <<"toolarge", Nil>>
      [] BodyLength(a) <= Limit /\ ~a.success -> <<"tokenerror", Nil>>
      [] BodyLength(a) <= Limit /\ a.success /\ ~(a.json /\ Supported(a)) -> <<"parse", Nil>>
      [] BodyLength(a) <= Limit /\ a.success /\ a.json /\ Supported(a) /\ ~a.access ->
           IF a.error THEN <<"tokenerror", Nil>> ELSE <<"invalid", Nil>>
      [] OTHER -> <<"token", ExpiresAt(a, t)>>

\* The rest of postTokenForm, once the body is there.
Parse(r) ==
    /\ pc[r] = "read"
    /\ LET o == Outcome(answer[r], now) IN Finish(r, o[1], o[2])
    /\ parsed' = [parsed EXCEPT ![r] = now]
    /\ UNCHANGED <<shared, now, own, reached, answer, issued>>

Tick ==
    /\ now < MaxTime /\ now' = now + 1
    /\ UNCHANGED <<shared, pc, own, reached, answer, issued, parsed, res>>

\* Token.Expired at the present time.
Expired(r) == res[r][2] # Nil /\ now > res[r][2]

Handle(r) == Begin(r) \/ Send(r) \/ Redirected(r) \/ Receive(r) \/ NetworkFails(r) \/ Parse(r)

Next == Tick \/ \E r \in Request : Handle(r)

Spec == Init /\ [][Next]_vars

-----------------------------------------------------------------------------

\* Codes, verifiers, refresh tokens and client secrets reach the token endpoint and
\* no other host, although the client that the application supplies follows
\* redirects and keeps doing so for its other requests (authcode.go 45-48, 105-114).
SecretsStay ==
    /\ \A r \in Request : reached[r] \subseteq {"endpoint"}
    /\ shared = "follow"

\* The exact end of the lifetime of the token that r got, counted from time t.
End(r, t) == t + answer[r].expires_in * Second

\* The token of r, if it has one, is that of a good answer and ends in time; an error
\* about the answer has its reason there.
Exact(r) ==
    /\ res[r][1] = "token" =>
         /\ answer[r].success /\ answer[r].json /\ answer[r].access /\ answer[r].size <= Limit
         /\ answer[r].expires_in > 0 =>
              /\ Expired(r) => End(r, issued[r]) < now
              /\ ~Expired(r) => now <= End(r, parsed[r])
    /\ res[r][1] \in {"parse", "tokenerror", "toolarge", "invalid"} =>
         ~(answer[r].success /\ answer[r].json /\ answer[r].access
             /\ answer[r].size <= Limit /\ answer[r].expires_in <= MaxSeconds)

\* A call returns a token exactly for a complete, successful and well-formed answer.
\* At any time afterwards the token counts as expired only if it is (counted from
\* when it was issued), and as valid only if it is, give or take the time its
\* answer was under way; no lifetime wraps (token.go 28-33, 50-74; authcode.go
\* 117-141).
TokenExact == \A r \in Request : Exact(r)
=============================================================================
