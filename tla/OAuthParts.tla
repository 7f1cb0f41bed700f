----------------------------- MODULE OAuthParts -----------------------------
(***************************************************************************)
(* The client side of package oauth: the requests to the token endpoint,   *)
(* and whole logins, which share no state.                                 *)
(***************************************************************************)
EXTENDS Integers, Sequences

CONSTANTS MaxInt, Second, Request, Redirect, Limit, Answer, Nil, MaxTime,
          Login, NoLogin, Preset, MaxVisits

VARIABLES shared, now, tpc, own, reached, answer, issued, parsed, res,
          preset, lpc, pkce, url, visits, used, net, code, token, lost

tokenVars == <<shared, now, tpc, own, reached, answer, issued, parsed, res>>
loginVars == <<preset, lpc, pkce, url, visits, used, net, code, token, lost>>

TE == INSTANCE TokenEndpoint WITH pc <- tpc
LG == INSTANCE Login WITH None <- NoLogin, pc <- lpc

\* Codes, verifiers and secrets reach the token endpoint and no other host, and the
\* application's client is left as it was (authcode.go 45-48, 105-114).
SecretsStay == TE!SecretsStay

\* A token is returned exactly for a complete, successful answer, and it expires
\* when it does (token.go 28-33, 50-74; authcode.go 117-141).
TokenExact == TE!TokenExact

\* A login ends with the token of its own authorization, or with none, and is refused
\* only after a lost answer (authcode.go 63-77, 169-185; state.go 44-52).
LoginsApart == LG!LoginsApart
=============================================================================
