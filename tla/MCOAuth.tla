------------------------------- MODULE MCOAuth -------------------------------
(***************************************************************************)
(* Small instances, for TLC, of the three parts of package oauth: the      *)
(* callback server, the requests to the token endpoint, and logins put     *)
(* together from them.  A behaviour is about one of them, and the others   *)
(* keep an initial state.                                                  *)
(***************************************************************************)
EXTENDS OAuthParts, MCCallbackServer

CONSTANT stale

A(ok, n, json, acc, err, e) ==
    [success |-> ok, size |-> n, json |-> json, access |-> acc, error |-> err, expires_in |-> e]

\* Successes with lifetimes around zero and around the last number of seconds that is
\* a Duration; failures that look like them; answers that are not JSON; and the
\* same just over the limit.
MCAnswer ==
    {A(TRUE, 1, TRUE, x, e, n) : x \in BOOLEAN, e \in BOOLEAN, n \in {-1, 0, 1, 3, 4}}
    \cup {A(ok, n, TRUE, TRUE, FALSE, 1) : ok \in BOOLEAN, n \in {1, 2}}
    \cup {A(ok, 1, FALSE, FALSE, FALSE, 0) : ok \in BOOLEAN}
    \cup {A(FALSE, 1, TRUE, FALSE, TRUE, 0)}

MCPreset == {NoLogin, stale}

VARIABLE part

ASSUME EndpointInstance == TE!EndpointAssumption /\ TE!DurationAssumption
ASSUME LoginInstance == LG!LoginAssumption

\* An initial state of a part that a behaviour is not about.
QuietServer == expected = "s"
QuietLogin == preset = NoLogin /\ pkce = [l \in Login |-> "none"]

PartsInit ==
    /\ part \in {"server", "token", "login"}
    /\ Init /\ (part = "server" \/ QuietServer)
    /\ TE!Init
    /\ LG!Init /\ (part = "login" \/ QuietLogin)

\* The requests are answered and the clock has stopped; the logins have ended.
TokenDone ==
    /\ part = "token" /\ \A r \in Request : tpc[r] = "done"
    /\ UNCHANGED <<part, vars, tokenVars, loginVars>>

LoginDone ==
    /\ part = "login" /\ \A l \in Login : lpc[l] \in {"done", "refused", "failed"}
    /\ UNCHANGED <<part, vars, tokenVars, loginVars>>

PartsNext ==
    \/ part = "server" /\ Next /\ UNCHANGED <<part, tokenVars, loginVars>>
    \/ part = "token" /\ TE!Next /\ UNCHANGED <<part, vars, loginVars>>
    \/ part = "login" /\ LG!Next /\ UNCHANGED <<part, vars, tokenVars>>
    \/ TokenDone \/ LoginDone

PartsSpec == PartsInit /\ [][PartsNext]_<<part, vars, tokenVars, loginVars>>

PartsSymmetry == Permutations(Hit) \cup Permutations(Request)
=============================================================================
