-------------------------------- MODULE Login --------------------------------
(***************************************************************************)
(* Authorization-code logins put together from oauth/authcode.go, pkce.go  *)
(* and state.go: several of them at once, or one after the other on the    *)
(* same redirect address, so that the redirect of one may arrive at the    *)
(* callback server of another, late or more than once.  The authorization  *)
(* server is external: it binds a code to the query parameters of the URL  *)
(* that was visited and redeems it once, for the matching verifier.        *)
(* Random values are fresh: the state and the verifier of a login are      *)
(* named after it, and the S256 challenge after the verifier.              *)
(***************************************************************************)
EXTENDS Naturals

CONSTANTS Login,
          None,       \* the empty string
          Preset,     \* values of code_challenge in the query of AuthURL, or None
          MaxVisits   \* how often an authorization URL is opened

\* What the constants have to be.
LoginAssumption == None \notin Login /\ MaxVisits \in Nat

\* NewPKCE, no PKCE, or a pair made by the caller with the plain method.
Pkce == {"S256", "none", "plain"}

VARIABLES preset,  \* code_challenge in AuthURL
          pc, pkce,
          url,     \* the query of the authorization URL: [state, challenge]
          visits,  \* the authorization server: how often each URL was opened
          used,    \* the authorization server: codes it has redeemed
          net,     \* redirects on their way, which are never lost for good
          code,    \* the code a login got
          token,   \* the login on whose behalf its token was issued
          lost     \* history: its code was redeemed and the answer lost

vars == <<preset, pc, pkce, url, visits, used, net, code, token, lost>>

NoURL == [state |-> None, challenge |-> None]
NoCode == [of |-> None, visit |-> 0, challenge |-> None]

TypeOK ==
    /\ preset \in Preset
    /\ pc \in [Login -> {"idle", "wait", "exchange", "done", "refused", "failed"}]
    /\ pkce \in [Login -> Pkce]
    /\ visits \in [Login -> 0 .. MaxVisits]
    /\ token \in [Login -> Login \cup {None}]

Init ==
    /\ preset \in Preset
    /\ pc = [l \in Login |-> "idle"]
    /\ pkce \in [Login -> Pkce]
    /\ url = [l \in Login |-> NoURL]
    /\ visits = [l \in Login |-> 0]
    /\ used = {} /\ net = {}
    /\ code = [l \in Login |-> NoCode]
    /\ token = [l \in Login |-> None]
    /\ lost = [l \in Login |-> FALSE]

Goto(l, p) == pc' = [pc EXCEPT ![l] = p]

Challenge(l) == IF pkce[l] = "none" THEN None ELSE l

\* Mutant: a challenge in the configured URL stays unless there is another one.
AuthQuery_Preset(l) == [state |-> l, challenge |-> IF Challenge(l) = None THEN preset ELSE l]

\* AuthCodeURLChecked: whatever the configured URL says of these is replaced.
AuthQuery(l) == [state |-> l, challenge |-> Challenge(l)]

\* An unusable AuthURL, or a challenge that is not S256, is an error.
Begin(l) ==
    /\ pc[l] = "idle"
    /\ \/ /\ Challenge(l) # None => pkce[l] = "S256"
          /\ url' = [url EXCEPT ![l] = AuthQuery(l)]
          /\ Goto(l, "wait")
       \/ Goto(l, "failed") /\ UNCHANGED url
    /\ UNCHANGED <<preset, pkce, visits, used, net, code, token, lost>>

\* The user opens the URL and agrees; the server redirects with a code.
Visit(l) ==
    /\ url[l] # NoURL /\ visits[l] < MaxVisits
    /\ visits' = [visits EXCEPT ![l] = @ + 1]
    /\ net' = net \cup {[state |-> url[l].state,
                         code |-> [of |-> l, visit |-> visits[l] + 1,
                                   challenge |-> url[l].challenge]]}
    /\ UNCHANGED <<preset, pc, pkce, url, used, code, token, lost>>

VerifyState(l, got) == l # None /\ got = l

\* The callback server of l lets a redirect through; others it answers with an
\* error page and waits on (see CallbackServer).
Callback(l) ==
    /\ pc[l] = "wait"
    /\ \E m \in net : /\ VerifyState(l, m.state)
                      /\ code' = [code EXCEPT ![l] = m.code]
    /\ Goto(l, "exchange")
    /\ UNCHANGED <<preset, pkce, url, visits, used, net, token, lost>>

\* The form has a verifier if the login has one.
Verifier(l) == IF pkce[l] = "S256" THEN l ELSE None

\* The server redeems the code; if its answer is lost, the caller may try again.
Exchange(l) ==
    /\ pc[l] = "exchange" /\ code[l] \notin used /\ code[l].challenge = Verifier(l)
    /\ used' = used \cup {code[l]}
    /\ \/ Goto(l, "done") /\ token' = [token EXCEPT ![l] = code[l].of] /\ UNCHANGED lost
       \/ lost' = [lost EXCEPT ![l] = TRUE] /\ UNCHANGED <<pc, token>>
    /\ UNCHANGED <<preset, pkce, url, visits, net, code>>

ExchangeRefused(l) ==
    /\ pc[l] = "exchange" /\ (code[l] \in used \/ code[l].challenge # Verifier(l))
    /\ Goto(l, "refused")
    /\ UNCHANGED <<preset, pkce, url, visits, used, net, code, token, lost>>

\* The login is given up, or the request fails before it arrives.
GiveUp(l) ==
    /\ pc[l] \in {"wait", "exchange"} /\ Goto(l, "failed")
    /\ UNCHANGED <<preset, pkce, url, visits, used, net, code, token, lost>>

Advance(l) ==
    \/ Begin(l) \/ Visit(l) \/ Callback(l) \/ Exchange(l) \/ ExchangeRefused(l) \/ GiveUp(l)

Next == \E l \in Login : Advance(l)

Spec == Init /\ [][Next]_vars

-----------------------------------------------------------------------------

\* Whatever redirects arrive where, a login ends with the token of the
\* authorization that it asked for itself, and the server refuses the code it
\* presents only if an earlier request has redeemed it: state, challenge and
\* verifier of a login belong together, also for logins without PKCE and when the
\* configured URL names a challenge of its own (authcode.go 63-77, 169-185; state.go 44-52).
LoginsApart ==
    \A l \in Login : (pc[l] = "refused" => lost[l]) /\ token[l] \in {None, l}
=============================================================================
