---------------------------- MODULE OAuthProofs ----------------------------
(***************************************************************************)
(* Proofs about the client side of package oauth: for TokenEndpoint, that  *)
(* secrets reach no other host and that a token says how long it is valid  *)
(* whatever the answer, its delay and the width of a Duration; for Login,  *)
(* that logins do not get each other's tokens, for any number of logins    *)
(* and visits.                                                             *)
(***************************************************************************)
EXTENDS OAuthParts, TLAPS

-----------------------------------------------------------------------------
(* Durations                                                               *)

\* What fits a Duration does not change.
LEMMA WrapExact ==
    ASSUME TE!DurationAssumption, NEW x \in 0 .. MaxInt
    PROVE  TE!Wrap(x) = x
<1>1. MaxInt \in Nat
  BY DEF TE!DurationAssumption
<1>2. x + MaxInt + 1 \in 0 .. (2 * MaxInt + 1)
  BY <1>1
<1>3. (x + MaxInt + 1) % (2 * MaxInt + 2) = x + MaxInt + 1
  BY <1>1, <1>2
<1> QED
  BY <1>1, <1>3 DEF TE!Wrap

\* MaxSeconds seconds do.
LEMMA SecondsFit ==
    ASSUME TE!DurationAssumption, NEW n \in Nat, n <= TE!MaxSeconds
    PROVE  n * Second \in 0 .. MaxInt
<1>1. MaxInt \in Nat /\ Second \in Nat /\ Second > 0
  BY DEF TE!DurationAssumption
<1>2. PICK q \in Int : q = MaxInt \div Second
  BY <1>1
<1>3. q * Second <= MaxInt
  BY <1>1, <1>2
<1>4. n <= q
  BY <1>2 DEF TE!MaxSeconds
<1>5. n * Second <= q * Second
  BY <1>1, <1>4
<1> QED
  BY <1>1, <1>3, <1>5

-----------------------------------------------------------------------------
(* The token endpoint                                                      *)

Good(a) == a.success /\ a.json /\ a.access /\ a.size <= Limit

LEMMA OutcomePair ==
    ASSUME NEW a, NEW t PROVE TE!Outcome(a, t) = <<TE!Outcome(a, t)[1], TE!Outcome(a, t)[2]>>
BY DEF TE!Outcome

\* What an answer is turned into, and when the token in it ends.
LEMMA OutcomeExact ==
    ASSUME TE!EndpointAssumption, TE!DurationAssumption, NEW a \in Answer, NEW t \in Nat
    PROVE  /\ TE!Outcome(a, t)[1] = "token" =>
                /\ Good(a)
                /\ a.expires_in > 0 => TE!Outcome(a, t)[2] = t + a.expires_in * Second
           /\ TE!Outcome(a, t)[1] # "token" => ~(Good(a) /\ a.expires_in <= TE!MaxSeconds)
<1>1. a \in TE!AnswerType /\ Limit \in Nat
  BY DEF TE!EndpointAssumption
<1>2. a.size \in Nat /\ a.expires_in \in Int
  BY <1>1 DEF TE!AnswerType
<1>3. /\ TE!BodyLength(a) > Limit <=> ~(a.size <= Limit)
      /\ TE!BodyLength(a) <= Limit <=> a.size <= Limit
  BY <1>1, <1>2 DEF TE!BodyLength
<1>4. ASSUME a.expires_in > 0, TE!Supported(a)
      PROVE  TE!ExpiresAt(a, t) = t + a.expires_in * Second
  BY <1>2, <1>4, SecondsFit, WrapExact DEF TE!Supported, TE!ExpiresAt
<1>5. CASE ~(a.size <= Limit)
  <2>1. TE!Outcome(a, t) = <<"toolarge", Nil>>
    BY <1>3, <1>5 DEF TE!Outcome
  <2> QED
    BY <1>5, <2>1 DEF Good
<1>6. CASE a.size <= Limit /\ ~a.success
  <2>1. TE!Outcome(a, t) = <<"tokenerror", Nil>>
    BY <1>3, <1>6 DEF TE!Outcome
  <2> QED
    BY <1>6, <2>1 DEF Good
<1>7. CASE a.size <= Limit /\ a.success /\ ~(a.json /\ TE!Supported(a))
  <2>1. TE!Outcome(a, t) = <<"parse", Nil>>
    BY <1>3, <1>7 DEF TE!Outcome
  <2> QED
    BY <1>7, <2>1 DEF Good, TE!Supported
<1>8. CASE a.size <= Limit /\ a.success /\ a.json /\ TE!Supported(a) /\ ~a.access
  <2>1. TE!Outcome(a, t) \in {<<"tokenerror", Nil>>, <<"invalid", Nil>>}
    BY <1>3, <1>8 DEF TE!Outcome
  <2> QED
    BY <1>8, <2>1 DEF Good
<1>9. CASE a.size <= Limit /\ a.success /\ a.json /\ TE!Supported(a) /\ a.access
  <2>1. TE!Outcome(a, t) = <<"token", TE!ExpiresAt(a, t)>>
    BY <1>3, <1>9 DEF TE!Outcome
  <2> QED
    BY <1>4, <1>9, <2>1 DEF Good
<1> QED
  BY <1>5, <1>6, <1>7, <1>8, <1>9

\* Once it has a client of its own a call uses that, and a call that has an answer
\* has one that the endpoint gave.
Calls ==
    \A r \in Request :
       /\ tpc[r] \in {"send", "wait", "read"} => own[r] = "refuse"
       /\ tpc[r] = "wait" => answer[r] \in Answer \cup {Redirect}
       /\ tpc[r] = "read" => answer[r] \in Answer
       /\ issued[r] \in Nat /\ parsed[r] \in Nat /\ issued[r] <= now

\* Where a result comes from.
Results ==
    \A r \in Request :
       \/ res[r] \in {TE!NoResult, <<"config", Nil>>, <<"redirect", Nil>>, <<"network", Nil>>}
       \/ /\ tpc[r] = "done"
          /\ answer[r] \in Answer
          /\ issued[r] <= parsed[r] /\ parsed[r] <= now
          /\ res[r] = TE!Outcome(answer[r], parsed[r])

Histories ==
    /\ issued \in [Request -> Nat] /\ parsed \in [Request -> Nat]
    /\ DOMAIN res = Request

IInv == TE!TypeOK /\ Histories /\ Calls /\ Results /\ TE!SecretsStay

LEMMA InitInv == ASSUME TE!EndpointAssumption PROVE TE!Init => IInv
<1> SUFFICES ASSUME TE!Init PROVE IInv
  OBVIOUS
<1> USE DEF TE!Init, TE!EndpointAssumption
<1>1. TE!TypeOK
  BY DEF TE!TypeOK
<1>2. Histories /\ Calls /\ Results /\ TE!SecretsStay
  BY DEF Histories, Calls, Results, TE!SecretsStay
<1> QED
  BY <1>1, <1>2 DEF IInv

LEMMA TypeStep ==
    ASSUME TE!EndpointAssumption, IInv, [TE!Next]_(TE!vars)
    PROVE  TE!TypeOK' /\ Histories'
<1> USE DEF TE!Goto, TE!Finish, TE!TypeOK, Histories
<1> TE!TypeOK /\ Histories
  BY DEF IInv
<1>1. ASSUME NEW r \in Request, TE!Begin(r) PROVE TE!TypeOK' /\ Histories'
  BY <1>1 DEF TE!Begin, TE!CopyClient
<1>2. ASSUME NEW r \in Request, TE!Send(r) PROVE TE!TypeOK' /\ Histories'
  BY <1>2 DEF TE!Send
<1>3. ASSUME NEW r \in Request, TE!Redirected(r) PROVE TE!TypeOK' /\ Histories'
  BY <1>3 DEF TE!Redirected
<1>4. ASSUME NEW r \in Request, TE!Receive(r) PROVE TE!TypeOK' /\ Histories'
  BY <1>4 DEF TE!Receive
<1>5. ASSUME NEW r \in Request, TE!NetworkFails(r) PROVE TE!TypeOK' /\ Histories'
  BY <1>5 DEF TE!NetworkFails
<1>6. ASSUME NEW r \in Request, TE!Parse(r) PROVE TE!TypeOK' /\ Histories'
  BY <1>6 DEF TE!Parse
<1>7. CASE TE!Tick
  BY <1>7 DEF TE!Tick, TE!EndpointAssumption
<1>8. CASE UNCHANGED TE!vars
  BY <1>8 DEF TE!vars
<1> QED
  BY <1>1, <1>2, <1>3, <1>4, <1>5, <1>6, <1>7, <1>8 DEF TE!Next, TE!Handle

\* A call changes only what is its own.
Others(r) ==
    \A q \in Request \ {r} :
        /\ tpc'[q] = tpc[q] /\ own'[q] = own[q] /\ answer'[q] = answer[q]
        /\ reached'[q] = reached[q] /\ issued'[q] = issued[q] /\ parsed'[q] = parsed[q]
        /\ res'[q] = res[q]

LEMMA InvStep == ASSUME TE!EndpointAssumption PROVE IInv /\ [TE!Next]_(TE!vars) => IInv'
<1> SUFFICES ASSUME IInv, [TE!Next]_(TE!vars) PROVE Calls' /\ Results' /\ TE!SecretsStay'
  BY TypeStep DEF IInv
<1> USE DEF TE!Goto, TE!Finish, TE!TypeOK, Histories
<1> TE!TypeOK /\ Histories /\ Calls /\ Results /\ TE!SecretsStay
  BY DEF IInv
<1>1. ASSUME NEW r \in Request, TE!Begin(r) PROVE Calls' /\ Results' /\ TE!SecretsStay'
  <2> USE <1>1 DEF TE!Begin, TE!CopyClient
  <2>1. Others(r)
    BY DEF Others
  <2>2. Calls'
    BY <2>1 DEF Others, Calls
  <2>3. Results'
    BY <2>1 DEF Others, Calls, Results, TE!NoResult
  <2>4. TE!SecretsStay'
    BY <2>1 DEF Others, Calls, TE!SecretsStay
  <2> QED
    BY <2>2, <2>3, <2>4
<1>2. ASSUME NEW r \in Request, TE!Send(r) PROVE Calls' /\ Results' /\ TE!SecretsStay'
  <2> USE <1>2 DEF TE!Send
  <2>1. Others(r)
    BY DEF Others
  <2>2. Calls'
    BY <2>1 DEF Others, Calls
  <2>3. Results'
    BY <2>1 DEF Others, Calls, Results, TE!NoResult
  <2>4. TE!SecretsStay'
    BY <2>1 DEF Others, Calls, TE!SecretsStay
  <2> QED
    BY <2>2, <2>3, <2>4
<1>3. ASSUME NEW r \in Request, TE!Redirected(r) PROVE Calls' /\ Results' /\ TE!SecretsStay'
  <2> USE <1>3 DEF TE!Redirected
  <2>1. Others(r)
    BY DEF Others
  <2>2. Calls'
    BY <2>1 DEF Others, Calls
  <2>3. Results'
    BY <2>1 DEF Others, Calls, Results, TE!NoResult
  <2>4. TE!SecretsStay'
    BY <2>1 DEF Others, Calls, TE!SecretsStay
  <2> QED
    BY <2>2, <2>3, <2>4
<1>4. ASSUME NEW r \in Request, TE!Receive(r) PROVE Calls' /\ Results' /\ TE!SecretsStay'
  <2> USE <1>4 DEF TE!Receive
  <2>1. Others(r)
    BY DEF Others
  <2>2. Calls'
    BY <2>1 DEF Others, Calls
  <2>3. Results'
    BY <2>1 DEF Others, Calls, Results, TE!NoResult
  <2>4. TE!SecretsStay'
    BY <2>1 DEF Others, Calls, TE!SecretsStay
  <2> QED
    BY <2>2, <2>3, <2>4
<1>5. ASSUME NEW r \in Request, TE!NetworkFails(r) PROVE Calls' /\ Results' /\ TE!SecretsStay'
  <2> USE <1>5 DEF TE!NetworkFails
  <2>1. Others(r)
    BY DEF Others
  <2>2. Calls'
    BY <2>1 DEF Others, Calls
  <2>3. Results'
    BY <2>1 DEF Others, Calls, Results, TE!NoResult
  <2>4. TE!SecretsStay'
    BY <2>1 DEF Others, Calls, TE!SecretsStay
  <2> QED
    BY <2>2, <2>3, <2>4
<1>6. ASSUME NEW r \in Request, TE!Parse(r) PROVE Calls' /\ Results' /\ TE!SecretsStay'
  <2> USE <1>6 DEF TE!Parse
  <2>1. Others(r)
    BY DEF Others
  <2>2. Calls'
    BY <2>1 DEF Others, Calls
  <2>3. Results'
    <3>1. tpc'[r] = "done" /\ answer'[r] \in Answer /\ parsed'[r] = now /\ issued'[r] <= now
      BY DEF Calls
    <3>2. res'[r] = TE!Outcome(answer[r], now)
      BY OutcomePair DEF Calls
    <3> QED
      BY <2>1, <3>1, <3>2 DEF Others, Results
  <2>4. TE!SecretsStay'
    BY <2>1 DEF Others, Calls, TE!SecretsStay
  <2> QED
    BY <2>2, <2>3, <2>4
<1>7. CASE TE!Tick
  BY <1>7 DEF TE!Tick, Calls, Results, TE!SecretsStay
<1>8. CASE UNCHANGED TE!vars
  BY <1>8 DEF TE!vars, Calls, Results, TE!SecretsStay
<1> QED
  BY <1>1, <1>2, <1>3, <1>4, <1>5, <1>6, <1>7, <1>8 DEF TE!Next, TE!Handle

LEMMA Invariant == ASSUME TE!EndpointAssumption PROVE TE!Spec => []IInv
BY InitInv, InvStep, PTL DEF TE!Spec

\* No host but the token endpoint gets a form, and the application's client keeps
\* following redirects (authcode.go 45-48, 105-114).
THEOREM SecretsAlwaysStay == ASSUME TE!EndpointAssumption PROVE TE!Spec => []SecretsStay
<1>1. IInv => SecretsStay
  BY DEF IInv, SecretsStay
<1> QED
  BY <1>1, Invariant, PTL

\* A token is returned exactly for a complete, successful answer and expires when
\* it does, whatever the delay and the width of a Duration (token.go 28-33, 50-74;
\* authcode.go 117-141).
THEOREM TokensAlwaysExact ==
    ASSUME TE!EndpointAssumption, TE!DurationAssumption PROVE TE!Spec => []TokenExact
<1>1. ASSUME IInv PROVE TokenExact
  <2> SUFFICES ASSUME NEW r \in Request PROVE TE!Exact(r)
    BY DEF TokenExact, TE!TokenExact
  <2>1. CASE res[r] \in {TE!NoResult, <<"config", Nil>>, <<"redirect", Nil>>, <<"network", Nil>>}
    BY <2>1 DEF TE!Exact, TE!NoResult
  <2>2. ASSUME answer[r] \in Answer, issued[r] <= parsed[r], parsed[r] <= now,
               res[r] = TE!Outcome(answer[r], parsed[r])
        PROVE  TE!Exact(r)
    <3>1. issued[r] \in Nat /\ parsed[r] \in Nat /\ now \in Nat
      BY <1>1 DEF IInv, TE!TypeOK, Calls, TE!EndpointAssumption
    <3>2. answer[r].expires_in \in Int
      BY <2>2 DEF TE!EndpointAssumption, TE!AnswerType
    <3>3. answer[r].expires_in * Second \in Int
      BY <3>2 DEF TE!DurationAssumption
    <3>4. /\ res[r][1] = "token" =>
               /\ Good(answer[r])
               /\ answer[r].expires_in > 0 => res[r][2] = parsed[r] + answer[r].expires_in * Second
          /\ res[r][1] # "token" => ~(Good(answer[r]) /\ answer[r].expires_in <= TE!MaxSeconds)
      BY <2>2, <3>1, OutcomeExact
    <3> HIDE <2>2
    <3>5. ASSUME res[r][1] = "token", answer[r].expires_in > 0
          PROVE  /\ TE!Expired(r) => TE!End(r, issued[r]) < now
                 /\ ~TE!Expired(r) => now <= TE!End(r, parsed[r])
      BY <2>2, <3>1, <3>3, <3>4, <3>5 DEF TE!Expired, TE!End, TE!EndpointAssumption
    <3> QED
      BY <3>4, <3>5 DEF TE!Exact, Good
  <2> QED
    BY <1>1, <2>1, <2>2 DEF IInv, Results
<1> QED
  BY <1>1, Invariant, PTL

-----------------------------------------------------------------------------
(* Logins                                                                  *)

\* What the URL of each login asks for, and the verifier of each.
Ask == [l \in Login |-> LG!AuthQuery(l)]
Ver == [l \in Login |-> LG!Verifier(l)]

\* A code is for the login it names, and that login's verifier redeems it.
Bound(c) == c.of \in Login /\ c.challenge = Ver[c.of]

Redirects == \A m \in net : m.state = m.code.of /\ Bound(m.code)

\* A login with a URL can redeem what it asks for; the code it exchanges is its own,
\* and only itself has redeemed one.
Logins ==
    \A l \in Login :
       /\ url[l] \in {LG!NoURL, Ask[l]}
       /\ url[l] # LG!NoURL => Ask[l].challenge = Ver[l]
       /\ lpc[l] = "exchange" => code[l].of = l /\ Bound(code[l])
       /\ lpc[l] \in {"idle", "wait"} => \A c \in used : c.of # l
       /\ lpc[l] = "exchange" /\ ~lost[l] => \A c \in used : c.of # l

Shape == DOMAIN url = Login /\ DOMAIN code = Login /\ lost \in [Login -> BOOLEAN]

LInv == LG!TypeOK /\ Shape /\ Redirects /\ Logins /\ LG!LoginsApart

LEMMA LoginInit == ASSUME LG!LoginAssumption PROVE LG!Init => LInv
<1> SUFFICES ASSUME LG!Init PROVE LInv
  OBVIOUS
<1> USE DEF LG!Init, LG!LoginAssumption
<1>1. LG!TypeOK /\ Shape
  BY DEF LG!TypeOK, Shape
<1>2. Redirects /\ Logins /\ LG!LoginsApart
  BY DEF Redirects, Logins, LG!LoginsApart
<1> QED
  BY <1>1, <1>2 DEF LInv

\* Neither changes.
LEMMA PkceStays ==
    ASSUME pkce' = pkce PROVE Ask' = Ask /\ Ver' = Ver
BY DEF Ask, Ver, LG!AuthQuery, LG!Challenge, LG!Verifier

LEMMA Asked ==
    ASSUME LG!LoginAssumption, NEW l \in Login
    PROVE  /\ Ask[l].state = l /\ Ask[l] # LG!NoURL
           /\ (LG!Challenge(l) # NoLogin => pkce[l] = "S256") => Ask[l].challenge = Ver[l]
           /\ Ask[l] = LG!AuthQuery(l) /\ Ver[l] = LG!Verifier(l)
BY DEF LG!LoginAssumption, Ask, Ver, LG!AuthQuery, LG!Challenge, LG!Verifier, LG!NoURL

LEMMA LoginStep ==
    ASSUME LG!LoginAssumption PROVE LInv /\ [LG!Next]_(LG!vars) => LInv'
<1> SUFFICES ASSUME LInv, [LG!Next]_(LG!vars) PROVE LInv'
  OBVIOUS
<1> USE DEF LG!Goto, LG!LoginAssumption, LG!TypeOK, Shape
<1> LG!TypeOK /\ Shape /\ Redirects /\ Logins /\ LG!LoginsApart
  BY DEF LInv
<1>1. ASSUME NEW l \in Login, LG!Begin(l) PROVE LInv'
  <2> USE <1>1 DEF LG!Begin
  <2>0. Ask' = Ask /\ Ver' = Ver
    BY PkceStays
  <2>1. LG!TypeOK' /\ Shape'
    OBVIOUS
  <2>2. Redirects'
    BY <2>0, Asked DEF Redirects, Logins, Bound
  <2>3. Logins'
    BY <2>0, Asked DEF Redirects, Logins, Bound, LG!VerifyState
  <2>4. LG!LoginsApart'
    BY <2>0, Asked DEF Logins, LG!LoginsApart, Bound
  <2> QED
    BY <2>1, <2>2, <2>3, <2>4 DEF LInv
<1>2. ASSUME NEW l \in Login, LG!Visit(l) PROVE LInv'
  <2> USE <1>2 DEF LG!Visit
  <2>0. Ask' = Ask /\ Ver' = Ver
    BY PkceStays
  <2>1. LG!TypeOK' /\ Shape'
    OBVIOUS
  <2>2. Redirects'
    BY <2>0, Asked DEF Redirects, Logins, Bound
  <2>3. Logins'
    BY <2>0, Asked DEF Redirects, Logins, Bound, LG!VerifyState
  <2>4. LG!LoginsApart'
    BY <2>0, Asked DEF Logins, LG!LoginsApart, Bound
  <2> QED
    BY <2>1, <2>2, <2>3, <2>4 DEF LInv
<1>3. ASSUME NEW l \in Login, LG!Callback(l) PROVE LInv'
  <2> USE <1>3 DEF LG!Callback
  <2>0. Ask' = Ask /\ Ver' = Ver
    BY PkceStays
  <2>1. LG!TypeOK' /\ Shape'
    OBVIOUS
  <2>2. Redirects'
    BY <2>0, Asked DEF Redirects, Logins, Bound
  <2>3. Logins'
    BY <2>0, Asked DEF Redirects, Logins, Bound, LG!VerifyState
  <2>4. LG!LoginsApart'
    BY <2>0, Asked DEF Logins, LG!LoginsApart, Bound
  <2> QED
    BY <2>1, <2>2, <2>3, <2>4 DEF LInv
<1>4. ASSUME NEW l \in Login, LG!Exchange(l) PROVE LInv'
  <2> USE <1>4 DEF LG!Exchange
  <2>0. Ask' = Ask /\ Ver' = Ver
    BY PkceStays
  <2>1. LG!TypeOK' /\ Shape'
    <3>1. code[l].of \in Login
      BY DEF Logins, Bound
    <3>2. lpc' \in [Login -> {"idle", "wait", "exchange", "done", "refused", "failed"}]
      OBVIOUS
    <3>3. token' \in [Login -> Login \cup {NoLogin}]
      BY <3>1
    <3>4. lost' \in [Login -> BOOLEAN]
      OBVIOUS
    <3> QED
      BY <3>2, <3>3, <3>4
  <2>2. Redirects'
    BY <2>0, Asked DEF Redirects, Logins, Bound
  <2>3. Logins'
    BY <2>0, Asked DEF Redirects, Logins, Bound, LG!VerifyState
  <2>4. LG!LoginsApart'
    BY <2>0, Asked DEF Logins, LG!LoginsApart, Bound
  <2> QED
    BY <2>1, <2>2, <2>3, <2>4 DEF LInv
<1>5. ASSUME NEW l \in Login, LG!ExchangeRefused(l) PROVE LInv'
  <2> USE <1>5 DEF LG!ExchangeRefused
  <2>0. Ask' = Ask /\ Ver' = Ver
    BY PkceStays
  <2>1. LG!TypeOK' /\ Shape'
    OBVIOUS
  <2>2. Redirects'
    BY <2>0, Asked DEF Redirects, Logins, Bound
  <2>3. Logins'
    BY <2>0, Asked DEF Redirects, Logins, Bound, LG!VerifyState
  <2>4. LG!LoginsApart'
    BY <2>0, Asked DEF Logins, LG!LoginsApart, Bound
  <2> QED
    BY <2>1, <2>2, <2>3, <2>4 DEF LInv
<1>6. ASSUME NEW l \in Login, LG!GiveUp(l) PROVE LInv'
  <2> USE <1>6 DEF LG!GiveUp
  <2>0. Ask' = Ask /\ Ver' = Ver
    BY PkceStays
  <2>1. LG!TypeOK' /\ Shape'
    OBVIOUS
  <2>2. Redirects'
    BY <2>0, Asked DEF Redirects, Logins, Bound
  <2>3. Logins'
    BY <2>0, Asked DEF Redirects, Logins, Bound, LG!VerifyState
  <2>4. LG!LoginsApart'
    BY <2>0, Asked DEF Logins, LG!LoginsApart, Bound
  <2> QED
    BY <2>1, <2>2, <2>3, <2>4 DEF LInv
<1>7. CASE UNCHANGED LG!vars
  BY <1>7, PkceStays DEF LG!vars, Redirects, Logins, Bound, LInv, LG!LoginsApart
<1> QED
  BY <1>1, <1>2, <1>3, <1>4, <1>5, <1>6, <1>7 DEF LG!Next, LG!Advance

LEMMA LoginInvariant == ASSUME LG!LoginAssumption PROVE LG!Spec => []LInv
BY LoginInit, LoginStep, PTL DEF LG!Spec

\* A login ends with the token of its own authorization or none, and is refused only
\* after a lost answer (authcode.go 63-77, 169-185; state.go 44-52).
THEOREM LoginsStayApart == ASSUME LG!LoginAssumption PROVE LG!Spec => []LoginsApart
<1>1. LInv => LoginsApart
  BY DEF LInv, LoginsApart
<1> QED
  BY <1>1, LoginInvariant, PTL
=============================================================================
