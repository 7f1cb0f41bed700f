---------------------------- MODULE MCCredentials ----------------------------
(***************************************************************************)
(* Small instances, for TLC, of the places a tool takes its credentials    *)
(* from: profiles, cached sessions and chains of sources.  A behaviour is  *)
(* about one of them, and the others keep an initial state.                *)
(***************************************************************************)
EXTENDS CredentialParts, MCProfile

CONSTANTS k1, k2

\* Negative, the default, below a second, a second and a half.
MCTTL == {-1, 0, 1, 3}

\* -5 seconds wrap to a positive Duration; 3 is the last one that fits.
MCLegacyTTL == {-5, 0, 1, 3, 4}

S(k, s) == [kind |-> k, sources |-> s]

\* Every kind of step, with a prompt in the middle and at the end, and the empty
\* chain.
MCChains ==
    {<<>>,
     <<S("flag", <<"a">>), S("env", <<"b", "c">>), S("prompt:secure", <<"d">>)>>,
     <<S("env", <<"a", "b">>), S("prompt:plain", <<"c">>), S("file", <<"d">>)>>,
     <<S("func", <<"a">>), S("file", <<"b">>), S("prompt:secure", <<"c">>), S("func", <<"d">>)>>}

VARIABLE part

ASSUME SessionInstance == SE!SessionAssumption /\ SE!DurationAssumption
ASSUME ChainInstance == RC!ChainAssumption

\* An initial state of a part that a behaviour is not about.
QuietProfile == file = [p \in Path |-> IF p = ProfilePath(Default) THEN MCOld ELSE Absent]
QuietSession == cache = [f \in {SE!path(p) : p \in Provider} |-> Absent]
QuietChain == value = [s \in Source |-> Empty] /\ chain = <<>> /\ ~terminal

PartsInit ==
    /\ part \in {"profile", "session", "chain"}
    /\ Init /\ (part = "profile" \/ QuietProfile)
    /\ SE!Init /\ (part = "session" \/ QuietSession)
    /\ RC!Init /\ (part = "chain" \/ QuietChain)

PartsNext ==
    \/ part = "profile" /\ Next /\ UNCHANGED <<part, sessionVars, chainVars>>
    \/ part = "session" /\ SE!Next /\ UNCHANGED <<part, vars, chainVars>>
    \/ part = "chain" /\ RC!Next /\ UNCHANGED <<part, vars, sessionVars>>

PartsSpec == PartsInit /\ [][PartsNext]_<<part, vars, sessionVars, chainVars>>

PartsSymmetry == Permutations(Caller) \cup Permutations({k1, k2})
=============================================================================
