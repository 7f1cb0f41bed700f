--------------------------- MODULE CredentialParts ---------------------------
(***************************************************************************)
(* The places a tool takes its credentials from: profiles, cached sessions *)
(* (Session) and chains of sources (ResolveChain).  They share no state.   *)
(***************************************************************************)
EXTENDS Profile, Integers, Sequences

CONSTANTS MaxInt, Second, Provider, NoProvider, BadProvider, Key, NoKey, Given, Nil,
          TTL, DefaultTTL, LegacyTTL, NoSession, MaxTime, MaxResolves,
          Source, Chains, Credential, Blank, NotOk, MaxChanges

VARIABLES cache, now, made, scall, spc, cached, sres, since, sheld,
          value, chain, terminal, pos, sub, changes, prompts, found, read

sessionVars == <<cache, now, made, scall, spc, cached, sres, since, sheld>>
chainVars == <<value, chain, terminal, pos, sub, changes, prompts, found, read>>

SE == INSTANCE Session
        WITH NoCall <- NoSession, MaxCalls <- MaxResolves, file <- cache, begun <- made,
             call <- scall, pc <- spc, got <- cached, res <- sres, held <- sheld

RC == INSTANCE ResolveChain WITH res <- found

\* A cached key is returned within its exact lifetime, and not lost before its end
\* (session.go 39-48, 83-142).
ResolveExact == SE!ResolveExact

\* A chain returns the first credential there is, and nobody is prompted in vain
\* (resolve.go 41-48 and the steps).
FirstCredential == RC!FirstCredential
=============================================================================
