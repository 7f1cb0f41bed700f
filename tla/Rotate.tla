------------------------------- MODULE Rotate -------------------------------
(***************************************************************************)
(* sts/rotate.go: concurrent rotations of provider tokens, one action per  *)
(* provider, ledger and audit call.  The provider is external: a call may  *)
(* fail without effect, or take effect and lose its answer, and a token it *)
(* issues may come back malformed.  The caller's context may be cancelled  *)
(* at any time and its process killed between any two calls.  The ledger   *)
(* is the set of recorded IDs; Ledger shows that Record and RemoveByID are *)
(* atomic and change nothing when they fail.                               *)
(***************************************************************************)
EXTENDS Naturals

CONSTANTS Rotator,    \* concurrent callers of Rotate
          Token,      \* provider-native token IDs
          NoToken,    \* Issue returned nil or a token without ID
          First,      \* the token that is live and recorded at the start
          NoResult,   \* the nil *RotateResult
          Configs     \* which option sets may be in use together

ConfigType == [ledger : BOOLEAN, audit : BOOLEAN, transition : BOOLEAN]

\* The flags of RotateResult (Old and New are the variables old and new).
ResultType == [NewValidated : BOOLEAN, NewRevoked : BOOLEAN, OldRevoked : BOOLEAN,
               LedgerRecorded : BOOLEAN, OldLedgerRemoved : BOOLEAN, AuditLogged : BOOLEAN]

ASSUME RotateAssumption ==
    /\ NoToken \notin Token /\ First \in Token
    /\ \A C \in Configs : C \subseteq ConfigType /\ C # {}
    /\ NoResult \notin ResultType

PC == {"idle", "enter", "issue", "validate", "rollback", "record", "transition",
       "revoke", "unrecord", "finish", "done"}

NoProgress == [f \in {"NewValidated", "NewRevoked", "OldRevoked", "LedgerRecorded",
                      "OldLedgerRemoved", "AuditLogged"} |-> FALSE]

VARIABLES config,    \* the option sets in use: [ledger, audit, transition]
          live,      \* the provider: tokens that work
          issued,    \* the provider: IDs ever given out
          ledger,    \* IDs recorded in the token ledger
          pc, old, new, cfg, result,
          cancelled, \* the caller's context is done
          failed,    \* the error Rotate will return is not nil
          trail,     \* what the audit log says of this rotation
          faults     \* history: a call of this rotation failed by itself

provider == <<live, issued>>
vars == <<config, live, issued, ledger, pc, old, new, cfg, result, cancelled, failed,
          trail, faults>>

AnyConfig == CHOOSE c \in config : TRUE

TypeOK ==
    /\ config \in Configs
    /\ issued \subseteq Token /\ live \subseteq issued /\ ledger \subseteq issued
    /\ pc \in [Rotator -> PC]
    /\ old \in [Rotator -> issued]
    /\ new \in [Rotator -> issued \cup {NoToken}]
    /\ cfg \in [Rotator -> ConfigType]
    /\ result \in [Rotator -> ResultType \cup {NoResult}]
    /\ cancelled \in [Rotator -> BOOLEAN]
    /\ failed \in [Rotator -> BOOLEAN]
    /\ trail \in [Rotator -> {"none", "success", "failure"}]
    /\ faults \in [Rotator -> BOOLEAN]

Init ==
    /\ config \in Configs
    /\ live = {First} /\ issued = {First} /\ ledger = {First}
    /\ pc = [r \in Rotator |-> "idle"]
    /\ old = [r \in Rotator |-> First]
    /\ new = [r \in Rotator |-> NoToken]
    /\ cfg = [r \in Rotator |-> AnyConfig]
    /\ result = [r \in Rotator |-> NoResult]
    /\ cancelled = [r \in Rotator |-> FALSE]
    /\ failed = [r \in Rotator |-> FALSE]
    /\ trail = [r \in Rotator |-> "none"]
    /\ faults = [r \in Rotator |-> FALSE]

Goto(r, l) == pc' = [pc EXCEPT ![r] = l]

Sets(r, flag) == result' = [result EXCEPT ![r][flag] = TRUE]

\* Leave through finish with an error.
Fails(r) == Goto(r, "finish") /\ failed' = [failed EXCEPT ![r] = TRUE]

\* How a provider call under a context that is done or not can end: with its
\* effect and an answer, with its effect and an error, or without effect.
Outcome(done) == {"ok", "lost"} \cup (IF done THEN {"cancelled"} ELSE {"down"})

Fault(r, o) == faults' = [faults EXCEPT ![r] = @ \/ o \in {"lost", "down"}]

\* Revoke's effect at the provider.
RevokeCall(r, t, o) ==
    /\ live' = IF o \in {"ok", "lost"} THEN live \ {t} ELSE live
    /\ Fault(r, o)
    /\ UNCHANGED issued

\* Anybody may rotate any token that was ever issued, also one that is already
\* gone: a retry after a failure does.  Calls without a provider, a request or
\* an old ID, or with a negative transition, return before anything happens and
\* are left out.
Begin(r) ==
    /\ pc[r] = "idle"
    /\ Goto(r, "enter")
    /\ \E t \in issued : old' = [old EXCEPT ![r] = t]
    /\ \E c \in config : cfg' = [cfg EXCEPT ![r] = c]
    /\ UNCHANGED <<config, provider, ledger, new, result, cancelled, failed, trail, faults>>

\* A context that is done on entry: nothing happens, nothing is logged.
Enter(r) ==
    /\ pc[r] = "enter"
    /\ \/ ~cancelled[r] /\ Goto(r, "issue") /\ UNCHANGED failed
       \/ /\ cancelled[r]
          /\ Goto(r, "done")
          /\ failed' = [failed EXCEPT ![r] = TRUE]
    /\ UNCHANGED <<provider, ledger, old, new, config, cfg, result, cancelled, trail, faults>>

\* p.Issue fails.  A lost answer leaves a token behind that nobody knows.
IssueFails(r) ==
    /\ pc[r] = "issue"
    /\ \E o \in Outcome(cancelled[r]) \ {"ok"} :
          /\ Fault(r, o)
          /\ IF o = "lost"
             THEN \E t \in Token \ issued : live' = live \cup {t} /\ issued' = issued \cup {t}
             ELSE UNCHANGED provider
    /\ Fails(r)
    /\ UNCHANGED <<ledger, old, new, config, cfg, result, cancelled, trail>>

\* Mutant: the check that the replacement has another ID is missing.
Acceptable_SameID(r, t, hasValue) == t # NoToken /\ hasValue

Acceptable(r, t, hasValue) == t # NoToken /\ hasValue /\ t # old[r]

\* p.Issue answers: a fresh token, with or without its value, the old token
\* again, or nothing usable.  From here on there is a result.
Issue(r) ==
    /\ pc[r] = "issue"
    /\ \E t \in (Token \ issued) \cup {old[r], NoToken}, hasValue \in BOOLEAN :
          /\ new' = [new EXCEPT ![r] = t]
          /\ live' = live \cup ({t} \ {NoToken, old[r]})
          /\ issued' = issued \cup ({t} \ {NoToken})
          /\ IF Acceptable(r, t, hasValue) THEN Goto(r, "validate") /\ UNCHANGED failed
                                           ELSE Fails(r)
    /\ result' = [result EXCEPT ![r] = NoProgress]
    /\ UNCHANGED <<ledger, old, config, cfg, cancelled, trail, faults>>

\* What Validate may answer: only a live token is ever confirmed.
ValidateAnswers(r) == {FALSE} \cup {new[r] \in live}

Validate(r) ==
    /\ pc[r] = "validate"
    /\ \E ok \in ValidateAnswers(r) :
          /\ Goto(r, IF ok THEN "record" ELSE "rollback")
          /\ result' = [result EXCEPT ![r].NewValidated = ok]
    /\ UNCHANGED <<provider, ledger, old, new, config, cfg, cancelled, failed, trail, faults>>

\* Mutant: the clean-up runs under the caller's context.
CleanupDone_Inherited(r) == cancelled[r]

\* context.WithoutCancel: the clean-up's context is never done beforehand.
CleanupDone(r) == FALSE

\* The replacement failed validation: revoke it again.
Rollback(r) ==
    /\ pc[r] = "rollback"
    /\ \E o \in Outcome(CleanupDone(r)) :
          /\ RevokeCall(r, new[r], o)
          /\ result' = [result EXCEPT ![r].NewRevoked = o = "ok"]
    /\ Fails(r)
    /\ UNCHANGED <<ledger, old, new, config, cfg, cancelled, trail>>

\* Mutant: a failure to record the replacement is only logged.
RecordFailure_Ignored(r) == Goto(r, "transition") /\ UNCHANGED failed

RecordFailure(r) == Fails(r)

Record(r) ==
    /\ pc[r] = "record"
    /\ \/ /\ ~cfg[r].ledger
          /\ Goto(r, "transition") /\ UNCHANGED <<ledger, result, failed>>
       \/ /\ cfg[r].ledger
          /\ ledger' = ledger \cup {new[r]}
          /\ Sets(r, "LedgerRecorded")
          /\ Goto(r, "transition") /\ UNCHANGED failed
       \/ /\ cfg[r].ledger
          /\ RecordFailure(r)
          /\ UNCHANGED <<ledger, result>>
    /\ UNCHANGED <<provider, old, new, config, cfg, cancelled, trail, faults>>

\* Mutant: only the context ends the wait.
TimerFires_Never(r) == ~cfg[r].transition

\* Without a transition there is nothing to wait for; else the timer fires
\* some time.
TimerFires(r) == TRUE

\* The wait between the tokens, and the last look at the context.
Transition(r) ==
    /\ pc[r] = "transition"
    /\ \/ ~cancelled[r] /\ TimerFires(r) /\ Goto(r, "revoke") /\ UNCHANGED failed
       \/ cancelled[r] /\ Fails(r)
    /\ UNCHANGED <<provider, ledger, old, new, config, cfg, result, cancelled, trail, faults>>

\* Mutant: OldRevoked is set before the call is made.
OldRevokedFlag_Early(o) == TRUE

OldRevokedFlag(o) == o = "ok"

RevokeOld(r) ==
    /\ pc[r] = "revoke"
    /\ \E o \in Outcome(cancelled[r]) :
          /\ RevokeCall(r, old[r], o)
          /\ result' = [result EXCEPT ![r].OldRevoked = OldRevokedFlag(o)]
          /\ IF o = "ok" THEN Goto(r, "unrecord") /\ UNCHANGED failed ELSE Fails(r)
    /\ UNCHANGED <<ledger, old, new, config, cfg, cancelled, trail>>

RemoveRecord(r) ==
    /\ pc[r] = "unrecord"
    /\ \/ /\ ~cfg[r].ledger
          /\ Goto(r, "finish") /\ UNCHANGED <<ledger, result, failed>>
       \/ /\ cfg[r].ledger
          /\ ledger' = ledger \ {old[r]}
          /\ Sets(r, "OldLedgerRemoved")
          /\ Goto(r, "finish") /\ UNCHANGED failed
       \/ /\ cfg[r].ledger
          /\ Fails(r)
          /\ UNCHANGED <<ledger, result>>
    /\ UNCHANGED <<provider, old, new, config, cfg, cancelled, trail, faults>>

AuditFlag(f) == IF f = NoResult THEN f ELSE [f EXCEPT !.AuditLogged = TRUE]

\* finish: one audit entry about the outcome; a failure to write it becomes
\* part of the error.
Finish(r) ==
    /\ pc[r] = "finish"
    /\ \/ /\ ~cfg[r].audit
          /\ UNCHANGED <<trail, result, failed>>
       \/ /\ cfg[r].audit
          /\ trail' = [trail EXCEPT ![r] = IF failed[r] THEN "failure" ELSE "success"]
          /\ result' = [result EXCEPT ![r] = AuditFlag(@)]
          /\ UNCHANGED failed
       \/ /\ cfg[r].audit
          /\ failed' = [failed EXCEPT ![r] = TRUE]
          /\ UNCHANGED <<trail, result>>
    /\ Goto(r, "done")
    /\ UNCHANGED <<provider, ledger, old, new, config, cfg, cancelled, faults>>

Forget(r) ==
    /\ Goto(r, "idle")
    /\ old' = [old EXCEPT ![r] = First]
    /\ new' = [new EXCEPT ![r] = NoToken]
    /\ cfg' = [cfg EXCEPT ![r] = AnyConfig]
    /\ result' = [result EXCEPT ![r] = NoResult]
    /\ cancelled' = [cancelled EXCEPT ![r] = FALSE]
    /\ failed' = [failed EXCEPT ![r] = FALSE]
    /\ trail' = [trail EXCEPT ![r] = "none"]
    /\ faults' = [faults EXCEPT ![r] = FALSE]
    /\ UNCHANGED <<config, provider, ledger>>

Return(r) == pc[r] = "done" /\ Forget(r)

\* The caller's process is killed and all it knew is gone.
Crash(r) == pc[r] \notin {"idle", "done"} /\ Forget(r)

Cancel(r) ==
    /\ pc[r] \notin {"idle", "done"} /\ ~cancelled[r]
    /\ cancelled' = [cancelled EXCEPT ![r] = TRUE]
    /\ UNCHANGED <<provider, ledger, pc, old, new, config, cfg, result, failed, trail, faults>>

Running(r) == \/ Enter(r) \/ IssueFails(r) \/ Issue(r) \/ Validate(r) \/ Rollback(r)
              \/ Record(r) \/ Transition(r) \/ RevokeOld(r) \/ RemoveRecord(r) \/ Finish(r)

Next == \E r \in Rotator : Begin(r) \/ Running(r) \/ Return(r) \/ Crash(r) \/ Cancel(r)

Spec == Init /\ [][Next]_vars

\* The code between two calls runs, calls are answered and the timer fires.
Fairness == \A r \in Rotator : WF_vars(Running(r))

-----------------------------------------------------------------------------
(* Properties *)

Ended(r) == pc[r] = "done"

\* Nobody is ever locked out: whatever rotates what at the same time, fails,
\* loses answers, is cancelled or killed, some token still works
\* (rotate.go:73-115: the old token is revoked after the new one is validated).
NoLockout == live # {}

\* If every rotation keeps the ledger, some working token can always be found
\* in it: recorded before the old one is revoked, removed only after
\* (rotate.go:93-99, 116-121).
LiveTokenKnown == (\A c \in config : c.ledger) => live \cap ledger # {}

Truthful(r) ==
    result[r] # NoResult =>
        LET f == result[r] IN
        /\ f.OldRevoked => old[r] \notin live /\ f.NewValidated
        /\ f.NewRevoked => new[r] \notin live /\ ~f.NewValidated
        /\ f.OldRevoked /\ cfg[r].ledger => f.LedgerRecorded
        /\ f.AuditLogged => trail[r] # "none"
        /\ Ended(r) /\ ~failed[r] => /\ f.OldRevoked
                                     /\ cfg[r].ledger => f.OldLedgerRemoved
                                     /\ cfg[r].audit => trail[r] = "success"

\* The flags of the result hold what really happened: a token reported as
\* revoked does not work any more, the old one is revoked only in favour of a
\* validated one that was recorded where asked, and a nil error means that all
\* of it was done (RotateResult, types.go:25-35).
ResultTruthful == \A r \in Rotator : Truthful(r)

\* A replacement that failed validation does not stay behind unless the
\* provider itself fails: a cancelled caller cleans up all the same
\* (rotate.go:81-85).
RejectedIsRevoked ==
    \A r \in Rotator :
        pc[r] = "rollback" /\ pc'[r] = "finish" /\ ~faults'[r] => new[r] \notin live'

CleansUp == [][RejectedIsRevoked]_vars
=============================================================================
