---------------------------- MODULE RotateProofs ----------------------------
(***************************************************************************)
(* Proofs about Rotate for any number of rotations, tokens and option      *)
(* sets.  Why nobody is locked out although rotations may rotate each      *)
(* other's replacements: a replacement is always younger than the token it *)
(* replaces, and among the tokens that work there is one that is at least  *)
(* as young as every validated replacement.  The age of a token is not     *)
(* part of the state; the invariant says that the tokens can be dated so   *)
(* (Dating), which every step preserves because an issued token is new.    *)
(***************************************************************************)
EXTENDS Rotate, TLAPS

\* Where a rotation has a replacement that it has not given up.
Replacing == {"validate", "rollback", "record", "transition", "revoke", "unrecord"}

\* Where the replacement is not trusted yet and may be taken back.
Unproven == {"validate", "rollback"}

\* Where it has been validated, and where it has been recorded, too.
Validated == {"record", "transition", "revoke", "unrecord"}
Recorded == {"transition", "revoke", "unrecord"}

\* The provider never forgets a token, and every rotation uses one of the option
\* sets.
Configured == First \in issued /\ config \subseteq ConfigType /\ cfg \in [Rotator -> config]

\* No two rotations have the same replacement.
Distinct ==
    \A r, s \in Rotator :
        r # s /\ pc[r] \in Replacing /\ pc[s] \in Replacing => new[r] # new[s]

\* What the replacement, the result and the error are at each point of a rotation.
Steady(r) ==
    /\ pc[r] \in Replacing => new[r] \in issued
    /\ pc[r] \in {"idle", "enter", "issue"} => result[r] = NoResult
    /\ pc[r] \in Replacing => result[r] # NoResult
    /\ pc[r] \notin {"finish", "done"} => ~failed[r]
    /\ pc[r] # "done" /\ result[r] # NoResult => ~result[r].AuditLogged
    /\ pc[r] \in Unproven => ~result[r].NewValidated /\ ~result[r].NewRevoked
    /\ pc[r] \in Validated => result[r].NewValidated /\ ~result[r].NewRevoked
    /\ pc[r] \in Replacing \ {"unrecord"} => ~result[r].OldRevoked
    /\ pc[r] \in Recorded /\ cfg[r].ledger => result[r].LedgerRecorded
    /\ pc[r] = "unrecord" => result[r].OldRevoked
    /\ pc[r] \in {"finish", "done"} /\ ~failed[r] =>
         /\ result[r] # NoResult /\ result[r].OldRevoked
         /\ cfg[r].ledger => result[r].OldLedgerRemoved

Progress == \A r \in Rotator : Steady(r)

Truth == TypeOK /\ Configured /\ Progress /\ ResultTruthful

-----------------------------------------------------------------------------

Dating == [Token -> Nat]

\* A replacement is younger than what it replaces.
Younger(age) == \A r \in Rotator : pc[r] \in Replacing => age[old[r]] < age[new[r]]

\* Token t works, nobody takes it back, and it is at least as young as the
\* replacements of the rotations in S, which are the ones that revoke.
Stands(age, t, S) ==
    /\ t \in live
    /\ \A r \in Rotator : /\ pc[r] \in Unproven => new[r] # t
                          /\ pc[r] \in S => age[new[r]] <= age[t]

NewestWorks(age) == \E t \in Token : Stands(age, t, Validated)

\* The same for a recorded token, and a replacement that is about to be recorded
\* works still, unless a younger one has been recorded in the meantime.
NewestKnown(age) ==
    \E t \in ledger :
        /\ Stands(age, t, Recorded)
        /\ \A r \in Rotator : pc[r] = "record" => new[r] \in live \/ age[new[r]] <= age[t]

AllRecord == \A c \in config : c.ledger

Order(age) == Younger(age) /\ NewestWorks(age) /\ (AllRecord => NewestKnown(age))

IInv == Truth /\ Distinct /\ \E age \in Dating : Order(age)

-----------------------------------------------------------------------------

LEMMA AnyConfigIn == config \in Configs => AnyConfig \in config
BY RotateAssumption DEF AnyConfig

Flag == {"NewValidated", "NewRevoked", "OldRevoked", "LedgerRecorded",
         "OldLedgerRemoved", "AuditLogged"}

LEMMA NoProgressType == /\ NoProgress \in ResultType
                        /\ \A n \in Flag : ~NoProgress[n]
BY DEF NoProgress, ResultType, Flag

\* Result f is g but for flag n.
ButFor(f, g, n) == f \in ResultType /\ \A m \in Flag \ {n} : f[m] = g[m]

\* What a validation that answered leaves.
LEMMA ValidateStep ==
    ASSUME NEW r \in Rotator, Validate(r)
    PROVE  \E ok \in BOOLEAN :
              /\ pc[r] = "validate"
              /\ pc' = [pc EXCEPT ![r] = IF ok THEN "record" ELSE "rollback"]
              /\ result' = [result EXCEPT ![r].NewValidated = ok]
              /\ ok => new[r] \in live
              /\ UNCHANGED <<provider, ledger, old, new, config, cfg, cancelled, failed, trail, faults>>
<1>1. ValidateAnswers(r) \subseteq BOOLEAN
  BY DEF ValidateAnswers
<1>2. \A ok \in ValidateAnswers(r) : ok => new[r] \in live
  BY DEF ValidateAnswers
<1> QED
  BY <1>1, <1>2, Zenon DEF Validate, Goto

\* The invariant holds initially: every token is dated alike.
LEMMA InitInv == Init => IInv
<1> SUFFICES ASSUME Init PROVE IInv
  OBVIOUS
<1> USE RotateAssumption, AnyConfigIn DEF Init
<1>1. TypeOK /\ Configured
  BY DEF TypeOK, Configured, PC
<1>2. Progress /\ ResultTruthful
  BY DEF Progress, Steady, ResultTruthful, Truthful, Replacing, Unproven, Validated,
            Recorded
<1>3. Distinct
  BY DEF Distinct, Replacing
<1>4. \E age \in Dating : Order(age)
  <2> DEFINE age == [t \in Token |-> 0]
  <2>1. age \in Dating
    BY DEF Dating
  <2>2. Stands(age, First, Validated) /\ Stands(age, First, Recorded)
    BY DEF Stands, Unproven, Validated, Recorded
  <2>3. Order(age)
    BY <2>2 DEF Order, Younger, NewestWorks, NewestKnown, Replacing
  <2> QED
    BY <2>1, <2>3
<1> QED
  BY <1>1, <1>2, <1>3, <1>4 DEF IInv, Truth

-----------------------------------------------------------------------------
(* Types, the option sets, and what a result says.                         *)

\* Rotation s does nothing.
Same(s) ==
    /\ pc'[s] = pc[s] /\ old'[s] = old[s] /\ new'[s] = new[s] /\ cfg'[s] = cfg[s]
    /\ result'[s] = result[s] /\ failed'[s] = failed[s] /\ trail'[s] = trail[s]

\* A step of r that makes no revoked token work again leaves the results of the
\* others true.
LEMMA OthersStay ==
    ASSUME Truth, NEW r \in Rotator, TypeOK', Configured',
           \A s \in Rotator \ {r} : Same(s),
           live' \cap issued \subseteq live, issued \subseteq issued',
           Steady(r)', Truthful(r)'
    PROVE  Truth'
<1>1. Progress'
  <2> SUFFICES ASSUME NEW s \in Rotator, s # r PROVE Steady(s)'
    BY DEF Progress
  <2> QED
    BY DEF Truth, TypeOK, Progress, Steady, Same
<1>2. ResultTruthful'
  <2> SUFFICES ASSUME NEW s \in Rotator, s # r PROVE Truthful(s)'
    BY DEF ResultTruthful
  <2>1. old[s] \in live' => old[s] \in live
    BY DEF Truth, TypeOK
  <2>2. new[s] \in live' => new[s] \in live
    BY RotateAssumption DEF Truth, TypeOK
  <2> QED
    BY <2>1, <2>2 DEF Truth, ResultTruthful, Truthful, Same, Ended
<1> QED
  BY <1>1, <1>2 DEF Truth

LEMMA TruthStep == ASSUME Truth, [Next]_vars PROVE Truth'
<1> USE DEF provider, Replacing, Unproven, Validated, Recorded
<1> TypeOK /\ Configured
  BY DEF Truth
<1> \A r \in Rotator : Steady(r) /\ Truthful(r)
  BY DEF Truth, Progress, ResultTruthful
<1>1. ASSUME NEW r \in Rotator, Begin(r) PROVE Truth'
  <2> USE <1>1 DEF Begin, Goto
  <2>1. TypeOK' /\ Configured'
    BY RotateAssumption DEF TypeOK, Configured, PC
  <2>2. \A s \in Rotator \ {r} : Same(s)
    BY DEF TypeOK, Same
  <2>3. live' \cap issued \subseteq live /\ issued \subseteq issued'
    BY DEF TypeOK
  <2>4. Steady(r)' /\ Truthful(r)'
    BY DEF TypeOK, Steady, Truthful, Ended
  <2> QED
    BY <2>1, <2>2, <2>3, <2>4, OthersStay
<1>2. ASSUME NEW r \in Rotator, Enter(r) PROVE Truth'
  <2> USE <1>2 DEF Enter, Goto
  <2>1. TypeOK' /\ Configured'
    BY DEF TypeOK, Configured, PC
  <2>2. \A s \in Rotator \ {r} : Same(s)
    BY DEF TypeOK, Same
  <2>3. live' \cap issued \subseteq live /\ issued \subseteq issued'
    BY DEF TypeOK
  <2>4. Steady(r)' /\ Truthful(r)'
    BY DEF TypeOK, Steady, Truthful, Ended
  <2> QED
    BY <2>1, <2>2, <2>3, <2>4, OthersStay
<1>3. ASSUME NEW r \in Rotator, IssueFails(r) PROVE Truth'
  <2> USE <1>3 DEF IssueFails, Fails, Goto, Fault, Outcome
  <2>1. TypeOK' /\ Configured'
    BY DEF TypeOK, Configured, PC
  <2>2. \A s \in Rotator \ {r} : Same(s)
    BY DEF TypeOK, Same
  <2>3. live' \cap issued \subseteq live /\ issued \subseteq issued'
    BY DEF TypeOK
  <2>4. Steady(r)' /\ Truthful(r)'
    BY DEF TypeOK, Steady, Truthful, Ended
  <2> QED
    BY <2>1, <2>2, <2>3, <2>4, OthersStay
<1>4. ASSUME NEW r \in Rotator, Issue(r) PROVE Truth'
  <2> USE <1>4 DEF Issue, Acceptable, Fails, Goto
  <2>1. TypeOK' /\ Configured'
    <3> USE RotateAssumption, NoProgressType DEF TypeOK
    <3>1. issued' \subseteq Token /\ live' \subseteq issued' /\ ledger' \subseteq issued'
      OBVIOUS
    <3>2. old' \in [Rotator -> issued'] /\ new' \in [Rotator -> issued' \cup {NoToken}]
      OBVIOUS
    <3>3. pc' \in [Rotator -> PC] /\ failed' \in [Rotator -> BOOLEAN]
      BY DEF PC
    <3>4. result' \in [Rotator -> ResultType \cup {NoResult}]
      OBVIOUS
    <3> QED
      BY <3>1, <3>2, <3>3, <3>4 DEF Configured
  <2>2. \A s \in Rotator \ {r} : Same(s)
    BY DEF TypeOK, Same
  <2>3. live' \cap issued \subseteq live /\ issued \subseteq issued'
    BY DEF TypeOK
  <2>4. result'[r] = NoProgress /\ NoProgress # NoResult
    BY NoProgressType, RotateAssumption DEF TypeOK
  <2>5. \/ pc'[r] = "validate" /\ failed' = failed
        \/ pc'[r] = "finish" /\ failed'[r]
    BY DEF TypeOK
  <2>6. Steady(r)' /\ Truthful(r)'
    BY <2>4, <2>5, NoProgressType DEF TypeOK, Steady, Truthful, Ended, Flag
  <2> QED
    BY <2>1, <2>2, <2>3, <2>6, OthersStay
<1>5. ASSUME NEW r \in Rotator, Validate(r) PROVE Truth'
  <2>1. PICK ok \in BOOLEAN :
          /\ pc[r] = "validate"
          /\ pc' = [pc EXCEPT ![r] = IF ok THEN "record" ELSE "rollback"]
          /\ result' = [result EXCEPT ![r].NewValidated = ok]
          /\ UNCHANGED <<live, issued, ledger, old, new, config, cfg, cancelled, failed, trail, faults>>
    BY <1>5, ValidateStep
  <2> DEFINE f == [result[r] EXCEPT !.NewValidated = ok]
  <2>2. result[r] \in ResultType
    BY <2>1 DEF TypeOK, Steady
  <2>3. f.NewValidated = ok /\ ButFor(f, result[r], "NewValidated")
    BY <2>2 DEF ResultType, ButFor, Flag
  <2>4. result' = [result EXCEPT ![r] = f]
    BY <2>1
  <2> HIDE DEF f
  <2>5. TypeOK' /\ Configured'
    BY <2>1, <2>3, <2>4 DEF TypeOK, Configured, PC, ButFor
  <2>6. \A s \in Rotator \ {r} : Same(s)
    BY <2>1, <2>4 DEF TypeOK, Same
  <2>7. Steady(r)' /\ Truthful(r)'
    BY <2>1, <2>2, <2>3, <2>4, RotateAssumption DEF TypeOK, Steady, Truthful, Ended, ButFor, Flag
  <2> QED
    BY <2>1, <2>5, <2>6, <2>7, OthersStay
<1>6. ASSUME NEW r \in Rotator, Rollback(r) PROVE Truth'
  <2> USE <1>6 DEF Rollback, RevokeCall, Fault, Outcome, CleanupDone, Fails, Goto
  <2>1. PICK b \in BOOLEAN : result' = [result EXCEPT ![r].NewRevoked = b]
    OBVIOUS
  <2>2. result[r] \in ResultType
    BY DEF TypeOK, Steady
  <2>3. [result[r] EXCEPT !.NewRevoked = b] \in ResultType
    BY <2>2 DEF ResultType
  <2>4. result' \in [Rotator -> ResultType \cup {NoResult}]
    BY <2>1, <2>3 DEF TypeOK
  <2>5. faults' \in [Rotator -> BOOLEAN] /\ live' \subseteq live /\ issued' = issued
    BY DEF TypeOK
  <2>6. TypeOK' /\ Configured'
    BY <2>4, <2>5 DEF TypeOK, Configured, PC
  <2>7. \A s \in Rotator \ {r} : Same(s)
    BY DEF TypeOK, Same
  <2>8. Steady(r)' /\ Truthful(r)'
    BY DEF TypeOK, Steady, Truthful, Ended
  <2> QED
    BY <2>5, <2>6, <2>7, <2>8, OthersStay
<1>7. ASSUME NEW r \in Rotator, Record(r) PROVE Truth'
  <2> USE <1>7 DEF Record, RecordFailure, Sets, Fails, Goto
  <2> DEFINE f == [result[r] EXCEPT !.LedgerRecorded = TRUE]
  <2>1. result[r] \in ResultType
    BY DEF TypeOK, Steady
  <2>2. f.LedgerRecorded /\ ButFor(f, result[r], "LedgerRecorded")
    BY <2>1 DEF ResultType, ButFor, Flag
  <2>3. \/ /\ ~cfg[r].ledger /\ pc' = [pc EXCEPT ![r] = "transition"]
           /\ UNCHANGED <<ledger, result, failed>>
        \/ /\ cfg[r].ledger /\ pc' = [pc EXCEPT ![r] = "transition"]
           /\ ledger' = ledger \cup {new[r]} /\ result' = [result EXCEPT ![r] = f]
           /\ UNCHANGED failed
        \/ /\ pc' = [pc EXCEPT ![r] = "finish"] /\ failed' = [failed EXCEPT ![r] = TRUE]
           /\ UNCHANGED <<ledger, result>>
    OBVIOUS
  <2>4. /\ pc[r] = "record"
        /\ UNCHANGED <<live, issued, old, new, config, cfg, cancelled, trail, faults>>
    OBVIOUS
  <2> HIDE <1>7 DEF f, Record
  <2>5. result' \in [Rotator -> ResultType \cup {NoResult}]
    BY <2>2, <2>3 DEF TypeOK, ButFor
  <2>6. TypeOK' /\ Configured'
    BY <2>3, <2>4, <2>5 DEF TypeOK, Configured, PC, Steady
  <2>7. \A s \in Rotator \ {r} : Same(s)
    BY <2>3, <2>4 DEF TypeOK, Same
  <2>8. Steady(r)' /\ Truthful(r)'
    BY <2>1, <2>2, <2>3, <2>4, RotateAssumption DEF TypeOK, Steady, Truthful, Ended, ButFor, Flag
  <2> QED
    BY <2>4, <2>6, <2>7, <2>8, OthersStay
<1>8. ASSUME NEW r \in Rotator, Transition(r) PROVE Truth'
  <2> USE <1>8 DEF Transition, TimerFires, Fails, Goto
  <2>1. TypeOK' /\ Configured'
    BY DEF TypeOK, Configured, PC
  <2>2. \A s \in Rotator \ {r} : Same(s)
    BY DEF TypeOK, Same
  <2>3. live' \cap issued \subseteq live /\ issued \subseteq issued'
    BY DEF TypeOK
  <2>4. Steady(r)' /\ Truthful(r)'
    BY DEF TypeOK, Steady, Truthful, Ended
  <2> QED
    BY <2>1, <2>2, <2>3, <2>4, OthersStay
<1>9. ASSUME NEW r \in Rotator, RevokeOld(r) PROVE Truth'
  <2> USE <1>9 DEF RevokeOld, OldRevokedFlag, RevokeCall, Fault, Outcome, Fails, Goto
  <2>1. PICK b \in BOOLEAN :
          /\ result' = [result EXCEPT ![r].OldRevoked = b]
          /\ b => /\ live' = live \ {old[r]} /\ pc' = [pc EXCEPT ![r] = "unrecord"]
                  /\ UNCHANGED failed
          /\ ~b => /\ pc' = [pc EXCEPT ![r] = "finish"]
                   /\ failed' = [failed EXCEPT ![r] = TRUE]
    OBVIOUS
  <2>2. /\ pc[r] = "revoke" /\ live' \subseteq live /\ faults' \in [Rotator -> BOOLEAN]
        /\ UNCHANGED <<issued, ledger, old, new, config, cfg, cancelled, trail>>
    BY DEF TypeOK
  <2> HIDE <1>9 DEF RevokeOld
  <2> DEFINE f == [result[r] EXCEPT !.OldRevoked = b]
  <2>3. result[r] \in ResultType
    BY <2>2 DEF TypeOK, Steady
  <2>4. f.OldRevoked = b /\ ButFor(f, result[r], "OldRevoked")
    BY <2>3 DEF ResultType, ButFor, Flag
  <2>5. result' = [result EXCEPT ![r] = f]
    BY <2>1
  <2> HIDE DEF f
  <2>6. TypeOK' /\ Configured'
    <3>1. pc' \in [Rotator -> PC] /\ failed' \in [Rotator -> BOOLEAN]
      BY <2>1 DEF TypeOK, PC
    <3>2. result' \in [Rotator -> ResultType \cup {NoResult}]
      BY <2>4, <2>5 DEF TypeOK, ButFor
    <3> QED
      BY <2>2, <3>1, <3>2 DEF TypeOK, Configured
  <2>7. \A s \in Rotator \ {r} : Same(s)
    BY <2>1, <2>2, <2>5 DEF TypeOK, Same
  <2>8. Steady(r)' /\ Truthful(r)'
    BY <2>1, <2>2, <2>3, <2>4, <2>5, RotateAssumption
       DEF TypeOK, Steady, Truthful, Ended, ButFor, Flag
  <2> QED
    BY <2>2, <2>6, <2>7, <2>8, OthersStay
<1>10. ASSUME NEW r \in Rotator, RemoveRecord(r) PROVE Truth'
  <2> USE <1>10 DEF RemoveRecord, Sets, Fails, Goto
  <2> DEFINE f == [result[r] EXCEPT !.OldLedgerRemoved = TRUE]
  <2>1. result[r] \in ResultType
    BY DEF TypeOK, Steady
  <2>2. f.OldLedgerRemoved /\ ButFor(f, result[r], "OldLedgerRemoved")
    BY <2>1 DEF ResultType, ButFor, Flag
  <2>3. \/ /\ ~cfg[r].ledger /\ pc' = [pc EXCEPT ![r] = "finish"]
           /\ UNCHANGED <<ledger, result, failed>>
        \/ /\ cfg[r].ledger /\ pc' = [pc EXCEPT ![r] = "finish"]
           /\ ledger' = ledger \ {old[r]} /\ result' = [result EXCEPT ![r] = f]
           /\ UNCHANGED failed
        \/ /\ pc' = [pc EXCEPT ![r] = "finish"] /\ failed' = [failed EXCEPT ![r] = TRUE]
           /\ UNCHANGED <<ledger, result>>
    OBVIOUS
  <2>4. /\ pc[r] = "unrecord"
        /\ UNCHANGED <<live, issued, old, new, config, cfg, cancelled, trail, faults>>
    OBVIOUS
  <2> HIDE <1>10 DEF f, RemoveRecord
  <2>5. result' \in [Rotator -> ResultType \cup {NoResult}]
    BY <2>2, <2>3 DEF TypeOK, ButFor
  <2>6. TypeOK' /\ Configured'
    BY <2>3, <2>4, <2>5 DEF TypeOK, Configured, PC, Steady
  <2>7. \A s \in Rotator \ {r} : Same(s)
    BY <2>3, <2>4 DEF TypeOK, Same
  <2>8. Steady(r)' /\ Truthful(r)'
    BY <2>1, <2>2, <2>3, <2>4, RotateAssumption DEF TypeOK, Steady, Truthful, Ended, ButFor, Flag
  <2> QED
    BY <2>4, <2>6, <2>7, <2>8, OthersStay
<1>11. ASSUME NEW r \in Rotator, Finish(r) PROVE Truth'
  <2> USE <1>11 DEF Finish, Goto
  <2> DEFINE f == AuditFlag(result[r])
  <2>1. \/ f = NoResult /\ result[r] = NoResult
        \/ /\ result[r] \in ResultType
           /\ f.AuditLogged /\ ButFor(f, result[r], "AuditLogged")
    <3>1. CASE result[r] = NoResult
      BY <3>1 DEF AuditFlag
    <3>2. CASE result[r] # NoResult
      <4>1. result[r] \in ResultType
        BY <3>2 DEF TypeOK
      <4>2. f = [result[r] EXCEPT !.AuditLogged = TRUE]
        BY <3>2 DEF AuditFlag
      <4> QED
        BY <4>1, <4>2 DEF ResultType, ButFor, Flag
    <3> QED
      BY <3>1, <3>2
  <2>2. \/ ~cfg[r].audit /\ UNCHANGED <<trail, result, failed>>
        \/ /\ trail' = [trail EXCEPT ![r] = IF failed[r] THEN "failure" ELSE "success"]
           /\ result' = [result EXCEPT ![r] = f] /\ UNCHANGED failed
        \/ failed' = [failed EXCEPT ![r] = TRUE] /\ UNCHANGED <<trail, result>>
    OBVIOUS
  <2>3. /\ pc[r] = "finish" /\ pc' = [pc EXCEPT ![r] = "done"]
        /\ UNCHANGED <<live, issued, ledger, old, new, config, cfg, cancelled, faults>>
    OBVIOUS
  <2> HIDE <1>11 DEF f, Finish
  <2>4. TypeOK' /\ Configured'
    BY <2>1, <2>2, <2>3 DEF TypeOK, Configured, PC, ButFor
  <2>5. \A s \in Rotator \ {r} : Same(s)
    BY <2>2, <2>3 DEF TypeOK, Same
  <2>6. Steady(r)' /\ Truthful(r)'
    BY <2>1, <2>2, <2>3, RotateAssumption DEF TypeOK, Steady, Truthful, Ended, ButFor, Flag
  <2> QED
    BY <2>3, <2>4, <2>5, <2>6, OthersStay
<1>12. ASSUME NEW r \in Rotator, Forget(r) PROVE Truth'
  <2> USE <1>12 DEF Forget, Goto
  <2>1. TypeOK' /\ Configured'
    BY RotateAssumption, AnyConfigIn DEF TypeOK, Configured, PC
  <2>2. \A s \in Rotator \ {r} : Same(s)
    BY DEF TypeOK, Same
  <2>3. live' \cap issued \subseteq live /\ issued \subseteq issued'
    BY DEF TypeOK
  <2>4. Steady(r)' /\ Truthful(r)'
    BY DEF TypeOK, Steady, Truthful, Ended
  <2> QED
    BY <2>1, <2>2, <2>3, <2>4, OthersStay
<1>13. ASSUME NEW r \in Rotator, Cancel(r) PROVE Truth'
  <2> USE <1>13 DEF Cancel
  <2>1. TypeOK' /\ Configured'
    BY DEF TypeOK, Configured, PC
  <2>2. \A s \in Rotator \ {r} : Same(s)
    BY DEF TypeOK, Same
  <2>3. live' \cap issued \subseteq live /\ issued \subseteq issued'
    BY DEF TypeOK
  <2>4. Steady(r)' /\ Truthful(r)'
    BY DEF TypeOK, Steady, Truthful, Ended
  <2> QED
    BY <2>1, <2>2, <2>3, <2>4, OthersStay
<1>14. CASE UNCHANGED vars
  BY <1>14 DEF vars, Truth, TypeOK, Configured, Progress, Steady, ResultTruthful, Truthful, Ended
<1> QED
  BY <1>1, <1>2, <1>3, <1>4, <1>5, <1>6, <1>7, <1>8, <1>9, <1>10, <1>11, <1>12, <1>13, <1>14 DEF Next, Running, Return, Crash

-----------------------------------------------------------------------------
(* Replacements and the dating of tokens.                                  *)

\* No rotation gets a replacement or goes on to replace another token; the option
\* sets in use stay what they are.
Kept ==
    /\ \A s \in Rotator : pc'[s] \in Replacing =>
          pc[s] \in Replacing /\ new'[s] = new[s] /\ old'[s] = old[s]
    /\ config' = config

\* No rotation enters the control points S.
NoEntry(S) == \A s \in Rotator : pc'[s] \in S => pc[s] \in S

\* Only Issue hands out a replacement, and it is a token that was never seen.
LEMMA KeptStep ==
    ASSUME Truth, [Next]_vars
    PROVE  \/ Kept
           \/ \E r \in Rotator :
                 /\ Issue(r) /\ pc' = [pc EXCEPT ![r] = "validate"]
                 /\ new'[r] \in Token \ issued
<1> USE DEF provider, Kept, Replacing, Goto, Fails
<1> TypeOK
  BY DEF Truth
<1>1. ASSUME NEW r \in Rotator, Begin(r) \/ Enter(r) \/ IssueFails(r) PROVE Kept
  BY <1>1 DEF TypeOK, Begin, Enter, IssueFails
<1>2. ASSUME NEW r \in Rotator, Issue(r)
      PROVE  Kept \/ (pc' = [pc EXCEPT ![r] = "validate"] /\ new'[r] \in Token \ issued)
  BY <1>2 DEF TypeOK, Issue, Acceptable
<1>3. ASSUME NEW r \in Rotator, Validate(r) PROVE Kept
  BY <1>3, ValidateStep DEF TypeOK
<1>4. ASSUME NEW r \in Rotator, Rollback(r) PROVE Kept
  BY <1>4 DEF TypeOK, Rollback
<1>5. ASSUME NEW r \in Rotator, Record(r) PROVE Kept
  BY <1>5 DEF TypeOK, Record, RecordFailure
<1>6. ASSUME NEW r \in Rotator, Transition(r) PROVE Kept
  BY <1>6 DEF TypeOK, Transition
<1>7. ASSUME NEW r \in Rotator, RevokeOld(r) PROVE Kept
  BY <1>7 DEF TypeOK, RevokeOld
<1>8. ASSUME NEW r \in Rotator, RemoveRecord(r) PROVE Kept
  BY <1>8 DEF TypeOK, RemoveRecord
<1>9. ASSUME NEW r \in Rotator, Finish(r) \/ Forget(r) \/ Cancel(r) PROVE Kept
  BY <1>9 DEF TypeOK, Finish, Forget, Cancel
<1>10. CASE UNCHANGED vars
  BY <1>10 DEF vars
<1> QED
  BY <1>1, <1>2, <1>3, <1>4, <1>5, <1>6, <1>7, <1>8, <1>9, <1>10
     DEF Next, Running, Return, Crash

\* Replacements stay distinct.
LEMMA DistinctStep == ASSUME Truth, Distinct, [Next]_vars PROVE Distinct'
<1>1. CASE Kept
  BY <1>1 DEF Kept, Distinct
<1>2. ASSUME NEW r \in Rotator, Issue(r), pc' = [pc EXCEPT ![r] = "validate"],
             new'[r] \in Token \ issued
      PROVE  Distinct'
  <2>1. \A s \in Rotator \ {r} : new'[s] = new[s] /\ pc'[s] = pc[s]
    BY <1>2 DEF Issue, Truth, TypeOK
  <2>2. \A s \in Rotator : pc[s] \in Replacing => new[s] \in issued
    BY DEF Truth, Progress, Steady
  <2> QED
    BY <1>2, <2>1, <2>2 DEF Distinct
<1> QED
  BY <1>1, <1>2, KeptStep

\* A step that hands out no replacement leaves the dates in order if tokens go on
\* to work and nobody's replacement changes its standing.
LEMMA WorksStay ==
    ASSUME NEW age \in Dating, NewestWorks(age), Kept, live \subseteq live',
           NoEntry(Unproven), NoEntry(Validated)
    PROVE  NewestWorks(age)'
<1>1. PICK t \in Token : Stands(age, t, Validated)
  BY DEF NewestWorks
<1>2. Stands(age, t, Validated)'
  BY <1>1 DEF Stands, Kept, NoEntry, Replacing, Unproven, Validated
<1> QED
  BY <1>2 DEF NewestWorks

LEMMA KnownStay ==
    ASSUME NEW age \in Dating, NewestKnown(age), Kept, live \subseteq live',
           ledger \subseteq ledger', NoEntry(Unproven), NoEntry(Recorded), NoEntry({"record"})
    PROVE  NewestKnown(age)'
<1>1. PICK t \in ledger :
         /\ Stands(age, t, Recorded)
         /\ \A r \in Rotator : pc[r] = "record" => new[r] \in live \/ age[new[r]] <= age[t]
  BY DEF NewestKnown
<1>2. Stands(age, t, Recorded)'
  BY <1>1 DEF Stands, Kept, NoEntry, Replacing, Unproven, Recorded
<1> QED
  BY <1>1, <1>2 DEF NewestKnown, Kept, NoEntry, Replacing

LEMMA Dated ==
    ASSUME Truth, NEW age \in Dating
    PROVE  /\ \A t \in Token : age[t] \in Nat
           /\ \A s \in Rotator : /\ age[old[s]] \in Nat
                                 /\ pc[s] \in Replacing => new[s] \in Token /\ age[new[s]] \in Nat
BY DEF Truth, TypeOK, Progress, Steady, Dating

\* A validation that succeeds makes its replacement count: it or the token that
\* stood so far is the younger one.
LEMMA ValidateOrder ==
    ASSUME Truth, Distinct, Kept, NEW age \in Dating, Order(age),
           NEW r \in Rotator, Validate(r)
    PROVE  Order(age)'
<1> USE Dated DEF Replacing, Unproven, Validated, Recorded
<1>1. /\ pc[r] = "validate"
      /\ \A s \in Rotator \ {r} : pc'[s] = pc[s]
      /\ pc'[r] = "rollback" \/ (pc'[r] = "record" /\ new[r] \in live)
      /\ UNCHANGED <<live, ledger, old, new>>
  <2>1. PICK ok \in BOOLEAN :
           /\ pc[r] = "validate" /\ (ok => new[r] \in live)
           /\ pc' = [pc EXCEPT ![r] = IF ok THEN "record" ELSE "rollback"]
           /\ UNCHANGED <<live, ledger, old, new>>
    BY ValidateStep DEF provider
  <2>2. pc'[r] = (IF ok THEN "record" ELSE "rollback") /\ \A s \in Rotator \ {r} : pc'[s] = pc[s]
    BY <2>1 DEF Truth, TypeOK
  <2> QED
    BY <2>1, <2>2
<1>2. Younger(age)'
  BY <1>1 DEF Order, Younger
<1>3. NewestWorks(age)'
  <2>1. PICK t \in Token : Stands(age, t, Validated)
    BY DEF Order, NewestWorks
  <2>2. CASE pc'[r] = "rollback" \/ age[new[r]] <= age[t]
    <3>1. Stands(age, t, Validated)'
      BY <1>1, <2>1, <2>2 DEF Stands
    <3> QED
      BY <3>1 DEF NewestWorks
  <2>3. CASE pc'[r] = "record" /\ ~(age[new[r]] <= age[t])
    <3>1. \A s \in Rotator : pc'[s] \in Unproven => new[s] # new[r]
      BY <1>1, <2>3 DEF Distinct
    <3>2. \A s \in Rotator : pc'[s] \in Validated => age[new[s]] <= age[new[r]]
      <4> SUFFICES ASSUME NEW s \in Rotator, s # r, pc'[s] \in Validated
                   PROVE  age[new[s]] <= age[new[r]]
        BY <1>1
      <4>1. age[new[s]] <= age[t]
        BY <1>1, <2>1 DEF Stands
      <4> QED
        BY <1>1, <2>3, <4>1
    <3>3. Stands(age, new[r], Validated)'
      BY <1>1, <2>3, <3>1, <3>2 DEF Stands
    <3> QED
      BY <3>3, <1>1 DEF NewestWorks
  <2> QED
    BY <1>1, <2>2, <2>3
<1>4. NewestKnown(age) => NewestKnown(age)'
  <2> SUFFICES ASSUME NewestKnown(age) PROVE NewestKnown(age)'
    OBVIOUS
  <2>1. PICK t \in ledger :
          /\ Stands(age, t, Recorded)
          /\ \A s \in Rotator : pc[s] = "record" => new[s] \in live \/ age[new[s]] <= age[t]
    BY DEF NewestKnown
  <2>2. Stands(age, t, Recorded)'
    BY <1>1, <2>1 DEF Stands
  <2> QED
    BY <1>1, <2>1, <2>2 DEF NewestKnown
<1> QED
  BY <1>2, <1>3, <1>4 DEF Order, Kept, AllRecord

\* Taking back a replacement that failed validation hurts nobody: no other
\* rotation has it.
LEMMA RollbackOrder ==
    ASSUME Truth, Distinct, Kept, NEW age \in Dating, Order(age),
           NEW r \in Rotator, Rollback(r)
    PROVE  Order(age)'
<1> USE DEF Replacing, Unproven, Validated, Recorded
<1>1. /\ pc[r] = "rollback" /\ pc'[r] = "finish"
      /\ \A s \in Rotator \ {r} : pc'[s] = pc[s]
      /\ live \ {new[r]} \subseteq live'
      /\ UNCHANGED <<ledger, old, new>>
  BY DEF Rollback, RevokeCall, Fails, Goto, Truth, TypeOK
<1>2. Younger(age)'
  BY <1>1 DEF Order, Younger
<1>3. NewestWorks(age)'
  <2>1. PICK t \in Token : Stands(age, t, Validated)
    BY DEF Order, NewestWorks
  <2>2. Stands(age, t, Validated)'
    BY <1>1, <2>1 DEF Stands
  <2> QED
    BY <2>2 DEF NewestWorks
<1>4. NewestKnown(age) => NewestKnown(age)'
  <2> SUFFICES ASSUME NewestKnown(age) PROVE NewestKnown(age)'
    OBVIOUS
  <2>1. PICK t \in ledger :
          /\ Stands(age, t, Recorded)
          /\ \A s \in Rotator : pc[s] = "record" => new[s] \in live \/ age[new[s]] <= age[t]
    BY DEF NewestKnown
  <2>2. Stands(age, t, Recorded)'
    BY <1>1, <2>1 DEF Stands
  <2>3. \A s \in Rotator : pc[s] = "record" => new[s] # new[r]
    BY <1>1 DEF Distinct
  <2> QED
    BY <1>1, <2>1, <2>2, <2>3 DEF NewestKnown
<1> QED
  BY <1>2, <1>3, <1>4 DEF Order, Kept, AllRecord

\* Where every rotation records, recording a replacement that still works makes it
\* count, and one that does not work any more has a younger successor.
LEMMA RecordOrder ==
    ASSUME Truth, Configured, Distinct, Kept, NEW age \in Dating, Order(age),
           NEW r \in Rotator, Record(r)
    PROVE  Order(age)'
<1> USE Dated DEF Replacing, Unproven, Validated, Recorded
<1>1. /\ pc[r] = "record"
      /\ \A s \in Rotator \ {r} : pc'[s] = pc[s]
      /\ \/ pc'[r] = "finish" /\ ledger' = ledger
         \/ pc'[r] = "transition" /\ ledger' = ledger \cup {new[r]}
         \/ pc'[r] = "transition" /\ ledger' = ledger /\ ~cfg[r].ledger
      /\ UNCHANGED <<live, old, new>>
  BY DEF Record, RecordFailure, Fails, Goto, provider, Truth, TypeOK
<1>2. Younger(age)'
  BY <1>1 DEF Order, Younger
<1>3. NewestWorks(age)'
  BY <1>1, WorksStay DEF Order, NoEntry
<1>4. AllRecord /\ NewestKnown(age) => NewestKnown(age)'
  <2> SUFFICES ASSUME AllRecord, NewestKnown(age) PROVE NewestKnown(age)'
    OBVIOUS
  <2>1. PICK t \in ledger :
          /\ Stands(age, t, Recorded)
          /\ \A s \in Rotator : pc[s] = "record" => new[s] \in live \/ age[new[s]] <= age[t]
    BY DEF NewestKnown
  <2>2. cfg[r].ledger
    BY DEF AllRecord, Configured
  <2>3. t \in Token /\ new[r] \in Token
    BY <1>1 DEF Truth, TypeOK, Progress, Steady
  <2>4. CASE pc'[r] = "finish" \/ age[new[r]] <= age[t]
    <3>1. Stands(age, t, Recorded)'
      BY <1>1, <2>1, <2>4 DEF Stands
    <3> QED
      BY <1>1, <2>1, <3>1 DEF NewestKnown
  <2>5. CASE pc'[r] = "transition" /\ ~(age[new[r]] <= age[t])
    <3>1. new[r] \in live /\ new[r] \in ledger'
      BY <1>1, <2>1, <2>2, <2>5
    <3>2. \A s \in Rotator : pc'[s] \in Unproven => new[s] # new[r]
      BY <1>1, <2>5 DEF Distinct
    <3>3. \A s \in Rotator : pc'[s] \in Recorded => age[new[s]] <= age[new[r]]
      <4> SUFFICES ASSUME NEW s \in Rotator, s # r, pc'[s] \in Recorded
                   PROVE  age[new[s]] <= age[new[r]]
        BY <1>1
      <4>1. age[new[s]] <= age[t]
        BY <1>1, <2>1 DEF Stands
      <4> QED
        BY <1>1, <2>3, <2>5, <4>1
    <3>4. Stands(age, new[r], Recorded)'
      BY <1>1, <3>1, <3>2, <3>3 DEF Stands
    <3>5. \A s \in Rotator : pc'[s] = "record" => new[s] \in live \/ age[new[s]] <= age[new[r]]
      <4> SUFFICES ASSUME NEW s \in Rotator, s # r, pc'[s] = "record", new[s] \notin live
                   PROVE  age[new[s]] <= age[new[r]]
        BY <1>1, <3>1
      <4>1. age[new[s]] <= age[t]
        BY <1>1, <2>1
      <4> QED
        BY <1>1, <2>3, <2>5, <4>1
    <3> QED
      BY <1>1, <3>1, <3>4, <3>5 DEF NewestKnown
  <2> QED
    BY <1>1, <2>4, <2>5
<1> QED
  BY <1>2, <1>3, <1>4 DEF Order, Kept, AllRecord

\* What is revoked is older than its replacement, so it is neither of the tokens
\* that stand.
LEMMA RevokeOrder ==
    ASSUME Truth, Distinct, Kept, NEW age \in Dating, Order(age),
           NEW r \in Rotator, RevokeOld(r)
    PROVE  Order(age)'
<1> USE Dated DEF Replacing, Unproven, Validated, Recorded
<1>1. /\ pc[r] = "revoke" /\ pc'[r] \in {"unrecord", "finish"}
      /\ \A s \in Rotator \ {r} : pc'[s] = pc[s]
      /\ live \ {old[r]} \subseteq live'
      /\ UNCHANGED <<ledger, old, new>>
  BY DEF RevokeOld, RevokeCall, Fails, Goto, Truth, TypeOK
<1>2. Younger(age)'
  BY <1>1 DEF Order, Younger
<1>3. age[old[r]] < age[new[r]]
  BY <1>1 DEF Order, Younger
<1>4. NewestWorks(age)'
  <2>1. PICK t \in Token : Stands(age, t, Validated)
    BY DEF Order, NewestWorks
  <2>2. age[new[r]] <= age[t]
    BY <1>1, <2>1 DEF Stands
  <2>3. t # old[r]
    BY <1>1, <1>3, <2>2
  <2>4. Stands(age, t, Validated)'
    BY <1>1, <2>1, <2>3 DEF Stands
  <2> QED
    BY <2>4 DEF NewestWorks
<1>5. NewestKnown(age) => NewestKnown(age)'
  <2> SUFFICES ASSUME NewestKnown(age) PROVE NewestKnown(age)'
    OBVIOUS
  <2>1. PICK t \in ledger :
          /\ Stands(age, t, Recorded)
          /\ \A s \in Rotator : pc[s] = "record" => new[s] \in live \/ age[new[s]] <= age[t]
    BY DEF NewestKnown
  <2>2. t \in Token /\ age[new[r]] <= age[t]
    BY <1>1, <2>1 DEF Stands, Truth, TypeOK
  <2>3. t # old[r]
    BY <1>1, <1>3, <2>2
  <2>4. Stands(age, t, Recorded)'
    BY <1>1, <2>1, <2>3 DEF Stands
  <2>5. \A s \in Rotator : pc'[s] = "record" => new[s] \in live' \/ age[new[s]] <= age[t]
    <3> SUFFICES ASSUME NEW s \in Rotator, pc[s] = "record", new[s] \notin live'
                 PROVE  age[new[s]] <= age[t]
      BY <1>1
    <3>1. CASE new[s] \notin live
      BY <2>1, <3>1
    <3>2. CASE new[s] = old[r]
      BY <1>1, <1>3, <2>2, <3>2
    <3> QED
      BY <1>1, <3>1, <3>2
  <2> QED
    BY <1>1, <2>1, <2>4, <2>5 DEF NewestKnown
<1> QED
  BY <1>2, <1>4, <1>5 DEF Order, Kept, AllRecord

\* The record that is removed is that of a token older than its replacement.
LEMMA RemoveOrder ==
    ASSUME Truth, Distinct, Kept, NEW age \in Dating, Order(age),
           NEW r \in Rotator, RemoveRecord(r)
    PROVE  Order(age)'
<1> USE Dated DEF Replacing, Unproven, Validated, Recorded
<1>1. /\ pc[r] = "unrecord" /\ pc'[r] = "finish"
      /\ \A s \in Rotator \ {r} : pc'[s] = pc[s]
      /\ ledger \ {old[r]} \subseteq ledger'
      /\ UNCHANGED <<live, old, new>>
  BY DEF RemoveRecord, Fails, Goto, provider, Truth, TypeOK
<1>2. Younger(age)'
  BY <1>1 DEF Order, Younger
<1>3. NewestWorks(age)'
  BY <1>1, WorksStay DEF Order, NoEntry
<1>4. NewestKnown(age) => NewestKnown(age)'
  <2> SUFFICES ASSUME NewestKnown(age) PROVE NewestKnown(age)'
    OBVIOUS
  <2>1. PICK t \in ledger :
          /\ Stands(age, t, Recorded)
          /\ \A s \in Rotator : pc[s] = "record" => new[s] \in live \/ age[new[s]] <= age[t]
    BY DEF NewestKnown
  <2>2. t \in Token /\ age[new[r]] <= age[t] /\ age[old[r]] < age[new[r]]
    BY <1>1, <2>1 DEF Stands, Order, Younger, Truth, TypeOK
  <2>3. t # old[r]
    BY <1>1, <2>2
  <2>4. Stands(age, t, Recorded)'
    BY <1>1, <2>1 DEF Stands
  <2> QED
    BY <1>1, <2>1, <2>3, <2>4 DEF NewestKnown
<1> QED
  BY <1>2, <1>3, <1>4 DEF Order, Kept, AllRecord

\* Every other step that hands out no replacement.
LEMMA QuietOrder ==
    ASSUME Truth, Kept, NEW age \in Dating, Order(age),
           live \subseteq live', ledger \subseteq ledger',
           NoEntry(Unproven), NoEntry(Validated), NoEntry(Recorded), NoEntry({"record"})
    PROVE  Order(age)'
<1>1. Younger(age)'
  BY DEF Order, Younger, Kept
<1> QED
  BY <1>1, WorksStay, KnownStay DEF Order, Kept, AllRecord

\* The new token gets a date after that of the token it replaces; it is nobody's
\* token yet, so no other date matters.
LEMMA IssueOrder ==
    ASSUME Truth, Distinct, NEW age \in Dating, Order(age),
           NEW r \in Rotator, Issue(r),
           pc' = [pc EXCEPT ![r] = "validate"], new'[r] \in Token \ issued
    PROVE  \E later \in Dating : Order(later)'
<1> USE DEF Replacing, Unproven, Validated, Recorded
<1>1. /\ pc[r] = "issue" /\ pc'[r] = "validate"
      /\ \A s \in Rotator \ {r} : pc'[s] = pc[s] /\ new'[s] = new[s]
      /\ live \subseteq live'
      /\ UNCHANGED <<config, ledger, old>>
  BY DEF Issue, Truth, TypeOK
<1>2. PICK t \in Token : t = new'[r] /\ t \notin issued
  OBVIOUS
<1>3. /\ \A s \in Rotator : old[s] \in issued /\ (pc[s] \in Replacing => new[s] \in issued)
      /\ live \subseteq issued /\ ledger \subseteq issued /\ issued \subseteq Token
  BY DEF Truth, TypeOK, Progress, Steady
<1>4. PICK later \in Dating : later = [age EXCEPT ![t] = age[old[r]] + 1]
  <2>1. [age EXCEPT ![t] = age[old[r]] + 1] \in Dating
    BY <1>3 DEF Dating
  <2> QED
    BY <2>1
<1>5. /\ \A u \in issued : later[u] = age[u] /\ age[u] \in Nat
      /\ later[t] = age[old[r]] + 1
  BY <1>2, <1>3, <1>4 DEF Dating
<1>6. Younger(later)'
  <2> SUFFICES ASSUME NEW s \in Rotator, pc'[s] \in Replacing
               PROVE  later[old[s]] < later[new'[s]]
    BY <1>1, Zenon DEF Younger
  <2>1. CASE s = r
    BY <1>1, <1>2, <1>3, <1>5, <2>1
  <2>2. CASE s # r
    BY <1>1, <1>3, <1>5, <2>2 DEF Order, Younger
  <2> QED
    BY <2>1, <2>2
<1>7. ASSUME NEW u \in Token, NEW S \in SUBSET Validated, Stands(age, u, S)
      PROVE  Stands(later, u, S)'
  <2>1. u \in issued /\ u # t
    BY <1>2, <1>3, <1>7 DEF Stands
  <2>2. \A s \in Rotator : pc'[s] \in S => s # r
    BY <1>1
  <2>3. \A s \in Rotator : pc'[s] \in S =>
          new'[s] \in issued /\ age[new'[s]] <= age[u]
    BY <1>1, <1>3, <1>7, <2>2 DEF Stands
  <2>4. \A s \in Rotator : pc'[s] \in Unproven => new'[s] # u
    BY <1>1, <1>2, <1>7, <2>1 DEF Stands
  <2>5. \A s \in Rotator : pc'[s] \in S => later[new'[s]] <= later[u]
    BY <1>5, <2>1, <2>3
  <2> QED
    BY <1>1, <1>7, <2>4, <2>5 DEF Stands
<1>8. NewestWorks(later)'
  BY <1>7 DEF Order, NewestWorks
<1>9. NewestKnown(age) => NewestKnown(later)'
  <2> SUFFICES ASSUME NewestKnown(age) PROVE NewestKnown(later)'
    OBVIOUS
  <2>1. PICK u \in ledger :
          /\ Stands(age, u, Recorded)
          /\ \A s \in Rotator : pc[s] = "record" => new[s] \in live \/ age[new[s]] <= age[u]
    BY DEF NewestKnown
  <2>2. Stands(later, u, Recorded)'
    BY <1>3, <1>7, <2>1
  <2> QED
    BY <1>1, <1>3, <1>5, <2>1, <2>2 DEF NewestKnown
<1> QED
  BY <1>1, <1>6, <1>8, <1>9 DEF Order, AllRecord

LEMMA OrderStep ==
    ASSUME Truth, Distinct, NEW age \in Dating, Order(age), [Next]_vars
    PROVE  \E later \in Dating : Order(later)'
<1>1. ASSUME NEW r \in Rotator, Issue(r), pc' = [pc EXCEPT ![r] = "validate"],
             new'[r] \in Token \ issued
      PROVE  \E later \in Dating : Order(later)'
  BY <1>1, IssueOrder
<1>2. CASE Kept
  <2> USE <1>2 DEF provider, NoEntry, Unproven, Validated, Recorded, Goto, Fails
  <2> TypeOK
    BY DEF Truth
  <2>1. ASSUME NEW r \in Rotator, Begin(r) \/ Enter(r) \/ IssueFails(r) PROVE Order(age)'
    BY <2>1, QuietOrder DEF TypeOK, Begin, Enter, IssueFails
  <2>2. ASSUME NEW r \in Rotator, Issue(r) PROVE Order(age)'
    <3>1. pc'[r] # "validate"
      BY <2>2 DEF Kept, Replacing, Issue
    <3> QED
      BY <2>2, <3>1, QuietOrder DEF TypeOK, Issue
  <2>3. ASSUME NEW r \in Rotator, Validate(r) PROVE Order(age)'
    BY <2>3, ValidateOrder
  <2>4. ASSUME NEW r \in Rotator, Rollback(r) PROVE Order(age)'
    BY <2>4, RollbackOrder
  <2>5. ASSUME NEW r \in Rotator, Record(r) PROVE Order(age)'
    BY <2>5, RecordOrder DEF Truth
  <2>6. ASSUME NEW r \in Rotator, Transition(r) PROVE Order(age)'
    BY <2>6, QuietOrder DEF TypeOK, Transition
  <2>7. ASSUME NEW r \in Rotator, RevokeOld(r) PROVE Order(age)'
    BY <2>7, RevokeOrder
  <2>8. ASSUME NEW r \in Rotator, RemoveRecord(r) PROVE Order(age)'
    BY <2>8, RemoveOrder
  <2>9. ASSUME NEW r \in Rotator, Finish(r) \/ Forget(r) \/ Cancel(r) PROVE Order(age)'
    BY <2>9, QuietOrder DEF TypeOK, Finish, Forget, Cancel
  <2>10. ASSUME UNCHANGED vars PROVE Order(age)'
    BY <2>10, QuietOrder DEF vars
  <2>11. ASSUME NEW r \in Rotator, Running(r) PROVE Order(age)'
    BY <2>11, <2>1, <2>2, <2>3, <2>4, <2>5, <2>6, <2>7, <2>8, <2>9 DEF Running
  <2>12. Order(age)'
    BY <2>1, <2>9, <2>10, <2>11 DEF Next, Return, Crash
  <2> QED
    BY <2>12
<1> QED
  BY <1>1, <1>2, KeptStep

LEMMA InvStep == IInv /\ [Next]_vars => IInv'
<1> SUFFICES ASSUME IInv, [Next]_vars PROVE IInv'
  OBVIOUS
<1>1. PICK age \in Dating : Order(age)
  BY DEF IInv
<1>2. Truth' /\ Distinct'
  BY TruthStep, DistinctStep DEF IInv
<1>3. \E later \in Dating : Order(later)'
  BY <1>1, OrderStep DEF IInv
<1> QED
  BY <1>2, <1>3 DEF IInv, Dating

LEMMA Invariant == Spec => []IInv
BY InitInv, InvStep, PTL DEF Spec

-----------------------------------------------------------------------------

\* Every rotation is where its code can be, with a result of the declared flags
\* (types.go:25-35).
THEOREM TypeCorrect == Spec => []TypeOK
<1>1. IInv => TypeOK
  BY DEF IInv, Truth
<1> QED
  BY <1>1, Invariant, PTL

\* Nobody is ever locked out, however many rotations replace each other's tokens,
\* fail, lose answers, are cancelled or killed (rotate.go:73-115).
THEOREM WorksAlways == Spec => []NoLockout
<1>1. IInv => NoLockout
  BY DEF IInv, Order, NewestWorks, Stands, NoLockout
<1> QED
  BY <1>1, Invariant, PTL

\* Where every rotation keeps the ledger, a working token is always found in it
\* (rotate.go:93-99, 116-121).
THEOREM KnownAlways == Spec => []LiveTokenKnown
<1>1. IInv => LiveTokenKnown
  BY DEF IInv, Order, NewestKnown, AllRecord, Stands, LiveTokenKnown
<1> QED
  BY <1>1, Invariant, PTL

\* The flags of a result say what happened (types.go:25-35).
THEOREM ResultsTruthful == Spec => []ResultTruthful
<1>1. IInv => ResultTruthful
  BY DEF IInv, Truth
<1> QED
  BY <1>1, Invariant, PTL

\* A cancelled caller takes back a rejected replacement all the same
\* (rotate.go:81-85).
THEOREM CleansUpAlways == Spec => CleansUp
<1>1. IInv /\ [Next]_vars => [RejectedIsRevoked]_vars
  <2> SUFFICES ASSUME IInv, [Next]_vars, NEW r \in Rotator,
                      pc[r] = "rollback", pc'[r] = "finish", ~faults'[r]
               PROVE  new[r] \notin live'
    BY DEF RejectedIsRevoked
  <2> TypeOK
    BY DEF IInv, Truth
  <2> USE DEF TypeOK, RecordFailure, Fails, Goto
  <2>1. ASSUME NEW q \in Rotator, Running(q), ~Rollback(q) PROVE pc'[r] = pc[r] \/ pc[q] # pc[r]
    BY <2>1 DEF Running, Enter, IssueFails, Issue, Validate, Record, Transition, RevokeOld,
                RemoveRecord, Finish
  <2>2. ASSUME NEW q \in Rotator, Begin(q) \/ Forget(q) \/ Cancel(q)
        PROVE  pc'[r] = pc[r] \/ pc'[r] # "finish"
    BY <2>2 DEF Begin, Forget, Cancel
  <2>3. PICK q \in Rotator : Rollback(q)
    <3>1. pc' # pc
      OBVIOUS
    <3>2. PICK q \in Rotator : Begin(q) \/ Running(q) \/ Return(q) \/ Crash(q) \/ Cancel(q)
      BY <3>1 DEF Next, vars
    <3>3. CASE Running(q) /\ ~Rollback(q)
      <4>1. \A s \in Rotator \ {q} : pc'[s] = pc[s]
        BY <3>3 DEF Running, Enter, IssueFails, Issue, Validate, Record, Transition, RevokeOld,
                    RemoveRecord, Finish
      <4> QED
        BY <2>1, <3>3, <4>1
    <3> QED
      BY <2>2, <3>2, <3>3 DEF Return, Crash
  <2>4. q = r
    BY <2>3 DEF Rollback
  <2> QED
    BY <2>3, <2>4 DEF Rollback, RevokeCall, Fault, Outcome, CleanupDone
<1> QED
  BY <1>1, Invariant, PTL DEF Spec, CleansUp
=============================================================================
