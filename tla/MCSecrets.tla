------------------------------ MODULE MCSecrets ------------------------------
(***************************************************************************)
(* Small instances, for TLC, of the two backends of package secret.  A     *)
(* behaviour is about one of them, and the other keeps an initial state.   *)
(***************************************************************************)
EXTENDS SecretParts, Naturals, TLC

CONSTANTS a, b

K(s, n) == [service |-> s, account |-> n]

\* Two valid keys, and two that would share a digest if they were accepted.
MCKey == {K(<<a>>, <<a>>), K(<<b>>, <<a>>), K(<<a>>, <<a, NUL, a>>), K(<<a, NUL, a>>, <<a>>)}

MCSymmetry == Permutations(Client) \cup Permutations(SecretValue)

VARIABLE part

ASSUME FileStoreInstance == FS!StoreAssumption
ASSUME KeychainInstance == KC!KeychainAssumption

\* An initial state of the keychain where a behaviour is about the files.
QuietKeychain == item = KC!NoItem /\ policy = "LegacyPlain"

PartsInit ==
    /\ part \in {"files", "keychain"}
    /\ FS!Init
    /\ KC!Init /\ (part = "keychain" \/ QuietKeychain)

PartsNext ==
    \/ part = "files" /\ FS!Next /\ UNCHANGED <<part, keychainVars>>
    \/ part = "keychain" /\ KC!Next /\ UNCHANGED <<part, fileVars>>

PartsSpec == PartsInit /\ [][PartsNext]_<<part, fileVars, keychainVars>>
=============================================================================
