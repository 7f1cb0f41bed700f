----------------------------- MODULE SecretParts -----------------------------
(***************************************************************************)
(* The two backends of package secret, which share no state: FileStore,    *)
(* composed with the file operations, and Keychain.                        *)
(***************************************************************************)
EXTENDS Sequences

CONSTANTS Client, SecretValue, NoSecret, Unreadable, NoRequest,
          SecretKey, NUL,
          Base, theKey, Junk, MaxForeign

VARIABLES request, answer, secretFile, fcall, window, ret, out,
          item, policy, order, place, marking, text, reply, foreign, acted, stored, flips

fileVars == <<request, answer, secretFile, fcall, window, ret, out>>
keychainVars == <<item, policy, order, place, marking, text, reply, foreign, acted, stored, flips>>

FS == INSTANCE FileStore
        WITH Value <- SecretValue, Key <- SecretKey, NoCall <- NoRequest, call <- request,
             res <- answer, file <- secretFile

KC == INSTANCE Keychain
        WITH NoCall <- NoRequest, call <- order, pc <- place, marked <- marking, read <- text,
             out <- reply, seen <- stored

\* The files implement the Store interface (secret.go 53-110).
FilesImplementStore == FS!ImplementsSecretStore

\* The commands of the keychain backend implement the Store interface as long as
\* nobody else writes to the keychain (secret.go 156-251).
KeychainImplementsStore == KC!ImplementsSecretStore

\* With another writer, a Get returns a secret that was never stored only if the
\* marking changed at least twice during the call (secret.go 185-208).
WrongOnlyAfterTwoFlips == KC!WrongOnlyAfterTwoFlips
=============================================================================
