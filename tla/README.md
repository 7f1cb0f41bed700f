# credkit in TLA+

credkit is a Go library for command-line tools that hold credentials: private
files below a managed directory, profiles, cached sessions and secret stores on
top of them, a ledger of issued tokens, an audit log, token rotation against a
provider, and the local half of an OAuth login. This directory models every
part of it that keeps or changes state, checks the models with TLC on small
instances, and proves with TLAPS, for every instance, every safety property and
every refinement that those checks ask for. Liveness is only model-checked.

## Inventory

| Component | State | Operations | Hard behaviour | What makes it correct |
|---|---|---|---|---|
| `store` files (`root.go`, `permissions_other.go`) | files, modes | `WriteSecureAt`, `ReadSecureAt`, `RemoveSecureAt`, `ExistsSecureAt` | concurrent callers in several processes, kills between two system calls, failing calls, exchanged inodes | a write is atomic and all-or-nothing; nothing is ever readable by others; reads change nothing |
| `store` directories (`root.go`, `store.go`) | directory tree, modes | `openDirectory`, `EnsureDir` | creation races; an entry renamed between `Lstat` and `OpenRoot` | only private directories are handed out; nothing off the path is touched |
| `token` ledger | one JSON file, `processMu` | `Record`, `List`, `Expiring`, `Remove`, `RemoveByID`, `Cleanup`, `FindByID`, `FindByName` | read-modify-write, clock moving during a loop, unreadable file | every call is one transaction; no update is lost; an unreadable ledger is never replaced |
| `audit` log | one file of JSON lines, one mutex per `Logger` | `Log`, `Query` | torn writes, lock-free readers, creation race, size bound | a torn write costs at most one acknowledged record; a query misses nothing intact |
| `sts` rotation | provider's tokens, ledger, audit log | `Rotate` | calls that take effect and lose their answer, cancellation, kills, concurrent rotations | some token always works and is known; the result tells the truth |
| `oauth` callback | listener, `sync.Once`, channel | `StartCallbackServer`, handler, `Wait`, `Close` | handlers racing for one event, `Wait` against its context, `Close` before `Serve` | one event, from our login, to one `Wait`; nobody blocks |
| `profile` | a file per profile, one per credential, one for the selection | `Save`, `Load`, `List`, `Delete`, `Exists`, `SetActive`, `Active`, `SaveCredential`, `LoadCredential`, `UpdateLastUsed` | operations over several files without a lock, kills between two removals, reads that race with a replacement | every answer was true at some moment of the call; a successful `Delete` leaves nothing behind; what was read earlier does harm only if another call overlapped |
| `session` | one file per provider | `Save`, `Load`, `Resolve`, `Clear` | expiry arithmetic at the edge of a `Duration`, stamps taken before the write, clock read after the read | a key is returned within its exact lifetime and not lost before its end |
| `secret` | files, or the macOS keychain through a command | `Put`, `Get`, `Delete` of `FileStore` and `KeychainStore` | three commands per `Get`, a program that reports success after failing, unmarked items of other programs | both backends keep the promises of one interface |
| `sts` health | none of its own | `CheckHealth`, `Counts` | the clock read twice per token, a ledger that changes | every token is filed once, under a true heading |
| `oauth` client | the application's `http.Client` | `AuthCodeURLChecked`, `Exchange`, `Refresh`, token parsing | redirects, oversized and malformed answers, lifetimes that overflow, lost answers, crossed logins | secrets reach one host; a token is what the answer says; a login gets its own token |
| `resolve` | none of its own | `Chain.Resolve` and its steps | sources that change, steps that claim success with nothing | the first credential there is, and no prompt in vain |
| `store` Windows ACLs | none of its own | `secureDirectoryPath`, `securePermissions` | a directory exchanged before it is opened, a descriptor whose sizes lie | only the inspected, private directory is accepted; nothing outside the buffer is read |
| `store` XDG directories | environment | `XDGConfigDir`, `Exists` | | not modelled |

How they interact: everything that is stored goes through `store`. The ledger
(`store.ReadSecure`, `store.WriteSecure`) and the profile, session and file
secret stores use the file operations; every file operation starts with the
directory walk; the audit log uses the append-only open. `Rotate` calls a
provider, the ledger and the audit log. The models are joined along the same
lines: what one of them shows of a component is what the next one assumes
(SecureFile shows that a write is atomic, Ledger writes its file in one step;
Ledger shows that `Record` and `RemoveByID` are atomic, Rotate uses them so).
FileStore is composed with CredentialFile action by action, and that composition
is shown to implement SecretStore. Profile and Session take from SecureFile that
a write or a removal changes its file in one step or not at all; Profile keeps
the two calls of a read apart, because a replacement between them makes it fail.
Health uses the conditions of LedgerOps and the atomic `List`. Login puts
together what CallbackServer shows of a redirect and what TokenEndpoint shows of
a request, and adds PKCE.

## Modules

| Module | Models | Kind |
|---|---|---|
| `StorePermissions` | `securePermissions`, `FilePerm`, `DirPerm` | operators |
| `CredentialFile` | what the file operations promise | abstract specification |
| `SecureFile` | `store/root.go` 81-237 below an opened directory | state machine |
| `SecureFileProofs` | its theorems, the refinement included | proofs |
| `StoreDir` | `store/root.go` 14-87, `EnsureDir` | state machine |
| `StoreDirProofs` | theorems of StoreDir and WindowsACL | proofs |
| `LedgerOps` | the data and the conditions of `token/token.go` | operators |
| `TokenLedger` | what the ledger promises | abstract specification |
| `Ledger` | `token/token.go` | state machine |
| `LedgerProofs` | theorems of Ledger, the refinement included, and of Health | proofs |
| `AuditLog` | `audit/audit.go`, `OpenAppendSecure`, the creating mode of `openManagedFile` | state machine |
| `AuditLogProofs` | its theorems | proofs |
| `Rotate` | `sts/rotate.go` | state machine |
| `RotateProofs` | its theorems | proofs |
| `CallbackServer` | `oauth/callback.go`, `VerifyState` | state machine |
| `CallbackServerProofs` | its theorems | proofs |
| `Profile` | `profile/profile.go` | state machine |
| `SecretStore` | what the `Store` interface of `secret/secret.go` promises | abstract specification |
| `FileStore` | `FileStore` of `secret/secret.go`, composed with `CredentialFile` | state machine |
| `Keychain` | `KeychainStore` of `secret/secret.go` | state machine |
| `Duration` | products and quotients of 64-bit durations, at any width | operators |
| `Session` | `session/session.go` | state machine |
| `TokenEndpoint` | `postTokenForm` of `oauth/authcode.go`, `oauth/token.go` | state machine |
| `Login` | `oauth/authcode.go`, `pkce.go`, `state.go` as whole logins | state machine |
| `ResolveChain` | `resolve/resolve.go` | state machine |
| `Health` | `sts/health.go` | state machine |
| `WindowsACL` | `store/permissions_windows.go` | state machine |
| `StoreParts`, `LedgerParts`, `CredentialParts`, `SecretParts`, `OAuthParts` | the parts of a package that share no state, side by side | compositions |
| `CredentialProofs` | theorems of Profile, Session, ResolveChain, FileStore and Keychain | proofs |
| `OAuthProofs` | theorems of TokenEndpoint and Login | proofs |
| `MC*` | instances for TLC | |

In every state machine a caller has a program counter `pc` that names the
system call, provider call or loop turn it makes next; an action is that call
with all the code up to the next one. Operators whose names end in an underscore
and a word (`Rename_ErrorIgnored`) are wrong variants of the operator next to
them, each a plausible mistake in that code; with one of them in place the
property it belongs to must fail. They are not part of the specification.

### SecureFile

A name is a directory entry for an inode; `body`, `mode` and `synced` are per
inode. An inode number is reused as soon as neither an entry nor a descriptor
refers to it, so that `os.SameFile` may be deceived. `WriteSecureAt` is
`OpenParent`, `regularInfo`, `CreateStaged`, `SecureStaged`, `WriteStaged`,
`SyncStaged` (with the close), `Rename`; `IOError` is the failure of whichever
call comes next with the deferred removal of the temporary file, which may fail
too. Readers are `regularInfo`, `openManagedFile`, `ReadLeaf`. The calls after a
reader's open look at the opened inode only and are one step with it; reading
the data is one step because an open inode never changes, which is itself
checked and proved (`OpenInodesImmutable`). `Crash` kills a caller anywhere;
`Chmod` is another program. Temporary files have random names and are kept apart
from the managed names.

Environment assumption: nobody turns a managed name into a link or a special
file while an operation on it runs (such names exist from the start, as
`Alien`). What a link in the directory part of a path can do is StoreDir's
subject.

History variables: `window` (what the name held since the call began, which the
abstract specification needs to say what a read may return) and `disturbed`.

### StoreDir

The tree is a chain: every directory has one entry that matters, the next
component of the path. Readers, writers and `EnsureDir` walk it; `Swap` renames
a link, a file or another directory into the path at any moment. `Foreign` is
where the link leads. The root itself is trusted by the callers, may be a link,
and is not swapped, as the comment of `openDirectory` says.

### Ledger

A call is `Begin`, `Lock`, `loadLocked`, one `Scan` per entry, `ScanEnd`,
`saveLocked`; `Finish` holds the deferred `Unlock`. `Tick` moves the clock at
any time, also between two entries of a loop; `Cutoff` is the one instant that
`Cleanup` fixes. `Crash` kills the process with all its goroutines. Entries keep
provider, name, ID, issue and expiry instants. An entry in `Unencodable` makes
`json.MarshalIndent` fail. There is one OS process: the package comment
(`token.go` 6-7) leaves cross-process locking to the caller. The number that
`Cleanup` returns is left out.

`TokenLedger` promises that a call is one transaction on the file. What a loop
selects depends on the clock, which moves while it runs; the promise is that there
are instants of the call, in order and one for each entry (`Looks`), such that the
answer, or the new file, is exactly the entries they select (`Chosen`, `Picks`).

### AuditLog

The file is a sequence of cells, so that a torn write is a proper prefix of a
record and the next record lands on the same line. `Log` is `CheckSize`,
`Lock`, `Stat`, `Open` (at most twice), `Write` or `WriteFails`; `Query` is
`OpenQuery` and one `Scan` per line, without lock. Each `Logger` may be a
process of its own. A write appends everything or, with an error or a kill, a
proper prefix; nobody removes the log.

### Rotate

The provider is external. A call may succeed, take effect and lose its answer
(`"lost"`), or fail without effect (`"down"`, or `"cancelled"` if its context is
done). `Issue` may return a fresh token with or without its value, the old token
again or nothing. A rotation is called with one of the option sets in `config`,
which is chosen at the start: with all of them keeping the ledger, a token that
works is always in it (`LiveTokenKnown`). Assumed of the provider: a token it has not handed out before
gets a fresh ID, only `Revoke` takes a token away, and `Validate` confirms only
tokens that work. Any number of rotations run at once, of any token ever issued.

### CallbackServer

One handler per request: `CheckPath`, `CheckState`, `deliver` (entering the
`sync.Once`), `Send` (the channel of capacity one), `writeBody`. Later handlers
that come while the first is inside the `Once` wait for it, as `sync.Once` makes
them. `Close` may come before `Serve` has been called; its two seconds may end
at any moment.

### Profile

Callers may be goroutines or processes; `Manager` has no lock, so nothing but the
file system orders them. A call is the sequence of its file operations: a read is
`Stat` and `Open`, a write or a removal is one step (`Apply`). `raced` says that
the file was replaced between the two halves of a read, which then fails with
`ErrUnsafePath` or, if the new file has the old inode number, does not. `Delete`
is the read of the selection, `RemoveProfile`, `RemoveCredential` and, depending
on what was read at the start, `Write` of an empty selection. `Leave` returns or
kills the caller anywhere. The history variables `met` and `held` say what others
changed during a call and what the files held meanwhile; they are kept for the
files a call reads.

### SecretStore, FileStore and Keychain

`SecretStore` is the interface: a `Put` or `Delete` takes effect at most once
during the call, success means that the value was stored at some moment of it, a
`Get` returns something that was stored during it, an error says nothing.

`FileStore` names a file after the digest of service, NUL and account. The digest
is taken to be free of collisions, so the name is that sequence; `validateKey`
must then keep NUL out of both parts. The refinement maps the contents of a key to
the contents of its file.

`Keychain` makes `Put`, `Get` and `Delete` sequences of runs of the external
program, each of which sees or changes the keychain at one moment and may report
success without effect or failure after its effect. A `Get` is `Metadata`,
`ReadValue`, `Recheck`, `Decode`; a `Put` is `Add` and a whole `Get`. `Foreign`
is a program that stores an item without marking it as encoded. The store
implements `SecretStore` until the first such write
(`KeychainImplementsStore`); after it, a wrong answer takes two changes of the
marking during one `Get` (`WrongOnlyAfterTwoFlips`). `ErrAmbiguousEncoding` is an
error to the abstract store.

### Session, TokenEndpoint and Duration

`Duration` has the width of `time.Duration` and the length of a second as
constants: `Wrap` is the product as the machine computes it. `Session` records
beside each file the exact end of its lifetime (`until`), which the code does not
have and the property compares with; files of older versions, with a lifetime in
seconds and no end, exist from the start. `Stamp` takes the time before `Write`,
`Check` after `Read`.

In `TokenEndpoint` the requests share the application's `http.Client`, whose
redirect policy must neither be used nor be changed. The endpoint answers,
redirects or is not reached; an answer is its status, length, whether it is JSON,
which fields it has and its `expires_in`.

### Login

The authorization server is external: it binds a code to the state and challenge
of the visited URL and redeems it once. Random values are fresh, so state and
verifier of a login are named after it. Redirects stay under way for ever and may
arrive at any login, any number of times.

### ResolveChain

One action per look at a source: `Try` for a step or for one of the variables of
an `EnvStep`, `Skip` for a prompt without a terminal, `NoCredential` at the end.
`read` is the history of what was looked at.

### Health

`CheckExpired` and `CheckSoon` each read the clock; `LoopHead` looks at the
context; `Tick`, `Cancel` and `OthersChange` come at any moment. A token in the
report is the position of its entry in the snapshot.

### WindowsACL

The descriptor is a buffer with a length; an entry has a place, a size, a type
and a SID with a number of sub-authorities, each of which may claim anything.
`reads` is the history of the bytes looked at, together with the limit of what
holds them. The sizes of the fixed parts are those of the Windows headers.

### Instances that hold several components

A run asks one question of related components. Where these share no state, a
`*Parts` module instantiates them with variables and constants of their own (it may
extend the first of them) and names their properties. Both the MC module and the
module of the proofs extend it, so that a run and a theorem speak of the same
definition. The MC module adds `part`, which is fixed in the initial state and says
which of the parts a behaviour is about; the others keep one initial state
(`Quiet...`). The states are the sum of those of the parts, not their product, and
every property speaks of one part. Assumptions on the constants of such an instance
are definitions of its module (`SessionAssumption`): the MC module asserts them for
the values it chooses, the theorems take them as hypotheses.

## Runs

| Run | Instance | Shows |
|---|---|---|
| `secure_file` | 2 callers, 1 name, 2 values, 3 inodes | the refinement of CredentialFile, the order secure-write-sync-rename, immutability of reachable inodes, no repair on read, explained `ErrUnsafePath`, private temporary files |
| `store_dir` | 2 callers, 2 levels, 4 directories, 1 swap; descriptors of up to 2 entries in 48 bytes | only private paths are handed out, creators do not fail each other, nothing off the path is touched; exact ACL decisions within the buffer |
| `ledger` | 2 goroutines, up to 2 entries, 3 instants, 13 requests; reports on up to 3 entries, 4 instants, 1 change | current snapshots, transactions, the refinement of TokenLedger; exact health reports |
| `rotate` | 2 rotations, 4 tokens, all with a ledger, all without or some with | a working token is always in the ledger, or without one at least there; truthful results; clean-up despite cancellation |
| `audit` | 3 goroutines, 2 Loggers, records below, at and over the bound | harmless creation race and repair before use, bounded damage, complete and sound queries |
| `oauth` | 3 requests, 2 Waits, 1 Close; 2 token requests; 3 logins | one event, only ours, to one Wait; secrets stay, tokens are exact; logins stay apart |
| `secrets` | 2 callers; 4 keys, 2 of them valid, 2 values; 1 plain secret and the one that looks like its encoding, 1 foreign write | both refinements of SecretStore; two flips before a wrong answer |
| `credentials` | 2 callers, 2 profiles, 3 calls; 2 providers, 2 calls, 8 instants; 4 chains, 1 change | explained reads, complete deletes, harmless staleness; exact lifetimes; the first credential |
| `progress` | 2 of each kind | every ledger and log call, rotation, request and `Wait` ends; `Close` releases the listener |
| `audit_torn` | 2 goroutines, 1 Logger | **violation**: an acknowledged record after a torn write is unreadable |
| `callback_stops` | 2 requests | **violation**: the server does not stop after the first callback |
| `profile_list` | 2 callers that list, save, update and delete; no failing calls | **violation**: `List` leaves out a profile that is being saved |

### Bounds, and why they are enough

Two callers show every race between two operations, and inode reuse needs one
writer that replaces while a reader is between its Lstat and its open; three
inodes leave room for two staged files beside the linked one (inodes limit how
many orphans pile up, nothing else; what an unused inode still holds is left out
of the view). Two ledger entries are needed for an entry to
expire between two turns of a loop, three instants for before, at and after an
expiry. Two rotations and four tokens let one rotate the other's replacement and
lose one more token by a lost answer. Three goroutines on two Loggers give a
race inside a mutex, one between two mutexes and a reader beside them; records
of size one, two and three with the bound at two are below, at and over it. The
history of one swap is enough for each window between `Lstat` and open; two
levels distinguish the last component from the others.

Three profile calls let a killed or failed call be followed by another while a
third overlaps; two session calls are a writer and a reader, or a writer and a
`Clear`. Durations have four bits (`MaxInt` 7) and a second has two ticks, so
that lifetimes below a second, the last number of seconds that fits, the first
that does not and one that would wrap to a positive lifetime are all there. One
foreign keychain write is enough for both flips: the other is a marked `Put` of
the second caller. Three logins with two visits each give a redirect of another
login and a second one of the own. Two ACL entries distinguish a loop's first
turn from its next; their places and sizes lie at and around each limit of a
buffer of 48 bytes. `MaxTime`, `MaxLen`, `MaxSwaps`, `MaxCalls`, `MaxForeign`,
`MaxVisits` and `MaxChanges` are the named bounds; each record is logged once, and
the callback model ends with its calls (`Terminated`). Symmetry is used only
without liveness.

### Fairness

`Fairness` of each component is all that `progress` assumes of it. `Ledger` and
`AuditLog`: a goroutine inside a call keeps running (weak
fairness), and `sync.Mutex` hands itself to a waiter that has been starving for
a millisecond (strong fairness of `Lock`). `Rotate`: calls are answered and the
timer fires. `CallbackServer`: the goroutine of `Serve`, the handlers, a
`select` with a ready case and the two-second limit of `Close` make progress. No
fairness is assumed of callers, cancellation, requests, kills or failures.

### Where code and comments differ

- `audit.go:20` says that Log and Query share a bound "to keep records
  readable". A torn write breaks this for the *next* record, which Log
  acknowledges: it is appended to the fragment's line (`audit_torn`). How far
  the damage goes is `DamageBounded`: one acknowledged record per torn write.
- `callback.go:49` says that the server "stops accepting new requests after the
  first non-favicon callback is processed". It serves until `Close`
  (`callback_stops`); what does hold is `DeliveredOnce`.
- `profile.go:52` says that `List` "returns all profiles". It skips those whose
  load fails (`profile.go:69`), and the load of a profile whose file is replaced
  between `Lstat` and open fails, so a profile that is being saved may be missing
  from a successful answer (`profile_list`). What does hold is `ReadsExplained`.

One limit is not a disagreement: `Get` compares the marking of an item before and
after it reads the value (`secret.go:204`), so a marking that changes and changes
back in between goes unnoticed. `WrongOnlyAfterTwoFlips` says that nothing less
does.

## Proofs

Eight modules hold the theorems. They hold for any sets of callers, names, values,
tokens and requests, any umasks and foreign modes, and any values of the bounds that
keep the runs finite. `Spec => []P` is proved in three steps everywhere: the initial
states satisfy an inductive invariant, each action preserves it (a lemma for one
action or for a few that are alike), and it implies `P`. The properties alone are
hardly ever inductive; what is added to them is said below.

| Module | Theorems |
|---|---|
| `SecureFileProofs` | `TypeCorrect`, `StagedStaysPrivate`, `UnsafeHasCause`, `PublishedIsComplete`, `ReachableNeverChanges`, `NamedModesKept`, `Refinement` (of CredentialFile) |
| `StoreDirProofs` | `TypeCorrect`, `ForeignStaysUntouched`, `MkdirRacesHarmless`, `PathsPrivate`; `AclsExact` |
| `LedgerProofs` | `TypeCorrect`, `Exclusion`, `SnapshotStaysCurrent`, `ChangesAreTransactions`, `LedgerImplementsAtomic` (the refinement of TokenLedger); `HealthReportExact` |
| `RotateProofs` | `TypeCorrect`, `WorksAlways`, `KnownAlways`, `ResultsTruthful`, `CleansUpAlways` |
| `AuditLogProofs` | `TypeCorrect`, `OpensAreSafe`, `DamageIsBounded`, `QueriesAreExact` |
| `CallbackServerProofs` | `TypeCorrect`, `DeliversOnce`, `ConsumedByOurLogin` |
| `OAuthProofs` | `SecretsAlwaysStay`, `TokensAlwaysExact`; `LoginsStayApart` |
| `CredentialProofs` | `ProfileTypeCorrect`, `ReadsAreExplained`, `DeletesAreComplete`, `StaleWritesOverlapped`; `SessionsAreExact`; `ChainsFindTheFirst`; `FilesImplementSecretStore`; `KeychainImplementsSecretStore`, `WrongSecretsNeedTwoFlips` |

### What the invariants say

**SecureFile.** `Control`: what `call`, `ret`, `seen` and `fd` hold at each `pc`.
`Ownership`: an inode is staged by at most one caller, and staged, orphaned and
linked inodes and open descriptors of different kinds do not overlap; without it a
caller could write to another's file after inode reuse. `Stages`: what a staged
file has become after each step, from which `PublishesComplete` follows at the
rename. `OrphansPrivate`, `LinkedComplete`: what is left behind is private, what has
a name is complete. `Observation`: `window` contains what the name holds now, and
what a reader has open or has returned is in it. The refinement maps `content[n]` to
the body behind the entry of `n`.

**StoreDir.** While nobody renames anything the tree only grows: an entry that a
walk has seen stays, what lies above an open directory never gains a member, and a
mode once private stays so (`Calm`, made of `Forest` and `Walk`). This gives
`PathPrivate`. After a rename a walk may have been sent to `Foreign`; it cannot have
secured it, because the comparison with the result of `Lstat` comes first (`Off`).
`Blameless` is the excuse a failed writer has, for `MkdirRaceHarmless`.

**WindowsACL.** `Examined`: the entries before the one at hand have passed the
check, and the opened object is the inspected one. `Bounded`: what was read of an
entry lies within what holds it, from linear arithmetic on claimed sizes.

**Ledger.** To mutual exclusion `IInv` adds what a goroutine outside the critical
section holds (`Clean`), that `pc` agrees with the request (`Control`), and the loop
invariant (`Loop`): of the entries passed, `kept` holds those that were to be kept
and none that was to be dropped. The refinement needs more: what a loop has built so
far is explained by looks at the clock since the call began (`Judging`), only what
can be encoded is ever in the file (`Encodable`), and results exist only at the end
(`Outer`). `Picks` is a recursive function over the positions of a sequence; the
induction over it is an argument about a set of numbers (`AllNumbers`), since the
prover cannot take an induction rule with a predicate.

**Health.** `Place`: the snapshot is one that the file held. `Filed`: the entries
before the one at hand stand under exactly one heading. `Truthful`: what the
headings say was true at some instant since the call began.

**Rotate.** `Truth` describes a rotation at each step and contains
`ResultTruthful`; `Distinct` says that no two rotations have the same replacement.
That nobody is locked out although rotations may rotate each other's replacements is
an argument about age. Age is not in the state, so `IInv` says that the tokens *can*
be dated such that every replacement is younger than what it replaces (`Younger`),
some working token that nobody is about to take back is at least as young as every
validated replacement (`NewestWorks`), and the same for a recorded token if every
option set keeps the ledger (`NewestKnown`). A `Revoke` takes a token older than its
replacement, so never this one; an `Issue` returns a token that can be dated last.

**AuditLog.** Cells are only appended, and those of a record by the one `Log` that
was called with it (`Pending`, `Held`, `Log`, `Distinct`). So a line with an ending
stays as it is, a fragment without one spoils exactly the next record (`Damage`),
without a torn write nothing acknowledged is spoiled (`Whole`), and what a scanner has
passed is settled: it has collected every acknowledged record up to its place
(`Passed`), in the order of the file (`Ordered`). `Opening` is what a goroutine knows
of the file it is about to open, for `OpensSafely`.

**CallbackServer.** One handler at most is inside the `Once` (`Once`), the winner is
admitted (`Winner`, `Handlers`), and the one event is in the channel or with the one
`Wait` that took it (`Waits`).

**TokenEndpoint, Login.** `Calls` and `Results` say where an answer and a result come
from; `Histories` types the instants. A lifetime is exact by `WrapExact` and
`OutcomeExact`: the guards of `oauth/token.go` let exactly those products through that
a `Duration` holds, at any width. For logins, `Ask` and `Ver` bind a code to the
challenge of the visited URL; only the login itself has redeemed one with its verifier
(`Redirects`, `Logins`).

**Profile.** Nothing is locked, so what a caller has read says little about the files
now. `History` relates the files to what the two histories of a call say: a watched
file was, at some moment of the call, what `held` lists, and is still as the call
found or left it unless `met` names it. `Answers`, `Deleted` and `Updated` follow each
operation through its steps.

**Session, ResolveChain.** `SessionHistory` and `Resolved` relate what a call read
to what the file held meanwhile; `LifetimeExact` and `ExpiryExact` are the arithmetic.
A chain has tried exactly the steps that come before its place, less the prompts that
have no terminal (`Asked`, equal to `Tried`), and none of what it read was usable.

**FileStore, Keychain.** The refinement of FileStore needs that different valid keys
have different paths (`PathsApart`: the NUL separates service and account because
neither contains one) and that what a reader returns is one of the values in its
window (`Served`). For Keychain, `Placed` says that what the keychain means now is
among what was stored during the call; `Dated` that a marking other than the one
read takes a change, so that equal markings with fewer than two changes in between
prove the value; `Alone` is the sharper form that holds while nobody else writes.

### Assumptions

`ConstantsAssumption`, `DirAssumption`, `DataAssumption`, `LedgerAssumption`,
`RotateAssumption`, `AuditAssumption`, `CallbackAssumption` and `ProfileAssumption`
are ASSUMEs of their modules. `AclAssumption`, `HealthAssumption`,
`DurationAssumption`, `SessionAssumption`, `ChainAssumption`, `StoreAssumption`,
`KeychainAssumption`, `EndpointAssumption` and `LoginAssumption` are definitions and
hypotheses of the theorems. All of them say the same kind of thing: special values
(no call, no result, absent file) differ from the ordinary ones, bounds are natural
numbers, what is chosen at the start has its type, and, in AuditLog, that a record is
not empty and a log found at the start holds no record twice. TLC evaluates each of
them on the instances of the runs.

### What is only model-checked

Liveness: `LedgerCallsEnd`, `LogCallsEnd`, `RotationsEnd`, `RequestsAnswered`,
`WaitReturns` and `CloseReleases` (run `progress`). They rest on fairness and so on
`ENABLED`, which the prover does not handle. The three runs that find a violation
show it on an instance, which is all a counterexample needs.

The environment is assumed, not proved: see the sections of the modules for what the
file system, the provider, the authorization server and the keychain program may do.
Where one model takes a component as atomic because another one shows that it is
(Ledger the file, Rotate the ledger, Profile and Session a write), the step between
the two models is the reading of their specifications, except for FileStore, which
is composed with CredentialFile.

## Not modelled, and why

- XDG directories, `Exists`, `RedirectURL`: they read the environment or one
  entry and keep nothing.
- Random values (`NewState`, `NewPKCE`) are fresh by assumption; the syntax of
  URLs and forms, of JSON and of the keychain program's command line (`quoteArg`)
  is left out: conversions that no property here is about.
- The provider interface of `sts` is implemented by applications; Rotate has it by
  how it is used.
- Syncing of directories after a rename: the code does not do it, and
  CredentialFile does not promise that a successful write survives a power
  failure.
- Pages, error texts, labels and scopes.

## Plan

Every module of the plan is written, and every safety property and refinement that a
run checks has its theorem. What is left, in this order:

1. Compositions that close the step between two models: Ledger over CredentialFile
   instead of an atomic file, and Session over it, as FileStore already is.
2. Rotate over TokenLedger: its `Record` and `RemoveByID` as calls that can be
   interleaved with a `Cleanup`, which Rotate leaves out.
3. Shorter proofs: the lemmas on sequences of cells in `AuditLogProofs` and on the
   sequences of calls in `CredentialProofs` have parts in common.
