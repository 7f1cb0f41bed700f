------------------------------ MODULE LedgerOps ------------------------------
(***************************************************************************)
(* The data of token/token.go: what the ledger keeps of a token, the       *)
(* requests made of it, and the conditions its loops test.  Instants are   *)
(* numbers; issued = 0 is Go's zero time, and hasExpiry = FALSE the nil    *)
(* ExpiresAt.  Encoding an entry as JSON and decoding it again keeps these *)
(* fields; an entry in Unencodable (an instant beyond the year 9999) makes *)
(* json.MarshalIndent fail for the whole list.                             *)
(***************************************************************************)
EXTENDS Integers, Sequences

CONSTANTS Entry,        \* the Metadata values in use
          Unencodable,  \* those that cannot be encoded
          Request,      \* the calls the clients make
          NoRequest,
          NoFile,       \* the ledger file does not exist
          Corrupt       \* it exists and cannot be read or parsed

EntryType == [provider : STRING, name : STRING, id : STRING,
              issued : Nat, hasExpiry : BOOLEAN, expires : Nat]

Op == {"Record", "List", "Expiring", "Remove", "RemoveByID", "Cleanup",
       "FindByID", "FindByName"}

\* entry is used by Record only, key is the name or ID, span the duration.
RequestType == [op : Op, entry : Entry, provider : STRING, key : STRING, span : Nat]

ASSUME DataAssumption ==
    /\ Entry \subseteq EntryType
    /\ Unencodable \subseteq Entry
    /\ Request \subseteq RequestType
    /\ NoRequest \notin RequestType
    /\ NoFile \notin Seq(Entry) /\ Corrupt \notin Seq(Entry) /\ NoFile # Corrupt

Mutator == {"Record", "Remove", "RemoveByID", "Cleanup"}

Finder == {"FindByID", "FindByName"}

\* What a reader of the file gets: a missing file is an empty ledger.
Contents(f) == IF f = NoFile THEN <<>> ELSE f

IsExpired(e, now) == e.hasExpiry /\ now > e.expires

ExpiresWithin(e, d, now) == e.hasExpiry /\ now + d > e.expires

\* Issued before the cutoff; entries without an issue time have no age.
TooOld(e, cutoff) == e.issued # 0 /\ e.issued < cutoff

\* The entry a removal or a search is about.  Names and IDs are separate
\* namespaces, both within a provider.
Matches(r, e) ==
    /\ e.provider = r.provider
    /\ IF r.op \in {"Remove", "FindByName"} THEN e.name = r.key ELSE e.id = r.key

\* Mutant: only names are checked.
Rejected_NamesOnly(r) == r.op = "FindByName" /\ r.key = ""

\* Requests with an empty ID or name that are refused before the lock.
Rejected(r) == r.op \in {"RemoveByID", "FindByID", "FindByName"} /\ r.key = ""

\* Whether a loop over the entries appends e to its result.
Selects(r, e, cutoff, now) ==
    CASE r.op = "List"     -> r.provider = "" \/ e.provider = r.provider
      [] r.op = "Expiring" -> ExpiresWithin(e, r.span, now)
      [] r.op = "Cleanup"  -> ~IsExpired(e, now) /\ ~TooOld(e, cutoff)
      [] r.op \in Finder   -> Matches(r, e)
      [] OTHER             -> ~Matches(r, e)

\* The slice that a loop over s has built after each number of entries, if it
\* appends the entries at the places I.
Picks(s, I) ==
    LET slice[n \in 0 .. Len(s)] ==
          IF n = 0 THEN <<>>
          ELSE IF n \in I THEN Append(slice[n - 1], s[n]) ELSE slice[n - 1]
    IN  slice

\* What it has built in the end.
Picked(s, I) == Picks(s, I)[Len(s)]
==============================================================================
