----------------------------- MODULE WindowsACL -----------------------------
(***************************************************************************)
(* store/permissions_windows.go: secureDirectoryPath opens the directory   *)
(* that EnsureDir inspected, and securePermissions decides from a copy of  *)
(* its security descriptor whether only trusted principals can reach it.   *)
(* Meanwhile others rename directories and change descriptors, so that the *)
(* copy may be any descriptor.  It is a buffer of bytes; what matters of   *)
(* it is where its parts lie, how long they say they are, and whom they    *)
(* name.                                                                   *)
(***************************************************************************)
EXTENDS Integers, Sequences

CONSTANTS Object,       \* files and directories
          Directory,    \* the directories among them
          Missing,      \* the path leads nowhere
          Descriptor,   \* the security descriptors in use, see DescriptorType
          User,         \* the effective user
          System, Administrators,
          Others,       \* every other principal
          Invalid,      \* a SID that IsValidSid rejects
          Null,         \* a null or absent DACL
          MaxChanges    \* bound on the renames of others

Sid == {User, System, Administrators, Invalid} \cup Others

Trustee == {User, System, Administrators}

\* An access control entry: its distance from the start of the buffer, its
\* AceSize and AceType, and the SID in it with the number of its sub-authorities.
\* inheritOnly entries apply to children only.
AceType == {"allowed", "denied", "object"}
Ace == [at : Int, size : Nat, type : AceType, subs : Nat, sid : Sid, inheritOnly : BOOLEAN]

DescriptorType == [valid : BOOLEAN, owner : Sid, dacl : Seq(Ace) \cup {Null},
                   selfRelative : BOOLEAN, length : Nat]

\* What the constants have to be.
AclAssumption ==
    /\ Directory \subseteq Object /\ Missing \notin Object
    /\ Descriptor \subseteq DescriptorType
    /\ Invalid \notin Trustee
    /\ MaxChanges \in Nat

VARIABLES at,         \* what the path leads to
          changes,
          expected,   \* what Lstat saw
          opened,     \* what os.Open returned
          sd,         \* the copy GetSecurityInfo returned: a set of at most one
          ace,        \* the entry looked at
          pc,
          failed,     \* history: a call of GetAce failed
          reads       \* history: what was read through an ACE view, see Span

vars == <<at, changes, expected, opened, sd, ace, pc, failed, reads>>

\* unsafe.Sizeof(ACE_HEADER{}), unsafe.Offsetof(ace.SidStart), and the fixed part
\* of a SID.
HeaderSize == 4
SidStart == 8
SidHeader == 8

TypeOK ==
    /\ at \in Object \cup {Missing} /\ changes \in 0 .. MaxChanges
    /\ expected \in Directory /\ opened \in Object \cup {Missing}
    /\ sd \subseteq Descriptor /\ ace \in Nat /\ failed \in BOOLEAN
    /\ pc \in {"open", "stat", "query", "descriptor", "ace", "ok", "unsafe", "err"}

Init ==
    /\ expected \in Directory /\ at = expected
    /\ changes = 0 /\ opened = Missing /\ sd = {} /\ ace = 1
    /\ pc = "open" /\ failed = FALSE /\ reads = {}

Outside == <<at, changes, expected>>

Open ==
    /\ pc = "open"
    /\ opened' = at
    /\ pc' = IF at = Missing THEN "err" ELSE "stat"
    /\ UNCHANGED <<Outside, sd, ace, failed, reads>>

Stat ==
    /\ pc = "stat"
    /\ \/ pc' = "err"
       \/ pc' = IF opened \in Directory /\ opened = expected THEN "query" ELSE "unsafe"
    /\ UNCHANGED <<Outside, opened, sd, ace, failed, reads>>

\* securePermissions: the user and the descriptor of the opened object.
securePermissions ==
    /\ pc = "query"
    /\ \/ pc' = "err" /\ UNCHANGED sd
       \/ pc' = "descriptor" /\ \E d \in Descriptor : sd' = {d}
    /\ UNCHANGED <<Outside, opened, ace, failed, reads>>

trustedWindowsPrincipal(sid) == sid \in Trustee

\* validateWindowsDescriptor up to its loop.
HeadOk(d) ==
    /\ d.valid
    /\ d.owner # Invalid /\ trustedWindowsPrincipal(d.owner)
    /\ d.dacl # Null
    /\ d.selfRelative

CheckHead ==
    /\ pc = "descriptor"
    /\ \E d \in sd : pc' = IF HeadOk(d) THEN "ace" ELSE "unsafe"
    /\ UNCHANGED <<Outside, opened, sd, ace, failed, reads>>

\* Does the header lie in the buffer, and the whole entry?
HeaderInside(d, a) == a.at >= 0 /\ a.at <= d.length /\ HeaderSize <= d.length - a.at
EntryInside(d, a) == a.size >= HeaderSize /\ a.size <= d.length - a.at

SidLength(a) == SidHeader + 4 * a.subs

\* Mutant: the length the SID claims is not compared with its entry.
SidInside_Header(a) == a.size >= SidStart + SidHeader

\* First the fixed part, then the length it claims.
SidInside(a) == a.size >= SidStart + SidHeader /\ SidLength(a) <= a.size - SidStart

\* n bytes of an entry, which must not reach beyond limit.
Span(a, n, limit) == [from |-> a.at, to |-> a.at + n, limit |-> limit]

\* What is read of an entry: the header if it is inside, the sub-authority count if
\* the entry is long enough for one, the whole SID if that is inside too.
ReadsOf(d, a) ==
    LET header == Span(a, HeaderSize, d.length)
        count  == Span(a, SidStart + 2, a.at + a.size)
        sid    == Span(a, SidStart + SidLength(a), a.at + a.size)
        long   == EntryInside(d, a) /\ a.type = "allowed" /\ a.size >= SidStart + SidHeader
    IN  IF ~HeaderInside(d, a) THEN {}
        ELSE IF ~long THEN {header}
        ELSE {header, count} \cup (IF SidInside(a) THEN {sid} ELSE {})

EntryOk(d, a) ==
    /\ HeaderInside(d, a) /\ EntryInside(d, a)
    /\ \/ a.type = "denied"
       \/ a.type = "allowed" /\ SidInside(a) /\ a.sid # Invalid /\ trustedWindowsPrincipal(a.sid)

\* One round of the loop over the ACEs; GetAce may fail.
CheckAce ==
    /\ pc = "ace"
    /\ \E d \in sd :
         /\ ace <= Len(d.dacl)
         /\ \/ pc' = "unsafe" /\ failed' = TRUE /\ UNCHANGED <<ace, reads>>
            \/ /\ reads' = reads \cup ReadsOf(d, d.dacl[ace]) /\ UNCHANGED failed
               /\ IF EntryOk(d, d.dacl[ace]) THEN ace' = ace + 1 /\ UNCHANGED pc
                                             ELSE pc' = "unsafe" /\ UNCHANGED ace
    /\ UNCHANGED <<Outside, opened, sd>>

Accept ==
    /\ pc = "ace"
    /\ \E d \in sd : ace > Len(d.dacl)
    /\ pc' = "ok"
    /\ UNCHANGED <<Outside, opened, sd, ace, failed, reads>>

\* Others move something else to the path.
OthersRename ==
    /\ pc = "open" /\ changes < MaxChanges /\ changes' = changes + 1
    /\ at' \in Object \cup {Missing}
    /\ UNCHANGED <<expected, opened, sd, ace, pc, failed, reads>>

Next ==
    \/ Open \/ Stat \/ securePermissions \/ CheckHead \/ CheckAce \/ Accept
    \/ OthersRename

Spec == Init /\ [][Next]_vars

-----------------------------------------------------------------------------

\* Only trusted principals own the object or are granted anything on it or on what is
\* created under it, and nothing grants in a form that was not understood.
Private(d) ==
    /\ d.owner \in Trustee /\ d.dacl # Null
    /\ \A i \in DOMAIN d.dacl : d.dacl[i].type = "denied"
                                  \/ (d.dacl[i].type = "allowed" /\ d.dacl[i].sid \in Trustee)

\* Every part of the descriptor lies within the part that holds it.
WellFormed(d) ==
    /\ d.valid /\ d.selfRelative
    /\ \A i \in DOMAIN d.dacl :
          LET a == d.dacl[i]
          IN  /\ a.at >= 0 /\ a.size >= HeaderSize /\ a.at + a.size <= d.length
              /\ a.type = "allowed" => SidStart + SidHeader + 4 * a.subs <= a.size

\* An accepted directory is the one that was inspected, and its descriptor lets only
\* trusted principals in, now and by inheritance; one that is refused is another, or
\* not private, or malformed.  And the check never reads outside the descriptor's
\* buffer or beyond the entry at hand, whatever sizes and places the entries claim
\* (permissions_windows.go 26-89 and 95-109).
AclExact ==
    /\ pc = "ok" => opened = expected /\ \A d \in sd : Private(d) /\ d.valid
    /\ pc = "unsafe" => \/ failed \/ opened # expected
                        \/ \A d \in sd : ~(Private(d) /\ WellFormed(d))
    /\ \A s \in reads : \A d \in sd : 0 <= s.from /\ s.to <= s.limit /\ s.limit <= d.length
=============================================================================
