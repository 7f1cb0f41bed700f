--------------------------- MODULE CredentialFile ---------------------------
(***************************************************************************)
(* What package store promises of the files below a managed root: every    *)
(* name holds either nothing or one complete value; a write takes effect   *)
(* at once, exactly when it later reports success; a removal likewise; and *)
(* a read reports a value the name held at some moment of the read.        *)
(* SecureFile shows that the staged, many-step operations of store/root.go *)
(* implement this.                                                         *)
(***************************************************************************)
CONSTANTS Proc,     \* the concurrent callers, in any number of OS processes
          Name,     \* the file names below the managed directory
          Value,    \* the complete values that can be written
          NoValue,  \* the name is absent
          Alien,    \* the name is a symlink, directory or other special file
          NoCall    \* the caller is not inside an operation

Op == {"write", "read", "exists", "remove"}

Call == [op : Op, name : Name, value : Value \cup {NoValue}]

Result == {"none", "ok", "notexist", "unsafe", "err", "false"}

VARIABLES content,   \* what each name holds
          call,      \* the operation each caller is inside
          window,    \* the contents of its name since the operation began
          ret, out   \* the result it will return, once that is decided

vars == <<content, call, window, ret, out>>

Init ==
    /\ content \in [Name -> Value \cup {NoValue, Alien}]
    /\ call = [p \in Proc |-> NoCall]
    /\ window = [p \in Proc |-> {}]
    /\ ret = [p \in Proc |-> "none"]
    /\ out = [p \in Proc |-> NoValue]

Pending(p) == call[p] # NoCall /\ ret[p] = "none"

Begin(p) ==
    /\ call[p] = NoCall
    /\ \E c \in Call :
          /\ call' = [call EXCEPT ![p] = c]
          /\ window' = [window EXCEPT ![p] = {content[c.name]}]
    /\ UNCHANGED <<content, ret, out>>

\* The operation of p succeeds by changing name n; everybody inside an
\* operation on n may from now on observe v.
TakesEffect(p, n, v) ==
    /\ content' = [content EXCEPT ![n] = v]
    /\ window' = [q \in Proc |->
                    IF call[q] # NoCall /\ call[q].name = n
                    THEN window[q] \cup {v} ELSE window[q]]
    /\ ret' = [ret EXCEPT ![p] = "ok"]
    /\ UNCHANGED <<call, out>>

\* A write replaces a value or nothing, never a special file.
Install(p) ==
    /\ Pending(p)
    /\ call[p].op = "write"
    /\ content[call[p].name] # Alien
    /\ TakesEffect(p, call[p].name, call[p].value)

Unlink(p) ==
    /\ Pending(p)
    /\ call[p].op = "remove"
    /\ content[call[p].name] \in Value
    /\ TakesEffect(p, call[p].name, NoValue)

\* The results an operation that changes nothing may have.
Allowed(p, r, v) ==
    /\ r = "ok" => \/ call[p].op = "read" /\ v \in Value \cap window[p]
                   \/ call[p].op = "exists" /\ window[p] \cap Value # {}
    /\ r = "notexist" => NoValue \in window[p]

Decide(p) ==
    /\ Pending(p)
    /\ \E r \in Result \ {"none"}, v \in Value \cup {NoValue} :
          /\ Allowed(p, r, v)
          /\ ret' = [ret EXCEPT ![p] = r]
          /\ out' = [out EXCEPT ![p] = v]
    /\ UNCHANGED <<content, call, window>>

\* The caller gets the result, or its process is killed before or after the
\* operation took effect.
Leave(p) ==
    /\ call[p] # NoCall
    /\ call' = [call EXCEPT ![p] = NoCall]
    /\ window' = [window EXCEPT ![p] = {}]
    /\ ret' = [ret EXCEPT ![p] = "none"]
    /\ out' = [out EXCEPT ![p] = NoValue]
    /\ UNCHANGED content

Next == \E p \in Proc : Begin(p) \/ Install(p) \/ Unlink(p) \/ Decide(p) \/ Leave(p)

Spec == Init /\ [][Next]_vars
=============================================================================
