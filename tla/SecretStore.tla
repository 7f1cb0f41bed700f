---------------------------- MODULE SecretStore -----------------------------
(***************************************************************************)
(* What the Store interface of package secret promises, whatever the       *)
(* backend: keys do not affect each other; a Put or Delete takes effect at *)
(* most once, during the call; success means that the value, or nothing,   *)
(* was stored at some moment of the call; a Get returns something that was *)
(* stored during the call, in the form in which it was put.  An error says *)
(* nothing: the call may have taken effect.                                *)
(***************************************************************************)
CONSTANTS Client, Key, Value,
          NoSecret,    \* nothing is stored
          Unreadable,  \* something is, but not in a form Get can return
          NoCall

Call == [op : {"Put"}, key : Key, value : Value]
        \cup [op : {"Get", "Delete"}, key : Key, value : {NoSecret}]

None == <<"none", NoSecret>>
Ok(v) == <<"ok", v>>
NotFound == <<"notfound", NoSecret>>
Err == <<"err", NoSecret>>

VARIABLES content,  \* what is stored under each key
          call,     \* the call each client is inside
          acted,    \* it has taken effect
          seen,     \* what its key held since it began, until it has a result
          res       \* its result

vars == <<content, call, acted, seen, res>>

Init ==
    /\ content \in [Key -> Value \cup {NoSecret, Unreadable}]
    /\ call = [c \in Client |-> NoCall]
    /\ acted = [c \in Client |-> FALSE]
    /\ seen = [c \in Client |-> {}]
    /\ res = [c \in Client |-> None]

Begin(c) ==
    /\ call[c] = NoCall
    /\ \E k \in Call : /\ call' = [call EXCEPT ![c] = k]
                       /\ seen' = [seen EXCEPT ![c] = {content[k.key]}]
    /\ UNCHANGED <<content, acted, res>>

\* The arguments or the context end the call at once.
Refuse(c) ==
    /\ call[c] = NoCall
    /\ \E k \in Call : call' = [call EXCEPT ![c] = k]
    /\ res' = [res EXCEPT ![c] = Err]
    /\ UNCHANGED <<content, acted, seen>>

Pending(c) == call[c] # NoCall /\ res[c] = None

\* A Delete stores NoSecret, which is its value field.
Effect(c) ==
    /\ Pending(c) /\ ~acted[c] /\ call[c].op \in {"Put", "Delete"}
    /\ content' = [content EXCEPT ![call[c].key] = call[c].value]
    /\ acted' = [acted EXCEPT ![c] = TRUE]
    /\ seen' = [d \in Client |-> IF Pending(d) /\ call[d].key = call[c].key
                                 THEN seen[d] \cup {call[c].value} ELSE seen[d]]
    /\ UNCHANGED <<call, res>>

Answers(c) ==
    CASE call[c].op = "Get" -> {Ok(v) : v \in seen[c] \cap Value}
                                 \cup {r \in {NotFound} : NoSecret \in seen[c]}
      [] OTHER -> {r \in {Ok(NoSecret)} : call[c].value \in seen[c]}

Return(c) ==
    /\ Pending(c)
    /\ \E r \in Answers(c) \cup {Err} : res' = [res EXCEPT ![c] = r]
    /\ seen' = [seen EXCEPT ![c] = {}]
    /\ UNCHANGED <<content, call, acted>>

\* The client has its result, or is killed.
Leave(c) ==
    /\ call[c] # NoCall
    /\ call' = [call EXCEPT ![c] = NoCall]
    /\ acted' = [acted EXCEPT ![c] = FALSE]
    /\ seen' = [seen EXCEPT ![c] = {}]
    /\ res' = [res EXCEPT ![c] = None]
    /\ UNCHANGED content

Next == \E c \in Client : Begin(c) \/ Refuse(c) \/ Effect(c) \/ Return(c) \/ Leave(c)

Spec == Init /\ [][Next]_vars
=============================================================================
