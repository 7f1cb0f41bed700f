---------------------------- MODULE ResolveChain ----------------------------
(***************************************************************************)
(* resolve/resolve.go: Chain.Resolve tries its steps one after the other   *)
(* while the environment, the files and the user go their own ways.  Each  *)
(* step reads its source, an EnvStep each of its variables, at the moment  *)
(* it is tried; a prompt is shown and takes a line from the terminal.      *)
(***************************************************************************)
EXTENDS Naturals, Sequences

CONSTANTS Source,      \* flags, variables, files, functions, answers of the user
          Chains,      \* the chains in use: sequences of [kind, sources]
          Credential,
          Empty,       \* the empty string
          Blank,       \* white space
          NotOk,       \* no such variable or file, a failed read, nothing found
          MaxChanges   \* bound on the changes of the sources

Prompt == {"prompt:secure", "prompt:plain"}
Kind == {"flag", "env", "file", "func"} \cup Prompt

\* What the constants have to be.
ChainAssumption ==
    /\ Chains \subseteq Seq([kind : Kind, sources : Seq(Source)])
    /\ \A s \in Chains : \A i \in DOMAIN s : /\ Len(s[i].sources) >= 1
                                             /\ s[i].kind # "env" => Len(s[i].sources) = 1
    /\ {Empty, Blank, NotOk} \cap Credential = {} /\ MaxChanges \in Nat
    /\ Empty \notin {Blank, NotOk} /\ Blank # NotOk

VARIABLES value,     \* what each source holds
          chain,
          terminal,  \* stdin is one
          pos, sub,  \* the step, and within it the source, tried next
          changes,
          prompts,   \* positions whose prompt was shown
          res,       \* <<status, value, position>>
          read       \* history: <<position, contents>> of every source read, in order

vars == <<value, chain, terminal, pos, sub, changes, prompts, res, read>>

Running == res = <<"none", Empty, 0>>

TypeOK ==
    /\ value \in [Source -> Credential \cup {Empty, Blank, NotOk}]
    /\ chain \in Chains /\ terminal \in BOOLEAN
    /\ pos \in 1 .. Len(chain) + 1 /\ sub \in Nat \ {0}
    /\ prompts \subseteq DOMAIN chain

Init ==
    /\ value \in [Source -> Credential \cup {Empty, Blank, NotOk}]
    /\ chain \in Chains /\ terminal \in BOOLEAN
    /\ pos = 1 /\ sub = 1 /\ changes = 0
    /\ prompts = {} /\ read = <<>>
    /\ res = <<"none", Empty, 0>>

\* Files and answers are trimmed; flags, variables and functions are not.
Trimmed(kind, v) == IF kind \in {"file"} \cup Prompt /\ v = Blank THEN Empty ELSE v

\* Mutant: a step that says it found something is believed.
Matches_Ok(v) == v # NotOk

Matches(v) == v # NotOk /\ v # Empty

\* os.Getenv cannot tell an empty variable from a missing one, and FlagStep,
\* FileStep and the prompts test for it themselves; a function may report success
\* with an empty value.
Yields(kind, v) == IF kind # "func" /\ Trimmed(kind, v) = Empty THEN NotOk ELSE Trimmed(kind, v)

Current == chain[pos]

Advance ==
    IF sub < Len(Current.sources) THEN sub' = sub + 1 /\ UNCHANGED pos
                                  ELSE pos' = pos + 1 /\ sub' = 1

\* A prompt without a terminal is skipped.
Skip ==
    /\ Running /\ pos <= Len(chain)
    /\ Current.kind \in Prompt /\ ~terminal
    /\ Advance
    /\ UNCHANGED <<value, chain, terminal, changes, prompts, res, read>>

Try ==
    /\ Running /\ pos <= Len(chain)
    /\ Current.kind \in Prompt => terminal
    /\ prompts' = IF Current.kind \in Prompt THEN prompts \cup {pos} ELSE prompts
    /\ LET v == value[Current.sources[sub]]
           y == Yields(Current.kind, v)
       IN  /\ read' = Append(read, <<pos, v>>)
           /\ IF Matches(y) THEN res' = <<"found", y, pos>> /\ UNCHANGED <<pos, sub>>
                            ELSE Advance /\ UNCHANGED res
    /\ UNCHANGED <<value, chain, terminal, changes>>

NoCredential ==
    /\ Running /\ pos > Len(chain)
    /\ res' = <<"notfound", Empty, 0>>
    /\ UNCHANGED <<value, chain, terminal, pos, sub, changes, prompts, read>>

\* Somebody changes a variable, a file, or his mind; a flag is fixed.
Change ==
    /\ Running /\ changes < MaxChanges /\ changes' = changes + 1
    /\ \E s \in Source, v \in Credential \cup {Empty, Blank, NotOk} :
          /\ \A i \in DOMAIN chain : chain[i].kind = "flag" => s # chain[i].sources[1]
          /\ value' = [value EXCEPT ![s] = v]
    /\ UNCHANGED <<chain, terminal, pos, sub, prompts, res, read>>

Next == Skip \/ Try \/ NoCredential \/ Change

Spec == Init /\ [][Next]_vars

-----------------------------------------------------------------------------

\* The contents of a source of this kind make a credential.
Usable(kind, v) == v \in Credential \/ (v = Blank /\ kind \in {"flag", "env", "func"})

\* What Resolve returns is the first credential there is: it is never empty, no
\* source that was read before it had one, every step before it was tried unless it
\* is a prompt and there is no terminal, and nobody was prompted for less preferred
\* ones (resolve.go 41-48 and the steps).
FirstCredential ==
    LET asked == {read[i][1] : i \in DOMAIN read}
        silent == {i \in DOMAIN chain : chain[i].kind \in Prompt /\ ~terminal}
        goal == IF res[1] = "found" THEN res[3] ELSE Len(chain)
        last == read[Len(read)]
    IN  ~Running =>
          /\ asked = (1 .. goal) \ silent
          /\ prompts = {i \in asked : chain[i].kind \in Prompt}
          /\ \A i \in DOMAIN read : Usable(chain[read[i][1]].kind, read[i][2])
                                      => i = Len(read) /\ res[1] = "found"
          /\ res[1] = "found" => /\ last = <<res[3], res[2]>>
                                 /\ Usable(chain[res[3]].kind, res[2])
=============================================================================
