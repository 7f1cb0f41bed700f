--------------------------- MODULE CallbackServer ---------------------------
(***************************************************************************)
(* oauth/callback.go and VerifyState of oauth/state.go: a local HTTP       *)
(* server whose handlers, one goroutine per request, race to deliver the   *)
(* one event that a Wait receives.  Callers may Wait several times, give   *)
(* up when their context ends, and Close the server at any moment.         *)
(*                                                                         *)
(* An event is the request's state with its code, its error code or        *)
(* neither; what the pages look like is left out.                          *)
(***************************************************************************)
EXTENDS Naturals, Sequences, FiniteSets

CONSTANTS Hit,      \* the requests, each with a handler goroutine
          Query,    \* what a request may ask for
          Waiter,   \* the calls of Wait
          Closer,   \* the calls of Close
          Expected, \* the values CallbackOptions.ExpectedState may have
          Path,     \* CallbackOptions.Path
          Nobody, NoQuery,
          None, Canceled \* what a Wait returns if it has no event

\* What a request tells the Wait.
Event(q) == [state |-> q.state,
             code  |-> IF q.error = "" THEN q.code ELSE "",
             err   |-> IF q.error # "" THEN q.error
                       ELSE IF q.code = "" THEN "missing code" ELSE ""]

Events == {Event(q) : q \in Query}

ASSUME CallbackAssumption ==
    /\ Query \subseteq [path : STRING, state : STRING, error : STRING, code : STRING]
    /\ Expected \subseteq STRING
    /\ Nobody \notin Hit /\ NoQuery \notin Query
    /\ Events \cap {None, Canceled} = {}

VARIABLES expected,  \* opts.ExpectedState
          listener,  \* "closed", "open", or "serving" once Serve has it
          shutdown,  \* whether Shutdown has begun
          once,      \* cb.once: "new", "running" or "done"
          result,    \* the channel cb.result, of capacity 1
          pc, query, \* of the handlers
          page,      \* the response written: its status
          wait,      \* of each Wait: "idle", "select" or "done"
          ctx,       \* whether its context has ended
          got,       \* what it returned: an event, Canceled, or None yet
          closing,   \* of each Close: "idle", "drain" or "done"
          winner     \* history: the request whose event was delivered

server == <<expected, listener, shutdown>>
channel == <<once, result, winner>>
handlers == <<pc, query, page>>
waiters == <<wait, ctx, got>>
vars == <<server, channel, handlers, waiters, closing>>

PC == {"none", "path", "verify", "deliver", "send", "respond", "done"}

TypeOK ==
    /\ expected \in Expected
    /\ listener \in {"closed", "open", "serving"}
    /\ shutdown \in BOOLEAN
    /\ once \in {"new", "running", "done"}
    /\ result \in Seq(Events) /\ Len(result) <= 1
    /\ pc \in [Hit -> PC]
    /\ query \in [Hit -> Query \cup {NoQuery}]
    /\ page \in [Hit -> {0, 200, 400, 404}]
    /\ wait \in [Waiter -> {"idle", "select", "done"}]
    /\ ctx \in [Waiter -> BOOLEAN]
    /\ got \in [Waiter -> Events \cup {None, Canceled}]
    /\ closing \in [Closer -> {"idle", "drain", "done"}]
    /\ winner \in Hit \cup {Nobody}

\* StartCallbackServer has bound the listener; the goroutine that calls Serve
\* has not run yet.
Init ==
    /\ expected \in Expected
    /\ listener = "open" /\ shutdown = FALSE
    /\ once = "new" /\ result = <<>> /\ winner = Nobody
    /\ pc = [h \in Hit |-> "none"]
    /\ query = [h \in Hit |-> NoQuery]
    /\ page = [h \in Hit |-> 0]
    /\ wait = [w \in Waiter |-> "idle"]
    /\ ctx = [w \in Waiter |-> FALSE]
    /\ got = [w \in Waiter |-> None]
    /\ closing = [c \in Closer |-> "idle"]

\* Serve takes the listener, or closes it at once if Shutdown came first.
Serve ==
    /\ listener = "open"
    /\ listener' = IF shutdown THEN "closed" ELSE "serving"
    /\ UNCHANGED <<expected, shutdown, channel, handlers, waiters, closing>>

\* A request reaches the server, which runs a handler for it.
Accept(h) ==
    /\ listener = "serving"
    /\ pc[h] = "none"
    /\ \E q \in Query : query' = [query EXCEPT ![h] = q]
    /\ pc' = [pc EXCEPT ![h] = "path"]
    /\ UNCHANGED <<server, channel, page, waiters, closing>>

Respond(h, status) ==
    /\ page' = [page EXCEPT ![h] = status]
    /\ pc' = [pc EXCEPT ![h] = "done"]

\* The mux, or the handler when the path is a subtree pattern, answers 404.
CheckPath(h) ==
    /\ pc[h] = "path"
    /\ IF query[h].path = Path
         THEN pc' = [pc EXCEPT ![h] = "verify"] /\ UNCHANGED page
         ELSE Respond(h, 404)
    /\ UNCHANGED <<server, channel, query, waiters, closing>>

VerifyState(want, state) == want # "" /\ state = want

\* Mutant: an error redirect is delivered whatever its state.
Admits_AnyError(q) == expected = "" \/ q.error # "" \/ VerifyState(expected, q.state)

\* Whether a request may consume the pending login.
Admits(q) == expected = "" \/ VerifyState(expected, q.state)

CheckState(h) ==
    /\ pc[h] = "verify"
    /\ IF Admits(query[h])
         THEN pc' = [pc EXCEPT ![h] = "deliver"] /\ UNCHANGED page
         ELSE Respond(h, 400)
    /\ UNCHANGED <<server, channel, query, waiters, closing>>

\* Mutant: deliver sends without the Once.
deliver_Always(h) ==
    /\ pc[h] = "deliver"
    /\ pc' = [pc EXCEPT ![h] = "send"]
    /\ once' = "running"
    /\ UNCHANGED <<server, result, winner, query, page, waiters, closing>>

\* once.Do: the first handler runs the function, later ones return, and those
\* that come while it runs wait for it.
deliver(h) ==
    /\ pc[h] = "deliver"
    /\ \/ /\ once = "new"
          /\ once' = "running"
          /\ pc' = [pc EXCEPT ![h] = "send"]
       \/ /\ once = "done"
          /\ pc' = [pc EXCEPT ![h] = "respond"]
          /\ UNCHANGED once
    /\ UNCHANGED <<server, result, winner, query, page, waiters, closing>>

\* make(chan callbackEvent, 1)
Room(ch) == Len(ch) < 1

Send(h) ==
    /\ pc[h] = "send"
    /\ Room(result)
    /\ result' = Append(result, Event(query[h]))
    /\ winner' = h
    /\ once' = "done"
    /\ pc' = [pc EXCEPT ![h] = "respond"]
    /\ UNCHANGED <<server, query, page, waiters, closing>>

writeBody(h) ==
    /\ pc[h] = "respond"
    /\ Respond(h, IF Event(query[h]).err = "" THEN 200 ELSE 400)
    /\ UNCHANGED <<server, channel, query, waiters, closing>>

BeginWait(w) ==
    /\ wait[w] = "idle"
    /\ wait' = [wait EXCEPT ![w] = "select"]
    /\ UNCHANGED <<server, channel, handlers, ctx, got, closing>>

\* The two cases of the select; when both are ready, either may be taken.
Receive(w) ==
    /\ wait[w] = "select"
    /\ result # <<>>
    /\ got' = [got EXCEPT ![w] = Head(result)]
    /\ result' = Tail(result)
    /\ wait' = [wait EXCEPT ![w] = "done"]
    /\ UNCHANGED <<server, once, winner, handlers, ctx, closing>>

\* Mutant: the context that ends drains the channel.
OnCancel_Drains == result' = <<>>

OnCancel == UNCHANGED result

\* Mutant: the select has no case for the context.
GiveUp_Never(w) == FALSE /\ UNCHANGED vars

GiveUp(w) ==
    /\ wait[w] = "select"
    /\ ctx[w]
    /\ got' = [got EXCEPT ![w] = Canceled]
    /\ OnCancel
    /\ wait' = [wait EXCEPT ![w] = "done"]
    /\ UNCHANGED <<server, once, winner, handlers, ctx, closing>>

\* The caller's context ends.
Cancel(w) ==
    /\ ~ctx[w] /\ wait[w] # "done"
    /\ ctx' = [ctx EXCEPT ![w] = TRUE]
    /\ UNCHANGED <<server, channel, handlers, wait, got, closing>>

\* Mutant: Close only shuts down a server that is already serving.
Close_IfServing(c) ==
    /\ closing[c] = "idle"
    /\ shutdown' = (listener = "serving")
    /\ listener' = IF listener = "serving" THEN "closed" ELSE listener
    /\ closing' = [closing EXCEPT ![c] = "drain"]
    /\ UNCHANGED <<expected, channel, handlers, waiters>>

\* Shutdown closes the listener that Serve has, then waits for the handlers.
Close(c) ==
    /\ closing[c] = "idle"
    /\ shutdown' = TRUE
    /\ listener' = IF listener = "serving" THEN "closed" ELSE listener
    /\ closing' = [closing EXCEPT ![c] = "drain"]
    /\ UNCHANGED <<expected, channel, handlers, waiters>>

\* The handlers have finished, or the two seconds are over, which may be at any
\* moment: those that still run are not stopped.
Closed(c) ==
    /\ closing[c] = "drain"
    /\ closing' = [closing EXCEPT ![c] = "done"]
    /\ UNCHANGED <<server, channel, handlers, waiters>>

Handle(h) == CheckPath(h) \/ CheckState(h) \/ deliver(h) \/ Send(h) \/ writeBody(h)

Select(w) == Receive(w) \/ GiveUp(w)

\* The login is over: every Wait and every Close has returned.
Terminated ==
    /\ \A w \in Waiter : wait[w] = "done"
    /\ \A c \in Closer : closing[c] = "done"
    /\ listener = "closed"
    /\ UNCHANGED vars

Next ==
    \/ Serve
    \/ \E h \in Hit : Accept(h) \/ Handle(h)
    \/ \E w \in Waiter : BeginWait(w) \/ Select(w) \/ Cancel(w)
    \/ \E c \in Closer : Close(c) \/ Closed(c)
    \/ Terminated

Spec == Init /\ [][Next]_vars

\* Goroutines that can run do run: Serve, the handlers, the selects and the
\* drain.  No request, cancellation, Wait or Close has to come.
Fairness ==
    /\ WF_vars(Serve)
    /\ \A h \in Hit : WF_vars(Handle(h))
    /\ \A w \in Waiter : WF_vars(Select(w))
    /\ \A c \in Closer : WF_vars(Closed(c))

-----------------------------------------------------------------------------
Received == {w \in Waiter : got[w] \notin {None, Canceled}}

\* One event exists in all: it is in the channel until exactly one Wait has it,
\* it is that of the request that won the Once, and a Wait that gives up does
\* not lose it (callback.go:121-128, 178-180).
OneEvent ==
    IF winner = Nobody
      THEN result = <<>> /\ Received = {}
      ELSE LET ev == Event(query[winner])
           IN  \/ result = <<ev>> /\ Received = {}
               \/ /\ result = <<>> /\ Cardinality(Received) = 1
                  /\ \A w \in Received : got[w] = ev

\* With ExpectedState set, the login is consumed only by a request that carries
\* that state, error redirects included (callback.go:145-150).
OnlyOurLogin ==
    (expected # "" /\ winner # Nobody) => query[winner].state = expected

\* The browser is told that the login is complete only after the event is there
\* for Wait, even when another handler delivers it (callback.go:171-180).
PageAfterEvent == \A h \in Hit : page[h] = 200 => winner # Nobody

\* One login, delivered once, and before any browser is told so, however many
\* requests, Waits and contexts race for it (callback.go:112-180).
DeliveredOnce == OneEvent /\ PageAfterEvent

\* A Wait whose context ends returns, and so does one that finds an event, or
\* another Wait has taken that event (callback.go:121-128).
WaitReturns ==
    \A w \in Waiter : (wait[w] = "select" /\ (ctx[w] \/ result # <<>>)) ~>
                      (wait[w] = "done" \/ (result = <<>> /\ Received # {}))

\* Close returns and the listener ends up closed, whether Serve had started or
\* not (callback.go:131-135).
CloseReleases ==
    \A c \in Closer : closing[c] = "drain" ~> (closing[c] = "done" /\ listener = "closed")

\* "The server stops accepting new requests after the first non-favicon
\* callback is processed" (callback.go:49-50).
StopsAfterFirst ==
    [][\A h \in Hit : (pc[h] = "none" /\ winner # Nobody /\ pc[winner] = "done") => pc'[h] = "none"]_vars
=============================================================================
