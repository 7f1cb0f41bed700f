------------------------ MODULE CallbackServerProofs ------------------------
(***************************************************************************)
(* Proofs about CallbackServer for any number of requests, Waits and       *)
(* Closes.  The Once makes the delivered event unique: exactly one handler *)
(* can be about to send, and only before there is a winner; from then on   *)
(* the event is in the channel or with the one Wait that took it.          *)
(***************************************************************************)
EXTENDS CallbackServer, FiniteSetTheorems, TLAPS

\* Where a handler has passed the check of its state.
Admitted == {"deliver", "send", "respond"}

\* The requests that may consume the login.
Welcome == {q \in Query : Admits(q)}

\* Handlers see the request they were started for, and only admitted ones go on.
Handlers ==
    \A h \in Hit :
        /\ pc[h] # "none" => query[h] \in Query
        /\ pc[h] \in Admitted => query[h] \in Welcome
        /\ pc[h] = "respond" \/ page[h] = 200 => winner # Nobody

\* The Once: one handler runs the function, and it has run when there is a winner.
Once ==
    /\ once = "done" <=> winner # Nobody
    /\ \A h \in Hit : pc[h] = "send" => once = "running"
    /\ \A h, g \in Hit : pc[h] = "send" /\ pc[g] = "send" => h = g

Winner ==
    winner # Nobody => pc[winner] \in {"respond", "done"} /\ query[winner] \in Welcome

\* A Wait that has not returned has nothing, and one Wait has the event or none.
Waits ==
    /\ \A w \in Waiter : wait[w] # "done" => got[w] = None
    /\ \/ winner = Nobody /\ result = <<>> /\ Received = {}
       \/ /\ winner # Nobody /\ result = <<Event(query[winner])>>
          /\ Received = {}
       \/ /\ winner # Nobody /\ result = <<>>
          /\ \E w \in Waiter : Received = {w} /\ got[w] = Event(query[winner])

IInv == TypeOK /\ Handlers /\ Once /\ Winner /\ Waits

-----------------------------------------------------------------------------

LEMMA EventIn == /\ \A q \in Query : Event(q) \in Events
                 /\ \A e \in Events : e # None /\ e # Canceled
BY CallbackAssumption DEF Events

LEMMA Names == Nobody \notin Hit /\ NoQuery \notin Query
BY CallbackAssumption

LEMMA WelcomeStays == expected' = expected => Welcome' = Welcome
BY DEF Welcome, Admits

LEMMA InitInv == Init => IInv
<1> SUFFICES ASSUME Init PROVE IInv
  OBVIOUS
<1> USE CallbackAssumption DEF Init
<1>1. TypeOK
  <2>1. result \in Seq(Events) /\ Len(result) <= 1
    OBVIOUS
  <2>2. /\ pc \in [Hit -> PC] /\ query \in [Hit -> Query \cup {NoQuery}]
        /\ page \in [Hit -> {0, 200, 400, 404}]
    BY DEF PC
  <2>3. /\ wait \in [Waiter -> {"idle", "select", "done"}] /\ ctx \in [Waiter -> BOOLEAN]
        /\ got \in [Waiter -> Events \cup {None, Canceled}]
        /\ closing \in [Closer -> {"idle", "drain", "done"}]
    OBVIOUS
  <2> QED
    BY <2>1, <2>2, <2>3 DEF TypeOK
<1>2. Handlers /\ Once /\ Winner
  BY DEF Handlers, Once, Winner, Admitted
<1>3. Waits
  BY DEF Waits, Received
<1> QED
  BY <1>1, <1>2, <1>3 DEF IInv

LEMMA TypeStep == ASSUME TypeOK, Handlers, [Next]_vars PROVE TypeOK'
<1> USE DEF server, channel, handlers, waiters, vars
<1>1. CASE Serve
  BY <1>1 DEF TypeOK, Serve
<1>2. ASSUME NEW h \in Hit, Accept(h) PROVE TypeOK'
  BY <1>2 DEF TypeOK, Accept, PC
<1>3. ASSUME NEW h \in Hit, CheckPath(h) \/ CheckState(h) PROVE TypeOK'
  BY <1>3 DEF TypeOK, CheckPath, CheckState, Respond, PC
<1>4. ASSUME NEW h \in Hit, deliver(h) PROVE TypeOK'
  BY <1>4 DEF TypeOK, deliver, PC
<1>5. ASSUME NEW h \in Hit, Send(h) PROVE TypeOK'
  BY <1>5, EventIn DEF TypeOK, Handlers, Send, Room, PC
<1>6. ASSUME NEW h \in Hit, writeBody(h) PROVE TypeOK'
  BY <1>6 DEF TypeOK, writeBody, Respond, PC
<1>7. ASSUME NEW w \in Waiter, BeginWait(w) PROVE TypeOK'
  BY <1>7 DEF TypeOK, BeginWait
<1>8. ASSUME NEW w \in Waiter, Receive(w) PROVE TypeOK'
  BY <1>8 DEF TypeOK, Receive
<1>9. ASSUME NEW w \in Waiter, GiveUp(w) PROVE TypeOK'
  BY <1>9 DEF TypeOK, GiveUp, OnCancel
<1>10. ASSUME NEW w \in Waiter, Cancel(w) PROVE TypeOK'
  BY <1>10 DEF TypeOK, Cancel
<1>11. ASSUME NEW c \in Closer, Close(c) PROVE TypeOK'
  BY <1>11 DEF TypeOK, Close
<1>12. ASSUME NEW c \in Closer, Closed(c) PROVE TypeOK'
  BY <1>12 DEF TypeOK, Closed
<1>13. CASE UNCHANGED vars
  BY <1>13 DEF TypeOK
<1> QED
  BY <1>1, <1>2, <1>3, <1>4, <1>5, <1>6, <1>7, <1>8, <1>9, <1>10, <1>11, <1>12, <1>13
     DEF Next, Handle, Select, Terminated

\* A step that leaves the handlers, the channel and the Waits alone.
Idle == UNCHANGED <<expected, once, result, winner, pc, query, page, wait, got>>

LEMMA IdleStep == ASSUME IInv, Idle PROVE (Handlers /\ Once /\ Winner /\ Waits)'
BY WelcomeStays DEF IInv, Idle, Handlers, Once, Winner, Waits, Received

LEMMA InvStep == IInv /\ [Next]_vars => IInv'
<1> SUFFICES ASSUME IInv, [Next]_vars PROVE (Handlers /\ Once /\ Winner /\ Waits)'
  BY TypeStep DEF IInv
<1> USE DEF server, channel, handlers, waiters, vars
<1> TypeOK
  BY DEF IInv
<1>1. ASSUME NEW h \in Hit, Accept(h) PROVE (Handlers /\ Once /\ Winner /\ Waits)'
  <2> USE <1>1 DEF Accept
  <2>0. /\ expected' = expected
        /\ \A g \in Hit : g # h => pc'[g] = pc[g] /\ query'[g] = query[g] /\ page'[g] = page[g]
    BY DEF TypeOK
  <2>1. Handlers'
    BY <2>0, Names, WelcomeStays DEF IInv, TypeOK, Handlers, Once, Winner, Admitted
  <2>2. Once'
    BY <2>0, Names, WelcomeStays DEF IInv, TypeOK, Once, Winner, Handlers
  <2>3. Winner'
    BY <2>0, Names, WelcomeStays DEF IInv, TypeOK, Once, Winner, Handlers, Admitted
  <2>4. Waits'
    BY Names, EventIn DEF IInv, TypeOK, Waits, Once, Winner, Handlers, Received
  <2> QED
    BY <2>1, <2>2, <2>3, <2>4
<1>2. ASSUME NEW h \in Hit, CheckPath(h) PROVE (Handlers /\ Once /\ Winner /\ Waits)'
  <2> USE <1>2 DEF CheckPath, Respond
  <2>0. /\ expected' = expected
        /\ \A g \in Hit : g # h => pc'[g] = pc[g] /\ query'[g] = query[g] /\ page'[g] = page[g]
    BY DEF TypeOK
  <2>1. Handlers'
    BY <2>0, Names, WelcomeStays DEF IInv, TypeOK, Handlers, Once, Winner, Admitted
  <2>2. Once'
    BY <2>0, Names, WelcomeStays DEF IInv, TypeOK, Once, Winner, Handlers
  <2>3. Winner'
    BY <2>0, Names, WelcomeStays DEF IInv, TypeOK, Once, Winner, Handlers, Admitted
  <2>4. Waits'
    BY Names, EventIn DEF IInv, TypeOK, Waits, Once, Winner, Handlers, Received
  <2> QED
    BY <2>1, <2>2, <2>3, <2>4
<1>3. ASSUME NEW h \in Hit, CheckState(h) PROVE (Handlers /\ Once /\ Winner /\ Waits)'
  <2> USE <1>3 DEF CheckState, Respond
  <2>0. /\ expected' = expected
        /\ \A g \in Hit : g # h => pc'[g] = pc[g] /\ query'[g] = query[g] /\ page'[g] = page[g]
    BY DEF TypeOK
  <2>1. Handlers'
    <3>1. pc'[h] \in Admitted => query[h] \in Welcome
      BY DEF IInv, TypeOK, Handlers, Admitted, Welcome
    <3>2. pc'[h] # "respond" /\ (page'[h] = page[h] \/ page'[h] = 400)
      BY DEF TypeOK
    <3> QED
      BY <2>0, <3>1, <3>2, WelcomeStays DEF IInv, TypeOK, Handlers, Admitted
  <2>2. Once'
    BY <2>0, Names, WelcomeStays DEF IInv, TypeOK, Once, Winner, Handlers
  <2>3. Winner'
    BY <2>0, Names, WelcomeStays DEF IInv, TypeOK, Once, Winner, Handlers, Admitted
  <2>4. Waits'
    BY Names, EventIn DEF IInv, TypeOK, Waits, Once, Winner, Handlers, Received
  <2> QED
    BY <2>1, <2>2, <2>3, <2>4
<1>4. ASSUME NEW h \in Hit, deliver(h) PROVE (Handlers /\ Once /\ Winner /\ Waits)'
  <2> USE <1>4 DEF deliver
  <2>0. /\ expected' = expected
        /\ \A g \in Hit : g # h => pc'[g] = pc[g] /\ query'[g] = query[g] /\ page'[g] = page[g]
    BY DEF TypeOK
  <2>1. Handlers'
    BY <2>0, Names, WelcomeStays DEF IInv, TypeOK, Handlers, Once, Winner, Admitted
  <2>2. Once'
    BY <2>0, Names, WelcomeStays DEF IInv, TypeOK, Once, Winner, Handlers
  <2>3. Winner'
    BY <2>0, Names, WelcomeStays DEF IInv, TypeOK, Once, Winner, Handlers, Admitted
  <2>4. Waits'
    BY Names, EventIn DEF IInv, TypeOK, Waits, Once, Winner, Handlers, Received
  <2> QED
    BY <2>1, <2>2, <2>3, <2>4
<1>5. ASSUME NEW h \in Hit, Send(h) PROVE (Handlers /\ Once /\ Winner /\ Waits)'
  <2> USE <1>5 DEF Send, Room
  <2>0. /\ expected' = expected
        /\ \A g \in Hit : g # h => pc'[g] = pc[g] /\ query'[g] = query[g] /\ page'[g] = page[g]
    BY DEF TypeOK
  <2>1. Handlers'
    BY <2>0, Names, WelcomeStays DEF IInv, TypeOK, Handlers, Once, Winner, Admitted
  <2>2. Once'
    BY <2>0, Names, WelcomeStays DEF IInv, TypeOK, Once, Winner, Handlers
  <2>3. Winner'
    BY <2>0, Names, WelcomeStays DEF IInv, TypeOK, Once, Winner, Handlers, Admitted
  <2>4. Waits'
    <3>1. winner = Nobody /\ result = <<>> /\ Received = {}
      BY DEF IInv, Once, Waits
    <3>2. result' = <<Event(query[h])>> /\ winner' = h /\ UNCHANGED <<wait, got, query>>
      BY <3>1
    <3> HIDE <1>5
    <3>3. Received' = {}
      BY <3>1, <3>2 DEF Received
    <3> QED
      BY <3>1, <3>2, <3>3, Names DEF IInv, Waits
  <2> QED
    BY <2>1, <2>2, <2>3, <2>4
<1>6. ASSUME NEW h \in Hit, writeBody(h) PROVE (Handlers /\ Once /\ Winner /\ Waits)'
  <2> USE <1>6 DEF writeBody, Respond
  <2>0. /\ expected' = expected
        /\ \A g \in Hit : g # h => pc'[g] = pc[g] /\ query'[g] = query[g] /\ page'[g] = page[g]
    BY DEF TypeOK
  <2>1. Handlers'
    BY <2>0, Names, WelcomeStays DEF IInv, TypeOK, Handlers, Once, Winner, Admitted
  <2>2. Once'
    BY <2>0, Names, WelcomeStays DEF IInv, TypeOK, Once, Winner, Handlers
  <2>3. Winner'
    BY <2>0, Names, WelcomeStays DEF IInv, TypeOK, Once, Winner, Handlers, Admitted
  <2>4. Waits'
    <3>1. UNCHANGED <<result, winner, query, wait, got>>
      OBVIOUS
    <3> QED
      BY <3>1 DEF IInv, Waits, Received
  <2> QED
    BY <2>1, <2>2, <2>3, <2>4
<1>7. ASSUME NEW w \in Waiter, BeginWait(w) PROVE (Handlers /\ Once /\ Winner /\ Waits)'
  <2> USE <1>7 DEF BeginWait
  <2>0. UNCHANGED <<expected, pc, query, page>>
    OBVIOUS
  <2>1. Handlers'
    BY <2>0, Names, WelcomeStays DEF IInv, TypeOK, Handlers, Once, Winner, Admitted
  <2>2. Once'
    BY <2>0, Names, WelcomeStays DEF IInv, TypeOK, Once, Winner, Handlers
  <2>3. Winner'
    BY <2>0, Names, WelcomeStays DEF IInv, TypeOK, Once, Winner, Handlers, Admitted
  <2>4. Waits'
    BY Names, EventIn DEF IInv, TypeOK, Waits, Once, Winner, Handlers, Received
  <2> QED
    BY <2>1, <2>2, <2>3, <2>4
<1>8. ASSUME NEW w \in Waiter, Receive(w) PROVE (Handlers /\ Once /\ Winner /\ Waits)'
  <2> USE <1>8 DEF Receive
  <2>0. UNCHANGED <<expected, pc, query, page>>
    OBVIOUS
  <2>1. Handlers'
    BY <2>0, Names, WelcomeStays DEF IInv, TypeOK, Handlers, Once, Winner, Admitted
  <2>2. Once'
    BY <2>0, Names, WelcomeStays DEF IInv, TypeOK, Once, Winner, Handlers
  <2>3. Winner'
    BY <2>0, Names, WelcomeStays DEF IInv, TypeOK, Once, Winner, Handlers, Admitted
  <2>4. Waits'
    BY Names, EventIn DEF IInv, TypeOK, Waits, Once, Winner, Handlers, Received
  <2> QED
    BY <2>1, <2>2, <2>3, <2>4
<1>9. ASSUME NEW w \in Waiter, GiveUp(w) PROVE (Handlers /\ Once /\ Winner /\ Waits)'
  <2> USE <1>9 DEF GiveUp, OnCancel
  <2>0. UNCHANGED <<expected, pc, query, page>>
    OBVIOUS
  <2>1. Handlers'
    BY <2>0, Names, WelcomeStays DEF IInv, TypeOK, Handlers, Once, Winner, Admitted
  <2>2. Once'
    BY <2>0, Names, WelcomeStays DEF IInv, TypeOK, Once, Winner, Handlers
  <2>3. Winner'
    BY <2>0, Names, WelcomeStays DEF IInv, TypeOK, Once, Winner, Handlers, Admitted
  <2>4. Waits'
    BY Names, EventIn DEF IInv, TypeOK, Waits, Once, Winner, Handlers, Received
  <2> QED
    BY <2>1, <2>2, <2>3, <2>4
<1>10. CASE \/ Serve \/ UNCHANGED vars
            \/ \E w \in Waiter : Cancel(w)
            \/ \E c \in Closer : Close(c) \/ Closed(c)
  BY <1>10, IdleStep DEF Serve, Cancel, Close, Closed, Idle
<1> QED
  BY <1>1, <1>2, <1>3, <1>4, <1>5, <1>6, <1>7, <1>8, <1>9, <1>10
     DEF Next, Handle, Select, Terminated

LEMMA Invariant == Spec => []IInv
BY InitInv, InvStep, PTL DEF Spec

-----------------------------------------------------------------------------

\* The server's state keeps its type for any number of requests, Waits and Closes
\* (callback.go:65-180).
THEOREM TypeCorrect == Spec => []TypeOK
<1>1. IInv => TypeOK
  BY DEF IInv
<1> QED
  BY <1>1, Invariant, PTL

\* One event, delivered to one Wait, before any browser is told that the login is
\* complete (callback.go:112-180).
THEOREM DeliversOnce == Spec => []DeliveredOnce
<1>1. IInv => DeliveredOnce
  <2> SUFFICES ASSUME IInv PROVE OneEvent /\ PageAfterEvent
    BY DEF DeliveredOnce
  <2>1. \A w \in Waiter : Cardinality({w}) = 1
    BY FS_Singleton
  <2>2. OneEvent
    BY <2>1 DEF IInv, Waits, OneEvent
  <2> QED
    BY <2>2 DEF IInv, Handlers, PageAfterEvent
<1> QED
  BY <1>1, Invariant, PTL

\* Only a request with the expected state consumes the login (callback.go:145-150).
THEOREM ConsumedByOurLogin == Spec => []OnlyOurLogin
<1>1. IInv => OnlyOurLogin
  BY DEF IInv, Winner, Welcome, Admits, VerifyState, OnlyOurLogin
<1> QED
  BY <1>1, Invariant, PTL
=============================================================================
