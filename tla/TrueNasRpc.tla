------------------------------ MODULE TrueNasRpc ------------------------------
(***************************************************************************)
(* TrueNASRpcClient: the one websocket over which all coroutines of a      *)
(* container talk to TrueNAS.  A call holds the client's lock, reuses the  *)
(* connection or opens one and logs in, sends its request and waits for    *)
(* the answer.  An error answer ends the call; a timeout or a lost         *)
(* connection closes the connection and the call is made once more.        *)
(*                                                                         *)
(* TrueNAS deals with a request whenever it comes to it.  It does not      *)
(* know that the client has given up: a request on a closed connection     *)
(* may still be executed.  While there is trouble connections break,       *)
(* answers take longer than the timeout and requests are refused.          *)
(***************************************************************************)
EXTENDS Naturals, Sequences

CONSTANTS
    Calls,      \* the calls the coroutines make, each once
    Creating    \* those TrueNAS refuses when repeated

Attempts == {0, 1}
NoConnection == 0

ASSUME CallsAssumption == Creating \subseteq Calls

VARIABLES
    lock,        \* holder of self._lock, then the waiting calls in their order
    phase,       \* call -> where it is
    attempt,     \* call -> the attempt it is at
    connection,  \* self._connection
    opened,      \* number of connections so far; the last one is the current
    alive,       \* the current connection is up at both ends
    trusted,     \* the connections TrueNAS has authenticated
    requests,    \* what TrueNAS has yet to deal with
    answers,     \* what is on its way back over the current connection
    sent,        \* history: call -> attempts whose request went out
    done,        \* history: call -> attempts that took effect
    trouble      \* TrueNAS or the network misbehaves

link == <<connection, opened, alive, trusted>>
wire == <<requests, answers, sent, done>>
vars == <<lock, phase, attempt, link, wire, trouble>>

Ended == {"returned", "raised"}

(* A request: the login of a connection, or an attempt of a call.          *)
Login(c, k) == [kind |-> "login", call |-> c, attempt |-> attempt[c], over |-> k]
Work(c, k) == [kind |-> "work", call |-> c, attempt |-> attempt[c], over |-> k]

Answer(r, verdict) == [request |-> r, verdict |-> verdict]

Requests == [kind : {"login", "work"}, call : Calls, attempt : Attempts, over : Nat]

TypeOK ==
    /\ lock \in Seq(Calls)
    /\ phase \in [Calls -> {"new", "waiting", "login", "asking"} \cup Ended]
    /\ attempt \in [Calls -> Attempts]
    /\ connection \in Nat /\ opened \in Nat
    /\ alive \in BOOLEAN /\ trusted \subseteq Nat
    /\ requests \subseteq Requests
    /\ answers \subseteq [request : Requests, verdict : {"result", "refused", "error"}]
    /\ sent \in [Calls -> SUBSET Attempts]
    /\ done \in [Calls -> SUBSET Attempts]
    /\ trouble \in BOOLEAN

Init ==
    /\ lock = <<>>
    /\ phase = [c \in Calls |-> "new"]
    /\ attempt = [c \in Calls |-> 0]
    /\ connection = NoConnection /\ opened = 0
    /\ alive = FALSE /\ trusted = {}
    /\ requests = {} /\ answers = {}
    /\ sent = [c \in Calls |-> {}]
    /\ done = [c \in Calls |-> {}]
    /\ trouble = TRUE
-----------------------------------------------------------------------------
(* The client.                                                             *)

Holds(c) == lock # <<>> /\ Head(lock) = c

(* async with self._lock: waiters get it in the order in which they came.  *)
Call(c) ==
    /\ phase[c] = "new"
    /\ lock' = Append(lock, c)
    /\ phase' = [phase EXCEPT ![c] = "waiting"]
    /\ UNCHANGED <<attempt, link, wire, trouble>>

(* The call ends and the lock goes to the next one.                        *)
End(c, outcome) ==
    /\ phase' = [phase EXCEPT ![c] = outcome]
    /\ lock' = Tail(lock)
    /\ UNCHANGED attempt

(* Mutant of Close: the connection is closed but not forgotten.            *)
Close_Remembered ==
    /\ alive' = FALSE /\ UNCHANGED connection
    /\ answers' = {}
    /\ requests' = {r \in requests : r.kind = "work"}
    /\ UNCHANGED <<opened, trusted, sent, done>>

(* close.  A login that is still under way comes to nothing.               *)
Close ==
    /\ connection' = NoConnection /\ alive' = FALSE
    /\ answers' = {}
    /\ requests' = {r \in requests : r.kind = "work"}
    /\ UNCHANGED <<opened, trusted, sent, done>>

(* _exchange sends the request of the call.                                *)
Send(c, k) ==
    /\ phase' = [phase EXCEPT ![c] = "asking"]
    /\ sent' = [sent EXCEPT ![c] = @ \cup {attempt[c]}]
    /\ requests' = requests \cup {Work(c, k)}

(* _open: connect, remember the connection, and send the login over it.    *)
Open(c) ==
    /\ Holds(c) /\ phase[c] = "waiting"
    /\ connection = NoConnection
    /\ connection' = opened + 1 /\ opened' = opened + 1
    /\ alive' = TRUE
    /\ phase' = [phase EXCEPT ![c] = "login"]
    /\ requests' = requests \cup {Login(c, opened + 1)}
    /\ UNCHANGED <<lock, attempt, trusted, answers, sent, done, trouble>>

(* connection = self._connection or await self._open()                     *)
Reuse(c) ==
    /\ Holds(c) /\ phase[c] = "waiting"
    /\ connection # NoConnection /\ alive
    /\ Send(c, connection)
    /\ UNCHANGED <<lock, attempt, link, answers, done, trouble>>

(* The answer with the id of the request the call waits for; any other     *)
(* message is passed over.                                                 *)
Received(c, r, verdict) ==
    /\ Answer(r, verdict) \in answers
    /\ answers' = answers \ {Answer(r, verdict)}

LoggedIn(c) ==
    /\ phase[c] = "login" /\ alive
    /\ Received(c, Login(c, connection), "result")
    /\ Send(c, connection)
    /\ UNCHANGED <<lock, attempt, link, done, trouble>>

(* response_type is not SUCCESS: close and BackendError.                   *)
LoginRefused(c) ==
    /\ phase[c] = "login"
    /\ Answer(Login(c, connection), "refused") \in answers
    /\ Close
    /\ End(c, "raised")
    /\ UNCHANGED trouble

(* The login is answered with an error: BackendError leaves _open and call *)
(* while self._connection is already set.                                  *)
LoginError(c) ==
    /\ phase[c] = "login"
    /\ Received(c, Login(c, connection), "error")
    /\ End(c, "raised")
    /\ UNCHANGED <<link, requests, sent, done, trouble>>

(* The answer has a result: call returns it.                               *)
Return(c) ==
    /\ phase[c] = "asking"
    /\ Received(c, Work(c, connection), "result")
    /\ End(c, "returned")
    /\ UNCHANGED <<link, requests, sent, done, trouble>>

(* Mutant of Error: the error in the answer is not looked for.             *)
Error_Unseen(c) ==
    /\ phase[c] = "asking"
    /\ Received(c, Work(c, connection), "error")
    /\ End(c, "returned")
    /\ UNCHANGED <<link, requests, sent, done, trouble>>

(* The answer has an error: BackendError, which call does not catch.       *)
Error(c) ==
    /\ phase[c] = "asking"
    /\ Received(c, Work(c, connection), "error")
    /\ End(c, "raised")
    /\ UNCHANGED <<link, requests, sent, done, trouble>>

(* The call is made once more, or given up after the second attempt.       *)
Again(c) ==
    IF attempt[c] = 0
    THEN /\ attempt' = [attempt EXCEPT ![c] = 1]
         /\ phase' = [phase EXCEPT ![c] = "waiting"]
         /\ UNCHANGED lock
    ELSE End(c, "raised")

Lost == connection # NoConnection /\ ~alive

(* Mutant of Interrupt: after a timeout the connection is used again.      *)
Interrupt_KeepsConnection(c) ==
    /\ Holds(c) /\ phase[c] \in {"waiting", "login", "asking"}
    /\ \/ Lost /\ Close
       \/ trouble /\ phase[c] # "waiting" /\ UNCHANGED <<link, wire>>
    /\ Again(c)
    /\ UNCHANGED trouble

(* Mutant of Interrupt: there is no timeout.                               *)
Interrupt_OnlyLost(c) ==
    /\ Holds(c) /\ phase[c] \in {"waiting", "login", "asking"}
    /\ Lost \/ (trouble /\ connection = NoConnection)
    /\ Close
    /\ Again(c)
    /\ UNCHANGED trouble

(* Any other exception: connect fails, the connection turns out to be      *)
(* lost, or the answer takes longer than the timeout.  The connection is   *)
(* closed.                                                                 *)
Interrupt(c) ==
    /\ Holds(c) /\ phase[c] \in {"waiting", "login", "asking"}
    /\ \/ Lost
       \/ trouble /\ (connection = NoConnection \/ phase[c] # "waiting")
    /\ Close
    /\ Again(c)
    /\ UNCHANGED trouble
-----------------------------------------------------------------------------
(* TrueNAS and the network.                                                *)

(* An answer reaches the client over the connection of its request.        *)
Reply(r, verdict) ==
    answers' = IF r.over = connection /\ alive
               THEN answers \cup {Answer(r, verdict)} ELSE answers

Settle(r) == r \in requests /\ requests' = requests \ {r}

Authenticate(r) ==
    /\ r.kind = "login" /\ r.over = connection /\ alive
    /\ Settle(r) /\ Reply(r, "result")
    /\ trusted' = trusted \cup {r.over}
    /\ UNCHANGED <<lock, phase, attempt, connection, opened, alive, sent, done, trouble>>

(* A rate limit, a login before the middleware is up, a revoked key.       *)
RefuseLogin(r) ==
    /\ trouble
    /\ r.kind = "login"
    /\ Settle(r)
    /\ \E verdict \in {"refused", "error"} : Reply(r, verdict)
    /\ UNCHANGED <<lock, phase, attempt, link, sent, done, trouble>>

(* A clone or snapshot that already exists is not created again; reads,    *)
(* updates and rollbacks are simply done again.                            *)
Repeated(r) == r.call \in Creating /\ done[r.call] # {}

Execute(r) ==
    /\ r.kind = "work" /\ r.over \in trusted /\ ~Repeated(r)
    /\ Settle(r) /\ Reply(r, "result")
    /\ done' = [done EXCEPT ![r.call] = @ \cup {r.attempt}]
    /\ UNCHANGED <<lock, phase, attempt, link, sent, trouble>>

Reject(r) ==
    /\ r.kind = "work"
    /\ r.over \notin trusted \/ Repeated(r) \/ trouble
    /\ Settle(r) /\ Reply(r, "error")
    /\ UNCHANGED <<lock, phase, attempt, link, sent, done, trouble>>

(* The connection breaks, with all that is on its way back.                *)
Break ==
    /\ trouble /\ connection # NoConnection /\ alive
    /\ alive' = FALSE
    /\ answers' = {}
    /\ UNCHANGED <<lock, phase, attempt, connection, opened, trusted, requests, sent, done, trouble>>

Recover ==
    /\ trouble /\ trouble' = FALSE
    /\ UNCHANGED <<lock, phase, attempt, link, wire>>

-----------------------------------------------------------------------------
Client(c) ==
    \/ Open(c) \/ Reuse(c) \/ LoggedIn(c) \/ LoginRefused(c) \/ LoginError(c)
    \/ Return(c) \/ Error(c) \/ Interrupt(c)

Server(r) == Authenticate(r) \/ Execute(r) \/ Reject(r)

Next ==
    \/ \E c \in Calls : Call(c) \/ Client(c)
    \/ \E r \in requests : Server(r) \/ RefuseLogin(r)
    \/ Break \/ Recover

Spec == Init /\ [][Next]_vars

(* The event loop keeps every coroutine going and a timeout ends every     *)
(* wait; TrueNAS answers as long as there is no trouble.                   *)
FairSpec ==
    /\ Spec
    /\ \A c \in Calls : WF_vars(Call(c)) /\ WF_vars(Client(c))
    /\ WF_vars(~trouble /\ \E r \in requests : Server(r))
-----------------------------------------------------------------------------
(* Properties.                                                             *)

(* Whatever is under way over the connection belongs to the exchange the   *)
(* holder of the lock waits for: a call that was given up leaves nothing   *)
(* behind that a later call could take for its answer, or that TrueNAS     *)
(* could still execute over a connection the service goes on using.        *)
Awaited(r) ==
    /\ Holds(r.call) /\ r.attempt = attempt[r.call]
    /\ phase[r.call] = IF r.kind = "login" THEN "login" ELSE "asking"
ConnectionClean ==
    /\ \A r \in requests : r.over = connection => Awaited(r)
    /\ \A x \in answers : x.request.over = connection /\ Awaited(x.request)

Outcome ==
    [c \in Calls |-> IF phase[c] \in Ended \cup {"new"} THEN phase[c] ELSE "running"]
Loose ==
    [c \in Calls |-> {a \in Attempts : \E r \in requests :
                         r.kind = "work" /\ r.call = c /\ r.attempt = a}]

(* A call is what StorageCall promises: returned means done, at most one   *)
(* effect per attempt, and none after the end unless an attempt was given  *)
(* up.                                                                     *)
Contract == INSTANCE StorageCall
    WITH outcome <- Outcome, loose <- Loose, effects <- done
ImplementsStorageCall == Contract!Spec

(* No call waits for ever, neither for the lock nor for TrueNAS.           *)
CallsEnd == \A c \in Calls : phase[c] = "waiting" ~> phase[c] \in Ended

(* A login answered with an error leaves a connection that is never        *)
(* authenticated; TrueNAS refuses everything over it and it stays until it *)
(* breaks.                                                                 *)
LeftUnauthenticated ==
    /\ connection # NoConnection /\ alive /\ connection \notin trusted
    /\ \A c \in Calls : phase[c] # "login"

(* When the trouble is over every further call succeeds, whatever it did   *)
(* to the connection and to the calls before, with that one exception.     *)
Recovers ==
    \A c \in Calls :
        phase[c] = "new" /\ ~trouble ~> phase[c] = "returned" \/ LeftUnauthenticated
=============================================================================
