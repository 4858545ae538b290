--------------------------- MODULE TrueNasRpcProofs ---------------------------
(***************************************************************************)
(* The calls to TrueNAS, for any number of calls and whatever breaks.      *)
(***************************************************************************)
EXTENDS TrueNasRpc, SequenceTheorems, TLAPS

(* Only the holder of the lock uses the connection.                        *)
Exclusive == \A c \in Calls : phase[c] \in {"login", "asking"} => Holds(c)

(* Connections are numbered in the order in which they were opened.        *)
Numbered ==
    /\ connection \in {NoConnection, opened}
    /\ \A r \in requests : 0 < r.over /\ r.over <= opened
    /\ \A x \in answers : 0 < x.request.over

(* What was sent of a call, and when its next attempt has not been sent.   *)
History ==
    \A c \in Calls :
        /\ phase[c] = "new" => attempt[c] = 0 /\ sent[c] = {}
        /\ phase[c] \in {"waiting", "login"} => attempt[c] \notin sent[c]
        /\ attempt[c] = 0 => 1 \notin sent[c]
        /\ done[c] \subseteq sent[c]

(* A request is one of a kind and has not taken effect.                    *)
Undecided ==
    \A r \in requests : r.kind = "work" =>
        /\ r.attempt \in sent[r.call] /\ r.attempt \notin done[r.call]
        /\ \A s \in requests :
              s.kind = "work" /\ s.call = r.call /\ s.attempt = r.attempt => s = r

(* One answer is on its way, its request is settled, and has taken effect  *)
(* if it succeeded.                                                        *)
Answered ==
    \A x \in answers :
        /\ x.request \notin requests
        /\ \A y \in answers : y = x
        /\ x.request.kind = "work" =>
              /\ x.verdict = "result" => x.request.attempt \in done[x.request.call]
              /\ \A r \in requests : r.kind = "work" /\ r.call = x.request.call
                                        => r.attempt # x.request.attempt

Inv == TypeOK /\ Exclusive /\ Numbered /\ ConnectionClean /\ History /\ Undecided /\ Answered
-----------------------------------------------------------------------------
(* The holder waits for one thing at a time.                               *)
LEMMA SameExchange ==
    ASSUME NEW r \in Requests, NEW s \in Requests,
           r.over = s.over, Awaited(r), Awaited(s)
    PROVE  r = s
BY DEF Requests, Awaited, Holds

LEMMA AnswerIsLast ==
    ASSUME Inv, NEW x \in answers
    PROVE  /\ answers \ {x} = {}
           /\ \A r \in requests : r.over # connection
           /\ x.request \in Requests /\ Awaited(x.request)
<1>1. \A r \in requests : r.over # connection
  BY SameExchange DEF Inv, TypeOK, ConnectionClean, Answered
<1> QED
  BY <1>1 DEF Inv, TypeOK, ConnectionClean, Answered

LEMMA RequestIsUnanswered ==
    ASSUME Inv, NEW r \in requests, r.over = connection
    PROVE  answers = {} /\ Awaited(r)
<1>1. \A x \in answers : x.request = r
  BY SameExchange DEF Inv, TypeOK, ConnectionClean
<1> QED
  BY <1>1 DEF Inv, ConnectionClean, Answered
-----------------------------------------------------------------------------
(* Type correctness.                                                       *)

LEMMA RequestTypes ==
    ASSUME TypeOK, NEW c \in Calls, NEW k \in Nat
    PROVE  Login(c, k) \in Requests /\ Work(c, k) \in Requests
BY DEF TypeOK, Login, Work, Requests

LEMMA EndTypes ==
    ASSUME TypeOK, NEW c \in Calls, NEW o \in Ended, lock # <<>>, End(c, o)
    PROVE  /\ lock' \in Seq(Calls) /\ attempt' \in [Calls -> Attempts]
           /\ phase' \in [Calls -> {"new", "waiting", "login", "asking"} \cup Ended]
BY DEF TypeOK, End

LEMMA CloseTypes ==
    ASSUME TypeOK, Close
    PROVE  /\ connection' \in Nat /\ opened' \in Nat
           /\ alive' \in BOOLEAN /\ trusted' \subseteq Nat
           /\ requests' \subseteq Requests
           /\ answers' \subseteq [request : Requests, verdict : {"result", "refused", "error"}]
           /\ sent' \in [Calls -> SUBSET Attempts] /\ done' \in [Calls -> SUBSET Attempts]
BY DEF TypeOK, Close, NoConnection

LEMMA ReplyTypes ==
    ASSUME TypeOK, NEW r \in Requests, NEW v \in {"result", "refused", "error"}, Reply(r, v)
    PROVE  answers' \subseteq [request : Requests, verdict : {"result", "refused", "error"}]
BY DEF TypeOK, Reply, Answer
-----------------------------------------------------------------------------
(* The invariant.                                                          *)

USE DEF Attempts, NoConnection, Ended

LEMMA CallPreserves ==
    ASSUME Inv, NEW c \in Calls, Call(c)
    PROVE  Inv'
<1>1. TypeOK'
  BY DEF Inv, TypeOK, Call, link, wire
<1>2. Exclusive'
  BY DEF Inv, Exclusive, TypeOK, Holds, Call, link, wire
<1>3. Numbered'
  BY DEF Inv, Numbered, TypeOK, Requests, Call, link, wire
<1>4. ConnectionClean'
  BY DEF Inv, ConnectionClean, Awaited, Exclusive, Numbered, Holds, TypeOK,
        Requests, Call, link, wire
<1>5. History'
  BY DEF Inv, History, TypeOK, Call, link, wire
<1>6. Undecided'
  BY DEF Inv, Undecided, History, TypeOK, Requests, Exclusive, Holds, Call,
        link, wire
<1>7. Answered'
  BY DEF Inv, Answered, Undecided, History, TypeOK, Requests,
        ConnectionClean, Awaited, Exclusive, Holds, Numbered, Call, link,
        wire
<1> QED
  BY <1>1, <1>2, <1>3, <1>4, <1>5, <1>6, <1>7 DEF Inv

LEMMA OpenPreserves ==
    ASSUME Inv, NEW c \in Calls, Open(c)
    PROVE  Inv'
<1>1. TypeOK'
  BY RequestTypes DEF Inv, TypeOK, Open, Login
<1>2. Exclusive'
  BY DEF Inv, Exclusive, TypeOK, Holds, Open, Login
<1>3. Numbered'
  BY DEF Inv, Numbered, TypeOK, Requests, Open, Login
<1>4. ConnectionClean'
  BY DEF Inv, ConnectionClean, Awaited, Exclusive, Numbered, Holds, TypeOK,
        Requests, Open, Login
<1>5. History'
  BY DEF Inv, History, TypeOK, Open, Login
<1>6. Undecided'
  BY DEF Inv, Undecided, History, TypeOK, Requests, Exclusive, Holds, Open,
        Login
<1>7. Answered'
  BY DEF Inv, Answered, Undecided, History, TypeOK, Requests,
        ConnectionClean, Awaited, Exclusive, Holds, Numbered, Open, Login
<1> QED
  BY <1>1, <1>2, <1>3, <1>4, <1>5, <1>6, <1>7 DEF Inv

LEMMA ReusePreserves ==
    ASSUME Inv, NEW c \in Calls, Reuse(c)
    PROVE  Inv'
<1>1. TypeOK'
  BY RequestTypes DEF Inv, TypeOK, Reuse, Send, Work, link
<1>2. Exclusive'
  BY DEF Inv, Exclusive, TypeOK, Holds, Reuse, Send, Work, link
<1>3. Numbered'
  BY DEF Inv, Numbered, TypeOK, Requests, Reuse, Send, Work, link
<1>4. ConnectionClean'
  BY DEF Inv, ConnectionClean, Awaited, Exclusive, Numbered, Holds, TypeOK,
        Requests, Reuse, Send, Work, link
<1>5. History'
  BY DEF Inv, History, TypeOK, Reuse, Send, Work, link
<1>6. Undecided'
  BY DEF Inv, Undecided, History, TypeOK, Requests, Exclusive, Holds, Reuse,
        Send, Work, link
<1>7. Answered'
  BY DEF Inv, Answered, Undecided, History, TypeOK, Requests,
        ConnectionClean, Awaited, Exclusive, Holds, Numbered, Reuse, Send,
        Work, link
<1> QED
  BY <1>1, <1>2, <1>3, <1>4, <1>5, <1>6, <1>7 DEF Inv

LEMMA LoggedInPreserves ==
    ASSUME Inv, NEW c \in Calls, LoggedIn(c)
    PROVE  Inv'
<1>1. TypeOK'
  BY RequestTypes DEF Inv, TypeOK, LoggedIn, Received, Answer, Login, Send,
        Work, link
<1>2. Exclusive'
  BY DEF Inv, Exclusive, TypeOK, Holds, LoggedIn, Received, Answer, Login,
        Send, Work, link
<1>3. Numbered'
  BY DEF Inv, Numbered, TypeOK, Requests, LoggedIn, Received, Answer, Login,
        Send, Work, link
<1>4. ConnectionClean'
  BY AnswerIsLast DEF Inv, ConnectionClean, Awaited, Exclusive, Numbered,
        Holds, TypeOK, Requests, LoggedIn, Received, Answer, Login, Send,
        Work, link
<1>5. History'
  BY DEF Inv, History, TypeOK, LoggedIn, Received, Answer, Login, Send, Work,
        link
<1>6. Undecided'
  BY DEF Inv, Undecided, History, TypeOK, Requests, Exclusive, Holds,
        LoggedIn, Received, Answer, Login, Send, Work, link
<1>7. Answered'
  BY AnswerIsLast DEF Inv, Answered, Undecided, History, TypeOK, Requests,
        ConnectionClean, Awaited, Exclusive, Holds, Numbered, LoggedIn,
        Received, Answer, Login, Send, Work, link
<1> QED
  BY <1>1, <1>2, <1>3, <1>4, <1>5, <1>6, <1>7 DEF Inv

LEMMA LoginRefusedPreserves ==
    ASSUME Inv, NEW c \in Calls, LoginRefused(c)
    PROVE  Inv'
<1>1. TypeOK'
  <2>1. TypeOK /\ lock # <<>>
    BY DEF Inv, Exclusive, Holds, LoginRefused, Close, End, Answer, Login
  <2>2. /\ lock' \in Seq(Calls) /\ attempt' \in [Calls -> Attempts]
        /\ phase' \in [Calls -> {"new", "waiting", "login", "asking"} \cup Ended]
    BY <2>1, EndTypes DEF TypeOK, LoginRefused
  <2> QED
    BY <2>1, <2>2, CloseTypes DEF TypeOK, LoginRefused, Answer, Login
<1>2. Exclusive'
  BY DEF Inv, Exclusive, TypeOK, Holds, LoginRefused, Close, End, Answer,
        Login
<1>3. Numbered'
  BY DEF Inv, Numbered, TypeOK, Requests, LoginRefused, Close, End, Answer,
        Login
<1>4. ConnectionClean'
  BY DEF Inv, ConnectionClean, Awaited, Exclusive, Numbered, Holds, TypeOK,
        Requests, LoginRefused, Close, End, Answer, Login
<1>5. History'
  BY DEF Inv, History, TypeOK, LoginRefused, Close, End, Answer, Login
<1>6. Undecided'
  BY DEF Inv, Undecided, History, TypeOK, Requests, Exclusive, Holds,
        LoginRefused, Close, End, Answer, Login
<1>7. Answered'
  BY DEF Inv, Answered, Undecided, History, TypeOK, Requests,
        ConnectionClean, Awaited, Exclusive, Holds, Numbered, LoginRefused,
        Close, End, Answer, Login
<1> QED
  BY <1>1, <1>2, <1>3, <1>4, <1>5, <1>6, <1>7 DEF Inv

LEMMA LoginErrorPreserves ==
    ASSUME Inv, NEW c \in Calls, LoginError(c)
    PROVE  Inv'
<1>1. TypeOK'
  <2>1. TypeOK /\ lock # <<>>
    BY DEF Inv, Exclusive, Holds, LoginError, Received, End, Answer, Login, Work, link
  <2>2. /\ lock' \in Seq(Calls) /\ attempt' \in [Calls -> Attempts]
        /\ phase' \in [Calls -> {"new", "waiting", "login", "asking"} \cup Ended]
    BY <2>1, EndTypes DEF TypeOK, LoginError
  <2> QED
    BY <2>1, <2>2, CloseTypes DEF TypeOK, LoginError, Received, Answer, Login, Work, link
<1>2. Exclusive'
  BY DEF Inv, Exclusive, TypeOK, Holds, LoginError, Received, End, Answer,
        Login, Work, link
<1>3. Numbered'
  BY DEF Inv, Numbered, TypeOK, Requests, LoginError, Received, End, Answer,
        Login, Work, link
<1>4. ConnectionClean'
  BY AnswerIsLast DEF Inv, ConnectionClean, Awaited, Exclusive, Numbered,
        Holds, TypeOK, Requests, LoginError, Received, End, Answer, Login,
        Work, link
<1>5. History'
  BY DEF Inv, History, TypeOK, LoginError, Received, End, Answer, Login,
        Work, link
<1>6. Undecided'
  BY DEF Inv, Undecided, History, TypeOK, Requests, Exclusive, Holds,
        LoginError, Received, End, Answer, Login, Work, link
<1>7. Answered'
  BY AnswerIsLast DEF Inv, Answered, Undecided, History, TypeOK, Requests,
        ConnectionClean, Awaited, Exclusive, Holds, Numbered, LoginError,
        Received, End, Answer, Login, Work, link
<1> QED
  BY <1>1, <1>2, <1>3, <1>4, <1>5, <1>6, <1>7 DEF Inv

LEMMA ReturnPreserves ==
    ASSUME Inv, NEW c \in Calls, Return(c)
    PROVE  Inv'
<1>1. TypeOK'
  <2>1. TypeOK /\ lock # <<>>
    BY DEF Inv, Exclusive, Holds, Return, Received, End, Answer, Login, Work, link
  <2>2. /\ lock' \in Seq(Calls) /\ attempt' \in [Calls -> Attempts]
        /\ phase' \in [Calls -> {"new", "waiting", "login", "asking"} \cup Ended]
    BY <2>1, EndTypes DEF TypeOK, Return
  <2> QED
    BY <2>1, <2>2, CloseTypes DEF TypeOK, Return, Received, Answer, Login, Work, link
<1>2. Exclusive'
  BY DEF Inv, Exclusive, TypeOK, Holds, Return, Received, End, Answer, Login,
        Work, link
<1>3. Numbered'
  BY DEF Inv, Numbered, TypeOK, Requests, Return, Received, End, Answer,
        Login, Work, link
<1>4. ConnectionClean'
  BY AnswerIsLast DEF Inv, ConnectionClean, Awaited, Exclusive, Numbered,
        Holds, TypeOK, Requests, Return, Received, End, Answer, Login, Work,
        link
<1>5. History'
  BY DEF Inv, History, TypeOK, Return, Received, End, Answer, Login, Work,
        link
<1>6. Undecided'
  BY DEF Inv, Undecided, History, TypeOK, Requests, Exclusive, Holds, Return,
        Received, End, Answer, Login, Work, link
<1>7. Answered'
  BY AnswerIsLast DEF Inv, Answered, Undecided, History, TypeOK, Requests,
        ConnectionClean, Awaited, Exclusive, Holds, Numbered, Return,
        Received, End, Answer, Login, Work, link
<1> QED
  BY <1>1, <1>2, <1>3, <1>4, <1>5, <1>6, <1>7 DEF Inv

LEMMA ErrorPreserves ==
    ASSUME Inv, NEW c \in Calls, Error(c)
    PROVE  Inv'
<1>1. TypeOK'
  <2>1. TypeOK /\ lock # <<>>
    BY DEF Inv, Exclusive, Holds, Error, Received, End, Answer, Login, Work, link
  <2>2. /\ lock' \in Seq(Calls) /\ attempt' \in [Calls -> Attempts]
        /\ phase' \in [Calls -> {"new", "waiting", "login", "asking"} \cup Ended]
    BY <2>1, EndTypes DEF TypeOK, Error
  <2> QED
    BY <2>1, <2>2, CloseTypes DEF TypeOK, Error, Received, Answer, Login, Work, link
<1>2. Exclusive'
  BY DEF Inv, Exclusive, TypeOK, Holds, Error, Received, End, Answer, Login,
        Work, link
<1>3. Numbered'
  BY DEF Inv, Numbered, TypeOK, Requests, Error, Received, End, Answer,
        Login, Work, link
<1>4. ConnectionClean'
  BY AnswerIsLast DEF Inv, ConnectionClean, Awaited, Exclusive, Numbered,
        Holds, TypeOK, Requests, Error, Received, End, Answer, Login, Work,
        link
<1>5. History'
  BY DEF Inv, History, TypeOK, Error, Received, End, Answer, Login, Work,
        link
<1>6. Undecided'
  BY DEF Inv, Undecided, History, TypeOK, Requests, Exclusive, Holds, Error,
        Received, End, Answer, Login, Work, link
<1>7. Answered'
  BY AnswerIsLast DEF Inv, Answered, Undecided, History, TypeOK, Requests,
        ConnectionClean, Awaited, Exclusive, Holds, Numbered, Error,
        Received, End, Answer, Login, Work, link
<1> QED
  BY <1>1, <1>2, <1>3, <1>4, <1>5, <1>6, <1>7 DEF Inv

LEMMA InterruptPreserves ==
    ASSUME Inv, NEW c \in Calls, Interrupt(c)
    PROVE  Inv'
<1>1. TypeOK'
  <2>1. TypeOK /\ lock # <<>>
    BY DEF Inv, Exclusive, Holds, Interrupt, Lost, Close, Again, End
  <2>2. /\ lock' \in Seq(Calls) /\ attempt' \in [Calls -> Attempts]
        /\ phase' \in [Calls -> {"new", "waiting", "login", "asking"} \cup Ended]
    BY <2>1, EndTypes DEF TypeOK, Interrupt, Again
  <2> QED
    BY <2>1, <2>2, CloseTypes DEF TypeOK, Interrupt, Lost, Again, End
<1>2. Exclusive'
  BY DEF Inv, Exclusive, TypeOK, Holds, Interrupt, Lost, Close, Again, End
<1>3. Numbered'
  BY DEF Inv, Numbered, TypeOK, Requests, Interrupt, Lost, Close, Again, End
<1>4. ConnectionClean'
  BY DEF Inv, ConnectionClean, Awaited, Exclusive, Numbered, Holds, TypeOK,
        Requests, Interrupt, Lost, Close, Again, End
<1>5. History'
  BY DEF Inv, History, TypeOK, Interrupt, Lost, Close, Again, End
<1>6. Undecided'
  BY DEF Inv, Undecided, History, TypeOK, Requests, Exclusive, Holds,
        Interrupt, Lost, Close, Again, End
<1>7. Answered'
  BY DEF Inv, Answered, Undecided, History, TypeOK, Requests,
        ConnectionClean, Awaited, Exclusive, Holds, Numbered, Interrupt,
        Lost, Close, Again, End
<1> QED
  BY <1>1, <1>2, <1>3, <1>4, <1>5, <1>6, <1>7 DEF Inv

LEMMA AuthenticatePreserves ==
    ASSUME Inv, NEW r \in requests, Authenticate(r)
    PROVE  Inv'
<1>1. TypeOK'
  BY ReplyTypes DEF Inv, TypeOK, Authenticate, Settle, Reply, Answer, link
<1>2. Exclusive'
  BY DEF Inv, Exclusive, TypeOK, Holds, Authenticate, Settle, Reply, Answer,
        link
<1>3. Numbered'
  BY DEF Inv, Numbered, TypeOK, Requests, Authenticate, Settle, Reply,
        Answer, link
<1>4. ConnectionClean'
  BY RequestIsUnanswered DEF Inv, ConnectionClean, Awaited, Exclusive,
        Numbered, Holds, TypeOK, Requests, Authenticate, Settle, Reply,
        Answer, link
<1>5. History'
  BY DEF Inv, History, TypeOK, Authenticate, Settle, Reply, Answer, link
<1>6. Undecided'
  BY DEF Inv, Undecided, History, TypeOK, Requests, Exclusive, Holds,
        Authenticate, Settle, Reply, Answer, link
<1>7. Answered'
  BY RequestIsUnanswered DEF Inv, Answered, Undecided, History, TypeOK,
        Requests, ConnectionClean, Awaited, Exclusive, Holds, Numbered,
        Authenticate, Settle, Reply, Answer, link
<1> QED
  BY <1>1, <1>2, <1>3, <1>4, <1>5, <1>6, <1>7 DEF Inv

LEMMA RefuseLoginPreserves ==
    ASSUME Inv, NEW r \in requests, RefuseLogin(r)
    PROVE  Inv'
<1>1. TypeOK'
  BY ReplyTypes DEF Inv, TypeOK, RefuseLogin, Settle, Reply, Answer, link
<1>2. Exclusive'
  BY DEF Inv, Exclusive, TypeOK, Holds, RefuseLogin, Settle, Reply, Answer,
        link
<1>3. Numbered'
  BY DEF Inv, Numbered, TypeOK, Requests, RefuseLogin, Settle, Reply, Answer,
        link
<1>4. ConnectionClean'
  BY RequestIsUnanswered DEF Inv, ConnectionClean, Awaited, Exclusive,
        Numbered, Holds, TypeOK, Requests, RefuseLogin, Settle, Reply,
        Answer, link
<1>5. History'
  BY DEF Inv, History, TypeOK, RefuseLogin, Settle, Reply, Answer, link
<1>6. Undecided'
  BY DEF Inv, Undecided, History, TypeOK, Requests, Exclusive, Holds,
        RefuseLogin, Settle, Reply, Answer, link
<1>7. Answered'
  BY RequestIsUnanswered DEF Inv, Answered, Undecided, History, TypeOK,
        Requests, ConnectionClean, Awaited, Exclusive, Holds, Numbered,
        RefuseLogin, Settle, Reply, Answer, link
<1> QED
  BY <1>1, <1>2, <1>3, <1>4, <1>5, <1>6, <1>7 DEF Inv

LEMMA ExecutePreserves ==
    ASSUME Inv, NEW r \in requests, Execute(r)
    PROVE  Inv'
<1>1. TypeOK'
  BY ReplyTypes DEF Inv, TypeOK, Execute, Settle, Reply, Answer, link,
        Requests, Undecided
<1>2. Exclusive'
  BY DEF Inv, Exclusive, TypeOK, Holds, Execute, Settle, Reply, Answer, link,
        Requests, Undecided
<1>3. Numbered'
  BY DEF Inv, Numbered, TypeOK, Requests, Execute, Settle, Reply, Answer,
        link, Undecided
<1>4. ConnectionClean'
  BY RequestIsUnanswered DEF Inv, ConnectionClean, Awaited, Exclusive,
        Numbered, Holds, TypeOK, Requests, Execute, Settle, Reply, Answer,
        link, Undecided
<1>5. History'
  BY DEF Inv, History, TypeOK, Execute, Settle, Reply, Answer, link,
        Requests, Undecided
<1>6. Undecided'
  BY DEF Inv, Undecided, History, TypeOK, Requests, Exclusive, Holds,
        Execute, Settle, Reply, Answer, link
<1>7. Answered'
  BY RequestIsUnanswered DEF Inv, Answered, Undecided, History, TypeOK,
        Requests, ConnectionClean, Awaited, Exclusive, Holds, Numbered,
        Execute, Settle, Reply, Answer, link
<1> QED
  BY <1>1, <1>2, <1>3, <1>4, <1>5, <1>6, <1>7 DEF Inv

LEMMA RejectPreserves ==
    ASSUME Inv, NEW r \in requests, Reject(r)
    PROVE  Inv'
<1>1. TypeOK'
  BY ReplyTypes DEF Inv, TypeOK, Reject, Settle, Reply, Answer, link
<1>2. Exclusive'
  BY DEF Inv, Exclusive, TypeOK, Holds, Reject, Settle, Reply, Answer, link
<1>3. Numbered'
  BY DEF Inv, Numbered, TypeOK, Requests, Reject, Settle, Reply, Answer,
        link
<1>4. ConnectionClean'
  BY RequestIsUnanswered DEF Inv, ConnectionClean, Awaited, Exclusive,
        Numbered, Holds, TypeOK, Requests, Reject, Settle, Reply, Answer,
        link
<1>5. History'
  BY DEF Inv, History, TypeOK, Reject, Settle, Reply, Answer, link
<1>6. Undecided'
  BY DEF Inv, Undecided, History, TypeOK, Requests, Exclusive, Holds, Reject,
        Settle, Reply, Answer, link
<1>7. Answered'
  BY RequestIsUnanswered DEF Inv, Answered, Undecided, History, TypeOK,
        Requests, ConnectionClean, Awaited, Exclusive, Holds, Numbered,
        Reject, Settle, Reply, Answer, link
<1> QED
  BY <1>1, <1>2, <1>3, <1>4, <1>5, <1>6, <1>7 DEF Inv

LEMMA BreakPreserves ==
    ASSUME Inv, Break
    PROVE  Inv'
<1>1. TypeOK'
  BY DEF Inv, TypeOK, Break
<1>2. Exclusive'
  BY DEF Inv, Exclusive, TypeOK, Holds, Break
<1>3. Numbered'
  BY DEF Inv, Numbered, TypeOK, Requests, Break
<1>4. ConnectionClean'
  BY DEF Inv, ConnectionClean, Awaited, Exclusive, Numbered, Holds, TypeOK,
        Requests, Break
<1>5. History'
  BY DEF Inv, History, TypeOK, Break
<1>6. Undecided'
  BY DEF Inv, Undecided, History, TypeOK, Requests, Exclusive, Holds, Break
<1>7. Answered'
  BY DEF Inv, Answered, Undecided, History, TypeOK, Requests,
        ConnectionClean, Awaited, Exclusive, Holds, Numbered, Break
<1> QED
  BY <1>1, <1>2, <1>3, <1>4, <1>5, <1>6, <1>7 DEF Inv

LEMMA RecoverPreserves ==
    ASSUME Inv, Recover
    PROVE  Inv'
<1>1. TypeOK'
  BY DEF Inv, TypeOK, Recover, link, wire
<1>2. Exclusive'
  BY DEF Inv, Exclusive, TypeOK, Holds, Recover, link, wire
<1>3. Numbered'
  BY DEF Inv, Numbered, TypeOK, Requests, Recover, link, wire
<1>4. ConnectionClean'
  BY DEF Inv, ConnectionClean, Awaited, Exclusive, Numbered, Holds, TypeOK,
        Requests, Recover, link, wire
<1>5. History'
  BY DEF Inv, History, TypeOK, Recover, link, wire
<1>6. Undecided'
  BY DEF Inv, Undecided, History, TypeOK, Requests, Exclusive, Holds,
        Recover, link, wire
<1>7. Answered'
  BY DEF Inv, Answered, Undecided, History, TypeOK, Requests,
        ConnectionClean, Awaited, Exclusive, Holds, Numbered, Recover, link,
        wire
<1> QED
  BY <1>1, <1>2, <1>3, <1>4, <1>5, <1>6, <1>7 DEF Inv

LEMMA InitInv == Init => Inv
<1> SUFFICES ASSUME Init PROVE Inv
  OBVIOUS
<1>1. TypeOK
  BY <<>> \in Seq(Calls) DEF Init, TypeOK
<1>2. Exclusive /\ Numbered
  BY DEF Init, Exclusive, Numbered, Holds
<1>3. ConnectionClean
  BY DEF Init, ConnectionClean
<1>4. History /\ Undecided /\ Answered
  BY DEF Init, History, Undecided, Answered
<1> QED
  BY <1>1, <1>2, <1>3, <1>4 DEF Inv

LEMMA NextInv ==
    ASSUME Inv, [Next]_vars
    PROVE  Inv'
<1>1. ASSUME NEW c \in Calls, Call(c) \/ Client(c) PROVE Inv'
  BY <1>1, CallPreserves, OpenPreserves, ReusePreserves, LoggedInPreserves,
     LoginRefusedPreserves, LoginErrorPreserves, ReturnPreserves, ErrorPreserves,
     InterruptPreserves DEF Client
<1>2. ASSUME NEW r \in requests, Server(r) \/ RefuseLogin(r) PROVE Inv'
  BY <1>2, AuthenticatePreserves, ExecutePreserves, RejectPreserves,
     RefuseLoginPreserves DEF Server
<1>3. CASE UNCHANGED vars
  BY <1>3 DEF Inv, TypeOK, Exclusive, Numbered, ConnectionClean, Awaited, Holds,
              History, Undecided, Answered, vars, link, wire
<1> QED
  BY <1>1, <1>2, <1>3, BreakPreserves, RecoverPreserves DEF Next

LEMMA Invariance == Spec => []Inv
BY InitInv, NextInv, PTL DEF Spec

(* The state of the client, of the websocket and of TrueNAS is always one  *)
(* of those the specification declares.                                    *)
THEOREM TypeCorrect == Spec => []TypeOK
BY Invariance, PTL DEF Inv

(* Nothing of a call that was given up is under way over the connection    *)
(* that later calls use (call, close).                                     *)
THEOREM ConnectionStaysClean == Spec => []ConnectionClean
BY Invariance, PTL DEF Inv
-----------------------------------------------------------------------------
(* Refinement of StorageCall.                                              *)

(* Nothing happened to the calls as StorageCall sees them.                 *)
Unseen == UNCHANGED <<Outcome, sent, Loose, done>>

Requested(s, d, a) == \E r \in s : r.kind = "work" /\ r.call = d /\ r.attempt = a

LEMMA LooseIsFunction ==
    Loose = [c \in Calls |-> Loose[c]] /\ Loose' = [c \in Calls |-> Loose'[c]]
BY DEF Loose

LEMMA LooseAfterSend ==
    ASSUME Inv, NEW c \in Calls, NEW k \in Nat, Send(c, k)
    PROVE  Loose' = [Loose EXCEPT ![c] = @ \cup {attempt[c]}]
<1>1. requests' = requests \cup {Work(c, k)} /\ attempt[c] \in Attempts
  BY DEF Send, Inv, TypeOK
<1>2. ASSUME NEW d \in Calls, NEW a \in Attempts
      PROVE  a \in Loose'[d] <=> (a \in Loose[d] \/ (d = c /\ a = attempt[c]))
  <2>1. /\ a \in Loose'[d] <=> Requested(requests', d, a)
        /\ a \in Loose[d] <=> Requested(requests, d, a)
    BY DEF Loose, Requested
  <2>2. Requested({Work(c, k)}, d, a) <=> (d = c /\ a = attempt[c])
    BY DEF Work, Requested
  <2>3. Requested(requests', d, a) <=>
            (Requested(requests, d, a) \/ Requested({Work(c, k)}, d, a))
    BY <1>1, Zenon DEF Requested
  <2> QED
    BY <2>1, <2>2, <2>3
<1>3. ASSUME NEW d \in Calls
      PROVE  Loose'[d] = IF d = c THEN Loose[d] \cup {attempt[c]} ELSE Loose[d]
  <2>1. Loose[d] \subseteq Attempts /\ Loose'[d] \subseteq Attempts
    BY DEF Loose
  <2>2. CASE d = c
    BY <1>1, <1>2, <2>1, <2>2
  <2>3. CASE d # c
    <3>1. ASSUME NEW a PROVE a \in Loose'[d] <=> a \in Loose[d]
      <4>1. CASE a \in Attempts
        BY <1>2, <2>3, <4>1
      <4>2. CASE a \notin Attempts
        BY <2>1, <4>2
      <4> QED
        BY <4>1, <4>2
    <3> HIDE DEF Attempts
    <3>2. Loose'[d] = Loose[d]
      BY <3>1
    <3> QED
      BY <2>3, <3>2
  <2> QED
    BY <2>2, <2>3
<1> QED
  BY <1>3, LooseIsFunction

LEMMA LooseAfterSettle ==
    ASSUME Inv, NEW r \in requests, r.kind = "work", Settle(r)
    PROVE  /\ Loose' = [Loose EXCEPT ![r.call] = @ \ {r.attempt}]
           /\ r.call \in Calls /\ r.attempt \in Attempts /\ r.attempt \in Loose[r.call]
<1>0. r.call \in Calls /\ r.attempt \in Attempts
  BY DEF Inv, TypeOK, Requests
<1>1. ASSUME NEW d \in Calls
      PROVE  Loose'[d] = IF d = r.call THEN Loose[d] \ {r.attempt} ELSE Loose[d]
  <2>1. ASSUME NEW a \in Attempts
        PROVE  a \in Loose'[d] <=> (a \in Loose[d] /\ ~(d = r.call /\ a = r.attempt))
    BY <1>0 DEF Settle, Loose, Inv, Undecided
  <2>2. Loose[d] \subseteq Attempts /\ Loose'[d] \subseteq Attempts
    BY DEF Loose
  <2> QED
    BY <2>1, <2>2
<1>2. r.attempt \in Loose[r.call]
  BY <1>0 DEF Loose
<1> QED
  BY <1>0, <1>1, <1>2, LooseIsFunction

LEMMA LooseWithoutLogins ==
    ASSUME requests' = {r \in requests : r.kind = "work"}
    PROVE  Loose' = Loose
BY DEF Loose

LEMMA OutcomeAfter ==
    ASSUME Inv, NEW c \in Calls, NEW p \in Ended \cup {"waiting", "login", "asking"},
           phase' = [phase EXCEPT ![c] = p]
    PROVE  Outcome' = [Outcome EXCEPT ![c] = IF p \in Ended THEN p ELSE "running"]
BY DEF Outcome, Inv, TypeOK

LEMMA CallRefines ==
    ASSUME Inv, NEW c \in Calls, Call(c)
    PROVE  Contract!Begin(c)
<1>1. Loose' = Loose
  BY DEF Call, wire, Loose
<1> QED
  BY <1>1, OutcomeAfter DEF Call, wire, Contract!Begin, Outcome, Inv, TypeOK

LEMMA SubmitRefines ==
    ASSUME Inv, NEW c \in Calls, NEW k \in Nat, Send(c, k),
           phase[c] \in {"waiting", "login"}, UNCHANGED done
    PROVE  attempt[c] \in Attempts /\ Contract!Submit(c, attempt[c])
<1>1. Outcome' = Outcome
  BY DEF Send, Outcome, Inv, TypeOK
<1> QED
  BY <1>1, LooseAfterSend DEF Send, Contract!Submit, Outcome, Inv, TypeOK, History

LEMMA RaiseRefines ==
    ASSUME Inv, NEW c \in Calls, phase[c] \in {"waiting", "login", "asking"},
           End(c, "raised"), UNCHANGED <<sent, done>>, Loose' = Loose
    PROVE  Contract!Raise(c)
BY OutcomeAfter DEF End, Contract!Raise, Outcome

LEMMA ReturnRefines ==
    ASSUME Inv, NEW c \in Calls, Return(c)
    PROVE  Contract!Return(c)
<1>1. Loose' = Loose
  BY DEF Return, Loose
<1>2. attempt[c] \in done[c] /\ attempt[c] \notin Loose[c]
  BY DEF Return, Received, Answer, Work, Inv, Answered, Loose, TypeOK
<1> QED
  BY <1>1, <1>2, OutcomeAfter DEF Return, End, Contract!Return, Outcome

LEMMA InterruptRefines ==
    ASSUME Inv, NEW c \in Calls, Interrupt(c)
    PROVE  Unseen \/ Contract!Raise(c)
<1>1. Loose' = Loose
  BY LooseWithoutLogins DEF Interrupt, Close
<1>2. CASE attempt[c] = 0
  <2>1. Outcome' = Outcome
    BY <1>2 DEF Interrupt, Again, Outcome, Inv, TypeOK
  <2> QED
    BY <1>1, <2>1 DEF Interrupt, Close, Unseen
<1>3. CASE attempt[c] # 0
  BY <1>1, <1>3, RaiseRefines DEF Interrupt, Close, Again
<1> QED
  BY <1>2, <1>3

LEMMA ClientRefines ==
    ASSUME Inv, NEW c \in Calls, Client(c)
    PROVE  Contract!Next \/ Unseen
<1>1. CASE Open(c)
  <2>1. Loose' = Loose
    BY <1>1 DEF Open, Login, Loose
  <2>2. Outcome' = Outcome
    BY <1>1 DEF Open, Outcome, Inv, TypeOK
  <2> QED
    BY <1>1, <2>1, <2>2 DEF Open, Unseen
<1>2. CASE Reuse(c)
  BY <1>2, SubmitRefines DEF Reuse, Contract!Next, Inv, TypeOK
<1>3. CASE LoggedIn(c)
  BY <1>3, SubmitRefines DEF LoggedIn, Contract!Next, Inv, TypeOK
<1>4. CASE LoginRefused(c)
  BY <1>4, RaiseRefines, LooseWithoutLogins DEF LoginRefused, Close, Contract!Next
<1>5. CASE LoginError(c)
  BY <1>5, RaiseRefines DEF LoginError, Loose, Contract!Next
<1>6. CASE Return(c)
  BY <1>6, ReturnRefines DEF Contract!Next
<1>7. CASE Error(c)
  BY <1>7, RaiseRefines DEF Error, Loose, Contract!Next
<1>8. CASE Interrupt(c)
  BY <1>8, InterruptRefines DEF Contract!Next
<1> QED
  BY <1>1, <1>2, <1>3, <1>4, <1>5, <1>6, <1>7, <1>8 DEF Client

LEMMA ServerRefines ==
    ASSUME Inv, NEW r \in requests, Server(r) \/ RefuseLogin(r)
    PROVE  Contract!Next \/ Unseen
<1>1. CASE Authenticate(r) \/ RefuseLogin(r)
  BY <1>1 DEF Authenticate, RefuseLogin, Settle, link, Unseen, Outcome, Loose
<1>2. CASE Execute(r)
  <2>1. Contract!Settle(r.call, r.attempt)
    BY <1>2, LooseAfterSettle DEF Execute, Contract!Settle, Outcome
  <2> QED
    BY <1>2, <2>1, LooseAfterSettle DEF Execute, Contract!Next
<1>3. CASE Reject(r)
  <2>1. Contract!Settle(r.call, r.attempt)
    BY <1>3, LooseAfterSettle DEF Reject, Contract!Settle, Outcome
  <2> QED
    BY <1>3, <2>1, LooseAfterSettle DEF Reject, Contract!Next
<1> QED
  BY <1>1, <1>2, <1>3 DEF Server

LEMMA StepRefines ==
    ASSUME Inv, [Next]_vars
    PROVE  [Contract!Next]_<<Outcome, sent, Loose, done>>
<1>1. CASE \E c \in Calls : Call(c)
  BY <1>1, CallRefines DEF Contract!Next
<1>2. CASE \E c \in Calls : Client(c)
  BY <1>2, ClientRefines DEF Unseen
<1>3. CASE \E r \in requests : Server(r) \/ RefuseLogin(r)
  BY <1>3, ServerRefines DEF Unseen
<1>4. CASE Break \/ Recover \/ UNCHANGED vars
  BY <1>4 DEF Break, Recover, vars, link, wire, Outcome, Loose
<1> QED
  BY <1>1, <1>2, <1>3, <1>4 DEF Next

(* Whoever awaits a call may rely on StorageCall: an answer means the      *)
(* effect, and a request is executed once at most (call, _exchange).       *)
THEOREM CallIsStorageCall == Spec => ImplementsStorageCall
<1>1. Init => Contract!Init
  BY DEF Init, Contract!Init, Outcome, Loose
<1>2. Inv /\ [Next]_vars => [Contract!Next]_Contract!vars
  BY StepRefines DEF Contract!vars
<1> QED
  BY <1>1, <1>2, Invariance, PTL DEF Spec, ImplementsStorageCall, Contract!Spec
-----------------------------------------------------------------------------
(* What CallsEnd rests on.  The prover knows no fairness, so it is split   *)
(* into three facts without: who holds the lock is running, what it waits  *)
(* for is under way or known to be lost, and each of its steps brings it   *)
(* nearer to its end.                                                      *)

Running == {"waiting", "login", "asking"}

(* The lock's queue holds the running calls, each once.                    *)
Queued ==
    /\ \A c \in Calls : phase[c] \in Running <=> \E i \in 1..Len(lock) : lock[i] = c
    /\ \A i, j \in 1..Len(lock) : lock[i] = lock[j] => i = j

(* Nothing that is waited for gets lost without the connection.            *)
Attended ==
    \A c \in Calls : phase[c] \in {"login", "asking"} =>
        /\ connection # NoConnection
        /\ alive => answers # {} \/ \E r \in requests : r.over = connection

(* The request whose answer the call waits for.                            *)
Question(c) ==
    IF phase[c] = "login" THEN Login(c, connection) ELSE Work(c, connection)

(* The holder of the lock is running, and it can go on, or TrueNAS has its *)
(* request before it.                                                      *)
NeverStuck ==
    lock # <<>> =>
        LET c == Head(lock)
        IN  /\ phase[c] \in Running
            /\ \/ phase[c] = "waiting" \/ Lost
               \/ \E x \in answers : x.request = Question(c)
               \/ Question(c) \in requests

(* How many more steps of its own a call can take.                         *)
TurnsLeft(c) ==
    LET turn == [new |-> 7, waiting |-> 6, login |-> 5, asking |-> 4, returned |-> 0, raised |-> 0]
    IN  IF phase[c] \in Running THEN turn[phase[c]] - 3 * attempt[c] ELSE turn[phase[c]]

EveryTurnCounts ==
    [][\A c \in Calls :
          /\ TurnsLeft(c) \in 0..7 /\ TurnsLeft(c)' <= TurnsLeft(c)
          /\ Client(c) => TurnsLeft(c)' < TurnsLeft(c)]_vars

LEMMA QueuedAfterAppend ==
    ASSUME Inv, Queued, NEW c \in Calls, Call(c)
    PROVE  Queued'
<1>1. /\ phase' = [phase EXCEPT ![c] = "waiting"] /\ phase[c] = "new"
      /\ lock' = Append(lock, c) /\ lock \in Seq(Calls)
      /\ phase \in [Calls -> {"new", "waiting", "login", "asking"} \cup Ended]
  BY DEF Call, Inv, TypeOK
<1>2. /\ Len(lock') = Len(lock) + 1 /\ lock'[Len(lock) + 1] = c
      /\ \A i \in 1..Len(lock) : lock'[i] = lock[i] /\ lock[i] # c
      /\ Len(lock) \in Nat
  BY <1>1 DEF Queued, Running
<1>3. \A d \in Calls : phase'[d] \in Running <=> \E i \in 1..Len(lock') : lock'[i] = d
  <2> TAKE d \in Calls
  <2>1. CASE d = c
    BY <1>1, <1>2, <2>1 DEF Running
  <2>2. CASE d # c
    <3>1. (\E i \in 1..Len(lock') : lock'[i] = d) <=> \E i \in 1..Len(lock) : lock[i] = d
      BY <1>2, <2>2
    <3> QED
      BY <1>1, <2>2, <3>1 DEF Queued
  <2> QED
    BY <2>1, <2>2
<1>4. \A i, j \in 1..Len(lock') : lock'[i] = lock'[j] => i = j
  BY <1>2 DEF Queued
<1> QED
  BY <1>3, <1>4 DEF Queued

(* The call that ends takes itself from the head of the queue.             *)
LEMMA QueuedAfterEnd ==
    ASSUME Inv, Queued, NEW c \in Calls, Holds(c), NEW o \in Ended, End(c, o)
    PROVE  Queued'
<1>1. /\ phase' = [phase EXCEPT ![c] = o] /\ phase \in [Calls -> Running \cup {"new"} \cup Ended]
      /\ lock' = Tail(lock) /\ lock \in Seq(Calls) /\ lock # <<>> /\ lock[1] = c
  BY DEF End, Holds, Inv, TypeOK, Running
<1>2. /\ Len(lock) \in Nat /\ Len(lock) > 0 /\ Len(lock') = Len(lock) - 1
      /\ \A i \in 1..Len(lock') : lock'[i] = lock[i + 1]
  BY <1>1
<1>3. \A d \in Calls : phase'[d] \in Running <=> \E i \in 1..Len(lock') : lock'[i] = d
  <2> TAKE d \in Calls
  <2>1. CASE d = c
    <3>1. ~ \E i \in 1..Len(lock') : lock'[i] = c
      BY <1>1, <1>2 DEF Queued
    <3> QED
      BY <1>1, <2>1, <3>1 DEF Running
  <2>2. CASE d # c
    <3>1. ASSUME NEW i \in 1..Len(lock), lock[i] = d
          PROVE  i - 1 \in 1..Len(lock') /\ lock'[i - 1] = d
      BY <1>1, <1>2, <2>2, <3>1
    <3>2. (\E i \in 1..Len(lock') : lock'[i] = d) <=> \E i \in 1..Len(lock) : lock[i] = d
      BY <1>2, <3>1
    <3> QED
      BY <1>1, <2>2, <3>2 DEF Queued
  <2> QED
    BY <2>1, <2>2
<1>4. \A i, j \in 1..Len(lock') : lock'[i] = lock'[j] => i = j
  BY <1>2 DEF Queued
<1> QED
  BY <1>3, <1>4 DEF Queued

(* Any other step leaves the queue and who is running as they are.         *)
LEMMA QueuedKept ==
    ASSUME Queued, lock' = lock, \A c \in Calls : phase'[c] \in Running <=> phase[c] \in Running
    PROVE  Queued'
BY DEF Queued

LEMMA QueuedStep ==
    ASSUME Inv, Queued, [Next]_vars
    PROVE  Queued'
<1>1. ASSUME NEW c \in Calls, Open(c) \/ Reuse(c) \/ LoggedIn(c) PROVE Queued'
  BY <1>1, QueuedKept DEF Open, Reuse, LoggedIn, Send, Inv, TypeOK, Running
<1>2. ASSUME NEW c \in Calls, LoginRefused(c) \/ LoginError(c) \/ Return(c) \/ Error(c)
      PROVE  Queued'
  BY <1>2, QueuedAfterEnd DEF LoginRefused, LoginError, Return, Error, Inv, Exclusive
<1>3. ASSUME NEW c \in Calls, Interrupt(c) PROVE Queued'
  <2>1. CASE attempt[c] = 0
    BY <1>3, <2>1, QueuedKept DEF Interrupt, Again, Inv, TypeOK, Running
  <2>2. CASE attempt[c] # 0
    BY <1>3, <2>2, QueuedAfterEnd DEF Interrupt, Again
  <2> QED
    BY <2>1, <2>2
<1>4. ASSUME NEW r \in requests, Server(r) \/ RefuseLogin(r) PROVE Queued'
  BY <1>4, QueuedKept DEF Server, Authenticate, Execute, Reject, RefuseLogin
<1>5. CASE Break \/ Recover \/ UNCHANGED vars
  BY <1>5, QueuedKept DEF Break, Recover, vars
<1> QED
  BY <1>1, <1>2, <1>3, <1>4, <1>5, QueuedAfterAppend DEF Next, Client

LEMMA AttendedStep ==
    ASSUME Inv, Attended, [Next]_vars
    PROVE  Attended'
<1>1. ASSUME NEW c \in Calls, Call(c) PROVE Attended'
  BY <1>1 DEF Attended, Call, link, wire, Inv, TypeOK
<1>2. ASSUME NEW c \in Calls, Open(c) \/ Reuse(c) \/ LoggedIn(c) PROVE Attended'
  <2>1. PICK r \in requests' : r = Login(c, connection') \/ r = Work(c, connection')
    BY <1>2 DEF Open, Reuse, LoggedIn, Send, link
  <2>2. connection' # NoConnection
    BY <1>2 DEF Open, Reuse, LoggedIn, link, Attended, Inv, TypeOK
  <2>3. r.over = connection'
    BY <2>1 DEF Login, Work
  <2> QED
    BY <2>2, <2>3 DEF Attended
<1>3. ASSUME NEW c \in Calls,
             LoginRefused(c) \/ LoginError(c) \/ Return(c) \/ Error(c) \/ Interrupt(c)
      PROVE  Attended'
  <2>1. Holds(c) /\ \A d \in Calls : phase'[d] \notin {"login", "asking"}
    BY <1>3 DEF LoginRefused, LoginError, Return, Error, Interrupt, End, Again, Inv, Exclusive,
                Holds, TypeOK
  <2> QED
    BY <2>1 DEF Attended
<1>4. ASSUME NEW r \in requests, Server(r) \/ RefuseLogin(r) PROVE Attended'
  <2>1. /\ UNCHANGED <<phase, connection, alive>> /\ requests' = requests \ {r}
        /\ \E verdict \in {"result", "refused", "error"} : Reply(r, verdict)
    BY <1>4 DEF Server, Authenticate, Execute, Reject, RefuseLogin, Settle, link
  <2>2. CASE r.over = connection /\ alive
    BY <2>1, <2>2 DEF Attended, Reply
  <2>3. CASE ~(r.over = connection /\ alive)
    BY <2>1, <2>3 DEF Attended, Reply
  <2> QED
    BY <2>2, <2>3
<1>5. CASE Break \/ Recover \/ UNCHANGED vars
  BY <1>5 DEF Attended, Break, Recover, vars, link, wire
<1> QED
  BY <1>1, <1>2, <1>3, <1>4, <1>5 DEF Next, Client

(* Under way or answered, what the holder waits for is its own request.    *)
LEMMA QuestionIsAwaited ==
    ASSUME Inv, NEW c \in Calls, phase[c] \in {"login", "asking"}, NEW r \in Requests,
           Awaited(r), r.over = connection
    PROVE  r = Question(c)
<1>1. r.call = c
  BY DEF Awaited, Inv, Exclusive, Holds
<1>2. r.attempt = attempt[c] /\ r.kind = IF phase[c] = "login" THEN "login" ELSE "work"
  BY <1>1 DEF Awaited, Requests
<1> QED
  BY <1>1, <1>2 DEF Requests, Question, Login, Work

LEMMA AttendedIsAnswered ==
    ASSUME Inv, Attended, NEW c \in Calls, phase[c] \in {"login", "asking"}, ~Lost
    PROVE  (\E x \in answers : x.request = Question(c)) \/ Question(c) \in requests
<1>1. CASE answers # {}
  <2>1. PICK x \in answers : x.request \in Requests /\ Awaited(x.request) /\ x.request.over = connection
    BY <1>1 DEF Inv, ConnectionClean, TypeOK
  <2> QED
    BY <2>1, QuestionIsAwaited
<1>2. CASE \E r \in requests : r.over = connection
  <2>1. PICK r \in requests : r.over = connection /\ Awaited(r) /\ r \in Requests
    BY <1>2 DEF Inv, ConnectionClean, TypeOK
  <2> QED
    BY <2>1, QuestionIsAwaited
<1> QED
  BY <1>1, <1>2 DEF Attended, Lost

LEMMA QueueSafety == Spec => [](Inv /\ Queued /\ Attended)
<1>1. Init => Queued /\ Attended
  BY DEF Init, Queued, Attended, Running
<1>2. Inv /\ Queued /\ Attended /\ [Next]_vars => Queued' /\ Attended'
  BY QueuedStep, AttendedStep
<1> QED
  BY <1>1, <1>2, Invariance, PTL DEF Spec

(* Nobody waits for a lock whose holder has ended, nor for an answer that  *)
(* cannot come any more (call, _exchange, close).                          *)
THEOREM LockMovesOn == Spec => []NeverStuck
<1>1. Inv /\ Queued /\ Attended => NeverStuck
  <2> SUFFICES ASSUME Inv, Queued, Attended, lock # <<>>
               PROVE  /\ phase[Head(lock)] \in Running
                      /\ \/ phase[Head(lock)] = "waiting" \/ Lost
                         \/ \E x \in answers : x.request = Question(Head(lock))
                         \/ Question(Head(lock)) \in requests
    BY DEF NeverStuck
  <2>1. lock \in Seq(Calls) /\ Head(lock) \in Calls /\ 1 \in 1..Len(lock) /\ lock[1] = Head(lock)
    BY DEF Inv, TypeOK
  <2>2. phase[Head(lock)] \in Running
    BY <2>1 DEF Queued
  <2> QED
    BY <2>1, <2>2, AttendedIsAnswered DEF Running
<1> QED
  BY <1>1, QueueSafety, PTL

(* A call takes at most seven steps, one to get in the queue and six in    *)
(* its two attempts, and nobody else's step adds one (call).               *)
THEOREM CallsAreShort == Spec => EveryTurnCounts
<1>1. ASSUME Inv, [Next]_vars, NEW c \in Calls
      PROVE  /\ TurnsLeft(c) \in 0..7 /\ TurnsLeft(c)' <= TurnsLeft(c)
             /\ Client(c) => TurnsLeft(c)' < TurnsLeft(c)
  <2>1. TurnsLeft(c) \in 0..7
    BY <1>1 DEF TurnsLeft, Running, Inv, TypeOK
  <2>2. ASSUME Client(c) PROVE TurnsLeft(c)' < TurnsLeft(c)
    BY <1>1, <2>2 DEF TurnsLeft, Running, Client, Open, Reuse, LoggedIn, LoginRefused, LoginError,
       Return, Error, Interrupt, Again, End, Send, Inv, TypeOK
  <2>3. ASSUME UNCHANGED <<phase[c], attempt[c]>> PROVE TurnsLeft(c)' = TurnsLeft(c)
    BY <2>3 DEF TurnsLeft
  <2>4. ASSUME Call(c) PROVE TurnsLeft(c)' < TurnsLeft(c)
    BY <1>1, <2>4 DEF Call, TurnsLeft, Running, Inv, TypeOK
  <2>5. UNCHANGED <<phase[c], attempt[c]>> \/ Call(c) \/ Client(c)
    <3>1. ASSUME NEW d \in Calls, d # c, Call(d) \/ Client(d) PROVE UNCHANGED <<phase[c], attempt[c]>>
      BY <1>1, <3>1 DEF Call, Client, Open, Reuse, LoggedIn, LoginRefused, LoginError,
         Return, Error, Interrupt, Again, End, Send, Inv, TypeOK
    <3>2. ASSUME NEW r \in requests, Server(r) \/ RefuseLogin(r) PROVE UNCHANGED <<phase, attempt>>
      BY <3>2 DEF Server, Authenticate, Execute, Reject, RefuseLogin
    <3> QED
      BY <1>1, <3>1, <3>2 DEF Next, Break, Recover, vars
  <2>6. TurnsLeft(c)' <= TurnsLeft(c)
    <3>1. phase'[c] \in {"new", "waiting", "login", "asking"} \cup Ended /\ attempt'[c] \in Attempts
      BY <1>1, NextInv DEF Inv, TypeOK
    <3>2. TurnsLeft(c)' \in 0..7
      BY <3>1 DEF TurnsLeft, Running
    <3> QED
      BY <2>1, <2>2, <2>3, <2>4, <2>5, <3>2
  <2> QED
    BY <2>1, <2>2, <2>6
<1>2. Inv /\ [Next]_vars =>
        \A c \in Calls : /\ TurnsLeft(c) \in 0..7 /\ TurnsLeft(c)' <= TurnsLeft(c)
                         /\ Client(c) => TurnsLeft(c)' < TurnsLeft(c)
  BY <1>1
<1> QED
  BY <1>2, Invariance, PTL DEF Spec, EveryTurnCounts
-----------------------------------------------------------------------------
(* What Recovers rests on: a call made after the trouble is never refused  *)
(* and loses its connection once at most, and that before it sends.        *)

(* Such a call has not failed.  It has sent nothing but the request it     *)
(* waits for; that goes over an authenticated connection, which stays up;  *)
(* a second attempt is only made because the connection it found was lost. *)
GoesWell(c) ==
    /\ phase[c] # "raised"
    /\ phase[c] \in {"new", "waiting", "login"} => sent[c] = {}
    /\ phase[c] \in {"login", "asking"} => ~Lost
    /\ phase[c] = "asking" => sent[c] = {attempt[c]} /\ connection \in trusted
    /\ phase[c] = "waiting" /\ attempt[c] = 1 => Holds(c) /\ connection = NoConnection
    /\ \A x \in answers : x.request.call = c => x.verdict = "result" /\ connection \in trusted

(* Once the trouble is over, a connection that was left unauthenticated    *)
(* stays: nobody closes it and nobody logs in over it.                     *)
LEMMA LeftStays ==
    ASSUME Inv, ~trouble, LeftUnauthenticated, [Next]_vars
    PROVE  LeftUnauthenticated'
<1>1. ASSUME NEW c \in Calls, Call(c) \/ Client(c) PROVE LeftUnauthenticated'
  BY <1>1 DEF LeftUnauthenticated, Call, Client, Open, Reuse, LoggedIn, LoginRefused, LoginError,
     Return, Error, Interrupt, Lost, End, Send, link, Inv, TypeOK
<1>2. ASSUME NEW r \in requests, Server(r) \/ RefuseLogin(r) PROVE LeftUnauthenticated'
  <2>1. CASE Authenticate(r)
    BY <2>1 DEF LeftUnauthenticated, Authenticate, Inv, ConnectionClean, Awaited, TypeOK, Requests
  <2> QED
    BY <1>2, <2>1 DEF LeftUnauthenticated, Server, Execute, Reject, RefuseLogin, link
<1>3. CASE Break \/ Recover \/ UNCHANGED vars
  BY <1>3 DEF LeftUnauthenticated, Break, Recover, vars, link
<1> QED
  BY <1>1, <1>2, <1>3 DEF Next

LEMMA OwnStepGoesWell ==
    ASSUME Inv, ~trouble, NEW c \in Calls, GoesWell(c), Call(c) \/ Client(c)
    PROVE  GoesWell(c)' \/ LeftUnauthenticated
<1>1. CASE Call(c)
  BY <1>1 DEF GoesWell, Call, Inv, TypeOK, History, link, wire, Lost
<1>2. CASE Open(c)
  <2>1. answers = {} /\ answers' = {}
    BY <1>2 DEF Open, Inv, ConnectionClean, Numbered
  <2> QED
    BY <1>2, <2>1 DEF GoesWell, Open, Inv, TypeOK, Lost
<1>3. CASE Reuse(c)
  <2>1. CASE connection \in trusted
    BY <1>3, <2>1 DEF GoesWell, Reuse, Send, Inv, TypeOK, Lost, link
  <2>2. CASE connection \notin trusted
    BY <1>3, <2>2 DEF Reuse, LeftUnauthenticated, Inv, Exclusive, Holds
  <2> QED
    BY <2>1, <2>2
<1>4. CASE LoggedIn(c)
  <2>1. connection \in trusted
    BY <1>4 DEF LoggedIn, Received, Answer, Login, GoesWell
  <2> QED
    BY <1>4, <2>1 DEF GoesWell, LoggedIn, Received, Send, Inv, TypeOK, Lost, link
<1>5. CASE LoginRefused(c) \/ LoginError(c) \/ Error(c)
  BY <1>5 DEF LoginRefused, LoginError, Error, Received, Answer, Login, Work, GoesWell
<1>6. CASE Return(c)
  BY <1>6 DEF GoesWell, Return, Received, End, Inv, TypeOK, link
<1>7. CASE Interrupt(c)
  BY <1>7 DEF GoesWell, Interrupt, Close, Again, Lost, Holds, Inv, TypeOK
<1> QED
  BY <1>1, <1>2, <1>3, <1>4, <1>5, <1>6, <1>7 DEF Client

(* Another call's step does not reach a call that does not hold the lock.  *)
LEMMA OthersStepGoesWell ==
    ASSUME Inv, ~trouble, NEW c \in Calls, GoesWell(c), NEW d \in Calls, d # c,
           Call(d) \/ Client(d)
    PROVE  GoesWell(c)'
<1>1. CASE Call(d)
  BY <1>1 DEF GoesWell, Call, Inv, TypeOK, link, wire, Lost, Holds
<1>2. CASE Client(d)
  <2>1. Holds(d)
    BY <1>2 DEF Client, Open, Reuse, LoggedIn, LoginRefused, LoginError, Return, Error,
       Interrupt, Inv, Exclusive
  <2>2. /\ phase[c] \notin {"login", "asking"}
        /\ ~(phase[c] = "waiting" /\ attempt[c] = 1)
    BY <2>1 DEF Inv, Exclusive, Holds, GoesWell
  <2>3. /\ phase'[c] = phase[c] /\ attempt'[c] = attempt[c] /\ sent'[c] = sent[c]
        /\ answers' \subseteq answers
    BY <1>2 DEF Client, Open, Reuse, LoggedIn, LoginRefused, LoginError, Return, Error,
       Interrupt, Received, Close, Again, End, Send, link, Inv, TypeOK
  <2>4. \A x \in answers : x.request.call # c
    BY <2>2 DEF Inv, ConnectionClean, Awaited
  <2> QED
    BY <2>2, <2>3, <2>4 DEF GoesWell
<1> QED
  BY <1>1, <1>2

LEMMA ServerGoesWell ==
    ASSUME Inv, ~trouble, NEW c \in Calls, GoesWell(c), NEW r \in requests,
           Server(r) \/ RefuseLogin(r)
    PROVE  GoesWell(c)'
<1>1. /\ UNCHANGED <<lock, phase, attempt, connection, alive, sent>>
      /\ trusted \subseteq trusted'
  BY DEF Server, Authenticate, Execute, Reject, RefuseLogin, link
<1>2. ASSUME NEW x \in answers', x.request.call = c
      PROVE  x.verdict = "result" /\ connection \in trusted'
  <2>1. CASE x \in answers
    BY <1>1, <1>2, <2>1 DEF GoesWell
  <2>2. CASE x \notin answers
    <3>1. x.request = r /\ r.over = connection
      BY <1>2, <2>2 DEF Server, Authenticate, Execute, Reject, RefuseLogin, Reply, Answer
    <3>2. r \in Requests /\ r.call = c /\ Awaited(r)
      BY <1>2, <3>1 DEF Inv, TypeOK, ConnectionClean
    <3>3. CASE Authenticate(r)
      BY <1>2, <2>2, <3>1, <3>3 DEF Authenticate, Reply, Answer
    <3>4. CASE Execute(r)
      BY <1>1, <1>2, <2>2, <3>1, <3>4 DEF Execute, Reply, Answer
    <3>5. CASE Reject(r)
      <4>1. phase[c] = "asking" /\ sent[c] = {r.attempt} /\ r.over \in trusted
        BY <3>1, <3>2, <3>5 DEF Reject, Awaited, GoesWell
      <4>2. done[c] = {}
        BY <3>2, <3>5, <4>1 DEF Reject, Inv, History, Undecided
      <4> QED
        BY <3>2, <3>5, <4>1, <4>2 DEF Reject, Repeated
    <3> QED
      BY <3>3, <3>4, <3>5 DEF Server, RefuseLogin
  <2> QED
    BY <2>1, <2>2
<1> QED
  BY <1>1, <1>2 DEF GoesWell, Lost, Holds

LEMMA GoingWellStays ==
    ASSUME Inv, ~trouble, NEW c \in Calls, GoesWell(c) \/ LeftUnauthenticated, [Next]_vars
    PROVE  ~trouble' /\ (GoesWell(c)' \/ LeftUnauthenticated')
<1>1. ~trouble'
  BY DEF Next, Call, Client, Open, Reuse, LoggedIn, LoginRefused, LoginError, Return, Error,
     Interrupt, Server, Authenticate, Execute, Reject, RefuseLogin, Break, Recover, vars
<1>2. CASE LeftUnauthenticated
  BY <1>1, <1>2, LeftStays
<1>3. CASE GoesWell(c) /\ ~LeftUnauthenticated
  <2>1. CASE UNCHANGED vars
    BY <1>3, <2>1 DEF GoesWell, vars, link, wire, Lost, Holds
  <2> QED
    BY <1>1, <1>3, <2>1, OwnStepGoesWell, OthersStepGoesWell, ServerGoesWell
       DEF Next, Break, Recover
<1> QED
  BY <1>2, <1>3

(* A call that is made when the trouble is over does not raise, whatever   *)
(* the calls before it left behind, except over a connection that a login  *)
(* answered with an error has left unauthenticated (call, _open).          *)
THEOREM NoLaterCallFails ==
    ASSUME NEW c \in Calls
    PROVE  Spec => [](phase[c] = "new" /\ ~trouble
                        => [](phase[c] # "raised" \/ LeftUnauthenticated))
<1>1. Inv /\ phase[c] = "new" => GoesWell(c)
  BY DEF GoesWell, Inv, History, ConnectionClean, Awaited
<1>2. Inv /\ ~trouble /\ (GoesWell(c) \/ LeftUnauthenticated) /\ [Next]_vars
        => ~trouble' /\ (GoesWell(c)' \/ LeftUnauthenticated')
  BY GoingWellStays
<1>3. GoesWell(c) => phase[c] # "raised"
  BY DEF GoesWell
<1> QED
  BY <1>1, <1>2, <1>3, Invariance, PTL DEF Spec
=============================================================================
