----------------------------- MODULE StorageCall -----------------------------
(***************************************************************************)
(* What the rest of the service may rely on when it awaits one call to     *)
(* TrueNAS.  A call is sent at most once per attempt; each request sent    *)
(* takes effect, is refused, or stays loose, and a loose one may still     *)
(* take effect at any time, after the end of the call as well.  A call     *)
(* that returns has taken effect; one that raises may have, or may yet.    *)
(***************************************************************************)
CONSTANTS Calls, Attempts

VARIABLES
    outcome,   \* call -> "new", "running", "returned", "raised"
    sent,      \* call -> the attempts whose request went out
    loose,     \* call -> those of them TrueNAS has not dealt with
    effects    \* call -> those of them that took effect

vars == <<outcome, sent, loose, effects>>

Init ==
    /\ outcome = [c \in Calls |-> "new"]
    /\ sent = [c \in Calls |-> {}]
    /\ loose = [c \in Calls |-> {}]
    /\ effects = [c \in Calls |-> {}]

Begin(c) ==
    /\ outcome[c] = "new"
    /\ outcome' = [outcome EXCEPT ![c] = "running"]
    /\ UNCHANGED <<sent, loose, effects>>

Submit(c, a) ==
    /\ outcome[c] = "running" /\ a \notin sent[c]
    /\ sent' = [sent EXCEPT ![c] = @ \cup {a}]
    /\ loose' = [loose EXCEPT ![c] = @ \cup {a}]
    /\ UNCHANGED <<outcome, effects>>

(* TrueNAS deals with a request, now or long after the call.               *)
Settle(c, a) ==
    /\ a \in loose[c]
    /\ loose' = [loose EXCEPT ![c] = @ \ {a}]
    /\ \/ effects' = [effects EXCEPT ![c] = @ \cup {a}]
       \/ UNCHANGED effects
    /\ UNCHANGED <<outcome, sent>>

(* The answer is the one to an attempt of this call that took effect.      *)
Return(c) ==
    /\ outcome[c] = "running"
    /\ \E a \in effects[c] : a \notin loose[c]
    /\ outcome' = [outcome EXCEPT ![c] = "returned"]
    /\ UNCHANGED <<sent, loose, effects>>

Raise(c) ==
    /\ outcome[c] = "running"
    /\ outcome' = [outcome EXCEPT ![c] = "raised"]
    /\ UNCHANGED <<sent, loose, effects>>

Next == \E c \in Calls :
    Begin(c) \/ Return(c) \/ Raise(c) \/ \E a \in Attempts : Submit(c, a) \/ Settle(c, a)

Spec == Init /\ [][Next]_vars
=============================================================================
