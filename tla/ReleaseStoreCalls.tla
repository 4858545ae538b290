-------------------------- MODULE ReleaseStoreCalls --------------------------
(***************************************************************************)
(* ReleaseStore under arbitrary calls: every method with any arguments, in *)
(* any order, with repeated and mixed-up requests, and what it answers:    *)
(* normally ("ok") or by raising ReleaseStoreError ("refused").            *)
(***************************************************************************)
EXTENDS ReleaseStore

VARIABLE answer     \* the last call and how it ended

callVars == <<status, request, mapping, active, operations, answer>>

Answers ==
    [call : {"none", "reserve", "addSnapshot", "markStaged", "activate"},
     release : Releases \cup {NoRelease}, id : Requests \cup {NoRequest},
     volume : SUBSET Volumes, snapshot : Snapshots \cup {NoSnapshot}, ok : BOOLEAN]

CallTypeOK == StoreTypeOK /\ answer \in Answers

Reply(call, n, id, vs, s, ok) ==
    [call |-> call, release |-> n, id |-> id, volume |-> vs, snapshot |-> s, ok |-> ok]

CallInit == StoreInit /\ answer = Reply("none", NoRelease, NoRequest, {}, NoSnapshot, TRUE)

(* reserve answers with the release of the request, be it new or not.  If  *)
(* the name is another release's, either unique constraint may be the one  *)
(* that SQLite reports first.                                              *)
CallReserve(n, id) ==
    LET reply(m, ok) == Reply("reserve", m, id, {}, NoSnapshot, ok)
    IN  \/ Reserve(n, id) /\ answer' = reply(n, TRUE)
        \/ /\ ~Blocked(id)
           /\ \E m \in ByRequest(id) : answer' = reply(m, TRUE)
           /\ UNCHANGED db
        \/ /\ Blocked(id) \/ (status[n] # "absent" /\ n \notin ByRequest(id))
           /\ answer' = reply(n, FALSE)
           /\ UNCHANGED db

CallAddSnapshot(n, v, s) ==
    LET reply(ok) == Reply("addSnapshot", n, NoRequest, {v}, s, ok)
        raises == \/ status[n] # "incomplete"
                  \/ mapping[n][v] \notin {s, NoSnapshot}
    IN  \/ AddSnapshot(n, v, s) /\ answer' = reply(TRUE)
        \/ /\ ~raises /\ Owned(s)
           /\ answer' = reply(TRUE)
           /\ UNCHANGED db
        \/ raises /\ answer' = reply(FALSE) /\ UNCHANGED db

CallMarkStaged(n, expected) ==
    LET reply(ok) == Reply("markStaged", n, NoRequest, expected, NoSnapshot, ok)
    IN  \/ MarkStaged(n, expected) /\ answer' = reply(TRUE)
        \/ /\ Recorded(n) # expected \/ status[n] = "absent"
           /\ answer' = reply(FALSE)
           /\ UNCHANGED db

CallActivate(n, id) ==
    LET reply(ok) == Reply("activate", n, id, {}, NoSnapshot, ok)
    IN  \/ SetActive(n, id) /\ answer' = reply(TRUE)
        \/ operations[id] = n /\ answer' = reply(TRUE) /\ UNCHANGED db
        \/ /\ \/ operations[id] \notin {n, NoRelease}
              \/ operations[id] = NoRelease /\ status[n] # "staged"
           /\ answer' = reply(FALSE)
           /\ UNCHANGED db

CallNext ==
    \/ \E n \in Releases, id \in Requests : CallReserve(n, id) \/ CallActivate(n, id)
    \/ \E n \in Releases, v \in Volumes, s \in Snapshots : CallAddSnapshot(n, v, s)
    \/ \E n \in Releases, expected \in SUBSET Volumes : CallMarkStaged(n, expected)

CallSpec == CallInit /\ [][CallNext]_callVars
-----------------------------------------------------------------------------
(* An acknowledged call is in the database: the reserved release has that  *)
(* request, the staged one exactly the expected volumes, the activation is *)
(* recorded as executed.                                                   *)
AcknowledgedIsStored ==
    answer.ok =>
        /\ answer.call = "reserve" => request[answer.release] = answer.id
        /\ answer.call = "markStaged" =>
              /\ status[answer.release] = "staged"
              /\ Recorded(answer.release) = answer.volume
        /\ answer.call = "activate" => operations[answer.id] = answer.release
=============================================================================
