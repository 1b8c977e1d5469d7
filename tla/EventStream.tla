----------------------------- MODULE EventStream -----------------------------
(***************************************************************************)
(* What following a run promises, whatever slots, locks, polls and         *)
(* connections stand behind it: a run has one history that is only ever    *)
(* appended to, as the in-memory store keeps it, and a subscriber receives *)
(* that history from its beginning, one event after the other.  A run that *)
(* reports its completion has reported its start.                          *)
(***************************************************************************)
EXTENDS Naturals, Sequences

CONSTANTS Runs, Subscribers

VARIABLES
    history,    \* the events of each run
    follows,    \* the run each subscriber follows
    received    \* the events each subscriber has received

vars == <<history, follows, received>>

Types == {"started", "completed"}
Event(number, type) == [id |-> number, type |-> type]

Init ==
    /\ history = [r \in Runs |-> <<>>]
    /\ follows \in [Subscribers -> Runs]
    /\ received = [s \in Subscribers |-> <<>>]

Add(r, type) ==
    /\ history' = [history EXCEPT ![r] = Append(@, type)]
    /\ UNCHANGED <<follows, received>>

(* A job that is delivered again reports its start again. *)
Start(r) == Add(r, "started")

Complete(r) ==
    /\ \E n \in DOMAIN history[r] : history[r][n] = "started"
    /\ Add(r, "completed")

Deliver(s) ==
    LET next == Len(received[s]) + 1 IN
    /\ next \in DOMAIN history[follows[s]]
    /\ received' = [received EXCEPT ![s] = Append(@, Event(next, history[follows[s]][next]))]
    /\ UNCHANGED <<history, follows>>

Next ==
    \/ \E r \in Runs : Start(r) \/ Complete(r)
    \/ \E s \in Subscribers : Deliver(s)

Spec == Init /\ [][Next]_vars

-----------------------------------------------------------------------------

TypeOK ==
    /\ history \in [Runs -> Seq(Types)]
    /\ follows \in [Subscribers -> Runs]
    /\ received \in [Subscribers -> Seq([id : Nat, type : Types])]

(* Whatever a subscriber has received is how the history of its run begins, *)
(* and a subscriber that was told of a completion was told of a start.      *)
ReceivedInOrder ==
    \A s \in Subscribers :
        /\ Len(received[s]) <= Len(history[follows[s]])
        /\ \A i \in 1..Len(received[s]) : received[s][i] = Event(i, history[follows[s]][i])
        /\ \A i \in 1..Len(received[s]) :
              received[s][i].type = "completed" => \E j \in 1..i : received[s][j].type = "started"
=============================================================================
