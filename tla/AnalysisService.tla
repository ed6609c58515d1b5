-------------------------- MODULE AnalysisService --------------------------
(***************************************************************************)
(* What the analysis of tracks promises the data manager, whatever queues   *)
(* and threads it is made of: a track it has accepted is analysed once; the *)
(* result is taken once; and after a cancellation nothing of the old task   *)
(* is taken, not even a result that is already on its way.                  *)
(***************************************************************************)
CONSTANT Tracks

VARIABLES
    status,  \* what has become of the task of each track
    held     \* the tracks whose result has been taken and not yet been stored

vars == <<status, held>>

Init ==
    /\ status = [t \in Tracks |-> "idle"]
    /\ held = {}

\* Tracks are accepted together; one that has been analysed is not accepted again.
Accept(S) ==
    /\ \A t \in S : status[t] = "idle" /\ t \notin held
    /\ status' = [t \in Tracks |-> IF t \in S THEN "accepted" ELSE status[t]]
    /\ UNCHANGED held

Answer(t) ==
    /\ status[t] = "accepted"
    /\ status' = [status EXCEPT ![t] = "answered"]
    /\ UNCHANGED held

Take(t) ==
    /\ status[t] = "answered"
    /\ status' = [status EXCEPT ![t] = "taken"]
    /\ held' = held \cup {t}

\* The result of a track that the library does not have any more.
Discard(t) ==
    /\ status[t] = "answered"
    /\ status' = [status EXCEPT ![t] = "taken"]
    /\ UNCHANGED held

Store ==
    /\ held' = {}
    /\ UNCHANGED status

Cancel(t) ==
    /\ status' = [status EXCEPT ![t] = "idle"]
    /\ held' = held \ {t}

Shutdown ==
    /\ status' = [t \in Tracks |-> "idle"]
    /\ held' = {}

Next ==
    \/ \E S \in SUBSET Tracks : Accept(S)
    \/ \E t \in Tracks : Answer(t) \/ Take(t) \/ Discard(t) \/ Cancel(t)
    \/ Store \/ Shutdown

Steps == Init /\ [][Next]_vars

\* What is accepted is answered, and what is answered is taken.
Spec ==
    /\ Steps
    /\ \A t \in Tracks : WF_vars(Answer(t)) /\ WF_vars(Take(t) \/ Discard(t))
============================================================================
