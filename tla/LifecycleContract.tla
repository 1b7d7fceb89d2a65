------------------------- MODULE LifecycleContract -------------------------
(***************************************************************************)
(* What the metadata promises about the life of a container, whatever the  *)
(* hosts do: a container runs only what its own reservation started, a     *)
(* launch attempt gets at most one reservation, and a container that is    *)
(* being launched is never removed.                                        *)
(***************************************************************************)
CONSTANTS Containers, Launches, None

VARIABLES
  status,   \* the lifecycle state of each container and the launch behind it
  used      \* launch attempts that have had their reservation

Status == [state : {"absent", "stopped", "launching", "running"},
           launch : Launches \cup {None}]

Absent == [state |-> "absent", launch |-> None]
Stopped == [state |-> "stopped", launch |-> None]
Launching(l) == [state |-> "launching", launch |-> l]
Running(l) == [state |-> "running", launch |-> l]

Init == status = [c \in Containers |-> Absent] /\ used = {}

Create(c) ==
  /\ status[c] = Absent
  /\ status' = [status EXCEPT ![c] = Stopped]
  /\ UNCHANGED used

\* Also when the last launch is over, or was given up, and nobody said so.
Reserve(c, l) ==
  /\ status[c] /= Absent
  /\ l \notin used
  /\ status' = [status EXCEPT ![c] = Launching(l)]
  /\ used' = used \cup {l}

Commit(c, l) ==
  /\ status[c] = Launching(l)
  /\ status' = [status EXCEPT ![c] = Running(l)]
  /\ UNCHANGED used

\* One transaction may stop several containers.
Stop(S) ==
  /\ \A c \in S : status[c] /= Absent
  /\ status' = [c \in Containers |-> IF c \in S THEN Stopped ELSE status[c]]
  /\ UNCHANGED used

Remove(c) ==
  /\ status[c].state \in {"stopped", "running"}
  /\ status' = [status EXCEPT ![c] = Absent]
  /\ UNCHANGED used

Next ==
  \/ \E c \in Containers :
       Create(c) \/ Remove(c) \/ \E l \in Launches : Reserve(c, l) \/ Commit(c, l)
  \/ \E S \in SUBSET Containers : Stop(S)

Spec == Init /\ [][Next]_<<status, used>>
=============================================================================
