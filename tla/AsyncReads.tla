----------------------------- MODULE AsyncReads -----------------------------
(***************************************************************************)
(* What redfs.h promises of asynchronous reads, without threads, queue or  *)
(* locks: redfs_read_async answers each call; a call answered OK is        *)
(* completed by one callback, any other call by none; a depot's memory     *)
(* goes away only when it is being closed and every read accepted against  *)
(* it has been completed.  Worker is shown to implement this.              *)
(***************************************************************************)
EXTENDS Naturals

CONSTANTS Depots, MaxJobs, NoOne

Jobs == 1..MaxJobs

VARIABLES posted, answer, depotOf, calls, depots

vars == <<posted, answer, depotOf, calls, depots>>

Init ==
    /\ posted = 0
    /\ answer = [j \in Jobs |-> "none"]
    /\ depotOf = [j \in Jobs |-> NoOne]
    /\ calls = [j \in Jobs |-> 0]
    /\ depots = [d \in Depots |-> "open"]

Outstanding(j) == answer[j] = "OK" /\ calls[j] = 0

(* redfs_read_async names a depot that is not freed, and is told OK or not. *)
ReadAsync(d, a) ==
    /\ posted < MaxJobs
    /\ depots[d] # "freed"
    /\ posted' = posted + 1
    /\ answer' = [answer EXCEPT ![posted + 1] = a]
    /\ depotOf' = [depotOf EXCEPT ![posted + 1] = d]
    /\ UNCHANGED <<calls, depots>>

(* The callback of an outstanding read.                                    *)
Complete(j) ==
    /\ Outstanding(j)
    /\ calls' = [calls EXCEPT ![j] = 1]
    /\ UNCHANGED <<posted, answer, depotOf, depots>>

Close(d) ==
    /\ depots[d] = "open"
    /\ depots' = [depots EXCEPT ![d] = "closing"]
    /\ UNCHANGED <<posted, answer, depotOf, calls>>

Free(d) ==
    /\ depots[d] = "closing"
    /\ \A j \in Jobs : depotOf[j] = d => ~Outstanding(j)
    /\ depots' = [depots EXCEPT ![d] = "freed"]
    /\ UNCHANGED <<posted, answer, depotOf, calls>>

Next ==
    \/ \E d \in Depots : Close(d) \/ Free(d)
    \/ \E d \in Depots, a \in {"OK", "CANCELLED", "ERROR"} : ReadAsync(d, a)
    \/ \E j \in Jobs : Complete(j)

Spec == Init /\ [][Next]_vars
FairSpec == Spec /\ \A j \in Jobs : WF_vars(Complete(j))
=============================================================================
