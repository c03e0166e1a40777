----------------------------- MODULE WorkerInv ------------------------------
(***************************************************************************)
(* The inductive invariant behind the theorems about Worker, in three      *)
(* layers: which threads exist and where they are (ThreadInv), which       *)
(* thread owes each job its callback (JobInv), and which depots the jobs   *)
(* may still touch (DepotInv).  Each layer is inductive relative to the    *)
(* ones before it.                                                         *)
(***************************************************************************)
EXTENDS Worker

(* A worker inside run()'s loop body, callbacks included.                  *)
BodyPcs == BusyPcs \cup {"Done", "CloseReport", "CloseCb"}
(* stop() between taking the lock and re-opening.                          *)
QuiescePcs == StopPcs \ {"StopLock", "StopClear"}
(* stop() once it has moved thread_ out.                                   *)
MovedPcs == {"StopNotify", "StopJoin", "StopReport", "StopCb"}
ExclusivePcs == StopPcs \cup ClosePcs
(* stop() and close with cancelled jobs to report.                         *)
ReportPcs == ExclusivePcs \ {"StopLock", "StopClear"}
(* A worker with a job whose callback it has not called.                   *)
OwingPcs == ReadPcs \cup {"Fire"}

(* No segment is decoded when none is left.                                *)
DecodeInv == \A w \in Workers : pc[w] = "Decode" => left[w] # 0

(* Host threads and workers keep to their own positions; only a worker's   *)
(* callback closes a depot, and it never waits (CallbackNeverWaits).       *)
Places ==
    /\ \A h \in Hosts : pc[h] \in CallPcs
    /\ \A w \in Workers : pc[w] \in WorkerPcs \cup {"CloseReport", "CloseCb"}

OneExclusive ==
    \A t, u \in Threads : pc[t] \in ExclusivePcs /\ pc[u] \in ExclusivePcs => t = u

(* state_ is kQuiescing exactly between a stop()'s two critical sections,  *)
(* and the queue is empty then.                                            *)
QuiescingInStop ==
    /\ state = "Quiescing" <=> \E t \in Threads : pc[t] \in QuiescePcs
    /\ state = "Quiescing" => queue = {}

(* worker_id_ names the worker that is past its first statement.           *)
KnownWorker == \A w \in Workers : pc[w] \notin {"Off", "Start"} => workerId = w

(* A worker that exists is in thread_ or in the hands of a stop() that has *)
(* not joined it; while the worker is running, what is in thread_ exists.  *)
OwnedWorker ==
    /\ \A w \in Workers : pc[w] # "Off" => thread = w \/ \E t \in Threads : victim[t] = w
    /\ \A w \in Workers : thread = w /\ state = "Running" => pc[w] # "Off"
    /\ \A t \in Threads : victim[t] # NoOne => pc[t] \in {"StopNotify", "StopJoin"}
    /\ \A t \in Threads : pc[t] \in MovedPcs => thread = NoOne /\ ~busy

BusyInBody == busy <=> \E w \in Workers : pc[w] \in BodyPcs

ThreadInv ==
    Places /\ OneExclusive /\ QuiescingInStop /\ KnownWorker /\ OwnedWorker /\ BusyInBody

(* Numbers beyond the calls made so far are unused.                        *)
Unposted == \A j \in Jobs : j > posted => answer[j] = "none" /\ ~Held(j)

(* A job somebody holds is owed its callback, and every job owed one is    *)
(* held.                                                                   *)
HeldIsOwed ==
    /\ \A j \in Jobs : Held(j) => answer[j] = "OK" /\ calls[j] = 0
    /\ \A j \in Jobs : answer[j] # "OK" => calls[j] = 0
    /\ \A j \in Jobs : answer[j] = "OK" => calls[j] = 1 \/ Held(j)

(* The queue, the cancelled jobs and the job being run are disjoint, and   *)
(* only a stop() or a close past its critical section has cancelled jobs.  *)
OneHolder ==
    /\ \A t \in Threads : \A j \in cancelled[t] : j \notin queue
    /\ \A t \in Threads : cancelled[t] # {} => pc[t] \in ReportPcs
    /\ \A w \in Workers : pc[w] \in BodyPcs => job[w] \in Jobs
    /\ \A w \in Workers : pc[w] \in OwingPcs =>
          job[w] \notin queue /\ \A t \in Threads : job[w] \notin cancelled[t]

JobInv == Unposted /\ HeldIsOwed /\ OneHolder

(* abort_ is set only during a stop() or while a close waits, and stays    *)
(* set until the read it interrupts is over: a job dequeued in between     *)
(* gives up before its first segment.                                      *)
AbortInv ==
    /\ AbortHasOwner
    /\ \A t \in Threads :
          pc[t] \in StopPcs \cup {"CloseWait", "CloseCheck"} => abort
    /\ \A w \in Workers : late[w] # 0 =>
          /\ late[w] = 1
          /\ pc[w] \in BodyPcs \ {"Size", "Decode"}
          /\ pc[w] = "Check" => abort \/ left[w] = 0
    /\ \A t \in Threads, w \in Workers : pc[w] = "Decode" \/ late[w] # 0 =>
          /\ pc[t] # "StopClear"
          /\ pc[t] \in {"CloseWait", "CloseCheck"} => busyDepot = closing[t]

(* A close that still waits has its depot in closing[t]; queued jobs name  *)
(* open depots; the job being read names an open depot, or one whose close *)
(* is waiting for it.                                                      *)
DepotInv ==
    /\ \A j \in Jobs : answer[j] = "OK" => depotOf[j] \in Depots
    /\ \A w \in Workers : pc[w] \in OwingPcs => busyDepot = depotOf[job[w]]
    /\ \A t \in Threads : pc[t] \in ClosePcs <=> closing[t] # NoOne
    /\ \A t \in Threads : closing[t] # NoOne => depots[closing[t]] = "closing"
    /\ \A j \in queue : depots[depotOf[j]] = "open"
    /\ \A w \in Workers : pc[w] \in OwingPcs =>
          \/ depots[depotOf[job[w]]] = "open"
          \/ \E t \in Threads : /\ pc[t] \in {"CloseWait", "CloseCheck"}
                                /\ closing[t] = depotOf[job[w]]

IndInv ==
    DecodeInv /\ ThreadInv /\ JobInv /\ AbortInv /\ (~ChainIntoClose => DepotInv)
=============================================================================
