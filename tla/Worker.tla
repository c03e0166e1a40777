------------------------------- MODULE Worker -------------------------------
(***************************************************************************)
(* The asynchronous read worker of RedFS (class Worker in api.cpp) and the *)
(* four exports that drive it: redfs_read_async, redfs_drain,              *)
(* redfs_shutdown and redfs_depot_close.                                   *)
(*                                                                         *)
(* Threads are the host's threads and the worker threads std::thread may   *)
(* create.  A critical section on m_ is one action; a blocking wait, a     *)
(* notification sent after the unlock, a store to abort_ outside the lock  *)
(* and each segment of a read are actions of their own.                    *)
(*                                                                         *)
(* A job is known by the position of its redfs_read_async call among all   *)
(* such calls.  Calls append under the lock, and both erase and swap keep  *)
(* the order, so queue_ is the set of the positions it holds and its front *)
(* is their minimum.                                                       *)
(***************************************************************************)
EXTENDS Naturals

CONSTANTS
    Hosts,          \* threads of the host: game thread, plugin threads
    Workers,        \* identities std::thread can give to a worker
    Depots,         \* depots open at the start
    MaxJobs,        \* bound on the calls of redfs_read_async
    MaxSegments,    \* bound on the segments of one part
    ChainIntoClose, \* may a callback chain a read onto a depot being closed?
    NoOne           \* no thread, no depot

Threads == Hosts \cup Workers
Jobs == 1..MaxJobs

ASSUME ConstantAssumption ==
    /\ Hosts \cap Workers = {}
    /\ NoOne \notin Threads \cup Depots
    /\ MaxJobs \in Nat
    /\ MaxSegments \in Nat \ {0}
    /\ ChainIntoClose \in BOOLEAN

VARIABLES
    \* Worker's members, all but abort and workerId guarded by m_
    queue,      \* queue_: the jobs waiting
    thread,     \* thread_: the worker a post would find joinable, or NoOne
    busy,       \* busy_
    busyDepot,  \* busy_depot_
    state,      \* state_
    abort,      \* abort_: polled by the read in flight
    workerId,   \* worker_id_
    \* locals of the threads
    pc,         \* where each thread is
    notifying,  \* threads that have unlocked in post() and not yet notified
    cancelled,  \* the jobs a thread took out of the queue and must report
    closing,    \* the depot a thread is closing
    victim,     \* the worker thread a stop() moved out of thread_
    job,        \* the job a worker is running
    left,       \* segments it has still to read
    status,     \* the status it will report
    \* what the host sees
    calls,      \* how often the callback of each job has been invoked
    answer,     \* what redfs_read_async returned for each job
    depotOf,    \* the depot each job names
    posted,     \* number of redfs_read_async calls so far
    depots,     \* open, closing or freed
    \* history
    late        \* segments the running read decoded while abort was set

queueVars == <<queue, thread, busy, busyDepot, state>>
flagVars  == <<abort, workerId>>
localVars == <<notifying, cancelled, closing, victim>>
readVars  == <<job, left, status, late>>
hostVars  == <<calls, answer, depotOf, posted, depots>>
vars == <<queueVars, flagVars, pc, localVars, readVars, hostVars>>

-----------------------------------------------------------------------------
(* Where a thread can be.  A host thread outside RedFS is at "Out"; a      *)
(* worker thread that does not exist (yet, or any more) is at "Off".       *)

StopPcs   == {"StopLock", "StopWait", "StopCheck", "StopNotify", "StopJoin",
              "StopReport", "StopCb", "StopClear"}
ClosePcs  == {"CloseWait", "CloseCheck", "CloseReport", "CloseCb"}
DrainPcs  == {"Drain", "DrainWait"}
ReadPcs   == {"Size", "Check", "Decode"}
BusyPcs   == ReadPcs \cup {"Fire", "Cb"}
WorkerPcs == BusyPcs \cup {"Off", "Start", "Idle", "IdleWait", "Done", "DoneNotify"}
CallPcs   == {"Out"} \cup StopPcs \cup ClosePcs \cup DrainPcs

Outcomes == {"none", "ok", "error", "cancelled"}
Answers  == {"none", "OK", "CANCELLED", "ERROR"}

MemberTypes ==
    /\ queue \subseteq Jobs
    /\ thread \in Workers \cup {NoOne}
    /\ busy \in BOOLEAN
    /\ busyDepot \in Depots \cup {NoOne}
    /\ state \in {"Running", "Quiescing"}
    /\ abort \in BOOLEAN
    /\ workerId \in Workers \cup {NoOne}

LocalTypes ==
    /\ pc \in [Threads -> CallPcs \cup WorkerPcs]
    /\ notifying \subseteq Threads
    /\ cancelled \in [Threads -> SUBSET Jobs]
    /\ closing \in [Threads -> Depots \cup {NoOne}]
    /\ victim \in [Threads -> Workers \cup {NoOne}]

ReadTypes ==
    /\ job \in [Workers -> Jobs \cup {0}]
    /\ left \in [Workers -> 0..MaxSegments]
    /\ status \in [Workers -> Outcomes]
    /\ late \in [Workers -> Nat]

HostTypes ==
    /\ calls \in [Jobs -> Nat]
    /\ answer \in [Jobs -> Answers]
    /\ depotOf \in [Jobs -> Depots \cup {NoOne}]
    /\ posted \in 0..MaxJobs
    /\ depots \in [Depots -> {"open", "closing", "freed"}]

(* Every member of Worker, every local of its threads and everything the   *)
(* host sees keeps its kind of value; left never runs below zero.          *)
TypeOK == MemberTypes /\ LocalTypes /\ ReadTypes /\ HostTypes

Init ==
    /\ queue = {}
    /\ thread = NoOne
    /\ busy = FALSE
    /\ busyDepot = NoOne
    /\ state = "Running"
    /\ abort = FALSE
    /\ workerId = NoOne
    /\ pc = [t \in Threads |-> IF t \in Hosts THEN "Out" ELSE "Off"]
    /\ notifying = {}
    /\ cancelled = [t \in Threads |-> {}]
    /\ closing = [t \in Threads |-> NoOne]
    /\ victim = [t \in Threads |-> NoOne]
    /\ job = [w \in Workers |-> 0]
    /\ left = [w \in Workers |-> 0]
    /\ status = [w \in Workers |-> "none"]
    /\ late = [w \in Workers |-> 0]
    /\ calls = [j \in Jobs |-> 0]
    /\ answer = [j \in Jobs |-> "none"]
    /\ depotOf = [j \in Jobs |-> NoOne]
    /\ posted = 0
    /\ depots = [d \in Depots |-> "open"]

-----------------------------------------------------------------------------
(* Condition variables.  A waiter is known by its pc; notify_all sends it  *)
(* back to evaluate its predicate.  Only worker threads wait on cv_.       *)

WakeCv(p) == [t \in Threads |-> IF p[t] = "IdleWait" THEN "Idle" ELSE p[t]]

WakeDone(p) ==
    [t \in Threads |-> CASE p[t] = "DrainWait" -> "Drain"
                         [] p[t] = "StopWait"  -> "StopCheck"
                         [] p[t] = "CloseWait" -> "CloseCheck"
                         [] OTHER -> p[t]]

(* The standard allows a wait to return without a notification.            *)
SpuriousWake(t) ==
    /\ pc[t] \in {"IdleWait", "DrainWait", "StopWait", "CloseWait"}
    /\ pc' = [pc EXCEPT ![t] = WakeDone(WakeCv(pc))[t]]
    /\ UNCHANGED <<queueVars, flagVars, localVars, readVars, hostVars>>

OnWorkerThread_Never(t) == FALSE
OnWorkerThread(t) == workerId = t

(* A call on a worker thread is made by the callback it is running.        *)
Return(t) == IF t \in Workers THEN "Cb" ELSE "Out"
AtCallSite(t) == pc[t] = Return(t) /\ t \notin notifying
InCallback(t) == pc[t] \in {"Cb", "StopCb", "CloseCb"}

(* redfs.h: redfs_depot_close and redfs_shutdown may not run concurrently  *)
(* with one another.                                                       *)
NoneExclusive == \A t \in Threads : pc[t] \notin StopPcs \cup ClosePcs

-----------------------------------------------------------------------------
(* redfs_read_async and Worker::post                                       *)

(* The host names a depot it has not closed.  With ChainIntoClose, a       *)
(* callback may also chain a read onto the depot whose close called it.    *)
MayName(t, d) ==
    \/ depots[d] = "open"
    \/ ChainIntoClose /\ depots[d] = "closing" /\ InCallback(t)

(* ensure_thread: start a worker unless thread_ is joinable.               *)
EnsureThread ==
    \/ thread # NoOne /\ UNCHANGED <<thread, pc>>
    \/ /\ thread = NoOne
       /\ \E w \in Workers :
            /\ pc[w] = "Off"
            /\ thread' = w
            /\ pc' = [pc EXCEPT ![w] = "Start"]

(* The bookkeeping of one call: job posted + 1 gets this answer.           *)
Answer(d, a) ==
    /\ posted < MaxJobs
    /\ posted' = posted + 1
    /\ answer' = [answer EXCEPT ![posted + 1] = a]
    /\ depotOf' = [depotOf EXCEPT ![posted + 1] = d]
    /\ UNCHANGED <<calls, depots>>

MayPost(t, d) ==
    /\ pc[t] = "Out" \/ InCallback(t)
    /\ t \notin notifying
    /\ MayName(t, d)

(* Queued: the notification follows the unlock.                            *)
Post(t, d) ==
    /\ MayPost(t, d)
    /\ state = "Running"
    /\ queue' = queue \cup {posted + 1}
    /\ EnsureThread
    /\ Answer(d, "OK")
    /\ notifying' = notifying \cup {t}
    /\ UNCHANGED <<busy, busyDepot, state, flagVars, cancelled, closing, victim, readVars>>

(* Refused: a shutdown is in progress.                                     *)
PostRefused(t, d) ==
    /\ MayPost(t, d)
    /\ state = "Quiescing"
    /\ Answer(d, "CANCELLED")
    /\ UNCHANGED <<queueVars, flagVars, pc, localVars, readVars>>

(* push_back finds no memory, or the thread could not be started and the   *)
(* job is taken out again.                                                 *)
PostThrows_Queued(t, d) ==
    /\ MayPost(t, d)
    /\ state = "Running" /\ thread = NoOne
    /\ queue' = queue \cup {posted + 1}
    /\ Answer(d, "ERROR")
    /\ UNCHANGED <<thread, busy, busyDepot, state, flagVars, pc, localVars, readVars>>

PostThrows(t, d) ==
    /\ MayPost(t, d)
    /\ state = "Running"
    /\ queue' = (queue \cup {posted + 1}) \ {posted + 1}
    /\ Answer(d, "ERROR")
    /\ UNCHANGED <<thread, busy, busyDepot, state, flagVars, pc, localVars, readVars>>

(* cv_.notify_one() after the unlock.                                      *)
PostNotify_Forgotten(t) ==
    /\ t \in notifying
    /\ notifying' = notifying \ {t}
    /\ UNCHANGED <<queueVars, flagVars, pc, cancelled, closing, victim, readVars, hostVars>>

PostNotify(t) ==
    /\ t \in notifying
    /\ notifying' = notifying \ {t}
    /\ \/ \E w \in Workers : pc[w] = "IdleWait" /\ pc' = [pc EXCEPT ![w] = "Idle"]
       \/ (\A w \in Workers : pc[w] # "IdleWait") /\ UNCHANGED pc
    /\ UNCHANGED <<queueVars, flagVars, cancelled, closing, victim, readVars, hostVars>>

-----------------------------------------------------------------------------
(* redfs_drain and Worker::drain                                           *)

DrainCall(t) ==
    /\ AtCallSite(t)
    /\ pc' = IF OnWorkerThread(t) THEN pc ELSE [pc EXCEPT ![t] = "Drain"]
    /\ UNCHANGED <<queueVars, flagVars, localVars, readVars, hostVars>>

Drained_QueueOnly == queue = {}
Drained == queue = {} /\ ~busy

DrainWait(t) ==
    /\ pc[t] = "Drain"
    /\ pc' = [pc EXCEPT ![t] = IF Drained THEN Return(t) ELSE "DrainWait"]
    /\ UNCHANGED <<queueVars, flagVars, localVars, readVars, hostVars>>

-----------------------------------------------------------------------------
(* redfs_shutdown and Worker::stop                                         *)

(* The early return, or the store to abort_ that precedes the lock.        *)
StopCall(t) ==
    /\ AtCallSite(t)
    /\ \/ OnWorkerThread(t) /\ UNCHANGED <<pc, abort>>
       \/ /\ ~OnWorkerThread(t)
          /\ NoneExclusive
          /\ abort' = TRUE
          /\ pc' = [pc EXCEPT ![t] = "StopLock"]
    /\ UNCHANGED <<queueVars, workerId, localVars, readVars, hostVars>>

(* done_.wait(!busy_), then victim = move(thread_).  p is pc after the     *)
(* notifications sent on the way here.                                     *)
AwaitIdle(t, p) ==
    \/ /\ busy
       /\ pc' = [p EXCEPT ![t] = "StopWait"]
       /\ UNCHANGED <<thread, victim>>
    \/ /\ ~busy
       /\ pc' = [p EXCEPT ![t] = "StopNotify"]
       /\ victim' = [victim EXCEPT ![t] = thread]
       /\ thread' = NoOne

StopLock(t) ==
    /\ pc[t] = "StopLock"
    /\ state' = "Quiescing"
    /\ cancelled' = [cancelled EXCEPT ![t] = queue]
    /\ queue' = {}
    /\ AwaitIdle(t, WakeDone(WakeCv(pc)))
    /\ UNCHANGED <<busy, busyDepot, flagVars, notifying, closing, readVars, hostVars>>

StopCheck(t) ==
    /\ pc[t] = "StopCheck"
    /\ AwaitIdle(t, pc)
    /\ UNCHANGED <<queue, busy, busyDepot, state, flagVars, notifying, cancelled, closing,
                   readVars, hostVars>>

StopNotify(t) ==
    /\ pc[t] = "StopNotify"
    /\ pc' = [WakeCv(pc) EXCEPT ![t] = "StopJoin"]
    /\ UNCHANGED <<queueVars, flagVars, localVars, readVars, hostVars>>

(* victim.joinable() implies that join() has returned.                     *)
Joined_Detached(t) == TRUE
Joined(t) == victim[t] # NoOne => pc[victim[t]] = "Off"

StopJoin(t) ==
    /\ pc[t] = "StopJoin"
    /\ Joined(t)
    /\ pc' = [pc EXCEPT ![t] = "StopReport"]
    /\ victim' = [victim EXCEPT ![t] = NoOne]
    /\ UNCHANGED <<queueVars, flagVars, notifying, cancelled, closing, readVars, hostVars>>

(* One cancellation callback, on this thread.                              *)
FireCancelled(t) ==
    /\ \E j \in cancelled[t] :
          /\ \A k \in cancelled[t] : j <= k
          /\ cancelled' = [cancelled EXCEPT ![t] = @ \ {j}]
          /\ calls' = [calls EXCEPT ![j] = @ + 1]
    /\ UNCHANGED <<queueVars, flagVars, notifying, closing, victim, readVars,
                   answer, depotOf, posted, depots>>

StopReport(t) ==
    /\ pc[t] = "StopReport"
    /\ FireCancelled(t)
    /\ pc' = [pc EXCEPT ![t] = "StopCb"]

(* All reported: re-open under the lock, ...                               *)
StopReopen(t) ==
    /\ pc[t] = "StopReport"
    /\ cancelled[t] = {}
    /\ state' = "Running"
    /\ pc' = [pc EXCEPT ![t] = "StopClear"]
    /\ UNCHANGED <<queue, thread, busy, busyDepot, flagVars, localVars, readVars, hostVars>>

(* ... then clear abort_ outside it and notify.                            *)
StopClear(t) ==
    /\ pc[t] = "StopClear"
    /\ abort' = FALSE
    /\ pc' = [WakeDone(pc) EXCEPT ![t] = Return(t)]
    /\ UNCHANGED <<queueVars, workerId, localVars, readVars, hostVars>>

-----------------------------------------------------------------------------
(* redfs_depot_close and Worker::cancel_for                                *)

JobsOn(d) == {j \in queue : depotOf[j] = d}

(* The worker is inside a job that reads depot d.                          *)
InFlightOn_Other(d) == busy /\ busyDepot # d
InFlightOn(d) == busy /\ busyDepot = d

CloseCall(t, d) ==
    /\ AtCallSite(t)
    /\ NoneExclusive
    /\ depots[d] = "open"
    /\ depots' = [depots EXCEPT ![d] = "closing"]
    /\ closing' = [closing EXCEPT ![t] = d]
    /\ cancelled' = [cancelled EXCEPT ![t] = JobsOn(d)]
    /\ queue' = queue \ JobsOn(d)
    /\ \/ /\ ~OnWorkerThread(t) /\ InFlightOn(d)
          /\ abort' = TRUE
          /\ pc' = [WakeCv(pc) EXCEPT ![t] = "CloseWait"]
       \/ /\ OnWorkerThread(t) \/ ~InFlightOn(d)
          /\ pc' = [WakeDone(pc) EXCEPT ![t] = "CloseReport"]
          /\ UNCHANGED abort
    /\ UNCHANGED <<thread, busy, busyDepot, state, workerId, notifying, victim, readVars,
                   calls, answer, depotOf, posted>>

CloseCheck(t) ==
    /\ pc[t] = "CloseCheck"
    /\ \/ /\ InFlightOn(closing[t])
          /\ pc' = [pc EXCEPT ![t] = "CloseWait"]
          /\ UNCHANGED abort
       \/ /\ ~InFlightOn(closing[t])
          /\ abort' = FALSE
          /\ pc' = [WakeDone(pc) EXCEPT ![t] = "CloseReport"]
    /\ UNCHANGED <<queueVars, workerId, localVars, readVars, hostVars>>

CloseReport(t) ==
    /\ pc[t] = "CloseReport"
    /\ FireCancelled(t)
    /\ pc' = [pc EXCEPT ![t] = "CloseCb"]

(* delete depot                                                            *)
CloseDelete(t) ==
    /\ pc[t] = "CloseReport"
    /\ cancelled[t] = {}
    /\ depots' = [depots EXCEPT ![closing[t]] = "freed"]
    /\ closing' = [closing EXCEPT ![t] = NoOne]
    /\ pc' = [pc EXCEPT ![t] = Return(t)]
    /\ UNCHANGED <<queueVars, flagVars, notifying, cancelled, victim, readVars,
                   calls, answer, depotOf, posted>>

(* A cancellation callback returns to the loop that invoked it.            *)
CancelCbReturn(t) ==
    /\ t \notin notifying
    /\ \/ pc[t] = "StopCb" /\ pc' = [pc EXCEPT ![t] = "StopReport"]
       \/ pc[t] = "CloseCb" /\ pc' = [pc EXCEPT ![t] = "CloseReport"]
    /\ UNCHANGED <<queueVars, flagVars, localVars, readVars, hostVars>>

-----------------------------------------------------------------------------
(* Worker::run                                                             *)

RunStart(w) ==
    /\ pc[w] = "Start"
    /\ workerId' = w
    /\ pc' = [pc EXCEPT ![w] = "Idle"]
    /\ UNCHANGED <<queueVars, abort, localVars, readVars, hostVars>>

RunExit(w) ==
    /\ pc[w] = "Idle"
    /\ state = "Quiescing" /\ queue = {}
    /\ workerId' = NoOne
    /\ pc' = [pc EXCEPT ![w] = "Off"]
    /\ UNCHANGED <<queueVars, abort, localVars, readVars, hostVars>>

RunWait(w) ==
    /\ pc[w] = "Idle"
    /\ state = "Running" /\ queue = {}
    /\ pc' = [pc EXCEPT ![w] = "IdleWait"]
    /\ UNCHANGED <<queueVars, flagVars, localVars, readVars, hostVars>>

RunDequeue(w) ==
    /\ pc[w] = "Idle"
    /\ \E j \in queue :
          /\ \A k \in queue : j <= k
          /\ queue' = queue \ {j}
          /\ job' = [job EXCEPT ![w] = j]
          /\ busyDepot' = depotOf[j]
    /\ busy' = TRUE
    /\ pc' = [pc EXCEPT ![w] = "Size"]
    /\ UNCHANGED <<thread, state, flagVars, localVars, left, status, late, hostVars>>

(* The sizing pass of read_part and the allocation: neither can be         *)
(* aborted, either can fail.                                               *)
RunSize(w) ==
    /\ pc[w] = "Size"
    /\ \/ /\ \E n \in 1..MaxSegments : left' = [left EXCEPT ![w] = n]
          /\ pc' = [pc EXCEPT ![w] = "Check"]
          /\ UNCHANGED status
       \/ /\ status' = [status EXCEPT ![w] = "error"]
          /\ pc' = [pc EXCEPT ![w] = "Fire"]
          /\ UNCHANGED left
    /\ UNCHANGED <<queueVars, flagVars, localVars, job, late, hostVars>>

(* The loop head of read_part's second pass: done, aborted, or on.         *)
AllRead(w) == left[w] = 0

AbortSeen_Once(w) == abort /\ left[w] = MaxSegments
AbortSeen(w) == abort

ReadCheck(w) ==
    /\ pc[w] = "Check"
    /\ \/ /\ AllRead(w)
          /\ status' = [status EXCEPT ![w] = "ok"]
          /\ pc' = [pc EXCEPT ![w] = "Fire"]
       \/ /\ ~AllRead(w) /\ AbortSeen(w)
          /\ status' = [status EXCEPT ![w] = "cancelled"]
          /\ pc' = [pc EXCEPT ![w] = "Fire"]
       \/ /\ ~AllRead(w) /\ ~AbortSeen(w)
          /\ pc' = [pc EXCEPT ![w] = "Decode"]
          /\ UNCHANGED status
    /\ UNCHANGED <<queueVars, flagVars, localVars, job, left, late, hostVars>>

(* One segment is decoded, or found corrupt.                               *)
ReadDecode(w) ==
    /\ pc[w] = "Decode"
    /\ late' = [late EXCEPT ![w] = IF abort THEN @ + 1 ELSE @]
    /\ \/ /\ left' = [left EXCEPT ![w] = @ - 1]
          /\ pc' = [pc EXCEPT ![w] = "Check"]
          /\ UNCHANGED status
       \/ /\ status' = [status EXCEPT ![w] = "error"]
          /\ pc' = [pc EXCEPT ![w] = "Fire"]
          /\ UNCHANGED left
    /\ UNCHANGED <<queueVars, flagVars, localVars, job, hostVars>>

RunFire(w) ==
    /\ pc[w] = "Fire"
    /\ calls' = [calls EXCEPT ![job[w]] = @ + 1]
    /\ pc' = [pc EXCEPT ![w] = "Cb"]
    /\ UNCHANGED <<queueVars, flagVars, localVars, readVars, answer, depotOf, posted, depots>>

RunCbReturn(w) ==
    /\ pc[w] = "Cb"
    /\ w \notin notifying
    /\ pc' = [pc EXCEPT ![w] = "Done"]
    /\ UNCHANGED <<queueVars, flagVars, localVars, readVars, hostVars>>

(* Under the lock; the job's locals go out of scope with it.               *)
RunDone(w) ==
    /\ pc[w] = "Done"
    /\ busy' = FALSE
    /\ busyDepot' = NoOne
    /\ job' = [job EXCEPT ![w] = 0]
    /\ left' = [left EXCEPT ![w] = 0]
    /\ status' = [status EXCEPT ![w] = "none"]
    /\ late' = [late EXCEPT ![w] = 0]
    /\ pc' = [pc EXCEPT ![w] = "DoneNotify"]
    /\ UNCHANGED <<queue, thread, state, flagVars, localVars, hostVars>>

RunDoneNotify_Forgotten(w) ==
    /\ pc[w] = "DoneNotify"
    /\ pc' = [pc EXCEPT ![w] = "Idle"]
    /\ UNCHANGED <<queueVars, flagVars, localVars, readVars, hostVars>>

RunDoneNotify(w) ==
    /\ pc[w] = "DoneNotify"
    /\ pc' = [WakeDone(pc) EXCEPT ![w] = "Idle"]
    /\ UNCHANGED <<queueVars, flagVars, localVars, readVars, hostVars>>

-----------------------------------------------------------------------------
(* Steps a thread takes once it is inside RedFS or inside a callback.      *)
Step(t) ==
    \/ PostNotify(t) \/ DrainWait(t)
    \/ StopLock(t) \/ StopCheck(t) \/ StopNotify(t) \/ StopJoin(t)
    \/ StopReport(t) \/ StopReopen(t) \/ StopClear(t)
    \/ CloseCheck(t) \/ CloseReport(t) \/ CloseDelete(t) \/ CancelCbReturn(t)

Run(w) ==
    \/ RunStart(w) \/ RunExit(w) \/ RunWait(w) \/ RunDequeue(w)
    \/ RunSize(w) \/ ReadCheck(w) \/ ReadDecode(w)
    \/ RunFire(w) \/ RunCbReturn(w) \/ RunDone(w) \/ RunDoneNotify(w)

(* Calls the host makes, from its own threads or from inside a callback.   *)
Call(t) ==
    \/ DrainCall(t) \/ StopCall(t)
    \/ \E d \in Depots :
          Post(t, d) \/ PostRefused(t, d) \/ PostThrows(t, d) \/ CloseCall(t, d)

Next ==
    \/ \E t \in Threads : Step(t) \/ Call(t) \/ SpuriousWake(t)
    \/ \E w \in Workers : Run(w)

(* Every thread that can run eventually does, and callbacks return; the    *)
(* host is not obliged to call anything.                                   *)
Fairness ==
    /\ \A t \in Threads : WF_vars(Step(t))
    /\ \A w \in Workers : WF_vars(Run(w))

Spec == Init /\ [][Next]_vars
FairSpec == Spec /\ Fairness
-----------------------------------------------------------------------------
(* Properties.                                                             *)

(* Worker w holds job j and has not called its callback yet.               *)
Running(w, j) == job[w] = j /\ pc[w] \in ReadPcs \cup {"Fire"}

(* Some thread still owes job j its callback.                              *)
Held(j) ==
    \/ j \in queue
    \/ \E t \in Threads : j \in cancelled[t]
    \/ \E w \in Workers : Running(w, j)

(* redfs.h on redfs_read_async: REDFS_OK means the callback fires exactly  *)
(* once, any other answer that it never fires.  The safety half: at most   *)
(* once, never after a refusal or a failed thread start, and never         *)
(* forgotten, whichever of the worker, shutdown and close took the job     *)
(* out of the queue.                                                       *)
CallbackOnce ==
    \A j \in Jobs :
        /\ calls[j] <= 1
        /\ answer[j] # "OK" => calls[j] = 0 /\ ~Held(j)
        /\ answer[j] = "OK" => (calls[j] = 0 <=> Held(j))

(* cancel_for: a queued job, or one being read, never names a depot whose  *)
(* memory redfs_depot_close has released.                                  *)
NoDanglingDepot ==
    /\ \A j \in queue : depots[depotOf[j]] # "freed"
    /\ \A w \in Workers :
          pc[w] \in ReadPcs => depots[depotOf[job[w]]] # "freed"

(* stop(): from the join until it re-opens, and so while it calls the      *)
(* cancellation callbacks, no worker thread exists; at no time are there   *)
(* two.                                                                    *)
NoThreadOutlivesStop ==
    /\ \A v, w \in Workers : pc[v] # "Off" /\ pc[w] # "Off" => v = w
    /\ (\E t \in Threads : pc[t] \in {"StopReport", "StopCb"})
          => \A w \in Workers : pc[w] = "Off"

(* redfs.h: shutdown and close wait for one segment decode at most.  A     *)
(* read decodes no more than the segment it had begun when abort_ was set. *)
AbortWithinOneSegment == \A w \in Workers : late[w] <= 1

(* A read is cut short only while a shutdown or a close is in progress:    *)
(* abort_ never outlives the call that set it.                             *)
AbortHasOwner ==
    abort => \E t \in Threads :
                pc[t] \in StopPcs \cup {"CloseWait", "CloseCheck"}

(* on_worker_thread(): a callback that calls redfs_drain, redfs_shutdown   *)
(* or redfs_depot_close never waits for the job it is itself completing.   *)
CallbackNeverWaits ==
    \A w \in Workers :
        pc[w] \notin DrainPcs \cup StopPcs \cup {"CloseWait", "CloseCheck"}

(* redfs_drain: when it returns, each accepted job has had its callback or *)
(* is being reported by a thread inside shutdown or close.                 *)
DrainLeavesNothing ==
    [][\A t \in Threads :
          pc[t] = "Drain" /\ pc'[t] = Return(t) =>
              \A j \in Jobs : answer[j] = "OK" =>
                  calls[j] = 1 \/ \E u \in Threads : j \in cancelled[u]]_vars

(* The worker, its queue and its locks implement what redfs.h promises of  *)
(* asynchronous reads (module AsyncReads).                                 *)
Abstract ==
    INSTANCE AsyncReads WITH
        Depots <- Depots, MaxJobs <- MaxJobs, NoOne <- NoOne,
        posted <- posted, answer <- answer, depotOf <- depotOf, calls <- calls, depots <- depots
ImplementsAsyncReads == Abstract!Spec

(* A queued read always gets its callback.                                 *)
EveryJobCompletes ==
    \A j \in Jobs : answer[j] = "OK" ~> calls[j] = 1

(* redfs_drain, redfs_shutdown and redfs_depot_close always return.        *)
EveryCallReturns ==
    \A t \in Hosts : pc[t] # "Out" ~> pc[t] = "Out"

-----------------------------------------------------------------------------
(* What the documentation says and the code does not do.                   *)

(* cancel_for, on its abort flag: the worker "cannot pick one up and see a *)
(* stale abort -- which would cancel a job nobody asked to cancel".  A     *)
(* read cut short while a close waits is a read on the depot being closed. *)
NobodyElseCancelled ==
    [][\A w \in Workers, t \in Threads :
          /\ pc[w] = "Check" /\ pc'[w] = "Fire" /\ status'[w] = "cancelled"
          /\ pc[t] \in {"CloseWait", "CloseCheck"}
          => closing[t] = depotOf[job[w]]]_vars
=============================================================================
