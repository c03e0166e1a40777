---------------------------- MODULE WorkerProofs ----------------------------
(***************************************************************************)
(* Proofs about Worker for any number of host threads, worker identities,  *)
(* depots, jobs and segments.                                              *)
(***************************************************************************)
EXTENDS WorkerInv, TLAPS

(* Waking waiters moves them among the positions a thread can be at.       *)
LEMMA WakeType ==
    ASSUME NEW p \in [Threads -> CallPcs \cup WorkerPcs]
    PROVE  /\ WakeCv(p) \in [Threads -> CallPcs \cup WorkerPcs]
           /\ WakeDone(p) \in [Threads -> CallPcs \cup WorkerPcs]
  BY DEF WakeCv, WakeDone, CallPcs, WorkerPcs, StopPcs, ClosePcs, DrainPcs, BusyPcs, ReadPcs

(* The initial state is well typed.                                        *)
LEMMA InitType == Init => TypeOK /\ DecodeInv
<1>. SUFFICES ASSUME Init PROVE TypeOK /\ DecodeInv
  OBVIOUS
<1>. USE ConstantAssumption DEF Init
<1>1. MemberTypes  BY DEF MemberTypes
<1>2. LocalTypes   BY DEF LocalTypes, CallPcs, WorkerPcs
<1>3. ReadTypes    BY DEF ReadTypes, Outcomes
<1>4. HostTypes    BY DEF HostTypes, Answers
<1>5. DecodeInv    BY DEF DecodeInv, Threads
<1>. QED  BY <1>1, <1>2, <1>3, <1>4, <1>5 DEF TypeOK

(* So is every state a step leads to.                                      *)
LEMMA StepType == TypeOK /\ DecodeInv /\ [Next]_vars => (TypeOK /\ DecodeInv)'
<1>. SUFFICES ASSUME TypeOK, DecodeInv, [Next]_vars
              PROVE  (TypeOK /\ DecodeInv)'
  OBVIOUS
<1>. USE ConstantAssumption
<1>p. \A t \in Threads : Return(t) \in CallPcs \cup WorkerPcs /\ Return(t) # "Decode"
  BY DEF Return, CallPcs, WorkerPcs, BusyPcs
<1>q. Workers \subseteq Threads
  BY DEF Threads
<1>w. /\ WakeCv(pc) \in [Threads -> CallPcs \cup WorkerPcs]
      /\ WakeDone(pc) \in [Threads -> CallPcs \cup WorkerPcs]
      /\ WakeDone(WakeCv(pc)) \in [Threads -> CallPcs \cup WorkerPcs]
      /\ \A t \in Threads : /\ WakeCv(pc)[t] = "Decode" => pc[t] = "Decode"
                            /\ WakeDone(pc)[t] = "Decode" => pc[t] = "Decode"
                            /\ WakeDone(WakeCv(pc))[t] = "Decode" => pc[t] = "Decode"
  <2>1. pc \in [Threads -> CallPcs \cup WorkerPcs]
    BY DEF TypeOK, LocalTypes
  <2>2. WakeCv(pc) \in [Threads -> CallPcs \cup WorkerPcs]
    BY <2>1, WakeType
  <2>. QED  BY <2>1, <2>2, WakeType DEF WakeCv, WakeDone
<1>. USE <1>q DEF TypeOK, MemberTypes, LocalTypes, ReadTypes, HostTypes, DecodeInv,
                  queueVars, flagVars, localVars, readVars, hostVars
<1>1. ASSUME NEW t \in Threads, PostNotify(t) PROVE (TypeOK /\ DecodeInv)'
  BY <1>1 DEF PostNotify, WorkerPcs
<1>2. ASSUME NEW t \in Threads, DrainWait(t) PROVE (TypeOK /\ DecodeInv)'
  BY <1>2, <1>p DEF DrainWait, CallPcs, DrainPcs
<1>3. ASSUME NEW t \in Threads, StopLock(t) PROVE (TypeOK /\ DecodeInv)'
  <2>1. MemberTypes'  BY <1>3, <1>w DEF StopLock, AwaitIdle, CallPcs, StopPcs
  <2>2. LocalTypes'
    <3>1. "StopWait" \in CallPcs /\ "StopNotify" \in CallPcs
      BY DEF CallPcs, StopPcs
    <3>2. pc' \in [Threads -> CallPcs \cup WorkerPcs]
      <4>1. \E x \in CallPcs : pc' = [WakeDone(WakeCv(pc)) EXCEPT ![t] = x]
        BY <1>3, <3>1 DEF StopLock, AwaitIdle
      <4>2. PICK x \in CallPcs : pc' = [WakeDone(WakeCv(pc)) EXCEPT ![t] = x]
        BY <4>1
      <4>. HIDE DEF TypeOK, MemberTypes, LocalTypes, ReadTypes, HostTypes, DecodeInv
      <4>. QED  BY <4>2, <1>w
    <3>3. victim' \in [Threads -> Workers \cup {NoOne}]
      BY <1>3 DEF StopLock, AwaitIdle
    <3>4. /\ notifying' \subseteq Threads
          /\ cancelled' \in [Threads -> SUBSET Jobs]
          /\ closing' \in [Threads -> Depots \cup {NoOne}]
      BY <1>3 DEF StopLock
    <3>. QED  BY <3>2, <3>3, <3>4
  <2>3. ReadTypes'    BY <1>3, <1>w DEF StopLock, AwaitIdle, CallPcs, StopPcs
  <2>4. HostTypes'    BY <1>3, <1>w DEF StopLock, AwaitIdle, CallPcs, StopPcs
  <2>5. DecodeInv'    BY <1>3, <1>w DEF StopLock, AwaitIdle, CallPcs, StopPcs
  <2>. QED  BY <2>1, <2>2, <2>3, <2>4, <2>5
<1>4. ASSUME NEW t \in Threads, StopCheck(t) PROVE (TypeOK /\ DecodeInv)'
  BY <1>4 DEF StopCheck, AwaitIdle, CallPcs, StopPcs
<1>5. ASSUME NEW t \in Threads, StopNotify(t) PROVE (TypeOK /\ DecodeInv)'
  BY <1>5, <1>w DEF StopNotify, CallPcs, StopPcs
<1>6. ASSUME NEW t \in Threads, StopJoin(t) PROVE (TypeOK /\ DecodeInv)'
  BY <1>6 DEF StopJoin, CallPcs, StopPcs
<1>7. ASSUME NEW t \in Threads, StopReport(t) PROVE (TypeOK /\ DecodeInv)'
  BY <1>7 DEF StopReport, FireCancelled, CallPcs, StopPcs
<1>8. ASSUME NEW t \in Threads, StopReopen(t) PROVE (TypeOK /\ DecodeInv)'
  BY <1>8 DEF StopReopen, CallPcs, StopPcs
<1>9. ASSUME NEW t \in Threads, StopClear(t) PROVE (TypeOK /\ DecodeInv)'
  BY <1>9, <1>w, <1>p DEF StopClear
<1>10. ASSUME NEW t \in Threads, CloseCheck(t) PROVE (TypeOK /\ DecodeInv)'
  BY <1>10, <1>w DEF CloseCheck, CallPcs, ClosePcs
<1>11. ASSUME NEW t \in Threads, CloseReport(t) PROVE (TypeOK /\ DecodeInv)'
  BY <1>11 DEF CloseReport, FireCancelled, CallPcs, ClosePcs
<1>12. ASSUME NEW t \in Threads, CloseDelete(t) PROVE (TypeOK /\ DecodeInv)'
  BY <1>12, <1>p DEF CloseDelete
<1>13. ASSUME NEW t \in Threads, CancelCbReturn(t) PROVE (TypeOK /\ DecodeInv)'
  BY <1>13 DEF CancelCbReturn, CallPcs, StopPcs, ClosePcs
<1>14. ASSUME NEW t \in Threads, DrainCall(t) PROVE (TypeOK /\ DecodeInv)'
  BY <1>14 DEF DrainCall, CallPcs, DrainPcs
<1>15. ASSUME NEW t \in Threads, StopCall(t) PROVE (TypeOK /\ DecodeInv)'
  BY <1>15 DEF StopCall, CallPcs, StopPcs
<1>16. ASSUME NEW t \in Threads, SpuriousWake(t) PROVE (TypeOK /\ DecodeInv)'
  BY <1>16, <1>w DEF SpuriousWake
<1>17. ASSUME NEW t \in Threads, NEW d \in Depots, Post(t, d) PROVE (TypeOK /\ DecodeInv)'
  <2>1. MemberTypes'  BY <1>17 DEF Post, EnsureThread, Answer, Answers, Jobs, WorkerPcs
  <2>2. LocalTypes'   BY <1>17 DEF Post, EnsureThread, Answer, Answers, Jobs, WorkerPcs
  <2>3. ReadTypes'    BY <1>17 DEF Post, EnsureThread, Answer, Answers, Jobs, WorkerPcs
  <2>4. HostTypes'    BY <1>17 DEF Post, EnsureThread, Answer, Answers, Jobs, WorkerPcs
  <2>5. DecodeInv'    BY <1>17 DEF Post, EnsureThread, Answer, Answers, Jobs, WorkerPcs
  <2>. QED  BY <2>1, <2>2, <2>3, <2>4, <2>5
<1>18. ASSUME NEW t \in Threads, NEW d \in Depots, PostRefused(t, d) PROVE (TypeOK /\ DecodeInv)'
  BY <1>18 DEF PostRefused, Answer, Answers, Jobs
<1>19. ASSUME NEW t \in Threads, NEW d \in Depots, PostThrows(t, d) PROVE (TypeOK /\ DecodeInv)'
  BY <1>19 DEF PostThrows, Answer, Answers, Jobs
<1>20. ASSUME NEW t \in Threads, NEW d \in Depots, CloseCall(t, d) PROVE (TypeOK /\ DecodeInv)'
  BY <1>20, <1>w DEF CloseCall, JobsOn, CallPcs, ClosePcs
<1>21. ASSUME NEW w \in Workers, RunStart(w) PROVE (TypeOK /\ DecodeInv)'
  BY <1>21 DEF RunStart, WorkerPcs
<1>22. ASSUME NEW w \in Workers, RunExit(w) PROVE (TypeOK /\ DecodeInv)'
  BY <1>22 DEF RunExit, WorkerPcs
<1>23. ASSUME NEW w \in Workers, RunWait(w) PROVE (TypeOK /\ DecodeInv)'
  BY <1>23 DEF RunWait, WorkerPcs
<1>24. ASSUME NEW w \in Workers, RunDequeue(w) PROVE (TypeOK /\ DecodeInv)'
  BY <1>24 DEF RunDequeue, WorkerPcs, BusyPcs, ReadPcs
<1>25. ASSUME NEW w \in Workers, RunSize(w) PROVE (TypeOK /\ DecodeInv)'
  BY <1>25 DEF RunSize, WorkerPcs, BusyPcs, ReadPcs, Outcomes
<1>26. ASSUME NEW w \in Workers, ReadCheck(w) PROVE (TypeOK /\ DecodeInv)'
  BY <1>26 DEF ReadCheck, AllRead, WorkerPcs, BusyPcs, ReadPcs, Outcomes
<1>27. ASSUME NEW w \in Workers, ReadDecode(w) PROVE (TypeOK /\ DecodeInv)'
  BY <1>27 DEF ReadDecode, WorkerPcs, BusyPcs, ReadPcs, Outcomes
<1>28. ASSUME NEW w \in Workers, RunFire(w) PROVE (TypeOK /\ DecodeInv)'
  <2>1. MemberTypes'  BY <1>28 DEF RunFire, WorkerPcs, BusyPcs
  <2>2. LocalTypes'   BY <1>28 DEF RunFire, WorkerPcs, BusyPcs
  <2>3. ReadTypes'    BY <1>28 DEF RunFire, WorkerPcs, BusyPcs
  <2>4. HostTypes'
    <3>1. calls' \in [Jobs -> Nat]
      <4>1. \A j \in Jobs : calls[j] + 1 \in Nat
        OBVIOUS
      <4>. QED  BY <1>28, <4>1 DEF RunFire
    <3>. QED  BY <1>28, <3>1 DEF RunFire
  <2>5. DecodeInv'    BY <1>28 DEF RunFire, WorkerPcs, BusyPcs
  <2>. QED  BY <2>1, <2>2, <2>3, <2>4, <2>5
<1>29. ASSUME NEW w \in Workers, RunCbReturn(w) PROVE (TypeOK /\ DecodeInv)'
  BY <1>29 DEF RunCbReturn, WorkerPcs
<1>30. ASSUME NEW w \in Workers, RunDone(w) PROVE (TypeOK /\ DecodeInv)'
  <2>1. MemberTypes'  BY <1>30 DEF RunDone, WorkerPcs, Outcomes
  <2>2. LocalTypes'   BY <1>30 DEF RunDone, WorkerPcs, Outcomes
  <2>3. ReadTypes'    BY <1>30 DEF RunDone, WorkerPcs, Outcomes
  <2>4. HostTypes'    BY <1>30 DEF RunDone, WorkerPcs, Outcomes
  <2>5. DecodeInv'    BY <1>30 DEF RunDone, WorkerPcs, Outcomes
  <2>. QED  BY <2>1, <2>2, <2>3, <2>4, <2>5
<1>31. ASSUME NEW w \in Workers, RunDoneNotify(w) PROVE (TypeOK /\ DecodeInv)'
  BY <1>31, <1>w DEF RunDoneNotify, WorkerPcs
<1>32. CASE UNCHANGED vars
  BY <1>32 DEF vars
<1>. HIDE DEF TypeOK, DecodeInv, MemberTypes, LocalTypes, ReadTypes, HostTypes
<1>. QED
  BY <1>1, <1>2, <1>3, <1>4, <1>5, <1>6, <1>7, <1>8, <1>9, <1>10, <1>11, <1>12, <1>13, <1>14, <1>15, <1>16, <1>17, <1>18, <1>19, <1>20, <1>21, <1>22, <1>23, <1>24, <1>25, <1>26, <1>27, <1>28, <1>29, <1>30, <1>31, <1>32 DEF Next, Step, Call, Run

(* Every member and local of the worker keeps its kind of value, and no    *)
(* segment is decoded when none is left: the loop of read_part stops at    *)
(* its last segment.                                                       *)
THEOREM TypeCorrect == Spec => []TypeOK
<1>1. Init => TypeOK /\ DecodeInv
  BY InitType
<1>2. TypeOK /\ DecodeInv /\ [Next]_vars => (TypeOK /\ DecodeInv)'
  BY StepType
<1>. QED  BY <1>1, <1>2, PTL DEF Spec

(* Waking a waiter leaves it in the same part of the same call.            *)
Alike(x, y) ==
    /\ x \in CallPcs <=> y \in CallPcs
    /\ x \in WorkerPcs \cup {"CloseReport", "CloseCb"} <=> y \in WorkerPcs \cup {"CloseReport", "CloseCb"}
    /\ x \in ExclusivePcs <=> y \in ExclusivePcs
    /\ x \in StopPcs <=> y \in StopPcs
    /\ x \in QuiescePcs <=> y \in QuiescePcs
    /\ x \in MovedPcs <=> y \in MovedPcs
    /\ x \in BodyPcs <=> y \in BodyPcs
    /\ x \in OwingPcs <=> y \in OwingPcs
    /\ x \in ReportPcs <=> y \in ReportPcs
    /\ x \in BusyPcs <=> y \in BusyPcs
    /\ x \in ClosePcs <=> y \in ClosePcs
    /\ x \in {"CloseWait", "CloseCheck"} <=> y \in {"CloseWait", "CloseCheck"}
    /\ x = "StopLock" <=> y = "StopLock"
    /\ x = "StopClear" <=> y = "StopClear"
    /\ x = "Off" <=> y = "Off"
    /\ x = "Start" <=> y = "Start"
    /\ x = "Size" <=> y = "Size"
    /\ x = "Check" <=> y = "Check"
    /\ x = "Decode" <=> y = "Decode"
    /\ x = "StopNotify" <=> y = "StopNotify"
    /\ x = "StopJoin" <=> y = "StopJoin"

(* The two notify_all operations send every thread to a position alike.    *)
LEMMA WakeAlike ==
    ASSUME NEW p \in [Threads -> CallPcs \cup WorkerPcs], NEW t \in Threads
    PROVE  Alike(WakeCv(p)[t], p[t]) /\ Alike(WakeDone(p)[t], p[t])
  BY DEF WakeCv, WakeDone, Alike, CallPcs, WorkerPcs, StopPcs, ClosePcs, DrainPcs, BusyPcs,
         ReadPcs, OwingPcs, ExclusivePcs, ReportPcs, QuiescePcs, MovedPcs, BodyPcs

(* Lifted to the positions of all threads, for each combination the code   *)
(* uses.                                                                   *)
LEMMA WakeKeeps ==
    ASSUME TypeOK
    PROVE  /\ WakeCv(pc) \in [Threads -> CallPcs \cup WorkerPcs]
           /\ WakeDone(pc) \in [Threads -> CallPcs \cup WorkerPcs]
           /\ WakeDone(WakeCv(pc)) \in [Threads -> CallPcs \cup WorkerPcs]
           /\ \A t \in Threads : /\ Alike(WakeCv(pc)[t], pc[t])
                                 /\ Alike(WakeDone(pc)[t], pc[t])
                                 /\ Alike(WakeDone(WakeCv(pc))[t], pc[t])
<1>1. pc \in [Threads -> CallPcs \cup WorkerPcs]
  BY DEF TypeOK, LocalTypes
<1>2. WakeCv(pc) \in [Threads -> CallPcs \cup WorkerPcs]
  BY <1>1, WakeType
<1>3. \A t \in Threads : /\ Alike(WakeCv(pc)[t], pc[t])
                         /\ Alike(WakeDone(pc)[t], pc[t])
                         /\ Alike(WakeDone(WakeCv(pc))[t], WakeCv(pc)[t])
  BY <1>1, <1>2, WakeAlike
<1>. QED  BY <1>1, <1>2, <1>3, WakeType DEF Alike

(* ThreadInv is inductive relative to the types.                           *)
LEMMA StepThread == TypeOK /\ ThreadInv /\ [Next]_vars => ThreadInv'
<1>. SUFFICES ASSUME TypeOK, ThreadInv, [Next]_vars
              PROVE  ThreadInv'
  OBVIOUS
<1>. USE ConstantAssumption
<1>w. /\ WakeCv(pc) \in [Threads -> CallPcs \cup WorkerPcs]
      /\ WakeDone(pc) \in [Threads -> CallPcs \cup WorkerPcs]
      /\ WakeDone(WakeCv(pc)) \in [Threads -> CallPcs \cup WorkerPcs]
      /\ \A t \in Threads : /\ Alike(WakeCv(pc)[t], pc[t])
                            /\ Alike(WakeDone(pc)[t], pc[t])
                            /\ Alike(WakeDone(WakeCv(pc))[t], pc[t])
  BY WakeKeeps
<1>. USE DEF TypeOK, MemberTypes, LocalTypes, Threads, Alike,
             ThreadInv, Places, OneExclusive, QuiescingInStop, KnownWorker, OwnedWorker, BusyInBody,
             queueVars, flagVars, localVars, 
             CallPcs, WorkerPcs, StopPcs, ClosePcs, DrainPcs, BusyPcs,
             ReadPcs, ExclusivePcs, QuiescePcs, MovedPcs, BodyPcs
<1>1. ASSUME NEW t \in Threads, PostNotify(t) PROVE ThreadInv'
  BY <1>1 DEF PostNotify
<1>2. ASSUME NEW t \in Threads, DrainWait(t) PROVE ThreadInv'
  BY <1>2 DEF DrainWait, Return
<1>3. ASSUME NEW t \in Threads, StopLock(t) PROVE ThreadInv'
  BY <1>3, <1>w DEF StopLock, AwaitIdle
<1>4. ASSUME NEW t \in Threads, StopCheck(t) PROVE ThreadInv'
  BY <1>4 DEF StopCheck, AwaitIdle
<1>5. ASSUME NEW t \in Threads, StopNotify(t) PROVE ThreadInv'
  BY <1>5, <1>w DEF StopNotify
<1>6. ASSUME NEW t \in Threads, StopJoin(t) PROVE ThreadInv'
  BY <1>6 DEF StopJoin, Joined
<1>7. ASSUME NEW t \in Threads, StopReport(t) PROVE ThreadInv'
  BY <1>7 DEF StopReport, FireCancelled
<1>8. ASSUME NEW t \in Threads, StopReopen(t) PROVE ThreadInv'
  BY <1>8 DEF StopReopen
<1>9. ASSUME NEW t \in Threads, StopClear(t) PROVE ThreadInv'
  BY <1>9, <1>w DEF StopClear, Return
<1>10. ASSUME NEW t \in Threads, CloseCheck(t) PROVE ThreadInv'
  BY <1>10, <1>w DEF CloseCheck, InFlightOn
<1>11. ASSUME NEW t \in Threads, CloseReport(t) PROVE ThreadInv'
  BY <1>11 DEF CloseReport, FireCancelled
<1>12. ASSUME NEW t \in Threads, CloseDelete(t) PROVE ThreadInv'
  BY <1>12 DEF CloseDelete, Return
<1>13. ASSUME NEW t \in Threads, CancelCbReturn(t) PROVE ThreadInv'
  BY <1>13 DEF CancelCbReturn
<1>14. ASSUME NEW t \in Threads, DrainCall(t) PROVE ThreadInv'
  BY <1>14 DEF DrainCall, AtCallSite, Return, OnWorkerThread
<1>15. ASSUME NEW t \in Threads, StopCall(t) PROVE ThreadInv'
  BY <1>15 DEF StopCall, AtCallSite, Return, NoneExclusive, OnWorkerThread
<1>16. ASSUME NEW t \in Threads, SpuriousWake(t) PROVE ThreadInv'
  BY <1>16, <1>w DEF SpuriousWake
<1>17. ASSUME NEW t \in Threads, NEW d \in Depots, Post(t, d) PROVE ThreadInv'
  BY <1>17 DEF Post, EnsureThread, MayPost, InCallback, Answer
<1>18. ASSUME NEW t \in Threads, NEW d \in Depots, PostRefused(t, d) PROVE ThreadInv'
  BY <1>18 DEF PostRefused, Answer
<1>19. ASSUME NEW t \in Threads, NEW d \in Depots, PostThrows(t, d) PROVE ThreadInv'
  BY <1>19 DEF PostThrows, Answer
<1>20. ASSUME NEW t \in Threads, NEW d \in Depots, CloseCall(t, d) PROVE ThreadInv'
  BY <1>20, <1>w DEF CloseCall, JobsOn, AtCallSite, Return, NoneExclusive, OnWorkerThread, InFlightOn
<1>21. ASSUME NEW w \in Workers, RunStart(w) PROVE ThreadInv'
  BY <1>21 DEF RunStart
<1>22. ASSUME NEW w \in Workers, RunExit(w) PROVE ThreadInv'
  BY <1>22 DEF RunExit
<1>23. ASSUME NEW w \in Workers, RunWait(w) PROVE ThreadInv'
  BY <1>23 DEF RunWait
<1>24. ASSUME NEW w \in Workers, RunDequeue(w) PROVE ThreadInv'
  BY <1>24 DEF RunDequeue
<1>25. ASSUME NEW w \in Workers, RunSize(w) PROVE ThreadInv'
  BY <1>25 DEF RunSize
<1>26. ASSUME NEW w \in Workers, ReadCheck(w) PROVE ThreadInv'
  BY <1>26 DEF ReadCheck
<1>27. ASSUME NEW w \in Workers, ReadDecode(w) PROVE ThreadInv'
  BY <1>27 DEF ReadDecode
<1>28. ASSUME NEW w \in Workers, RunFire(w) PROVE ThreadInv'
  BY <1>28 DEF RunFire
<1>29. ASSUME NEW w \in Workers, RunCbReturn(w) PROVE ThreadInv'
  BY <1>29 DEF RunCbReturn
<1>30. ASSUME NEW w \in Workers, RunDone(w) PROVE ThreadInv'
  BY <1>30 DEF RunDone
<1>31. ASSUME NEW w \in Workers, RunDoneNotify(w) PROVE ThreadInv'
  BY <1>31, <1>w DEF RunDoneNotify
<1>32. CASE UNCHANGED vars
  BY <1>32 DEF vars
<1>. HIDE DEF ThreadInv
<1>. QED
  BY <1>1, <1>2, <1>3, <1>4, <1>5, <1>6, <1>7, <1>8, <1>9, <1>10, <1>11, <1>12, <1>13, <1>14, <1>15, <1>16, <1>17, <1>18, <1>19, <1>20, <1>21, <1>22, <1>23, <1>24, <1>25, <1>26, <1>27, <1>28, <1>29, <1>30, <1>31, <1>32 DEF Next, Step, Call, Run
(* Bookkeeping of one step: the jobs held stay the same, ...               *)
LEMMA OwedSame ==
    ASSUME HostTypes, Unposted, HeldIsOwed, UNCHANGED <<calls, answer, posted>>,
           \A j \in Jobs : Held(j)' <=> Held(j)
    PROVE  (Unposted /\ HeldIsOwed)'
  BY DEF Unposted, HeldIsOwed

(* ... or one of them gets its callback, ...                               *)
LEMMA OwedFire ==
    ASSUME HostTypes, Unposted, HeldIsOwed, UNCHANGED <<answer, posted>>,
           NEW k \in Jobs, Held(k), calls' = [calls EXCEPT ![k] = @ + 1],
           \A j \in Jobs : Held(j)' <=> (Held(j) /\ j # k)
    PROVE  (Unposted /\ HeldIsOwed)'
  BY DEF Unposted, HeldIsOwed, HostTypes

(* ... or one call of redfs_read_async is answered, OK exactly when the    *)
(* job is queued.                                                          *)
LEMMA OwedAnswer ==
    ASSUME HostTypes, Unposted, HeldIsOwed, NEW d, NEW a, Answer(d, a),
           \A j \in Jobs : Held(j)' <=> (Held(j) \/ (j = posted + 1 /\ a = "OK"))
    PROVE  (Unposted /\ HeldIsOwed)'
<1>. USE ConstantAssumption DEF HostTypes
<1>1. posted + 1 \in Jobs
  BY DEF Answer, Jobs
<1>2. /\ \A j \in Jobs : answer'[j] = IF j = posted + 1 THEN a ELSE answer[j]
      /\ posted' = posted + 1 /\ calls' = calls
  BY <1>1 DEF Answer
<1>3. answer[posted + 1] = "none" /\ ~Held(posted + 1) /\ calls[posted + 1] = 0
  BY <1>1 DEF Unposted, HeldIsOwed, Jobs
<1>4. Unposted'
  BY <1>2 DEF Unposted, Jobs
<1>5. HeldIsOwed'
  BY <1>1, <1>2, <1>3 DEF HeldIsOwed
<1>. QED  BY <1>4, <1>5

(* A step that moves no job and no worker into or out of one.              *)
LEMMA JobQuiet ==
    ASSUME HostTypes, JobInv, UNCHANGED <<queue, cancelled, calls, answer, posted, job>>,
           \A w \in Workers : /\ pc'[w] \in OwingPcs <=> pc[w] \in OwingPcs
                              /\ pc'[w] \in BodyPcs => pc[w] \in BodyPcs,
           \A t \in Threads : pc[t] \in ReportPcs => pc'[t] \in ReportPcs \/ cancelled[t] = {}
    PROVE  JobInv'
<1>1. \A j \in Jobs : Held(j)' <=> Held(j)
  BY DEF Held, Running, OwingPcs
<1>2. (Unposted /\ HeldIsOwed)'
  BY <1>1, OwedSame DEF JobInv
<1>3. OneHolder'
  BY DEF JobInv, OneHolder
<1>. QED  BY <1>2, <1>3 DEF JobInv

(* One cancellation callback.                                              *)
LEMMA JobCancel ==
    ASSUME TypeOK, ThreadInv, JobInv, NEW t \in Threads, FireCancelled(t),
           pc[t] \in ReportPcs, pc[t] \notin OwingPcs,
           NEW x \in ReportPcs, x \notin OwingPcs, x \in BodyPcs => pc[t] \in BodyPcs,
           pc' = [pc EXCEPT ![t] = x]
    PROVE  JobInv'
<1>. USE DEF TypeOK, LocalTypes, MemberTypes, ReadTypes
<1>1. PICK k \in cancelled[t] : /\ cancelled' = [cancelled EXCEPT ![t] = @ \ {k}]
                                /\ calls' = [calls EXCEPT ![k] = @ + 1]
  BY DEF FireCancelled
<1>2. UNCHANGED <<queue, job, answer, posted>>
  BY DEF FireCancelled, queueVars, readVars
<1>3. \A u \in Threads : u # t => k \notin cancelled[u]
  BY DEF ThreadInv, OneExclusive, JobInv, OneHolder, ReportPcs
<1>4. k \in Jobs /\ k \notin queue /\ \A w \in Workers : pc[w] \in OwingPcs => job[w] # k
  BY DEF JobInv, OneHolder
<1>w. Workers \subseteq Threads
  BY DEF Threads
<1>5. Held(k)
  BY DEF Held
<1>6. \A j \in Jobs : Held(j)' <=> (Held(j) /\ j # k)
  BY <1>1, <1>2, <1>3, <1>4, <1>w DEF Held, Running, OwingPcs
<1>7. (Unposted /\ HeldIsOwed)'
  BY <1>1, <1>2, <1>4, <1>5, <1>6, OwedFire DEF JobInv
<1>8. OneHolder'
  BY <1>1, <1>2, <1>w DEF JobInv, OneHolder
<1>. QED  BY <1>7, <1>8 DEF JobInv

(* JobInv is inductive relative to the types and ThreadInv.                *)
LEMMA StepJob == TypeOK /\ ThreadInv /\ JobInv /\ [Next]_vars => JobInv'
<1>. SUFFICES ASSUME TypeOK, ThreadInv, JobInv, [Next]_vars
              PROVE  JobInv'
  OBVIOUS
<1>. USE ConstantAssumption
<1>w. /\ WakeCv(pc) \in [Threads -> CallPcs \cup WorkerPcs]
      /\ WakeDone(pc) \in [Threads -> CallPcs \cup WorkerPcs]
      /\ WakeDone(WakeCv(pc)) \in [Threads -> CallPcs \cup WorkerPcs]
      /\ \A t \in Threads : /\ Alike(WakeCv(pc)[t], pc[t])
                            /\ Alike(WakeDone(pc)[t], pc[t])
                            /\ Alike(WakeDone(WakeCv(pc))[t], pc[t])
  BY WakeKeeps
<1>. USE DEF TypeOK, MemberTypes, LocalTypes, ReadTypes, Threads, Alike,
             ThreadInv, Places, OneExclusive, KnownWorker,
             queueVars, flagVars, localVars, readVars, hostVars,
             CallPcs, WorkerPcs, StopPcs, ClosePcs, DrainPcs, BusyPcs,
             ReadPcs, OwingPcs, ExclusivePcs, ReportPcs, BodyPcs
<1>1. ASSUME NEW t \in Threads, PostNotify(t) PROVE JobInv'
  BY <1>1, JobQuiet DEF PostNotify
<1>2. ASSUME NEW t \in Threads, DrainWait(t) PROVE JobInv'
  BY <1>2, JobQuiet DEF DrainWait, Return
<1>3. ASSUME NEW t \in Threads, StopLock(t) PROVE JobInv'
  <2>1. \A w \in Workers : /\ pc'[w] \in OwingPcs <=> pc[w] \in OwingPcs
                           /\ pc'[w] \in BodyPcs => pc[w] \in BodyPcs
    BY <1>3, <1>w DEF StopLock, AwaitIdle
  <2>2. pc'[t] \in ReportPcs /\ \A u \in Threads : pc'[u] \in ReportPcs => u = t
    BY <1>3, <1>w DEF StopLock, AwaitIdle
  <2>3. cancelled[t] = {} /\ \A u \in Threads : cancelled[u] = {}
    BY <1>3 DEF StopLock, JobInv, OneHolder
  <2>4. /\ queue' = {} /\ cancelled' = [cancelled EXCEPT ![t] = queue]
        /\ UNCHANGED <<job, calls, answer, posted>>
    BY <1>3 DEF StopLock, readVars, hostVars
  <2>. HIDE DEF ReportPcs, BodyPcs, OwingPcs
  <2>5. \A j \in Jobs : Held(j)' <=> Held(j)
    BY <2>1, <2>3, <2>4 DEF Held, Running, OwingPcs
  <2>6. OneHolder'
    BY <2>1, <2>2, <2>3, <2>4 DEF JobInv, OneHolder
  <2>. QED  BY <2>4, <2>5, <2>6, OwedSame DEF JobInv
<1>4. ASSUME NEW t \in Threads, StopCheck(t) PROVE JobInv'
  BY <1>4, JobQuiet DEF StopCheck, AwaitIdle
<1>5. ASSUME NEW t \in Threads, StopNotify(t) PROVE JobInv'
  BY <1>5, <1>w, JobQuiet DEF StopNotify
<1>6. ASSUME NEW t \in Threads, StopJoin(t) PROVE JobInv'
  BY <1>6, JobQuiet DEF StopJoin, Joined
<1>7. ASSUME NEW t \in Threads, StopReport(t) PROVE JobInv'
  <2>1. /\ "StopReport" \in ReportPcs \ (BodyPcs \cup OwingPcs)
        /\ "StopCb" \in ReportPcs \ (BodyPcs \cup OwingPcs)
    OBVIOUS
  <2>2. pc[t] = "StopReport" /\ FireCancelled(t) /\ pc' = [pc EXCEPT ![t] = "StopCb"]
    BY <1>7 DEF StopReport
  <2>. HIDE DEF ReportPcs, BodyPcs, OwingPcs, TypeOK, ThreadInv
  <2>. QED  BY <2>1, <2>2, JobCancel
<1>8. ASSUME NEW t \in Threads, StopReopen(t) PROVE JobInv'
  BY <1>8, JobQuiet DEF StopReopen
<1>9. ASSUME NEW t \in Threads, StopClear(t) PROVE JobInv'
  BY <1>9, <1>w, JobQuiet DEF StopClear, Return
<1>10. ASSUME NEW t \in Threads, CloseCheck(t) PROVE JobInv'
  BY <1>10, <1>w, JobQuiet DEF CloseCheck, InFlightOn
<1>11. ASSUME NEW t \in Threads, CloseReport(t) PROVE JobInv'
  <2>1. /\ "CloseReport" \in (ReportPcs \cap BodyPcs) \ OwingPcs
        /\ "CloseCb" \in (ReportPcs \cap BodyPcs) \ OwingPcs
    OBVIOUS
  <2>2. pc[t] = "CloseReport" /\ FireCancelled(t) /\ pc' = [pc EXCEPT ![t] = "CloseCb"]
    BY <1>11 DEF CloseReport
  <2>. HIDE DEF ReportPcs, BodyPcs, OwingPcs, TypeOK, ThreadInv
  <2>. QED  BY <2>1, <2>2, JobCancel
<1>12. ASSUME NEW t \in Threads, CloseDelete(t) PROVE JobInv'
  BY <1>12, JobQuiet DEF CloseDelete, Return
<1>13. ASSUME NEW t \in Threads, CancelCbReturn(t) PROVE JobInv'
  BY <1>13, JobQuiet DEF CancelCbReturn
<1>14. ASSUME NEW t \in Threads, DrainCall(t) PROVE JobInv'
  BY <1>14, JobQuiet DEF DrainCall, AtCallSite, Return, OnWorkerThread
<1>15. ASSUME NEW t \in Threads, StopCall(t) PROVE JobInv'
  BY <1>15, JobQuiet DEF StopCall, AtCallSite, Return, NoneExclusive, OnWorkerThread
<1>16. ASSUME NEW t \in Threads, SpuriousWake(t) PROVE JobInv'
  BY <1>16, <1>w, JobQuiet DEF SpuriousWake
<1>17. ASSUME NEW t \in Threads, NEW d \in Depots, Post(t, d) PROVE JobInv'
  <2>1. \A u \in Threads : /\ pc'[u] \in OwingPcs <=> pc[u] \in OwingPcs
                           /\ pc'[u] \in BodyPcs => pc[u] \in BodyPcs
                           /\ pc'[u] \in ReportPcs <=> pc[u] \in ReportPcs
    BY <1>17 DEF Post, EnsureThread
  <2>2. /\ queue' = queue \cup {posted + 1} /\ Answer(d, "OK")
        /\ UNCHANGED <<job, cancelled>>
    BY <1>17 DEF Post, readVars
  <2>3. posted + 1 \in Jobs /\ ~Held(posted + 1)
    BY <2>2 DEF Answer, Jobs, HostTypes, JobInv, Unposted
  <2>. HIDE DEF ReportPcs, BodyPcs, OwingPcs
  <2>5. \A j \in Jobs : Held(j)' <=> (Held(j) \/ (j = posted + 1 /\ "OK" = "OK"))
    BY <2>1, <2>2 DEF Held, Running, OwingPcs
  <2>6. OneHolder'
    BY <2>1, <2>2, <2>3 DEF JobInv, OneHolder, Held, Running, OwingPcs
  <2>. QED  BY <2>2, <2>5, <2>6, OwedAnswer DEF JobInv
<1>18. ASSUME NEW t \in Threads, NEW d \in Depots, PostRefused(t, d) PROVE JobInv'
  <2>1. Answer(d, "CANCELLED") /\ UNCHANGED <<queue, pc, cancelled, job>>
    BY <1>18 DEF PostRefused
  <2>2. \A j \in Jobs : Held(j)' <=> (Held(j) \/ (j = posted + 1 /\ "CANCELLED" = "OK"))
    BY <2>1 DEF Held, Running
  <2>3. OneHolder'
    BY <2>1 DEF JobInv, OneHolder
  <2>. QED  BY <2>1, <2>2, <2>3, OwedAnswer DEF JobInv
<1>19. ASSUME NEW t \in Threads, NEW d \in Depots, PostThrows(t, d) PROVE JobInv'
  <2>1. /\ Answer(d, "ERROR") /\ UNCHANGED <<pc, cancelled, job>>
        /\ queue' = (queue \cup {posted + 1}) \ {posted + 1}
    BY <1>19 DEF PostThrows
  <2>2. posted + 1 \in Jobs /\ posted + 1 \notin queue
    BY <2>1 DEF Answer, Jobs, HostTypes, JobInv, Unposted, Held
  <2>3. queue' = queue
    BY <2>1, <2>2
  <2>4. \A j \in Jobs : Held(j)' <=> (Held(j) \/ (j = posted + 1 /\ "ERROR" = "OK"))
    BY <2>1, <2>3 DEF Held, Running
  <2>5. OneHolder'
    BY <2>1, <2>3 DEF JobInv, OneHolder
  <2>. QED  BY <2>1, <2>4, <2>5, OwedAnswer DEF JobInv
<1>20. ASSUME NEW t \in Threads, NEW d \in Depots, CloseCall(t, d) PROVE JobInv'
  <2>1. \A w \in Workers : /\ pc'[w] \in OwingPcs <=> pc[w] \in OwingPcs
                           /\ pc'[w] \in BodyPcs => pc[w] \in BodyPcs
    BY <1>20, <1>w DEF CloseCall, AtCallSite, Return
  <2>2. pc'[t] \in ReportPcs
    BY <1>20, <1>w DEF CloseCall
  <2>3. \A u \in Threads : cancelled[u] = {}
    BY <1>20 DEF CloseCall, NoneExclusive, JobInv, OneHolder
  <2>4. /\ JobsOn(d) \subseteq queue
        /\ queue' = queue \ JobsOn(d) /\ cancelled' = [cancelled EXCEPT ![t] = JobsOn(d)]
        /\ UNCHANGED <<job, calls, answer, posted>>
    BY <1>20 DEF CloseCall, JobsOn, readVars
  <2>. HIDE DEF ReportPcs, BodyPcs, OwingPcs
  <2>5. \A j \in Jobs : Held(j)' <=> Held(j)
    BY <2>1, <2>3, <2>4 DEF Held, Running, OwingPcs
  <2>6. OneHolder'
    BY <2>1, <2>2, <2>3, <2>4 DEF JobInv, OneHolder
  <2>. QED  BY <2>4, <2>5, <2>6, OwedSame DEF JobInv
<1>21. ASSUME NEW w \in Workers, RunStart(w) PROVE JobInv'
  BY <1>21, JobQuiet DEF RunStart
<1>22. ASSUME NEW w \in Workers, RunExit(w) PROVE JobInv'
  BY <1>22, JobQuiet DEF RunExit
<1>23. ASSUME NEW w \in Workers, RunWait(w) PROVE JobInv'
  BY <1>23, JobQuiet DEF RunWait
<1>24. ASSUME NEW w \in Workers, RunDequeue(w) PROVE JobInv'
  <2>1. PICK k \in queue : queue' = queue \ {k} /\ job' = [job EXCEPT ![w] = k]
    BY <1>24 DEF RunDequeue
  <2>2. k \in Jobs /\ Held(k)
    BY <2>1 DEF Held
  <2>3. \A v \in Workers : pc[v] \notin OwingPcs /\ pc[v] \notin BodyPcs
    BY <1>24 DEF RunDequeue
  <2>4. /\ pc'[w] \in OwingPcs /\ \A u \in Threads : u # w => pc'[u] = pc[u]
        /\ pc[w] \notin ReportPcs /\ UNCHANGED <<cancelled, calls, answer, posted>>
    BY <1>24 DEF RunDequeue
  <2>5. \A v \in Workers : v # w => pc'[v] \notin OwingPcs /\ pc'[v] \notin BodyPcs
    BY <2>3, <2>4
  <2>. HIDE DEF ReportPcs, BodyPcs, OwingPcs
  <2>6. \A j \in Jobs : Held(j)' <=> Held(j)
    BY <2>1, <2>2, <2>3, <2>4, <2>5 DEF Held, Running, OwingPcs
  <2>7. OneHolder'
    BY <2>1, <2>2, <2>4, <2>5 DEF JobInv, OneHolder
  <2>. QED  BY <2>4, <2>6, <2>7, OwedSame DEF JobInv
<1>25. ASSUME NEW w \in Workers, RunSize(w) PROVE JobInv'
  BY <1>25, JobQuiet DEF RunSize
<1>26. ASSUME NEW w \in Workers, ReadCheck(w) PROVE JobInv'
  BY <1>26, JobQuiet DEF ReadCheck
<1>27. ASSUME NEW w \in Workers, ReadDecode(w) PROVE JobInv'
  BY <1>27, JobQuiet DEF ReadDecode
<1>28. ASSUME NEW w \in Workers, RunFire(w) PROVE JobInv'
  <2>1. /\ pc[w] \in OwingPcs /\ pc'[w] \notin OwingPcs /\ pc'[w] \in BodyPcs
        /\ pc[w] \in BodyPcs /\ pc[w] \notin ReportPcs
        /\ \A u \in Threads : u # w => pc'[u] = pc[u]
    BY <1>28 DEF RunFire
  <2>2. \A v \in Workers : pc[v] \in OwingPcs => v = w
    BY <1>28 DEF RunFire
  <2>3. calls' = [calls EXCEPT ![job[w]] = @ + 1] /\ UNCHANGED <<queue, cancelled, job, answer, posted>>
    BY <1>28 DEF RunFire
  <2>. HIDE DEF ReportPcs, BodyPcs, OwingPcs
  <2>4. /\ job[w] \in Jobs /\ job[w] \notin queue
        /\ \A t \in Threads : job[w] \notin cancelled[t]
    BY <2>1 DEF JobInv, OneHolder
  <2>5. Held(job[w])
    BY <2>1 DEF Held, Running, OwingPcs
  <2>6. \A j \in Jobs : Held(j)' <=> (Held(j) /\ j # job[w])
    BY <2>1, <2>2, <2>3, <2>4 DEF Held, Running, OwingPcs
  <2>7. OneHolder'
    BY <2>1, <2>3 DEF JobInv, OneHolder
  <2>. QED  BY <2>3, <2>4, <2>5, <2>6, <2>7, OwedFire DEF JobInv
<1>29. ASSUME NEW w \in Workers, RunCbReturn(w) PROVE JobInv'
  BY <1>29, JobQuiet DEF RunCbReturn
<1>30. ASSUME NEW w \in Workers, RunDone(w) PROVE JobInv'
  <2>1. /\ pc[w] \notin OwingPcs /\ pc'[w] \notin BodyPcs /\ pc'[w] \notin OwingPcs
        /\ \A u \in Threads : u # w => pc'[u] = pc[u]
        /\ pc[w] \notin ReportPcs
    BY <1>30 DEF RunDone
  <2>2. /\ \A v \in Workers : v # w => job'[v] = job[v]
        /\ UNCHANGED <<queue, cancelled, calls, answer, posted>>
    BY <1>30 DEF RunDone
  <2>. HIDE DEF ReportPcs, BodyPcs, OwingPcs
  <2>3. \A j \in Jobs : Held(j)' <=> Held(j)
    BY <2>1, <2>2 DEF Held, Running, OwingPcs
  <2>4. OneHolder'
    BY <2>1, <2>2 DEF JobInv, OneHolder
  <2>. QED  BY <2>2, <2>3, <2>4, OwedSame DEF JobInv
<1>31. ASSUME NEW w \in Workers, RunDoneNotify(w) PROVE JobInv'
  BY <1>31, <1>w, JobQuiet DEF RunDoneNotify
<1>32. CASE UNCHANGED vars
  BY <1>32, JobQuiet DEF vars
<1>. HIDE DEF JobInv
<1>. QED
  BY <1>1, <1>2, <1>3, <1>4, <1>5, <1>6, <1>7, <1>8, <1>9, <1>10, <1>11, <1>12, <1>13, <1>14, <1>15, <1>16, <1>17, <1>18, <1>19, <1>20, <1>21, <1>22, <1>23, <1>24, <1>25, <1>26, <1>27, <1>28, <1>29, <1>30, <1>31, <1>32 DEF Next, Step, Call, Run

(* AbortInv is inductive relative to the types and ThreadInv.              *)
LEMMA StepAbort == TypeOK /\ ThreadInv /\ AbortInv /\ [Next]_vars => AbortInv'
<1>. SUFFICES ASSUME TypeOK, ThreadInv, AbortInv, [Next]_vars
              PROVE  AbortInv'
  OBVIOUS
<1>. USE ConstantAssumption
<1>w. /\ WakeCv(pc) \in [Threads -> CallPcs \cup WorkerPcs]
      /\ WakeDone(pc) \in [Threads -> CallPcs \cup WorkerPcs]
      /\ WakeDone(WakeCv(pc)) \in [Threads -> CallPcs \cup WorkerPcs]
      /\ \A t \in Threads : /\ Alike(WakeCv(pc)[t], pc[t])
                            /\ Alike(WakeDone(pc)[t], pc[t])
                            /\ Alike(WakeDone(WakeCv(pc))[t], pc[t])
  BY WakeKeeps
<1>. USE DEF TypeOK, MemberTypes, LocalTypes, ReadTypes, Threads, Alike,
             ThreadInv, Places, OneExclusive, KnownWorker, OwnedWorker, BusyInBody,
             AbortInv, AbortHasOwner,
             queueVars, flagVars, localVars, readVars, hostVars,
             CallPcs, WorkerPcs, StopPcs, ClosePcs, DrainPcs, BusyPcs,
             ReadPcs, OwingPcs, ExclusivePcs, MovedPcs, BodyPcs
<1>1. ASSUME NEW t \in Threads, PostNotify(t) PROVE AbortInv'
  BY <1>1 DEF PostNotify
<1>2. ASSUME NEW t \in Threads, DrainWait(t) PROVE AbortInv'
  BY <1>2 DEF DrainWait, Return
<1>3. ASSUME NEW t \in Threads, StopLock(t) PROVE AbortInv'
  BY <1>3, <1>w DEF StopLock, AwaitIdle
<1>4. ASSUME NEW t \in Threads, StopCheck(t) PROVE AbortInv'
  BY <1>4 DEF StopCheck, AwaitIdle
<1>5. ASSUME NEW t \in Threads, StopNotify(t) PROVE AbortInv'
  BY <1>5, <1>w DEF StopNotify
<1>6. ASSUME NEW t \in Threads, StopJoin(t) PROVE AbortInv'
  BY <1>6 DEF StopJoin, Joined
<1>7. ASSUME NEW t \in Threads, StopReport(t) PROVE AbortInv'
  BY <1>7 DEF StopReport, FireCancelled
<1>8. ASSUME NEW t \in Threads, StopReopen(t) PROVE AbortInv'
  BY <1>8 DEF StopReopen
<1>9. ASSUME NEW t \in Threads, StopClear(t) PROVE AbortInv'
  BY <1>9, <1>w DEF StopClear, Return
<1>10. ASSUME NEW t \in Threads, CloseCheck(t) PROVE AbortInv'
  <2>1. CASE InFlightOn(closing[t])
    BY <1>10, <2>1 DEF CloseCheck
  <2>2. CASE ~InFlightOn(closing[t])
    <3>1. \A u \in Threads : u # t => pc[u] \notin ExclusivePcs
      BY <1>10 DEF CloseCheck
    <3>2. \A u \in Threads : pc'[u] \notin StopPcs \cup {"CloseWait", "CloseCheck"}
      BY <1>10, <2>2, <3>1, <1>w DEF CloseCheck
    <3>3. \A w \in Workers : pc[w] # "Decode" /\ late[w] = 0
      BY <1>10, <2>2 DEF CloseCheck, InFlightOn
    <3>4. \A w \in Workers : late'[w] = 0
      BY <1>10, <3>3 DEF CloseCheck
    <3>5. abort' = FALSE
      BY <1>10, <2>2 DEF CloseCheck
    <3>6. \A u \in Threads : pc'[u] # "StopClear"
      BY <3>2
    <3>. HIDE DEF StopPcs, BodyPcs, ThreadInv, TypeOK
    <3>. QED  BY <3>2, <3>4, <3>5, <3>6
  <2>. QED  BY <2>1, <2>2
<1>11. ASSUME NEW t \in Threads, CloseReport(t) PROVE AbortInv'
  BY <1>11 DEF CloseReport, FireCancelled
<1>12. ASSUME NEW t \in Threads, CloseDelete(t) PROVE AbortInv'
  BY <1>12 DEF CloseDelete, Return
<1>13. ASSUME NEW t \in Threads, CancelCbReturn(t) PROVE AbortInv'
  BY <1>13 DEF CancelCbReturn
<1>14. ASSUME NEW t \in Threads, DrainCall(t) PROVE AbortInv'
  BY <1>14 DEF DrainCall, AtCallSite, Return, OnWorkerThread
<1>15. ASSUME NEW t \in Threads, StopCall(t) PROVE AbortInv'
  BY <1>15 DEF StopCall, AtCallSite, Return, NoneExclusive, OnWorkerThread
<1>16. ASSUME NEW t \in Threads, SpuriousWake(t) PROVE AbortInv'
  BY <1>16, <1>w DEF SpuriousWake
<1>17. ASSUME NEW t \in Threads, NEW d \in Depots, Post(t, d) PROVE AbortInv'
  BY <1>17 DEF Post, EnsureThread, MayPost, InCallback, Answer
<1>18. ASSUME NEW t \in Threads, NEW d \in Depots, PostRefused(t, d) PROVE AbortInv'
  BY <1>18 DEF PostRefused, Answer
<1>19. ASSUME NEW t \in Threads, NEW d \in Depots, PostThrows(t, d) PROVE AbortInv'
  BY <1>19 DEF PostThrows, Answer
<1>20. ASSUME NEW t \in Threads, NEW d \in Depots, CloseCall(t, d) PROVE AbortInv'
  BY <1>20, <1>w DEF CloseCall, JobsOn, AtCallSite, Return, NoneExclusive, OnWorkerThread, InFlightOn
<1>21. ASSUME NEW w \in Workers, RunStart(w) PROVE AbortInv'
  BY <1>21 DEF RunStart
<1>22. ASSUME NEW w \in Workers, RunExit(w) PROVE AbortInv'
  BY <1>22 DEF RunExit
<1>23. ASSUME NEW w \in Workers, RunWait(w) PROVE AbortInv'
  BY <1>23 DEF RunWait
<1>24. ASSUME NEW w \in Workers, RunDequeue(w) PROVE AbortInv'
  BY <1>24 DEF RunDequeue
<1>25. ASSUME NEW w \in Workers, RunSize(w) PROVE AbortInv'
  BY <1>25 DEF RunSize
<1>26. ASSUME NEW w \in Workers, ReadCheck(w) PROVE AbortInv'
  BY <1>26 DEF ReadCheck, AllRead, AbortSeen
<1>27. ASSUME NEW w \in Workers, ReadDecode(w) PROVE AbortInv'
  BY <1>27 DEF ReadDecode
<1>28. ASSUME NEW w \in Workers, RunFire(w) PROVE AbortInv'
  BY <1>28 DEF RunFire
<1>29. ASSUME NEW w \in Workers, RunCbReturn(w) PROVE AbortInv'
  BY <1>29 DEF RunCbReturn
<1>30. ASSUME NEW w \in Workers, RunDone(w) PROVE AbortInv'
  BY <1>30 DEF RunDone
<1>31. ASSUME NEW w \in Workers, RunDoneNotify(w) PROVE AbortInv'
  BY <1>31, <1>w DEF RunDoneNotify
<1>32. CASE UNCHANGED vars
  BY <1>32 DEF vars
<1>. HIDE DEF AbortInv
<1>. QED
  BY <1>1, <1>2, <1>3, <1>4, <1>5, <1>6, <1>7, <1>8, <1>9, <1>10, <1>11, <1>12, <1>13, <1>14, <1>15, <1>16, <1>17, <1>18, <1>19, <1>20, <1>21, <1>22, <1>23, <1>24, <1>25, <1>26, <1>27, <1>28, <1>29, <1>30, <1>31, <1>32 DEF Next, Step, Call, Run

(* A step that touches no depot and moves no job into a worker.            *)
LEMMA DepotQuiet ==
    ASSUME DepotInv, UNCHANGED <<queue, closing, answer, depotOf, depots>>,
           \A w \in Workers : pc'[w] \in OwingPcs => busyDepot' = busyDepot /\ job'[w] = job[w],
           \A t \in Threads : /\ pc'[t] \in OwingPcs => pc[t] \in OwingPcs
                              /\ pc'[t] \in ClosePcs <=> pc[t] \in ClosePcs
                              /\ pc[t] \in {"CloseWait", "CloseCheck"} => pc'[t] \in {"CloseWait", "CloseCheck"}
    PROVE  DepotInv'
  BY DEF DepotInv, Threads

(* DepotInv is inductive relative to the others, for hosts that do not     *)
(* chain reads onto a depot being closed.                                  *)
LEMMA StepDepot ==
    ASSUME ~ChainIntoClose
    PROVE  TypeOK /\ ThreadInv /\ JobInv /\ DepotInv /\ [Next]_vars => DepotInv'
<1>. SUFFICES ASSUME TypeOK, ThreadInv, JobInv, DepotInv, [Next]_vars
              PROVE  DepotInv'
  OBVIOUS
<1>. USE ConstantAssumption
<1>w. /\ WakeCv(pc) \in [Threads -> CallPcs \cup WorkerPcs]
      /\ WakeDone(pc) \in [Threads -> CallPcs \cup WorkerPcs]
      /\ WakeDone(WakeCv(pc)) \in [Threads -> CallPcs \cup WorkerPcs]
      /\ \A t \in Threads : /\ Alike(WakeCv(pc)[t], pc[t])
                            /\ Alike(WakeDone(pc)[t], pc[t])
                            /\ Alike(WakeDone(WakeCv(pc))[t], pc[t])
  BY WakeKeeps
<1>j. /\ \A j \in queue : depotOf[j] \in Depots
      /\ \A w \in Workers : pc[w] \in OwingPcs => depotOf[job[w]] \in Depots /\ job[w] \in Jobs
  BY DEF TypeOK, MemberTypes, JobInv, HeldIsOwed, OneHolder, Held, Running, DepotInv, OwingPcs, BodyPcs, BusyPcs
<1>k. posted < MaxJobs => /\ posted + 1 \in Jobs
                          /\ \A w \in Workers : pc[w] \in OwingPcs => job[w] # posted + 1
  BY <1>j DEF TypeOK, HostTypes, JobInv, Unposted, Held, Running, OwingPcs, Jobs
<1>. USE <1>j, <1>k DEF TypeOK, MemberTypes, LocalTypes, ReadTypes, HostTypes, Threads, Alike,
             ThreadInv, Places, OneExclusive, KnownWorker, OwnedWorker, BusyInBody,
             DepotInv,
             queueVars, flagVars, localVars, readVars, hostVars,
             CallPcs, WorkerPcs, StopPcs, ClosePcs, DrainPcs, BusyPcs,
             ReadPcs, OwingPcs, ExclusivePcs, MovedPcs, BodyPcs
<1>1. ASSUME NEW t \in Threads, PostNotify(t) PROVE DepotInv'
  BY <1>1 DEF PostNotify
<1>2. ASSUME NEW t \in Threads, DrainWait(t) PROVE DepotInv'
  BY <1>2 DEF DrainWait, Return
<1>3. ASSUME NEW t \in Threads, StopLock(t) PROVE DepotInv'
  <2>1. /\ queue' = {} /\ UNCHANGED <<busyDepot, closing, job, answer, depotOf, depots>>
        /\ pc[t] = "StopLock"
        /\ pc' = [WakeDone(WakeCv(pc)) EXCEPT ![t] = IF busy THEN "StopWait" ELSE "StopNotify"]
    BY <1>3 DEF StopLock, AwaitIdle
  <2>2. \A u \in Threads : /\ pc'[u] \in OwingPcs <=> pc[u] \in OwingPcs
                           /\ pc'[u] \in ClosePcs <=> pc[u] \in ClosePcs
                           /\ pc[u] \in {"CloseWait", "CloseCheck"} => pc'[u] \in {"CloseWait", "CloseCheck"}
    BY <2>1, <1>w
  <2>. HIDE DEF OwingPcs, ClosePcs
  <2>. QED  BY <2>1, <2>2
<1>4. ASSUME NEW t \in Threads, StopCheck(t) PROVE DepotInv'
  BY <1>4 DEF StopCheck, AwaitIdle
<1>5. ASSUME NEW t \in Threads, StopNotify(t) PROVE DepotInv'
  BY <1>5, <1>w DEF StopNotify
<1>6. ASSUME NEW t \in Threads, StopJoin(t) PROVE DepotInv'
  BY <1>6 DEF StopJoin, Joined
<1>7. ASSUME NEW t \in Threads, StopReport(t) PROVE DepotInv'
  BY <1>7 DEF StopReport, FireCancelled
<1>8. ASSUME NEW t \in Threads, StopReopen(t) PROVE DepotInv'
  BY <1>8 DEF StopReopen
<1>9. ASSUME NEW t \in Threads, StopClear(t) PROVE DepotInv'
  BY <1>9, <1>w, DepotQuiet DEF StopClear, Return
<1>10. ASSUME NEW t \in Threads, CloseCheck(t) PROVE DepotInv'
  <2>1. \A u \in Threads : u # t => pc[u] \notin ClosePcs
    BY <1>10 DEF CloseCheck
  <2>2. CASE InFlightOn(closing[t])
    BY <1>10, <2>2, DepotQuiet DEF CloseCheck
  <2>3. CASE ~InFlightOn(closing[t])
    <3>1. /\ pc[t] = "CloseCheck" /\ pc' = [WakeDone(pc) EXCEPT ![t] = "CloseReport"]
          /\ UNCHANGED <<queue, busyDepot, closing, job, answer, depotOf, depots>>
      BY <1>10, <2>3 DEF CloseCheck
    <3>2. /\ \A u \in Threads : pc'[u] \in ClosePcs <=> pc[u] \in ClosePcs
          /\ \A w \in Workers : pc'[w] \in OwingPcs => pc[w] \in OwingPcs
      BY <3>1, <2>1, <1>w
    <3>3. \A w \in Workers : pc[w] \in OwingPcs => depotOf[job[w]] # closing[t]
      BY <2>3 DEF InFlightOn
    <3>4. \A w \in Workers : pc[w] \in OwingPcs => depots[depotOf[job[w]]] = "open"
      BY <2>1, <3>3
    <3>. HIDE DEF OwingPcs, ClosePcs
    <3>. QED  BY <3>1, <3>2, <3>4
  <2>. QED  BY <2>2, <2>3
<1>11. ASSUME NEW t \in Threads, CloseReport(t) PROVE DepotInv'
  BY <1>11, DepotQuiet DEF CloseReport, FireCancelled
<1>12. ASSUME NEW t \in Threads, CloseDelete(t) PROVE DepotInv'
  <2>. DEFINE e == closing[t]
  <2>1. /\ e \in Depots /\ depots' = [depots EXCEPT ![e] = "freed"] /\ depots[e] = "closing"
        /\ pc' = [pc EXCEPT ![t] = Return(t)] /\ closing' = [closing EXCEPT ![t] = NoOne]
        /\ pc[t] = "CloseReport"
        /\ UNCHANGED <<queue, busyDepot, job, answer, depotOf>>
    BY <1>12 DEF CloseDelete
  <2>2. \A u \in Threads : u # t => closing[u] = NoOne /\ pc[u] \notin ClosePcs
    BY <2>1
  <2>3. Return(t) \notin ClosePcs /\ Return(t) \notin OwingPcs /\ pc[t] \in ClosePcs /\ pc[t] \notin OwingPcs
    BY <2>1 DEF Return
  <2>4. \A w \in Workers : pc[w] \in OwingPcs => depots[depotOf[job[w]]] = "open"
    BY <2>1, <2>2
  <2>5. \A w \in Workers : pc'[w] \in OwingPcs => pc[w] \in OwingPcs /\ depots'[depotOf[job[w]]] = "open"
    BY <2>1, <2>3, <2>4
  <2>6. \A j \in queue : depots'[depotOf[j]] = "open"
    BY <2>1
  <2>7. \A u \in Threads : pc'[u] \in ClosePcs <=> closing'[u] # NoOne
    BY <2>1, <2>2, <2>3
  <2>8. \A u \in Threads : closing'[u] = NoOne
    BY <2>1, <2>2
  <2>. HIDE DEF OwingPcs, ClosePcs
  <2>. QED  BY <2>1, <2>5, <2>6, <2>7, <2>8
<1>13. ASSUME NEW t \in Threads, CancelCbReturn(t) PROVE DepotInv'
  BY <1>13 DEF CancelCbReturn
<1>14. ASSUME NEW t \in Threads, DrainCall(t) PROVE DepotInv'
  BY <1>14 DEF DrainCall, AtCallSite, Return, OnWorkerThread
<1>15. ASSUME NEW t \in Threads, StopCall(t) PROVE DepotInv'
  BY <1>15 DEF StopCall, AtCallSite, Return, NoneExclusive, OnWorkerThread
<1>16. ASSUME NEW t \in Threads, SpuriousWake(t) PROVE DepotInv'
  <2>1. /\ UNCHANGED <<queue, busyDepot, closing, job, answer, depotOf, depots>>
        /\ pc' = [pc EXCEPT ![t] = WakeDone(WakeCv(pc))[t]]
    BY <1>16 DEF SpuriousWake
  <2>2. \A u \in Threads : /\ pc'[u] \in OwingPcs => pc[u] \in OwingPcs
                           /\ pc'[u] \in ClosePcs <=> pc[u] \in ClosePcs
                           /\ pc[u] \in {"CloseWait", "CloseCheck"} => pc'[u] \in {"CloseWait", "CloseCheck"}
    BY <2>1, <1>w
  <2>. HIDE DEF OwingPcs, ClosePcs, DepotInv
  <2>. QED  BY <2>1, <2>2, DepotQuiet
<1>17. ASSUME NEW t \in Threads, NEW d \in Depots, Post(t, d) PROVE DepotInv'
  BY <1>17 DEF Post, EnsureThread, MayPost, InCallback, Answer, MayName
<1>18. ASSUME NEW t \in Threads, NEW d \in Depots, PostRefused(t, d) PROVE DepotInv'
  BY <1>18 DEF PostRefused, Answer, MayPost, MayName
<1>19. ASSUME NEW t \in Threads, NEW d \in Depots, PostThrows(t, d) PROVE DepotInv'
  BY <1>19 DEF PostThrows, Answer, MayPost, MayName
<1>20. ASSUME NEW t \in Threads, NEW d \in Depots, CloseCall(t, d) PROVE DepotInv'
  <2>1. /\ depots[d] = "open" /\ depots' = [depots EXCEPT ![d] = "closing"]
        /\ closing' = [closing EXCEPT ![t] = d] /\ queue' = queue \ JobsOn(d)
        /\ UNCHANGED <<busy, busyDepot, job, answer, depotOf>>
    BY <1>20 DEF CloseCall
  <2>2. \A u \in Threads : pc[u] \notin ClosePcs /\ closing[u] = NoOne
    BY <1>20 DEF CloseCall, NoneExclusive
  <2>3. pc'[t] \in ClosePcs /\ \A u \in Threads : u # t => pc'[u] \notin ClosePcs
    BY <1>20, <2>2, <1>w DEF CloseCall
  <2>4. \A w \in Workers : pc'[w] \in OwingPcs => pc[w] \in OwingPcs
    BY <1>20, <1>w DEF CloseCall
  <2>5. \A w \in Workers : pc[w] \in OwingPcs => ~OnWorkerThread(t) /\ busy
    BY <1>20 DEF CloseCall, AtCallSite, Return, OnWorkerThread
  <2>6. \A w \in Workers : pc[w] \in OwingPcs /\ depotOf[job[w]] = d => pc'[t] = "CloseWait"
    <3>1. ASSUME NEW w \in Workers, pc[w] \in OwingPcs, depotOf[job[w]] = d
          PROVE  ~OnWorkerThread(t) /\ InFlightOn(d)
      BY <2>5, <3>1 DEF InFlightOn
    <3>2. ~OnWorkerThread(t) /\ InFlightOn(d) => pc'[t] = "CloseWait"
      BY <1>20, <1>w DEF CloseCall
    <3>. QED  BY <3>1, <3>2
  <2>7. \A j \in queue' : depots'[depotOf[j]] = "open"
    BY <2>1 DEF JobsOn
  <2>8. \A w \in Workers : pc[w] \in OwingPcs =>
            depots'[depotOf[job[w]]] = "open" \/ depotOf[job[w]] = d
    BY <2>1, <2>2
  <2>. HIDE DEF OwingPcs, ClosePcs
  <2>9. \A u \in Threads : pc'[u] \in ClosePcs <=> closing'[u] # NoOne
    BY <2>1, <2>2, <2>3
  <2>10. \A u \in Threads : closing'[u] # NoOne => depots'[closing'[u]] = "closing"
    BY <2>1, <2>2
  <2>11. \A w \in Workers : pc'[w] \in OwingPcs =>
            \/ depots'[depotOf'[job'[w]]] = "open"
            \/ \E u \in Threads : /\ pc'[u] \in {"CloseWait", "CloseCheck"}
                                  /\ closing'[u] = depotOf'[job'[w]]
    BY <2>1, <2>4, <2>6, <2>8
  <2>. QED  BY <2>1, <2>4, <2>7, <2>9, <2>10, <2>11
<1>21. ASSUME NEW w \in Workers, RunStart(w) PROVE DepotInv'
  BY <1>21 DEF RunStart
<1>22. ASSUME NEW w \in Workers, RunExit(w) PROVE DepotInv'
  BY <1>22 DEF RunExit
<1>23. ASSUME NEW w \in Workers, RunWait(w) PROVE DepotInv'
  BY <1>23 DEF RunWait
<1>24. ASSUME NEW w \in Workers, RunDequeue(w) PROVE DepotInv'
  BY <1>24 DEF RunDequeue
<1>25. ASSUME NEW w \in Workers, RunSize(w) PROVE DepotInv'
  BY <1>25 DEF RunSize
<1>26. ASSUME NEW w \in Workers, ReadCheck(w) PROVE DepotInv'
  BY <1>26 DEF ReadCheck
<1>27. ASSUME NEW w \in Workers, ReadDecode(w) PROVE DepotInv'
  BY <1>27, DepotQuiet DEF ReadDecode
<1>28. ASSUME NEW w \in Workers, RunFire(w) PROVE DepotInv'
  BY <1>28 DEF RunFire
<1>29. ASSUME NEW w \in Workers, RunCbReturn(w) PROVE DepotInv'
  BY <1>29 DEF RunCbReturn
<1>30. ASSUME NEW w \in Workers, RunDone(w) PROVE DepotInv'
  <2>1. /\ pc[w] = "Done" /\ pc' = [pc EXCEPT ![w] = "DoneNotify"]
        /\ UNCHANGED <<queue, closing, answer, depotOf, depots>>
    BY <1>30 DEF RunDone
  <2>2. \A u \in Workers : pc[u] \notin OwingPcs
    <3>1. pc[w] \in BodyPcs /\ pc[w] # "Off" /\ pc[w] \notin OwingPcs
      BY <2>1
    <3>2. \A u \in Workers : pc[u] \in OwingPcs => pc[u] # "Off" /\ u = w
      BY <3>1
    <3>. QED  BY <3>1, <3>2
  <2>3. \A t \in Threads : /\ pc'[t] \in OwingPcs => pc[t] \in OwingPcs
                           /\ pc'[t] \in ClosePcs <=> pc[t] \in ClosePcs
                           /\ pc[t] \in {"CloseWait", "CloseCheck"} => pc'[t] \in {"CloseWait", "CloseCheck"}
    BY <2>1
  <2>4. \A u \in Workers : pc'[u] \notin OwingPcs
    BY <2>2, <2>3
  <2>. HIDE DEF OwingPcs, ClosePcs, DepotInv
  <2>. QED  BY <2>1, <2>3, <2>4, DepotQuiet
<1>31. ASSUME NEW w \in Workers, RunDoneNotify(w) PROVE DepotInv'
  BY <1>31, <1>w, DepotQuiet DEF RunDoneNotify
<1>32. CASE UNCHANGED vars
  BY <1>32, DepotQuiet DEF vars
<1>. HIDE DEF DepotInv
<1>. QED
  BY <1>1, <1>2, <1>3, <1>4, <1>5, <1>6, <1>7, <1>8, <1>9, <1>10, <1>11, <1>12, <1>13, <1>14, <1>15, <1>16, <1>17, <1>18, <1>19, <1>20, <1>21, <1>22, <1>23, <1>24, <1>25, <1>26, <1>27, <1>28, <1>29, <1>30, <1>31, <1>32 DEF Next, Step, Call, Run
(* The initial state satisfies every layer.                                *)
LEMMA InitInv == Init => ThreadInv /\ JobInv /\ AbortInv /\ DepotInv
<1>. SUFFICES ASSUME Init PROVE ThreadInv /\ JobInv /\ AbortInv /\ DepotInv
  OBVIOUS
<1>. USE ConstantAssumption DEF Init
<1>1. \A t \in Threads : pc[t] = IF t \in Hosts THEN "Out" ELSE "Off"
  OBVIOUS
<1>. USE <1>1 DEF Threads
<1>2. ThreadInv
  BY DEF ThreadInv, Places, OneExclusive, QuiescingInStop, KnownWorker, OwnedWorker, BusyInBody,
         CallPcs, WorkerPcs, StopPcs, ClosePcs, BusyPcs, ReadPcs, ExclusivePcs, QuiescePcs,
         MovedPcs, BodyPcs
<1>3. \A j \in Jobs : ~Held(j)
  BY DEF Held, Running, ReadPcs
<1>4. JobInv
  BY <1>3 DEF JobInv, Unposted, HeldIsOwed, OneHolder, BodyPcs, BusyPcs, ReadPcs, OwingPcs
<1>5. AbortInv
  BY DEF AbortInv, AbortHasOwner, StopPcs, ClosePcs
<1>6. DepotInv
  BY DEF DepotInv, OwingPcs, ReadPcs, ClosePcs
<1>. QED  BY <1>2, <1>4, <1>5, <1>6

(* The layers together are an invariant of the worker.                     *)
THEOREM Invariance == Spec => [](TypeOK /\ IndInv)
<1>1. Init => TypeOK /\ IndInv
  BY InitType, InitInv DEF IndInv
<1>2. TypeOK /\ IndInv /\ [Next]_vars => (TypeOK /\ IndInv)'
  <2>1. TypeOK /\ IndInv /\ [Next]_vars =>
            TypeOK' /\ DecodeInv' /\ ThreadInv' /\ JobInv' /\ AbortInv'
    BY StepType, StepThread, StepJob, StepAbort DEF IndInv
  <2>2. TypeOK /\ IndInv /\ [Next]_vars /\ ~ChainIntoClose => DepotInv'
    BY StepDepot DEF IndInv
  <2>. QED  BY <2>1, <2>2 DEF IndInv
<1>. QED  BY <1>1, <1>2, PTL DEF Spec

(* redfs_read_async: an accepted job gets its callback at most once and is *)
(* never forgotten; a refused one never gets it.                           *)
THEOREM ExactlyOnce == Spec => []CallbackOnce
<1>1. TypeOK /\ IndInv => CallbackOnce
  BY DEF TypeOK, HostTypes, IndInv, JobInv, HeldIsOwed, CallbackOnce
<1>. QED  BY <1>1, Invariance, PTL

(* stop(): no worker thread exists while the cancellations are reported,   *)
(* and there are never two.                                                *)
THEOREM StopJoins == Spec => []NoThreadOutlivesStop
<1>1. TypeOK /\ IndInv => NoThreadOutlivesStop
  <2>. SUFFICES ASSUME TypeOK, IndInv PROVE NoThreadOutlivesStop
    OBVIOUS
  <2>. USE ConstantAssumption DEF TypeOK, MemberTypes, LocalTypes, IndInv, ThreadInv, Threads
  <2>1. \A t \in Threads : victim[t] # NoOne =>
            thread = NoOne /\ pc[t] \in {"StopNotify", "StopJoin"}
    BY DEF OwnedWorker, MovedPcs
  <2>2. \A t, u \in Threads : victim[t] # NoOne /\ victim[u] # NoOne => t = u
    BY <2>1 DEF OneExclusive, ExclusivePcs, StopPcs
  <2>3. \A v, w \in Workers : pc[v] # "Off" /\ pc[w] # "Off" => v = w
    BY <2>1, <2>2 DEF OwnedWorker
  <2>4. ASSUME NEW t \in Threads, pc[t] \in {"StopReport", "StopCb"}, NEW w \in Workers
        PROVE  pc[w] = "Off"
    <3>1. thread = NoOne
      BY <2>4 DEF OwnedWorker, MovedPcs
    <3>2. \A u \in Threads : victim[u] = NoOne
      BY <2>1, <2>4 DEF OneExclusive, ExclusivePcs, StopPcs
    <3>. QED  BY <3>1, <3>2 DEF OwnedWorker
  <2>. QED  BY <2>3, <2>4 DEF NoThreadOutlivesStop
<1>. QED  BY <1>1, Invariance, PTL

(* on_worker_thread(): a callback never waits for its own job.             *)
THEOREM NoSelfWait == Spec => []CallbackNeverWaits
<1>1. TypeOK /\ IndInv => CallbackNeverWaits
  BY DEF IndInv, ThreadInv, Places, CallbackNeverWaits, WorkerPcs, BusyPcs, ReadPcs,
         DrainPcs, StopPcs
<1>. QED  BY <1>1, Invariance, PTL

(* abort_: set only inside the call that set it, and no read decodes more  *)
(* than the segment it had begun.                                          *)
THEOREM BoundedAbort == Spec => [](AbortWithinOneSegment /\ AbortHasOwner)
<1>1. TypeOK /\ IndInv => AbortWithinOneSegment /\ AbortHasOwner
  BY DEF TypeOK, ReadTypes, IndInv, AbortInv, AbortWithinOneSegment
<1>. QED  BY <1>1, Invariance, PTL

(* Nobody is woken out of a drain that does not wait, and only a drain     *)
(* itself ends one.                                                        *)
LEMMA LeavesDrain ==
    ASSUME TypeOK, Next, NEW u \in Threads, pc[u] = "Drain", pc'[u] # "Drain"
    PROVE  DrainWait(u)
<1>. USE ConstantAssumption
<1>w. /\ WakeCv(pc)[u] = "Drain" /\ WakeDone(pc)[u] = "Drain" /\ WakeDone(WakeCv(pc))[u] = "Drain"
      /\ WakeCv(pc) \in [Threads -> CallPcs \cup WorkerPcs]
      /\ WakeDone(pc) \in [Threads -> CallPcs \cup WorkerPcs]
      /\ WakeDone(WakeCv(pc)) \in [Threads -> CallPcs \cup WorkerPcs]
  <2>1. WakeCv(pc)[u] = "Drain"
    BY DEF WakeCv
  <2>. QED
    BY <2>1, WakeKeeps DEF WakeDone
<1>t. pc \in [Threads -> CallPcs \cup WorkerPcs] /\ Workers \subseteq Threads
  BY DEF TypeOK, LocalTypes, Threads
<1>1. ASSUME NEW t \in Threads, DrainWait(t) PROVE DrainWait(u)
  BY <1>1, <1>t, <1>w DEF DrainWait
<1>2. ASSUME NEW t \in Threads, PostNotify(t) PROVE DrainWait(u)
  BY <1>2, <1>t, <1>w DEF PostNotify
<1>3. ASSUME NEW t \in Threads, StopLock(t) PROVE DrainWait(u)
  BY <1>3, <1>t, <1>w DEF StopLock, AwaitIdle
<1>4. ASSUME NEW t \in Threads, StopCheck(t) PROVE DrainWait(u)
  BY <1>4, <1>t, <1>w DEF StopCheck, AwaitIdle
<1>5. ASSUME NEW t \in Threads, StopNotify(t) PROVE DrainWait(u)
  BY <1>5, <1>t, <1>w DEF StopNotify
<1>6. ASSUME NEW t \in Threads, StopJoin(t) PROVE DrainWait(u)
  BY <1>6, <1>t, <1>w DEF StopJoin
<1>7. ASSUME NEW t \in Threads, StopReport(t) PROVE DrainWait(u)
  BY <1>7, <1>t, <1>w DEF StopReport
<1>8. ASSUME NEW t \in Threads, StopReopen(t) PROVE DrainWait(u)
  BY <1>8, <1>t, <1>w DEF StopReopen
<1>9. ASSUME NEW t \in Threads, StopClear(t) PROVE DrainWait(u)
  BY <1>9, <1>t, <1>w DEF StopClear
<1>10. ASSUME NEW t \in Threads, CloseCheck(t) PROVE DrainWait(u)
  BY <1>10, <1>t, <1>w DEF CloseCheck
<1>11. ASSUME NEW t \in Threads, CloseReport(t) PROVE DrainWait(u)
  BY <1>11, <1>t, <1>w DEF CloseReport
<1>12. ASSUME NEW t \in Threads, CloseDelete(t) PROVE DrainWait(u)
  BY <1>12, <1>t, <1>w DEF CloseDelete
<1>13. ASSUME NEW t \in Threads, CancelCbReturn(t) PROVE DrainWait(u)
  BY <1>13, <1>t, <1>w DEF CancelCbReturn
<1>14. ASSUME NEW t \in Threads, DrainCall(t) PROVE DrainWait(u)
  BY <1>14, <1>t, <1>w DEF DrainCall, AtCallSite, Return
<1>15. ASSUME NEW t \in Threads, StopCall(t) PROVE DrainWait(u)
  BY <1>15, <1>t, <1>w DEF StopCall, AtCallSite, Return
<1>16. ASSUME NEW t \in Threads, SpuriousWake(t) PROVE DrainWait(u)
  BY <1>16, <1>t, <1>w DEF SpuriousWake
<1>17. ASSUME NEW t \in Threads, NEW d \in Depots, Post(t, d) PROVE DrainWait(u)
  BY <1>17, <1>t, <1>w DEF Post, EnsureThread, queueVars
<1>18. ASSUME NEW t \in Threads, NEW d \in Depots, PostRefused(t, d) PROVE DrainWait(u)
  BY <1>18, <1>t, <1>w DEF PostRefused, localVars
<1>19. ASSUME NEW t \in Threads, NEW d \in Depots, PostThrows(t, d) PROVE DrainWait(u)
  BY <1>19, <1>t, <1>w DEF PostThrows, localVars
<1>20. ASSUME NEW t \in Threads, NEW d \in Depots, CloseCall(t, d) PROVE DrainWait(u)
  BY <1>20, <1>t, <1>w DEF CloseCall, AtCallSite, Return
<1>21. ASSUME NEW w \in Workers, RunStart(w) PROVE DrainWait(u)
  BY <1>21, <1>t, <1>w DEF RunStart
<1>22. ASSUME NEW w \in Workers, RunExit(w) PROVE DrainWait(u)
  BY <1>22, <1>t, <1>w DEF RunExit
<1>23. ASSUME NEW w \in Workers, RunWait(w) PROVE DrainWait(u)
  BY <1>23, <1>t, <1>w DEF RunWait
<1>24. ASSUME NEW w \in Workers, RunDequeue(w) PROVE DrainWait(u)
  BY <1>24, <1>t, <1>w DEF RunDequeue
<1>25. ASSUME NEW w \in Workers, RunSize(w) PROVE DrainWait(u)
  BY <1>25, <1>t, <1>w DEF RunSize
<1>26. ASSUME NEW w \in Workers, ReadCheck(w) PROVE DrainWait(u)
  BY <1>26, <1>t, <1>w DEF ReadCheck
<1>27. ASSUME NEW w \in Workers, ReadDecode(w) PROVE DrainWait(u)
  BY <1>27, <1>t, <1>w DEF ReadDecode
<1>28. ASSUME NEW w \in Workers, RunFire(w) PROVE DrainWait(u)
  BY <1>28, <1>t, <1>w DEF RunFire
<1>29. ASSUME NEW w \in Workers, RunCbReturn(w) PROVE DrainWait(u)
  BY <1>29, <1>t, <1>w DEF RunCbReturn
<1>30. ASSUME NEW w \in Workers, RunDone(w) PROVE DrainWait(u)
  BY <1>30, <1>t, <1>w DEF RunDone
<1>31. ASSUME NEW w \in Workers, RunDoneNotify(w) PROVE DrainWait(u)
  BY <1>31, <1>t, <1>w DEF RunDoneNotify
<1>. QED
  BY <1>1, <1>2, <1>3, <1>4, <1>5, <1>6, <1>7, <1>8, <1>9, <1>10, <1>11, <1>12, <1>13, <1>14, <1>15, <1>16, <1>17, <1>18, <1>19, <1>20, <1>21, <1>22, <1>23, <1>24, <1>25, <1>26, <1>27, <1>28, <1>29, <1>30, <1>31 DEF Next, Step, Call, Run

(* redfs_drain: it returns with the queue empty and no read running, so    *)
(* what is still owed is in the hands of a shutdown or close.              *)
THEOREM DrainIsComplete == Spec => DrainLeavesNothing
<1>1. TypeOK /\ IndInv /\ [Next]_vars =>
         \A t \in Threads : pc[t] = "Drain" /\ pc'[t] = Return(t) =>
             \A j \in Jobs : answer[j] = "OK" =>
                 calls[j] = 1 \/ \E u \in Threads : j \in cancelled[u]
  <2>. SUFFICES ASSUME TypeOK, IndInv, [Next]_vars, NEW t \in Threads, pc[t] = "Drain", pc'[t] = Return(t),
                       NEW j \in Jobs, answer[j] = "OK", calls[j] # 1
                PROVE  \E u \in Threads : j \in cancelled[u]
    OBVIOUS
  <2>1. Return(t) \notin {"Drain", "DrainWait"}
    BY DEF Return
  <2>2. DrainWait(t)
    BY <2>1, LeavesDrain DEF vars
  <2>3. queue = {} /\ ~busy
    BY <2>1, <2>2 DEF DrainWait, Drained, TypeOK, LocalTypes
  <2>4. \A w \in Workers : ~Running(w, j)
    BY <2>3 DEF IndInv, ThreadInv, BusyInBody, BodyPcs, BusyPcs, Running
  <2>5. Held(j)
    BY DEF IndInv, JobInv, HeldIsOwed
  <2>. QED
    BY <2>3, <2>4, <2>5 DEF Held
<1>2. [](TypeOK /\ IndInv) /\ [][Next]_vars => DrainLeavesNothing
  BY <1>1, PTL DEF DrainLeavesNothing
<1>. QED
  BY <1>2, Invariance, PTL DEF Spec

(* redfs_depot_close: no queued job and no read in flight ever names a     *)
(* freed depot, provided callbacks chain no read onto a closing one.       *)
THEOREM NoDangling ==
    ASSUME ~ChainIntoClose
    PROVE  Spec => []NoDanglingDepot
<1>1. TypeOK /\ IndInv => NoDanglingDepot
  BY ConstantAssumption
     DEF TypeOK, LocalTypes, IndInv, DepotInv, NoDanglingDepot, OwingPcs, ClosePcs
<1>. QED  BY <1>1, Invariance, PTL

(* Every step of the worker is a step of the promise in redfs.h, or        *)
(* changes nothing the promise speaks of.                                  *)
LEMMA StepRefines ==
    ASSUME ~ChainIntoClose
    PROVE  TypeOK /\ IndInv /\ [Next]_vars => [Abstract!Next]_(Abstract!vars)
<1>. SUFFICES ASSUME TypeOK, IndInv, [Next]_vars
              PROVE  [Abstract!Next]_(Abstract!vars)
  OBVIOUS
<1>. USE ConstantAssumption
<1>c. ASSUME NEW j \in Jobs, Held(j), calls' = [calls EXCEPT ![j] = @ + 1],
             UNCHANGED <<posted, answer, depotOf, depots>>
      PROVE  [Abstract!Next]_(Abstract!vars)
  <2>1. calls[j] = 0 /\ answer[j] = "OK"
    BY <1>c DEF IndInv, JobInv, HeldIsOwed
  <2>2. calls' = [calls EXCEPT ![j] = 1]
    BY <1>c, <2>1 DEF TypeOK, HostTypes
  <2>. QED  BY <1>c, <2>1, <2>2
            DEF Abstract!Next, Abstract!Complete, Abstract!Outstanding, Abstract!Jobs, Jobs
<1>1. ASSUME NEW t \in Threads, PostNotify(t) PROVE [Abstract!Next]_(Abstract!vars)
  BY <1>1 DEF PostNotify, hostVars, Abstract!vars
<1>2. ASSUME NEW t \in Threads, DrainWait(t) PROVE [Abstract!Next]_(Abstract!vars)
  BY <1>2 DEF DrainWait, hostVars, Abstract!vars
<1>3. ASSUME NEW t \in Threads, StopLock(t) PROVE [Abstract!Next]_(Abstract!vars)
  BY <1>3 DEF StopLock, hostVars, Abstract!vars
<1>4. ASSUME NEW t \in Threads, StopCheck(t) PROVE [Abstract!Next]_(Abstract!vars)
  BY <1>4 DEF StopCheck, hostVars, Abstract!vars
<1>5. ASSUME NEW t \in Threads, StopNotify(t) PROVE [Abstract!Next]_(Abstract!vars)
  BY <1>5 DEF StopNotify, hostVars, Abstract!vars
<1>6. ASSUME NEW t \in Threads, StopJoin(t) PROVE [Abstract!Next]_(Abstract!vars)
  BY <1>6 DEF StopJoin, hostVars, Abstract!vars
<1>7. ASSUME NEW t \in Threads, StopReport(t) PROVE [Abstract!Next]_(Abstract!vars)
  <2>1. PICK j \in cancelled[t] : /\ calls' = [calls EXCEPT ![j] = @ + 1]
                                  /\ UNCHANGED <<posted, answer, depotOf, depots>>
    BY <1>7 DEF StopReport, FireCancelled
  <2>2. j \in Jobs /\ Held(j)
    BY DEF Held, TypeOK, LocalTypes
  <2>. QED  BY <2>1, <2>2, <1>c
<1>8. ASSUME NEW t \in Threads, StopReopen(t) PROVE [Abstract!Next]_(Abstract!vars)
  BY <1>8 DEF StopReopen, hostVars, Abstract!vars
<1>9. ASSUME NEW t \in Threads, StopClear(t) PROVE [Abstract!Next]_(Abstract!vars)
  BY <1>9 DEF StopClear, hostVars, Abstract!vars
<1>10. ASSUME NEW t \in Threads, CloseCheck(t) PROVE [Abstract!Next]_(Abstract!vars)
  BY <1>10 DEF CloseCheck, hostVars, Abstract!vars
<1>11. ASSUME NEW t \in Threads, CloseReport(t) PROVE [Abstract!Next]_(Abstract!vars)
  <2>1. PICK j \in cancelled[t] : /\ calls' = [calls EXCEPT ![j] = @ + 1]
                                  /\ UNCHANGED <<posted, answer, depotOf, depots>>
    BY <1>11 DEF CloseReport, FireCancelled
  <2>2. j \in Jobs /\ Held(j)
    BY DEF Held, TypeOK, LocalTypes
  <2>. QED  BY <2>1, <2>2, <1>c
<1>12. ASSUME NEW t \in Threads, CloseDelete(t) PROVE [Abstract!Next]_(Abstract!vars)
  <2>1. /\ depots' = [depots EXCEPT ![closing[t]] = "freed"]
        /\ UNCHANGED <<posted, answer, depotOf, calls>>
    BY <1>12 DEF CloseDelete
  <2>2. pc[t] = "CloseReport" /\ cancelled[t] = {}
    BY <1>12 DEF CloseDelete
  <2>3. closing[t] \in Depots /\ depots[closing[t]] = "closing"
    BY <2>2 DEF IndInv, DepotInv, ClosePcs, TypeOK, LocalTypes
  <2>4. \A u \in Threads : /\ cancelled[u] = {}
                           /\ pc[u] \notin {"CloseWait", "CloseCheck"}
    BY <2>2 DEF IndInv, ThreadInv, OneExclusive, JobInv, OneHolder, ReportPcs, ExclusivePcs, ClosePcs
  <2>5. ASSUME NEW j \in Jobs, depotOf[j] = closing[t], Held(j) PROVE FALSE
    <3>1. CASE j \in queue
      BY <2>3, <2>5, <3>1 DEF IndInv, DepotInv
    <3>2. CASE \E w \in Workers : Running(w, j)
      BY <2>3, <2>4, <2>5, <3>2 DEF IndInv, DepotInv, Running, OwingPcs
    <3>. QED  BY <2>4, <2>5, <3>1, <3>2 DEF Held
  <2>6. \A j \in Jobs : depotOf[j] = closing[t] => ~Abstract!Outstanding(j)
    BY <2>5 DEF IndInv, JobInv, HeldIsOwed, Abstract!Outstanding
  <2>. QED  BY <2>1, <2>3, <2>6 DEF Abstract!Next, Abstract!Free, Abstract!Jobs, Jobs
<1>13. ASSUME NEW t \in Threads, CancelCbReturn(t) PROVE [Abstract!Next]_(Abstract!vars)
  BY <1>13 DEF CancelCbReturn, hostVars, Abstract!vars
<1>14. ASSUME NEW t \in Threads, DrainCall(t) PROVE [Abstract!Next]_(Abstract!vars)
  BY <1>14 DEF DrainCall, hostVars, Abstract!vars
<1>15. ASSUME NEW t \in Threads, StopCall(t) PROVE [Abstract!Next]_(Abstract!vars)
  BY <1>15 DEF StopCall, hostVars, Abstract!vars
<1>16. ASSUME NEW t \in Threads, SpuriousWake(t) PROVE [Abstract!Next]_(Abstract!vars)
  BY <1>16 DEF SpuriousWake, hostVars, Abstract!vars
<1>17. ASSUME NEW t \in Threads, NEW d \in Depots, Post(t, d) PROVE [Abstract!Next]_(Abstract!vars)
  BY <1>17 DEF Post, MayPost, MayName, Answer, Abstract!Next, Abstract!ReadAsync
<1>18. ASSUME NEW t \in Threads, NEW d \in Depots, PostRefused(t, d) PROVE [Abstract!Next]_(Abstract!vars)
  BY <1>18 DEF PostRefused, MayPost, MayName, Answer, Abstract!Next, Abstract!ReadAsync
<1>19. ASSUME NEW t \in Threads, NEW d \in Depots, PostThrows(t, d) PROVE [Abstract!Next]_(Abstract!vars)
  BY <1>19 DEF PostThrows, MayPost, MayName, Answer, Abstract!Next, Abstract!ReadAsync
<1>20. ASSUME NEW t \in Threads, NEW d \in Depots, CloseCall(t, d) PROVE [Abstract!Next]_(Abstract!vars)
  BY <1>20 DEF CloseCall, Abstract!Next, Abstract!Close
<1>21. ASSUME NEW w \in Workers, RunStart(w) PROVE [Abstract!Next]_(Abstract!vars)
  BY <1>21 DEF RunStart, hostVars, Abstract!vars
<1>22. ASSUME NEW w \in Workers, RunExit(w) PROVE [Abstract!Next]_(Abstract!vars)
  BY <1>22 DEF RunExit, hostVars, Abstract!vars
<1>23. ASSUME NEW w \in Workers, RunWait(w) PROVE [Abstract!Next]_(Abstract!vars)
  BY <1>23 DEF RunWait, hostVars, Abstract!vars
<1>24. ASSUME NEW w \in Workers, RunDequeue(w) PROVE [Abstract!Next]_(Abstract!vars)
  BY <1>24 DEF RunDequeue, hostVars, Abstract!vars
<1>25. ASSUME NEW w \in Workers, RunSize(w) PROVE [Abstract!Next]_(Abstract!vars)
  BY <1>25 DEF RunSize, hostVars, Abstract!vars
<1>26. ASSUME NEW w \in Workers, ReadCheck(w) PROVE [Abstract!Next]_(Abstract!vars)
  BY <1>26 DEF ReadCheck, hostVars, Abstract!vars
<1>27. ASSUME NEW w \in Workers, ReadDecode(w) PROVE [Abstract!Next]_(Abstract!vars)
  BY <1>27 DEF ReadDecode, hostVars, Abstract!vars
<1>28. ASSUME NEW w \in Workers, RunFire(w) PROVE [Abstract!Next]_(Abstract!vars)
  <2>1. /\ calls' = [calls EXCEPT ![job[w]] = @ + 1]
        /\ UNCHANGED <<posted, answer, depotOf, depots>>
    BY <1>28 DEF RunFire
  <2>2. job[w] \in Jobs /\ Held(job[w])
    BY <1>28 DEF RunFire, IndInv, JobInv, OneHolder, BodyPcs, BusyPcs, Held, Running
  <2>. QED  BY <2>1, <2>2, <1>c
<1>29. ASSUME NEW w \in Workers, RunCbReturn(w) PROVE [Abstract!Next]_(Abstract!vars)
  BY <1>29 DEF RunCbReturn, hostVars, Abstract!vars
<1>30. ASSUME NEW w \in Workers, RunDone(w) PROVE [Abstract!Next]_(Abstract!vars)
  BY <1>30 DEF RunDone, hostVars, Abstract!vars
<1>31. ASSUME NEW w \in Workers, RunDoneNotify(w) PROVE [Abstract!Next]_(Abstract!vars)
  BY <1>31 DEF RunDoneNotify, hostVars, Abstract!vars
<1>32. CASE UNCHANGED vars
  BY <1>32 DEF vars, hostVars, Abstract!vars
<1>. QED
  BY <1>1, <1>2, <1>3, <1>4, <1>5, <1>6, <1>7, <1>8, <1>9, <1>10, <1>11, <1>12, <1>13, <1>14, <1>15, <1>16, <1>17, <1>18, <1>19, <1>20, <1>21, <1>22, <1>23, <1>24, <1>25, <1>26, <1>27, <1>28, <1>29, <1>30, <1>31, <1>32 DEF Next, Step, Call, Run

(* The worker with its queue, locks and condition variables implements     *)
(* AsyncReads, for hosts that chain no read onto a closing depot.          *)
THEOREM Refinement ==
    ASSUME ~ChainIntoClose
    PROVE  Spec => ImplementsAsyncReads
<1>1. Init => Abstract!Init
  BY DEF Init, Abstract!Init, Abstract!Jobs, Jobs
<1>2. TypeOK /\ IndInv /\ [Next]_vars => [Abstract!Next]_(Abstract!vars)
  BY StepRefines
<1>. QED  BY <1>1, <1>2, Invariance, PTL DEF Spec, ImplementsAsyncReads, Abstract!Spec
=============================================================================
