------------------------------- MODULE Locks --------------------------------
(***************************************************************************)
(* The six mutexes of RedFS, the order its calls take them in, and what    *)
(* they hold when they run the host's code: its callbacks, and the log     *)
(* sink, which log() and fail() call on the thread that reports.           *)
(*                                                                         *)
(* A call is the sequence of its lock, unlock, sink and callback steps;    *)
(* where the code branches, a call is a set of such sequences.  Waits on   *)
(* condition variables, which release the lock, are the Worker module's.   *)
(***************************************************************************)
EXTENDS Naturals, Sequences

CONSTANTS
    Threads,
    MaxSteps  \* bound on the steps a thread owes, in calls made from callbacks

VARIABLES
    owner,  \* the thread that holds each mutex, or "nobody"
    todo    \* what each thread still has to do in the calls it is in

vars == <<owner, todo>>

Mutexes == {"worker", "dictionary", "path cache", "mesh cache", "load", "pool"}

Then(A, B) == {a \o b : a \in A, b \in B}
Lock(m) == [do |-> "lock", on |-> m]
Unlock(m) == [do |-> "unlock", on |-> m]
Sink == [do |-> "sink", on |-> "nobody"]
Callback == [do |-> "callback", on |-> "nobody"]

(* A std::lock_guard over m in whose scope one of Body happens.            *)
Locked(m, Body) == Then(Then({<<Lock(m)>>}, Body), {<<Unlock(m)>>})

Nothing == {<<>>}
Said == {<<>>, <<Sink>>}
Called == {<<>>, <<Callback>>}

----------------------------------------------------------------------------
(* The decoder: a block is taken and returned in two scopes of one lock.   *)
Decode == Nothing \cup Locked("pool", Nothing) \cup Then(Locked("pool", Nothing), Locked("pool", Nothing))

(* The dictionary of paths.  add_locked reports a path that is too long.   *)
AddLocked == Said
PathAdd == Nothing \cup Locked("dictionary", AddLocked)
LearnImports == Nothing \cup Locked("dictionary", AddLocked)
(* read_list may decompress the list, before the dictionary is locked.     *)
PathLoad == Then(Decode, Said \cup Then(Locked("dictionary", AddLocked), Said))
FromHash == Locked("dictionary", Nothing)

(* Hits are copied out first: the callback runs after the unlock.          *)
Find == Then(Locked("dictionary", Nothing), Said \cup Called)

(* The path cache: its own lock, then the dictionary's.                    *)
Flush_DictionaryFirst == Then(Locked("dictionary", Nothing \cup Locked("path cache", Nothing)), Said)
Flush ==
    Then(Locked("path cache", Nothing \cup Locked("dictionary", Nothing)), Said)
LoadFromDisk == Nothing \cup Locked("dictionary", Nothing)
PathCacheOpen ==
    Then(Flush, Then(Locked("path cache", Then(Locked("dictionary", Nothing), LoadFromDisk)), Said))
PathCacheClose == Then(Flush, Then(Said, Locked("path cache", Nothing)))
Pending == Locked("path cache", Said)
Mark == Said \cup Locked("path cache", Said)

(* The mesh cache builds with its lock released, and reports after it.     *)
CacheOpen == Then(Locked("mesh cache", Nothing), Said)
CacheFlush == Then(Locked("mesh cache", Nothing), Said)
CacheClose == Then(CacheFlush, Locked("mesh cache", Nothing))
CacheInvalidate == Then(Locked("mesh cache", Nothing), Said)

(* A part is read and decoded; the decoder is loaded under a lock.         *)
ReadPart == Then(Decode, Said)
OodleLoad == Nothing \cup Locked("load", Said)
DepotOpen == Then(OodleLoad, Said)
FreeScratch == Locked("pool", Nothing)

(* A mesh is found, or built with no lock held and then published.         *)
MeshBuild == Then(ReadPart, LearnImports)
MeshAcquire ==
    Locked("mesh cache", Nothing) \cup MeshBuild
        \cup Then(Locked("mesh cache", Nothing), Then(MeshBuild, Locked("mesh cache", Nothing)))

(* The worker: a read's callback, and those of the reads a shutdown or a   *)
(* close cancelled, run between two scopes of its lock.                    *)
Post == Locked("worker", Nothing)
Run == Then(Locked("worker", Nothing), Then(ReadPart, Then(Called, Locked("worker", Nothing))))
Stop == Then(Locked("worker", Nothing), Then(Called, Locked("worker", Nothing)))
CancelFor == Then(Locked("worker", Nothing), Called)
Shutdown == Then(Stop, Then(CacheClose, Then(PathCacheClose, FreeScratch)))

Calls ==
    UNION {PathAdd, PathLoad, FromHash, Find, Flush, PathCacheOpen, PathCacheClose, Pending, Mark,
           CacheOpen, CacheFlush, CacheClose, CacheInvalidate, DepotOpen, MeshBuild, MeshAcquire,
           Post, Run, CancelFor, Shutdown}

-----------------------------------------------------------------------------
Init == owner = [m \in Mutexes |-> "nobody"] /\ todo = [t \in Threads |-> <<>>]

Step(t) == Head(todo[t])
At(t, do) == todo[t] # <<>> /\ Step(t).do = do
Holds(t) == {m \in Mutexes : owner[m] = t}
Advance(t) == todo' = [todo EXCEPT ![t] = Tail(@)]

(* The host calls RedFS from a thread of its own.                          *)
Call(t) ==
    /\ todo[t] = <<>>
    /\ \E steps \in Calls : todo' = [todo EXCEPT ![t] = steps]
    /\ UNCHANGED owner

(* std::mutex is not recursive: a thread also waits for itself.            *)
Acquire(t) ==
    /\ At(t, "lock") /\ owner[Step(t).on] = "nobody"
    /\ owner' = [owner EXCEPT ![Step(t).on] = t]
    /\ Advance(t)

Release(t) ==
    /\ At(t, "unlock")
    /\ owner' = [owner EXCEPT ![Step(t).on] = "nobody"]
    /\ Advance(t)

(* The host's code returns ...                                             *)
HostReturns(t) ==
    /\ At(t, "sink") \/ At(t, "callback")
    /\ Advance(t) /\ UNCHANGED owner

(* ... or calls RedFS: a callback at will, a sink where redfs.h has it     *)
(* called, with no lock held.                                              *)
HostCallsBack(t) ==
    /\ At(t, "callback") \/ (At(t, "sink") /\ Holds(t) = {})
    /\ \E steps \in Calls :
          /\ Len(steps) + Len(Tail(todo[t])) <= MaxSteps
          /\ todo' = [todo EXCEPT ![t] = steps \o Tail(@)]
    /\ UNCHANGED owner

Next ==
    \E t \in Threads : Call(t) \/ Acquire(t) \/ Release(t) \/ HostReturns(t) \/ HostCallsBack(t)

Spec == Init /\ [][Next]_vars

-----------------------------------------------------------------------------
(* paths.cpp: "lock order: PathCache, then Dictionary".  No set of threads *)
(* each waits for a lock that one of them holds, whatever they call and    *)
(* call back, a thread that waits for itself included.                     *)
Waits(t, u) == At(t, "lock") /\ owner[Step(t).on] = u
NeverStuck ==
    \A S \in (SUBSET Threads) \ {{}} : \E t \in S : \A u \in S : ~Waits(t, u)

(* redfs.h, of the log sink: "It is never invoked with a RedFS lock held,  *)
(* so calling back into RedFS from the sink is safe."                      *)
SinkUnlocked == \A t \in Threads : At(t, "sink") => Holds(t) = {}
=============================================================================
