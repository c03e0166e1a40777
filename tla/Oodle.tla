-------------------------------- MODULE Oodle -------------------------------
(***************************************************************************)
(* Binding Oodle at run time, and the pool of decoder scratch blocks that  *)
(* concurrent decodes share and redfs_shutdown frees (oodle.cpp).          *)
(*                                                                         *)
(* A step is a section under one mutex, one access to an atomic or to      *)
(* g_scratch_size, or a call of the library.  A store with release is the  *)
(* last of its thread's stores that a load with acquire can see, so the    *)
(* steps may be interleaved as they stand in the program.                  *)
(***************************************************************************)
EXTENDS Integers, Sequences, FiniteSets, SequencesExt

CONSTANTS
    Threads,
    Blocks,    \* scratch blocks the allocator can hand out
    MaxCalls,  \* calls the threads make in all (bound of the model)
    Null

VARIABLES
    library,      \* where the DLL is, and what it exports
    decompress,   \* g_decompress is set
    scratchSize,  \* g_scratch_size is known
    loadLock,     \* holder of g_load_mutex
    pool,         \* the free list, its head first
    live,         \* blocks that are allocated
    thread,       \* per thread: where it stands and what it holds
    calls

vars == <<library, decompress, scratchSize, loadLock, pool, live, thread, calls>>

(* dir: load was given a game directory.  scratch: the block passed to the *)
(* library.  doomed: what free_scratch has taken off the list.             *)
Fresh(pc, dir) == [pc |-> pc, dir |-> dir, scratch |-> Null, doomed |-> <<>>, loaded |-> TRUE]
Idle == Fresh("idle", FALSE)

Libraries == [at : {"resident", "game directory", "search path", "nowhere"},
              exports : {"both", "decompress", "neither"}]

Init ==
    /\ library \in Libraries
    /\ decompress = FALSE /\ scratchSize = FALSE /\ loadLock = Null
    /\ pool = <<>> /\ live = {}
    /\ thread = [t \in Threads |-> Idle]
    /\ calls = 0

At(t, pc) == thread[t].pc = pc
Goto(t, pc) == thread' = [thread EXCEPT ![t].pc = pc]
Call(t, pc, dir) ==
    /\ At(t, "idle") /\ calls < MaxCalls
    /\ calls' = calls + 1
    /\ thread' = [thread EXCEPT ![t] = Fresh(pc, dir)]
Loaded(t, result) == thread' = [thread EXCEPT ![t].pc = "idle", ![t].loaded = result]

-----------------------------------------------------------------------------
(* load and try_load.                                                      *)

LoadCall(t) ==
    /\ \E dir \in BOOLEAN : Call(t, "load", dir)
    /\ UNCHANGED <<library, decompress, scratchSize, loadLock, pool, live>>

LoadFast(t) ==
    /\ At(t, "load")
    /\ IF decompress THEN Loaded(t, TRUE) ELSE Goto(t, "load lock")
    /\ UNCHANGED <<library, decompress, scratchSize, loadLock, pool, live, calls>>

LoadLock(t) ==
    /\ At(t, "load lock") /\ loadLock = Null
    /\ loadLock' = t
    /\ Goto(t, IF decompress THEN "unlock" ELSE "try load")
    /\ UNCHANGED <<library, decompress, scratchSize, pool, live, calls>>

Findable(dir) == library.at \in {"resident", "search path"} \/ (dir /\ library.at = "game directory")
Resolves(dir) == Findable(dir) /\ library.exports # "neither"

(* The size is queried and stored before the pointer is published.         *)
TryLoadSize_Forgotten(t) ==
    /\ At(t, "try load")
    /\ Goto(t, IF Resolves(thread[t].dir) THEN "publish" ELSE "unlock")
    /\ UNCHANGED <<library, decompress, scratchSize, loadLock, pool, live, calls>>
TryLoadSize(t) ==
    /\ At(t, "try load")
    /\ scratchSize' = (scratchSize \/ (Resolves(thread[t].dir) /\ library.exports = "both"))
    /\ Goto(t, IF Resolves(thread[t].dir) THEN "publish" ELSE "unlock")
    /\ UNCHANGED <<library, decompress, loadLock, pool, live, calls>>

TryLoadPublish(t) ==
    /\ At(t, "publish")
    /\ decompress' = TRUE
    /\ Goto(t, "unlock")
    /\ UNCHANGED <<library, scratchSize, loadLock, pool, live, calls>>

LoadUnlock(t) ==
    /\ At(t, "unlock")
    /\ loadLock' = Null
    /\ Loaded(t, decompress)
    /\ UNCHANGED <<library, decompress, scratchSize, pool, live, calls>>

-----------------------------------------------------------------------------
(* decompress.  Without the function the segment is not decoded.           *)

DecodeCall(t) ==
    /\ decompress
    /\ Call(t, "decode", FALSE)
    /\ UNCHANGED <<library, decompress, scratchSize, loadLock, pool, live>>

DecodeSize(t) ==
    /\ At(t, "decode")
    /\ Goto(t, IF scratchSize THEN "acquire" ELSE "decoding")
    /\ UNCHANGED <<library, decompress, scratchSize, loadLock, pool, live, calls>>

AcquirePooled_NotUnlinked(t) ==
    /\ At(t, "acquire") /\ pool # <<>>
    /\ thread' = [thread EXCEPT ![t].pc = "decoding", ![t].scratch = Head(pool)]
    /\ UNCHANGED <<library, decompress, scratchSize, loadLock, pool, live, calls>>
AcquirePooled(t) ==
    /\ At(t, "acquire") /\ pool # <<>>
    /\ pool' = Tail(pool)
    /\ thread' = [thread EXCEPT ![t].pc = "decoding", ![t].scratch = Head(pool)]
    /\ UNCHANGED <<library, decompress, scratchSize, loadLock, live, calls>>

AcquireEmpty(t) ==
    /\ At(t, "acquire") /\ pool = <<>>
    /\ Goto(t, "malloc")
    /\ UNCHANGED <<library, decompress, scratchSize, loadLock, pool, live, calls>>

AcquireMalloc(t) ==
    /\ At(t, "malloc")
    /\ \E b \in Blocks \ live :
          /\ live' = live \cup {b}
          /\ thread' = [thread EXCEPT ![t].pc = "decoding", ![t].scratch = b]
    /\ UNCHANGED <<library, decompress, scratchSize, loadLock, pool, calls>>

(* Out of memory: the read fails rather than decode without scratch.       *)
AcquireFails(t) ==
    /\ At(t, "malloc")
    /\ Goto(t, "idle")
    /\ UNCHANGED <<library, decompress, scratchSize, loadLock, pool, live, calls>>

Release(t) ==
    /\ At(t, "decoding")
    /\ pool' = IF thread[t].scratch = Null THEN pool ELSE <<thread[t].scratch>> \o pool
    /\ thread' = [thread EXCEPT ![t].pc = "idle", ![t].scratch = Null]
    /\ UNCHANGED <<library, decompress, scratchSize, loadLock, live, calls>>

-----------------------------------------------------------------------------
(* free_scratch, at the end of redfs_shutdown: the worker is joined, but   *)
(* synchronous reads of other threads may still decode.                    *)

FreeCall(t) ==
    /\ Call(t, "free", FALSE)
    /\ UNCHANGED <<library, decompress, scratchSize, loadLock, pool, live>>

FreeList(t) ==
    /\ At(t, "free")
    /\ pool' = <<>>
    /\ thread' = [thread EXCEPT ![t].pc = "freeing", ![t].doomed = pool]
    /\ UNCHANGED <<library, decompress, scratchSize, loadLock, live, calls>>

FreeBlock(t) ==
    /\ At(t, "freeing") /\ thread[t].doomed # <<>>
    /\ live' = live \ {Head(thread[t].doomed)}
    /\ thread' = [thread EXCEPT ![t].doomed = Tail(@)]
    /\ UNCHANGED <<library, decompress, scratchSize, loadLock, pool, calls>>

FreeReturn(t) ==
    /\ At(t, "freeing") /\ thread[t].doomed = <<>>
    /\ Goto(t, "idle")
    /\ UNCHANGED <<library, decompress, scratchSize, loadLock, pool, live, calls>>

Next ==
    \E t \in Threads :
        \/ LoadCall(t) \/ LoadFast(t) \/ LoadLock(t) \/ TryLoadSize(t) \/ TryLoadPublish(t) \/ LoadUnlock(t)
        \/ DecodeCall(t) \/ DecodeSize(t) \/ AcquirePooled(t) \/ AcquireEmpty(t) \/ AcquireMalloc(t)
        \/ AcquireFails(t) \/ Release(t)
        \/ FreeCall(t) \/ FreeList(t) \/ FreeBlock(t) \/ FreeReturn(t)

Spec == Init /\ [][Next]_vars

-----------------------------------------------------------------------------
(* Properties.                                                             *)

Pcs == {"idle", "load", "load lock", "try load", "publish", "unlock", "decode", "acquire", "malloc",
        "decoding", "free", "freeing"}

(* Every part keeps its kind of value; a thread holds a block only while   *)
(* it decodes, and a list only while it frees it.                          *)
TypeOK ==
    /\ library \in Libraries /\ decompress \in BOOLEAN /\ scratchSize \in BOOLEAN
    /\ pool \in Seq(Blocks) /\ live \subseteq Blocks
    /\ thread \in [Threads -> [pc : Pcs, dir : BOOLEAN, scratch : Blocks \cup {Null},
                              doomed : Seq(Blocks), loaded : BOOLEAN]]
    /\ \A t \in Threads : /\ ~At(t, "decoding") => thread[t].scratch = Null
                          /\ ~At(t, "freeing") => thread[t].doomed = <<>>

Held == {thread[t].scratch : t \in Threads} \ {Null}
Doomed == UNION {Range(thread[t].doomed) : t \in Threads}

(* Every allocated block is in exactly one place: once on the free list,   *)
(* or in the hands of one decode, or about to be freed, once, by one       *)
(* shutdown.  So no two decodes share a block, none loses its block to a   *)
(* shutdown, nothing is freed twice and nothing is leaked.                 *)
BlocksAccounted ==
    /\ live = Range(pool) \cup Held \cup Doomed
    /\ IsInjective(pool)
    /\ Range(pool) \cap (Held \cup Doomed) = {} /\ Held \cap Doomed = {}
    /\ \A t \in Threads :
          /\ IsInjective(thread[t].doomed)
          /\ \A u \in Threads \ {t} :
                /\ thread[t].scratch # Null => thread[u].scratch # thread[t].scratch
                /\ Range(thread[t].doomed) \cap Range(thread[u].doomed) = {}

(* A decode never makes Oodle allocate for itself if the library can say   *)
(* how much scratch it needs, neither while a first load is in progress    *)
(* nor out of memory; and a load that finds nothing does not stand in the  *)
(* way of a later one: it answers no only if the library is not to be      *)
(* found with the directory it was given.                                  *)
BindingSound ==
    \A t \in Threads :
        /\ At(t, "decoding") /\ library.exports = "both" => thread[t].scratch # Null
        /\ ~thread[t].loaded => ~Resolves(thread[t].dir)

(* Why: who can see the function can see the size, for the size was known  *)
(* before the function was published.                                      *)
SizeFirst == library.exports = "both" => scratchSize
PublishInv ==
    /\ decompress => SizeFirst
    /\ \A t \in Threads :
          /\ At(t, "publish") => SizeFirst
          /\ thread[t].pc \in {"decode", "acquire", "malloc", "decoding"} => decompress
          /\ At(t, "unlock") => decompress \/ ~Resolves(thread[t].dir)
=============================================================================
