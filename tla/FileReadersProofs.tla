-------------------------- MODULE FileReadersProofs --------------------------
(***************************************************************************)
(* Proofs about FileReaders: the decoder's scratch pool and binding, for   *)
(* any threads, blocks and number of calls; and the readers that are asked *)
(* one thing of one file, for any files: archives, sounds, meshes,         *)
(* documents and textures.                                                 *)
(***************************************************************************)
EXTENDS FileReaders, OrderingProofs

-----------------------------------------------------------------------------
(* Lists of distinct blocks.                                               *)

(* Taking the head off takes one block off, ...                            *)
LEMMA TailDistinct ==
    ASSUME NEW B, NEW s \in Seq(B), s # <<>>, O!IsInjective(s)
    PROVE  /\ Head(s) \in B /\ Head(s) \in O!Range(s)
           /\ Tail(s) \in Seq(B) /\ O!IsInjective(Tail(s))
           /\ O!Range(Tail(s)) = O!Range(s) \ {Head(s)}
<1> DEFINE n == Len(s)
<1>1. n \in Nat /\ n # 0 /\ DOMAIN s = 1..n /\ Head(s) = s[1]
  OBVIOUS
<1>2. Tail(s) \in Seq(B) /\ DOMAIN Tail(s) = 1..(n - 1) /\ \A i \in 1..(n - 1) : Tail(s)[i] = s[i + 1]
  BY <1>1
<1>3. \A i, j \in 1..n : s[i] = s[j] => i = j
  BY <1>1 DEF O!IsInjective
<1>4. O!IsInjective(Tail(s))
  BY <1>1, <1>2, <1>3 DEF O!IsInjective
<1>5. O!Range(Tail(s)) \subseteq O!Range(s) \ {Head(s)}
  <2>1. \A i \in 1..(n - 1) : i + 1 \in 1..n /\ i + 1 # 1 /\ 1 \in 1..n
    BY <1>1
  <2>. QED
    BY <1>1, <1>2, <1>3, <2>1 DEF O!Range
<1>6. O!Range(s) \ {Head(s)} \subseteq O!Range(Tail(s))
  <2> SUFFICES ASSUME NEW i \in 1..n, s[i] # Head(s)
               PROVE  s[i] \in O!Range(Tail(s))
    BY <1>1 DEF O!Range
  <2>1. i - 1 \in 1..(n - 1) /\ (i - 1) + 1 = i
    BY <1>1
  <2>. QED
    BY <1>2, <2>1 DEF O!Range
<1>7. Head(s) \in B /\ Head(s) \in O!Range(s)
  BY <1>1 DEF O!Range
<1>. QED
  BY <1>2, <1>4, <1>5, <1>6, <1>7

(* ... and putting one on puts one on.                                     *)
LEMMA ConsDistinct ==
    ASSUME NEW B, NEW s \in Seq(B), NEW b \in B, O!IsInjective(s), b \notin O!Range(s)
    PROVE  /\ <<b>> \o s \in Seq(B) /\ O!IsInjective(<<b>> \o s)
           /\ O!Range(<<b>> \o s) = O!Range(s) \cup {b}
<1> DEFINE c == <<b>> \o s
           n == Len(s)
<1>1. n \in Nat /\ c \in Seq(B) /\ DOMAIN s = 1..n /\ DOMAIN c = 1..(n + 1)
  OBVIOUS
<1>2. c[1] = b /\ \A i \in 2..(n + 1) : c[i] = s[i - 1]
  BY <1>1
<1>3. \A i \in 2..(n + 1) : c[i] \in O!Range(s) /\ c[i] # b
  <2>1. \A i \in 2..(n + 1) : i - 1 \in 1..n
    BY <1>1
  <2>. QED
    BY <1>1, <1>2, <2>1 DEF O!Range
<1>4. O!IsInjective(c)
  <2> SUFFICES ASSUME NEW i \in 1..(n + 1), NEW j \in 1..(n + 1), c[i] = c[j]
               PROVE  i = j
    BY <1>1 DEF O!IsInjective
  <2>1. CASE i = 1 \/ j = 1
    BY <1>1, <1>2, <1>3, <2>1
  <2>2. CASE i # 1 /\ j # 1
    <3>1. i \in 2..(n + 1) /\ j \in 2..(n + 1) /\ i - 1 \in 1..n /\ j - 1 \in 1..n
      BY <1>1, <2>2
    <3>2. s[i - 1] = s[j - 1]
      BY <1>2, <3>1
    <3>3. i - 1 = j - 1
      BY <1>1, <3>1, <3>2 DEF O!IsInjective
    <3>. QED
      BY <3>1, <3>3
  <2>. QED
    BY <2>1, <2>2
<1>5. O!Range(c) \subseteq O!Range(s) \cup {b}
  BY <1>1, <1>2, <1>3 DEF O!Range
<1>6. O!Range(s) \cup {b} \subseteq O!Range(c)
  <2>1. \A i \in 1..n : i + 1 \in 2..(n + 1) /\ i + 1 \in 1..(n + 1) /\ (i + 1) - 1 = i /\ 1 \in 1..(n + 1)
    BY <1>1
  <2>2. \A i \in 1..n : c[i + 1] = s[i]
    BY <1>2, <2>1
  <2>3. b \in O!Range(c)
    BY <1>1, <1>2 DEF O!Range
  <2>. QED
    BY <1>1, <2>1, <2>2, <2>3 DEF O!Range
<1>. QED
  BY <1>1, <1>4, <1>5, <1>6

(* An empty list holds no block.                                           *)
LEMMA EmptyDistinct == O!IsInjective(<<>>) /\ O!Range(<<>>) = {}
BY DEF O!IsInjective, O!Range

-----------------------------------------------------------------------------
(* The decoder: what all its threads keep true together.                   *)

(* A thread, whatever it is doing.                                         *)
Threading == [pc : O!Pcs, dir : BOOLEAN, scratch : Scratch \cup {NoBlock},
              doomed : Seq(Scratch), loaded : BOOLEAN]

DecoderInv == O!TypeOK /\ O!BlocksAccounted /\ O!BindingSound /\ O!PublishInv

(* A thread takes one turn; the others stay where they are.                *)
LEMMA OneTurn ==
    ASSUME O!TypeOK, NEW t \in Threads, NEW r \in Threading, thread' = [thread EXCEPT ![t] = r]
    PROVE  /\ thread' \in [Threads -> Threading] /\ thread'[t] = r
           /\ \A u \in Threads \ {t} : thread'[u] = thread[u]
BY DEF O!TypeOK, Threading

(* A turn of a thread that holds no block and takes none moves no block.   *)
LEMMA ControlTurn ==
    ASSUME DecoderInv, NEW t \in Threads, NEW r \in Threading, thread' = [thread EXCEPT ![t] = r],
           thread[t].scratch = NoBlock, thread[t].doomed = <<>>, r.scratch = NoBlock, r.doomed = <<>>,
           UNCHANGED <<library, pool, live>>, decompress' \in BOOLEAN, scratchSize' \in BOOLEAN
    PROVE  O!TypeOK' /\ O!BlocksAccounted'
<1>1. /\ thread' \in [Threads -> Threading] /\ thread'[t] = r
      /\ \A u \in Threads \ {t} : thread'[u] = thread[u]
  BY OneTurn DEF DecoderInv
<1>2. \A u \in Threads : thread'[u].scratch = thread[u].scratch /\ thread'[u].doomed = thread[u].doomed
  BY <1>1
<1>3. O!TypeOK'
  BY <1>1 DEF DecoderInv, O!TypeOK, O!At, Threading
<1>4. O!Held' = O!Held /\ O!Doomed' = O!Doomed
  BY <1>2 DEF O!Held, O!Doomed
<1>5. O!BlocksAccounted'
  <2>1. pool' = pool /\ live' = live
    OBVIOUS
  <2>2. O!BlocksAccounted
    BY DEF DecoderInv
  <2>3. /\ live' = O!Range(pool') \cup O!Held' \cup O!Doomed'
        /\ O!IsInjective(pool')
        /\ O!Range(pool') \cap (O!Held' \cup O!Doomed') = {} /\ O!Held' \cap O!Doomed' = {}
    BY <1>4, <2>1, <2>2 DEF O!BlocksAccounted
  <2>4. ASSUME NEW u \in Threads
        PROVE  /\ O!IsInjective(thread'[u].doomed)
               /\ \A v \in Threads \ {u} :
                     /\ thread'[u].scratch # NoBlock => thread'[v].scratch # thread'[u].scratch
                     /\ O!Range(thread'[u].doomed) \cap O!Range(thread'[v].doomed) = {}
    BY <1>2, <2>2 DEF O!BlocksAccounted
  <2>. QED
    BY <2>3, <2>4 DEF O!BlocksAccounted
<1>. QED
  BY <1>3, <1>5

(* What a thread must have seen to stand where it does after its turn.     *)
Sound(r) ==
    /\ r.pc = "decoding" /\ library.exports = "both" => r.scratch # NoBlock
    /\ ~r.loaded => ~O!Resolves(r.dir)
    /\ r.pc = "publish" /\ library.exports = "both" => scratchSize'
    /\ r.pc \in {"decode", "acquire", "malloc", "decoding"} => decompress'
    /\ r.pc = "unlock" => decompress' \/ ~O!Resolves(r.dir)

(* The library, once bound, stays bound: what the others saw stays true.   *)
LEMMA BindingTurn ==
    ASSUME DecoderInv, NEW t \in Threads, NEW r \in Threading, thread' = [thread EXCEPT ![t] = r],
           library' = library, scratchSize => scratchSize', decompress => decompress', Sound(r),
           decompress' /\ library.exports = "both" => scratchSize'
    PROVE  O!BindingSound' /\ O!PublishInv'
<1>1. /\ thread' \in [Threads -> Threading] /\ thread'[t] = r
      /\ \A u \in Threads \ {t} : thread'[u] = thread[u]
  BY OneTurn DEF DecoderInv
<1>2. \A dir : O!Resolves(dir)' = O!Resolves(dir)
  BY DEF O!Resolves, O!Findable
<1>3. O!BindingSound'
  BY <1>1, <1>2 DEF DecoderInv, O!BindingSound, O!At, Sound, O!Resolves, O!Findable
<1>4. O!PublishInv'
  BY <1>1, <1>2 DEF DecoderInv, O!PublishInv, O!SizeFirst, O!At, Sound, O!Resolves, O!Findable
<1>. QED
  BY <1>3, <1>4

(* Both together, for the turns that move no block.                        *)
LEMMA ControlKeeps ==
    ASSUME DecoderInv, NEW t \in Threads, NEW r \in Threading, thread' = [thread EXCEPT ![t] = r],
           ~O!At(t, "decoding"), thread[t].doomed = <<>>, r.scratch = NoBlock, r.doomed = <<>>,
           library' = library, pool' = pool, live' = live, decompress' \in BOOLEAN, scratchSize' \in BOOLEAN,
           scratchSize => scratchSize', decompress => decompress', Sound(r),
           decompress' /\ library.exports = "both" => scratchSize'
    PROVE  DecoderInv'
<1>1. thread[t].scratch = NoBlock
  BY DEF DecoderInv, O!TypeOK
<1>. QED
  BY <1>1, ControlTurn, BindingTurn DEF DecoderInv

-----------------------------------------------------------------------------
(* The actions.                                                            *)

(* What load and try_load know when they act, they still know after.       *)
LEMMA Loading ==
    ASSUME DecoderInv, NEW t \in Threads,
           \/ O!LoadCall(t) \/ O!LoadFast(t) \/ O!LoadLock(t)
           \/ O!TryLoadSize(t) \/ O!TryLoadPublish(t) \/ O!LoadUnlock(t)
    PROVE  DecoderInv'
<1>0. /\ thread \in [Threads -> Threading] /\ decompress \in BOOLEAN /\ scratchSize \in BOOLEAN
      /\ ~O!At(t, "decoding") => thread[t].scratch = NoBlock
      /\ ~O!At(t, "freeing") => thread[t].doomed = <<>>
      /\ ~thread[t].loaded => ~O!Resolves(thread[t].dir)
      /\ decompress /\ library.exports = "both" => scratchSize
  BY DEF DecoderInv, O!TypeOK, O!BindingSound, O!PublishInv, O!SizeFirst, Threading
<1>1. CASE O!LoadCall(t)
  <2>1. PICK dir \in BOOLEAN : O!Call(t, "load", dir)
    BY <1>1 DEF O!LoadCall
  <2> DEFINE r == O!Fresh("load", dir)
  <2>2. O!At(t, "idle") /\ thread' = [thread EXCEPT ![t] = r]
    BY <2>1 DEF O!Call
  <2>3. r \in Threading /\ r.scratch = NoBlock /\ r.doomed = <<>> /\ Sound(r)
    BY DEF O!Fresh, Threading, O!Pcs, Sound
  <2>. QED
    BY <1>0, <1>1, <2>2, <2>3, ControlKeeps DEF O!LoadCall, O!At
<1>2. CASE O!LoadFast(t)
  <2> DEFINE r == IF decompress THEN [thread[t] EXCEPT !.pc = "idle", !.loaded = TRUE]
                  ELSE [thread[t] EXCEPT !.pc = "load lock"]
  <2>1. O!At(t, "load")
    BY <1>2 DEF O!LoadFast
  <2>2. r \in Threading /\ r.scratch = NoBlock /\ r.doomed = <<>>
    BY <1>0, <1>2, <2>1 DEF O!LoadFast, Threading, O!Pcs, O!At
  <2>3. thread' = [thread EXCEPT ![t] = r]
    BY <1>2, <2>1 DEF O!LoadFast, O!Goto, O!Loaded
  <2>4. /\ r.pc \in {"idle", "load lock"} /\ r.dir = thread[t].dir
        /\ ~r.loaded => ~thread[t].loaded
    BY <1>0, <2>1 DEF Threading
  <2>5. Sound(r) /\ (decompress' /\ library.exports = "both" => scratchSize')
    <3> HIDE DEF r
    <3>. QED
      BY <1>0, <1>2, <2>4 DEF O!LoadFast, Sound
  <2>. QED
    BY <1>0, <1>2, <2>1, <2>2, <2>3, <2>5, ControlKeeps DEF O!LoadFast, O!At
<1>3. CASE O!LoadLock(t)
  <2> DEFINE r == [thread[t] EXCEPT !.pc = IF decompress THEN "unlock" ELSE "try load"]
  <2>1. O!At(t, "load lock")
    BY <1>3 DEF O!LoadLock
  <2>2. r \in Threading /\ r.scratch = NoBlock /\ r.doomed = <<>>
    BY <1>0, <1>3, <2>1 DEF O!LoadLock, Threading, O!Pcs, O!At
  <2>3. thread' = [thread EXCEPT ![t] = r]
    BY <1>3, <2>1 DEF O!LoadLock, O!Goto
  <2>4. /\ r.pc \in {"unlock", "try load"} /\ (r.pc = "unlock" => decompress)
        /\ r.dir = thread[t].dir /\ r.loaded = thread[t].loaded
    BY <1>0, <2>1 DEF Threading
  <2>5. Sound(r) /\ (decompress' /\ library.exports = "both" => scratchSize')
    <3> HIDE DEF r
    <3>. QED
      BY <1>0, <1>3, <2>4 DEF O!LoadLock, Sound
  <2>. QED
    BY <1>0, <1>3, <2>1, <2>2, <2>3, <2>5, ControlKeeps DEF O!LoadLock, O!At
<1>4. CASE O!TryLoadSize(t)
  <2> DEFINE r == [thread[t] EXCEPT !.pc = IF O!Resolves(thread[t].dir)
                  THEN "publish" ELSE "unlock"]
  <2>1. O!At(t, "try load")
    BY <1>4 DEF O!TryLoadSize
  <2>2. r \in Threading /\ r.scratch = NoBlock /\ r.doomed = <<>>
    BY <1>0, <1>4, <2>1 DEF O!TryLoadSize, Threading, O!Pcs, O!At
  <2>3. thread' = [thread EXCEPT ![t] = r]
    BY <1>4, <2>1 DEF O!TryLoadSize, O!Goto
  <2>4. /\ r.pc \in {"publish", "unlock"} /\ (r.pc = "publish" <=> O!Resolves(thread[t].dir))
        /\ r.dir = thread[t].dir /\ r.loaded = thread[t].loaded
    BY <1>0, <2>1 DEF Threading
  <2>5. Sound(r) /\ (decompress' /\ library.exports = "both" => scratchSize')
    <3> HIDE DEF r
    <3>. QED
      BY <1>0, <1>4, <2>4 DEF O!TryLoadSize, Sound
  <2>. QED
    BY <1>0, <1>4, <2>1, <2>2, <2>3, <2>5, ControlKeeps DEF O!TryLoadSize, O!At
<1>5. CASE O!TryLoadPublish(t)
  <2> DEFINE r == [thread[t] EXCEPT !.pc = "unlock"]
  <2>1. O!At(t, "publish")
    BY <1>5 DEF O!TryLoadPublish
  <2>2. r \in Threading /\ r.scratch = NoBlock /\ r.doomed = <<>>
    BY <1>0, <1>5, <2>1 DEF O!TryLoadPublish, Threading, O!Pcs, O!At
  <2>3. thread' = [thread EXCEPT ![t] = r]
    BY <1>5, <2>1 DEF O!TryLoadPublish, O!Goto
  <2>4. Sound(r) /\ (decompress' /\ library.exports = "both" => scratchSize')
    BY <1>0, <1>5, <2>1, <2>2 DEF O!TryLoadPublish, Sound, O!At, DecoderInv, O!PublishInv, O!SizeFirst
  <2>. QED
    BY <1>0, <1>5, <2>1, <2>2, <2>3, <2>4, ControlKeeps DEF O!TryLoadPublish, O!At
<1>6. CASE O!LoadUnlock(t)
  <2> DEFINE r == [thread[t] EXCEPT !.pc = "idle", !.loaded = decompress]
  <2>1. O!At(t, "unlock")
    BY <1>6 DEF O!LoadUnlock
  <2>2. r \in Threading /\ r.scratch = NoBlock /\ r.doomed = <<>>
    BY <1>0, <1>6, <2>1 DEF O!LoadUnlock, Threading, O!Pcs, O!At
  <2>3. thread' = [thread EXCEPT ![t] = r]
    BY <1>6, <2>1 DEF O!LoadUnlock, O!Loaded
  <2>4. Sound(r) /\ (decompress' /\ library.exports = "both" => scratchSize')
    BY <1>0, <1>6, <2>1, <2>2 DEF O!LoadUnlock, Sound, O!At, DecoderInv, O!PublishInv, O!SizeFirst
  <2>. QED
    BY <1>0, <1>6, <2>1, <2>2, <2>3, <2>4, ControlKeeps DEF O!LoadUnlock, O!At
<1>. QED
  BY <1>1, <1>2, <1>3, <1>4, <1>5, <1>6

(* So do a decode and a shutdown, up to where they touch the free list.    *)
LEMMA Asking ==
    ASSUME DecoderInv, NEW t \in Threads,
           \/ O!DecodeCall(t) \/ O!DecodeSize(t) \/ O!AcquireEmpty(t)
           \/ O!AcquireFails(t) \/ O!FreeCall(t) \/ O!FreeReturn(t)
    PROVE  DecoderInv'
<1>0. /\ thread \in [Threads -> Threading] /\ decompress \in BOOLEAN /\ scratchSize \in BOOLEAN
      /\ ~O!At(t, "decoding") => thread[t].scratch = NoBlock
      /\ ~O!At(t, "freeing") => thread[t].doomed = <<>>
      /\ ~thread[t].loaded => ~O!Resolves(thread[t].dir)
      /\ decompress /\ library.exports = "both" => scratchSize
  BY DEF DecoderInv, O!TypeOK, O!BindingSound, O!PublishInv, O!SizeFirst, Threading
<1>1. CASE O!DecodeCall(t)
  <2> DEFINE r == O!Fresh("decode", FALSE)
  <2>1. O!At(t, "idle")
    BY <1>1 DEF O!DecodeCall, O!Call
  <2>2. r \in Threading /\ r.scratch = NoBlock /\ r.doomed = <<>>
    BY <1>0, <1>1, <2>1 DEF O!DecodeCall, Threading, O!Pcs, O!At, O!Fresh
  <2>3. thread' = [thread EXCEPT ![t] = r]
    BY <1>1, <2>1 DEF O!DecodeCall, O!Call, O!Fresh
  <2>4. Sound(r) /\ (decompress' /\ library.exports = "both" => scratchSize')
    BY <1>0, <1>1, <2>1, <2>2 DEF O!DecodeCall, Sound, O!At, DecoderInv, O!PublishInv, O!SizeFirst, O!Fresh
  <2>. QED
    BY <1>0, <1>1, <2>1, <2>2, <2>3, <2>4, ControlKeeps DEF O!DecodeCall, O!At
<1>2. CASE O!DecodeSize(t)
  <2> DEFINE r == [thread[t] EXCEPT !.pc = IF scratchSize THEN "acquire" ELSE "decoding"]
  <2>1. O!At(t, "decode")
    BY <1>2 DEF O!DecodeSize
  <2>2. r \in Threading /\ r.scratch = NoBlock /\ r.doomed = <<>>
    BY <1>0, <1>2, <2>1 DEF O!DecodeSize, Threading, O!Pcs, O!At
  <2>3. thread' = [thread EXCEPT ![t] = r]
    BY <1>2, <2>1 DEF O!DecodeSize, O!Goto
  <2>4. Sound(r) /\ (decompress' /\ library.exports = "both" => scratchSize')
    BY <1>0, <1>2, <2>1, <2>2 DEF O!DecodeSize, Sound, O!At, DecoderInv, O!PublishInv, O!SizeFirst
  <2>. QED
    BY <1>0, <1>2, <2>1, <2>2, <2>3, <2>4, ControlKeeps DEF O!DecodeSize, O!At
<1>3. CASE O!AcquireEmpty(t)
  <2> DEFINE r == [thread[t] EXCEPT !.pc = "malloc"]
  <2>1. O!At(t, "acquire")
    BY <1>3 DEF O!AcquireEmpty
  <2>2. r \in Threading /\ r.scratch = NoBlock /\ r.doomed = <<>>
    BY <1>0, <1>3, <2>1 DEF O!AcquireEmpty, Threading, O!Pcs, O!At
  <2>3. thread' = [thread EXCEPT ![t] = r]
    BY <1>3, <2>1 DEF O!AcquireEmpty, O!Goto
  <2>4. Sound(r) /\ (decompress' /\ library.exports = "both" => scratchSize')
    BY <1>0, <1>3, <2>1, <2>2 DEF O!AcquireEmpty, Sound, O!At, DecoderInv, O!PublishInv, O!SizeFirst
  <2>. QED
    BY <1>0, <1>3, <2>1, <2>2, <2>3, <2>4, ControlKeeps DEF O!AcquireEmpty, O!At
<1>4. CASE O!AcquireFails(t)
  <2> DEFINE r == [thread[t] EXCEPT !.pc = "idle"]
  <2>1. O!At(t, "malloc")
    BY <1>4 DEF O!AcquireFails
  <2>2. r \in Threading /\ r.scratch = NoBlock /\ r.doomed = <<>>
    BY <1>0, <1>4, <2>1 DEF O!AcquireFails, Threading, O!Pcs, O!At
  <2>3. thread' = [thread EXCEPT ![t] = r]
    BY <1>4, <2>1 DEF O!AcquireFails, O!Goto
  <2>4. Sound(r) /\ (decompress' /\ library.exports = "both" => scratchSize')
    BY <1>0, <1>4, <2>1, <2>2 DEF O!AcquireFails, Sound, O!At, DecoderInv, O!PublishInv, O!SizeFirst
  <2>. QED
    BY <1>0, <1>4, <2>1, <2>2, <2>3, <2>4, ControlKeeps DEF O!AcquireFails, O!At
<1>5. CASE O!FreeCall(t)
  <2> DEFINE r == O!Fresh("free", FALSE)
  <2>1. O!At(t, "idle")
    BY <1>5 DEF O!FreeCall, O!Call
  <2>2. r \in Threading /\ r.scratch = NoBlock /\ r.doomed = <<>>
    BY <1>0, <1>5, <2>1 DEF O!FreeCall, Threading, O!Pcs, O!At, O!Fresh
  <2>3. thread' = [thread EXCEPT ![t] = r]
    BY <1>5, <2>1 DEF O!FreeCall, O!Call, O!Fresh
  <2>4. Sound(r) /\ (decompress' /\ library.exports = "both" => scratchSize')
    BY <1>0, <1>5, <2>1, <2>2 DEF O!FreeCall, Sound, O!At, DecoderInv, O!PublishInv, O!SizeFirst, O!Fresh
  <2>. QED
    BY <1>0, <1>5, <2>1, <2>2, <2>3, <2>4, ControlKeeps DEF O!FreeCall, O!At
<1>6. CASE O!FreeReturn(t)
  <2> DEFINE r == [thread[t] EXCEPT !.pc = "idle"]
  <2>1. O!At(t, "freeing")
    BY <1>6 DEF O!FreeReturn
  <2>2. r \in Threading /\ r.scratch = NoBlock /\ r.doomed = <<>>
    BY <1>0, <1>6, <2>1 DEF O!FreeReturn, Threading, O!Pcs, O!At
  <2>3. thread' = [thread EXCEPT ![t] = r]
    BY <1>6, <2>1 DEF O!FreeReturn, O!Goto
  <2>4. Sound(r) /\ (decompress' /\ library.exports = "both" => scratchSize')
    BY <1>0, <1>6, <2>1, <2>2 DEF O!FreeReturn, Sound, O!At, DecoderInv, O!PublishInv, O!SizeFirst
  <2>. QED
    BY <1>0, <1>6, <2>1, <2>2, <2>3, <2>4, ControlKeeps DEF O!FreeReturn, O!At
<1>. QED
  BY <1>1, <1>2, <1>3, <1>4, <1>5, <1>6

(* A decode takes a block that nobody else has.                            *)
LEMMA Taking ==
    ASSUME DecoderInv, NEW t \in Threads, NEW b \in Scratch, b \notin O!Range(pool') \cup O!Held \cup O!Doomed,
           O!At(t, "acquire") \/ O!At(t, "malloc"),
           thread' = [thread EXCEPT ![t].pc = "decoding", ![t].scratch = b],
           pool' \in Seq(Scratch), O!IsInjective(pool'), O!Range(pool') \cap (O!Held \cup O!Doomed) = {},
           live' \subseteq Scratch, live' = O!Range(pool') \cup O!Held \cup {b} \cup O!Doomed,
           UNCHANGED <<library, decompress, scratchSize>>
    PROVE  DecoderInv'
<1> DEFINE r == [thread[t] EXCEPT !.pc = "decoding", !.scratch = b]
<1>1. /\ thread[t] \in Threading /\ thread[t].scratch = NoBlock /\ thread[t].doomed = <<>>
      /\ decompress /\ (library.exports = "both" => scratchSize)
      /\ ~thread[t].loaded => ~O!Resolves(thread[t].dir)
      /\ b # NoBlock
  BY FilesAssumption DEF DecoderInv, O!TypeOK, O!At, O!PublishInv, O!SizeFirst, O!BindingSound, Threading
<1>2. /\ r \in Threading /\ r.pc = "decoding" /\ r.scratch = b /\ r.doomed = <<>>
      /\ r.dir = thread[t].dir /\ r.loaded = thread[t].loaded
  BY <1>1 DEF Threading, O!Pcs
<1>3. thread' = [thread EXCEPT ![t] = r]
  OBVIOUS
<1> HIDE DEF r
<1>4. O!BindingSound' /\ O!PublishInv'
  BY <1>1, <1>2, <1>3, BindingTurn DEF Sound
<1>5. /\ thread' \in [Threads -> Threading] /\ thread'[t] = r
      /\ \A u \in Threads \ {t} : thread'[u] = thread[u]
  BY <1>2, <1>3, OneTurn DEF DecoderInv
<1>6. O!TypeOK'
  BY <1>2, <1>5 DEF DecoderInv, O!TypeOK, O!At, Threading
<1>7. O!Held' = O!Held \cup {b} /\ O!Doomed' = O!Doomed
  <2>1. \A u \in Threads : thread'[u].doomed = thread[u].doomed
    BY <1>1, <1>2, <1>5
  <2>2. O!Held' \subseteq O!Held \cup {b}
    BY <1>2, <1>5 DEF O!Held
  <2>3. b \in O!Held'
    BY <1>1, <1>2, <1>5 DEF O!Held
  <2>4. O!Held \subseteq O!Held'
    BY <1>1, <1>5 DEF O!Held
  <2>5. O!Doomed' = O!Doomed
    <3> DEFINE lost(u) == thread[u].doomed
               kept(u) == thread'[u].doomed
    <3>1. \A u \in Threads : kept(u) = lost(u)
      BY <2>1
    <3>2. O!Doomed = UNION {O!Range(lost(u)) : u \in Threads} /\ O!Doomed' = UNION {O!Range(kept(u)) : u \in Threads}
      BY DEF O!Doomed
    <3> HIDE DEF lost, kept
    <3>. QED
      BY <3>1, <3>2
  <2>. QED
    BY <2>2, <2>3, <2>4, <2>5
<1>8. \A u \in Threads : thread[u].scratch # NoBlock => thread[u].scratch \in O!Held
  BY DEF O!Held
<1>9. ASSUME NEW u \in Threads
      PROVE  /\ O!IsInjective(thread'[u].doomed)
             /\ \A v \in Threads \ {u} :
                   /\ thread'[u].scratch # NoBlock => thread'[v].scratch # thread'[u].scratch
                   /\ O!Range(thread'[u].doomed) \cap O!Range(thread'[v].doomed) = {}
  <2>1. \A v \in Threads : thread'[v].doomed = thread[v].doomed
    BY <1>1, <1>2, <1>5
  <2>2. O!BlocksAccounted
    BY DEF DecoderInv
  <2>3. /\ O!IsInjective(thread'[u].doomed)
        /\ \A v \in Threads \ {u} : O!Range(thread'[u].doomed) \cap O!Range(thread'[v].doomed) = {}
    BY <2>1, <2>2 DEF O!BlocksAccounted
  <2>4. \A v \in Threads \ {u} : thread'[u].scratch # NoBlock => thread'[v].scratch # thread'[u].scratch
    BY <1>1, <1>2, <1>5, <1>8, <2>2 DEF O!BlocksAccounted
  <2>. QED
    BY <2>3, <2>4
<1>10. O!BlocksAccounted'
  <2>1. O!Held \cap O!Doomed = {}
    BY DEF DecoderInv, O!BlocksAccounted
  <2>2. /\ live' = O!Range(pool') \cup O!Held' \cup O!Doomed'
        /\ O!Range(pool') \cap (O!Held' \cup O!Doomed') = {} /\ O!Held' \cap O!Doomed' = {}
    BY <1>7, <2>1
  <2>. QED
    BY <1>9, <2>2 DEF O!BlocksAccounted
<1>. QED
  BY <1>4, <1>6, <1>10 DEF DecoderInv

(* A decode gets a pooled block, a new one, or gives up.                   *)
LEMMA Acquiring ==
    ASSUME DecoderInv, NEW t \in Threads, O!AcquirePooled(t) \/ O!AcquireMalloc(t)
    PROVE  DecoderInv'
<1>0. /\ pool \in Seq(Scratch) /\ live \subseteq Scratch /\ O!IsInjective(pool)
      /\ live = O!Range(pool) \cup O!Held \cup O!Doomed
      /\ O!Range(pool) \cap (O!Held \cup O!Doomed) = {}
  BY DEF DecoderInv, O!TypeOK, O!BlocksAccounted
<1>1. CASE O!AcquirePooled(t)
  <2>1. pool # <<>>
    BY <1>1 DEF O!AcquirePooled
  <2>2. /\ Head(pool) \in Scratch /\ Head(pool) \in O!Range(pool)
        /\ Tail(pool) \in Seq(Scratch) /\ O!IsInjective(Tail(pool))
        /\ O!Range(Tail(pool)) = O!Range(pool) \ {Head(pool)}
    BY <1>0, <2>1, TailDistinct
  <2>. QED
    BY <1>0, <1>1, <2>2, Taking DEF O!AcquirePooled
<1>2. CASE O!AcquireMalloc(t)
  <2>1. PICK b \in Scratch \ live : /\ live' = live \cup {b}
                                    /\ thread' = [thread EXCEPT ![t].pc = "decoding", ![t].scratch = b]
    BY <1>2 DEF O!AcquireMalloc
  <2>. QED
    BY <1>0, <1>2, <2>1, Taking DEF O!AcquireMalloc
<1>. QED
  BY <1>1, <1>2

(* A decode that had a block puts it back.                                 *)
LEMMA Releasing ==
    ASSUME DecoderInv, NEW t \in Threads, O!Release(t)
    PROVE  DecoderInv'
<1> DEFINE b == thread[t].scratch
           r == [thread[t] EXCEPT !.pc = "idle", !.scratch = NoBlock]
<1>1. /\ thread[t] \in Threading /\ thread[t].doomed = <<>> /\ decompress \in BOOLEAN /\ scratchSize \in BOOLEAN
      /\ decompress /\ library.exports = "both" => scratchSize
      /\ ~thread[t].loaded => ~O!Resolves(thread[t].dir)
      /\ pool \in Seq(Scratch) /\ live \subseteq Scratch /\ b \in Scratch \cup {NoBlock}
  BY DEF O!Release, DecoderInv, O!TypeOK, O!At, O!PublishInv, O!SizeFirst, O!BindingSound, Threading
<1>2. /\ r \in Threading /\ r.pc = "idle" /\ r.scratch = NoBlock /\ r.doomed = <<>>
      /\ r.dir = thread[t].dir /\ r.loaded = thread[t].loaded
  BY <1>1 DEF Threading, O!Pcs
<1>3. thread' = [thread EXCEPT ![t] = r] /\ UNCHANGED <<library, decompress, scratchSize, live>>
  BY DEF O!Release
<1> HIDE DEF r
<1>4. O!BindingSound' /\ O!PublishInv'
  BY <1>1, <1>2, <1>3, BindingTurn DEF Sound
<1>5. CASE b = NoBlock
  BY <1>1, <1>2, <1>3, <1>4, <1>5, ControlTurn DEF O!Release, DecoderInv
<1>6. CASE b # NoBlock
  <2>1. /\ thread' \in [Threads -> Threading] /\ thread'[t] = r
        /\ \A u \in Threads \ {t} : thread'[u] = thread[u]
    BY <1>2, <1>3, OneTurn DEF DecoderInv
  <2>2. b \in Scratch /\ b \in O!Held /\ O!BlocksAccounted
    BY <1>1, <1>6 DEF O!Held, DecoderInv
  <2>3. b \notin O!Range(pool) /\ O!IsInjective(pool)
    BY <2>2 DEF O!BlocksAccounted
  <2>4. pool' = <<b>> \o pool
    BY <1>6 DEF O!Release
  <2>5. pool' \in Seq(Scratch) /\ O!IsInjective(pool') /\ O!Range(pool') = O!Range(pool) \cup {b}
    BY <1>1, <2>2, <2>3, <2>4, ConsDistinct
  <2>6. O!TypeOK'
    BY <1>1, <1>2, <1>3, <2>1, <2>5 DEF DecoderInv, O!TypeOK, O!At, Threading
  <2>7. \A u \in Threads : thread'[u].doomed = thread[u].doomed
    BY <1>1, <1>2, <2>1
  <2>8. O!Doomed' = O!Doomed
    BY <2>7 DEF O!Doomed
  <2>9. \A u \in Threads \ {t} : thread[u].scratch # b
    BY <1>6, <2>2 DEF O!BlocksAccounted
  <2>10. O!Held' = O!Held \ {b}
    <3>1. O!Held' \subseteq O!Held \ {b}
      BY <1>2, <2>1, <2>9 DEF O!Held
    <3>2. O!Held \ {b} \subseteq O!Held'
      BY <2>1 DEF O!Held
    <3>. QED
      BY <3>1, <3>2
  <2>11. /\ live' = O!Range(pool') \cup O!Held' \cup O!Doomed'
         /\ O!Range(pool') \cap (O!Held' \cup O!Doomed') = {} /\ O!Held' \cap O!Doomed' = {}
    <3>1. /\ live = O!Range(pool) \cup O!Held \cup O!Doomed /\ live' = live
          /\ O!Range(pool) \cap (O!Held \cup O!Doomed) = {} /\ O!Held \cap O!Doomed = {}
      BY <1>3, <2>2 DEF O!BlocksAccounted
    <3>. QED
      BY <2>2, <2>5, <2>8, <2>10, <3>1
  <2>12. ASSUME NEW u \in Threads
         PROVE  /\ O!IsInjective(thread'[u].doomed)
                /\ \A v \in Threads \ {u} :
                      /\ thread'[u].scratch # NoBlock => thread'[v].scratch # thread'[u].scratch
                      /\ O!Range(thread'[u].doomed) \cap O!Range(thread'[v].doomed) = {}
    <3>1. /\ O!IsInjective(thread'[u].doomed)
          /\ \A v \in Threads \ {u} : O!Range(thread'[u].doomed) \cap O!Range(thread'[v].doomed) = {}
      BY <2>2, <2>7 DEF O!BlocksAccounted
    <3>2. \A v \in Threads \ {u} : thread'[u].scratch # NoBlock => thread'[v].scratch # thread'[u].scratch
      BY <1>2, <2>1, <2>2 DEF O!BlocksAccounted
    <3>. QED
      BY <3>1, <3>2
  <2>. QED
    BY <1>4, <2>5, <2>6, <2>11, <2>12 DEF DecoderInv, O!BlocksAccounted
<1>. QED
  BY <1>5, <1>6

(* A shutdown takes the whole free list, ...                               *)
LEMMA Emptying ==
    ASSUME DecoderInv, NEW t \in Threads, O!FreeList(t)
    PROVE  DecoderInv'
<1> DEFINE r == [thread[t] EXCEPT !.pc = "freeing", !.doomed = pool]
<1>1. /\ thread[t] \in Threading /\ thread[t].scratch = NoBlock /\ thread[t].doomed = <<>>
      /\ decompress \in BOOLEAN /\ scratchSize \in BOOLEAN
      /\ decompress /\ library.exports = "both" => scratchSize
      /\ ~thread[t].loaded => ~O!Resolves(thread[t].dir)
      /\ pool \in Seq(Scratch) /\ live \subseteq Scratch /\ O!BlocksAccounted
  BY DEF O!FreeList, DecoderInv, O!TypeOK, O!At, O!PublishInv, O!SizeFirst, O!BindingSound, Threading
<1>2. /\ r \in Threading /\ r.pc = "freeing" /\ r.scratch = NoBlock /\ r.doomed = pool
      /\ r.dir = thread[t].dir /\ r.loaded = thread[t].loaded
  BY <1>1 DEF Threading, O!Pcs
<1>3. /\ thread' = [thread EXCEPT ![t] = r] /\ pool' = <<>>
      /\ UNCHANGED <<library, decompress, scratchSize, live>>
  BY DEF O!FreeList
<1> HIDE DEF r
<1>4. O!BindingSound' /\ O!PublishInv'
  BY <1>1, <1>2, <1>3, BindingTurn DEF Sound
<1>5. /\ thread' \in [Threads -> Threading] /\ thread'[t] = r
      /\ \A u \in Threads \ {t} : thread'[u] = thread[u]
  BY <1>2, <1>3, OneTurn DEF DecoderInv
<1>6. O!TypeOK'
  BY <1>1, <1>2, <1>3, <1>5 DEF DecoderInv, O!TypeOK, O!At, Threading
<1>7. \A u \in Threads : thread'[u].scratch = thread[u].scratch
  BY <1>1, <1>2, <1>5
<1>8. O!Held' = O!Held
  BY <1>7 DEF O!Held
<1>9. O!Doomed' = O!Doomed \cup O!Range(pool)
  <2>1. O!Range(thread[t].doomed) = {}
    BY <1>1, EmptyDistinct
  <2>2. O!Doomed' \subseteq O!Doomed \cup O!Range(pool)
    BY <1>2, <1>5 DEF O!Doomed
  <2>3. O!Range(pool) \subseteq O!Doomed'
    BY <1>2, <1>5 DEF O!Doomed
  <2>4. O!Doomed \subseteq O!Doomed'
    BY <1>5, <2>1 DEF O!Doomed
  <2>. QED
    BY <2>2, <2>3, <2>4
<1>10. /\ live' = O!Range(pool') \cup O!Held' \cup O!Doomed' /\ O!IsInjective(pool')
       /\ O!Range(pool') \cap (O!Held' \cup O!Doomed') = {} /\ O!Held' \cap O!Doomed' = {}
  <2>1. /\ live = O!Range(pool) \cup O!Held \cup O!Doomed /\ live' = live
        /\ O!Range(pool) \cap (O!Held \cup O!Doomed) = {} /\ O!Held \cap O!Doomed = {}
    BY <1>1, <1>3 DEF O!BlocksAccounted
  <2>2. O!Range(pool') = {} /\ O!IsInjective(pool')
    BY <1>3, EmptyDistinct
  <2>. QED
    BY <1>8, <1>9, <2>1, <2>2
<1>11. ASSUME NEW u \in Threads
       PROVE  /\ O!IsInjective(thread'[u].doomed)
              /\ \A v \in Threads \ {u} :
                    /\ thread'[u].scratch # NoBlock => thread'[v].scratch # thread'[u].scratch
                    /\ O!Range(thread'[u].doomed) \cap O!Range(thread'[v].doomed) = {}
  <2>1. \A v \in Threads : O!Range(thread[v].doomed) \cap O!Range(pool) = {}
    <3>1. \A v \in Threads : O!Range(thread[v].doomed) \subseteq O!Doomed
      BY DEF O!Doomed
    <3>2. O!Range(pool) \cap O!Doomed = {}
      BY <1>1 DEF O!BlocksAccounted
    <3>. QED
      BY <3>1, <3>2
  <2>2. O!IsInjective(thread'[u].doomed)
    BY <1>1, <1>2, <1>5 DEF O!BlocksAccounted
  <2>3. \A v \in Threads \ {u} : O!Range(thread'[u].doomed) \cap O!Range(thread'[v].doomed) = {}
    <3> SUFFICES ASSUME NEW v \in Threads \ {u}
                 PROVE  O!Range(thread'[u].doomed) \cap O!Range(thread'[v].doomed) = {}
      OBVIOUS
    <3>1. CASE u = t
      BY <1>2, <1>5, <2>1, <3>1
    <3>2. CASE v = t
      BY <1>2, <1>5, <2>1, <3>2
    <3>3. CASE u # t /\ v # t
      BY <1>1, <1>5, <3>3 DEF O!BlocksAccounted
    <3>. QED
      BY <3>1, <3>2, <3>3
  <2>4. \A v \in Threads \ {u} : thread'[u].scratch # NoBlock => thread'[v].scratch # thread'[u].scratch
    BY <1>1, <1>7 DEF O!BlocksAccounted
  <2>. QED
    BY <2>2, <2>3, <2>4
<1>. QED
  BY <1>4, <1>6, <1>10, <1>11 DEF DecoderInv, O!BlocksAccounted

(* ... and frees it block by block.                                        *)
LEMMA Freeing ==
    ASSUME DecoderInv, NEW t \in Threads, O!FreeBlock(t)
    PROVE  DecoderInv'
<1> DEFINE d == thread[t].doomed
           h == Head(d)
           r == [thread[t] EXCEPT !.doomed = Tail(d)]
<1>1. /\ thread[t] \in Threading /\ thread[t].pc = "freeing" /\ thread[t].scratch = NoBlock
      /\ d \in Seq(Scratch) /\ d # <<>> /\ decompress \in BOOLEAN /\ scratchSize \in BOOLEAN
      /\ decompress /\ library.exports = "both" => scratchSize
      /\ ~thread[t].loaded => ~O!Resolves(thread[t].dir)
      /\ O!BlocksAccounted
  BY DEF O!FreeBlock, DecoderInv, O!TypeOK, O!At, O!PublishInv, O!SizeFirst, O!BindingSound, Threading
<1>2. /\ h \in Scratch /\ h \in O!Range(d) /\ Tail(d) \in Seq(Scratch) /\ O!IsInjective(Tail(d))
      /\ O!Range(Tail(d)) = O!Range(d) \ {h}
  <2>1. O!IsInjective(d)
    BY <1>1 DEF O!BlocksAccounted
  <2>. QED
    BY <1>1, <2>1, TailDistinct
<1>3. /\ r \in Threading /\ r.pc = "freeing" /\ r.scratch = NoBlock /\ r.doomed = Tail(d)
      /\ r.dir = thread[t].dir /\ r.loaded = thread[t].loaded
  BY <1>1, <1>2 DEF Threading, O!Pcs
<1>4. /\ thread' = [thread EXCEPT ![t] = r] /\ live' = live \ {h}
      /\ UNCHANGED <<library, decompress, scratchSize, pool>>
  BY DEF O!FreeBlock
<1> HIDE DEF r, d, h
<1>5. O!BindingSound' /\ O!PublishInv'
  BY <1>1, <1>3, <1>4, BindingTurn DEF Sound
<1>6. /\ thread' \in [Threads -> Threading] /\ thread'[t] = r
      /\ \A u \in Threads \ {t} : thread'[u] = thread[u]
  BY <1>3, <1>4, OneTurn DEF DecoderInv
<1>7. O!TypeOK'
  BY <1>3, <1>4, <1>6 DEF DecoderInv, O!TypeOK, O!At, Threading
<1>8. \A u \in Threads : thread'[u].scratch = thread[u].scratch
  BY <1>1, <1>3, <1>6
<1>9. O!Held' = O!Held
  BY <1>8 DEF O!Held
<1>10. \A u \in Threads \ {t} : O!Range(thread[u].doomed) \cap O!Range(d) = {}
  BY <1>1 DEF O!BlocksAccounted, d
<1>11. O!Doomed' = O!Doomed \ {h}
  <2>1. \A u \in Threads \ {t} : h \notin O!Range(thread[u].doomed)
    BY <1>2, <1>10
  <2>2. O!Doomed' \subseteq O!Doomed \ {h}
    BY <1>2, <1>3, <1>6, <2>1 DEF O!Doomed, d
  <2>3. O!Doomed \ {h} \subseteq O!Doomed'
    BY <1>2, <1>3, <1>6 DEF O!Doomed, d
  <2>. QED
    BY <2>2, <2>3
<1>12. /\ live' = O!Range(pool') \cup O!Held' \cup O!Doomed' /\ O!IsInjective(pool')
       /\ O!Range(pool') \cap (O!Held' \cup O!Doomed') = {} /\ O!Held' \cap O!Doomed' = {}
  <2>1. /\ live = O!Range(pool) \cup O!Held \cup O!Doomed /\ O!IsInjective(pool)
        /\ O!Range(pool) \cap (O!Held \cup O!Doomed) = {} /\ O!Held \cap O!Doomed = {}
    BY <1>1 DEF O!BlocksAccounted
  <2>2. h \in O!Doomed
    BY <1>2 DEF O!Doomed, d
  <2>3. pool' = pool
    BY <1>4
  <2>. QED
    BY <1>4, <1>9, <1>11, <2>1, <2>2, <2>3
<1>13. ASSUME NEW u \in Threads
       PROVE  /\ O!IsInjective(thread'[u].doomed)
              /\ \A v \in Threads \ {u} :
                    /\ thread'[u].scratch # NoBlock => thread'[v].scratch # thread'[u].scratch
                    /\ O!Range(thread'[u].doomed) \cap O!Range(thread'[v].doomed) = {}
  <2>1. O!IsInjective(thread'[u].doomed)
    BY <1>1, <1>2, <1>3, <1>6 DEF O!BlocksAccounted
  <2>2. \A v \in Threads \ {u} : O!Range(thread'[u].doomed) \cap O!Range(thread'[v].doomed) = {}
    <3> SUFFICES ASSUME NEW v \in Threads \ {u}
                 PROVE  O!Range(thread'[u].doomed) \cap O!Range(thread'[v].doomed) = {}
      OBVIOUS
    <3>1. CASE u = t
      BY <1>2, <1>3, <1>6, <1>10, <3>1
    <3>2. CASE v = t
      BY <1>2, <1>3, <1>6, <1>10, <3>2
    <3>3. CASE u # t /\ v # t
      BY <1>1, <1>6, <3>3 DEF O!BlocksAccounted
    <3>. QED
      BY <3>1, <3>2, <3>3
  <2>3. \A v \in Threads \ {u} : thread'[u].scratch # NoBlock => thread'[v].scratch # thread'[u].scratch
    BY <1>1, <1>8 DEF O!BlocksAccounted
  <2>. QED
    BY <2>1, <2>2, <2>3
<1>. QED
  BY <1>5, <1>7, <1>12, <1>13 DEF DecoderInv, O!BlocksAccounted

-----------------------------------------------------------------------------
(* The whole.                                                              *)

(* A process starts with nothing bound and every block free.               *)
LEMMA DecoderStart ==
    ASSUME O!Init
    PROVE  DecoderInv
<1>1. /\ \A t \in Threads : thread[t] = O!Idle
      /\ O!Idle.scratch = NoBlock /\ O!Idle.doomed = <<>> /\ O!Idle.pc = "idle" /\ O!Idle.loaded
  BY DEF O!Init, O!Idle, O!Fresh
<1>2. O!TypeOK
  <2>1. O!Idle \in Threading
    BY DEF O!Idle, O!Fresh, Threading, O!Pcs
  <2>. QED
    BY <1>1, <2>1 DEF O!Init, O!TypeOK, Threading
<1>3. O!Held = {} /\ O!Doomed = {}
  BY <1>1, EmptyDistinct DEF O!Held, O!Doomed
<1>4. O!BlocksAccounted
  BY <1>1, <1>3, EmptyDistinct DEF O!Init, O!BlocksAccounted
<1>5. O!BindingSound /\ O!PublishInv
  BY <1>1 DEF O!Init, O!BindingSound, O!PublishInv, O!At
<1>. QED
  BY <1>2, <1>4, <1>5 DEF DecoderInv

(* Every turn of every thread keeps the invariant,                         *)
LEMMA DecoderStep ==
    ASSUME DecoderInv, O!Next
    PROVE  DecoderInv'
BY Loading, Asking, Acquiring, Releasing, Emptying, Freeing DEF O!Next

(* and so does a step of something else.                                   *)
LEMMA DecoderStutter ==
    ASSUME DecoderInv, UNCHANGED oodleVars
    PROVE  DecoderInv'
<1>1. /\ library' = library /\ decompress' = decompress /\ scratchSize' = scratchSize
      /\ pool' = pool /\ live' = live /\ thread' = thread
  BY DEF oodleVars
<1>2. O!Held' = O!Held /\ O!Doomed' = O!Doomed
  BY <1>1 DEF O!Held, O!Doomed
<1>3. O!TypeOK' /\ O!BlocksAccounted'
  BY <1>1, <1>2 DEF DecoderInv, O!TypeOK, O!At, O!BlocksAccounted
<1>4. O!BindingSound' /\ O!PublishInv'
  BY <1>1 DEF DecoderInv, O!BindingSound, O!PublishInv, O!SizeFirst, O!At, O!Resolves, O!Findable
<1>. QED
  BY <1>3, <1>4 DEF DecoderInv

(* So it holds whenever the decoder is the reader that runs.               *)
LEMMA DecoderAlways == FilesSpec => [](reader = "decoder" => DecoderInv)
<1>1. FilesInit => (reader = "decoder" => DecoderInv)
  BY DecoderStart DEF FilesInit
<1>2. (reader = "decoder" => DecoderInv) /\ [FilesNext]_fileVars => (reader = "decoder" => DecoderInv)'
  <2> SUFFICES ASSUME reader = "decoder" => DecoderInv, [FilesNext]_fileVars, reader' = "decoder"
               PROVE  DecoderInv'
    OBVIOUS
  <2>1. reader = "decoder" /\ (O!Next \/ UNCHANGED oodleVars)
    BY DEF FilesNext, ReadDocument, ReadTexture, ReadSound, ReadMesh, ReadArchive, Mount, DecodeSegments, fileVars
  <2>. QED
    BY <2>1, DecoderStep, DecoderStutter
<1>. QED
  BY <1>1, <1>2, PTL DEF FilesSpec

(* Whatever the threads do, and however many decode while others load or   *)
(* shut down, every scratch block of oodle.cpp is in one place: pooled,    *)
(* with one decode, or about to be freed by one shutdown.                  *)
THEOREM OneOwnerPerBlock == FilesSpec => []BlocksAccounted
<1>1. (reader = "decoder" => DecoderInv) => BlocksAccounted
  BY DEF DecoderInv, BlocksAccounted
<1>. QED
  BY <1>1, DecoderAlways, PTL

(* No decode runs without the scratch the library asked for, and no load   *)
(* that could find the library answers that it did not (oodle.cpp).        *)
THEOREM BoundWithItsSize == FilesSpec => []BindingSound
<1>1. (reader = "decoder" => DecoderInv) => BindingSound
  BY DEF DecoderInv, BindingSound
<1>. QED
  BY <1>1, DecoderAlways, PTL

-----------------------------------------------------------------------------
(* The archive: what an open admits.                                       *)

(* An open archive was answered once, from the file alone.                 *)
OpenInv ==
    /\ input \in ArchiveFiles
    /\ output \in {A!Answer("called"), A!Opened}

(* A window begins where it was asked to, and there is only one.           *)
LEMMA OneWindow ==
    ASSUME NEW offset, NEW length, length # 0
    PROVE  A!MapView(offset, length) \in SUBSET {[from |-> offset, to |-> offset + length]}
BY DEF A!MapView

(* What opening answers is inside the window that it mapped.               *)
LEMMA AdmitsWindow ==
    ASSUME input \in ArchiveFiles, output = A!Opened
    PROVE  A!IndexInside
<1> DEFINE f == input
           aligned == f.index_pos - (f.index_pos % Granularity)
           view == A!MapView(aligned, (f.index_pos - aligned) + f.index_size)
           at == f.index_pos + 28
           a == output.archive
<1>1. /\ f.size \in Nat /\ f.index_pos \in Nat /\ f.index_size \in Nat
      /\ f.entries \in Nat /\ f.segments \in Nat /\ f.dependencies \in Nat
  BY ArchiveAssumption
<1>2. f.index_pos % Granularity \in Nat /\ aligned \in Int /\ aligned <= f.index_pos
  BY <1>1, ArchiveAssumption
<1>3. CASE output.status # "OK"
  <2>1. a = [entries |-> 0, segments |-> 0, entries_at |-> 0, segments_at |-> 0]
    BY <1>3 DEF A!Opened, A!Answer, A!NoArchive
  <2>. QED
    BY <1>3, <2>1 DEF A!IndexInside
<1>4. CASE output.status = "OK"
  <2>1. /\ f.index_size >= 28 /\ view # {} /\ A!Need(f) <= f.index_size
        /\ output.view = view
        /\ a = [entries |-> f.entries, segments |-> f.segments, entries_at |-> at, segments_at |-> at + f.entries * 56]
    <3> DEFINE full == [entries |-> f.entries, segments |-> f.segments, entries_at |-> at,
                        segments_at |-> at + f.entries * 56]
    <3>1. \A x, y : /\ A!Answer(x).status = x
                    /\ [A!Answer(x) EXCEPT !.view = y].status = x
                    /\ [A!Answer(x) EXCEPT !.view = y, !.archive = full].view = y
                    /\ [A!Answer(x) EXCEPT !.view = y, !.archive = full].archive = full
      BY DEF A!Answer
    <3>2. output = IF ~f.exists \/ A!MapView(0, A!HeaderSize) = {} THEN A!Answer("IO")
                   ELSE IF ~f.magic \/ f.index_size < 28 THEN A!Answer("CORRUPT")
                   ELSE IF view = {} THEN A!Answer("IO")
                   ELSE IF A!Need(f) > f.index_size THEN [A!Answer("CORRUPT") EXCEPT !.view = view]
                   ELSE [A!Answer("OK") EXCEPT !.view = view, !.archive = full]
      BY DEF A!Opened, A!IndexHeaderSize, A!EntryStride
    <3>3. A!Need(f) \in Int
      BY <1>1 DEF A!Need, A!IndexHeaderSize, A!EntryStride, A!SegmentStride, A!DependencyStride
    <3> HIDE DEF full, view
    <3>4. /\ ~(~f.exists \/ A!MapView(0, A!HeaderSize) = {}) /\ ~(~f.magic \/ f.index_size < 28)
          /\ view # {} /\ ~(A!Need(f) > f.index_size)
      BY <1>4, <3>1, <3>2
    <3>5. output = [A!Answer("OK") EXCEPT !.view = view, !.archive = full]
      BY <3>2, <3>4
    <3>. QED
      BY <1>1, <3>1, <3>3, <3>4, <3>5 DEF full
  <2> DEFINE v == [from |-> aligned, to |-> aligned + ((f.index_pos - aligned) + f.index_size)]
  <2>2. view = {v}
    <3>1. (f.index_pos - aligned) + f.index_size # 0
      BY <1>1, <1>2, <2>1
    <3> HIDE DEF aligned
    <3>2. view \in SUBSET {v}
      BY <3>1, OneWindow
    <3>. QED
      BY <2>1, <3>2
  <2>3. v.from = aligned /\ v.to = f.index_pos + f.index_size
    BY <1>1, <1>2
  <2>4. 28 + f.entries * 56 + f.segments * 16 + f.dependencies * 8 <= f.index_size
    BY <2>1 DEF A!Need, A!IndexHeaderSize, A!EntryStride, A!SegmentStride, A!DependencyStride
  <2> HIDE DEF aligned, view, v
  <2>5. ASSUME NEW i \in 0..(f.entries - 1)
        PROVE  v.from <= at + i * 56 /\ at + (i + 1) * 56 <= v.to
    BY <1>1, <1>2, <2>3, <2>4
  <2>6. ASSUME NEW i \in 0..(f.segments - 1)
        PROVE  /\ v.from <= (at + f.entries * 56) + i * 16
               /\ (at + f.entries * 56) + (i + 1) * 16 <= v.to
    BY <1>1, <1>2, <2>3, <2>4
  <2>7. A!Cardinality(output.view) = 1
    <3>1. A!Cardinality({v}) = Cardinality({v})
      BY DEF A!Cardinality, Cardinality
    <3>. QED
      BY <2>1, <2>2, <3>1, FS_Singleton
  <2>. QED
    BY <1>4, <2>1, <2>2, <2>5, <2>6, <2>7 DEF A!IndexInside, A!EntryStride, A!SegmentStride
<1>. QED
  BY <1>3, <1>4

(* Whatever numbers stand in an archive's header and index, every entry    *)
(* and segment that archive.cpp admits lies inside the mapped window.      *)
THEOREM AdmittedIsMapped == FilesSpec => []IndexInside
<1> DEFINE Inv == reader = "archive" => OpenInv
<1>1. FilesInit => Inv
  BY DEF FilesInit, A!Init, OpenInv
<1>2. Inv /\ [FilesNext]_fileVars => Inv'
  <2> SUFFICES ASSUME Inv, [FilesNext]_fileVars, (reader = "archive")'
               PROVE  OpenInv'
    OBVIOUS
  <2>0. input' = input => A!Opened' = A!Opened
    BY DEF A!Opened, A!MapView
  <2>1. CASE ReadArchive
    BY <2>0, <2>1 DEF ReadArchive, A!Next, A!ArchiveOpen, OpenInv, A!Answer
  <2>2. CASE UNCHANGED fileVars
    BY <2>0, <2>2 DEF fileVars, vars, OpenInv, A!Answer
  <2>3. reader # "archive" => reader' = reader
    BY DEF FilesNext, ReadDocument, ReadTexture, ReadSound, ReadMesh, ReadArchive, Mount, DecodeSegments, fileVars
  <2>. QED
    BY <2>1, <2>2, <2>3 DEF FilesNext, ReadDocument, ReadTexture, ReadSound, ReadMesh, ReadArchive, Mount, DecodeSegments
<1>3. Inv => IndexInside
  <2>1. output = A!Answer("called") => A!IndexInside
    BY DEF A!IndexInside, A!Answer
  <2>. QED
    BY <2>1, AdmitsWindow DEF OpenInv, IndexInside
<1>. QED
  BY <1>1, <1>2, <1>3, PTL DEF FilesSpec

-----------------------------------------------------------------------------
(* The sounds.                                                             *)

(* A set of numbers below a bound has a greatest and, above one, a least.  *)
LEMMA Greatest ==
    ASSUME NEW n \in Nat, NEW X \in SUBSET (1..n), X # {}
    PROVE  \E x \in X : \A y \in X : x >= y
<1> DEFINE W == {n - x : x \in X}
<1>1. PICK m \in W : \A y \in W : ~(<<y, m>> \in OpToRel(<, Nat))
  <2>0. \A x \in X : n - x \in Nat
    OBVIOUS
  <2>1. W \in SUBSET Nat /\ W # {}
    BY <2>0
  <2> HIDE DEF W
  <2>. QED
    BY <2>1, NatLessThanWellFounded, WFMin
<1>2. PICK x \in X : m = n - x
  BY <1>1
<1>3. \A y \in X : n - y \in W /\ n - y \in Nat /\ n - x \in Nat
  OBVIOUS
<1>4. \A y \in X : ~(n - y < n - x)
  BY <1>1, <1>2, <1>3 DEF OpToRel
<1>5. \A y \in X : x >= y
  <2> TAKE y \in X
  <2>1. x \in Int /\ y \in Int /\ n \in Int
    OBVIOUS
  <2>. QED
    BY <1>4, <2>1
<1>. QED
  BY <1>5

(* One element more.                                                       *)
LEMMA Appending ==
    ASSUME NEW X, NEW s \in Seq(X), NEW e
    PROVE  LET r == Append(s, e)
           IN  /\ r \in Seq(X \cup {e}) /\ Len(s) \in Nat /\ Len(r) = Len(s) + 1 /\ DOMAIN s = 1..Len(s)
               /\ DOMAIN r = 1..(Len(s) + 1) /\ r[Len(s) + 1] = e /\ \A n \in 1..Len(s) : r[n] = s[n]
<1>1. s \in Seq(X \cup {e}) /\ e \in X \cup {e}
  OBVIOUS
<1>. QED
  BY <1>1

(* The end of the k-th chunk a writer wrote, or of the header before all.  *)
Behind(k) == IF k = 0 THEN 12 ELSE input.wrote[k] + S!Padded(input.chunks[k].size)

(* The chunks delivered.                                                   *)
InsideFile ==
    /\ \E X : output.chunks \in Seq(X)
    /\ output.at \in Nat
    /\ \A k \in DOMAIN output.chunks :
          LET c == output.chunks[k]
          IN  /\ c.at \in Nat /\ c.size \in Nat /\ c.at + c.size <= input.size
              /\ c.at + c.size <= output.at
              /\ k > 1 => c.at >= output.chunks[k - 1].at + output.chunks[k - 1].size + 8

(* The chunks delivered of a whole file are the first the writer wrote.    *)
Faithful ==
    LET n == Len(output.chunks)
    IN  /\ output.status \in {"called", "walking", "OK"}
        /\ n <= Len(input.chunks) /\ output.at = Behind(n)
        /\ \A k \in 1..n :
              /\ output.chunks[k].at = input.wrote[k]
              /\ output.chunks[k].id = input.chunks[k].id /\ output.chunks[k].size = input.chunks[k].size
              /\ output.chunks[k].id = "fmt" => output.chunks[k].fmt = input.chunks[k].fmt
        /\ output.status = "OK" /\ input.op = "info" =>
              n = Len(input.chunks) /\ output.info = S!Info(output.chunks)

SoundInv ==
    /\ input \in Sounds /\ DOMAIN output = {"status", "at", "chunks", "info"}
    /\ input.op = "probe" => output.chunks = <<>> /\ output.status # "walking"
    /\ InsideFile
    /\ input.intact /\ input.op # "probe" => Faithful

(* Before the first chunk.                                                 *)
LEMMA SoundStart ==
    ASSUME input \in Sounds, output.chunks = <<>>, output.at = 12, output.status \in {"called", "walking"},
           DOMAIN output = {"status", "at", "chunks", "info"}, input.op = "probe" => output.status # "walking"
    PROVE  SoundInv
<1>1. <<>> \in Seq({}) /\ Len(<<>>) = 0 /\ DOMAIN <<>> = {}
  OBVIOUS
<1>2. InsideFile
  BY <1>1 DEF InsideFile
<1>3. Faithful
  <2>1. Len(input.chunks) \in Nat
    BY SoundsAssumption
  <2>. QED
    BY <1>1, <2>1 DEF Faithful, Behind
<1>. QED
  BY <1>2, <1>3 DEF SoundInv

(* The chunk the walk has come to.                                         *)
LEMMA Coming ==
    ASSUME SoundInv
    PROVE  LET n == Len(output.chunks)
               c == S!Chunk
           IN  /\ c.at = output.at + 8 /\ c.size = S!Header.size /\ c.size \in Nat /\ c.id = S!Header.id
               /\ c.id = "fmt" => c.fmt = S!Header.fmt
               /\ n < Len(input.chunks) => S!Header = input.chunks[n + 1]
               /\ n \in Nat /\ Len(input.chunks) \in Nat
               /\ S!Padded(c.size) \in Nat /\ S!Padded(c.size) >= c.size
<1> DEFINE n == Len(output.chunks)
           c == S!Chunk
           h == S!Header
<1>1. n \in Nat /\ Len(input.chunks) \in Nat /\ input \in Sounds
  BY SoundsAssumption DEF SoundInv, InsideFile
<1>2. n < Len(input.chunks) => h = input.chunks[n + 1]
  BY DEF S!Header
<1>3. {"id", "size"} \subseteq DOMAIN h /\ h.size \in Nat /\ (h.id = "fmt" => "fmt" \in DOMAIN h)
  <2>1. CASE n < Len(input.chunks)
    <3>1. n + 1 \in DOMAIN input.chunks
      BY <1>1, <2>1, SoundsAssumption
    <3>. QED
      BY <1>1, <1>2, <2>1, <3>1, SoundsAssumption
  <2>2. CASE ~(n < Len(input.chunks))
    BY <2>2 DEF S!Header, S!Zeros
  <2>. QED
    BY <2>1, <2>2
<1>4. c = [x \in {"at"} \cup DOMAIN h |-> IF x = "at" THEN output.at + 8 ELSE h[x]]
  BY DEF S!Chunk
<1> HIDE DEF h, c
<1>5. c.at = output.at + 8 /\ c.size = h.size /\ c.id = h.id /\ (c.id = "fmt" => c.fmt = h.fmt)
  BY <1>3, <1>4
<1>6. S!Padded(h.size) \in Nat /\ S!Padded(h.size) >= h.size
  BY <1>3 DEF S!Padded
<1>. QED
  BY <1>1, <1>2, <1>3, <1>5, <1>6 DEF h, c, n

(* A visit delivers one chunk more, the one the walk has come to.          *)
LEMMA Visiting ==
    ASSUME SoundInv, NEW stop \in BOOLEAN, S!Visit(stop)
    PROVE  SoundInv'
<1> DEFINE n == Len(output.chunks)
           c == S!Chunk
<1>1. /\ output.status = "walking" /\ ~S!Ends /\ input' = input
      /\ stop => input.op = "walk" 
      /\ output' = [output EXCEPT !.chunks = Append(@, c), !.at = @ + 8 + S!Padded(S!Header.size),
                       !.status = IF stop THEN "OK" ELSE "walking"]
  BY DEF S!Visit, S!Walking
<1>2. DOMAIN output = {"status", "at", "chunks", "info"}
  BY DEF SoundInv
<1> HIDE DEF c
<1>3. /\ DOMAIN output' = {"status", "at", "chunks", "info"}
      /\ output'.chunks = Append(output.chunks, c) /\ output'.at = output.at + 8 + S!Padded(c.size)
      /\ output'.status = (IF stop THEN "OK" ELSE "walking") /\ output'.info = output.info
  BY <1>1, <1>2, Coming DEF c
<1>4. PICK X : output.chunks \in Seq(X)
  BY DEF SoundInv, InsideFile
<1>5. LET r == output'.chunks
      IN  /\ r \in Seq(X \cup {c}) /\ n \in Nat /\ Len(r) = n + 1 /\ DOMAIN output.chunks = 1..n
          /\ DOMAIN r = 1..(n + 1) /\ r[n + 1] = c /\ \A k \in 1..n : r[k] = output.chunks[k]
  BY <1>3, <1>4, Appending
<1>6. /\ c.at = output.at + 8 /\ c.size \in Nat /\ S!Padded(c.size) \in Nat /\ S!Padded(c.size) >= c.size
      /\ output.at \in Nat /\ input.size \in Nat
  BY Coming, SoundsAssumption DEF c, SoundInv, InsideFile
<1>7. c.at + c.size <= input.size
  <2>1. ~(output.at + 8 + S!Header.size > input.size) /\ c.size = S!Header.size
    BY <1>1, Coming DEF S!Ends, c
  <2>. QED
    BY <1>6, <2>1
<1>8. InsideFile'
  <2>1. \A k \in 1..n :
          /\ output.chunks[k].at \in Nat /\ output.chunks[k].size \in Nat
          /\ output.chunks[k].at + output.chunks[k].size <= input.size
          /\ output.chunks[k].at + output.chunks[k].size <= output.at
          /\ k > 1 => output.chunks[k].at >= output.chunks[k - 1].at + output.chunks[k - 1].size + 8
    BY <1>5 DEF SoundInv, InsideFile
  <2>2. ASSUME NEW k \in 1..(n + 1)
        PROVE  LET d == output'.chunks[k]
               IN  /\ d.at \in Nat /\ d.size \in Nat /\ d.at + d.size <= input.size
                   /\ d.at + d.size <= output'.at
                   /\ k > 1 => d.at >= output'.chunks[k - 1].at + output'.chunks[k - 1].size + 8
    <3>1. CASE k \in 1..n
      <4>1. output'.chunks[k] = output.chunks[k] /\ (k > 1 => output'.chunks[k - 1] = output.chunks[k - 1])
        <5>1. k > 1 => k - 1 \in 1..n
          BY <1>5, <3>1
        <5>. QED
          BY <1>5, <3>1, <5>1
      <4>2. output.at <= output'.at
        BY <1>3, <1>6
      <4>3. output.chunks[k].at + output.chunks[k].size <= output'.at
        <5> DEFINE x == output.chunks[k].at
                   y == output.chunks[k].size
                   p == output.at
                   q == output'.at
        <5>1. x \in Nat /\ y \in Nat /\ x + y <= p
          BY <2>1, <3>1
        <5>2. p \in Nat /\ q \in Nat
          BY <1>3, <1>6
        <5>3. p <= q
          BY <4>2
        <5> HIDE DEF x, y, p, q
        <5>4. x + y <= q
          BY <5>1, <5>2, <5>3
        <5>. QED
          BY <5>4 DEF x, y, q
      <4>. QED
        BY <2>1, <3>1, <4>1, <4>3
    <3>2. CASE k = n + 1
      <4>1. output'.chunks[k] = c
        BY <1>5, <3>2
      <4>2. k > 1 => output'.chunks[k - 1] = output.chunks[n] /\ n \in 1..n
        <5>1. k > 1 => k - 1 \in 1..n /\ k - 1 = n
          BY <1>5, <3>2
        <5>. QED
          BY <1>5, <5>1
      <4>3. k > 1 => c.at >= output.chunks[n].at + output.chunks[n].size + 8
        <5> DEFINE x == output.chunks[n].at
                   y == output.chunks[n].size
                   p == output.at
                   z == c.at
        <5>1. k > 1 => x \in Nat /\ y \in Nat /\ x + y <= p
          BY <2>1, <4>2
        <5>2. p \in Nat /\ z = p + 8
          BY <1>6
        <5> HIDE DEF x, y, p, z
        <5>3. k > 1 => z >= x + y + 8
          BY <5>1, <5>2
        <5>. QED
          BY <5>3 DEF x, y, z
      <4>4. c.at \in Nat /\ c.at + c.size <= output'.at
        BY <1>3, <1>6
      <4>. QED
        BY <1>6, <1>7, <4>1, <4>2, <4>3, <4>4
    <3>. QED
      BY <1>5, <3>1, <3>2
  <2>3. output'.at \in Nat
    BY <1>3, <1>6
  <2>. QED
    BY <1>1, <1>5, <2>2, <2>3 DEF InsideFile
<1>9. ASSUME input.intact, input.op # "probe"
      PROVE  Faithful'
  <2>1. Faithful
    BY <1>9 DEF SoundInv
  <2>2. input \in Sounds /\ S!Written(input) /\ Len(input.chunks) \in Nat /\ DOMAIN input.chunks = 1..Len(input.chunks)
    BY <1>9, SoundsAssumption DEF SoundInv
  <2>3. n <= Len(input.chunks) /\ output.at = Behind(n)
    BY <2>1 DEF Faithful
  <2>4. n # Len(input.chunks)
    <3>1. input.size = Behind(Len(input.chunks))
      BY <2>2 DEF S!Written, Behind
    <3>2. output.at + 8 <= input.size
      BY <1>6, <1>7
    <3>. QED
      BY <1>6, <2>3, <3>1, <3>2
  <2>5. n < Len(input.chunks) /\ n + 1 \in DOMAIN input.chunks
    BY <1>5, <2>2, <2>3, <2>4
  <2>6. /\ c.size = input.chunks[n + 1].size /\ c.id = input.chunks[n + 1].id
        /\ c.id = "fmt" => c.fmt = input.chunks[n + 1].fmt
    BY <2>5, Coming DEF c
  <2>7. input.wrote[n + 1] = Behind(n) + 8
    <3>1. (n + 1) - 1 = n
      BY <1>5
    <3>. QED
      BY <2>2, <2>5, <3>1 DEF S!Written, Behind
  <2>8. Behind(n + 1) = output'.at
    <3>1. n + 1 # 0
      BY <1>5
    <3>. QED
      BY <1>3, <1>6, <2>3, <2>6, <2>7, <3>1 DEF Behind
  <2>9. \A k \in 1..(n + 1) :
              /\ output'.chunks[k].at = input.wrote[k]
              /\ output'.chunks[k].id = input.chunks[k].id /\ output'.chunks[k].size = input.chunks[k].size
              /\ output'.chunks[k].id = "fmt" => output'.chunks[k].fmt = input.chunks[k].fmt
    <3>1. \A k \in 1..n :
              /\ output.chunks[k].at = input.wrote[k]
              /\ output.chunks[k].id = input.chunks[k].id /\ output.chunks[k].size = input.chunks[k].size
              /\ output.chunks[k].id = "fmt" => output.chunks[k].fmt = input.chunks[k].fmt
      BY <2>1 DEF Faithful
    <3>2. \A k \in 1..(n + 1) : k \in 1..n \/ k = n + 1
      BY <1>5
    <3>. QED
      BY <1>5, <1>6, <2>3, <2>6, <2>7, <3>1, <3>2
  <2>10. output'.status \in {"walking", "OK"} /\ (output'.status = "OK" => input.op # "info")
    BY <1>1, <1>3
  <2>11. n + 1 <= Len(input.chunks)
    BY <1>5, <2>2, <2>5
  <2>. QED
    BY <1>1, <1>5, <2>8, <2>9, <2>10, <2>11 DEF Faithful, Behind
<1>10. input.op # "probe"
  BY <1>1 DEF SoundInv
<1>. QED
  BY <1>1, <1>3, <1>8, <1>9, <1>10 DEF SoundInv

(* The greatest of a set of numbers, as the model asks for it.             *)
LEMMA GreatestOf ==
    ASSUME NEW n \in Nat, NEW X \in SUBSET (1..n), X # {}
    PROVE  S!Max(X) \in X /\ \A y \in X : y <= S!Max(X)
<1>1. \E x \in X : \A y \in X : x >= y
  BY Greatest
<1>2. S!Max(X) \in X /\ \A y \in X : S!Max(X) >= y
  BY <1>1, Zenon DEF S!Max
<1> DEFINE m == S!Max(X)
<1>3. m \in X /\ \A y \in X : m >= y
  BY <1>2
<1> HIDE DEF m
<1>4. \A y \in X : y <= m
  BY <1>3
<1>. QED
  BY <1>3, <1>4 DEF m

(* The end of the walk.                                                    *)
LEMMA Finishing ==
    ASSUME SoundInv, S!Finish
    PROVE  SoundInv'
<1> DEFINE n == Len(output.chunks)
<1>1. /\ output.status = "walking" /\ S!Ends /\ input' = input /\ input.op # "probe"
  BY DEF S!Finish, S!Walking, SoundInv
<1>2. DOMAIN output = {"status", "at", "chunks", "info"} /\ input \in Sounds
  BY DEF SoundInv
<1>3. /\ DOMAIN output' = {"status", "at", "chunks", "info"}
      /\ output'.chunks = output.chunks /\ output'.at = output.at
      /\ output'.status \in {"OK", "CORRUPT"}
      /\ output'.status = "OK" <=> (input.op = "walk" \/ S!Formats(output.chunks) # {})
      /\ output'.status = "OK" /\ input.op = "info" => output'.info = S!Info(output.chunks)
  <2>1. CASE input.op = "walk"
    <3>1. output' = [output EXCEPT !.status = "OK"]
      BY <2>1 DEF S!Finish
    <3>. QED
      BY <1>2, <2>1, <3>1
  <2>2. CASE input.op # "walk" /\ S!Formats(output.chunks) = {}
    <3>1. output' = [output EXCEPT !.status = "CORRUPT"]
      BY <2>2 DEF S!Finish
    <3>. QED
      BY <1>2, <2>2, <3>1
  <2>3. CASE input.op # "walk" /\ S!Formats(output.chunks) # {}
    <3>1. output' = [output EXCEPT !.status = "OK", !.info = S!Info(output.chunks)]
      BY <2>3 DEF S!Finish
    <3> HIDE DEF SoundInv
    <3>. QED
      BY <1>2, <2>3, <3>1
  <2>. QED
    BY <2>1, <2>2, <2>3
<1>4. InsideFile'
  BY <1>1, <1>3 DEF InsideFile, SoundInv
<1>5. ASSUME input.intact
      PROVE  Faithful'
  <2>1. Faithful
    BY <1>1, <1>5 DEF SoundInv
  <2>2. S!Written(input) /\ Len(input.chunks) \in Nat /\ DOMAIN input.chunks = 1..Len(input.chunks) /\ input.size \in Nat /\ input.declared \in Nat
    BY <1>1, <1>2, <1>5, SoundsAssumption
  <2>3. n \in Nat /\ n <= Len(input.chunks) /\ output.at = Behind(n) /\ output.at \in Nat
    BY <2>1, Coming DEF Faithful, SoundInv, InsideFile
  <2>4. n = Len(input.chunks)
    <3> SUFFICES ASSUME n # Len(input.chunks)
                 PROVE  FALSE
      OBVIOUS
    <3>1. n + 1 \in DOMAIN input.chunks /\ n < Len(input.chunks) /\ (n + 1) - 1 = n /\ n + 1 # 0
      BY <2>2, <2>3
    <3>2. S!Header = input.chunks[n + 1] /\ S!Header.size \in Nat /\ S!Padded(S!Header.size) \in Nat
          /\ S!Padded(S!Header.size) >= S!Header.size
      BY <3>1, Coming
    <3>3. input.wrote[n + 1] = Behind(n) + 8 /\ Behind(n + 1) <= input.size
      BY <2>2, <3>1 DEF S!Written, Behind
    <3>4. Behind(n + 1) = output.at + 8 + S!Padded(S!Header.size)
      BY <2>3, <3>1, <3>2, <3>3 DEF Behind
    <3>5. output.at + 8 + S!Header.size <= input.size /\ output.at + 8 <= input.size
      <4> DEFINE p == output.at
                 h == S!Header.size
                 w == S!Padded(S!Header.size)
                 q == input.size
      <4>1. p \in Nat /\ h \in Nat /\ w \in Nat /\ w >= h /\ q \in Nat
        BY <2>2, <2>3, <3>2
      <4>2. p + 8 + w <= q
        BY <3>3, <3>4
      <4> HIDE DEF p, h, w, q
      <4>3. p + 8 + h <= q /\ p + 8 <= q
        BY <4>1, <4>2
      <4>. QED
        BY <4>3 DEF p, h, q
    <3>6. S!Limit = input.size
      BY <2>2 DEF S!Limit, S!Written
    <3> DEFINE p == output.at
               h == S!Header.size
               q == input.size
    <3>7. p + 8 > q \/ p + 8 + h > q
      BY <1>1, <3>6 DEF S!Ends
    <3>8. /\ p \in Nat /\ h \in Nat /\ q \in Nat
          /\ p + 8 + h <= q /\ p + 8 <= q
      BY <2>2, <2>3, <3>2, <3>5
    <3> HIDE DEF p, h, q
    <3>. QED
      BY <3>7, <3>8
  <2>5. S!Formats(output.chunks) # {}
    <3>1. PICK k \in DOMAIN input.chunks : input.chunks[k].id = "fmt" /\ input.chunks[k].size >= 16
      BY <2>2 DEF S!Written, S!Formats
    <3>2. DOMAIN output.chunks = 1..n
      BY DEF SoundInv, InsideFile
    <3>3. output.chunks[k].id = "fmt" /\ output.chunks[k].size >= 16 /\ k \in DOMAIN output.chunks
      BY <2>1, <2>2, <2>4, <3>1, <3>2 DEF Faithful
    <3>. QED
      BY <3>3 DEF S!Formats
  <2>6. output'.status = "OK"
    BY <1>3, <2>5
  <2>. QED
    BY <1>1, <1>3, <2>1, <2>4, <2>6 DEF Faithful, Behind
<1>. QED
  BY <1>1, <1>2, <1>3, <1>4, <1>5 DEF SoundInv

(* Every step of a call keeps what is known of the chunks.                 *)
LEMMA SoundStep ==
    ASSUME SoundInv, S!Next
    PROVE  SoundInv'
<1>1. CASE S!Probe
  <2>1. /\ input.op = "probe" /\ output.status = "called" /\ input' = input
        /\ \E i : output' = [output EXCEPT !.status = "OK", !.info = i]
    BY <1>1 DEF S!Probe, S!Calling
  <2>2. DOMAIN output = {"status", "at", "chunks", "info"} /\ output.chunks = <<>>
    BY <2>1 DEF SoundInv
  <2>3. DOMAIN output' = DOMAIN output /\ output'.chunks = <<>> /\ output'.at = output.at /\ output'.status = "OK"
    BY <2>1, <2>2
  <2>4. InsideFile'
    BY <2>1, <2>2, <2>3 DEF SoundInv, InsideFile
  <2>. QED
    BY <2>1, <2>2, <2>3, <2>4 DEF SoundInv
<1>2. CASE S!Walk
  <2>1. /\ input.op # "probe" /\ output.status = "called" /\ input' = input
        /\ \E x \in {"CORRUPT", "UNSUPPORTED", "walking"} :
              /\ output' = [output EXCEPT !.status = x]
              /\ input.size >= 12 /\ input.magic = "RIFF" /\ input.form = "WAVE" => x = "walking"
    <3>1. input.size \in Nat
      BY SoundsAssumption DEF SoundInv
    <3>. QED
      BY <1>2, <3>1 DEF S!Walk, S!Calling
  <2>2. DOMAIN output = {"status", "at", "chunks", "info"}
    BY DEF SoundInv
  <2>3. /\ DOMAIN output' = DOMAIN output /\ output'.chunks = output.chunks /\ output'.at = output.at
        /\ output'.status \in {"CORRUPT", "UNSUPPORTED", "walking"}
        /\ input.size >= 12 /\ input.magic = "RIFF" /\ input.form = "WAVE" => output'.status = "walking"
    BY <2>1, <2>2
  <2>4. InsideFile'
    BY <2>1, <2>3 DEF SoundInv, InsideFile
  <2>5. ASSUME input.intact
        PROVE  Faithful'
    <3>1. Faithful /\ input \in Sounds
      BY <2>1, <2>5 DEF SoundInv
    <3>2. S!Written(input) /\ input.size \in Nat /\ Len(input.chunks) \in Nat /\ DOMAIN input.chunks = 1..Len(input.chunks)
      BY <2>1, <2>5, <3>1, SoundsAssumption
    <3>3. input.size >= 12
      <4>1. CASE Len(input.chunks) = 0
        BY <3>2, <4>1 DEF S!Written
      <4>2. CASE Len(input.chunks) # 0
        <5>1. 1 \in DOMAIN input.chunks /\ 1 - 1 = 0 /\ 1 # 0
          BY <3>2, <4>2
        <5>2. input.wrote[1] = 20 /\ input.wrote[1] + S!Padded(input.chunks[1].size) <= input.size
          BY <3>2, <5>1 DEF S!Written
        <5>3. S!Padded(input.chunks[1].size) \in Nat
          BY <3>1, <5>1, SoundsAssumption DEF S!Padded
        <5>. QED
          BY <3>2, <5>2, <5>3
      <4>. QED
        BY <4>1, <4>2
    <3>4. output'.status = "walking"
      BY <2>3, <3>2, <3>3 DEF S!Written
    <3>. QED
      BY <2>1, <2>3, <3>1, <3>4 DEF Faithful, Behind
  <2>. QED
    BY <2>1, <2>2, <2>3, <2>4, <2>5 DEF SoundInv
<1>. QED
  BY <1>1, <1>2, Visiting, Finishing DEF S!Next

(* It holds in every state of a call about a sound.                        *)
LEMMA SoundAlways == FilesSpec => [](reader = "sound" => SoundInv)
<1>1. FilesInit => (reader = "sound" => SoundInv)
  <2> SUFFICES ASSUME S!Init
               PROVE  SoundInv
    BY DEF FilesInit
  <2>. QED
    BY SoundStart DEF S!Init, S!Called
<1>2. (reader = "sound" => SoundInv) /\ [FilesNext]_fileVars => (reader = "sound" => SoundInv)'
  <2> SUFFICES ASSUME reader = "sound" => SoundInv, [FilesNext]_fileVars, reader' = "sound"
               PROVE  SoundInv'
    OBVIOUS
  <2>1. reader = "sound" /\ SoundInv
    BY DEF FilesNext, ReadDocument, ReadTexture, ReadSound, ReadMesh, ReadArchive, Mount, DecodeSegments, fileVars
  <2>2. CASE ReadSound
    BY <2>1, <2>2, SoundStep DEF ReadSound
  <2>3. CASE UNCHANGED <<input, output>>
    BY <2>1, <2>3 DEF SoundInv, InsideFile, Faithful, Behind
  <2>. QED
    BY <2>1, <2>2, <2>3
       DEF FilesNext, ReadDocument, ReadTexture, ReadMesh, ReadArchive, Mount, DecodeSegments, fileVars, vars
<1>. QED
  BY <1>1, <1>2, PTL DEF FilesSpec

(* Whatever sizes a file declares, every chunk riff_walk delivers lies in  *)
(* the file and behind the one before it; of a file a RIFF writer wrote,   *)
(* all are delivered, and redfs_audio_info is about its last format and    *)
(* payload.                                                                *)
THEOREM ChunksAreTheFiles == FilesSpec => []ChunksTrue
<1>1. SoundInv => S!ChunksTrue
  <2> SUFFICES ASSUME SoundInv
               PROVE  S!ChunksTrue
    OBVIOUS
  <2> DEFINE n == Len(output.chunks)
  <2>1. \A k \in DOMAIN output.chunks :
          /\ output.chunks[k].at + output.chunks[k].size <= input.size
          /\ k > 1 => output.chunks[k].at >= output.chunks[k - 1].at + output.chunks[k - 1].size + 8
    BY DEF SoundInv, InsideFile
  <2>2. input.op # "probe" /\ input.intact => output.status \in {"called", "walking", "OK"}
    BY DEF SoundInv, Faithful
  <2>3. ASSUME input.op # "probe", input.intact, output.status = "OK"
        PROVE  \A k \in DOMAIN output.chunks : k <= Len(input.chunks) => output.chunks[k].at = input.wrote[k]
    BY <2>3 DEF SoundInv, InsideFile, Faithful
  <2>4. ASSUME input.op = "info", input.intact, output.status = "OK"
        PROVE  LET data == S!Payloads(input.chunks)
                   samples == {k \in data : \A j \in data : j <= k}
                   formats == S!Formats(input.chunks)
                   heads == {input.chunks[k].fmt : k \in {m \in formats : \A j \in formats : j <= m}}
               IN  /\ Len(output.chunks) >= Len(input.chunks)
                   /\ output.info.data_offset \in {input.wrote[k] : k \in samples}
                   /\ output.info.total_samples \in
                         {0} \cup {input.chunks[k].size \div (f.channels * (f.bits \div 8)) : k \in samples, f \in heads}
                   /\ output.info.total_samples > 0 => output.info.codec = "PCM"
    <3>1. Faithful /\ input \in Sounds /\ DOMAIN output.chunks = 1..n /\ n \in Nat
      BY <2>4 DEF SoundInv, InsideFile
    <3>2. /\ S!Written(input) /\ Len(input.chunks) \in Nat /\ DOMAIN input.chunks = 1..Len(input.chunks)
      BY <2>4, <3>1, SoundsAssumption
    <3>3. n = Len(input.chunks) /\ output.info = S!Info(output.chunks)
      BY <2>4, <3>1 DEF Faithful
    <3>4. \A k \in 1..n :
              /\ output.chunks[k].at = input.wrote[k]
              /\ output.chunks[k].id = input.chunks[k].id /\ output.chunks[k].size = input.chunks[k].size
              /\ output.chunks[k].id = "fmt" => output.chunks[k].fmt = input.chunks[k].fmt
      BY <3>1 DEF Faithful
    <3>5. S!Formats(output.chunks) = S!Formats(input.chunks) /\ S!Payloads(output.chunks) = S!Payloads(input.chunks)
      BY <3>1, <3>2, <3>3, <3>4 DEF S!Formats, S!Payloads
    <3> DEFINE F == S!Formats(input.chunks)
               P == S!Payloads(input.chunks)
               i == S!Max(F)
               k == S!Max(P)
    <3>6. F \in SUBSET (1..n) /\ F # {} /\ P \in SUBSET (1..n) /\ P # {}
      BY <3>2, <3>3 DEF S!Written, S!Formats, S!Payloads
    <3> HIDE DEF F, P
    <3>7. i \in F /\ (\A j \in F : j <= i) /\ k \in P /\ (\A j \in P : j <= k)
      BY <3>1, <3>6, GreatestOf
    <3>8. output.chunks[i].fmt = input.chunks[i].fmt
      <4>1. i \in 1..n /\ input.chunks[i].id = "fmt"
        BY <3>6, <3>7 DEF F, S!Formats
      <4>. QED
        BY <3>4, <4>1
    <3> DEFINE fmt == input.chunks[i].fmt
               frame == fmt.channels * (fmt.bits \div 8)
               timed == S!CodecFromTag(fmt.tag) = "PCM" /\ fmt.channels > 0 /\ frame > 0
    <3>9. /\ output.info.data_offset = output.chunks[k].at
          /\ output.info.total_samples = IF timed THEN output.chunks[k].size \div frame ELSE 0
          /\ output.info.codec = S!CodecFromTag(fmt.tag)
      <4>1. S!Formats(output.chunks) = F /\ S!Payloads(output.chunks) = P
        BY <3>5 DEF F, P
      <4> DEFINE f == output.chunks[i].fmt
                 d == output.chunks[k]
                 g == f.channels * (f.bits \div 8)
                 t == S!CodecFromTag(f.tag) = "PCM" /\ f.channels > 0 /\ g > 0
      <4>2. S!Info(output.chunks) =
              [codec |-> S!CodecFromTag(f.tag), data_offset |-> d.at, data_size |-> d.size,
               total_samples |-> IF t THEN d.size \div g ELSE 0]
        BY <3>6, <4>1 DEF S!Info
      <4>3. f = fmt /\ g = frame /\ t = timed
        BY <3>8
      <4> HIDE DEF f, d, g, t, fmt, frame, timed
      <4>4. output.info = [codec |-> S!CodecFromTag(fmt.tag), data_offset |-> d.at, data_size |-> d.size,
                           total_samples |-> IF timed THEN d.size \div frame ELSE 0]
        BY <3>3, <4>2, <4>3
      <4>. QED
        BY <4>4 DEF d
    <3>10. output.chunks[k].at = input.wrote[k] /\ output.chunks[k].size = input.chunks[k].size
      BY <3>4, <3>6, <3>7
    <3> DEFINE samples == {m \in P : \A j \in P : j <= m}
               heads == {input.chunks[m].fmt : m \in {l \in F : \A j \in F : j <= l}}
    <3>11. k \in samples /\ fmt \in heads
      BY <3>7
    <3>12. output.info.data_offset \in {input.wrote[m] : m \in samples}
      BY <3>9, <3>10, <3>11
    <3>13. output.info.total_samples \in
             {0} \cup {input.chunks[m].size \div (f.channels * (f.bits \div 8)) : m \in samples, f \in heads}
      <4> DEFINE Times == {input.chunks[m].size \div (f.channels * (f.bits \div 8)) : m \in samples, f \in heads}
      <4>1. input.chunks[k].size \div frame \in Times
        <5> HIDE DEF fmt, samples, heads
        <5>. QED
          BY <3>11
      <4>2. output.info.total_samples \in {0, input.chunks[k].size \div frame}
        <5> HIDE DEF frame, timed
        <5>. QED
          BY <3>9, <3>10
      <4> HIDE DEF Times, frame
      <4>3. output.info.total_samples \in {0} \cup Times
        BY <4>1, <4>2
      <4>. QED
        BY <4>3 DEF Times
    <3>14. output.info.total_samples > 0 => output.info.codec = "PCM"
      BY <3>9
    <3>. QED
      BY <3>3, <3>1, <3>12, <3>13, <3>14 DEF F, P
  <2>. QED
    BY <2>1, <2>2, <2>3, <2>4 DEF S!ChunksTrue
<1>2. (reader = "sound" => SoundInv) => ChunksTrue
  BY <1>1 DEF ChunksTrue
<1>. QED
  BY <1>2, SoundAlways, PTL

-----------------------------------------------------------------------------
(* Sums.                                                                   *)

Indexed(s) == Len(s) \in Nat /\ DOMAIN s = 1..Len(s)
(* f[n] is the sum of the first n numbers.                                 *)
Sums(f, s) == f \in [0..Len(s) -> Nat] /\ f[0] = 0 /\ \A n \in 1..Len(s) : f[n] = f[n - 1] + s[n]

(* Total is a sum.                                                         *)
LEMMA Summing ==
    ASSUME NEW s, Indexed(s), \A k \in DOMAIN s : s[k] \in Nat
    PROVE  \E f : Sums(f, s) /\ M!Total(s) = f[Len(s)]
<1> DEFINE c == Len(s)
           step == [x \in Nat \X (1..c) |-> x[1] + s[x[2]]]
<1>1. c \in Nat /\ \A k \in 1..c : s[k] \in Nat
  BY DEF Indexed
<1>2. step \in [Nat \X (1..c) -> Nat] /\ \A x \in Nat, n \in 1..c : step[<<x, n>>] = x + s[n]
  BY <1>1
<1> HIDE DEF step
<1>3. PICK f \in [0..c -> Nat] : Unrolls(f, 0, step, c)
  BY <1>1, <1>2, Looping
<1>4. Sums(f, s)
  <2>1. f[0] = 0
    BY <1>3 DEF Unrolls
  <2>2. ASSUME NEW n \in 1..c
        PROVE  f[n] = f[n - 1] + s[n]
    <3>1. n - 1 \in 0..c /\ f[n - 1] \in Nat
      BY <1>1
    <3>. QED
      BY <1>2, <1>3, <3>1 DEF Unrolls
  <2>. QED
    BY <2>1, <2>2 DEF Sums
<1>5. f = [n \in 0..c |-> IF n = 0 THEN 0 ELSE f[n - 1] + s[n]]
  <2>1. \A n \in 0..c : f[n] = IF n = 0 THEN 0 ELSE f[n - 1] + s[n]
    <3>1. \A n \in 0..c : n = 0 \/ n \in 1..c
      BY <1>1
    <3>. QED
      BY <1>4, <3>1 DEF Sums
  <2>. QED
    BY <2>1
<1> DEFINE upTo[n \in 0..c] == IF n = 0 THEN 0 ELSE upTo[n - 1] + s[n]
<1>6. upTo = [n \in 0..c |-> IF n = 0 THEN 0 ELSE upTo[n - 1] + s[n]]
  BY <1>5
<1>7. M!Total(s) = upTo[c]
  BY DEF M!Total
<1> HIDE DEF upTo
<1>8. Sums(upTo, s)
  <2> DEFINE G == {n \in 0..c : upTo[n] \in Nat}
  <2>1. 0 \in G
    BY <1>1, <1>6
  <2>2. ASSUME NEW n \in 1..c, n - 1 \in G
        PROVE  n \in G
    <3>1. upTo[n] = upTo[n - 1] + s[n] /\ upTo[n - 1] \in Nat /\ s[n] \in Nat
      BY <1>1, <1>6, <2>2
    <3>. QED
      BY <3>1
  <2>3. \A n \in 0..c : n \in G
    <3> HIDE DEF G
    <3>. QED
      BY <1>1, <2>1, <2>2, Counting
  <2>4. upTo \in [0..c -> Nat]
    BY <1>6, <2>3
  <2>. QED
    <3>1. upTo[0] = 0
      BY <1>1, <1>6
    <3>2. ASSUME NEW n \in 1..c
          PROVE  upTo[n] = upTo[n - 1] + s[n]
      BY <1>1, <1>6
    <3>. QED
      BY <2>4, <3>1, <3>2 DEF Sums
<1>. QED
  BY <1>7, <1>8

(* The sum of a longer list.                                               *)
LEMMA SumsOn ==
    ASSUME NEW s, Indexed(s), NEW r, Indexed(r), Len(s) <= Len(r), \A k \in 1..Len(s) : r[k] = s[k],
           NEW f, Sums(f, s), NEW g, Sums(g, r)
    PROVE  \A n \in 0..Len(s) : f[n] = g[n]
<1> DEFINE G == {n \in 0..Len(s) : f[n] = g[n]}
<1>1. 0 \in G
  BY DEF Sums, Indexed
<1>2. ASSUME NEW n \in 1..Len(s), n - 1 \in G
      PROVE  n \in G
  <2>1. n \in 1..Len(r) /\ f[n - 1] = g[n - 1]
    BY <1>2 DEF Indexed
  <2>. QED
    BY <2>1 DEF Sums
<1>3. \A n \in 0..Len(s) : n \in G
  <2> HIDE DEF G
  <2>. QED
    BY <1>1, <1>2, Counting DEF Indexed
<1>. QED
  BY <1>3

(* A part is not more than the whole.                                      *)
LEMMA SumsGrow ==
    ASSUME NEW s, Indexed(s), \A k \in DOMAIN s : s[k] \in Nat, NEW f, Sums(f, s)
    PROVE  \A n \in 0..Len(s) : f[n] <= f[Len(s)]
<1> DEFINE c == Len(s)
           G == {n \in 0..c : f[c - n] <= f[c]}
<1>0. c \in Nat /\ f \in [0..c -> Nat]
  BY DEF Indexed, Sums
<1>1. 0 \in G
  BY <1>0
<1>2. ASSUME NEW n \in 1..c, n - 1 \in G
      PROVE  n \in G
  <2>1. c - n + 1 \in 1..c /\ (c - n + 1) - 1 = c - n /\ c - (n - 1) = c - n + 1 /\ c - n \in 0..c
    BY <1>0
  <2>2. f[c - n + 1] = f[c - n] + s[c - n + 1] /\ s[c - n + 1] \in Nat /\ f[c - n + 1] <= f[c]
    BY <1>2, <2>1 DEF Sums, Indexed
  <2>3. f[c - n] \in Nat /\ f[c - n + 1] \in Nat /\ f[c] \in Nat
    <3>1. c - n \in 0..c /\ c - n + 1 \in 0..c /\ c \in 0..c
      BY <1>0, <2>1
    <3> HIDE DEF c, G
    <3>. QED
      BY <1>0, <3>1
  <2>. QED
    BY <2>2, <2>3
<1>3. \A n \in 0..c : n \in G
  <2> HIDE DEF G
  <2>. QED
    BY <1>0, <1>1, <1>2, Counting
<1>4. ASSUME NEW n \in 0..c
      PROVE  f[n] <= f[c]
  <2>1. c - n \in G /\ c - (c - n) = n
    BY <1>0, <1>3
  <2>. QED
    BY <2>1
<1>. QED
  BY <1>4

-----------------------------------------------------------------------------
(* The meshes: values.                                                     *)

(* A bounded set of numbers has a greatest and a least, which the model    *)
(* asks for.                                                               *)
LEMMA Extremes ==
    ASSUME NEW a \in Int, NEW b \in Int, NEW X \in SUBSET (a..b), X # {}
    PROVE  /\ M!Max(X) \in X /\ \A y \in X : M!Max(X) >= y
           /\ M!Min(X) \in X /\ \A y \in X : M!Min(X) <= y
<1>0. \A x \in X : x \in Int /\ b - x \in Nat /\ x - a \in Nat
  OBVIOUS
<1>1. \E x \in X : \A y \in X : x >= y
  <2> DEFINE W == {b - x : x \in X}
  <2>1. PICK m \in W : \A y \in W : ~(<<y, m>> \in OpToRel(<, Nat))
    <3>1. W \in SUBSET Nat /\ W # {}
      BY <1>0
    <3> HIDE DEF W
    <3>. QED
      BY <3>1, NatLessThanWellFounded, WFMin
  <2>2. PICK x \in X : m = b - x
    BY <2>1
  <2>3. ASSUME NEW y \in X
        PROVE  x >= y
    <3>1. ~(b - y < b - x)
      BY <1>0, <2>1, <2>2 DEF OpToRel
    <3>. QED
      BY <1>0, <3>1
  <2>. QED
    BY <2>3
<1>2. \E x \in X : \A y \in X : x <= y
  <2> DEFINE W == {x - a : x \in X}
  <2>1. PICK m \in W : \A y \in W : ~(<<y, m>> \in OpToRel(<, Nat))
    <3>1. W \in SUBSET Nat /\ W # {}
      BY <1>0
    <3> HIDE DEF W
    <3>. QED
      BY <3>1, NatLessThanWellFounded, WFMin
  <2>2. PICK x \in X : m = x - a
    BY <2>1
  <2>3. ASSUME NEW y \in X
        PROVE  x <= y
    <3>1. ~(y - a < x - a)
      BY <1>0, <2>1, <2>2 DEF OpToRel
    <3>. QED
      BY <1>0, <3>1
  <2>. QED
    BY <2>3
<1>3. M!Max(X) \in X /\ \A y \in X : M!Max(X) >= y
  BY <1>1, Zenon DEF M!Max
<1>4. M!Min(X) \in X /\ \A y \in X : M!Min(X) <= y
  BY <1>2, Zenon DEF M!Min
<1>. QED
  BY <1>3, <1>4

Numeric == {"UINT", "INT", "BOOL", "FLOAT"}

(* What is read of a chunk has the types cr2w_find gives it.               *)
LEMMA Reading ==
    ASSUME NEW values, M!Typed(values), NEW path
    PROVE  /\ \A kinds \in SUBSET Numeric, z \in Int : M!Only(M!Field(values, path, kinds), z) \in Int
           /\ \A e \in M!Walked(values, path) : M!IsList(e) /\ \A k \in DOMAIN e : M!Number(e[k])
           /\ \A e, d \in M!Walked(values, path) : e = d
           /\ \A e \in M!Walked(values, path) : \E q \in DOMAIN values : values[q].kind = "ARRAY" /\ e = values[q].as.elems
<1>1. ASSUME NEW kinds, NEW x \in M!Field(values, path, kinds)
      PROVE  path \in DOMAIN values /\ values[path].kind \in kinds /\ x = values[path].as
  BY DEF M!Field
<1>2. ASSUME NEW kinds \in SUBSET Numeric, NEW z \in Int
      PROVE  M!Only(M!Field(values, path, kinds), z) \in Int
  <2>1. ASSUME NEW x \in M!Field(values, path, kinds)
        PROVE  x \in Int
    <3>1. path \in DOMAIN values /\ values[path].kind \in Numeric /\ x = values[path].as
      BY <1>1
    <3>2. M!Number(values[path])
      BY <3>1 DEF M!Typed
    <3>. QED
      BY <3>1, <3>2 DEF M!Number, Numeric
  <2>. QED
    BY <2>1 DEF M!Only
<1>3. ASSUME NEW e \in M!Walked(values, path)
      PROVE  path \in DOMAIN values /\ values[path].kind = "ARRAY" /\ e = values[path].as.elems
  <2>1. PICK x \in M!Field(values, path, {"ARRAY"}) : e = x.elems
    BY DEF M!Walked
  <2>. QED
    BY <1>1, <2>1
<1>. QED
  BY <1>2, <1>3 DEF M!Typed

(* What a list is.                                                         *)
LEMMA ListShape ==
    ASSUME NEW s, M!IsList(s)
    PROVE  Len(s) \in Nat /\ DOMAIN s = 1..Len(s) /\ (s # <<>> => 1 \in DOMAIN s /\ Head(s) = s[1])
<1> DEFINE X == {s[k] : k \in DOMAIN s}
<1>1. s \in Seq(X)
  BY DEF M!IsList
<1> HIDE DEF X
<1>. QED
  BY <1>1

(* The numbers the meshes are built with.                                  *)
LEMMA MeshNumbers == MeshWord \in Nat \ {0} /\ MaxFloat \in Nat /\ MaterialBudget \in Nat
BY MeshAssumption

(* A field of the width of the file's integers.                            *)
LEMMA ReadingUint ==
    ASSUME NEW values, M!Typed(values), NEW path
    PROVE  /\ \A z \in Int : M!UintOr(values, path, z) \in Nat
           /\ M!FirstUint(values, path) \in Nat
           /\ \A z \in Int : M!FloatOr(values, path, z) \in Int
<1>0. \A x \in Int : x % MeshWord \in Nat
  BY MeshNumbers
<1>1. ASSUME NEW z \in Int
      PROVE  M!UintOr(values, path, z) \in Nat /\ M!FloatOr(values, path, z) \in Int
  <2>1. {"UINT", "INT", "BOOL"} \in SUBSET Numeric /\ {"FLOAT"} \in SUBSET Numeric
    BY DEF Numeric
  <2>2. M!Only(M!Field(values, path, {"UINT", "INT", "BOOL"}), z) \in Int /\ M!Only(M!Field(values, path, {"FLOAT"}), z) \in Int
    BY <2>1, Reading
  <2>. QED
    BY <1>0, <2>2 DEF M!UintOr, M!FloatOr
<1>2. M!FirstUint(values, path) \in Nat
  <2> DEFINE heads == {Head(e) : e \in M!Walked(values, path) \ {<<>>}}
             nums == {v.as : v \in {h \in heads : h.kind \in {"UINT", "INT", "BOOL"}}}
  <2>1. ASSUME NEW h \in heads
        PROVE  M!Number(h)
    <3>1. PICK e \in M!Walked(values, path) : e # <<>> /\ h = Head(e)
      OBVIOUS
    <3>2. M!IsList(e) /\ \A k \in DOMAIN e : M!Number(e[k])
      BY Reading
    <3>3. 1 \in DOMAIN e /\ h = e[1]
      BY <3>1, <3>2, ListShape
    <3>. QED
      BY <3>2, <3>3
  <2>2. \A x \in nums : x \in Int
    BY <2>1 DEF M!Number
  <2> HIDE DEF nums
  <2>3. M!Only(nums, 0) \in Int
    BY <2>2 DEF M!Only
  <2>4. M!FirstUint(values, path) = M!Only(nums, 0) % MeshWord
    BY DEF M!FirstUint, nums
  <2>. QED
    BY <1>0, <2>3, <2>4
<1>. QED
  BY <1>1, <1>2

(* The values of a chunk, there or not, and those of its structs.          *)
LEMMA ChunkTyped ==
    ASSUME input \in MeshFiles, NEW c
    PROVE  /\ M!Typed(M!Values(c))
           /\ \A q \in DOMAIN M!Values(c) : M!Values(c)[q].kind = "ARRAY" =>
                 \A k \in DOMAIN M!Values(c)[q].as.elems :
                    M!Values(c)[q].as.elems[k].kind = "STRUCT" => M!Typed(M!Values(c)[q].as.elems[k].as)
<1>1. CASE c + 1 \in DOMAIN input.chunks
  <2>1. M!Values(c) = input.chunks[c + 1].values
    BY <1>1 DEF M!Values
  <2>. QED
    BY <1>1, <2>1, MeshAssumption
<1>2. CASE c + 1 \notin DOMAIN input.chunks
  <2>1. DOMAIN M!Values(c) = {}
    BY <1>2 DEF M!Values
  <2>. QED
    BY <2>1 DEF M!Typed
<1>. QED
  BY <1>1, <1>2

-----------------------------------------------------------------------------
(* The meshes: boxes.                                                      *)

(* A chunk as it is gathered, without a box.                               *)
Bare(c) ==
    /\ "box" \in DOMAIN c /\ c.box = M!NoBox
    /\ c.vertex_count \in Nat /\ c.offset \in Nat /\ c.stride \in Nat

(* What BoxesFromGeometry says of one chunk.                               *)
BoxTrue(c, geometry, scale, offset) ==
    LET At(i) == c.offset + i * c.stride
        V(i) == geometry[At(i) + 1] * scale + offset
        vertices == 0..(c.vertex_count - 1)
    IN  IF ~c.box.valid THEN c.box = M!NoBox
        ELSE /\ \A i \in vertices : At(i) + M!PositionBytes <= Len(geometry)
             /\ \A i \in vertices : c.box.min <= V(i) /\ V(i) <= c.box.max
             /\ {c.box.min, c.box.max} \subseteq {V(i) : i \in vertices}
             /\ M!Finite(c.box.min) /\ M!Finite(c.box.max)

(* Earlier vertices lie before later ones.                                 *)
LEMMA Before ==
    ASSUME NEW i \in Nat, NEW j \in Nat, i <= j, NEW s \in Nat
    PROVE  i * s \in Nat /\ i * s <= j * s
<1>1. (j - i) * s >= 0 /\ (j - i) * s = j * s - i * s
  OBVIOUS
<1>. QED
  BY <1>1

(* An infinite value stays one.                                            *)
LEMMA Floats ==
    ASSUME NEW v \in Int
    PROVE  /\ M!ToFloat(v) \in -(MaxFloat + 1)..(MaxFloat + 1)
           /\ -MaxFloat <= M!ToFloat(v) /\ M!ToFloat(v) <= MaxFloat => M!ToFloat(v) = v
BY MeshNumbers DEF M!ToFloat, M!Finite

(* All vertices lie in the buffer if the last one does.                    *)
LEMMA InSpan ==
    ASSUME NEW o \in Nat, NEW n \in Nat \ {0}, NEW st \in Nat, NEW len \in Nat,
           o + (n - 1) * st + 6 <= len, NEW i \in 0..(n - 1)
    PROVE  o + i * st \in Nat /\ o + i * st + 6 <= len /\ o + i * st + 1 \in 1..len
<1> DEFINE p == i * st
           q == (n - 1) * st
<1>1. i \in Nat /\ n - 1 \in Nat /\ i <= n - 1
  OBVIOUS
<1>2. p \in Nat /\ p <= q
  BY <1>1, Before
<1>3. q \in Nat
  BY <1>1, Before
<1>. QED
  <2> HIDE DEF p, q
  <2>1. o + p \in Nat /\ o + p + 6 <= len /\ o + p + 1 \in 1..len
    <3>1. o + q + 6 <= len
      BY DEF q
    <3>. QED
      BY <1>2, <1>3, <3>1
  <2>. QED
    BY <2>1 DEF p

(* The floats of a family of numbers.                                      *)
Floated(values, V, I) == \A x : x \in values <=> \E i \in I : x = M!ToFloat(V[i])

(* The least and the greatest of a family of numbers.                      *)
Spanned(lo, hi, V, I) ==
    /\ \A i \in I : lo <= V[i] /\ V[i] <= hi
    /\ \E i \in I : V[i] = lo
    /\ \E i \in I : V[i] = hi

(* The finite extremes of the floats are those of the numbers.             *)
LEMMA BoxOf ==
    ASSUME NEW I, 0 \in I, NEW V \in [I -> Int], NEW values, Floated(values, V, I),
           NEW lo, lo = M!Min(values \cup {MaxFloat}), M!Finite(lo),
           NEW hi, hi = M!Max(values \cup {-MaxFloat}), M!Finite(hi)
    PROVE  Spanned(lo, hi, V, I)
<1>0. \A i \in I : V[i] \in Int /\ M!ToFloat(V[i]) \in values
  BY DEF Floated
<1>1. values \in SUBSET (-(MaxFloat + 1)..(MaxFloat + 1))
  <2>1. ASSUME NEW x \in values
        PROVE  x \in -(MaxFloat + 1)..(MaxFloat + 1)
    <3>1. PICK i \in I : x = M!ToFloat(V[i])
      BY DEF Floated
    <3>. QED
      BY <1>0, <3>1, Floats
  <2>. QED
    BY <2>1
<1>2. /\ lo \in values \cup {MaxFloat} /\ \A x \in values : lo <= x
      /\ hi \in values \cup {-MaxFloat} /\ \A x \in values : hi >= x
  <2>1. (-(MaxFloat + 1)) \in Int /\ MaxFloat + 1 \in Int
        /\ MaxFloat \in -(MaxFloat + 1)..(MaxFloat + 1) /\ -MaxFloat \in -(MaxFloat + 1)..(MaxFloat + 1)
    BY MeshNumbers
  <2>2. /\ values \cup {MaxFloat} \in SUBSET (-(MaxFloat + 1)..(MaxFloat + 1))
        /\ values \cup {-MaxFloat} \in SUBSET (-(MaxFloat + 1)..(MaxFloat + 1))
    BY <1>1, <2>1
  <2>3. lo \in values \cup {MaxFloat} /\ \A x \in values \cup {MaxFloat} : lo <= x
    BY <2>1, <2>2, Extremes
  <2>4. hi \in values \cup {-MaxFloat} /\ \A x \in values \cup {-MaxFloat} : hi >= x
    BY <2>1, <2>2, Extremes
  <2>. QED
    BY <2>3, <2>4
<1>3. -MaxFloat <= lo /\ lo <= MaxFloat /\ -MaxFloat <= hi /\ hi <= MaxFloat /\ lo \in Int /\ hi \in Int
      /\ MaxFloat \in Nat
  BY MeshNumbers DEF M!Finite
<1>4. ASSUME NEW i \in I
      PROVE  V[i] = M!ToFloat(V[i]) /\ V[i] \in values /\ V[i] \in Int /\ lo <= V[i] /\ V[i] <= hi
  <2>1. V[i] \in Int /\ M!ToFloat(V[i]) \in values
    BY <1>0
  <2> DEFINE x == M!ToFloat(V[i])
  <2>2. x \in Int /\ (-MaxFloat <= x /\ x <= MaxFloat => x = V[i])
    <3>1. /\ x \in -(MaxFloat + 1)..(MaxFloat + 1)
          /\ -MaxFloat <= x /\ x <= MaxFloat => x = V[i]
      BY <2>1, Floats
    <3> HIDE DEF x
    <3>. QED
      BY <1>3, <3>1
  <2> HIDE DEF x
  <2>3. x \in values
    BY <2>1 DEF x
  <2>4. lo <= x /\ hi >= x
    BY <1>2, <2>3
  <2>5. x = V[i]
    BY <1>3, <2>2, <2>4
  <2>. QED
    BY <1>3, <2>1, <2>2, <2>3, <2>4, <2>5 DEF x
<1>5. \A x \in values : \E i \in I : V[i] = x
  BY <1>4 DEF Floated
<1>6. lo \in values /\ hi \in values
  <2>1. 0 \in I
    OBVIOUS
  <2>2. V[0] \in values /\ V[0] \in Int /\ lo <= V[0] /\ V[0] <= hi
    BY <1>4, <2>1
  <2>3. lo = MaxFloat => V[0] = lo
    BY <1>3, <2>2
  <2>4. hi = -MaxFloat => V[0] = hi
    BY <1>3, <2>2
  <2>. QED
    BY <1>2, <2>2, <2>3, <2>4
<1>. QED
  BY <1>4, <1>5, <1>6 DEF Spanned

(* The box that compute_bounds publishes is that of the vertices.          *)
LEMMA Bounding ==
    ASSUME NEW c, Bare(c), NEW geometry \in Seq(Int), NEW scale \in Int, NEW offset \in Int
    PROVE  BoxTrue(M!ComputeBounds(c, geometry, scale, offset), geometry, scale, offset)
<1> DEFINE n == c.vertex_count
           I == 0..(c.vertex_count - 1)
           Read(p) == IF p \in DOMAIN geometry THEN geometry[p] ELSE 0
           values == {M!ToFloat(Read(c.offset + i * c.stride + 1) * scale + offset) : i \in I}
           lo == M!Min(values \cup {MaxFloat})
           hi == M!Max(values \cup {-MaxFloat})
           d == [c EXCEPT !.box = [valid |-> TRUE, min |-> lo, max |-> hi]]
           Bad == \/ c.vertex_count = 0 \/ c.stride < M!PositionBytes
                  \/ ~M!Finite(scale) \/ ~M!Finite(offset)
                  \/ M!Span(c) > Len(geometry)
                  \/ ~M!Finite(lo) \/ ~M!Finite(hi)
<1>1. M!ComputeBounds(c, geometry, scale, offset) = IF Bad THEN c ELSE d
  BY DEF M!ComputeBounds
<1>2. CASE Bad
  <2>1. M!ComputeBounds(c, geometry, scale, offset) = c
    BY <1>1, <1>2
  <2>2. ~c.box.valid /\ c.box = M!NoBox
    BY DEF Bare, M!NoBox
  <2>. QED
    BY <2>1, <2>2 DEF BoxTrue
<1>3. CASE ~Bad
  <2>1. /\ M!ComputeBounds(c, geometry, scale, offset) = d
        /\ d.box = [valid |-> TRUE, min |-> lo, max |-> hi]
        /\ d.offset = c.offset /\ d.stride = c.stride /\ d.vertex_count = n
    BY <1>1, <1>3 DEF Bare
  <2>2. /\ c.offset + (n - 1) * c.stride + 6 <= Len(geometry)
        /\ M!Finite(lo) /\ M!Finite(hi) /\ n \in Nat \ {0}
        /\ c.offset \in Nat /\ c.stride \in Nat /\ Len(geometry) \in Nat /\ DOMAIN geometry = 1..Len(geometry)
    <3>1. M!Span(c) \in Int /\ M!Span(c) = c.offset + (n - 1) * c.stride + 6
      BY DEF M!Span, M!PositionBytes, Bare
    <3>. QED
      BY <1>3, <3>1 DEF Bare
  <2> HIDE DEF lo, hi, d
  <2>3. ASSUME NEW i \in I
        PROVE  /\ c.offset + i * c.stride + M!PositionBytes <= Len(geometry)
               /\ c.offset + i * c.stride + 1 \in DOMAIN geometry
    BY <2>2, InSpan DEF M!PositionBytes
  <2> DEFINE V == [i \in I |-> geometry[c.offset + i * c.stride + 1] * scale + offset]
  <2>4. V \in [I -> Int]
    <3>1. ASSUME NEW i \in I
          PROVE  geometry[c.offset + i * c.stride + 1] \in Int
      BY <2>3
    <3>. QED
      BY <3>1
  <2>5. Floated(values, V, I)
    <3>1. ASSUME NEW i \in I
          PROVE  Read(c.offset + i * c.stride + 1) = geometry[c.offset + i * c.stride + 1]
      BY <2>3
    <3>. QED
      BY <3>1 DEF Floated
  <2>6. Spanned(lo, hi, V, I)
    <3>1. lo = M!Min(values \cup {MaxFloat}) /\ hi = M!Max(values \cup {-MaxFloat})
      BY DEF lo, hi
    <3>2. 0 \in I
      BY <2>2
    <3>3. M!Finite(lo) /\ M!Finite(hi)
      BY <2>2
    <3> HIDE DEF V, values, I
    <3>. QED
      BY <2>4, <2>5, <3>1, <3>2, <3>3, BoxOf
  <2>7. BoxTrue(d, geometry, scale, offset)
    <3>1. d.box.valid /\ d.box.min = lo /\ d.box.max = hi
      BY <2>1
    <3>2. ASSUME NEW i \in I
          PROVE  /\ d.offset + i * d.stride + M!PositionBytes <= Len(geometry)
                 /\ V[i] = geometry[d.offset + i * d.stride + 1] * scale + offset
      BY <2>1, <2>3
    <3>3. M!Finite(d.box.min) /\ M!Finite(d.box.max) /\ d.vertex_count = c.vertex_count
      BY <2>1, <2>2, <3>1
    <3> HIDE DEF V
    <3>. QED
      BY <2>6, <3>1, <3>2, <3>3 DEF BoxTrue, Spanned
  <2>. QED
    BY <2>1, <2>7
<1>. QED
  BY <1>2, <1>3

-----------------------------------------------------------------------------
(* The meshes: what is made of a file.                                     *)

(* MeshBuild puts in order as Ordering does.                               *)
LEMMA SameOrderOfChunks ==
    ASSUME NEW E
    PROVE  M!InOrder(E, M!Upwards(E)) = InOrder(E, Upwards(E))
<1>0. \A X : M!Cardinality(X) = Cardinality(X)
  BY DEF M!Cardinality, Cardinality
<1>1. ASSUME NEW R
      PROVE  M!InOrder(E, R) = InOrder(E, R)
  <2>1. \A x : M!Rank(x, E, R) = Rank(x, E, R)
    BY <1>0 DEF M!Rank, Rank
  <2>2. \A n : M!Nth(n, E, R) = Nth(n, E, R)
    BY <2>1 DEF M!Nth, Nth
  <2>. QED
    BY <1>0, <2>2 DEF M!InOrder, InOrder
<1>2. M!Upwards(E) = Upwards(E)
  BY DEF M!Upwards, Upwards
<1>. QED
  BY <1>1, <1>2

Structs(infos) == {k \in DOMAIN infos : infos[k].kind = "STRUCT"}

(* One chunk is gathered of each struct of the infos, without a box yet.   *)
LEMMA Gathering ==
    ASSUME NEW infos, M!IsList(infos), \A k \in Structs(infos) : M!Typed(infos[k].as)
    PROVE  LET q == M!GatherChunks(infos)
               c == Cardinality(Structs(infos))
           IN  c \in Nat /\ DOMAIN q = 1..c /\ Len(q) = c /\ \A k \in DOMAIN q : Bare(q[k])
<1> DEFINE K == Structs(infos)
           c == Cardinality(K)
           at == InOrder(K, Upwards(K))
           q == M!GatherChunks(infos)
<1>1. Len(infos) \in Nat /\ DOMAIN infos = 1..Len(infos)
  BY ListShape
<1>2. IsFiniteSet(K) /\ K \subseteq Nat
  <2>1. K \in SUBSET (1..Len(infos)) /\ IsFiniteSet(1..Len(infos))
    BY <1>1, FS_Interval DEF Structs
  <2>. QED
    BY <2>1, FS_Subset
<1>3. Orders(Upwards(K), K)
  BY <1>2 DEF Orders, Upwards
<1>4. at \in [1..c -> K] /\ c \in Nat
  BY <1>2, <1>3, Ordered
<1>5. q = [n \in 1..c |-> M!GatherChunk(at[n] - 1, infos[at[n]].as)]
  <2>1. M!InOrder(K, M!Upwards(K)) = at
    BY SameOrderOfChunks
  <2>2. DOMAIN at = 1..c
    BY <1>4
  <2>. QED
    BY <2>1, <2>2 DEF M!GatherChunks, Structs
<1>6. ASSUME NEW n \in 1..c
      PROVE  Bare(q[n])
  <2>1. at[n] \in K /\ M!Typed(infos[at[n]].as)
    BY <1>4
  <2> DEFINE v == infos[at[n]].as
  <2>2. q[n] = M!GatherChunk(at[n] - 1, v)
    BY <1>5
  <2>3. M!Typed(v)
    BY <2>1
  <2> HIDE DEF v, q, at
  <2>4. M!UintOr(v, "numVertices", 0) \in Nat /\ M!FirstUint(v, "chunkVertices.byteOffsets") \in Nat
        /\ M!FirstUint(v, "chunkVertices.vertexLayout.slotStrides") \in Nat
    <3>1. \A path : M!UintOr(v, path, 0) \in Nat /\ M!FirstUint(v, path) \in Nat
      <4> TAKE path
      <4>1. 0 \in Int
        OBVIOUS
      <4>. QED
        BY <2>3, <4>1, ReadingUint
    <3>. QED
      BY <3>1
  <2>. QED
    BY <2>2, <2>4 DEF M!GatherChunk, Bare
<1>7. DOMAIN q = 1..c /\ Len(q) = c
  BY <1>4, <1>5
<1>8. c \in Nat /\ DOMAIN q = 1..c /\ Len(q) = c /\ \A k \in DOMAIN q : Bare(q[k])
  <2> HIDE DEF q, c
  <2>. QED
    BY <1>4, <1>6, <1>7
<1>. QED
  BY <1>8

(* What is made of a mesh depends on the file alone.                       *)
LEMMA SameMesh ==
    ASSUME input' = input
    PROVE  M!Built' = M!Built /\ M!Described' = M!Described
<1>1. \A c : M!Values(c)' = M!Values(c)
  BY DEF M!Values
<1>2. \A k : M!OfClass(k)' = M!OfClass(k)
  BY DEF M!OfClass
<1>3. M!BlobOfClass' = M!BlobOfClass /\ M!BlobHandle' = M!BlobHandle
  BY <1>1, <1>2 DEF M!BlobOfClass, M!BlobHandle
<1>4. M!BlobChunk' = M!BlobChunk
  BY <1>3 DEF M!BlobChunk
<1>5. \A b : M!Geometry(b)' = M!Geometry(b)
  BY <1>1 DEF M!Geometry, M!BufferIndex
<1>6. \A c, n, b : M!Appearance(c, n, b)' = M!Appearance(c, n, b)
  BY <1>1 DEF M!Appearance
<1>7. \A s, v, n : M!Gather(s, v, n)' = M!Gather(s, v, n)
  BY <1>6 DEF M!Gather
<1>8. \A h, n : M!GatherAppearances(h, n)' = M!GatherAppearances(h, n)
  BY <1>7 DEF M!GatherAppearances
<1>9. M!Built' = M!Built
  BY <1>1, <1>4, <1>5, <1>8, ZenonT(40) DEF M!Built
<1>10. M!Described' = M!Described
  BY <1>1, <1>3, <1>5, ZenonT(40) DEF M!Described
<1>. QED
  BY <1>9, <1>10

(* The file is one of the meshes, and what was returned was made of it.    *)
MeshInv ==
    reader = "mesh" =>
        /\ input \in MeshFiles
        /\ output \in [mesh : {M!NotCalled, M!Built}, desc : {M!NotCalled, M!Described}]

(* It always is.                                                           *)
LEMMA MeshAlways == FilesSpec => []MeshInv
<1>1. FilesInit => MeshInv
  BY DEF FilesInit, M!Init, MeshInv, NoDepot, NoLibrary, NoFile
<1>2. MeshInv /\ [FilesNext]_fileVars => MeshInv'
  <2> SUFFICES ASSUME MeshInv, [FilesNext]_fileVars
               PROVE  MeshInv'
    OBVIOUS
  <2>1. CASE reader' = reader /\ input' = input /\ output' = output
    BY <2>1, SameMesh DEF MeshInv, M!NotCalled
  <2>2. CASE ReadMesh
    <3>1. reader = "mesh" /\ reader' = reader /\ input' = input
          /\ (output' = [output EXCEPT !.mesh = M!Built] \/ output' = [output EXCEPT !.desc = M!Described])
      BY <2>2 DEF ReadMesh, M!Next, M!MeshOpen, M!MeshDescOf
    <3>. QED
      BY <3>1, SameMesh DEF MeshInv, M!NotCalled
  <2>3. CASE reader # "mesh" /\ reader' = reader
    BY <2>3 DEF MeshInv
  <2>. QED
    BY <2>1, <2>2, <2>3 DEF FilesNext, fileVars, vars, ReadDocument, ReadTexture, ReadSound, ReadArchive, Mount, DecodeSegments
<1>. QED
  BY <1>1, <1>2, PTL DEF FilesSpec

Blob == CHOOSE b \in M!BlobChunk : TRUE
Infos == CHOOSE i \in M!Walked(M!Values(Blob), "header.renderChunkInfos") : TRUE
Scale == M!FloatOr(M!Values(Blob), "header.quantizationScale", 1)
Offset == M!FloatOr(M!Values(Blob), "header.quantizationOffset", 0)
GeometryOf == CHOOSE g \in M!Geometry(Blob) : TRUE
HandlesOf == M!Only(M!Walked(M!Values(0), "appearances"), <<>>)

(* A mesh that was opened has the chunks and appearances of its file.      *)
LEMMA Opened ==
    ASSUME reader = "mesh", MeshInv, output.mesh.status = "OK"
    PROVE  LET q == M!GatherChunks(Infos)
               mesh == output.mesh.mesh
           IN  /\ Infos \in M!Walked(M!Values(Blob), "header.renderChunkInfos") /\ Blob \in M!BlobChunk
               /\ mesh.chunks = IF M!Geometry(Blob) = {} THEN q
                                ELSE [k \in DOMAIN q |-> M!ComputeBounds(q[k], GeometryOf, Scale, Offset)]
               /\ mesh.bbox = M!FiniteOrZero(M!FloatOr(M!Values(0), "boundingBox", 0))
               /\ mesh.appearances = M!GatherAppearances(HandlesOf, Len(q))
<1>1. output.mesh = M!Built
  <2>1. output.mesh \in {M!NotCalled, M!Built}
    BY DEF MeshInv
  <2>2. M!NotCalled.status # "OK"
    BY DEF M!NotCalled
  <2>. QED
    BY <2>1, <2>2
<1> DEFINE Failed(status) == [status |-> status, mesh |-> M!NoMesh]
           q == M!GatherChunks(Infos)
           swept == [k \in DOMAIN q |-> M!ComputeBounds(q[k], GeometryOf, Scale, Offset)]
           lods == {Len(l) : l \in M!Walked(M!Values(Blob), "header.renderLODs")}
           whole == [chunks |-> IF M!Geometry(Blob) = {} THEN q ELSE swept,
                     lod_count |-> M!Max({1} \cup lods \cup {q[k].lod : k \in DOMAIN q}),
                     bbox |-> M!FiniteOrZero(M!FloatOr(M!Values(0), "boundingBox", 0)),
                     appearances |-> M!GatherAppearances(HandlesOf, Len(q))]
<1>2. M!Built = IF input.chunks = <<>> THEN Failed("CORRUPT")
                ELSE IF input.chunks[1].class # "CMesh" \/ M!BlobChunk = {} THEN Failed("UNSUPPORTED")
                ELSE IF M!Walked(M!Values(Blob), "header.renderChunkInfos") = {} THEN Failed("UNSUPPORTED")
                ELSE [status |-> "OK", mesh |-> whole]
  BY DEF M!Built, Blob, Infos, Scale, Offset, GeometryOf, HandlesOf
<1> HIDE DEF whole
<1>3. Failed("CORRUPT").status # "OK" /\ Failed("UNSUPPORTED").status # "OK"
  OBVIOUS
<1> HIDE DEF Failed
<1>4. M!BlobChunk # {} /\ M!Walked(M!Values(Blob), "header.renderChunkInfos") # {}
      /\ M!Built = [status |-> "OK", mesh |-> whole]
  BY <1>1, <1>2, <1>3
<1>5. output.mesh.mesh = whole
  BY <1>1, <1>4
<1>6. Infos \in M!Walked(M!Values(Blob), "header.renderChunkInfos") /\ Blob \in M!BlobChunk
  BY <1>4 DEF Infos, Blob
<1>7. /\ whole.chunks = IF M!Geometry(Blob) = {} THEN q ELSE swept
      /\ whole.bbox = M!FiniteOrZero(M!FloatOr(M!Values(0), "boundingBox", 0))
      /\ whole.appearances = M!GatherAppearances(HandlesOf, Len(q))
  BY DEF whole
<1>8. /\ output.mesh.mesh.chunks = IF M!Geometry(Blob) = {} THEN q ELSE swept
      /\ output.mesh.mesh.bbox = M!FiniteOrZero(M!FloatOr(M!Values(0), "boundingBox", 0))
      /\ output.mesh.mesh.appearances = M!GatherAppearances(HandlesOf, Len(q))
  <2> HIDE DEF q, swept
  <2>. QED
    BY <1>5, <1>7, Zenon
<1>. QED
  BY <1>6, <1>8, Zenon

(* The infos of an opened mesh are a list of typed values.                 *)
LEMMA InfosTyped ==
    ASSUME input \in MeshFiles, NEW c, NEW path, NEW e \in M!Walked(M!Values(c), path)
    PROVE  M!IsList(e) /\ \A k \in DOMAIN e : M!Number(e[k]) /\ (e[k].kind = "STRUCT" => M!Typed(e[k].as))
<1> DEFINE values == M!Values(c)
<1>1. /\ M!Typed(values)
      /\ \A q \in DOMAIN values : values[q].kind = "ARRAY" =>
            \A k \in DOMAIN values[q].as.elems :
               values[q].as.elems[k].kind = "STRUCT" => M!Typed(values[q].as.elems[k].as)
  BY ChunkTyped
<1> HIDE DEF values
<1>2. e \in M!Walked(values, path)
  BY DEF values
<1>3. PICK q \in DOMAIN values : values[q].kind = "ARRAY" /\ e = values[q].as.elems
  BY <1>1, <1>2, Reading
<1>4. M!IsList(e) /\ \A k \in DOMAIN e : M!Number(e[k])
  BY <1>1, <1>2, Reading
<1>. QED
  BY <1>1, <1>3, <1>4

(* However the chunks, layouts and vertices of a mesh are, a box that      *)
(* redfs_mesh_open publishes is that of vertices inside the geometry.      *)
THEOREM MeshBoxesHold == FilesSpec => []BoxesFromGeometry
<1>1. MeshInv => BoxesFromGeometry
  <2> SUFFICES ASSUME MeshInv, reader = "mesh", output.mesh.status = "OK"
               PROVE  \A k \in DOMAIN output.mesh.mesh.chunks :
                         BoxTrue(output.mesh.mesh.chunks[k], GeometryOf, Scale, Offset)
    BY DEF BoxesFromGeometry, M!BoxesFromGeometry, BoxTrue, Blob, GeometryOf, Scale, Offset
  <2> DEFINE q == M!GatherChunks(Infos)
             chunks == output.mesh.mesh.chunks
  <2>0. input \in MeshFiles
    BY DEF MeshInv
  <2>1. /\ Infos \in M!Walked(M!Values(Blob), "header.renderChunkInfos")
        /\ chunks = IF M!Geometry(Blob) = {} THEN q
                    ELSE [k \in DOMAIN q |-> M!ComputeBounds(q[k], GeometryOf, Scale, Offset)]
    BY Opened
  <2>2. M!IsList(Infos) /\ \A k \in Structs(Infos) : M!Typed(Infos[k].as)
    BY <2>0, <2>1, InfosTyped DEF Structs
  <2>3. \A k \in DOMAIN q : Bare(q[k])
    BY <2>2, Gathering
  <2>4. Scale \in Int /\ Offset \in Int
    <3>1. M!Typed(M!Values(Blob)) /\ 0 \in Int /\ 1 \in Int
      BY <2>0, ChunkTyped
    <3>. QED
      BY <3>1, ReadingUint DEF Scale, Offset
  <2>5. CASE M!Geometry(Blob) = {}
    BY <2>1, <2>3, <2>5 DEF BoxTrue, Bare, M!NoBox
  <2>6. CASE M!Geometry(Blob) # {}
    <3>1. GeometryOf \in M!Geometry(Blob)
      BY <2>6 DEF GeometryOf
    <3>2. GeometryOf \in Seq(Int)
      BY <2>0, <3>1, MeshAssumption DEF M!Geometry
    <3> HIDE DEF q
    <3>. QED
      BY <2>1, <2>3, <2>4, <2>6, <3>2, Bounding
  <2>. QED
    BY <2>5, <2>6
<1>. QED
  BY <1>1, MeshAlways, PTL

-----------------------------------------------------------------------------
(* The meshes: appearances.                                                *)

(* The one list that is found at a path, and its count.                    *)
LEMMA ListFound ==
    ASSUME input \in MeshFiles, NEW c, NEW path
    PROVE  LET l == M!Only(M!Walked(M!Values(c), path), <<>>)
           IN  /\ Len(l) \in Nat /\ DOMAIN l = 1..Len(l) /\ \A k \in DOMAIN l : M!Number(l[k])
               /\ M!Count(M!Values(c), path) = Len(l)
<1> DEFINE W == M!Walked(M!Values(c), path)
           l == M!Only(W, <<>>)
           counts == {Len(e) : e \in W}
<1>0. M!Count(M!Values(c), path) = M!Only(counts, 0)
  BY DEF M!Count
<1>1. CASE W = {}
  <2>1. l = <<>> /\ M!Only(counts, 0) = 0
    BY <1>1 DEF M!Only
  <2>. QED
    BY <1>0, <2>1
<1>2. CASE W # {}
  <2>1. l \in W
    BY <1>2 DEF M!Only
  <2>2. \A e \in W : e = l
    <3>1. M!Typed(M!Values(c))
      BY ChunkTyped
    <3>. QED
      BY <2>1, <3>1, Reading
  <2>3. M!Only(counts, 0) = Len(l)
    BY <2>1, <2>2 DEF M!Only
  <2>4. M!IsList(l) /\ \A k \in DOMAIN l : M!Number(l[k])
    BY <2>1, InfosTyped
  <2>5. Len(l) \in Nat /\ DOMAIN l = 1..Len(l)
    BY <2>4, ListShape
  <2>. QED
    BY <1>0, <2>3, <2>4, <2>5
<1>. QED
  BY <1>1, <1>2

NamesOf(c) == Len(M!Only(M!Walked(M!Values(c), "chunkMaterials"), <<>>))

(* An appearance has no more materials than names, chunks and budget.      *)
LEMMA OneAppearance ==
    ASSUME input \in MeshFiles, NEW c, NEW chunks \in Nat, NEW b \in Nat
    PROVE  LET n == Len(M!Appearance(c, chunks, b).materials)
           IN  n \in Nat /\ n <= chunks /\ n <= b /\ n <= NamesOf(c) /\ NamesOf(c) \in Nat
<1> DEFINE names == M!Only(M!Walked(M!Values(c), "chunkMaterials"), <<>>)
           top == M!Smaller(NamesOf(c), M!Cap(chunks, b))
           materials == [k \in 1..top |-> IF names[k].kind = "NAME" THEN names[k].as ELSE ""]
<1>1. NamesOf(c) \in Nat
  BY ListFound DEF NamesOf
<1>2. top \in Nat /\ top <= chunks /\ top <= b /\ top <= NamesOf(c)
  BY <1>1 DEF M!Smaller, M!Cap
<1>3. M!Appearance(c, chunks, b).materials = materials
  BY DEF M!Appearance, NamesOf
<1>4. Len(materials) = top
  <2> HIDE DEF top
  <2>. QED
    BY <1>2
<1>. QED
  <2> HIDE DEF materials, top
  <2>. QED
    BY <1>1, <1>2, <1>3, <1>4

(* What one step adds.                                                     *)
LEMMA GatherOne ==
    ASSUME input \in MeshFiles, NEW v, M!Number(v), NEW chunks \in Nat,
           NEW Y, NEW s \in [apps : Seq(Y), budget : Nat],
           \A c \in Int, b \in Nat : M!Appearance(c, chunks, b) \in Y
    PROVE  /\ M!Gather(s, v, chunks) \in [apps : Seq(Y), budget : Nat]
           /\ \/ M!Gather(s, v, chunks) = s /\ (v.kind # "HANDLE" \/ v.as < 0 \/ s.budget = 0)
              \/ LET app == M!Appearance(v.as, chunks, s.budget)
                     n == Len(app.materials)
                 IN  /\ v.as \in Int /\ n \in Nat /\ n <= s.budget
                     /\ M!Gather(s, v, chunks) = [apps |-> Append(s.apps, app), budget |-> s.budget - n]
<1>1. CASE v.kind # "HANDLE" \/ v.as < 0 \/ s.budget = 0
  BY <1>1 DEF M!Gather
<1>2. CASE ~(v.kind # "HANDLE" \/ v.as < 0 \/ s.budget = 0)
  <2> DEFINE app == M!Appearance(v.as, chunks, s.budget)
             n == Len(app.materials)
  <2>1. v.as \in Int /\ s.budget \in Nat /\ s.apps \in Seq(Y)
    BY <1>2 DEF M!Number
  <2>2. n \in Nat /\ n <= s.budget /\ app \in Y
    BY <2>1, OneAppearance
  <2>3. M!Gather(s, v, chunks) = [apps |-> Append(s.apps, app), budget |-> s.budget - M!Smaller(s.budget, n)]
    BY <1>2 DEF M!Gather
  <2> HIDE DEF app, n
  <2>4. M!Smaller(s.budget, n) = n
    BY <2>1, <2>2 DEF M!Smaller
  <2>5. M!Gather(s, v, chunks) = [apps |-> Append(s.apps, app), budget |-> s.budget - n]
    BY <2>3, <2>4
  <2>6. Append(s.apps, app) \in Seq(Y) /\ s.budget - n \in Nat
    BY <2>1, <2>2
  <2>. QED
    BY <2>1, <2>2, <2>5, <2>6 DEF app, n
<1>. QED
  BY <1>1, <1>2

(* The states of the loop of gather_appearances, the appearances so far    *)
(* and the budget left.                                                    *)
Gathered(chunks) ==
    LET Y == {M!Appearance(c, chunks, b) : c \in Int, b \in Nat} IN [apps : Seq(Y), budget : Nat]
Start == [apps |-> <<>>, budget |-> MaterialBudget]
Gathers(f, handles, chunks) ==
    /\ f \in [0..Len(handles) -> Gathered(chunks)] /\ f[0] = Start
    /\ \A n \in 1..Len(handles) : f[n] = M!Gather(f[n - 1], handles[n], chunks)

(* gather_appearances does its steps one by one.                           *)
LEMMA GatherAll ==
    ASSUME input \in MeshFiles, NEW handles, Indexed(handles), \A k \in DOMAIN handles : M!Number(handles[k]),
           NEW chunks \in Nat
    PROVE  \E f : Gathers(f, handles, chunks) /\ M!GatherAppearances(handles, chunks) = f[Len(handles)].apps
<1> DEFINE c == Len(handles)
           X == Gathered(chunks)
           step == [x \in X \X (1..c) |-> M!Gather(x[1], handles[x[2]], chunks)]
<1>1. c \in Nat /\ \A k \in 1..c : M!Number(handles[k])
  BY DEF Indexed
<1>2. ASSUME NEW s \in X, NEW k \in 1..c
      PROVE  M!Gather(s, handles[k], chunks) \in X
  <2> DEFINE Y == {M!Appearance(d, chunks, b) : d \in Int, b \in Nat}
  <2>1. \A d \in Int, b \in Nat : M!Appearance(d, chunks, b) \in Y
    OBVIOUS
  <2>2. X = [apps : Seq(Y), budget : Nat]
    BY DEF Gathered
  <2> HIDE DEF Y, X
  <2>. QED
    BY <1>1, <2>1, <2>2, GatherOne
<1>3. Start \in X
  BY MeshNumbers DEF Start, Gathered
<1> HIDE DEF X
<1>4. step \in [X \X (1..c) -> X] /\ \A x \in X, n \in 1..c : step[<<x, n>>] = M!Gather(x, handles[n], chunks)
  BY <1>2
<1> HIDE DEF step
<1>5. PICK f \in [0..c -> X] : Unrolls(f, Start, step, c)
  BY <1>1, <1>3, <1>4, Looping
<1> DEFINE after[n \in 0..c] == IF n = 0 THEN Start ELSE M!Gather(after[n - 1], handles[n], chunks)
<1>6. f = [n \in 0..c |-> IF n = 0 THEN Start ELSE M!Gather(f[n - 1], handles[n], chunks)]
  <2>1. ASSUME NEW n \in 0..c
        PROVE  f[n] = IF n = 0 THEN Start ELSE M!Gather(f[n - 1], handles[n], chunks)
    <3>1. CASE n = 0
      BY <1>5, <3>1 DEF Unrolls
    <3>2. CASE n # 0
      <4>1. n \in 1..c /\ n - 1 \in 0..c
        BY <1>1, <3>2
      <4>. QED
        BY <1>4, <1>5, <3>2, <4>1 DEF Unrolls
    <3>. QED
      BY <3>1, <3>2
  <2>. QED
    BY <2>1
<1>7. after = [n \in 0..c |-> IF n = 0 THEN Start ELSE M!Gather(after[n - 1], handles[n], chunks)]
  BY <1>6
<1>8. M!GatherAppearances(handles, chunks) = after[c].apps
  BY DEF M!GatherAppearances, Start
<1> HIDE DEF after
<1>9. Gathers(after, handles, chunks)
  <2> DEFINE G == {n \in 0..c : after[n] \in X}
  <2>1. 0 \in G /\ after[0] = Start
    BY <1>1, <1>3, <1>7
  <2>2. ASSUME NEW n \in 1..c
        PROVE  after[n] = M!Gather(after[n - 1], handles[n], chunks)
    BY <1>1, <1>7
  <2>3. \A n \in 1..c : n - 1 \in G => n \in G
    BY <1>1, <1>2, <2>2
  <2>4. \A n \in 0..c : n \in G
    <3> HIDE DEF G
    <3>. QED
      BY <1>1, <2>1, <2>3, Counting
  <2>5. after \in [0..c -> X]
    BY <1>7, <2>4
  <2>. QED
    BY <2>1, <2>2, <2>5 DEF Gathers, X
<1>. QED
  BY <1>8, <1>9

(* The sum of a list is a number, and of one element more that much more.  *)
LEMMA TotalGrows ==
    ASSUME NEW s, Indexed(s), \A k \in DOMAIN s : s[k] \in Nat
    PROVE  /\ M!Total(s) \in Nat /\ (Len(s) = 0 => M!Total(s) = 0)
           /\ \A r : (/\ Indexed(r) /\ Len(r) = Len(s) + 1 /\ r[Len(r)] \in Nat
                      /\ \A k \in DOMAIN s : r[k] = s[k]) => M!Total(r) = M!Total(s) + r[Len(r)]
<1>1. PICK f : Sums(f, s) /\ M!Total(s) = f[Len(s)]
  BY Summing
<1>2. M!Total(s) \in Nat /\ (Len(s) = 0 => M!Total(s) = 0)
  BY <1>1 DEF Sums, Indexed
<1>3. ASSUME NEW r, Indexed(r), Len(r) = Len(s) + 1, r[Len(r)] \in Nat, \A k \in DOMAIN s : r[k] = s[k]
      PROVE  M!Total(r) = M!Total(s) + r[Len(r)]
  <2>1. \A k \in DOMAIN r : r[k] \in Nat
    BY <1>3 DEF Indexed
  <2>2. PICK g : Sums(g, r) /\ M!Total(r) = g[Len(r)]
    BY <1>3, <2>1, Summing
  <2>3. Len(s) \in Nat /\ Len(s) <= Len(r) /\ \A k \in 1..Len(s) : r[k] = s[k]
    BY <1>3 DEF Indexed
  <2>4. \A n \in 0..Len(s) : f[n] = g[n]
    BY <1>1, <1>3, <2>2, <2>3, SumsOn
  <2>5. Len(r) \in 1..Len(r) /\ Len(r) - 1 = Len(s) /\ Len(s) \in 0..Len(s)
    BY <1>3, <2>3
  <2>6. g[Len(r)] = g[Len(s)] + r[Len(r)]
    BY <2>2, <2>5 DEF Sums
  <2>. QED
    BY <1>1, <2>2, <2>4, <2>5, <2>6
<1>. QED
  BY <1>2, <1>3

SizesOf(apps) == [k \in DOMAIN apps |-> Len(apps[k].materials)]

(* Names and budget left are the budget, at every step.                    *)
LEMMA BudgetKept ==
    ASSUME input \in MeshFiles, NEW handles, Indexed(handles), \A k \in DOMAIN handles : M!Number(handles[k]),
           NEW chunks \in Nat, NEW f, Gathers(f, handles, chunks)
    PROVE  \A n \in 0..Len(handles) : M!Total(SizesOf(f[n].apps)) + f[n].budget = MaterialBudget
<1> DEFINE c == Len(handles)
           G == {n \in 0..c : M!Total(SizesOf(f[n].apps)) + f[n].budget = MaterialBudget}
           Y == {M!Appearance(d, chunks, b) : d \in Int, b \in Nat}
<1>0. c \in Nat /\ MaterialBudget \in Nat /\ \A n \in 1..c : n \in DOMAIN handles
  BY MeshNumbers DEF Indexed
<1>1. ASSUME NEW apps \in Seq(Y)
      PROVE  /\ Indexed(SizesOf(apps)) /\ Len(SizesOf(apps)) = Len(apps)
             /\ \A k \in DOMAIN SizesOf(apps) : SizesOf(apps)[k] \in Nat
  <2>1. \A k \in DOMAIN apps : Len(apps[k].materials) \in Nat
    <3> TAKE k \in DOMAIN apps
    <3>1. PICK d \in Int, b \in Nat : apps[k] = M!Appearance(d, chunks, b)
      OBVIOUS
    <3>. QED
      BY <3>1, OneAppearance
  <2> HIDE DEF Y
  <2>. QED
    BY <2>1 DEF SizesOf, Indexed
<1>2. 0 \in G
  <2>1. f[0] = Start /\ Start.apps = <<>> /\ Start.budget = MaterialBudget
    BY DEF Gathers, Start
  <2>2. <<>> \in Seq(Y) /\ Len(<<>>) = 0
    OBVIOUS
  <2>3. M!Total(SizesOf(<<>>)) = 0
    <3> HIDE DEF Y
    <3>1. Indexed(SizesOf(<<>>)) /\ Len(SizesOf(<<>>)) = 0 /\ \A k \in DOMAIN SizesOf(<<>>) : SizesOf(<<>>)[k] \in Nat
      BY <1>1, <2>2
    <3>. QED
      BY <3>1, TotalGrows
  <2>. QED
    BY <1>0, <2>1, <2>3
<1>3. ASSUME NEW n \in 1..c, n - 1 \in G
      PROVE  n \in G
  <2> DEFINE v == handles[n]
             s == f[n - 1]
             t == f[n]
  <2>1. n - 1 \in 0..c /\ s \in Gathered(chunks) /\ t = M!Gather(s, v, chunks) /\ M!Number(v)
    BY <1>0 DEF Gathers
  <2>2. s \in [apps : Seq(Y), budget : Nat] /\ \A d \in Int, b \in Nat : M!Appearance(d, chunks, b) \in Y
    BY <2>1 DEF Gathered
  <2>3. M!Total(SizesOf(s.apps)) + s.budget = MaterialBudget
    BY <1>3
  <2> HIDE DEF Y, s, t, v
  <2>4. CASE t = s
    BY <2>3, <2>4 DEF s, t
  <2>5. CASE t # s
    <3> DEFINE app == M!Appearance(v.as, chunks, s.budget)
               m == Len(app.materials)
    <3>1. /\ v.as \in Int /\ m \in Nat /\ m <= s.budget
          /\ t = [apps |-> Append(s.apps, app), budget |-> s.budget - m]
      BY <2>1, <2>2, <2>5, GatherOne
    <3>2. app \in Y /\ s.apps \in Seq(Y) /\ s.budget \in Nat
      BY <2>2, <3>1
    <3>3. SizesOf(Append(s.apps, app))[Len(s.apps) + 1] = m
      <4>1. Len(s.apps) + 1 \in DOMAIN Append(s.apps, app) /\ Append(s.apps, app)[Len(s.apps) + 1] = app
        BY <3>2
      <4>. QED
        BY <4>1 DEF SizesOf
    <3>4. \A k \in DOMAIN s.apps : SizesOf(Append(s.apps, app))[k] = SizesOf(s.apps)[k]
      <4> HIDE DEF app
      <4> TAKE k \in DOMAIN s.apps
      <4>1. k \in DOMAIN Append(s.apps, app) /\ Append(s.apps, app)[k] = s.apps[k]
        BY <3>2
      <4>. QED
        BY <4>1 DEF SizesOf
    <3> HIDE DEF app, m
    <3>5. Append(s.apps, app) \in Seq(Y) /\ Len(Append(s.apps, app)) = Len(s.apps) + 1 /\ Len(s.apps) \in Nat
      BY <3>2
    <3> DEFINE p == SizesOf(s.apps)
               r == SizesOf(Append(s.apps, app))
    <3>6. /\ Indexed(p) /\ Len(p) = Len(s.apps) /\ \A k \in DOMAIN p : p[k] \in Nat
          /\ Indexed(r) /\ Len(r) = Len(s.apps) + 1
      BY <1>1, <3>2, <3>5
    <3>7. DOMAIN p = DOMAIN s.apps /\ r[Len(r)] = m /\ \A k \in DOMAIN p : r[k] = p[k]
      BY <3>3, <3>4, <3>6 DEF SizesOf
    <3> HIDE DEF p, r
    <3>8. M!Total(r) = M!Total(p) + m /\ M!Total(p) \in Nat
      BY <3>1, <3>6, <3>7, TotalGrows
    <3>9. M!Total(r) + (s.budget - m) = MaterialBudget
      BY <2>3, <3>1, <3>2, <3>8 DEF p
    <3>10. t.apps = Append(s.apps, app) /\ t.budget = s.budget - m
      BY <3>1
    <3>11. M!Total(SizesOf(t.apps)) + t.budget = MaterialBudget
      BY <3>9, <3>10 DEF r
    <3>. QED
      BY <1>0, <3>11 DEF t
  <2>. QED
    BY <2>4, <2>5
<1>. QED
  <2>1. \A n \in 0..c : n \in G
    <3> HIDE DEF G
    <3>. QED
      BY <1>0, <1>2, <1>3, Counting
  <2>. QED
    BY <2>1

(* The appearances of an opened mesh are gathered from its root's handles. *)
LEMMA MeshMade ==
    ASSUME reader = "mesh", MeshInv, output.mesh.status = "OK"
    PROVE  LET mesh == output.mesh.mesh
               c == Len(mesh.chunks)
           IN  /\ c \in Nat /\ c = Cardinality(Structs(Infos))
               /\ Indexed(HandlesOf) /\ \A k \in DOMAIN HandlesOf : M!Number(HandlesOf[k])
               /\ \E f : Gathers(f, HandlesOf, c) /\ mesh.appearances = f[Len(HandlesOf)].apps
<1> DEFINE q == M!GatherChunks(Infos)
           mesh == output.mesh.mesh
<1>0. input \in MeshFiles
  BY DEF MeshInv
<1>1. /\ Infos \in M!Walked(M!Values(Blob), "header.renderChunkInfos")
      /\ mesh.chunks = IF M!Geometry(Blob) = {} THEN q
                       ELSE [k \in DOMAIN q |-> M!ComputeBounds(q[k], GeometryOf, Scale, Offset)]
      /\ mesh.appearances = M!GatherAppearances(HandlesOf, Len(q))
  BY Opened
<1>2. M!IsList(Infos) /\ \A k \in Structs(Infos) : M!Typed(Infos[k].as)
  BY <1>0, <1>1, InfosTyped DEF Structs
<1>3. Len(q) \in Nat /\ Len(q) = Cardinality(Structs(Infos)) /\ DOMAIN q = 1..Len(q)
  BY <1>2, Gathering
<1> HIDE DEF q
<1>4. Len(mesh.chunks) = Len(q)
  BY <1>1, <1>3
<1>5. Indexed(HandlesOf) /\ \A k \in DOMAIN HandlesOf : M!Number(HandlesOf[k])
  BY <1>0, ListFound DEF Indexed, HandlesOf
<1>6. PICK f : Gathers(f, HandlesOf, Len(q)) /\ M!GatherAppearances(HandlesOf, Len(q)) = f[Len(HandlesOf)].apps
  BY <1>0, <1>3, <1>5, GatherAll
<1>. QED
  BY <1>1, <1>3, <1>4, <1>5, <1>6

(* However often a file names an appearance chunk, redfs_mesh_open copies  *)
(* no more material names than the budget, and none without a chunk.       *)
THEOREM MaterialsAreBounded == FilesSpec => []MaterialsBounded
<1>1. MeshInv => MaterialsBounded
  <2> SUFFICES ASSUME MeshInv, reader = "mesh", output.mesh.status = "OK"
               PROVE  LET sizes == SizesOf(output.mesh.mesh.appearances)
                      IN  /\ M!Total(sizes) <= MaterialBudget
                          /\ \A k \in DOMAIN sizes : sizes[k] <= Len(output.mesh.mesh.chunks)
    BY DEF MaterialsBounded, M!MaterialsBounded, SizesOf
  <2> DEFINE c == Len(output.mesh.mesh.chunks)
             n == Len(HandlesOf)
  <2>0. input \in MeshFiles
    BY DEF MeshInv
  <2>1. c \in Nat /\ Indexed(HandlesOf) /\ \A k \in DOMAIN HandlesOf : M!Number(HandlesOf[k])
    BY MeshMade
  <2>2. PICK f : Gathers(f, HandlesOf, c) /\ output.mesh.mesh.appearances = f[n].apps
    BY MeshMade
  <2> HIDE DEF c
  <2> DEFINE Y == {M!Appearance(d, c, b) : d \in Int, b \in Nat}
             apps == f[n].apps
             sizes == SizesOf(apps)
  <2>3. n \in 0..n
    BY <2>1 DEF Indexed
  <2>4. apps \in Seq(Y) /\ f[n].budget \in Nat
    <3>1. f[n] \in Gathered(c)
      BY <2>2, <2>3 DEF Gathers
    <3>2. Gathered(c) = [apps : Seq(Y), budget : Nat]
      BY DEF Gathered
    <3> HIDE DEF Y
    <3>. QED
      BY <3>1, <3>2
  <2>5. M!Total(sizes) + f[n].budget = MaterialBudget
    BY <2>0, <2>1, <2>2, <2>3, BudgetKept
  <2>6. ASSUME NEW k \in DOMAIN apps
        PROVE  Len(apps[k].materials) \in Nat /\ Len(apps[k].materials) <= c
    <3>1. PICK d \in Int, b \in Nat : apps[k] = M!Appearance(d, c, b)
      BY <2>4
    <3>. QED
      BY <2>0, <2>1, <3>1, OneAppearance
  <2>7. Indexed(sizes) /\ \A k \in DOMAIN sizes : sizes[k] \in Nat /\ sizes[k] <= c
    <3>1. Len(apps) \in Nat /\ DOMAIN apps = 1..Len(apps)
      <4> HIDE DEF Y, apps
      <4>. QED
        BY <2>4
    <3> HIDE DEF apps
    <3>. QED
      BY <2>6, <3>1 DEF SizesOf, Indexed
  <2>8. M!Total(sizes) \in Nat
    <3> HIDE DEF sizes
    <3>. QED
      BY <2>7, TotalGrows
  <2>9. M!Total(sizes) <= MaterialBudget
    <3> DEFINE total == M!Total(sizes)
               rest == f[n].budget
    <3>1. total \in Nat /\ rest \in Nat /\ total + rest = MaterialBudget /\ MaterialBudget \in Nat
      BY <2>4, <2>5, <2>8, MeshNumbers
    <3> HIDE DEF total, rest
    <3>2. total <= MaterialBudget
      BY <3>1
    <3>. QED
      BY <3>2 DEF total
  <2>. QED
    BY <2>2, <2>7, <2>9 DEF c
<1>. QED
  BY <1>1, MeshAlways, PTL

(* While the budget lasts, each handle gives its appearance.               *)
LEMMA EachHandle ==
    ASSUME input \in MeshFiles, NEW handles, Indexed(handles), \A k \in DOMAIN handles : M!Number(handles[k]),
           \A k \in DOMAIN handles : handles[k].kind = "HANDLE" /\ handles[k].as >= 0,
           M!Total([k \in DOMAIN handles |-> NamesOf(handles[k].as)]) < MaterialBudget,
           NEW chunks \in Nat, NEW f, Gathers(f, handles, chunks)
    PROVE  Len(f[Len(handles)].apps) = Len(handles)
<1> DEFINE c == Len(handles)
           names == [k \in DOMAIN handles |-> NamesOf(handles[k].as)]
           Y == {M!Appearance(d, chunks, b) : d \in Int, b \in Nat}
<1>0. c \in Nat /\ MaterialBudget \in Nat /\ DOMAIN handles = 1..c
  BY MeshNumbers DEF Indexed
<1>1. \A k \in 1..c : NamesOf(handles[k].as) \in Nat
  BY ListFound DEF NamesOf
<1>2. Indexed(names) /\ Len(names) = c /\ \A k \in DOMAIN names : names[k] \in Nat
  BY <1>0, <1>1 DEF Indexed
<1>2a. M!Total(names) < MaterialBudget /\ \A k \in 1..c : names[k] = NamesOf(handles[k].as)
  BY <1>0
<1> HIDE DEF names
<1>3. PICK h : Sums(h, names) /\ M!Total(names) = h[Len(names)]
  BY <1>2, Summing
<1>4. \A n \in 0..c : h[n] \in Nat /\ h[n] < MaterialBudget
  <2>1. \A n \in 0..c : h[n] <= h[c] /\ h[n] \in Nat /\ h[c] \in Nat
    <3>1. \A n \in 0..c : h[n] <= h[c]
      BY <1>2, <1>3, SumsGrow
    <3>. QED
      BY <1>0, <1>2, <1>3, <3>1 DEF Sums
  <2>2. h[c] < MaterialBudget
    BY <1>2, <1>2a, <1>3
  <2>. QED
    BY <1>0, <2>1, <2>2
<1> DEFINE G == {n \in 0..c : Len(f[n].apps) = n /\ f[n].budget >= MaterialBudget - h[n]}
<1>5. 0 \in G
  <2>1. f[0] = Start /\ h[0] = 0
    BY <1>3 DEF Gathers, Sums
  <2>. QED
    BY <1>0, <2>1 DEF Start
<1>6. ASSUME NEW n \in 1..c, n - 1 \in G
      PROVE  n \in G
  <2> DEFINE v == handles[n]
             s == f[n - 1]
             t == f[n]
  <2>1. /\ n - 1 \in 0..c /\ s \in Gathered(chunks) /\ t = M!Gather(s, v, chunks) /\ M!Number(v)
        /\ v.kind = "HANDLE" /\ v.as >= 0 /\ v.as \in Int
    BY <1>0 DEF Gathers, M!Number
  <2>2. s \in [apps : Seq(Y), budget : Nat] /\ \A d \in Int, b \in Nat : M!Appearance(d, chunks, b) \in Y
    BY <2>1 DEF Gathered
  <2>3. Len(s.apps) = n - 1 /\ s.budget >= MaterialBudget - h[n - 1]
    BY <1>6
  <2>4. h[n] = h[n - 1] + NamesOf(v.as) /\ h[n - 1] \in Nat /\ h[n] \in Nat /\ h[n] < MaterialBudget
        /\ h[n - 1] < MaterialBudget /\ NamesOf(v.as) \in Nat
    <3>1. n \in 0..c /\ n \in 1..Len(names)
      BY <1>0, <1>2
    <3>. QED
      BY <1>1, <1>2a, <1>3, <1>4, <2>1, <3>1 DEF Sums
  <2> HIDE DEF Y, s, t, v
  <2>5. s.budget \in Nat /\ s.budget # 0
    BY <1>0, <2>2, <2>3, <2>4
  <2> DEFINE app == M!Appearance(v.as, chunks, s.budget)
             m == Len(app.materials)
  <2>6. m \in Nat /\ t = [apps |-> Append(s.apps, app), budget |-> s.budget - m]
    <3>1. ~(v.as < 0)
      BY <2>1
    <3>2. m \in Nat
      BY <2>1, <2>5, OneAppearance
    <3>3. \/ M!Gather(s, v, chunks) = s /\ (v.kind # "HANDLE" \/ v.as < 0 \/ s.budget = 0)
          \/ M!Gather(s, v, chunks) = [apps |-> Append(s.apps, app), budget |-> s.budget - m]
      BY <2>1, <2>2, GatherOne
    <3>. QED
      BY <2>1, <2>5, <3>1, <3>2, <3>3
  <2>7. m <= NamesOf(v.as)
    BY <2>1, <2>5, OneAppearance
  <2> HIDE DEF app, m
  <2>8. Len(t.apps) = n
    <3>1. s.apps \in Seq(Y) /\ t.apps = Append(s.apps, app)
      BY <2>2, <2>6
    <3>. QED
      BY <2>3, <3>1
  <2>9. t.budget >= MaterialBudget - h[n]
    <3> DEFINE after == t.budget
               before == s.budget
               names_n == NamesOf(v.as)
               h_n == h[n]
               h_p == h[n - 1]
    <3>1. after = before - m /\ m \in Nat /\ m <= names_n
      BY <2>6, <2>7
    <3>2. before \in Nat /\ before >= MaterialBudget - h_p /\ MaterialBudget \in Nat
      BY <1>0, <2>3, <2>5
    <3>3. h_n = h_p + names_n /\ h_p \in Nat /\ names_n \in Nat
      BY <2>4
    <3> HIDE DEF after, before, names_n, h_n, h_p
    <3>4. after >= MaterialBudget - h_n
      BY <3>1, <3>2, <3>3
    <3>. QED
      BY <3>4 DEF after, h_n
  <2>. QED
    BY <1>0, <2>8, <2>9 DEF t
<1>. QED
  <2>1. \A n \in 0..c : n \in G
    <3> HIDE DEF G
    <3>. QED
      BY <1>0, <1>5, <1>6, Counting
  <2>2. c \in G
    BY <1>0, <2>1
  <2>. QED
    BY <2>2

(* Of a regular mesh, redfs_mesh_desc counts as many chunks and            *)
(* appearances as redfs_mesh_open gives, and the bounding box is the same. *)
THEOREM DescAgreesWithMesh == FilesSpec => []CountsAgree
<1>1. MeshInv => CountsAgree
  <2> SUFFICES ASSUME MeshInv, reader = "mesh", M!Regular, output.mesh.status = "OK", output.desc.status = "OK"
               PROVE  /\ output.desc.submeshes = Len(output.mesh.mesh.chunks)
                      /\ output.desc.appearances = Len(output.mesh.mesh.appearances)
                      /\ output.desc.bbox = output.mesh.mesh.bbox
    BY DEF CountsAgree, M!CountsAgree
  <2> DEFINE c == Len(output.mesh.mesh.chunks)
             root == M!FiniteOrZero(M!FloatOr(M!Values(0), "boundingBox", 0))
             blob == M!Values(CHOOSE b \in M!BlobOfClass : TRUE)
             infos == IF "header.renderChunkInfos" \in DOMAIN blob THEN "header.renderChunkInfos"
                      ELSE "header.renderChunks"
  <2>0. input \in MeshFiles
    BY DEF MeshInv
  <2>1. /\ M!BlobOfClass # {}
        /\ output.desc.submeshes = M!Count(blob, infos)
        /\ output.desc.appearances = M!Count(M!Values(0), "appearances")
        /\ output.desc.bbox = root
    <3>1. output.desc \in {M!NotCalled, M!Described} /\ M!NotCalled.status # "OK"
      BY DEF MeshInv, M!NotCalled
    <3>2. output.desc = M!Described
      BY <3>1
    <3>. QED
      BY <3>2 DEF M!Described
  <2>2. Infos \in M!Walked(M!Values(Blob), "header.renderChunkInfos") /\ Blob \in M!BlobChunk
        /\ output.mesh.mesh.bbox = root
    BY Opened
  <2>3. c = Cardinality(Structs(Infos))
    BY MeshMade
  <2> HIDE DEF c, root
  <2>4. /\ M!BlobHandle = M!BlobOfClass
        /\ \A b \in M!BlobHandle : \A i \in M!Walked(M!Values(b), "header.renderChunkInfos") :
              \A k \in DOMAIN i : i[k].kind = "STRUCT"
        /\ \A k \in DOMAIN HandlesOf : HandlesOf[k].kind = "HANDLE" /\ HandlesOf[k].as >= 0
        /\ M!Total([k \in DOMAIN HandlesOf |-> NamesOf(HandlesOf[k].as)]) < MaterialBudget
    BY DEF M!Regular, HandlesOf, NamesOf
  <2>5. M!BlobChunk = M!BlobOfClass /\ Blob \in M!BlobHandle /\ M!Values(Blob) = blob
    BY <2>1, <2>2, <2>4 DEF M!BlobChunk, Blob
  <2>6. infos = "header.renderChunkInfos"
    BY <2>2, <2>5 DEF M!Walked, M!Field
  <2>7. M!Only(M!Walked(M!Values(Blob), "header.renderChunkInfos"), <<>>) = Infos
    BY <2>2 DEF M!Only, Infos
  <2>8. output.desc.submeshes = Len(Infos) /\ Len(Infos) \in Nat /\ DOMAIN Infos = 1..Len(Infos)
    BY <2>0, <2>1, <2>5, <2>6, <2>7, ListFound
  <2>9. Structs(Infos) = 1..Len(Infos)
    BY <2>2, <2>4, <2>5, <2>8 DEF Structs
  <2>10. c = Len(Infos)
    <3> DEFINE l == Len(Infos)
    <3>1. l \in Int /\ 1 \in Int /\ l >= 0
      BY <2>8
    <3>2. Cardinality(1..l) = l
      <4> HIDE DEF l
      <4>1. Cardinality(1..l) = IF 1 > l THEN 0 ELSE l - 1 + 1
        BY <3>1, FS_Interval
      <4>. QED
        BY <3>1, <4>1
    <3>. QED
      BY <2>3, <2>9, <3>2
  <2>11. output.desc.appearances = Len(HandlesOf)
    BY <2>0, <2>1, ListFound DEF HandlesOf
  <2>12. Len(output.mesh.mesh.appearances) = Len(HandlesOf)
    <3>1. PICK f : Gathers(f, HandlesOf, c) /\ output.mesh.mesh.appearances = f[Len(HandlesOf)].apps
      BY MeshMade DEF c
    <3>2. c \in Nat /\ Indexed(HandlesOf) /\ \A k \in DOMAIN HandlesOf : M!Number(HandlesOf[k])
      BY MeshMade DEF c
    <3>. QED
      BY <2>0, <2>4, <3>1, <3>2, EachHandle
  <2>. QED
    BY <2>1, <2>2, <2>8, <2>10, <2>11, <2>12 DEF c
<1>. QED
  BY <1>1, MeshAlways, PTL

-----------------------------------------------------------------------------
(* The documents: reading bytes.                                           *)

(* Products of numbers are numbers, and grow with them.                    *)
LEMMA Products ==
    ASSUME NEW a \in Nat, NEW b \in Nat
    PROVE  a * b \in Nat /\ a * b = b * a /\ (\A c \in Nat : a <= c => a * b <= c * b)
<1>1. a * b \in Nat /\ a * b = b * a
  OBVIOUS
<1>2. ASSUME NEW c \in Nat, a <= c
      PROVE  a * b <= c * b
  <2>1. c - a \in Nat /\ (c - a) * b >= 0 /\ (c - a) * b = c * b - a * b
    BY <1>2
  <2>. QED
    BY <2>1
<1>. QED
  BY <1>1, <1>2

(* A number of more digits.                                                *)
LEMMA Digits ==
    ASSUME NEW a \in Nat, NEW b \in Nat, NEW x \in 0..(a - 1), NEW y \in 0..(b - 1)
    PROVE  x + a * y \in 0..(a * b - 1)
<1>1. y * a \in Nat /\ y * a <= (b - 1) * a
  BY Products
<1>2. (b - 1) * a = a * b - a /\ a * y = y * a /\ a * b \in Nat
  OBVIOUS
<1>. QED
  BY <1>1, <1>2

(* A call about the bytes of a document.                                   *)
Readable == input \in Inputs /\ input.op # "open"

(* A byte, two and four of them, whatever the place.                       *)
LEMMA ByteRange ==
    ASSUME Readable
    PROVE  /\ \A p : Byte(p) \in 0..(Base - 1)
           /\ \A p : Rd16(p) \in 0..(Base * Base - 1)
           /\ \A p : Rd32(p) \in 0..(U32 - 1)
           /\ Base \in Nat /\ Base >= 8 /\ Base * Base \in Nat /\ Base * Base >= 64 /\ U32 \in Nat /\ U32 >= 4096
           /\ U32 >= 64 * (Base * Base)
<1>1. Base \in Nat /\ Base >= 8
  BY Cr2wAssumption
<1>2. input.bytes \in Seq(0..(Base - 1))
  BY InputsAssumption DEF Readable
<1>3. \A p : Byte(p) \in 0..(Base - 1)
  BY <1>1, <1>2 DEF Byte
<1>4. ASSUME NEW p
      PROVE  Rd16(p) \in 0..(Base * Base - 1)
  <2>1. Byte(p) \in 0..(Base - 1) /\ Byte(p + 1) \in 0..(Base - 1)
    BY <1>3
  <2>. QED
    BY <1>1, <2>1, Digits DEF Rd16
<1> DEFINE sq == Base * Base
<1>5. sq \in Nat /\ sq >= 64
  <2>1. Base * 8 \in Nat /\ 8 * Base <= Base * Base /\ 8 * 8 <= 8 * Base
    BY <1>1, Products
  <2>. QED
    BY <1>1, <2>1
<1>6. U32 = sq * sq
  <2>1. U32 = ((Base * Base) * Base) * Base
    BY DEF U32
  <2>2. ((Base * Base) * Base) * Base = (Base * Base) * (Base * Base)
    BY <1>1
  <2>. QED
    BY <2>1, <2>2
<1>7. ASSUME NEW p
      PROVE  Rd32(p) \in 0..(U32 - 1)
  <2>1. Rd16(p) \in 0..(sq - 1) /\ Rd16(p + 2) \in 0..(sq - 1)
    BY <1>4
  <2>2. Rd32(p) = Rd16(p) + sq * Rd16(p + 2)
    BY DEF Rd32
  <2> HIDE DEF sq
  <2>. QED
    BY <1>5, <1>6, <2>1, <2>2, Digits
<1>8. U32 \in Nat /\ U32 >= 4096 /\ U32 >= 64 * sq
  <2> HIDE DEF sq
  <2>1. sq * sq \in Nat /\ 64 * sq <= sq * sq
    BY <1>5, Products
  <2>. QED
    BY <1>5, <1>6, <2>1
<1>. QED
  BY <1>1, <1>3, <1>4, <1>5, <1>7, <1>8

(* w holds the weights of the octets of a prefix.                          *)
Weighs(w) ==
    /\ w[0] = 1 /\ w[1] = Base \div 4
    /\ \A i \in 2..8 : w[i] = w[i - 1] * (Base \div 2)

(* From the eighth octet on, a weight does not fit in four bytes.          *)
LEMMA Weights ==
    ASSUME Readable, NEW w, Weighs(w)
    PROVE  (\A i \in 0..8 : w[i] \in Nat) /\ w[7] >= U32
<1> DEFINE q == Base \div 4
           h == Base \div 2
<1>1. q \in Nat /\ h \in Nat /\ h = 2 * q /\ q >= 2 /\ Base = 4 * q
  BY Cr2wAssumption
<1>2. /\ w[0] = 1 /\ w[1] = q
      /\ w[2] = w[1] * h /\ w[3] = w[2] * h /\ w[4] = w[3] * h /\ w[5] = w[4] * h
      /\ w[6] = w[5] * h /\ w[7] = w[6] * h /\ w[8] = w[7] * h
  BY DEF Weighs
<1> HIDE DEF q, h
<1>3. w[2] \in Nat
  BY <1>1, <1>2, Products
<1>4. w[3] \in Nat
  BY <1>1, <1>2, <1>3, Products
<1>5. w[4] \in Nat
  BY <1>1, <1>2, <1>4, Products
<1>6. ASSUME NEW a \in Nat
      PROVE  a * h \in Nat /\ a * h >= 4 * a
  <2>1. 4 <= h /\ 4 * a <= h * a /\ h * a = a * h /\ a * h \in Nat
    BY <1>1, Products
  <2>. QED
    BY <2>1
<1>7. w[5] \in Nat /\ w[5] >= 4 * w[4]
  BY <1>2, <1>5, <1>6
<1>8. w[6] \in Nat /\ w[6] >= 4 * w[5]
  BY <1>2, <1>6, <1>7
<1>9. w[7] \in Nat /\ w[7] >= 4 * w[6] /\ w[8] \in Nat
  BY <1>2, <1>6, <1>8
<1>10. U32 = 32 * w[4]
  <2>1. w[4] = ((q * h) * h) * h
    BY <1>2
  <2>2. ((q * (2 * q)) * (2 * q)) * (2 * q) = 8 * (((q * q) * q) * q)
    BY <1>1
  <2>3. (((4 * q) * (4 * q)) * (4 * q)) * (4 * q) = 256 * (((q * q) * q) * q)
    BY <1>1
  <2>4. U32 = (((4 * q) * (4 * q)) * (4 * q)) * (4 * q)
    BY <1>1 DEF U32
  <2>. QED
    BY <1>1, <2>1, <2>2, <2>3, <2>4
<1>11. w[7] >= U32
  BY <1>5, <1>7, <1>8, <1>9, <1>10
<1>12. \A i \in 0..8 : i = 0 \/ i = 1 \/ i = 2 \/ i = 3 \/ i = 4 \/ i = 5 \/ i = 6 \/ i = 7 \/ i = 8
  OBVIOUS
<1>. QED
  BY <1>1, <1>2, <1>3, <1>4, <1>5, <1>7, <1>8, <1>9, <1>11, <1>12

(* A prefix that begins before the limit ends at the limit or before.      *)
LEMMA Prefix ==
    ASSUME Readable, NEW p \in Nat, NEW limit \in Nat
    PROVE  /\ ReadVlq(p, limit).chars \in Nat /\ ReadVlq(p, limit).wide \in BOOLEAN
           /\ ReadVlq(p, limit).next \in Nat
           /\ p >= limit => ReadVlq(p, limit).next = p /\ ReadVlq(p, limit).chars = 0
           /\ p < limit => p < ReadVlq(p, limit).next /\ ReadVlq(p, limit).next <= limit
<1> DEFINE q == Base \div 4
           h == Base \div 2
           weight[i \in 0..8] == IF i = 0 THEN 1 ELSE IF i = 1 THEN Base \div 4 ELSE weight[i - 1] * (Base \div 2)
           More(i) == IF i = 0 THEN (Byte(p) \div (Base \div 4)) % 2 = 1 ELSE Byte(p + i) >= Base \div 2
           Reads(n) == \A i \in 1..(n - 1) : More(i - 1) /\ p + i < limit /\ weight[i] < U32
           octets == CHOOSE n \in 1..8 : Reads(n) /\ ~Reads(n + 1)
           Bits(i) == Byte(p + i) % (IF i = 0 THEN Base \div 4 ELSE Base \div 2)
           sum[n \in 0..8] == IF n = 0 THEN 0 ELSE (sum[n - 1] + Bits(n - 1) * weight[n - 1]) % U32
<1>1. ReadVlq(p, limit) =
          IF p >= limit THEN [chars |-> 0, wide |-> FALSE, next |-> p]
          ELSE [chars |-> sum[octets], wide |-> sum[octets] > 0 /\ Byte(p) < Base \div 2, next |-> p + octets]
  BY DEF ReadVlq
<1>2. q \in Nat /\ h \in Nat /\ q >= 1 /\ h >= 1 /\ U32 \in Nat /\ U32 >= 1
  <2>1. Base \in Nat /\ Base >= 8
    BY Cr2wAssumption
  <2>. QED
    BY <2>1, ByteRange
<1>3. \A k : Byte(k) \in Nat
  <2>1. \A k : Byte(k) \in 0..(Base - 1)
    BY ByteRange
  <2>. QED
    BY <2>1
<1>4. \A i : Bits(i) \in Nat
  BY <1>2, <1>3
<1>5. Weighs(weight) /\ \A i \in 0..8 : weight[i] \in Nat
  <2> DEFINE step == [x \in Nat \X (1..8) |-> IF x[2] = 1 THEN q ELSE x[1] * h]
  <2>1. step \in [Nat \X (1..8) -> Nat] /\ \A x \in Nat, n \in 1..8 : step[<<x, n>>] = IF n = 1 THEN q ELSE x * h
    <3>1. \A x \in Nat : x * h \in Nat
      BY <1>2, Products
    <3>. QED
      BY <1>2, <3>1
  <2> HIDE DEF step, q, h
  <2>2. PICK f \in [0..8 -> Nat] : Unrolls(f, 1, step, 8)
    BY <2>1, Looping
  <2>3. f = [i \in 0..8 |-> IF i = 0 THEN 1 ELSE IF i = 1 THEN q ELSE f[i - 1] * h]
    <3>1. ASSUME NEW i \in 0..8
          PROVE  f[i] = IF i = 0 THEN 1 ELSE IF i = 1 THEN q ELSE f[i - 1] * h
      <4>1. CASE i = 0
        BY <2>2, <4>1 DEF Unrolls
      <4>2. CASE i # 0
        <5>1. i \in 1..8 /\ i - 1 \in 0..8
          BY <4>2
        <5>. QED
          BY <2>1, <2>2, <4>2, <5>1 DEF Unrolls
      <4>. QED
        BY <4>1, <4>2
    <3>. QED
      BY <3>1
  <2>4. weight = [i \in 0..8 |-> IF i = 0 THEN 1 ELSE IF i = 1 THEN Base \div 4 ELSE weight[i - 1] * (Base \div 2)]
    BY <2>3 DEF q, h
  <2> HIDE DEF weight
  <2>5. Weighs(weight)
    BY <2>4 DEF Weighs
  <2>. QED
    BY <2>5, Weights
<1>6. weight[7] >= U32
  BY <1>5, Weights
<1>7. \A n \in 0..8 : sum[n] \in Nat
  <2> DEFINE term(n) == Bits(n - 1) * weight[n - 1]
             step == [x \in Nat \X (1..8) |-> (x[1] + term(x[2])) % U32]
  <2>1. \A n \in 1..8 : term(n) \in Nat
    <3>1. ASSUME NEW n \in 1..8
          PROVE  term(n) \in Nat
      <4>1. n - 1 \in 0..8
        OBVIOUS
      <4>2. weight[n - 1] \in Nat /\ Bits(n - 1) \in Nat
        BY <1>4, <1>5, <4>1
      <4> HIDE DEF weight, Bits
      <4>. QED
        BY <4>2, Products
    <3>. QED
      BY <3>1
  <2> HIDE DEF term
  <2>2. step \in [Nat \X (1..8) -> Nat] /\ \A x \in Nat, n \in 1..8 : step[<<x, n>>] = (x + term(n)) % U32
    BY <1>2, <2>1
  <2> HIDE DEF step
  <2>3. PICK f \in [0..8 -> Nat] : Unrolls(f, 0, step, 8)
    BY <2>2, Looping
  <2>4. f = [n \in 0..8 |-> IF n = 0 THEN 0 ELSE (f[n - 1] + term(n)) % U32]
    <3>1. ASSUME NEW n \in 0..8
          PROVE  f[n] = IF n = 0 THEN 0 ELSE (f[n - 1] + term(n)) % U32
      <4>1. CASE n = 0
        BY <2>3, <4>1 DEF Unrolls
      <4>2. CASE n # 0
        <5>1. n \in 1..8 /\ n - 1 \in 0..8
          BY <4>2
        <5>. QED
          BY <2>2, <2>3, <4>2, <5>1 DEF Unrolls
      <4>. QED
        BY <4>1, <4>2
    <3>. QED
      BY <3>1
  <2> HIDE DEF weight, Bits
  <2>5. sum = [n \in 0..8 |-> IF n = 0 THEN 0 ELSE (sum[n - 1] + Bits(n - 1) * weight[n - 1]) % U32]
    BY <2>4 DEF term
  <2> DEFINE G == {n \in 0..8 : sum[n] \in Nat}
  <2> HIDE DEF sum
  <2>6. 0 \in G
    BY <2>5
  <2>7. ASSUME NEW n \in 1..8, n - 1 \in G
        PROVE  n \in G
    <3>1. sum[n - 1] \in Nat /\ term(n) \in Nat
      BY <2>1, <2>7
    <3>2. sum[n] = (sum[n - 1] + term(n)) % U32
      BY <2>5 DEF term
    <3>. QED
      BY <1>2, <3>1, <3>2
  <2>8. \A n \in 0..8 : n \in G
    <3> HIDE DEF G
    <3>. QED
      BY <2>6, <2>7, Counting
  <2>. QED
    BY <2>8
<1> HIDE DEF weight, sum, More
<1>8. p < limit => octets \in 1..8 /\ p + octets <= limit
  <2> SUFFICES ASSUME p < limit
               PROVE  octets \in 1..8 /\ p + octets <= limit
    OBVIOUS
  <2>1. \E n \in 1..8 : Reads(n) /\ ~Reads(n + 1)
    <3> SUFFICES ASSUME \A n \in 1..8 : Reads(n) => Reads(n + 1)
                 PROVE  FALSE
      OBVIOUS
    <3> DEFINE G == {n \in 0..7 : Reads(n + 1)}
    <3>1. 0 \in G
      OBVIOUS
    <3>2. ASSUME NEW n \in 1..7, n - 1 \in G
          PROVE  n \in G
      <4>1. Reads((n - 1) + 1)
        BY <3>2
      <4>2. (n - 1) + 1 = n /\ n \in 1..8
        OBVIOUS
      <4> HIDE DEF Reads
      <4>3. Reads(n)
        BY <4>1, <4>2
      <4>. QED
        BY <4>2, <4>3
    <3>3. \A n \in 0..7 : n \in G
      <4> HIDE DEF G
      <4>. QED
        BY <3>1, <3>2, Counting
    <3>4. Reads(7 + 1)
      BY <3>3
    <3>5. weight[7] < U32
      BY <3>4
    <3>. QED
      BY <1>2, <1>5, <1>6, <3>5
  <2>2. octets \in 1..8 /\ Reads(octets)
    <3> HIDE DEF Reads
    <3>. QED
      BY <2>1
  <2> HIDE DEF octets
  <2>3. CASE octets = 1
    BY <2>3
  <2>4. CASE octets # 1
    <3>1. octets - 1 \in 1..(octets - 1)
      BY <2>2, <2>4
    <3>2. p + (octets - 1) < limit
      BY <2>2, <3>1
    <3>. QED
      BY <2>2, <3>2
  <2>. QED
    BY <2>2, <2>3, <2>4
<1> HIDE DEF octets
<1>9. CASE p >= limit
  BY <1>1, <1>9
<1>10. CASE p < limit
  <2>1. octets \in 0..8 /\ octets \in 1..8 /\ p + octets <= limit
    BY <1>8, <1>10
  <2>2. sum[octets] \in Nat
    BY <1>7, <2>1
  <2>3. ReadVlq(p, limit) = [chars |-> sum[octets], wide |-> sum[octets] > 0 /\ Byte(p) < Base \div 2, next |-> p + octets]
    BY <1>1, <1>10
  <2>. QED
    BY <1>10, <2>1, <2>2, <2>3
<1>. QED
  BY <1>9, <1>10

(* A text of a prefix and its bytes ends at the limit or before, after the *)
(* place it began at.                                                      *)
LEMMA TextEnds ==
    ASSUME Readable, NEW p \in Nat, NEW limit \in Nat
    PROVE  CStringEnd(p, limit) = Null \/ (CStringEnd(p, limit) \in p..limit /\ p <= limit)
<1> DEFINE v == ReadVlq(p, limit)
           bytes == (IF v.wide THEN 2 ELSE 1) * v.chars
<1>1. v.chars \in Nat /\ v.next \in Nat /\ (p >= limit => v.next = p) /\ (p < limit => p < v.next /\ v.next <= limit)
  BY Prefix
<1>2. CStringEnd(p, limit) = IF limit - v.next < bytes THEN Null ELSE v.next + bytes
  BY DEF CStringEnd
<1>3. bytes \in Nat
  BY <1>1
<1> HIDE DEF v, bytes
<1>. QED
  BY <1>1, <1>2, <1>3

(* The scan of a struct: where it is, and the end it has found.            *)
Scanning == [at : Nat, end : Int]

(* A turn ends the scan, inside or as malformed, or moves on by 8 bytes.   *)
LEMMA OneTurnOfScan ==
    ASSUME Readable, NEW s \in Scanning, NEW limit \in Nat
    PROVE  /\ Turn(s, limit) \in Scanning
           /\ s.end # Running => Turn(s, limit) = s
           /\ s.end = Running =>
                 \/ Turn(s, limit).end = Null
                 \/ Turn(s, limit).end \in (s.at + 1)..limit
                 \/ Turn(s, limit).end = Running /\ Turn(s, limit).at \in (s.at + 8)..limit
<1> DEFINE size == Rd32(s.at + 4)
           next == Advance(s.at, size - 4, limit)
<1>1. size \in Nat /\ s.at \in Nat /\ s.end \in Int
  <2>1. size \in 0..(U32 - 1) /\ U32 \in Nat
    BY ByteRange
  <2>. QED
    BY <2>1 DEF Scanning
<1>2. Turn(s, limit) =
        IF s.end # Running THEN s
        ELSE IF s.at + 2 > limit THEN [s EXCEPT !.end = Null]
        ELSE IF Rd16(s.at) = 0 THEN [s EXCEPT !.end = s.at + 2]
        ELSE IF s.at + 8 > limit \/ size < 4 THEN [s EXCEPT !.end = Null]
        ELSE IF next = Null THEN [s EXCEPT !.end = Null] ELSE [s EXCEPT !.at = next]
  BY DEF Turn
<1>3. next = IF limit - (s.at + 8) < size - 4 THEN Null ELSE s.at + 8 + (size - 4)
  BY DEF Advance
<1> HIDE DEF size, next
<1>4. s.at + 8 <= limit /\ size >= 4 /\ next # Null => next \in (s.at + 8)..limit
  BY <1>1, <1>3
<1>5. \A e \in Int : [s EXCEPT !.end = e] \in Scanning /\ [s EXCEPT !.end = e].end = e
  BY DEF Scanning
<1>6. \A a \in Nat : [s EXCEPT !.at = a] \in Scanning /\ [s EXCEPT !.at = a].at = a /\ [s EXCEPT !.at = a].end = s.end
  BY DEF Scanning
<1>7. CASE s.end # Running
  BY <1>2, <1>7
<1>8. CASE s.end = Running /\ s.at + 2 > limit
  BY <1>2, <1>5, <1>8 DEF Null
<1>9. CASE s.end = Running /\ ~(s.at + 2 > limit) /\ Rd16(s.at) = 0
  <2>1. Turn(s, limit) = [s EXCEPT !.end = s.at + 2] /\ s.at + 2 \in Int /\ s.at + 2 \in (s.at + 1)..limit
    BY <1>1, <1>2, <1>9
  <2>. QED
    BY <1>5, <1>9, <2>1
<1>10. CASE s.end = Running /\ ~(s.at + 2 > limit) /\ Rd16(s.at) # 0
  <2>1. CASE s.at + 8 > limit \/ size < 4 \/ next = Null
    <3>1. Turn(s, limit) = [s EXCEPT !.end = Null]
      BY <1>2, <1>10, <2>1
    <3>2. Null \in Int
      BY DEF Null
    <3>. QED
      BY <1>5, <1>10, <3>1, <3>2
  <2>2. CASE ~(s.at + 8 > limit \/ size < 4 \/ next = Null)
    <3>1. next \in (s.at + 8)..limit /\ next \in Nat
      BY <1>1, <1>4, <2>2
    <3>2. Turn(s, limit) = [s EXCEPT !.at = next]
      BY <1>2, <1>10, <2>2
    <3>. QED
      BY <1>6, <1>10, <3>1, <3>2
  <2>. QED
    BY <2>1, <2>2
<1>. QED
  BY <1>7, <1>8, <1>9, <1>10

(* There are more turns of 8 bytes than a document has room for.           *)
LEMMA TurnsSuffice ==
    ASSUME Readable
    PROVE  Turns \in Nat /\ 8 * Turns >= Len(input.bytes) + 1
<1>1. Len(input.bytes) \in Nat
  BY InputsAssumption DEF Readable
<1>2. \A n \in Nat : n \div 8 + 1 \in Nat /\ 8 * (n \div 8 + 1) >= n + 1
  OBVIOUS
<1> DEFINE n == Len(input.bytes)
<1>3. Turns = n \div 8 + 1 /\ n \in Nat
  BY <1>1 DEF Turns
<1> HIDE DEF n
<1>4. n \div 8 + 1 \in Nat /\ 8 * (n \div 8 + 1) >= n + 1
  BY <1>2, <1>3
<1>. QED
  BY <1>3, <1>4 DEF n

(* The scan of a struct that begins in the document ends, and inside.      *)
LEMMA StructEnds ==
    ASSUME Readable, NEW body \in Nat \ {0}, NEW limit \in Nat, limit <= Len(input.bytes) + 1
    PROVE  StructEnd(body, limit) = Null \/ (StructEnd(body, limit) \in (body + 1)..limit /\ body < limit)
<1> DEFINE c == Turns
           X == Scanning
           start == [at |-> body + 1, end |-> Running]
           step == [x \in X \X (1..c) |-> Turn(x[1], limit)]
           scan[n \in 0..c] == IF n = 0 THEN [at |-> body + 1, end |-> Running] ELSE Turn(scan[n - 1], limit)
<1>1. c \in Nat /\ 8 * c >= Len(input.bytes) + 1
  BY TurnsSuffice
<1>2. start \in X
  BY DEF Scanning, Running
<1>3. step \in [X \X (1..c) -> X] /\ \A x \in X, n \in 1..c : step[<<x, n>>] = Turn(x, limit)
  BY OneTurnOfScan
<1> HIDE DEF step, X
<1>4. PICK f \in [0..c -> X] : Unrolls(f, start, step, c)
  BY <1>1, <1>2, <1>3, Looping
<1>5. f = [n \in 0..c |-> IF n = 0 THEN start ELSE Turn(f[n - 1], limit)]
  <2>1. ASSUME NEW n \in 0..c
        PROVE  f[n] = IF n = 0 THEN start ELSE Turn(f[n - 1], limit)
    <3>1. CASE n = 0
      BY <1>4, <3>1 DEF Unrolls
    <3>2. CASE n # 0
      <4>1. n \in 1..c /\ n - 1 \in 0..c
        BY <1>1, <3>2
      <4>. QED
        BY <1>3, <1>4, <3>2, <4>1 DEF Unrolls
    <3>. QED
      BY <3>1, <3>2
  <2>. QED
    BY <2>1
<1>6. scan = [n \in 0..c |-> IF n = 0 THEN [at |-> body + 1, end |-> Running] ELSE Turn(scan[n - 1], limit)]
  BY <1>5 DEF start
<1>7. StructEnd(body, limit) = IF body >= limit THEN Null ELSE scan[c].end
  BY DEF StructEnd
<1> HIDE DEF scan, c, start
<1>8. CASE body >= limit
  BY <1>7, <1>8
<1>9. CASE body < limit
  <2> DEFINE G == {n \in 0..c : /\ scan[n] \in X
                                /\ \/ scan[n].end = Null
                                   \/ scan[n].end \in (body + 1)..limit
                                   \/ scan[n].end = Running /\ scan[n].at \in (body + 1 + 8 * n)..limit}
  <2>1. 0 \in G
    BY <1>1, <1>2, <1>6, <1>9 DEF start
  <2>2. ASSUME NEW n \in 1..c, n - 1 \in G
        PROVE  n \in G
    <3> DEFINE s == scan[n - 1]
               t == scan[n]
    <3>1. t = Turn(s, limit) /\ n \in 0..c
      BY <1>1, <1>6
    <3>2. s \in Scanning /\ s.at \in Nat
      BY <2>2 DEF X, Scanning
    <3>3. \/ s.end = Null \/ s.end \in (body + 1)..limit
          \/ s.end = Running /\ s.at \in (body + 1 + 8 * (n - 1))..limit
      BY <2>2
    <3>4. t \in X /\ (s.end # Running => t = s)
      BY <3>1, <3>2, OneTurnOfScan DEF X
    <3>5. s.end = Running => \/ t.end = Null
                             \/ t.end \in (s.at + 1)..limit
                             \/ t.end = Running /\ t.at \in (s.at + 8)..limit
      <4> HIDE DEF s
      <4>1. s.end = Running => \/ Turn(s, limit).end = Null
                               \/ Turn(s, limit).end \in (s.at + 1)..limit
                               \/ Turn(s, limit).end = Running /\ Turn(s, limit).at \in (s.at + 8)..limit
        BY <3>2, OneTurnOfScan
      <4> HIDE DEF t
      <4>. QED
        BY <3>1, <4>1
    <3> SUFFICES \/ t.end = Null \/ t.end \in (body + 1)..limit
                 \/ t.end = Running /\ t.at \in (body + 1 + 8 * n)..limit
      BY <3>1, <3>4
    <3> HIDE DEF s, t
    <3>6. CASE s.end = Running
      <4>1. s.at \in (body + 1 + 8 * (n - 1))..limit
        BY <3>3, <3>6 DEF Running, Null
      <4>2. n \in Nat
        BY <1>1
      <4>. QED
        BY <3>2, <3>5, <3>6, <4>1, <4>2
    <3>7. CASE s.end # Running
      BY <3>3, <3>4, <3>7
    <3>. QED
      BY <3>6, <3>7
  <2>3. \A n \in 0..c : n \in G
    <3> HIDE DEF G
    <3>. QED
      BY <1>1, <2>1, <2>2, Counting
  <2>4. c \in G
    BY <1>1, <2>3
  <2>5. limit <= 8 * c
    BY <1>1
  <2>6. scan[c].end = Null \/ scan[c].end \in (body + 1)..limit
    BY <1>1, <2>4, <2>5
  <2>. QED
    BY <1>7, <1>9, <2>6
<1>. QED
  BY <1>8, <1>9

(* The end of some elements, each ended as `end' says, after the first.    *)
LEMMA ElementsEnds ==
    ASSUME NEW limit \in Nat, NEW end \in [1..limit -> 0..limit], NEW first \in 1..limit, NEW count \in Nat
    PROVE  ElementsEnd(end, first, count, limit) = Null \/ ElementsEnd(end, first, count, limit) \in first..limit
<1> DEFINE c == Smaller(count, limit - first + 1)
           X == {0} \cup (first..limit)
           Past(p) == IF p = Null \/ end[p] <= p THEN Null ELSE end[p]
           step == [x \in X \X (1..c) |-> Past(x[1])]
           past[k \in 0..c] == IF k = 0 THEN first
                               ELSE LET p == past[k - 1] IN IF p = Null \/ end[p] <= p THEN Null ELSE end[p]
<1>1. c \in Nat
  BY DEF Smaller
<1>2. \A p \in X : Past(p) \in X
  BY DEF Null
<1>3. step \in [X \X (1..c) -> X] /\ \A x \in X, n \in 1..c : step[<<x, n>>] = Past(x)
  BY <1>2
<1>4. first \in X
  OBVIOUS
<1> HIDE DEF step, X, Past
<1>5. PICK f \in [0..c -> X] : Unrolls(f, first, step, c)
  BY <1>1, <1>3, <1>4, Looping
<1>6. f = [k \in 0..c |-> IF k = 0 THEN first ELSE Past(f[k - 1])]
  <2>1. ASSUME NEW n \in 0..c
        PROVE  f[n] = IF n = 0 THEN first ELSE Past(f[n - 1])
    <3>1. CASE n = 0
      BY <1>5, <3>1 DEF Unrolls
    <3>2. CASE n # 0
      <4>1. n \in 1..c /\ n - 1 \in 0..c
        BY <1>1, <3>2
      <4>. QED
        BY <1>3, <1>5, <3>2, <4>1 DEF Unrolls
    <3>. QED
      BY <3>1, <3>2
  <2>. QED
    BY <2>1
<1>7. past = [k \in 0..c |-> IF k = 0 THEN first
                             ELSE LET p == past[k - 1] IN IF p = Null \/ end[p] <= p THEN Null ELSE end[p]]
  BY <1>6, Zenon DEF Past
<1>7a. past = [k \in 0..c |-> IF k = 0 THEN first ELSE Past(past[k - 1])]
  BY <1>7, Zenon DEF Past
<1>8. ElementsEnd(end, first, count, limit) = past[c]
  BY DEF ElementsEnd
<1> HIDE DEF past, c
<1> DEFINE G == {k \in 0..c : past[k] \in X}
<1>9. 0 \in G
  BY <1>1, <1>4, <1>7
<1>10. ASSUME NEW n \in 1..c, n - 1 \in G
       PROVE  n \in G
  <2>1. past[n - 1] \in X
    BY <1>10
  <2>2. past[n] = Past(past[n - 1]) /\ n \in 0..c
    <3> HIDE DEF G, Past
    <3>1. n \in 0..c /\ n # 0
      BY <1>1
    <3>. QED
      BY <1>7a, <3>1
  <2>. QED
    BY <1>2, <2>1, <2>2
<1>11. \A n \in 0..c : n \in G
  <2> HIDE DEF G
  <2>. QED
    BY <1>1, <1>9, <1>10, Counting
<1>12. past[c] \in X
  <2>1. c \in G
    <3> HIDE DEF G
    <3>. QED
      BY <1>1, <1>11
  <2>. QED
    BY <2>1
<1>. QED
  BY <1>8, <1>12 DEF X, Null

(* A value of a fixed width has one of 1 to 8 bytes.                       *)
LEMMA Scalars ==
    \A n \in DOMAIN Scalar :
        Scalar[n].width \in {1, 2, 4, 8} /\ Scalar[n].kind \in {"BOOL", "INT", "UINT", "NAME", "FLOAT"}
BY DEF Scalar

(* A width is that of a scalar, a handle, an import, or unknown.           *)
LEMMA Widths ==
    ASSUME NEW type
    PROVE  FixedWidth(type) \in {0, 1, 2, 4, 8}
<1>1. CASE IsScalar(type)
  <2>1. HeadOf(type) \in DOMAIN Scalar
    BY <1>1 DEF IsScalar
  <2>2. Scalar[HeadOf(type)].width \in {1, 2, 4, 8}
    BY <2>1, Scalars
  <2>. QED
    BY <1>1, <2>2 DEF FixedWidth
<1>2. CASE ~IsScalar(type)
  BY <1>2 DEF FixedWidth
<1>. QED
  BY <1>1, <1>2

(* The element type of a type is a type.                                   *)
LEMMA ElementTyped ==
    ASSUME NEW type \in Seq(STRING)
    PROVE  ElementType(type) \in Seq(STRING)
<1>1. CASE type = <<>>
  BY <1>1 DEF ElementType, HeadOf
<1>2. CASE type # <<>>
  <2>1. Len(type) \in Nat /\ Len(type) # 0
    BY <1>2
  <2>2. Tail(type) \in Seq(STRING)
    BY <1>2, <2>1
  <2>. QED
    BY <2>2 DEF ElementType
<1>. QED
  BY <1>1, <1>2

(* Where the arrays of each type end, at each place before the limit.      *)
Levels(limit) == [Seq(STRING) \X (1..limit) -> 0..limit]

(* An array ends inside if the arrays in it do, ...                        *)
LEMMA LevelEnds ==
    ASSUME Readable, NEW limit \in Nat, NEW type \in Seq(STRING), NEW p \in 1..limit,
           NEW deeper \in Levels(limit)
    PROVE  LevelEnd(type, p, limit, deeper) \in 0..limit
<1> DEFINE count == Rd32(p)
           elem == ElementType(type)
           width == FixedWidth(elem)
           texts == [q \in 1..limit |-> CStringEnd(q, limit)]
           arrays == [q \in 1..limit |-> deeper[<<elem, q>>]]
<1>1. LevelEnd(type, p, limit, deeper) =
        IF limit - p < 4 THEN Null
        ELSE IF count = 0 THEN p + 4
        ELSE IF width > 0 THEN IF limit - (p + 4) < count * width THEN Null ELSE p + 4 + count * width
        ELSE IF IsString(elem) THEN ElementsEnd(texts, p + 4, count, limit)
        ELSE IF IsArray(elem) THEN ElementsEnd(arrays, p + 4, count, limit)
        ELSE Null
  BY DEF LevelEnd
<1>2. count \in Nat
  <2>1. count \in 0..(U32 - 1) /\ U32 \in Nat
    BY ByteRange
  <2>. QED
    BY <2>1
<1>3. width \in Nat
  BY Widths
<1>4. count * width \in Nat
  <2> HIDE DEF count, width
  <2>. QED
    BY <1>2, <1>3, Products
<1>5. texts \in [1..limit -> 0..limit]
  <2>1. ASSUME NEW q \in 1..limit
        PROVE  CStringEnd(q, limit) \in 0..limit
    <3>1. q \in Nat
      OBVIOUS
    <3>2. CStringEnd(q, limit) = Null \/ (CStringEnd(q, limit) \in q..limit /\ q <= limit)
      BY <3>1, TextEnds
    <3>. QED
      BY <3>1, <3>2 DEF Null
  <2>. QED
    BY <2>1
<1>6. arrays \in [1..limit -> 0..limit]
  <2>1. elem \in Seq(STRING)
    BY ElementTyped
  <2> HIDE DEF elem
  <2>2. ASSUME NEW q \in 1..limit
        PROVE  deeper[<<elem, q>>] \in 0..limit
    BY <2>1 DEF Levels
  <2>. QED
    BY <2>2
<1> HIDE DEF count, elem, width, texts, arrays
<1>7. CASE limit - p < 4 \/ count = 0
  BY <1>1, <1>7 DEF Null
<1>8. CASE ~(limit - p < 4 \/ count = 0)
  <2>1. p + 4 \in 1..limit
    BY <1>8
  <2>2. CASE width > 0
    <3>1. LevelEnd(type, p, limit, deeper) =
             IF limit - (p + 4) < count * width THEN Null ELSE p + 4 + count * width
      BY <1>1, <1>8, <2>2
    <3> DEFINE span == count * width
    <3> HIDE DEF span
    <3>. QED
      BY <1>4, <2>1, <3>1 DEF Null, span
  <2>3. CASE ~(width > 0) /\ IsString(elem)
    <3>1. LevelEnd(type, p, limit, deeper) = ElementsEnd(texts, p + 4, count, limit)
      BY <1>1, <1>8, <2>3
    <3>2. \/ ElementsEnd(texts, p + 4, count, limit) = Null
          \/ ElementsEnd(texts, p + 4, count, limit) \in (p + 4)..limit
      BY <1>2, <1>5, <2>1, ElementsEnds
    <3>. QED
      BY <2>1, <3>1, <3>2 DEF Null
  <2>4. CASE ~(width > 0) /\ ~IsString(elem) /\ IsArray(elem)
    <3>1. LevelEnd(type, p, limit, deeper) = ElementsEnd(arrays, p + 4, count, limit)
      BY <1>1, <1>8, <2>4
    <3>2. \/ ElementsEnd(arrays, p + 4, count, limit) = Null
          \/ ElementsEnd(arrays, p + 4, count, limit) \in (p + 4)..limit
      BY <1>2, <1>6, <2>1, ElementsEnds
    <3>. QED
      BY <2>1, <3>1, <3>2 DEF Null
  <2>5. CASE ~(width > 0) /\ ~IsString(elem) /\ ~IsArray(elem)
    BY <1>1, <1>8, <2>5 DEF Null
  <2>. QED
    BY <2>2, <2>3, <2>4, <2>5
<1>. QED
  BY <1>7, <1>8

(* ... and so does one of any number of levels.                            *)
LEMMA ArrayEnds ==
    ASSUME Readable, NEW limit \in Nat, NEW array \in Seq(STRING), NEW start \in 1..limit
    PROVE  ArrayEnd(array, start, limit) \in 0..limit
<1> DEFINE c == MaxArrayDepth
           Places == Seq(STRING) \X (1..limit)
           X == Levels(limit)
           base == [x \in Places |-> Null]
           Level(deeper) == [x \in Places |-> LevelEnd(x[1], x[2], limit, deeper)]
           step == [x \in X \X (1..c) |-> Level(x[1])]
           levels[room \in 0..MaxArrayDepth] ==
               [x \in Seq(STRING) \X (1..limit) |->
                   IF room = 0 THEN Null ELSE LevelEnd(x[1], x[2], limit, levels[room - 1])]
<1>1. c \in Nat
  BY DEF MaxArrayDepth
<1>2. base \in X
  BY DEF Null, Levels
<1>3. ASSUME NEW deeper \in X
      PROVE  Level(deeper) \in X
  <2>1. \A x \in Places : LevelEnd(x[1], x[2], limit, deeper) \in 0..limit
    BY LevelEnds
  <2>. QED
    BY <2>1 DEF Levels
<1> HIDE DEF X
<1>4. step \in [X \X (1..c) -> X] /\ \A x \in X, n \in 1..c : step[<<x, n>>] = Level(x)
  <2> HIDE DEF Level
  <2>. QED
    BY <1>3
<1> HIDE DEF step
<1>5. PICK f \in [0..c -> X] : Unrolls(f, base, step, c)
  BY <1>1, <1>2, <1>4, Looping
<1>6. f = [room \in 0..c |-> [x \in Places |-> IF room = 0 THEN Null ELSE LevelEnd(x[1], x[2], limit, f[room - 1])]]
  <2>1. ASSUME NEW n \in 0..c
        PROVE  f[n] = [x \in Places |-> IF n = 0 THEN Null ELSE LevelEnd(x[1], x[2], limit, f[n - 1])]
    <3>1. CASE n = 0
      <4>1. f[n] = base
        BY <1>5, <3>1 DEF Unrolls
      <4>. QED
        BY <3>1, <4>1
    <3>2. CASE n # 0
      <4>1. n \in 1..c /\ n - 1 \in 0..c
        BY <1>1, <3>2
      <4>2. f[n] = Level(f[n - 1])
        <5> HIDE DEF Level, base
        <5>. QED
          BY <1>4, <1>5, <4>1 DEF Unrolls
      <4>. QED
        BY <3>2, <4>2
    <3>. QED
      BY <3>1, <3>2
  <2>. QED
    BY <2>1
<1>7. levels = [room \in 0..MaxArrayDepth |->
                  [x \in Seq(STRING) \X (1..limit) |->
                      IF room = 0 THEN Null ELSE LevelEnd(x[1], x[2], limit, levels[room - 1])]]
  BY <1>6
<1>8. ArrayEnd(array, start, limit) = levels[c][<<array, start>>]
  BY DEF ArrayEnd
<1> HIDE DEF levels, c
<1> DEFINE G == {n \in 0..c : levels[n] \in X}
<1>9. 0 \in G
  <2>1. levels[0] = base
    BY <1>1, <1>7 DEF c
  <2>. QED
    BY <1>1, <1>2, <2>1
<1>10. ASSUME NEW n \in 1..c, n - 1 \in G
       PROVE  n \in G
  <2>1. n \in 0..c /\ n # 0
    BY <1>1
  <2>2. levels[n] = Level(levels[n - 1])
    BY <1>7, <2>1 DEF c
  <2>3. levels[n - 1] \in X
    BY <1>10
  <2>. QED
    BY <1>3, <2>1, <2>2, <2>3
<1>11. \A n \in 0..c : n \in G
  <2> HIDE DEF G
  <2>. QED
    BY <1>1, <1>9, <1>10, Counting
<1>12. levels[c] \in X /\ <<array, start>> \in Places
  BY <1>1, <1>11
<1>. QED
  BY <1>8, <1>12 DEF X, Levels

(* A text lies inside the value it was read from, ...                      *)
LEMMA TextInside ==
    ASSUME Readable, NEW at \in Nat, NEW size \in Nat
    PROVE  /\ Text(at, size).from \in Nat /\ Text(at, size).bytes \in Nat
           /\ Text(at, size).from >= at /\ Text(at, size).from + Text(at, size).bytes <= at + size
<1> DEFINE v == ReadVlq(at, at + size)
           bytes == (IF v.wide THEN 2 ELSE 1) * v.chars
<1>0. at + size \in Nat
  OBVIOUS
<1>1. v.chars \in Nat /\ v.next \in Nat /\ (at >= at + size => v.next = at) /\ (at < at + size => at < v.next)
  BY <1>0, Prefix
<1>2. bytes \in Nat
  BY <1>1
<1>3. Text(at, size) = IF at + size - v.next >= bytes THEN [from |-> v.next, bytes |-> bytes]
                       ELSE [from |-> at, bytes |-> 0]
  BY DEF Text
<1> HIDE DEF v, bytes
<1>4. v.next >= at
  BY <1>1
<1>5. CASE at + size - v.next >= bytes
  <2>1. Text(at, size) = [from |-> v.next, bytes |-> bytes]
    BY <1>3, <1>5
  <2>. QED
    BY <1>1, <1>2, <1>4, <1>5, <2>1
<1>6. CASE ~(at + size - v.next >= bytes)
  BY <1>3, <1>6
<1>. QED
  BY <1>5, <1>6

(* ... and no buffer has the number of the document itself.                *)
LEMMA BufferBelow ==
    ASSUME Readable, NEW type, NEW at, NEW i \in BufferIndex(type, at)
    PROVE  i < MainPart
<1> DEFINE sq == Base * Base
<1>1. Rd32(at) \in 0..(U32 - 1) /\ Rd16(at) \in 0..(sq - 1) /\ sq \in Nat /\ sq >= 64 /\ U32 \in Nat /\ U32 >= 64 * sq
  BY ByteRange
<1> HIDE DEF sq
<1>2. i = Rd32(at) - U32 \div 2 - 1 \/ i = Rd16(at) - 1
  BY DEF BufferIndex
<1>. QED
  BY <1>1, <1>2 DEF MainPart

(* A value lies before `end', its text inside it, and its buffer is one.   *)
Inside(v, end) ==
    /\ v.at \in Nat /\ v.size \in Nat /\ v.at + v.size <= end
    /\ v.kind = "STRING" => v.as.from >= v.at /\ v.as.from + v.as.bytes <= v.at + v.size
    /\ v.kind = "BUFFER" => v.as < MainPart

(* Whatever is decoded stands where it was read from, and lies inside.     *)
LEMMA Decoding ==
    ASSUME Readable, NEW type, NEW at \in Nat, NEW size \in Nat, NEW end, at + size <= end
    PROVE  /\ Decode(type, at, size).at = at /\ Decode(type, at, size).size = size
           /\ Inside(Decode(type, at, size), end)
<1> DEFINE Value(kind, held) == [type |-> type, at |-> at, size |-> size, kind |-> kind, as |-> held]
           raw == Value("RAW", Null)
           d == Decode(type, at, size)
<1>1. d =
        IF IsScalar(type) /\ size >= FixedWidth(type)
        THEN Value(Scalar[HeadOf(type)].kind,
                   IF type = <<"CName">> THEN Name(Rd16(at)) ELSE Bytes(at, FixedWidth(type)))
        ELSE IF IsString(type) THEN Value("STRING", Text(at, size))
        ELSE IF IsBuffer(type, size)
        THEN IF BufferIndex(type, at) = {} THEN raw
             ELSE Value("BUFFER", CHOOSE i \in BufferIndex(type, at) : TRUE)
        ELSE IF IsHandle(type)
        THEN IF size < 4 THEN raw
             ELSE Value("HANDLE", Signed((Rd32(at) - 1) % U32))
        ELSE IF IsImport(type)
        THEN IF size < 2 THEN raw
             ELSE Value("IMPORT", IF Rd16(at) \in 1..Imports THEN Rd16(at) ELSE Null)
        ELSE IF IsArray(type) THEN IF size < 4 THEN raw ELSE Value("ARRAY", Rd32(at))
        ELSE IF size = 2 THEN Value("NAME", Name(Rd16(at)))
        ELSE IF size >= 3 /\ Byte(at) = 0 THEN Value("STRUCT", Null)
        ELSE raw
  BY DEF Decode
<1>2. \A kind, held : Value(kind, held).at = at /\ Value(kind, held).size = size
                    /\ Value(kind, held).kind = kind /\ Value(kind, held).as = held
  OBVIOUS
<1> HIDE DEF Value, d
<1> DEFINE Fine(v) == v.at = at /\ v.size = size /\ Inside(v, end)
<1>3. \A kind, held : kind \notin {"STRING", "BUFFER"} => Fine(Value(kind, held))
  BY <1>2 DEF Inside
<1>4. CASE IsScalar(type) /\ size >= FixedWidth(type)
  <2> DEFINE kind == Scalar[HeadOf(type)].kind
             held == IF type = <<"CName">> THEN Name(Rd16(at)) ELSE Bytes(at, FixedWidth(type))
  <2>1. kind \notin {"STRING", "BUFFER"}
    <3>1. HeadOf(type) \in DOMAIN Scalar
      BY <1>4 DEF IsScalar
    <3>. QED
      BY <3>1, Scalars
  <2>2. d = Value(kind, held)
    BY <1>1, <1>4
  <2> HIDE DEF kind, held, Fine
  <2>3. Fine(d)
    BY <1>3, <2>1, <2>2
  <2>. QED
    BY <2>3 DEF Fine, d
<1>5. CASE ~(IsScalar(type) /\ size >= FixedWidth(type)) /\ IsString(type)
  <2>1. d = Value("STRING", Text(at, size))
    BY <1>1, <1>5
  <2>2. /\ Text(at, size).from >= at /\ Text(at, size).from + Text(at, size).bytes <= at + size
    BY TextInside
  <2>3. d.at = at /\ d.size = size /\ d.kind = "STRING" /\ d.as = Text(at, size)
    BY <1>2, <2>1
  <2>. QED
    BY <2>2, <2>3 DEF d, Inside
<1>6. CASE ~(IsScalar(type) /\ size >= FixedWidth(type)) /\ ~IsString(type) /\ IsBuffer(type, size)
           /\ BufferIndex(type, at) # {}
  <2> DEFINE i == CHOOSE x \in BufferIndex(type, at) : TRUE
  <2>1. d = Value("BUFFER", i)
    BY <1>1, <1>6
  <2>2. i \in BufferIndex(type, at)
    BY <1>6
  <2> HIDE DEF i
  <2>3. i < MainPart
    BY <2>2, BufferBelow
  <2>4. d.at = at /\ d.size = size /\ d.kind = "BUFFER" /\ d.as = i
    BY <1>2, <2>1
  <2>. QED
    BY <2>3, <2>4 DEF d, Inside
<1>7. CASE /\ ~(IsScalar(type) /\ size >= FixedWidth(type)) /\ ~IsString(type)
           /\ ~(IsBuffer(type, size) /\ BufferIndex(type, at) # {})
  <2>1. \E kind, held : kind \notin {"STRING", "BUFFER"} /\ d = Value(kind, held)
    <3>1. \E x : d \in {Value("RAW", x), Value("HANDLE", x), Value("IMPORT", x), Value("ARRAY", x),
                        Value("NAME", x), Value("STRUCT", x)}
      BY <1>1, <1>7
    <3>2. \A k \in {"RAW", "HANDLE", "IMPORT", "ARRAY", "NAME", "STRUCT"} : k \notin {"STRING", "BUFFER"}
      OBVIOUS
    <3>. QED
      BY <3>1, <3>2
  <2> HIDE DEF Fine
  <2>2. Fine(d)
    BY <1>3, <2>1
  <2>. QED
    BY <2>2 DEF Fine, d
<1>. QED
  BY <1>4, <1>5, <1>6, <1>7

(* What decodes as an array is of an array type, and has its count.        *)
LEMMA DecodedArray ==
    ASSUME Readable, NEW type, NEW at, NEW size \in Nat
    PROVE  /\ Decode(type, at, size).kind = "ARRAY" <=> IsArray(type) /\ size >= 4
           /\ Decode(type, at, size).kind = "ARRAY" => Decode(type, at, size).as = Rd32(at)
<1>1. IsArray(type) => ~IsScalar(type) /\ ~IsString(type) /\ ~IsBuffer(type, size) /\ ~IsHandle(type) /\ ~IsImport(type)
  BY DEF IsArray, IsScalar, IsString, IsBuffer, IsHandle, IsImport, HeadOf, Scalar
<1>2. IsScalar(type) => Scalar[HeadOf(type)].kind # "ARRAY"
  <2>1. IsScalar(type) => HeadOf(type) \in DOMAIN Scalar
    BY DEF IsScalar
  <2>2. \A k \in {"BOOL", "INT", "UINT", "NAME", "FLOAT"} : k # "ARRAY"
    OBVIOUS
  <2>. QED
    BY <2>1, <2>2, Scalars
<1>3. CASE IsArray(type)
  <2>1. CASE size >= 4
    <3>1. Decode(type, at, size) = [type |-> type, at |-> at, size |-> size, kind |-> "ARRAY", as |-> Rd32(at)]
      BY <1>1, <1>3, <2>1 DEF Decode
    <3>. QED
      BY <1>3, <2>1, <3>1
  <2>2. CASE ~(size >= 4)
    <3>1. Decode(type, at, size) = [type |-> type, at |-> at, size |-> size, kind |-> "RAW", as |-> Null]
      BY <1>1, <1>3, <2>2 DEF Decode
    <3>2. "RAW" # "ARRAY"
      OBVIOUS
    <3>. QED
      BY <2>2, <3>1, <3>2
  <2>. QED
    BY <2>1, <2>2
<1>4. CASE ~IsArray(type)
  <2>1. Decode(type, at, size).kind \in {Scalar[HeadOf(type)].kind, "STRING", "RAW", "BUFFER", "HANDLE", "IMPORT", "NAME", "STRUCT"}
        /\ (~IsScalar(type) => Decode(type, at, size).kind \in {"STRING", "RAW", "BUFFER", "HANDLE", "IMPORT", "NAME", "STRUCT"})
    BY <1>4 DEF Decode
  <2>2. \A k \in {"STRING", "RAW", "BUFFER", "HANDLE", "IMPORT", "NAME", "STRUCT"} : k # "ARRAY"
    OBVIOUS
  <2>. QED
    BY <1>2, <1>4, <2>1, <2>2
<1>. QED
  BY <1>3, <1>4

(* An array that is walked.                                                *)
WalkedArray == Readable /\ input.op = "walk_array" /\ IsArray(input.type) /\ input.size >= 4

(* Its elements end inside it, and every search for an end ends.           *)
LEMMA ElementEnds ==
    ASSUME WalkedArray, NEW p \in 5..Limit
    PROVE  ElementEnd(p) \in 0..Limit
<1>1. /\ Readable /\ input.type \in Seq(STRING) /\ input.size \in Nat /\ Len(input.bytes) \in Nat
      /\ input.size <= Len(input.bytes)
  <2>1. /\ input \in Inputs /\ input.op = "walk_array" /\ input.op # "open" /\ Readable
    BY DEF WalkedArray, Readable
  <2>2. input.bytes \in Seq(0..(Base - 1)) /\ input.type \in Seq(STRING) /\ input.size \in 0..Len(input.bytes)
    BY <2>1, InputsAssumption
  <2>3. Len(input.bytes) \in Nat
    BY <2>2
  <2>. QED
    BY <2>1, <2>2, <2>3
<1>2. Limit \in Nat /\ Limit <= Len(input.bytes) + 1 /\ p \in Nat \ {0} /\ p \in 1..Limit /\ p <= Limit
  BY <1>1 DEF Limit
<1>3. Element \in Seq(STRING)
  BY <1>1, ElementTyped DEF Element
<1>4. Array.as \in Nat
  <2>1. Array.as = Rd32(1)
    BY <1>1, DecodedArray DEF Array, WalkedArray
  <2>2. Rd32(1) \in 0..(U32 - 1) /\ U32 \in Nat
    BY <1>1, ByteRange
  <2>. QED
    BY <2>1, <2>2
<1> DEFINE count == Array.as
           avail == Limit - 5
           width == FixedWidth(Element)
<1>5. width \in Nat
  BY Widths
<1>6. Layout =
        IF width > 0 THEN [kind |-> "fixed", stride |-> width]
        ELSE IF IsString(Element) THEN [kind |-> "string", stride |-> 0]
        ELSE IF IsArray(Element) THEN [kind |-> "array", stride |-> 0]
        ELSE IF count > 0 /\ avail % count = 0 /\ avail \div count \in 1..8
        THEN [kind |-> "fixed", stride |-> avail \div count]
        ELSE [kind |-> "struct", stride |-> 0]
  BY DEF Layout, Classify
<1> HIDE DEF count, avail, width
<1>7. Layout.kind \in {"fixed", "string", "array", "struct"} /\ (Layout.kind = "fixed" => Layout.stride \in Nat)
  <2>1. avail \div count \in 1..8 => avail \div count \in Nat
    OBVIOUS
  <2> DEFINE parts == avail \div count
             even == avail % count = 0
  <2> HIDE DEF parts, even
  <2>. QED
    BY <1>5, <1>6, <2>1 DEF parts, even
<1> HIDE DEF Layout
<1>8. CASE Layout.kind = "fixed"
  <2>1. ElementEnd(p) = IF Limit - p < Layout.stride THEN Null ELSE p + Layout.stride
    BY <1>8 DEF ElementEnd
  <2>. QED
    BY <1>2, <1>7, <1>8, <2>1 DEF Null
<1>9. CASE Layout.kind = "string"
  <2>1. ElementEnd(p) = CStringEnd(p, Limit)
    BY <1>9 DEF ElementEnd
  <2>2. CStringEnd(p, Limit) = Null \/ (CStringEnd(p, Limit) \in p..Limit /\ p <= Limit)
    BY <1>1, <1>2, TextEnds
  <2>. QED
    BY <1>2, <2>1, <2>2 DEF Null
<1>10. CASE Layout.kind = "array"
  <2>1. ElementEnd(p) = ArrayEnd(Element, p, Limit)
    BY <1>10 DEF ElementEnd
  <2>. QED
    BY <1>1, <1>2, <1>3, <2>1, ArrayEnds
<1>11. CASE Layout.kind = "struct"
  <2>1. ElementEnd(p) = StructEnd(p, Limit)
    BY <1>11 DEF ElementEnd
  <2>2. StructEnd(p, Limit) = Null \/ (StructEnd(p, Limit) \in (p + 1)..Limit /\ p < Limit)
    BY <1>1, <1>2, StructEnds
  <2>. QED
    BY <1>2, <2>1, <2>2 DEF Null
<1>. QED
  BY <1>7, <1>8, <1>9, <1>10, <1>11

-----------------------------------------------------------------------------
(* The documents: properties and paths.                                    *)

(* The properties that lie before `end'.                                   *)
Fitting(end) == {q \in [name : Seq(STRING), type : Seq(STRING), at : Nat, size : Nat] : q.at + q.size <= end}

(* A name is a list of its parts, whatever the index.                      *)
LEMMA NameTyped ==
    ASSUME NEW i
    PROVE  Name(i) \in Seq(STRING)
<1>1. <<>> \in Seq(STRING)
  OBVIOUS
<1>. QED
  BY <1>1, Cr2wAssumption DEF Name

(* A property that is found lies before the end it was looked for in.      *)
LEMMA OneStep ==
    ASSUME Readable, NEW end \in Nat, NEW s \in [at : Nat, props : Seq(Fitting(end))]
    PROVE  Step(s, end) \in [at : Nat, props : Seq(Fitting(end))]
<1>1. CASE PropAt(s.at, end) = {}
  BY <1>1 DEF Step
<1>2. CASE PropAt(s.at, end) # {}
  <2> DEFINE q == CHOOSE x \in PropAt(s.at, end) : TRUE
  <2>1. q \in PropAt(s.at, end)
    BY <1>2
  <2>2. Step(s, end) = [at |-> q.at + q.size, props |-> Append(s.props, q)]
    BY <1>2 DEF Step
  <2> HIDE DEF q
  <2>3. /\ q = [name |-> Name(Rd16(s.at)), type |-> Name(Rd16(s.at + 2)), at |-> s.at + 8, size |-> Rd32(s.at + 4) - 4]
        /\ q.size >= 0 /\ q.at + q.size <= end
    BY <2>1 DEF PropAt
  <2>4. Rd32(s.at + 4) \in 0..(U32 - 1) /\ U32 \in Nat
    BY ByteRange
  <2>5. q.at \in Nat /\ q.size \in Nat /\ q.name \in Seq(STRING) /\ q.type \in Seq(STRING)
    <3>1. q.name = Name(Rd16(s.at)) /\ q.type = Name(Rd16(s.at + 2)) /\ q.at = s.at + 8 /\ q.size = Rd32(s.at + 4) - 4
      BY <2>3
    <3>2. q.name \in Seq(STRING) /\ q.type \in Seq(STRING)
      BY <3>1, NameTyped
    <3>3. q.size >= 0 /\ s.at \in Nat
      BY <2>3
    <3>4. q.at \in Nat /\ q.size \in Nat
      BY <2>4, <3>1, <3>3
    <3>. QED
      BY <3>2, <3>4
  <2>6. q \in [name : Seq(STRING), type : Seq(STRING), at : Nat, size : Nat]
    BY <2>3, <2>5
  <2>7. q \in Fitting(end)
    BY <2>3, <2>6 DEF Fitting
  <2>8. Append(s.props, q) \in Seq(Fitting(end)) /\ q.at + q.size \in Nat
    BY <2>5, <2>7
  <2>. QED
    BY <2>2, <2>8
<1>. QED
  BY <1>1, <1>2

(* So do all that a walk over the properties finds.                        *)
LEMMA PropsInside ==
    ASSUME Readable, NEW body \in Nat, NEW end \in Nat
    PROVE  Props(body, end) \in Seq(Fitting(end))
<1> DEFINE c == Turns
           X == [at : Nat, props : Seq(Fitting(end))]
           start == [at |-> body + 1, props |-> <<>>]
           step == [x \in X \X (1..c) |-> Step(x[1], end)]
           walked[n \in 0..c] == IF n = 0 THEN [at |-> body + 1, props |-> <<>>] ELSE Step(walked[n - 1], end)
<1>1. c \in Nat
  BY TurnsSuffice
<1>2. start \in X
  OBVIOUS
<1>3. \A x \in X : Step(x, end) \in X
  BY OneStep
<1> HIDE DEF X
<1>4. step \in [X \X (1..c) -> X] /\ \A x \in X, n \in 1..c : step[<<x, n>>] = Step(x, end)
  BY <1>3
<1> HIDE DEF step
<1>5. PICK f \in [0..c -> X] : Unrolls(f, start, step, c)
  BY <1>1, <1>2, <1>4, Looping
<1>6. f = [n \in 0..c |-> IF n = 0 THEN start ELSE Step(f[n - 1], end)]
  <2>1. ASSUME NEW n \in 0..c
        PROVE  f[n] = IF n = 0 THEN start ELSE Step(f[n - 1], end)
    <3>1. CASE n = 0
      BY <1>5, <3>1 DEF Unrolls
    <3>2. CASE n # 0
      <4>1. n \in 1..c /\ n - 1 \in 0..c
        BY <1>1, <3>2
      <4>. QED
        BY <1>4, <1>5, <3>2, <4>1 DEF Unrolls
    <3>. QED
      BY <3>1, <3>2
  <2>. QED
    BY <2>1
<1>7. walked = [n \in 0..c |-> IF n = 0 THEN [at |-> body + 1, props |-> <<>>] ELSE Step(walked[n - 1], end)]
  BY <1>6
<1>8. Props(body, end) = IF body < end THEN walked[c].props ELSE <<>>
  BY DEF Props
<1> HIDE DEF walked, c, start
<1> DEFINE G == {n \in 0..c : walked[n] \in X}
<1>9. 0 \in G
  BY <1>1, <1>2, <1>7 DEF start
<1>10. ASSUME NEW n \in 1..c, n - 1 \in G
       PROVE  n \in G
  BY <1>1, <1>3, <1>7, <1>10
<1>11. \A n \in 0..c : n \in G
  <2> HIDE DEF G
  <2>. QED
    BY <1>1, <1>9, <1>10, Counting
<1>12. walked[c].props \in Seq(Fitting(end))
  BY <1>1, <1>11 DEF X
<1>. QED
  BY <1>8, <1>12

(* Everything a path can lead to lies inside its root.                     *)
Reached(root, end) == {root} \cup {DecodeProp(q) : q \in Fitting(end)}

(* A value reached lies inside, the root as well as what is below it.      *)
LEMMA ReachedInside ==
    ASSUME Readable, NEW root, NEW end \in Nat, Inside(root, end), NEW v \in Reached(root, end)
    PROVE  Inside(v, end)
<1>1. CASE v = root
  BY <1>1
<1>2. CASE \E q \in Fitting(end) : v = DecodeProp(q)
  <2>1. PICK q \in Fitting(end) : v = DecodeProp(q)
    BY <1>2
  <2>2. q.at \in Nat /\ q.size \in Nat /\ q.at + q.size <= end
    BY DEF Fitting
  <2>3. v = Decode(q.type, q.at, q.size)
    BY <2>1 DEF DecodeProp
  <2>. QED
    BY <2>2, <2>3, Decoding
<1>. QED
  BY <1>1, <1>2 DEF Reached

(* A name takes a path from what it reached to what it can reach.          *)
LEMMA Descending ==
    ASSUME Readable, NEW root, NEW end \in Nat, Inside(root, end), NEW v \in Reached(root, end), NEW name
    PROVE  Descend(v, name) \subseteq Reached(root, end)
<1>1. v.at \in Nat /\ v.size \in Nat /\ v.at + v.size <= end
  BY ReachedInside DEF Inside
<1> DEFINE props == Props(v.at, v.at + v.size)
           named == {k \in DOMAIN props : props[k].name = name}
<1>2. Descend(v, name) = IF v.kind # "STRUCT" \/ name = <<>> \/ named = {} THEN {} ELSE {DecodeProp(props[Min(named)])}
  BY DEF Descend
<1>3. props \in Seq(Fitting(v.at + v.size))
  <2>1. v.at + v.size \in Nat
    BY <1>1
  <2>. QED
    BY <1>1, <2>1, PropsInside
<1> HIDE DEF props
<1>4. Len(props) \in Nat /\ DOMAIN props = 1..Len(props) /\ \A k \in DOMAIN props : props[k] \in Fitting(v.at + v.size)
  BY <1>3
<1>5. named # {} => Min(named) \in named
  <2> SUFFICES ASSUME named # {}
               PROVE  Min(named) \in named
    OBVIOUS
  <2>1. named \in SUBSET Nat
    BY <1>4
  <2> HIDE DEF named
  <2>2. PICK m \in named : \A y \in named : ~(<<y, m>> \in OpToRel(<, Nat))
    BY <2>1, NatLessThanWellFounded, WFMin
  <2>3. \A y \in named : m <= y
    <3> TAKE y \in named
    <3>1. y \in Nat /\ m \in Nat
      BY <2>1
    <3>2. ~(y < m)
      BY <2>2, <3>1 DEF OpToRel
    <3>. QED
      BY <3>1, <3>2
  <2>4. \E x \in named : \A y \in named : x <= y
    BY <2>3
  <2>. QED
    BY <2>4, Zenon DEF Min
<1>6. Fitting(v.at + v.size) \subseteq Fitting(end)
  BY <1>1 DEF Fitting
<1>7. CASE v.kind # "STRUCT" \/ name = <<>> \/ named = {}
  BY <1>2, <1>7
<1>8. CASE ~(v.kind # "STRUCT" \/ name = <<>> \/ named = {})
  <2> DEFINE k == Min(named)
  <2>1. k \in DOMAIN props
    BY <1>5, <1>8
  <2> HIDE DEF k
  <2>2. props[k] \in Fitting(end)
    BY <1>4, <1>6, <2>1
  <2>3. Descend(v, name) = {DecodeProp(props[k])}
    BY <1>2, <1>8 DEF k
  <2>. QED
    BY <2>2, <2>3 DEF Reached
<1>. QED
  BY <1>7, <1>8

(* A whole path leads to what it can reach.                                *)
LEMMA PathsInside ==
    ASSUME Readable, NEW root, NEW end \in Nat, Inside(root, end), NEW path, Len(path) \in Nat
    PROVE  GetIn(root, path) \subseteq Reached(root, end)
<1> DEFINE c == Len(path)
           U == Reached(root, end)
           X == SUBSET U
           Deeper(V, n) == UNION {Descend(v, path[n]) : v \in V}
           step == [x \in X \X (1..c) |-> Deeper(x[1], x[2])]
           found[n \in 0..c] == IF n = 0 THEN {root} ELSE UNION {Descend(v, path[n]) : v \in found[n - 1]}
<1>1. c \in Nat
  OBVIOUS
<1>2. {root} \in X
  BY DEF Reached
<1>3. \A V \in X, n \in 1..c : Deeper(V, n) \in X
  <2>1. \A v \in U : \A name : Descend(v, name) \subseteq U
    BY Descending
  <2> HIDE DEF U
  <2>. QED
    BY <2>1
<1> HIDE DEF X
<1>4. step \in [X \X (1..c) -> X] /\ \A x \in X, n \in 1..c : step[<<x, n>>] = Deeper(x, n)
  <2> HIDE DEF Deeper
  <2>. QED
    BY <1>3
<1> HIDE DEF step
<1>5. PICK f \in [0..c -> X] : Unrolls(f, {root}, step, c)
  BY <1>1, <1>2, <1>4, Looping
<1>6. f = [n \in 0..c |-> IF n = 0 THEN {root} ELSE UNION {Descend(v, path[n]) : v \in f[n - 1]}]
  <2>1. ASSUME NEW n \in 0..c
        PROVE  f[n] = IF n = 0 THEN {root} ELSE UNION {Descend(v, path[n]) : v \in f[n - 1]}
    <3>1. CASE n = 0
      BY <1>5, <3>1 DEF Unrolls
    <3>2. CASE n # 0
      <4>1. n \in 1..c /\ n - 1 \in 0..c
        BY <1>1, <3>2
      <4>2. f[n] = Deeper(f[n - 1], n)
        <5> HIDE DEF Deeper
        <5>. QED
          BY <1>4, <1>5, <3>2, <4>1 DEF Unrolls
      <4>. QED
        BY <3>2, <4>2
    <3>. QED
      BY <3>1, <3>2
  <2>. QED
    BY <2>1
<1>7. found = [n \in 0..c |-> IF n = 0 THEN {root} ELSE UNION {Descend(v, path[n]) : v \in found[n - 1]}]
  BY <1>6
<1>8. GetIn(root, path) = found[c]
  BY DEF GetIn
<1> HIDE DEF found, c
<1> DEFINE G == {n \in 0..c : found[n] \in X}
<1>9. 0 \in G
  BY <1>1, <1>2, <1>7
<1>10. ASSUME NEW n \in 1..c, n - 1 \in G
       PROVE  n \in G
  <2>1. n \in 0..c /\ n # 0
    BY <1>1
  <2>2. found[n] = Deeper(found[n - 1], n)
    BY <1>7, <2>1
  <2> HIDE DEF Deeper
  <2>. QED
    BY <1>3, <1>10, <2>1, <2>2
<1>11. \A n \in 0..c : n \in G
  <2> HIDE DEF G
  <2>. QED
    BY <1>1, <1>9, <1>10, Counting
<1>. QED
  BY <1>1, <1>8, <1>11 DEF X

(* A call about a document, and what it delivered so far.                  *)
Statuses == {"called", "walking", "stopped", "OK", "CORRUPT", "UNSUPPORTED", "INVALID_ARG", "NOT_FOUND"}
Outputs(V) == [status : Statuses, at : Nat, values : Seq(V)]

(* Where the bytes end that a call is about.                               *)
EndOf(i) == IF i.op = "walk_array" THEN 1 + i.size ELSE i.chunk.at + i.chunk.size

(* The values lie one behind another, from the fifth byte to `at'.         *)
Consecutive(values, at) ==
    /\ \A k \in DOMAIN values :
          values[k].size > 0 /\ values[k].at = IF k = 1 THEN 5 ELSE values[k - 1].at + values[k - 1].size
    /\ at = IF Len(values) = 0 THEN 5 ELSE values[Len(values)].at + values[Len(values)].size

(* What stays true of a call i and what it delivered so far, o.            *)
Delivering(i, o) ==
    /\ i \in Inputs
    /\ \E V : o \in Outputs(V)
    /\ o.status = "called" => o = NoOutput
    /\ o.status = "walking" => i.op = "walk_array" /\ IsArray(i.type) /\ i.size >= 4 /\ o.at \in 5..(1 + i.size)
    /\ i.op = "open" => (o.status = "OK" => Parsed(i.file) = "OK")
    /\ i.op # "open" => \A k \in DOMAIN o.values : Inside(o.values[k], EndOf(i))
    /\ i.op = "walk_array" /\ o.status # "called" => Consecutive(o.values, o.at)
    /\ i.op \in {"get", "walk"} /\ o.status = "OK" => (i.chunk.at + i.chunk.size) - 1 <= Len(i.bytes)

DocumentInv == Delivering(input, output)

(* Nothing is delivered before a call begins.                              *)
LEMMA DocumentStart ==
    ASSUME Init
    PROVE  DocumentInv
<1>1. input \in Inputs /\ output = NoOutput
  BY DEF Init
<1>2. NoOutput \in Outputs({}) /\ NoOutput.status = "called" /\ NoOutput.values = <<>>
  BY DEF NoOutput, Outputs, Statuses
<1>3. "called" # "walking" /\ "called" # "OK"
  OBVIOUS
<1>. QED
  BY <1>1, <1>2, <1>3 DEF DocumentInv, Delivering

(* A call whose status changes, and nothing else.                          *)
LEMMA StatusChange ==
    ASSUME NEW i, NEW o, Delivering(i, o), NEW s \in Statuses, s \notin {"called", "walking", "OK"}
    PROVE  o.status # "called" \/ i.op # "walk_array" => Delivering(i, [o EXCEPT !.status = s])
<1>1. PICK V : o \in Outputs(V)
  BY DEF Delivering
<1> DEFINE r == [o EXCEPT !.status = s]
<1>2. r \in Outputs(V) /\ r.status = s /\ r.at = o.at /\ r.values = o.values
  BY <1>1 DEF Outputs
<1> HIDE DEF r
<1>. QED
  BY <1>2 DEF Delivering, r

(* The walk of an array begins behind its count.                           *)
LEMMA WalkArrayKeeps ==
    ASSUME DocumentInv, WalkArray
    PROVE  DocumentInv'
<1>1. /\ input \in Inputs /\ input.op = "walk_array" /\ output = NoOutput /\ input' = input
      /\ output' = [output EXCEPT !.at = 5, !.status = IF Array.kind # "ARRAY" THEN "INVALID_ARG" ELSE "walking"]
  BY DEF DocumentInv, Delivering, WalkArray, Calling
<1> DEFINE s == IF Array.kind # "ARRAY" THEN "INVALID_ARG" ELSE "walking"
<1>2. output' = [status |-> s, at |-> 5, values |-> <<>>]
  BY <1>1 DEF NoOutput
<1>3. s \in {"INVALID_ARG", "walking"} /\ (s = "walking" => Array.kind = "ARRAY")
  OBVIOUS
<1>4. input.size \in Nat /\ Readable
  BY <1>1, InputsAssumption DEF Readable
<1>5. s = "walking" => IsArray(input.type) /\ input.size >= 4
  <2>1. Array.kind = "ARRAY" <=> IsArray(input.type) /\ input.size >= 4
    BY <1>4, DecodedArray DEF Array
  <2>. QED
    BY <1>3, <2>1
<1> HIDE DEF s
<1>6. s # "called" /\ s # "OK" /\ s \in Statuses
  BY <1>3 DEF Statuses
<1> DEFINE r == [status |-> s, at |-> 5, values |-> <<>>]
<1>7. r \in Outputs({}) /\ r.status = s /\ r.at = 5 /\ r.values = <<>>
  BY <1>6 DEF Outputs
<1> HIDE DEF r
<1>8. Consecutive(r.values, r.at)
  BY <1>7 DEF Consecutive
<1>9. 5 \in 5..(1 + input.size) \/ ~(s = "walking")
  BY <1>4, <1>5
<1>10. Delivering(input, r)
  BY <1>1, <1>5, <1>6, <1>7, <1>8, <1>9 DEF Delivering
<1>. QED
  BY <1>1, <1>2, <1>10 DEF DocumentInv, r

(* An element is delivered where the one before it ended.                  *)
LEMMA DeliverKeeps ==
    ASSUME DocumentInv, NEW stop \in BOOLEAN, Deliver(stop)
    PROVE  DocumentInv'
<1> DEFINE e == ElementEnd(output.at)
           v == Decode(Element, output.at, e - output.at)
           s == IF stop THEN "stopped" ELSE "walking"
           n == Len(output.values)
           values == Append(output.values, v)
           r == [status |-> s, at |-> e, values |-> values]
<1>1. /\ input \in Inputs /\ output.status = "walking" /\ input.op = "walk_array" /\ IsArray(input.type)
      /\ input.size >= 4 /\ output.at \in 5..(1 + input.size) /\ input' = input
      /\ e > output.at /\ output' = r
      /\ Consecutive(output.values, output.at)
      /\ \A k \in DOMAIN output.values : Inside(output.values[k], EndOf(input))
  BY DEF DocumentInv, Delivering, Deliver, Walking, Progress
<1>2. PICK V : output \in Outputs(V)
  BY DEF DocumentInv, Delivering
<1>3. WalkedArray /\ Readable /\ Limit = 1 + input.size /\ input.size \in Nat /\ EndOf(input) = Limit
  BY <1>1, InputsAssumption DEF WalkedArray, Readable, Limit, EndOf
<1>4. e \in 0..Limit
  BY <1>1, <1>3, ElementEnds
<1> HIDE DEF e
<1>5. output.at \in Nat /\ e \in Nat /\ e - output.at \in Nat /\ e - output.at > 0 /\ output.at + (e - output.at) <= Limit
      /\ e \in 5..Limit /\ output.at + (e - output.at) = e
  BY <1>1, <1>3, <1>4
<1>6. v.at = output.at /\ v.size = e - output.at /\ Inside(v, Limit)
  BY <1>3, <1>5, Decoding
<1> HIDE DEF v
<1>7. output.values \in Seq(V)
  BY <1>2 DEF Outputs
<1>8. /\ values \in Seq(V \cup {v}) /\ n \in Nat /\ Len(values) = n + 1 /\ DOMAIN values = 1..(n + 1)
      /\ DOMAIN output.values = 1..n /\ values[n + 1] = v /\ \A k \in 1..n : values[k] = output.values[k]
  BY <1>7, Appending
<1> HIDE DEF values, n
<1>9. s \in {"stopped", "walking"} /\ s \in Statuses /\ s # "called" /\ s # "OK"
  BY DEF Statuses
<1> HIDE DEF s
<1>10. r \in Outputs(V \cup {v}) /\ r.status = s /\ r.at = e /\ r.values = values
  BY <1>5, <1>8, <1>9 DEF Outputs
<1> HIDE DEF r
<1>11. \A k \in DOMAIN r.values : Inside(r.values[k], Limit)
  <2> SUFFICES ASSUME NEW k \in 1..(n + 1)
               PROVE  Inside(values[k], Limit)
    BY <1>8, <1>10
  <2>1. CASE k = n + 1
    BY <1>6, <1>8, <2>1
  <2>2. CASE k # n + 1
    <3>1. k \in 1..n
      BY <1>8, <2>2
    <3>. QED
      BY <1>1, <1>3, <1>8, <3>1
  <2>. QED
    BY <2>1, <2>2
<1>12. Consecutive(r.values, r.at)
  <2>1. v.at = IF n = 0 THEN 5 ELSE output.values[n].at + output.values[n].size
    <3>1. output.at = IF n = 0 THEN 5 ELSE output.values[n].at + output.values[n].size
      BY <1>1 DEF Consecutive, n
    <3>. QED
      BY <1>6, <3>1
  <2>2. ASSUME NEW k \in 1..(n + 1)
        PROVE  values[k].size > 0 /\ values[k].at = IF k = 1 THEN 5 ELSE values[k - 1].at + values[k - 1].size
    <3>1. CASE k = n + 1
      <4>1. values[k] = v /\ v.size > 0
        BY <1>5, <1>6, <1>8, <3>1
      <4>2. CASE n = 0
        BY <2>1, <3>1, <4>1, <4>2
      <4>3. CASE n # 0
        <5>1. k # 1 /\ k - 1 = n /\ n \in 1..n
          BY <1>8, <3>1, <4>3
        <5>2. values[k - 1] = output.values[n]
          BY <1>8, <5>1
        <5>. QED
          BY <2>1, <4>1, <4>3, <5>1, <5>2
      <4>. QED
        BY <4>2, <4>3
    <3>2. CASE k # n + 1
      <4>1. k \in 1..n /\ (k # 1 => k - 1 \in 1..n)
        BY <1>8, <3>2
      <4>2. output.values[k].size > 0
            /\ output.values[k].at = IF k = 1 THEN 5 ELSE output.values[k - 1].at + output.values[k - 1].size
        BY <1>1, <1>8, <4>1 DEF Consecutive
      <4>3. values[k] = output.values[k] /\ (k # 1 => values[k - 1] = output.values[k - 1])
        BY <1>8, <4>1
      <4>. QED
        BY <4>2, <4>3
    <3>. QED
      BY <3>1, <3>2
  <2>3. values[n + 1].at + values[n + 1].size = e
    BY <1>5, <1>6, <1>8
  <2>4. n + 1 # 0
    BY <1>8
  <2>. QED
    BY <1>8, <1>10, <2>2, <2>3, <2>4 DEF Consecutive
<1>13. Delivering(input, r)
  <2>1. input.op # "open" /\ input.op \notin {"get", "walk"}
    BY <1>1
  <2>. QED
    BY <1>1, <1>3, <1>5, <1>9, <1>10, <1>11, <1>12, <2>1 DEF Delivering
<1>. QED
  BY <1>1, <1>13 DEF DocumentInv

(* A call that ends with the values it found.                              *)
LEMMA FoundKeeps ==
    ASSUME NEW i, NEW o, Delivering(i, o), i.op \in {"get", "walk"}, NEW V, NEW values \in Seq(V),
           (i.chunk.at + i.chunk.size) - 1 <= Len(i.bytes),
           \A k \in DOMAIN values : Inside(values[k], i.chunk.at + i.chunk.size)
    PROVE  Delivering(i, [o EXCEPT !.status = "OK", !.values = values])
<1>1. PICK W : o \in Outputs(W)
  BY DEF Delivering
<1> DEFINE r == [o EXCEPT !.status = "OK", !.values = values]
<1>2. r \in Outputs(V) /\ r.status = "OK" /\ r.values = values
  BY <1>1 DEF Outputs, Statuses
<1> HIDE DEF r
<1>3. EndOf(i) = i.chunk.at + i.chunk.size /\ i.op # "open" /\ i.op # "walk_array"
  BY DEF EndOf
<1>4. "OK" # "called" /\ "OK" # "walking"
  OBVIOUS
<1>. QED
  BY <1>2, <1>3, <1>4 DEF Delivering, r

(* The chunk a path starts from, and the value it leads to.                *)
LEMMA PathFound ==
    ASSUME input \in Inputs, input.op \in {"get", "walk"}
    PROVE  /\ Readable /\ input.chunk.at \in Nat /\ input.chunk.size \in Nat
           /\ InFile(input.chunk) => (input.chunk.at + input.chunk.size) - 1 <= Len(input.bytes)
           /\ \A v \in GetIn(Root(input.chunk), input.path) : Inside(v, input.chunk.at + input.chunk.size)
<1> DEFINE root == Root(input.chunk)
           end == input.chunk.at + input.chunk.size
<1>1. /\ Readable /\ input.chunk.at \in Nat /\ input.chunk.size \in Nat
      /\ Len(input.path) \in Nat /\ Len(input.bytes) \in Nat
  BY InputsAssumption DEF Readable
<1>2. end \in Nat /\ Inside(root, end)
  BY <1>1 DEF Inside, Root
<1>3. GetIn(root, input.path) \subseteq Reached(root, end)
  <2> HIDE DEF root, end
  <2>. QED
    BY <1>1, <1>2, PathsInside
<1>4. \A v \in Reached(root, end) : Inside(v, end)
  <2> HIDE DEF root, end
  <2>. QED
    BY <1>1, <1>2, ReachedInside
<1>5. InFile(input.chunk) => end - 1 <= Len(input.bytes)
  BY <1>1 DEF InFile
<1>. QED
  BY <1>1, <1>3, <1>4, <1>5

(* The chunk that is read ends within the file.                            *)
LEMMA ChunkEnds ==
    ASSUME input \in Inputs, input.op \in {"get", "walk"}, InFile(input.chunk)
    PROVE  Readable /\ (input.chunk.at + input.chunk.size) - 1 <= Len(input.bytes)
<1> DEFINE a == input.chunk.at
           s == input.chunk.size
           n == Len(input.bytes)
<1>1. Readable /\ a \in Nat /\ s \in Nat /\ n \in Nat
  BY InputsAssumption DEF Readable
<1>2. a - 1 + s <= n
  BY DEF InFile
<1> HIDE DEF a, s, n
<1>3. (a + s) - 1 <= n
  BY <1>1, <1>2
<1>. QED
  BY <1>1, <1>3 DEF a, s, n

(* redfs_cr2w_get gives a value inside the chunk.                          *)
LEMMA GetKeeps ==
    ASSUME DocumentInv, Get
    PROVE  DocumentInv'
<1> DEFINE found == GetIn(Root(input.chunk), input.path)
           lost == NotFound(Root(input.chunk), input.path)
           v == CHOOSE x \in found : TRUE
<1>1. /\ input \in Inputs /\ input.op = "get" /\ input' = input /\ Delivering(input, output)
      /\ output' = IF ~InFile(input.chunk) THEN [output EXCEPT !.status = "CORRUPT"]
                   ELSE IF found = {} THEN [output EXCEPT !.status = lost]
                   ELSE [output EXCEPT !.status = "OK", !.values = <<v>>]
  BY DEF DocumentInv, Delivering, Get, Calling
<1>2. input.op \in {"get", "walk"} /\ input.op # "walk_array"
  BY <1>1
<1>3. \A s \in {"CORRUPT", "NOT_FOUND", "INVALID_ARG"} : Delivering(input, [output EXCEPT !.status = s])
  <2>1. \A s \in {"CORRUPT", "NOT_FOUND", "INVALID_ARG"} : s \in Statuses /\ s \notin {"called", "walking", "OK"}
    BY DEF Statuses
  <2>. QED
    BY <1>1, <1>2, <2>1, StatusChange
<1>4. InFile(input.chunk) /\ found # {} => Delivering(input, [output EXCEPT !.status = "OK", !.values = <<v>>])
  <2> SUFFICES ASSUME InFile(input.chunk), found # {}
               PROVE  Delivering(input, [output EXCEPT !.status = "OK", !.values = <<v>>])
    OBVIOUS
  <2>1. v \in found
    OBVIOUS
  <2>2. Inside(v, input.chunk.at + input.chunk.size)
        /\ (input.chunk.at + input.chunk.size) - 1 <= Len(input.bytes)
    <3>1. input \in Inputs /\ input.op \in {"get", "walk"} /\ InFile(input.chunk)
      BY <1>1, <1>2
    <3> HIDE DEF v
    <3>. QED
      BY <2>1, <3>1, PathFound
  <2> HIDE DEF v
  <2>3. <<v>> \in Seq({v}) /\ \A k \in DOMAIN <<v>> : <<v>>[k] = v
    OBVIOUS
  <2>. QED
    BY <1>1, <1>2, <2>2, <2>3, FoundKeeps
<1>5. lost \in {"NOT_FOUND", "INVALID_ARG"}
  BY DEF NotFound
<1> HIDE DEF found, lost, v
<1>6. Delivering(input, output')
  BY <1>1, <1>3, <1>4, <1>5
<1>. QED
  BY <1>1, <1>6 DEF DocumentInv

(* redfs_cr2w_walk gives the properties of a struct inside the chunk.      *)
LEMMA WalkKeeps ==
    ASSUME DocumentInv, Walk
    PROVE  DocumentInv'
<1> DEFINE found == GetIn(Root(input.chunk), input.path)
           lost == NotFound(Root(input.chunk), input.path)
           v == CHOOSE x \in found : TRUE
           props == Props(v.at, v.at + v.size)
           values == [k \in DOMAIN props |-> DecodeProp(props[k])]
<1>1. /\ input \in Inputs /\ input.op = "walk" /\ input' = input /\ Delivering(input, output)
      /\ output' = IF ~InFile(input.chunk) THEN [output EXCEPT !.status = "CORRUPT"]
                   ELSE IF found = {} THEN [output EXCEPT !.status = lost]
                   ELSE IF v.kind # "STRUCT" THEN [output EXCEPT !.status = "INVALID_ARG"]
                   ELSE [output EXCEPT !.status = "OK", !.values = values]
  BY DEF DocumentInv, Delivering, Walk, Calling
<1>2. input.op \in {"get", "walk"} /\ input.op # "walk_array"
  BY <1>1
<1>3. \A s \in {"CORRUPT", "NOT_FOUND", "INVALID_ARG"} : Delivering(input, [output EXCEPT !.status = s])
  <2>1. \A s \in {"CORRUPT", "NOT_FOUND", "INVALID_ARG"} : s \in Statuses /\ s \notin {"called", "walking", "OK"}
    BY DEF Statuses
  <2>. QED
    BY <1>1, <1>2, <2>1, StatusChange
<1>4. InFile(input.chunk) /\ found # {} => Delivering(input, [output EXCEPT !.status = "OK", !.values = values])
  <2> SUFFICES ASSUME InFile(input.chunk), found # {}
               PROVE  Delivering(input, [output EXCEPT !.status = "OK", !.values = values])
    OBVIOUS
  <2> DEFINE end == input.chunk.at + input.chunk.size
  <2>1. v \in found
    OBVIOUS
  <2> HIDE DEF v
  <2>2. Inside(v, end) /\ end - 1 <= Len(input.bytes) /\ Readable
    <3>1. input \in Inputs /\ input.op \in {"get", "walk"} /\ InFile(input.chunk)
      BY <1>1, <1>2
    <3> HIDE DEF values, props
    <3>2. v \in GetIn(Root(input.chunk), input.path)
      BY <2>1
    <3> HIDE DEF found
    <3>3. \A w \in GetIn(Root(input.chunk), input.path) : Inside(w, input.chunk.at + input.chunk.size)
      BY <3>1, PathFound
    <3>4. Readable /\ end - 1 <= Len(input.bytes)
      BY <3>1, ChunkEnds
    <3>5. Inside(v, input.chunk.at + input.chunk.size)
      BY <3>2, <3>3
    <3>6. Inside(v, end)
      BY <3>5, Zenon
    <3> HIDE DEF end
    <3>. QED
      BY <3>4, <3>6
  <2>3. v.at \in Nat /\ v.size \in Nat /\ v.at + v.size \in Nat /\ v.at + v.size <= end
    BY <2>2 DEF Inside
  <2>4. props \in Seq(Fitting(v.at + v.size))
    BY <2>2, <2>3, PropsInside
  <2> HIDE DEF props
  <2>5. ASSUME NEW k \in DOMAIN props
        PROVE  Inside(DecodeProp(props[k]), end)
    <3>1. props[k] \in Fitting(v.at + v.size)
      BY <2>4
    <3> DEFINE q == props[k]
    <3>2. q.at \in Nat /\ q.size \in Nat /\ q.at + q.size <= v.at + v.size
      BY <3>1 DEF Fitting
    <3>3. end \in Int
      BY <1>1, <1>2, PathFound
    <3> HIDE DEF q, end
    <3>4. q.at + q.size <= end
      BY <2>3, <3>2, <3>3
    <3>5. Inside(DecodeProp(q), end)
      BY <2>2, <3>2, <3>4, Decoding DEF DecodeProp
    <3>. QED
      BY <3>5 DEF q
  <2>6. values \in Seq({DecodeProp(props[k]) : k \in DOMAIN props}) /\ DOMAIN values = DOMAIN props
        /\ \A k \in DOMAIN props : values[k] = DecodeProp(props[k])
    <3>1. DOMAIN props = 1..Len(props) /\ Len(props) \in Nat
      BY <2>4
    <3>. QED
      BY <3>1
  <2> HIDE DEF values
  <2>7. \A k \in DOMAIN values : Inside(values[k], end)
    BY <2>5, <2>6
  <2> DEFINE W == {DecodeProp(props[k]) : k \in DOMAIN props}
  <2>8. values \in Seq(W)
    BY <2>6
  <2> HIDE DEF W
  <2>9. /\ (input.chunk.at + input.chunk.size) - 1 <= Len(input.bytes)
        /\ \A k \in DOMAIN values : Inside(values[k], input.chunk.at + input.chunk.size)
    <3>1. input.chunk.at \in Nat /\ input.chunk.size \in Nat
      BY <1>1, <1>2, PathFound
    <3> HIDE DEF values
    <3>2. \A k \in DOMAIN values : Inside(values[k], input.chunk.at + input.chunk.size)
      BY <2>7 DEF end
    <3>. QED
      BY <2>2, <3>1, <3>2
  <2> HIDE DEF end
  <2>. QED
    BY <1>1, <1>2, <2>8, <2>9, FoundKeeps
<1>5. lost \in {"NOT_FOUND", "INVALID_ARG"}
  BY DEF NotFound
<1> HIDE DEF found, lost, v, values
<1>6. Delivering(input, output')
  BY <1>1, <1>3, <1>4, <1>5
<1>. QED
  BY <1>1, <1>6 DEF DocumentInv

(* The ends of a walk, and the opening of a document, deliver no value.    *)
LEMMA RestKeeps ==
    ASSUME DocumentInv, Malformed \/ Delivered \/ Open
    PROVE  DocumentInv'
<1>1. /\ input' = input /\ Delivering(input, output)
      /\ \/ output.status = "walking" /\ output' = [output EXCEPT !.status = "CORRUPT"]
         \/ output.status = "walking" /\ output' = [output EXCEPT !.status = "OK"]
         \/ input.op = "open" /\ output.status = "called" /\ output' = [output EXCEPT !.status = Parsed(input.file)]
  BY DEF DocumentInv, Malformed, Delivered, Open, Walking, Calling
<1>2. PICK V : output \in Outputs(V)
  BY <1>1 DEF Delivering
<1>3. \A s \in Statuses : LET r == [output EXCEPT !.status = s]
                        IN  r \in Outputs(V) /\ r.status = s /\ r.at = output.at /\ r.values = output.values
  BY <1>2 DEF Outputs
<1>4. Parsed(input.file) \in {"OK", "CORRUPT", "UNSUPPORTED"}
  BY DEF Parsed
<1>5. {"OK", "CORRUPT", "UNSUPPORTED"} \subseteq Statuses
  BY DEF Statuses
<1>6. output'.status \in {"OK", "CORRUPT", "UNSUPPORTED"} /\ output' \in Outputs(V)
      /\ output'.at = output.at /\ output'.values = output.values
  <2>1. \E s \in {"OK", "CORRUPT", "UNSUPPORTED"} : output' = [output EXCEPT !.status = s]
    BY <1>1, <1>4
  <2>2. PICK s \in {"OK", "CORRUPT", "UNSUPPORTED"} : output' = [output EXCEPT !.status = s]
    BY <2>1
  <2>3. s \in Statuses
    BY <1>5
  <2>. QED
    BY <1>3, <2>2, <2>3
<1>7. output'.status # "called" /\ output'.status # "walking"
  BY <1>6
<1>8. CASE output.status = "walking"
  <2>1. input.op = "walk_array" /\ input.op # "open" /\ input.op \notin {"get", "walk"} /\ output.status # "called"
    BY <1>1, <1>8 DEF Delivering
  <2>2. Delivering(input, output')
    BY <1>1, <1>6, <1>7, <2>1 DEF Delivering
  <2>. QED
    BY <1>1, <2>2 DEF DocumentInv
<1>9. CASE output.status # "walking"
  <2>1. input.op = "open" /\ output'.status = Parsed(input.file)
    BY <1>1, <1>3, <1>4, <1>5, <1>9
  <2>2. input.op # "walk_array" /\ input.op \notin {"get", "walk"}
    BY <2>1
  <2>3. Delivering(input, output')
    BY <1>1, <1>6, <1>7, <2>1, <2>2 DEF Delivering
  <2>. QED
    BY <1>1, <2>3 DEF DocumentInv
<1>. QED
  BY <1>8, <1>9

(* It holds in every state of a call about a document.                     *)
LEMMA DocumentAlways == FilesSpec => [](reader = "document" => DocumentInv)
<1>1. FilesInit => (reader = "document" => DocumentInv)
  <2> SUFFICES ASSUME Init
               PROVE  DocumentInv
    BY DEF FilesInit
  <2>. QED
    BY DocumentStart
<1>2. (reader = "document" => DocumentInv) /\ [FilesNext]_fileVars => (reader = "document" => DocumentInv)'
  <2> SUFFICES ASSUME reader = "document" => DocumentInv, [FilesNext]_fileVars, reader' = "document"
               PROVE  DocumentInv'
    OBVIOUS
  <2>1. reader = "document" /\ DocumentInv
    BY DEF FilesNext, ReadDocument, ReadTexture, ReadSound, ReadMesh, ReadArchive, Mount, DecodeSegments, fileVars
  <2>2. CASE ReadDocument
    BY <2>1, <2>2, WalkArrayKeeps, DeliverKeeps, GetKeeps, WalkKeeps, RestKeeps DEF ReadDocument, Next
  <2>3. CASE UNCHANGED <<input, output>>
    BY <2>1, <2>3 DEF DocumentInv
  <2>. QED
    BY <2>1, <2>2, <2>3
       DEF FilesNext, ReadTexture, ReadSound, ReadMesh, ReadArchive, Mount, DecodeSegments, fileVars, vars
<1>. QED
  BY <1>1, <1>2, PTL DEF FilesSpec

(* A document that opens has its tables inside the file.                   *)
LEMMA Openable ==
    ASSUME DocumentInv
    PROVE  OpenedSafe
<1> DEFINE f == input.file
<1> SUFFICES ASSUME input.op = "open", output.status = "OK"
             PROVE  /\ \A t \in DOMAIN Stride : \A row \in 1..f[t].count : f[t].offset + row * Stride[t] <= f.size
                    /\ f.strings.offset + f.strings.count <= f.size
                    /\ \A s \in 0..(f.strings.count - 1) :
                          \E n \in f.nuls : f.strings.offset + s <= n /\ n < f.strings.offset + f.strings.count
  BY DEF OpenedSafe
<1>1. Parsed(f) = "OK" /\ input \in Inputs
  BY DEF DocumentInv, Delivering
<1>2. \A t \in {"strings", "names", "imports", "chunks", "buffers"} :
          f.size \in Nat /\ f[t].offset \in Nat /\ f[t].count \in Nat
  BY <1>1, InputsAssumption
<1> HIDE DEF f
<1>3. /\ TableInside(f.strings, 1, f.size)
      /\ f.strings.count # 0 /\ f.strings.offset + f.strings.count - 1 \in f.nuls
      /\ \A t \in DOMAIN Stride : TableInside(f[t], Stride[t], f.size)
  BY <1>1 DEF Parsed
<1>4. ASSUME NEW t \in DOMAIN Stride, NEW row \in 1..f[t].count
      PROVE  f[t].offset + row * Stride[t] <= f.size
  <2>1. t \in {"names", "imports", "chunks", "buffers"} /\ Stride[t] \in Nat
    BY DEF Stride
  <2>2. f.size \in Nat /\ f[t].offset \in Nat /\ f[t].count \in Nat
    BY <1>2, <2>1
  <2>3. f[t].offset + f[t].count * Stride[t] <= f.size
    BY <1>3 DEF TableInside
  <2>4. row \in Nat /\ row <= f[t].count
    BY <2>2
  <2> DEFINE k == f[t].count
             w == Stride[t]
  <2> HIDE DEF k, w
  <2>5. row * w \in Nat /\ k * w \in Nat /\ row * w <= k * w
    BY <2>1, <2>2, <2>4, Products DEF k, w
  <2>. QED
    BY <2>2, <2>3, <2>5 DEF k, w
<1>5. f.strings.offset \in Nat /\ f.strings.count \in Nat /\ f.size \in Nat
  BY <1>2
<1>6. f.strings.offset + f.strings.count <= f.size
  BY <1>3, <1>5 DEF TableInside
<1>7. ASSUME NEW s \in 0..(f.strings.count - 1)
      PROVE  \E n \in f.nuls : f.strings.offset + s <= n /\ n < f.strings.offset + f.strings.count
  BY <1>3, <1>5
<1>. QED
  BY <1>4, <1>6, <1>7

(* Whatever bytes a document holds, no value, text or array that is        *)
(* delivered leaves the bytes it was found in, every search for an end     *)
(* ends, and a document that opens has its tables inside the file.         *)
THEOREM ValuesStayInside == FilesSpec => []DocumentInside
<1>1. DocumentInv => WalkInside
  <2> DEFINE end == IF input.op = "walk_array" THEN Limit ELSE input.chunk.at + input.chunk.size
             v(k) == output.values[k]
  <2> SUFFICES ASSUME DocumentInv, input.op # "open"
               PROVE  /\ Walking => ElementEnd(output.at) # Running
                      /\ \A k \in DOMAIN output.values :
                            /\ v(k).at + v(k).size <= end
                            /\ v(k).kind = "STRING" => v(k).as.from >= v(k).at /\ v(k).as.from + v(k).as.bytes <= v(k).at + v(k).size
                            /\ v(k).kind = "BUFFER" => v(k).as < MainPart
                            /\ input.op = "walk_array" =>
                                  /\ v(k).size > 0
                                  /\ v(k).at = IF k = 1 THEN 5 ELSE v(k - 1).at + v(k - 1).size
                      /\ input.op # "walk_array" /\ output.status = "OK" => end - 1 <= Len(input.bytes)
    BY DEF WalkInside
  <2>1. Delivering(input, output) /\ EndOf(input) = end
    BY DEF DocumentInv, EndOf, Limit
  <2> HIDE DEF end
  <2>2. \A k \in DOMAIN output.values :
            /\ v(k).at + v(k).size <= end
            /\ v(k).kind = "STRING" => v(k).as.from >= v(k).at /\ v(k).as.from + v(k).as.bytes <= v(k).at + v(k).size
            /\ v(k).kind = "BUFFER" => v(k).as < MainPart
    BY <2>1 DEF Delivering, Inside
  <2>3. Walking => ElementEnd(output.at) # Running
    <3> SUFFICES ASSUME Walking
                 PROVE  ElementEnd(output.at) # Running
      OBVIOUS
    <3>1. /\ input \in Inputs /\ input.op = "walk_array" /\ IsArray(input.type) /\ input.size >= 4
          /\ output.at \in 5..(1 + input.size)
      BY <2>1 DEF Walking, Delivering
    <3>2. input.size \in Nat
      BY <3>1, InputsAssumption
    <3>3. WalkedArray /\ output.at \in 5..Limit /\ Limit \in Nat
      BY <3>1, <3>2 DEF WalkedArray, Readable, Limit
    <3>4. ElementEnd(output.at) \in 0..Limit
      BY <3>3, ElementEnds
    <3>. QED
      BY <3>3, <3>4 DEF Running
  <2>4. ASSUME NEW k \in DOMAIN output.values, input.op = "walk_array"
        PROVE  v(k).size > 0 /\ v(k).at = IF k = 1 THEN 5 ELSE v(k - 1).at + v(k - 1).size
    <3>1. CASE output.status = "called"
      <4>1. output.values = <<>>
        BY <2>1, <3>1 DEF Delivering, NoOutput
      <4>. QED
        BY <4>1
    <3>2. CASE output.status # "called"
      BY <2>1, <2>4, <3>2 DEF Delivering, Consecutive
    <3>. QED
      BY <3>1, <3>2
  <2>5. input.op # "walk_array" /\ output.status = "OK" => end - 1 <= Len(input.bytes)
    <3>1. input.op # "walk_array" => input.op \in {"get", "walk"} /\ end = input.chunk.at + input.chunk.size
      BY <2>1, InputsAssumption DEF Delivering, end
    <3>2. input.op \in {"get", "walk"} /\ output.status = "OK"
             => (input.chunk.at + input.chunk.size) - 1 <= Len(input.bytes)
      BY <2>1 DEF Delivering
    <3>3. input.op # "walk_array" => input.chunk.at \in Nat /\ input.chunk.size \in Nat
      BY <2>1, <3>1, PathFound DEF Delivering
    <3>. QED
      BY <3>1, <3>2, <3>3
  <2>. QED
    BY <2>2, <2>3, <2>4, <2>5
<1>2. (reader = "document" => DocumentInv) => DocumentInside
  BY <1>1, Openable DEF DocumentInside
<1>. QED
  BY <1>2, DocumentAlways, PTL

-----------------------------------------------------------------------------
(* The textures: shifts.                                                   *)

(* Each bit shifted in doubles a number.                                   *)
LEMMA Doubling ==
    ASSUME NEW n \in Nat, NEW s \in Nat
    PROVE  /\ T!Left(n, s) \in Nat /\ (s > 0 => T!Left(n, s) >= 2 * n)
           /\ n > 0 => T!Left(n, s) >= n + s
<1> DEFINE step == [x \in Nat \X (1..s) |-> 2 * x[1]]
<1>1. step \in [Nat \X (1..s) -> Nat] /\ \A x \in Nat, k \in 1..s : step[<<x, k>>] = 2 * x
  OBVIOUS
<1> HIDE DEF step
<1>2. PICK f \in [0..s -> Nat] : Unrolls(f, n, step, s)
  BY <1>1, Looping
<1>3. f[0] = n /\ \A k \in 1..s : f[k] = 2 * f[k - 1] /\ f[k - 1] \in Nat /\ f[k] \in Nat
  <2>1. \A k \in 1..s : k - 1 \in 0..s /\ k \in 0..s
    OBVIOUS
  <2>. QED
    BY <1>1, <1>2, <2>1 DEF Unrolls
<1>4. f = [k \in 0..s |-> IF k = 0 THEN n ELSE 2 * f[k - 1]]
  <2>1. \A k \in 0..s : k = 0 \/ k \in 1..s
    OBVIOUS
  <2>2. \A k \in 0..s : f[k] = IF k = 0 THEN n ELSE 2 * f[k - 1]
    BY <1>3, <2>1
  <2>. QED
    BY <2>2
<1> DEFINE at[k \in 0..s] == IF k = 0 THEN n ELSE 2 * at[k - 1]
<1>5. at = [k \in 0..s |-> IF k = 0 THEN n ELSE 2 * at[k - 1]]
  BY <1>4
<1>6. T!Left(n, s) = at[s]
  BY DEF T!Left
<1> HIDE DEF at
<1> DEFINE G == {k \in 0..s : /\ at[k] \in Nat /\ (k > 0 => at[k] >= 2 * n) /\ at[k] >= n
                              /\ n > 0 => at[k] >= n + k}
<1>7. 0 \in G
  BY <1>5
<1>8. ASSUME NEW k \in 1..s, k - 1 \in G
      PROVE  k \in G
  <2>1. at[k] = 2 * at[k - 1] /\ at[k - 1] \in Nat /\ at[k - 1] >= n /\ (n > 0 => at[k - 1] >= n + (k - 1))
    BY <1>5, <1>8
  <2>. QED
    BY <2>1
<1>9. \A k \in 0..s : k \in G
  <2> HIDE DEF G
  <2>. QED
    BY <1>7, <1>8, Counting
<1>10. s \in G
  BY <1>9
<1>. QED
  BY <1>6, <1>10

(* What bits shifted out leave is no more than the number.                 *)
LEMMA Halving ==
    ASSUME NEW n \in Nat, NEW m \in Nat
    PROVE  T!Right(n, m) \in 0..n
<1> DEFINE step == [x \in Nat \X (1..m) |-> x[1] \div 2]
<1>1. step \in [Nat \X (1..m) -> Nat] /\ \A x \in Nat, k \in 1..m : step[<<x, k>>] = x \div 2
  OBVIOUS
<1> HIDE DEF step
<1>2. PICK f \in [0..m -> Nat] : Unrolls(f, n, step, m)
  BY <1>1, Looping
<1>3. f[0] = n /\ \A k \in 1..m : f[k] = f[k - 1] \div 2
  <2>1. \A k \in 1..m : k - 1 \in 0..m /\ k \in 0..m
    OBVIOUS
  <2>. QED
    BY <1>1, <1>2, <2>1 DEF Unrolls
<1>4. f = [k \in 0..m |-> IF k = 0 THEN n ELSE f[k - 1] \div 2]
  <2>1. \A k \in 0..m : k = 0 \/ k \in 1..m
    OBVIOUS
  <2>2. \A k \in 0..m : f[k] = IF k = 0 THEN n ELSE f[k - 1] \div 2
    BY <1>3, <2>1
  <2>. QED
    BY <2>2
<1> DEFINE at[k \in 0..m] == IF k = 0 THEN n ELSE at[k - 1] \div 2
<1>5. at = [k \in 0..m |-> IF k = 0 THEN n ELSE at[k - 1] \div 2]
  BY <1>4
<1>6. T!Right(n, m) = at[m]
  BY DEF T!Right
<1> HIDE DEF at
<1> DEFINE G == {k \in 0..m : at[k] \in 0..n}
<1>7. 0 \in G
  BY <1>5
<1>8. ASSUME NEW k \in 1..m, k - 1 \in G
      PROVE  k \in G
  <2>1. at[k] = at[k - 1] \div 2 /\ at[k - 1] \in 0..n
    BY <1>5, <1>8
  <2>. QED
    BY <2>1
<1>9. \A k \in 0..m : k \in G
  <2> HIDE DEF G
  <2>. QED
    BY <1>7, <1>8, Counting
<1>10. m \in G
  BY <1>9
<1>. QED
  BY <1>6, <1>10

(* A sum of numbers is a number, and no less than any of them.             *)
LEMMA PartOfTotal ==
    ASSUME NEW s, Indexed(s), \A k \in DOMAIN s : s[k] \in Nat
    PROVE  /\ T!Total(s) \in Nat /\ (Len(s) = 0 => T!Total(s) = 0)
           /\ \A k \in DOMAIN s : s[k] <= T!Total(s)
<1>1. T!Total(s) = M!Total(s)
  BY DEF T!Total, M!Total
<1>2. PICK f : Sums(f, s) /\ M!Total(s) = f[Len(s)]
  BY Summing
<1>3. Len(s) \in Nat /\ DOMAIN s = 1..Len(s) /\ f \in [0..Len(s) -> Nat] /\ f[0] = 0
  BY <1>2 DEF Indexed, Sums
<1>4. ASSUME NEW k \in DOMAIN s
      PROVE  s[k] <= f[Len(s)]
  <2>1. k - 1 \in 0..Len(s) /\ k \in 0..Len(s) /\ k \in 1..Len(s)
    BY <1>3
  <2>2. f[k] = f[k - 1] + s[k] /\ f[k] <= f[Len(s)]
    BY <1>2, <2>1, SumsGrow DEF Sums
  <2>3. f[k] \in Nat /\ f[k - 1] \in Nat /\ f[Len(s)] \in Nat /\ s[k] \in Nat
    BY <1>3, <2>1
  <2>. QED
    BY <2>2, <2>3
<1>. QED
  BY <1>1, <1>2, <1>3, <1>4

-----------------------------------------------------------------------------
(* The textures: sizes.                                                    *)

(* A format is one the library and redfs_verify know the same sizes of.    *)
LEMMA FormatKnown ==
    ASSUME NEW c, NEW r, NEW g \in BOOLEAN
    PROVE  T!FormatOf(c, r, g) \in DOMAIN T!Bits \cup T!BlockCompressed \cup {"UNKNOWN"}
BY DEF T!FormatOf, T!Bits, T!BlockCompressed, T!Srgb

(* The two tables agree.                                                   *)
LEMMA TablesAgree ==
    ASSUME NEW f
    PROVE  /\ f \in DOMAIN T!Bits =>
                 f \notin T!BlockCompressed /\ T!Bits[f] = T!BitsPerPixel(f) /\ T!Bits[f] \in {8, 16, 32, 64, 128}
           /\ f \in T!BlockCompressed =>
                 f \notin DOMAIN T!Bits /\ T!BlockBytes(f) = IF f \in T!Block8 THEN 8 ELSE 16
<1>1. DOMAIN T!Bits = {"R32G32B32A32_FLOAT", "R16G16B16A16_FLOAT", "R16G16B16A16_UNORM", "R8G8B8A8_UNORM",
                       "R8G8B8A8_UNORM_SRGB", "R8G8_UNORM", "R16_FLOAT", "R8_UNORM", "A8_UNORM"}
  BY DEF T!Bits
<1>2. f \in DOMAIN T!Bits => T!Bits[f] = T!BitsPerPixel(f) /\ T!Bits[f] \in {8, 16, 32, 64, 128}
  BY <1>1 DEF T!Bits, T!BitsPerPixel
<1>. QED
  BY <1>1, <1>2 DEF T!BlockCompressed, T!BlockBytes, T!Block8

(* Words and longs are numbers.                                            *)
LEMMA WordWide == T!Word \in Nat /\ T!Word > 5 /\ T!Long \in Nat /\ ExtentBits \in Nat
<1>1. ExtentBits \in Nat /\ ExtentBits > 4
  BY TexturesAssumption
<1>2. T!Left(1, ExtentBits) \in Nat /\ T!Left(1, ExtentBits) >= 1 + ExtentBits
  BY <1>1, Doubling
<1>3. T!Word \in Nat /\ T!Word > 5
  BY <1>1, <1>2 DEF T!Word
<1>. QED
  BY <1>1, <1>3 DEF T!Long

(* The extent of a level, and the bytes redfs_verify gives it.             *)
Extent(n, m) == T!AtLeast1(T!Right(n, m))
PixelBytes(f, w, h) ==
    IF f \in DOMAIN T!Bits THEN (w * h * T!Bits[f]) \div 8
    ELSE ((w + 3) \div 4) * ((h + 3) \div 4) * (IF f \in T!Block8 THEN 8 ELSE 16)
SurfaceBytes(t, m) == Extent(t.depth, m) * PixelBytes(t.format, Extent(t.width, m), Extent(t.height, m))
Surfaces(t, c) == [n \in 1..c |-> SurfaceBytes(t, n - 1)]

(* An extent that is one, stays one.                                       *)
LEMMA ExtentOf ==
    ASSUME NEW n \in Nat, NEW m \in Nat
    PROVE  Extent(n, m) \in Nat /\ Extent(n, m) > 0 /\ (n > 0 => Extent(n, m) <= n) /\ (n <= 1 => Extent(n, m) = 1)
<1>1. T!Right(n, m) \in 0..n
  BY Halving
<1>. QED
  BY <1>1 DEF Extent, T!AtLeast1

(* The library counts a surface's bytes as redfs_verify does, if nothing   *)
(* wraps.                                                                  *)
LEMMA LevelAgrees ==
    ASSUME NEW f \in DOMAIN T!Bits \cup T!BlockCompressed, NEW w \in Nat, NEW h \in Nat,
           f \notin DOMAIN T!Bits => w + 3 < T!Word /\ h + 3 < T!Word,
           8 * PixelBytes(f, w, h) < T!Long
    PROVE  T!LevelBytes(f, w, h) = PixelBytes(f, w, h)
<1>0. T!Word \in Nat /\ T!Word > 5 /\ T!Long \in Nat
  BY WordWide
<1>1. CASE f \in DOMAIN T!Bits
  <2> DEFINE a == w * h
             b == T!Bits[f]
  <2>1. a \in Nat /\ b \in {8, 16, 32, 64, 128} /\ f \notin T!BlockCompressed /\ b = T!BitsPerPixel(f)
    BY <1>1, TablesAgree
  <2>2. T!LevelBytes(f, w, h) = ((a * b) % T!Long) \div 8 /\ PixelBytes(f, w, h) = (a * b) \div 8
    BY <1>1, <2>1 DEF T!LevelBytes, PixelBytes
  <2> HIDE DEF a, b
  <2>3. 8 * ((a * b) \div 8) = a * b /\ a * b \in Nat
    BY <2>1
  <2>4. a * b < T!Long
    BY <2>2, <2>3
  <2>5. (a * b) % T!Long = a * b
    BY <1>0, <2>3, <2>4
  <2>. QED
    BY <2>2, <2>5
<1>2. CASE f \notin DOMAIN T!Bits
  <2> DEFINE x == (w + 3) \div 4
             y == (h + 3) \div 4
             b == IF f \in T!Block8 THEN 8 ELSE 16
             p == x * y * b
  <2>1. f \in T!BlockCompressed /\ T!BlockBytes(f) = b
    BY <1>2, TablesAgree
  <2>2. T!Blocks(w) = x /\ T!Blocks(h) = y
    BY <1>0, <1>2 DEF T!Blocks
  <2>3. T!LevelBytes(f, w, h) = p % T!Long /\ PixelBytes(f, w, h) = p
    BY <1>2, <2>1, <2>2 DEF T!LevelBytes, PixelBytes
  <2>4. x \in Nat /\ y \in Nat /\ b \in Nat
    OBVIOUS
  <2>5. p \in Nat
    <3> HIDE DEF x, y, b
    <3>. QED
      BY <2>4
  <2> HIDE DEF p
  <2>6. p < T!Long
    BY <1>0, <2>3, <2>5
  <2>7. p % T!Long = p
    BY <1>0, <2>5, <2>6
  <2>. QED
    BY <2>3, <2>7
<1>. QED
  BY <1>1, <1>2

(* A surface takes a number of bytes.                                      *)
LEMMA PixelBytesNat ==
    ASSUME NEW f \in DOMAIN T!Bits \cup T!BlockCompressed, NEW w \in Nat, NEW h \in Nat
    PROVE  PixelBytes(f, w, h) \in Nat
<1>1. CASE f \in DOMAIN T!Bits
  <2> DEFINE a == w * h
             b == T!Bits[f]
  <2>1. a \in Nat /\ b \in Nat
    BY <1>1, TablesAgree
  <2>2. PixelBytes(f, w, h) = (a * b) \div 8
    BY <1>1 DEF PixelBytes
  <2> HIDE DEF a, b
  <2>3. a * b \in Nat
    BY <2>1
  <2>. QED
    BY <2>2, <2>3
<1>2. CASE f \notin DOMAIN T!Bits
  <2> DEFINE x == (w + 3) \div 4
             y == (h + 3) \div 4
             b == IF f \in T!Block8 THEN 8 ELSE 16
  <2>1. x \in Nat /\ y \in Nat /\ b \in Nat
    OBVIOUS
  <2>2. PixelBytes(f, w, h) = x * y * b
    BY <1>2 DEF PixelBytes
  <2> HIDE DEF x, y, b
  <2>. QED
    BY <2>1, <2>2
<1>. QED
  BY <1>1, <1>2

(* A texture as its header declares it, of a format that has a size.       *)
Measured(t) ==
    /\ t.width \in Nat /\ t.height \in Nat /\ t.depth \in Nat /\ t.mips \in Nat /\ t.slices \in Nat
    /\ t.width > 0 /\ t.height > 0 /\ t.format \in DOMAIN T!Bits \cup T!BlockCompressed

(* The chain's size is a sum over its levels, for both.                    *)
LEMMA ChainSum ==
    ASSUME NEW t, Measured(t), NEW c \in Nat
    PROVE  /\ Indexed(Surfaces(t, c)) /\ Len(Surfaces(t, c)) = c
           /\ \A n \in 1..c : Surfaces(t, c)[n] = SurfaceBytes(t, n - 1) /\ SurfaceBytes(t, n - 1) \in Nat
           /\ T!Total(Surfaces(t, c)) \in Nat
           /\ \A n \in 1..c : SurfaceBytes(t, n - 1) <= T!Total(Surfaces(t, c))
<1> DEFINE s == Surfaces(t, c)
<1>1. Indexed(s) /\ Len(s) = c /\ \A n \in 1..c : s[n] = SurfaceBytes(t, n - 1)
  BY DEF Surfaces, Indexed
<1>2. ASSUME NEW n \in 1..c
      PROVE  SurfaceBytes(t, n - 1) \in Nat
  <2> DEFINE d == Extent(t.depth, n - 1)
             p == PixelBytes(t.format, Extent(t.width, n - 1), Extent(t.height, n - 1))
  <2>1. n - 1 \in Nat
    OBVIOUS
  <2>2. d \in Nat /\ Extent(t.width, n - 1) \in Nat /\ Extent(t.height, n - 1) \in Nat
    BY <2>1, ExtentOf DEF Measured
  <2>3. p \in Nat
    BY <2>2, PixelBytesNat DEF Measured
  <2>4. SurfaceBytes(t, n - 1) = d * p
    BY DEF SurfaceBytes
  <2> HIDE DEF d, p
  <2>. QED
    BY <2>2, <2>3, <2>4
<1> HIDE DEF s
<1>3. \A k \in DOMAIN s : s[k] \in Nat
  BY <1>1, <1>2 DEF Indexed
<1>4. T!Total(s) \in Nat /\ \A k \in DOMAIN s : s[k] <= T!Total(s)
  BY <1>1, <1>3, PartOfTotal
<1>5. \A n \in 1..c : SurfaceBytes(t, n - 1) <= T!Total(s)
  BY <1>1, <1>4 DEF Indexed
<1>. QED
  BY <1>1, <1>2, <1>4, <1>5 DEF s

(* redfs_verify's size is the sum over the surfaces.                       *)
LEMMA ExpectedSum ==
    ASSUME NEW t, NEW faces
    PROVE  T!ExpectedBytes(t, faces) = T!Total(Surfaces(t, t.mips)) * T!AtLeast1(faces)
BY DEF T!ExpectedBytes, Surfaces, SurfaceBytes, PixelBytes, Extent

(* The library and redfs_verify agree on every chain that can be sized.    *)
LEMMA ChainAgrees ==
    ASSUME NEW t, Measured(t), T!Sizable(t)
    PROVE  T!MipChainBytes(t) = T!ExpectedBytes(t, t.slices)
<1> DEFINE c == t.mips
           total == T!Total(Surfaces(t, c))
           a == T!AtLeast1(t.slices)
           Level(m) == T!LevelBytes(t.format, Extent(t.width, m), Extent(t.height, m)) * Extent(t.depth, m)
<1>1. c \in Nat /\ c <= ExtentBits /\ T!Long \in Nat /\ ExtentBits \in Nat
  BY WordWide DEF Measured, T!Sizable
<1>2. total \in Nat /\ \A n \in 1..c : SurfaceBytes(t, n - 1) <= total /\ SurfaceBytes(t, n - 1) \in Nat
  BY <1>1, ChainSum
<1>3. a \in Nat /\ a > 0
  BY DEF Measured, T!AtLeast1
<1>4. T!ExpectedBytes(t, t.slices) = total * a /\ 8 * (total * a) < T!Long
  BY ExpectedSum DEF T!Sizable
<1>5. total * a \in Nat /\ total <= total * a
  <2> HIDE DEF total, a
  <2>. QED
    BY <1>2, <1>3
<1>6. 8 * total < T!Long /\ total < T!Long /\ total * a < T!Long
  <2> HIDE DEF total, a
  <2> DEFINE e == total * a
  <2>1. e \in Nat /\ total <= e /\ 8 * e < T!Long
    BY <1>4, <1>5
  <2> HIDE DEF e
  <2>2. e < T!Long /\ 8 * total < T!Long /\ total < T!Long
    BY <1>1, <1>2, <2>1
  <2>. QED
    BY <2>2 DEF e
<1>7. ASSUME NEW n \in 1..c
      PROVE  Level(n - 1) = SurfaceBytes(t, n - 1)
  <2> DEFINE w == Extent(t.width, n - 1)
             h == Extent(t.height, n - 1)
             d == Extent(t.depth, n - 1)
             p == PixelBytes(t.format, w, h)
  <2>0. n - 1 \in Nat
    BY <1>1
  <2>1. /\ w \in Nat /\ h \in Nat /\ d \in Nat /\ d > 0 /\ w <= t.width /\ h <= t.height
        /\ t.width \in Nat /\ t.height \in Nat /\ t.format \in DOMAIN T!Bits \cup T!BlockCompressed
    BY <2>0, ExtentOf DEF Measured
  <2>2. p \in Nat
    BY <2>1, PixelBytesNat
  <2>3. SurfaceBytes(t, n - 1) = d * p
    BY DEF SurfaceBytes
  <2>4. p <= d * p
    <3> HIDE DEF p, d
    <3>. QED
      BY <2>1, <2>2
  <2>5. 8 * p < T!Long
    <3> DEFINE v == SurfaceBytes(t, n - 1)
    <3>1. v \in Nat /\ v <= total /\ p <= v
      BY <1>2, <2>3, <2>4
    <3> HIDE DEF v, total, p
    <3>. QED
      BY <1>1, <1>2, <1>6, <2>2, <3>1
  <2>6. t.format \notin DOMAIN T!Bits => w + 3 < T!Word /\ h + 3 < T!Word
    <3>1. t.format \notin DOMAIN T!Bits => t.width + 3 < T!Word /\ t.height + 3 < T!Word
      BY DEF T!Sizable
    <3> HIDE DEF w, h
    <3>. QED
      BY <2>1, <3>1, WordWide
  <2>7. T!LevelBytes(t.format, w, h) = p
    <3> HIDE DEF w, h
    <3>. QED
      BY <2>1, <2>5, <2>6, LevelAgrees
  <2>8. Level(n - 1) = p * d
    BY <2>7
  <2> HIDE DEF p, d, Level
  <2>. QED
    BY <2>1, <2>2, <2>3, <2>8
<1>8. [n \in 1..c |-> Level(n - 1)] = Surfaces(t, c)
  <2> HIDE DEF Level
  <2>. QED
    BY <1>7 DEF Surfaces
<1>9. T!MipChainBytes(t) = IF c = 0 THEN 0 ELSE ((total % T!Long) * a) % T!Long
  <2> DEFINE levels == IF t.mips < ExtentBits THEN t.mips ELSE ExtentBits
  <2>1. levels = c
    BY <1>1
  <2>2. t.width # 0 /\ t.height # 0
    BY DEF Measured
  <2>3. T!MipChainBytes(t) = IF t.width = 0 \/ t.height = 0 \/ t.mips = 0 THEN 0
                             ELSE ((T!Total([n \in 1..levels |-> Level(n - 1)]) % T!Long) * a) % T!Long
    BY DEF T!MipChainBytes, Extent
  <2> HIDE DEF levels, Level
  <2>. QED
    BY <1>8, <2>1, <2>2, <2>3
<1>10. c = 0 => total = 0
  BY PartOfTotal, ChainSum
<1>11. total % T!Long = total /\ (total * a) % T!Long = total * a
  <2> HIDE DEF total, a
  <2> DEFINE e == total * a
  <2>1. e \in Nat /\ e < T!Long
    BY <1>5, <1>6
  <2> HIDE DEF e
  <2>2. e % T!Long = e /\ total % T!Long = total
    BY <1>1, <1>2, <1>6, <2>1
  <2>. QED
    BY <2>2 DEF e
<1>12. c = 0 => total * a = 0
  <2> HIDE DEF total, a
  <2>. QED
    BY <1>3, <1>10
<1> HIDE DEF total, a, c
<1>. QED
  BY <1>4, <1>9, <1>11, <1>12

-----------------------------------------------------------------------------
(* The textures: descriptors.                                              *)

(* A number of the file is cut down to a word.                             *)
LEMMA WordRead ==
    ASSUME input \in Textures, NEW c, NEW path, NEW fallback \in Int
    PROVE  T!UintOr(c, path, fallback) \in 0..(T!Word - 1)
<1> DEFINE N == T!OfKind(c, path, {"UINT", "INT", "BOOL"})
           v == T!Only(N, fallback)
<1>1. \A x \in T!Found(c, path) : x.kind \in {"UINT", "INT", "BOOL"} => x.as \in Int
  BY TexturesAssumption DEF T!Found
<1>2. N \in SUBSET Int
  BY <1>1 DEF T!OfKind
<1>3. T!UintOr(c, path, fallback) = v % T!Word
  BY DEF T!UintOr
<1> HIDE DEF N
<1>4. v \in Int
  <2>1. CASE N = {}
    BY <2>1 DEF T!Only
  <2>2. CASE N # {}
    <3>1. v = CHOOSE x \in N : TRUE
      BY <2>2 DEF T!Only
    <3>. QED
      BY <1>2, <2>2, <3>1
  <2>. QED
    BY <2>1, <2>2
<1> HIDE DEF v
<1>. QED
  BY <1>3, <1>4, WordWide

Fields == {"width", "height", "depth", "mips", "slices", "format", "type", "buffer"}

(* What a header declares are words, and a format that is known or said to *)
(* be unknown.                                                             *)
LEMMA Declaring ==
    ASSUME input \in Textures, NEW b
    PROVE  LET t == T!Declared(b)
           IN  /\ {t.width, t.height, t.depth, t.mips, t.slices} \subseteq 0..(T!Word - 1)
               /\ t.format \in DOMAIN T!Bits \cup T!BlockCompressed \cup {"UNKNOWN"}
               /\ DOMAIN t = Fields
<1> DEFINE t == T!Declared(b)
<1>1. /\ t.width \in 0..(T!Word - 1) /\ t.height \in 0..(T!Word - 1) /\ t.depth \in 0..(T!Word - 1)
      /\ t.mips \in 0..(T!Word - 1) /\ t.slices \in 0..(T!Word - 1)
  BY WordRead DEF T!Declared
<1>2. t.format \in DOMAIN T!Bits \cup T!BlockCompressed \cup {"UNKNOWN"}
  BY FormatKnown DEF T!Declared
<1>3. DOMAIN t = Fields
  BY DEF T!Declared, Fields
<1> HIDE DEF t
<1>4. {t.width, t.height, t.depth, t.mips, t.slices} \subseteq 0..(T!Word - 1)
  BY <1>1
<1>. QED
  BY <1>2, <1>3, <1>4 DEF t

(* Rescaling changes the extents and the levels, and nothing else.         *)
LEMMA Scaling ==
    ASSUME NEW t, DOMAIN t = Fields, Measured(t), NEW s \in 1..T!MaxShift
    PROVE  LET r == T!Scaled(t, s)
           IN  /\ DOMAIN r = Fields /\ Measured(r) /\ r # t
               /\ r.width >= 2 * t.width /\ r.height >= 2 * t.height
               /\ <<r.depth, r.slices, r.format, r.type, r.buffer>> = <<t.depth, t.slices, t.format, t.type, t.buffer>>
<1> DEFINE r == T!Scaled(t, s)
           w == T!Left(t.width, s)
           h == T!Left(t.height, s)
<1>1. s \in Nat /\ s > 0
  BY DEF T!MaxShift
<1>2. w \in Nat /\ w >= 2 * t.width /\ h \in Nat /\ h >= 2 * t.height
  BY <1>1, Doubling DEF Measured
<1>3. /\ DOMAIN r = Fields /\ r.width = w /\ r.height = h /\ r.mips = t.mips + s /\ r.depth = t.depth
      /\ r.slices = t.slices /\ r.format = t.format /\ r.type = t.type /\ r.buffer = t.buffer
  BY DEF T!Scaled, Fields
<1> HIDE DEF r, w, h
<1>4. w > 0 /\ h > 0 /\ t.mips + s \in Nat /\ t.mips + s # t.mips
  BY <1>1, <1>2 DEF Measured
<1>5. Measured(r)
  BY <1>2, <1>3, <1>4 DEF Measured
<1>6. r # t
  BY <1>3, <1>4
<1>. QED
  BY <1>2, <1>3, <1>5, <1>6 DEF r

Fits(x, size) == T!ExpectedBytes(x, x.slices) = size
Powers(t) == {x \in {T!Scaled(t, s) : s \in 1..T!MaxShift} : x.width < T!Word /\ x.height < T!Word}

(* The rescale that is taken.                                              *)
LEMMA Reconciling ==
    ASSUME NEW t, DOMAIN t = Fields, Measured(t), t.width < T!Word, t.height < T!Word, t.mips <= ExtentBits,
           NEW size
    PROVE  LET r == T!Reconciled(t, size)
           IN  /\ Measured(r) /\ r.width < T!Word /\ r.height < T!Word /\ r \in {t} \cup Powers(t)
               /\ r.buffer = t.buffer
               /\ T!Sizable(r) => /\ r # t => ~Fits(t, size) /\ Fits(r, size)
                                  /\ ~Fits(r, size) => \A x \in Powers(t) : T!Sizable(x) => ~Fits(x, size)
<1> DEFINE r == T!Reconciled(t, size)
           fits == {s \in 1..T!MaxShift : /\ T!Scaled(t, s).width < T!Word /\ T!Scaled(t, s).height < T!Word
                                          /\ T!MipChainBytes(T!Scaled(t, s)) = size}
           first == T!Min(fits)
<1>0. r = IF T!MipChainBytes(t) = size \/ fits = {} THEN t ELSE T!Scaled(t, first)
  BY DEF T!Reconciled
<1>1. fits # {} => first \in fits
  <2>1. fits \in SUBSET (1..4)
    BY DEF T!MaxShift
  <2>2. first = M!Min(fits)
    BY DEF T!Min, M!Min
  <2> HIDE DEF fits, first
  <2>. QED
    BY <2>1, <2>2, Extremes
<1>2. \A s \in 1..T!MaxShift : /\ Measured(T!Scaled(t, s)) /\ T!Scaled(t, s).width >= 2 * t.width
                               /\ T!Scaled(t, s).height >= 2 * t.height /\ T!Scaled(t, s).buffer = t.buffer
  BY Scaling
<1>3. \A x : Measured(x) /\ T!Sizable(x) => (T!MipChainBytes(x) = size <=> Fits(x, size))
  BY ChainAgrees DEF Fits
<1>4. \A x \in Powers(t) : T!MipChainBytes(x) = size => fits # {}
  BY DEF Powers
<1>5. \A s \in fits : s \in 1..T!MaxShift /\ T!Scaled(t, s) \in Powers(t) /\ T!MipChainBytes(T!Scaled(t, s)) = size
  BY DEF Powers
<1>6. \A x \in Powers(t) : Measured(x) /\ x.width < T!Word /\ x.height < T!Word
  BY <1>2 DEF Powers
<1> HIDE DEF fits, first, r
<1>7. CASE T!MipChainBytes(t) = size \/ fits = {}
  <2>1. r = t
    BY <1>0, <1>7
  <2>2. T!Sizable(t) /\ ~Fits(t, size) => \A x \in Powers(t) : T!Sizable(x) => ~Fits(x, size)
    BY <1>3, <1>4, <1>6, <1>7
  <2>. QED
    BY <2>1, <2>2 DEF r
<1>8. CASE ~(T!MipChainBytes(t) = size \/ fits = {})
  <2>1. r = T!Scaled(t, first) /\ first \in fits /\ T!MipChainBytes(t) # size
    BY <1>0, <1>1, <1>8
  <2>2. r \in Powers(t) /\ T!MipChainBytes(r) = size /\ first \in 1..T!MaxShift
    BY <1>5, <2>1
  <2>3. /\ Measured(r) /\ r.width < T!Word /\ r.height < T!Word /\ r.buffer = t.buffer
        /\ r.width >= 2 * t.width /\ r.height >= 2 * t.height
    BY <1>2, <1>6, <2>1, <2>2
  <2>4. ASSUME T!Sizable(r)
        PROVE  Fits(r, size) /\ ~Fits(t, size)
    <3>1. Fits(r, size)
      BY <1>3, <2>2, <2>3, <2>4
    <3>2. CASE T!Sizable(t)
      BY <1>3, <2>1, <3>1, <3>2
    <3>3. CASE ~T!Sizable(t)
      <4>1. t.width + 3 < T!Word /\ t.height + 3 < T!Word
        BY <2>3, WordWide DEF Measured
      <4>2. ~(8 * T!ExpectedBytes(t, t.slices) < T!Long)
        BY <3>3, <4>1 DEF T!Sizable
      <4>3. 8 * T!ExpectedBytes(r, r.slices) < T!Long
        BY <2>4 DEF T!Sizable
      <4>. QED
        BY <3>1, <4>2, <4>3 DEF Fits
    <3>. QED
      BY <3>1, <3>2, <3>3
  <2>. QED
    BY <2>2, <2>3, <2>4 DEF r
<1>. QED
  BY <1>7, <1>8

(* The header that describes a texture: of its own blob.                   *)
Own == IF T!Handle # {} THEN T!Handle ELSE {T!Min(T!Searched)}
Header == T!Declared(CHOOSE c \in Own : TRUE)

(* What is handed out comes of that header, and it was looked at first.    *)
LEMMA DescribedOk ==
    ASSUME input \in Textures, T!Described.status = "OK"
    PROVE  /\ DOMAIN Header = Fields /\ Measured(Header)
           /\ Header.width < T!Word /\ Header.height < T!Word /\ Header.mips <= ExtentBits
           /\ T!Described.texture = T!Reconciled(Header, T!SizeOf(Header.buffer))
<1> DEFINE t == T!Declared(CHOOSE c \in T!BlobChunk : TRUE)
<1>1. \A x \in {"CORRUPT", "UNSUPPORTED", "RANGE"} : T!Answer(x).status # "OK"
  BY DEF T!Answer
<1>2. /\ T!BlobChunk # {} /\ t.width # 0 /\ t.height # 0 /\ ~(t.mips > ExtentBits) /\ t.format # "UNKNOWN"
      /\ T!Described = [T!Answer("OK") EXCEPT !.texture = T!Reconciled(t, T!SizeOf(t.buffer))]
  <2> HIDE DEF t
  <2>. QED
    BY <1>1 DEF T!Described, t
<1>3. T!BlobChunk = Own
  BY <1>2 DEF T!BlobChunk, Own
<1>4. t = Header
  BY <1>3 DEF Header
<1>5. T!Described.texture = T!Reconciled(t, T!SizeOf(t.buffer))
  BY <1>2 DEF T!Answer
<1>6. /\ {t.width, t.height, t.depth, t.mips, t.slices} \subseteq 0..(T!Word - 1)
      /\ t.format \in DOMAIN T!Bits \cup T!BlockCompressed \cup {"UNKNOWN"}
      /\ DOMAIN t = Fields
  BY Declaring
<1> HIDE DEF t
<1>7. Measured(t) /\ t.width < T!Word /\ t.height < T!Word /\ t.mips <= ExtentBits
  BY <1>2, <1>6, WordWide DEF Measured
<1>. QED
  BY <1>4, <1>5, <1>6, <1>7

(* An answer of the readers is the description, and the header made of it. *)
TextureInv ==
    /\ input \in Textures
    /\ output.status = "OK" => /\ T!Described.status = "OK" /\ output.texture = T!Described.texture
                               /\ input.op = "dds" => output.dds = T!DdsHeader(output.texture)

(* The same file is described in the same way.                             *)
LEMMA SameTexture ==
    ASSUME input' = input
    PROVE  T!Described' = T!Described /\ \A t : T!DdsHeader(t)' = T!DdsHeader(t)
<1>1. \A c, path, kinds : T!OfKind(c, path, kinds)' = T!OfKind(c, path, kinds)
  BY DEF T!OfKind, T!Found
<1>2. \A c, path, fallback : /\ T!UintOr(c, path, fallback)' = T!UintOr(c, path, fallback)
                             /\ T!NameOr(c, path, fallback)' = T!NameOr(c, path, fallback)
  BY <1>1, Zenon DEF T!UintOr, T!NameOr
<1>3. \A b : T!Declared(b)' = T!Declared(b)
  BY <1>1, <1>2, Zenon DEF T!Declared
<1>4. T!BlobChunk' = T!BlobChunk
  BY <1>1, Zenon DEF T!BlobChunk, T!Handle, T!Searched, T!Class
<1>5. \A b : T!SizeOf(b)' = T!SizeOf(b)
  BY DEF T!SizeOf
<1>6. (CHOOSE c \in T!BlobChunk : TRUE)' = CHOOSE c \in T!BlobChunk : TRUE
  BY <1>4
<1> DEFINE b == CHOOSE c \in T!BlobChunk : TRUE
           t == T!Declared(b)
<1>7. t' = t
  BY <1>3, <1>6, Zenon
<1>. QED
  BY <1>4, <1>5, <1>6, <1>7, Zenon DEF T!Described, T!DdsHeader, T!Class

(* A reader answers with the description, or not at all.                   *)
LEMMA TextureStep ==
    ASSUME TextureInv, [T!Next]_T!vars
    PROVE  TextureInv'
<1>0. input' = input => T!Described' = T!Described /\ \A t : T!DdsHeader(t)' = T!DdsHeader(t)
  BY SameTexture
<1> DEFINE d == T!Described
<1>1. DOMAIN d = {"status", "texture", "dds"}
  BY DEF T!Described, T!Answer
<1>2. CASE UNCHANGED T!vars
  <2>1. input' = input /\ output' = output
    BY <1>2 DEF T!vars
  <2>. QED
    BY <1>0, <2>1 DEF TextureInv
<1> HIDE DEF d
<1>3. CASE T!TextureDescOf
  <2>1. input.op = "desc" /\ output' = d /\ input' = input
    BY <1>3 DEF T!TextureDescOf, T!Calling, d
  <2>. QED
    BY <1>0, <2>1 DEF TextureInv, d
<1>4. CASE T!TextureReadRaw
  <2>1. input.op = "raw" /\ input' = input
        /\ output' = IF d.status # "OK" THEN d ELSE [d EXCEPT !.dds.bytes = T!SizeOf(d.texture.buffer)]
    BY <1>4 DEF T!TextureReadRaw, T!Calling, d
  <2>2. output'.status = d.status /\ output'.texture = d.texture
    BY <1>1, <2>1
  <2>. QED
    BY <1>0, <2>1, <2>2 DEF TextureInv, d
<1>5. CASE T!TextureReadDds
  <2>1. input' = input /\ output' = IF d.status # "OK" THEN d ELSE [d EXCEPT !.dds = T!DdsHeader(d.texture)]
    BY <1>5 DEF T!TextureReadDds, d
  <2>2. output'.status = d.status /\ output'.texture = d.texture
        /\ (d.status = "OK" => output'.dds = T!DdsHeader(d.texture))
    BY <1>1, <2>1
  <2>. QED
    BY <1>0, <2>1, <2>2 DEF TextureInv, d
<1>. QED
  BY <1>2, <1>3, <1>4, <1>5 DEF T!Next

(* It is so throughout.                                                    *)
LEMMA TextureAlways == FilesSpec => [](reader = "texture" => TextureInv)
<1>1. FilesInit => (reader = "texture" => TextureInv)
  <2>1. T!Init => input \in Textures /\ output.status # "OK"
    BY DEF T!Init, T!Answer
  <2>. QED
    BY <2>1 DEF FilesInit, TextureInv
<1>2. (reader = "texture" => TextureInv) /\ [FilesNext]_fileVars => (reader = "texture" => TextureInv)'
  <2> SUFFICES ASSUME reader = "texture" => TextureInv, [FilesNext]_fileVars, reader' = "texture"
               PROVE  TextureInv'
    OBVIOUS
  <2>1. reader = "texture" /\ TextureInv
    BY DEF FilesNext, ReadDocument, ReadTexture, ReadSound, ReadMesh, ReadArchive, Mount, DecodeSegments, fileVars
  <2>2. CASE ReadTexture
    BY <2>1, <2>2, TextureStep DEF ReadTexture
  <2>3. CASE UNCHANGED fileVars
    <3>1. UNCHANGED T!vars
      BY <2>3 DEF fileVars, vars, T!vars
    <3>. QED
      BY <2>1, <3>1, TextureStep
  <2>. QED
    BY <2>1, <2>2, <2>3
       DEF FilesNext, ReadDocument, ReadSound, ReadMesh, ReadArchive, Mount, DecodeSegments
<1>. QED
  BY <1>1, <1>2, PTL DEF FilesSpec

(* Whatever the file says: a descriptor that is handed out has an extent,  *)
(* is its own blob's header or a rescaling of it by a power of two inside  *)
(* the word, and, as far as sizes do not wrap, fits the payload whenever   *)
(* the header or such a rescaling does (formats.cpp:318).                  *)
THEOREM DescriptorsAreHonest == FilesSpec => []DescriptorHonest
<1>1. ASSUME TextureInv
      PROVE  T!DescriptorHonest
  <2> SUFFICES ASSUME output.status = "OK"
               PROVE  T!DescriptorHonest
    BY DEF T!DescriptorHonest
  <2> DEFINE t == output.texture
             size == T!SizeOf(Header.buffer)
  <2>1. /\ DOMAIN Header = Fields /\ Measured(Header)
        /\ Header.width < T!Word /\ Header.height < T!Word /\ Header.mips <= ExtentBits
        /\ t = T!Reconciled(Header, size)
    BY <1>1, DescribedOk DEF TextureInv
  <2> HIDE DEF t, size
  <2>2. /\ Measured(t) /\ t.width < T!Word /\ t.height < T!Word /\ t \in {Header} \cup Powers(Header)
        /\ T!Sizable(t) => /\ t # Header => ~Fits(Header, size) /\ Fits(t, size)
                           /\ ~Fits(t, size) => \A x \in Powers(Header) : T!Sizable(x) => ~Fits(x, size)
    BY <2>1, Reconciling
  <2>3. t.width \in 1..(T!Word - 1) /\ t.height \in 1..(T!Word - 1)
    BY <2>2, WordWide DEF Measured
  <2>. QED
    BY <2>2, <2>3, Zenon DEF T!DescriptorHonest, Header, Own, Fits, Powers, t, size
<1>2. (reader = "texture" => TextureInv) => DescriptorHonest
  BY <1>1 DEF DescriptorHonest
<1>. QED
  BY <1>2, TextureAlways, PTL

(* A DDS header counts the surfaces of a cooked texture.                   *)
LEMMA HeaderCounts ==
    ASSUME NEW t, Measured(t), T!Cooked(t)
    PROVE  LET dds == T!DdsHeader(t)
           IN  /\ T!HeaderOk(t, dds)
               /\ T!ExpectedBytes(dds, T!LoadedFaces(dds)) = T!ExpectedBytes(t, t.slices)
               /\ dds.bytes = T!HeaderBytes + T!SizeOf(t.buffer)
<1> DEFINE dds == T!DdsHeader(t)
           c == t.mips
<1>1. /\ dds.width = t.width /\ dds.height = t.height /\ dds.format = t.format
      /\ dds.depth = (IF t.type = "TEXTYPE_3D" THEN T!AtLeast1(t.depth) ELSE 1)
      /\ dds.mips = T!AtLeast1(t.mips) /\ dds.arraySize = T!ArraySize(t) /\ dds.cube = (t.type = "TEXTYPE_CUBE")
      /\ dds.bytes = T!HeaderBytes + T!SizeOf(t.buffer)
  BY DEF T!DdsHeader
<1> HIDE DEF dds
<1>2. /\ t.depth \in Nat /\ t.slices \in Nat /\ t.slices > 0 /\ c \in Nat /\ c > 0
      /\ t.type = "TEXTYPE_CUBE" => t.slices % 6 = 0
      /\ t.type # "TEXTYPE_3D" => t.depth <= 1
  BY WordWide DEF Measured, T!Cooked
<1>3. dds.mips = c
  BY <1>1, <1>2 DEF T!AtLeast1
<1>4. T!LoadedFaces(dds) = t.slices
  <2>1. CASE t.type = "TEXTYPE_CUBE"
    <3>1. dds.arraySize = T!AtLeast1(t.slices \div 6)
      BY <1>1, <2>1 DEF T!ArraySize
    <3>2. t.slices \div 6 # 0 /\ 6 * (t.slices \div 6) = t.slices
      BY <1>2, <2>1
    <3>. QED
      BY <1>1, <2>1, <3>1, <3>2 DEF T!LoadedFaces, T!AtLeast1
  <2>2. CASE t.type # "TEXTYPE_CUBE"
    <3>1. dds.arraySize = T!AtLeast1(t.slices)
      BY <1>1, <2>2 DEF T!ArraySize
    <3>2. T!AtLeast1(t.slices) = t.slices
      BY <1>2 DEF T!AtLeast1
    <3>3. dds.cube = FALSE
      BY <1>1, <2>2
    <3>. QED
      BY <3>1, <3>2, <3>3 DEF T!LoadedFaces
  <2>. QED
    BY <2>1, <2>2
<1>5. ASSUME NEW n \in 1..c
      PROVE  SurfaceBytes(dds, n - 1) = SurfaceBytes(t, n - 1)
  <2>0. n - 1 \in Nat
    BY <1>2
  <2>1. Extent(dds.depth, n - 1) = Extent(t.depth, n - 1)
    <3>1. CASE dds.depth = t.depth
      BY <3>1
    <3>2. CASE dds.depth # t.depth
      <4>1. dds.depth \in Nat /\ dds.depth <= 1 /\ t.depth <= 1
        BY <1>1, <1>2, <3>2 DEF T!AtLeast1
      <4>2. Extent(dds.depth, n - 1) = 1 /\ Extent(t.depth, n - 1) = 1
        BY <1>2, <2>0, <4>1, ExtentOf
      <4>. QED
        BY <4>2
    <3>. QED
      BY <3>1, <3>2
  <2>. QED
    BY <1>1, <2>1 DEF SurfaceBytes
<1>6. Surfaces(dds, c) = Surfaces(t, c)
  BY <1>5 DEF Surfaces
<1>7. T!ExpectedBytes(dds, T!LoadedFaces(dds)) = T!ExpectedBytes(t, t.slices)
  BY <1>3, <1>4, <1>6, ExpectedSum
<1>8. T!HeaderOk(t, dds)
  BY <1>1, <1>3, <1>4 DEF T!HeaderOk
<1>. QED
  BY <1>1, <1>7, <1>8 DEF dds

(* For any cooked texture of any size: the DDS header says what the        *)
(* checker expects, and the payload behind it is exactly what a loader     *)
(* that multiplies cubes by six goes on to read (formats.cpp:197).         *)
THEOREM LoadersReadThePayload == FilesSpec => []LoaderReadsPayload
<1>1. ASSUME TextureInv
      PROVE  T!LoaderReadsPayload
  <2> SUFFICES ASSUME output.status = "OK", input.op = "dds", T!Cooked(output.texture)
               PROVE  T!LoaderReadsPayload
    BY DEF T!LoaderReadsPayload
  <2> DEFINE t == output.texture
             dds == output.dds
  <2>1. /\ DOMAIN Header = Fields /\ Measured(Header)
        /\ Header.width < T!Word /\ Header.height < T!Word /\ Header.mips <= ExtentBits
        /\ t = T!Reconciled(Header, T!SizeOf(Header.buffer)) /\ dds = T!DdsHeader(t)
    BY <1>1, DescribedOk DEF TextureInv
  <2> HIDE DEF t, dds
  <2>2. Measured(t)
    BY <2>1, Reconciling
  <2>3. T!Cooked(t)
    BY DEF t
  <2>4. /\ T!HeaderOk(t, dds) /\ T!ExpectedBytes(dds, T!LoadedFaces(dds)) = T!ExpectedBytes(t, t.slices)
        /\ dds.bytes = T!HeaderBytes + T!SizeOf(t.buffer)
    BY <2>1, <2>2, <2>3, HeaderCounts
  <2>5. T!Sizable(t) => T!MipChainBytes(t) = T!ExpectedBytes(t, t.slices)
    BY <2>2, ChainAgrees
  <2>. QED
    BY <2>4, <2>5, Zenon DEF T!LoaderReadsPayload, t, dds
<1>2. (reader = "texture" => TextureInv) => LoaderReadsPayload
  BY <1>1 DEF LoaderReadsPayload
<1>. QED
  BY <1>2, TextureAlways, PTL
=============================================================================
