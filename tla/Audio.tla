------------------------------- MODULE Audio --------------------------------
(***************************************************************************)
(* Raw audio files (formats.cpp): what a file is by its magic, the chunks  *)
(* of a RIFF file, and the codec, payload and duration of a .wem.          *)
(*                                                                         *)
(* A file is its size, its magic and the chunk headers the walk comes to,  *)
(* in order; behind the last one the file is filled with zeros.            *)
(***************************************************************************)
EXTENDS Integers, Sequences, FiniteSetsExt

CONSTANTS Sounds   \* the calls: [op, size, magic, form, declared, chunks, intact]

VARIABLES input, output

vars == <<input, output>>

Codec ==
    [t1 |-> "PCM", t2 |-> "ADPCM", t166 |-> "XMA2", t3039 |-> "OPUS", t3040 |-> "OPUS",
     t3041 |-> "OPUS", tFFFF |-> "VORBIS"]
CodecFromTag(tag) == IF tag \in DOMAIN Codec THEN Codec[tag] ELSE "UNKNOWN"

Called == [status |-> "called", at |-> 12, chunks |-> <<>>, info |-> <<>>]

Init == input \in Sounds /\ output = Called

Calling(op) == input.op = op /\ output.status = "called"
Walking == output.status = "walking"

(* audio_probe reads the whole part for its first four bytes.              *)
Container == [RIFF |-> "WEM", BKHD |-> "BNK", OggS |-> "OPUSPAK"]
Probe ==
    /\ Calling("probe")
    /\ output' = [output EXCEPT !.status = "OK",
                     !.info = IF input.size > 0 /\ input.magic \in DOMAIN Container
                              THEN Container[input.magic] ELSE "UNKNOWN"]
    /\ UNCHANGED input

(* riff_walk, of audio_walk_chunks or audio_info_parse.                    *)
Walk ==
    /\ \E op \in {"walk", "info"} : Calling(op)
    /\ output' = [output EXCEPT !.status =
                     IF input.size < 12 \/ input.magic # "RIFF" THEN "CORRUPT"
                     ELSE IF input.form # "WAVE" THEN "UNSUPPORTED" ELSE "walking"]
    /\ UNCHANGED input

Limit == IF input.declared + 8 < input.size THEN input.declared + 8 ELSE input.size

Zeros == [id |-> "", size |-> 0]
Header ==
    IF Len(output.chunks) < Len(input.chunks) THEN input.chunks[Len(output.chunks) + 1] ELSE Zeros

Padded(size) == IF size % 2 = 1 THEN size + 1 ELSE size

(* A chunk that runs past the end of the file ends the walk, without error. *)
Ends_Declared == output.at + 8 > Limit \/ output.at + 8 > input.size
Ends == output.at + 8 > Limit \/ output.at + 8 + Header.size > input.size

(* audio_info_parse's visitor: the last format and data chunks count.      *)
Formats(chunks) == {k \in DOMAIN chunks : chunks[k].id = "fmt" /\ chunks[k].size >= 16}
Payloads(chunks) == {k \in DOMAIN chunks : chunks[k].id = "data"}
Info(chunks) ==
    LET fmt == chunks[Max(Formats(chunks))].fmt
        data == IF Payloads(chunks) = {} THEN [at |-> 0, size |-> 0] ELSE chunks[Max(Payloads(chunks))]
        frame == fmt.channels * (fmt.bits \div 8)
        timed == CodecFromTag(fmt.tag) = "PCM" /\ fmt.channels > 0 /\ frame > 0
    IN  [codec |-> CodecFromTag(fmt.tag), data_offset |-> data.at, data_size |-> data.size,
         total_samples |-> IF timed THEN data.size \div frame ELSE 0]

Chunk == [x \in {"at"} \cup DOMAIN Header |-> IF x = "at" THEN output.at + 8 ELSE Header[x]]
Visit(stop) ==
    /\ Walking /\ ~Ends
    /\ stop => input.op = "walk"
    /\ output' = [output EXCEPT !.chunks = Append(@, Chunk), !.at = @ + 8 + Padded(Header.size),
                                !.status = IF stop THEN "OK" ELSE "walking"]
    /\ UNCHANGED input

Finish ==
    /\ Walking /\ Ends
    /\ output' = IF input.op = "walk" THEN [output EXCEPT !.status = "OK"]
                 ELSE IF Formats(output.chunks) = {} THEN [output EXCEPT !.status = "CORRUPT"]
                 ELSE [output EXCEPT !.status = "OK", !.info = Info(output.chunks)]
    /\ UNCHANGED input

Next == Probe \/ Walk \/ (\E stop \in BOOLEAN : Visit(stop)) \/ Finish

Spec == Init /\ [][Next]_vars

-----------------------------------------------------------------------------
(* Properties.                                                             *)

(* What a RIFF writer leaves: chunk after chunk, each where it says it     *)
(* wrote it, and a length that covers them all.                            *)
Written(s) ==
    LET Behind(k) == IF k = 0 THEN 12 ELSE s.wrote[k] + Padded(s.chunks[k].size)
    IN  /\ s.magic = "RIFF" /\ s.form = "WAVE" /\ s.declared + 8 = s.size
        /\ s.size = Behind(Len(s.chunks))
        /\ \A k \in DOMAIN s.chunks : s.wrote[k] = Behind(k - 1) + 8 /\ Behind(k) <= s.size
        /\ Formats(s.chunks) # {} /\ Payloads(s.chunks) # {}

(* Whatever the sizes in the file are, each chunk delivered lies inside    *)
(* the file, behind the one before it; of a file written by a RIFF writer  *)
(* they are all its chunks, at their places, and the payload and duration  *)
(* of a .wem are those of its last data chunk.                             *)
ChunksTrue ==
    /\ \A k \in DOMAIN output.chunks :
          /\ output.chunks[k].at + output.chunks[k].size <= input.size
          /\ k > 1 => output.chunks[k].at >= output.chunks[k - 1].at + output.chunks[k - 1].size + 8
    /\ input.op # "probe" /\ input.intact => output.status \in {"called", "walking", "OK"}
    /\ input.op # "probe" /\ input.intact /\ output.status = "OK" =>
          /\ \A k \in DOMAIN output.chunks :
                k <= Len(input.chunks) => output.chunks[k].at = input.wrote[k]
          /\ input.op = "info" =>
                LET data == Payloads(input.chunks)
                    samples == {k \in data : \A j \in data : j <= k}
                    formats == Formats(input.chunks)
                    heads == {input.chunks[k].fmt : k \in {n \in formats : \A j \in formats : j <= n}}
                IN  /\ Len(output.chunks) >= Len(input.chunks)
                    /\ output.info.data_offset \in {input.wrote[k] : k \in samples}
                    /\ output.info.total_samples \in
                          {0} \cup {input.chunks[k].size \div (f.channels * (f.bits \div 8)) : k \in samples, f \in heads}
                    /\ output.info.total_samples > 0 => output.info.codec = "PCM"
=============================================================================
