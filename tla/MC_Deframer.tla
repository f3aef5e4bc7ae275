---------------------------- MODULE MC_Deframer ----------------------------
(* Every byte stream up to MaxBytes bytes over a small alphabet (the sync  *)
(* byte, a newline, lengths 0, 1 and 2, and one more value), and the       *)
(* streams the device sends when it behaves: a line of debug text, then    *)
(* frames encoded by the same rule as send_command's.  Their opcodes       *)
(* include the sync value and their payloads sync and newline bytes.       *)
EXTENDS Deframer

MaxBytes == 7
Alphabet == {0, 1, 2, NL, SYNC}

Garbage == {<<>>, <<7, NL, 7>>}
Frames == {Frame(op, p) : op \in {1, SYNC}, p \in SeqOf({SYNC, NL}, 2)}
FrameSeqs == SeqOf(Frames, 2)

EncodeAll(fs) == FlattenSeq([i \in 1..Len(fs) |-> Encode(fs[i])])

EncodedStreams == {g \o EncodeAll(fs) : g \in Garbage, fs \in FrameSeqs}

MCStreams == SeqOf(Alphabet, MaxBytes) \cup EncodedStreams

(* For each encoded stream, the frames it was encoded from.                *)
SentOf == [s \in EncodedStreams |->
             CHOOSE fs \in FrameSeqs :
               \E g \in Garbage : g \o EncodeAll(fs) = s]

(* Round trip of send_command's encoding through run(): a stream of        *)
(* encoded frames is eventually delivered as exactly those frames.         *)
RoundTrip ==
  <>[]((consumed \o input) \in EncodedStreams
         => out = SentOf[consumed \o input])
=============================================================================
