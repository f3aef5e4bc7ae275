------------------------------ MODULE Deframer ------------------------------
(***************************************************************************)
(* The byte-level receive loop of SerialIf (iotlab-serial.py, run() and    *)
(* _process_debug): one step reads one byte from the serial port and       *)
(* advances the index/length/data state machine; a completed frame is      *)
(* handed to _process_input, whose first line (data[0]) raises IndexError  *)
(* on an empty frame and ends the reading thread.                          *)
(*                                                                         *)
(* Bytes are naturals; Streams is the set of byte streams the device may   *)
(* send.  The reference decoder RefDecode is written from the wire format  *)
(* (sync, length counting the opcode, opcode, payload) and the loop is     *)
(* checked against it.                                                     *)
(***************************************************************************)
EXTENDS Naturals, Sequences, SequencesExt

CONSTANTS Streams   \* the byte streams the serial port may deliver

SYNC == 128           \* SerialIf.SYNC (0x80)
HEADER_LENGTH == 2    \* SerialIf.HEADER_LENGTH
NL == 10              \* the byte of "\n"

VARIABLES
  input,     \* bytes the port has not delivered yet
  consumed,  \* bytes the loop has read so far (history, for the properties)
  index,     \* run(): position in the current frame, 0 = waiting for sync
  length,    \* run(): the length byte of the current frame
  data,      \* run(): the bytes of the current frame (opcode, payload)
  debug,     \* self.debug: text seen outside frames since the last newline
  out,       \* frames passed to _process_input, in order (history)
  crashed    \* the reading thread died on an exception

vars == <<input, consumed, index, length, data, debug, out, crashed>>

Frame(op, payload) == [op |-> op, payload |-> payload]

(* Mutant: the length byte counts the payload only, not the opcode.       *)
EncodeNoOpcode(f) == <<SYNC, Len(f.payload), f.op>> \o f.payload

(* send_command: the bytes written for a command: sync, len(data)+1,       *)
(* opcode, payload.                                                        *)
Encode(f) == <<SYNC, Len(f.payload) + 1, f.op>> \o f.payload

(* Reference decoder of a byte string, from the wire format: bytes before  *)
(* a sync byte are debug text; after sync, a length L and then L bytes:    *)
(* opcode and L-1 payload bytes.  A trailing incomplete frame yields       *)
(* nothing.  A header announcing L = 0 carries no opcode and is skipped.   *)
(* Returns the frames and the debug bytes.                                 *)
RECURSIVE RefDecode(_)
RefDecode(s) ==
  IF s = <<>> THEN [frames |-> <<>>, text |-> <<>>]
  ELSE IF Head(s) # SYNC
    THEN LET r == RefDecode(Tail(s))
         IN  [r EXCEPT !.text = <<Head(s)>> \o @]
  ELSE IF Len(s) < 2 \/ Len(s) - 2 < s[2]
    THEN [frames |-> <<>>, text |-> <<>>]
  ELSE LET L    == s[2]
           rest == RefDecode(SubSeq(s, L + 3, Len(s)))
       IN  IF L = 0 THEN rest
           ELSE [rest EXCEPT !.frames =
                   <<Frame(s[3], SubSeq(s, 4, L + 2))>> \o @]

(* The debug text after the last newline of a byte string.                 *)
AfterLastNL(t) == SubSeq(t, SelectLastInSeq(t, LAMBDA b : b = NL) + 1, Len(t))

-----------------------------------------------------------------------------

Init ==
  /\ input \in Streams
  /\ consumed = <<>>
  /\ index = 0
  /\ length = 0
  /\ data = <<>>
  /\ debug = <<>>
  /\ out = <<>>
  /\ crashed = FALSE

(* Mutant: the newline is kept in the text instead of clearing it.        *)
ProcessDebugKeepNL(b) == Append(debug, b)

(* _process_debug: a newline clears the text, any other byte is appended. *)
ProcessDebug(b) == IF b = NL THEN <<>> ELSE Append(debug, b)

(* Mutant: the opcode is left in the payload (data[1:] forgotten).        *)
CompleteKeepOpcode(i, l, d) ==
  IF i - HEADER_LENGTH = l
  THEN IF d = <<>>
       THEN /\ crashed' = TRUE
            /\ index' = i
            /\ UNCHANGED out
       ELSE /\ out' = Append(out, Frame(Head(d), d))
            /\ index' = 0
            /\ UNCHANGED crashed
  ELSE /\ index' = i
       /\ UNCHANGED <<out, crashed>>

(* After the byte has updated index/length/data: if the frame is complete, *)
(* _process_input takes data[0] as opcode (IndexError when data is empty)  *)
(* and index goes back to 0.                                               *)
Complete(i, l, d) ==
  IF i - HEADER_LENGTH = l
  THEN IF d = <<>>
       THEN /\ crashed' = TRUE
            /\ index' = i
            /\ UNCHANGED out
       ELSE /\ out' = Append(out, Frame(Head(d), Tail(d)))
            /\ index' = 0
            /\ UNCHANGED crashed
  ELSE /\ index' = i
       /\ UNCHANGED <<out, crashed>>

(* Mutant: data = [] left out when the length byte arrives.              *)
ReadByteNoReset ==
  /\ ~crashed
  /\ input # <<>>
  /\ LET b == Head(input) IN
     /\ input' = Tail(input)
     /\ consumed' = Append(consumed, b)
     /\ \/ /\ index = 0 /\ b # SYNC
           /\ debug' = ProcessDebug(b)
           /\ UNCHANGED <<index, length, data, out, crashed>>
        \/ /\ index = 0 /\ b = SYNC
           /\ UNCHANGED <<length, data, debug>>
           /\ Complete(1, length, data)
        \/ /\ index = 1
           /\ length' = b
           /\ UNCHANGED <<data, debug>>
           /\ Complete(2, b, data)
        \/ /\ index > 1 /\ index - HEADER_LENGTH < length
           /\ data' = Append(data, b)
           /\ UNCHANGED <<length, debug>>
           /\ Complete(index + 1, length, data')

(* One iteration of the while loop of run() with a byte b read.            *)
ReadByte ==
  /\ ~crashed
  /\ input # <<>>
  /\ LET b == Head(input) IN
     /\ input' = Tail(input)
     /\ consumed' = Append(consumed, b)
     /\ \/ /\ index = 0 /\ b # SYNC
           /\ debug' = ProcessDebug(b)
           /\ UNCHANGED <<index, length, data, out, crashed>>
        \/ /\ index = 0 /\ b = SYNC
           /\ UNCHANGED <<length, data, debug>>
           /\ Complete(1, length, data)
        \/ /\ index = 1
           /\ length' = b
           /\ data' = <<>>
           /\ UNCHANGED debug
           /\ Complete(2, b, <<>>)
        \/ /\ index > 1 /\ index - HEADER_LENGTH < length
           /\ data' = Append(data, b)
           /\ UNCHANGED <<length, debug>>
           /\ Complete(index + 1, length, data')

(* When the port has nothing to deliver, serial.read() times out and the  *)
(* loop polls again (continue): a stuttering step.                         *)
Next == ReadByte

Spec == Init /\ [][Next]_vars /\ WF_vars(ReadByte)

-----------------------------------------------------------------------------

TypeOK ==
  /\ input \in Seq(Nat) /\ consumed \in Seq(Nat)
  /\ index \in Nat /\ length \in Nat
  /\ data \in Seq(Nat) /\ Len(data) <= length /\ debug \in Seq(Nat)
  /\ out \in Seq([op : Nat, payload : Seq(Nat)])
  /\ crashed \in BOOLEAN

(* The frames run() has passed on are a prefix of the reference decoding   *)
(* of the bytes read, and are all of it whenever the loop is between       *)
(* frames; the debug text is the reference's text after its last newline  *)
(* while the loop waits for sync.  Exercises the index/length bookkeeping  *)
(* of run() on every interleaving of garbage, sync bytes inside payloads,  *)
(* and short frames.                                                       *)
DecodesAsReference ==
  LET ref == RefDecode(consumed) IN
  /\ IsPrefix(out, ref.frames)
  /\ (index = 0 /\ ~crashed) => out = ref.frames
  /\ (index = 0 /\ ~crashed) => debug = AfterLastNL(ref.text)

(* The reading thread never dies on what the port delivers: the spec       *)
(* requires malformed input to be tolerated (debug text, not errors).      *)
NoReaderCrash == ~crashed

=============================================================================
