------------------------------ MODULE Sniffer ------------------------------
(***************************************************************************)
(* The byte parser of the 802.15.4 sniffer bridge (src/tools/sniffer.py,   *)
(* class Sniffer).  The main loop reads one byte at a time and hands it to *)
(* parse_one, a four-state machine: START_0 waits for 0xAB, START_1 for    *)
(* 0xCD (a packet) or 0xCC (a channel report), LENGTH takes the length or  *)
(* the channel, DATA collects the packet and writes a pcap record when     *)
(* len(data) reaches the length.                                           *)
(*                                                                         *)
(* RefSniff is a reference decoder of the record format the STARTUP and    *)
(* STARTCHAN constants describe; the parser is checked against it.         *)
(***************************************************************************)
EXTENDS Naturals, Sequences, SequencesExt

CONSTANTS Streams   \* the byte streams the serial port may deliver

STARTUP_0 == 171      \* Sniffer.STARTUP[0] (0xAB), also STARTCHAN[0]
STARTUP_1 == 205      \* Sniffer.STARTUP[1] (0xCD)
STARTCHAN_1 == 204    \* Sniffer.STARTCHAN[1] (0xCC)

STATE_START_0 == 0
STATE_START_1 == 1
STATE_LENGTH == 2
STATE_DATA == 3

VARIABLES
  input,        \* bytes the port has not delivered yet
  consumed,     \* bytes parse_one has been given (history)
  state,        \* self.state
  len,          \* self.len
  data,         \* self.data
  mode_packet,  \* self.mode_packet
  pcap,         \* packet records written to stdout, in order
  chans         \* channel numbers reported on stderr, in order

vars == <<input, consumed, state, len, data, mode_packet, pcap, chans>>

(* Reference decoder: 0xAB 0xCD L, then L bytes, is a packet; 0xAB 0xCC C  *)
(* is a channel report; any other byte is skipped.  A trailing incomplete  *)
(* record yields nothing.                                                  *)
RECURSIVE RefSniff(_)
RefSniff(s) ==
  LET none == [packets |-> <<>>, chans |-> <<>>] IN
  IF s = <<>> THEN none
  ELSE IF Len(s) >= 2 /\ s[1] = STARTUP_0 /\ s[2] = STARTUP_1
    THEN IF Len(s) < 3 \/ Len(s) - 3 < s[3] THEN none
         ELSE LET r == RefSniff(SubSeq(s, s[3] + 4, Len(s)))
              IN  [r EXCEPT !.packets = <<SubSeq(s, 4, s[3] + 3)>> \o @]
  ELSE IF Len(s) >= 2 /\ s[1] = STARTUP_0 /\ s[2] = STARTCHAN_1
    THEN IF Len(s) < 3 THEN none
         ELSE LET r == RefSniff(SubSeq(s, 4, Len(s)))
              IN  [r EXCEPT !.chans = <<s[3]>> \o @]
  ELSE IF s = <<STARTUP_0>> THEN none
  ELSE RefSniff(Tail(s))

(* The packet bytes of the pcap records written so far.                    *)
Packets == [k \in 1..Len(pcap) |-> pcap[k].bytes]

-----------------------------------------------------------------------------

(* The port is opened and Sniffer() built: __init__ resets the parser;    *)
(* the pcap global header (write_global_header) is written before any      *)
(* record and carries no state, so it is left out.                         *)
Init ==
  /\ input \in Streams
  /\ consumed = <<>>
  /\ state = STATE_START_0
  /\ len = 0
  /\ data = <<>>
  /\ mode_packet = TRUE
  /\ pcap = <<>>
  /\ chans = <<>>

(* Mutant: orig_len computed as len - 2.                                   *)
PrintPacketMinusFCS(d) ==
  pcap' = Append(pcap, [incl_len |-> len, orig_len |-> len - 2,
                        bytes |-> SubSeq(d, 1, len)])

(* print_packet: a record header with incl_len = len and orig_len = len+2  *)
(* (the FCS), then data[:incl_len].  The timestamp is left out.            *)
PrintPacket(d) ==
  pcap' = Append(pcap, [incl_len |-> len, orig_len |-> len + 2,
                        bytes |-> SubSeq(d, 1, len)])

(* START_0: 0xAB moves to START_1, any other byte is discarded.            *)
ParseStart0(i) ==
  /\ state' = IF i = STARTUP_0 THEN STATE_START_1 ELSE state
  /\ UNCHANGED <<len, data, mode_packet, pcap, chans>>

(* Mutant: the 0xCC branch does not clear mode_packet.                     *)
ParseStart1KeepMode(i) ==
  /\ IF i \in {STARTUP_1, STARTCHAN_1}
     THEN /\ state' = STATE_LENGTH
          /\ mode_packet' = (i = STARTUP_1 \/ mode_packet)
     ELSE UNCHANGED <<state, mode_packet>>
  /\ UNCHANGED <<len, data, pcap, chans>>

(* START_1: 0xCD starts a packet, 0xCC a channel report.  Any other byte   *)
(* falls through every branch and leaves the state in START_1.             *)
ParseStart1(i) ==
  /\ IF i \in {STARTUP_1, STARTCHAN_1}
     THEN /\ state' = STATE_LENGTH
          /\ mode_packet' = (i = STARTUP_1)
     ELSE UNCHANGED <<state, mode_packet>>
  /\ UNCHANGED <<len, data, pcap, chans>>

(* LENGTH: in channel mode the byte is the channel, logged, and the parser *)
(* goes back to START_0; in packet mode it is the length, data is reset.   *)
ParseLength(i) ==
  IF ~mode_packet
  THEN /\ chans' = Append(chans, i)
       /\ state' = STATE_START_0
       /\ UNCHANGED <<len, data, mode_packet, pcap>>
  ELSE /\ len' = i
       /\ data' = <<>>
       /\ state' = STATE_DATA
       /\ UNCHANGED <<mode_packet, pcap, chans>>

(* Mutant: the state is not reset after a packet is written.              *)
ParseDataNoReset(i) ==
  /\ data' = Append(data, i)
  /\ IF Len(data') = len
     THEN PrintPacket(data')
     ELSE UNCHANGED pcap
  /\ UNCHANGED <<state, len, mode_packet, chans>>

(* DATA: the byte is stored; when len(data) equals the length the packet   *)
(* is written and the parser goes back to START_0.  The test is equality, *)
(* so a length of 0 is never reached.                                      *)
ParseData(i) ==
  /\ data' = Append(data, i)
  /\ IF Len(data') = len
     THEN /\ PrintPacket(data')
          /\ state' = STATE_START_0
     ELSE UNCHANGED <<pcap, state>>
  /\ UNCHANGED <<len, mode_packet, chans>>

(* parse_one(i): switch on the state.                                      *)
ParseOne(i) ==
  \/ state = STATE_START_0 /\ ParseStart0(i)
  \/ state = STATE_START_1 /\ ParseStart1(i)
  \/ state = STATE_LENGTH /\ ParseLength(i)
  \/ state = STATE_DATA /\ ParseData(i)

(* parse(data) of the one byte ser.read(1) returned: parse_one(byte).     *)
ReadByte ==
  /\ input # <<>>
  /\ input' = Tail(input)
  /\ consumed' = Append(consumed, Head(input))
  /\ ParseOne(Head(input))

(* __main__: while True, read a byte and parse it.  A read that returns    *)
(* nothing is a stuttering step; the loop ends only on an exception of     *)
(* the port, after which nothing is parsed.                                *)
Next == ReadByte

Spec == Init /\ [][Next]_vars /\ WF_vars(ReadByte)

-----------------------------------------------------------------------------

TypeOK ==
  /\ input \in Seq(Nat) /\ consumed \in Seq(Nat)
  /\ state \in {STATE_START_0, STATE_START_1, STATE_LENGTH, STATE_DATA}
  /\ len \in Nat /\ data \in Seq(Nat) /\ mode_packet \in BOOLEAN
  /\ pcap \in Seq([incl_len : Nat, orig_len : Nat, bytes : Seq(Nat)])
  /\ chans \in Seq(Nat)

(* The packets and channel reports parse_one has produced are a prefix of  *)
(* the reference decoding of the bytes read, and all of it whenever the    *)
(* parser is back in START_0.  Garbage, 0xAB inside packets and headers    *)
(* split across records all test the four-state machine.                   *)
PacketsAsReference ==
  LET ref == RefSniff(consumed) IN
  /\ IsPrefix(Packets, ref.packets)
  /\ IsPrefix(chans, ref.chans)
  /\ state = STATE_START_0 => Packets = ref.packets /\ chans = ref.chans

(* The packets of a decoding that hold at least one byte.  Nothing says    *)
(* what a header announcing length 0 should give, so it is not counted.   *)
NonEmpty(ps) == SelectSeq(ps, LAMBDA p : p # <<>>)

(* Every record in the stream is eventually written: the sniffer keeps     *)
(* producing pcap records and channel reports, whatever came before.  Of   *)
(* a zero-length header nothing is required, only that every channel      *)
(* report and non-empty packet after it still comes out.                   *)
Delivered ==
  <>[](/\ NonEmpty(Packets) = NonEmpty(RefSniff(consumed \o input).packets)
       /\ chans = RefSniff(consumed \o input).chans)
=============================================================================
