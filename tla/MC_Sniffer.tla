----------------------------- MODULE MC_Sniffer -----------------------------
(* Streams for the sniffer parser: records as the firmware sends them,     *)
(* after a little line noise, and every short stream over the bytes that   *)
(* matter to parse_one.                                                    *)
EXTENDS Sniffer

PacketRecord(p) == <<STARTUP_0, STARTUP_1, Len(p)>> \o p
ChannelRecord(c) == <<STARTUP_0, STARTCHAN_1, c>>

Noise == {<<>>, <<STARTUP_1, 1>>}
Body == {1, STARTUP_0, STARTUP_1}

(* Packets of 1 or 2 bytes (payloads containing the start bytes) and       *)
(* channel reports, up to two records.                                     *)
Records(lens) ==
  {PacketRecord(p) : p \in {q \in SeqOf(Body, 2) : Len(q) \in lens}}
    \cup {ChannelRecord(c) : c \in {1, STARTUP_0}}

RecordStreams(lens) ==
  {g \o FlattenSeq(rs) : g \in Noise, rs \in SeqOf(Records(lens), 2)}

WellFormedStreams == RecordStreams({1, 2})

AnyStreams == SeqOf({0, 1, STARTUP_0, STARTUP_1, STARTCHAN_1}, 5)
=============================================================================
