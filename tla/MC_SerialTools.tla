--------------------------- MODULE MC_SerialTools ---------------------------
(***************************************************************************)
(* The tools of src/tools that read a node's serial port byte by byte:     *)
(* sniffer.py, ttyDumper.py and tempDumper.py.  One of them holds the port *)
(* (chosen at start, as the user runs one of them) and the device sends    *)
(* either sniffer records or lines of text; every tool may meet either.    *)
(* The port's queue and history (input, consumed) are shared by the two   *)
(* modules; the variables of the tool that does not run stay as they were  *)
(* initialised.                                                            *)
(***************************************************************************)
EXTENDS MC_Sniffer

VARIABLES script, open, out, data_str, log

ToolNames == {"sniffer", "ttyDumper", "tempDumper"}

D == INSTANCE SerialDump WITH Scripts <- ToolNames

snifferOnly == <<state, len, data, mode_packet, pcap, chans>>
dumpOnly == <<script, open, out, data_str, log>>
toolVars == <<vars, dumpOnly>>

(* Lines of text: empty, plain, a reading, a reading with a dot in lower   *)
(* case, "(T=°C)" without digits, and two readings on one line.            *)
Temp(d, t, c) == <<40, t, 61>> \o d \o <<194, 176, c, 41>>
TextLines ==
  {<<>>, <<120>>, Temp(<<50>>, 84, 67), <<120>> \o Temp(<<50, 46, 53>>, 116, 99),
   Temp(<<>>, 84, 67), Temp(<<49>>, 84, 67) \o Temp(<<50>>, 84, 67)}

(* Up to two lines ended by "\n" (10), then possibly a line the device has *)
(* not ended.                                                              *)
TextStreams ==
  {FlattenSeq([i \in 1..Len(ls) |-> Append(ls[i], 10)]) \o r :
     ls \in SeqOf(TextLines, 2), r \in {<<>>, <<120>>}}

ToolStreams == WellFormedStreams \cup TextStreams

ToolsInit == Init /\ D!DumpInit

SnifferStep == script = "sniffer" /\ ReadByte /\ UNCHANGED dumpOnly
EchoStep == D!EchoRead /\ UNCHANGED snifferOnly
TempStep == D!TempRead /\ UNCHANGED snifferOnly
StopStep == D!Stop /\ UNCHANGED snifferOnly

ToolsNext == SnifferStep \/ EchoStep \/ TempStep \/ StopStep

(* Each tool's read loop is weakly fair (ser.read(1) returns once the      *)
(* device has sent a byte); the sniffer's exception path is left out, as   *)
(* in Sniffer, and nothing forces a dump script's.                         *)
ToolsSpec ==
  ToolsInit /\ [][ToolsNext]_toolVars
    /\ WF_toolVars(SnifferStep) /\ WF_toolVars(EchoStep) /\ WF_toolVars(TempStep)

ToolsTypeOK == TypeOK /\ D!DumpTypeOK

(* sniffer.py: the packets and channel reports written are a prefix of    *)
(* the reference decoding of the bytes read, all of it in START_0.         *)
SniffedAsReference == script = "sniffer" => PacketsAsReference

(* sniffer.py: every record the device sends is eventually written.        *)
SniffedDelivered == script = "sniffer" => Delivered
=============================================================================
