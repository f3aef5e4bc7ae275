---------------------------- MODULE MC_MapTools ----------------------------
(***************************************************************************)
(* linkmap.py and memmap.py run on the same map file.  Both are single     *)
(* processes that only read the file, so running them side by side changes *)
(* nothing in either; it lets one state hold both results.                 *)
(*                                                                         *)
(* The map files are built from the sections the scripts read: the archive *)
(* member section (each entry on one line or wrapped on two), the LOAD     *)
(* lines, a .text output section with one input section per file (sizes 0 *)
(* or 3, a symbol line after the first) and a .data section.  The object  *)
(* main.o pulls memcpy.o out of libc.a, which may pull memmove.o in turn.  *)
(* With -ffunction-sections and --gc-sections a map also has .text.<fn>    *)
(* input sections (one line, or wrapped when the name is long) and         *)
(* discarded .text sections listed before the memory map.                  *)
(***************************************************************************)
EXTENDS Naturals, Sequences, SequencesExt, TLC, MapFile

CONSTANTS MapSet   \* PlainMaps or SectionedMaps

VARIABLES entry, lm, n, pc, depend_list, load_list, size_dict, data,
          loaded, camembert, mpc, built, tm, charts

lmVars == <<entry, n, pc, depend_list, load_list, size_dict, data>>
mmVars == <<loaded, camembert, mpc, built, tm, charts>>
allVars == <<lm, lmVars, mmVars>>

LM == INSTANCE LinkMap WITH Maps <- MapSet
MM == INSTANCE MemMap WITH Maps <- MapSet, map <- lm

O1 == File("main.o", "")
O2 == File("radio.o", "")
Lib == File("libc.a", "")
M1 == File("libc.a", "memcpy.o")
M2 == File("libc.a", "memmove.o")

DepLines(m, c, wrap) ==
  IF wrap THEN <<Line(FALSE, <<m>>), Line(TRUE, <<c, Word("(sym)")>>)>>
  ELSE <<Line(FALSE, <<m, c, Word("(sym)")>>)>>

ArchiveSection(deps) == <<ArchiveHeader, Blank>> \o deps \o <<Blank>>

Loads == <<Line(FALSE, <<Word("LOAD"), O1>>), Line(FALSE, <<Word("LOAD"), O2>>),
           Line(FALSE, <<Word("LOAD"), Lib>>)>>

Input(sec, f, x) == Line(TRUE, <<sec, Hex(0), Hex(x), f>>)
Symbol == Line(TRUE, <<Hex(0), Word("main")>>)
Text == Section(".text", "")

TextOut(ins) ==
  <<Line(FALSE, <<Text, Hex(0), Hex(0)>>)>> \o ins \o <<Blank>>
DataOut ==
  <<Line(FALSE, <<Section(".data", ""), Hex(0), Hex(1)>>),
    Input(Section(".data", ""), O1, 1), Blank>>

Sizes == {0, 3}

PlainMaps ==
  { ArchiveSection(DepLines(M1, O1, w1)) \o Loads
      \o TextOut(<<Input(Text, O1, a), Symbol, Input(Text, O2, b),
                  Input(Text, M1, c)>>) \o DataOut
    : w1 \in BOOLEAN, a, b, c \in Sizes }
  \cup
  { ArchiveSection(DepLines(M1, O1, w1) \o DepLines(M2, M1, w2)) \o Loads
      \o TextOut(<<Input(Text, O1, a), Symbol, Input(Text, O2, b),
                  Input(Text, M1, c), Input(Text, M2, d)>>) \o DataOut
    : w1, w2 \in BOOLEAN, a, b, c, d \in Sizes }

(* A function section of radio.o, on one line or wrapped.                  *)
FnSection(wrap) ==
  IF wrap THEN <<Line(TRUE, <<Section(".text", "fn")>>),
                 Line(TRUE, <<Hex(0), Hex(2), O2>>)>>
  ELSE <<Input(Section(".text", "fn"), O2, 2)>>

Discarded(x) == <<Line(FALSE, <<Word("Discarded")>>), Blank, Input(Text, O2, x), Blank>>

SectionedMaps ==
  { ArchiveSection(DepLines(M1, O1, FALSE)) \o Discarded(x) \o Loads
      \o TextOut(<<Input(Text, O1, 3)>> \o FnSection(w) \o <<Input(Text, M1, 3)>>)
      \o DataOut
    : w \in BOOLEAN, x \in Sizes }

-----------------------------------------------------------------------------

Init == LM!Init /\ MM!MMInit

Next == \/ LM!Next /\ UNCHANGED mmVars
        \/ MM!MMNext /\ UNCHANGED lmVars

Spec == Init /\ [][Next]_allVars /\ WF_allVars(LM!Next /\ UNCHANGED mmVars)
                                 /\ WF_allVars(MM!MMNext /\ UNCHANGED lmVars)

-----------------------------------------------------------------------------

TypeOK == LM!TypeOK /\ MM!MMTypeOK

(* linkmap.py: the root of the tree map totals all of size_dict, so every  *)
(* .text byte read from the map is shown once, members of members too.     *)
EveryByteAttributed == LM!EveryByteAttributed

(* With -c, the .text pie memmap.py draws (draw_chart_toplevel, then      *)
(* draw_chart_flat and draw_chart) is titled with as many bytes as the     *)
(* root of linkmap.py's tree map shows for the same map: the slices, one   *)
(* per archive or object, together hold every .text byte once.            *)
ChartMatchesTree ==
  pc = "done" /\ entry = "map" /\ mpc = "done" /\ camembert =>
    charts[".text"].bytes = data[1].id.num

(* Both scripts chart the .text section of the same map: once both have    *)
(* finished, they give every file the same .text size (memmap.py's         *)
(* build_flat against linkmap.py's size_dict).                             *)
ToolsAgree ==
  pc = "done" /\ entry = "map" /\ mpc = "done" =>
    LET flat == MM!Result(".text").flat
        mm(f) == IF f \in DOMAIN flat THEN flat[f] ELSE 0
    IN \A f \in DOMAIN size_dict \cup DOMAIN flat : LM!SizeOf(f) = mm(f)
=============================================================================
