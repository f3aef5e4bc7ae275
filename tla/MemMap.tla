------------------------------ MODULE MemMap ------------------------------
(***************************************************************************)
(* src/tools/memmap.py: the memory charts of a link.  main() reads the map *)
(* (-m) and calls build() for .bss, .data, .text and .rodata in that       *)
(* order; build_flat sums, per file, the size of every line that starts    *)
(* with " <section> " and has a non-zero size, build_treemap splits each   *)
(* file name into archive (or object) and member.  main() then lists one   *)
(* js-treemap node per file of .text, .rodata, .data and .bss, and with    *)
(* -c draws a pie per section of the sizes summed per archive or object.   *)
(* Each build() is one step and the output is one; the pictures, the HTML  *)
(* and the printing are left out.  An exception ends the script.           *)
(***************************************************************************)
EXTENDS Naturals, Sequences, SequencesExt, FiniteSetsExt, TLC, MapFile

CONSTANTS Maps   \* the map files the script may be given

VARIABLES
  map,        \* the lines of the map file
  loaded,     \* -m or -e was given, so main() has bound map
  camembert,  \* the -c option
  mpc,        \* "build", "done", or the exception raised
  built,      \* the (section, flat, tmap) build() returned, in call order
  tm,         \* the js-treemap nodes of .text, .rodata, .data, .bss
  charts      \* section -> the pie draw_chart_toplevel draws

mmVars == <<map, loaded, camembert, mpc, built, tm, charts>>

Sections == <<".bss", ".data", ".text", ".rodata">>

(* Mutant: the size != 0 test left out.                                   *)
FlatLineKeepZero(sizes, l, section) ==
  IF ~StartsWithSectionBlank(l, section) THEN sizes
  ELSE AddSize(sizes, l.toks[4], HexValue(l.toks[3]))

(* Mutant: the size read from ls[1], the address.                          *)
FlatLineAddress(sizes, l, section) ==
  IF ~StartsWithSectionBlank(l, section) THEN sizes
  ELSE LET size == HexValue(l.toks[2])
       IN IF size # 0 THEN AddSize(sizes, l.toks[4], size) ELSE sizes

(* The body of build_flat's loop: ls = l.split(); size = int(ls[2], 16);   *)
(* if size != 0: sizes[ls[3]] += size.                                     *)
FlatLine(sizes, l, section) ==
  IF ~StartsWithSectionBlank(l, section) THEN sizes
  ELSE LET size == HexValue(l.toks[3])
       IN IF size # 0 THEN AddSize(sizes, l.toks[4], size) ELSE sizes

(* ls[2] raises IndexError on fewer than 3 tokens, int() ValueError on a  *)
(* token that is not hex, and ls[3] IndexError on 3 tokens and a non-zero  *)
(* size.  The first such line of the section ends the script.              *)
LineError(l) ==
  CASE Len(l.toks) < 3 -> "IndexError"
    [] l.toks[3].k # "hex" -> "ValueError"
    [] Len(l.toks) < 4 /\ HexValue(l.toks[3]) # 0 -> "IndexError"
    [] OTHER -> "none"

Malformed(section) ==
  LET bad == SelectSeq(map, LAMBDA l : StartsWithSectionBlank(l, section)
                                       /\ LineError(l) # "none")
  IN IF bad = <<>> THEN "none" ELSE LineError(bad[1])

(* build_flat(map, section)                                                *)
BuildFlat(section) ==
  FoldLeft(LAMBDA s, l : FlatLine(s, l, section), [f \in {} |-> 0], map)

(* build_treemap(flat): [name, parent, size] per key, name and parent the  *)
(* groups of pretty_re (the member, None for a plain object file).         *)
BuildTreemap(flat) ==
  [k \in DOMAIN flat |-> [name |-> PrettyGroups(k)[2],
                          parent |-> PrettyGroups(k)[1], size |-> flat[k]]]

(* Mutant: dict[parent] = size, the sizes of earlier rows dropped.        *)
ToplevelLast(tmap) ==
  [p \in {tmap[k].parent : k \in DOMAIN tmap} |->
     tmap[CHOOSE k \in DOMAIN tmap : tmap[k].parent = p].size]

(* draw_chart_toplevel: dict[parent] += size over the tmap rows.           *)
Toplevel(tmap) ==
  LET keys(p) == {k \in DOMAIN tmap : tmap[k].parent = p} IN
  [p \in {tmap[k].parent : k \in DOMAIN tmap} |->
     MapThenSumSet(LAMBDA k : tmap[k].size, keys(p))]

(* new TreeNode(" name ", size): the label is i[0], the member name.       *)
TreeNodes(tmap) == [k \in DOMAIN tmap |-> [label |-> tmap[k].name,
                                            size |-> tmap[k].size]]

(* os.path.basename: the parent, group 1 of pretty_re, is [^/(]+ and holds *)
(* no "/", so its base name is all of it.                                  *)
Basename(p) == p

(* draw_chart(fig, name, labels, sizes, png): a pie of the sizes, each     *)
(* slice with its label, titled with name and sum(sizes).                  *)
DrawChart(name, labels, sizes) ==
  [name |-> name,
   slices |-> [i \in DOMAIN labels |-> <<labels[i], sizes[i]>>],
   bytes |-> FoldFunction(LAMBDA x, y : x + y, 0, sizes)]

(* draw_chart_flat(fig, section, sizes, png): the labels are the keys in   *)
(* the dict's order, fracs their sizes in that same order, and each label  *)
(* then goes through pretty2 (os.path.basename).                           *)
DrawChartFlat(section, sizes) ==
  LET labels == SetToSeq(DOMAIN sizes)
  IN  DrawChart(section, [i \in DOMAIN labels |-> Basename(labels[i])],
                [i \in DOMAIN labels |-> sizes[labels[i]]])

Result(s) == built[CHOOSE i \in DOMAIN built : built[i].section = s]

-----------------------------------------------------------------------------

(* parse_args; with -m, map = file(options.file_map).read().split("\n"),   *)
(* with -e, the lines of arm-none-eabi-ld -M on the ELF file (the last     *)
(* given wins); with neither, map is never assigned.                       *)
MMInit ==
  /\ map \in Maps
  /\ loaded \in BOOLEAN
  /\ camembert \in BOOLEAN
  /\ mpc = "build"
  /\ built = <<>>
  /\ tm = <<>>
  /\ charts = [s \in {} |-> 0]

(* (x, tm_x) = build(map, x), for the next of the four sections.  The     *)
(* first call reads map, which raises UnboundLocalError if it was never   *)
(* assigned.                                                               *)
Build ==
  /\ mpc = "build"
  /\ Len(built) < Len(Sections)
  /\ LET s == Sections[Len(built) + 1] IN
     \/ ~loaded /\ mpc' = "UnboundLocalError" /\ UNCHANGED built
     \/ /\ loaded
        /\ IF Malformed(s) # "none"
           THEN mpc' = Malformed(s) /\ UNCHANGED built
           ELSE /\ built' = Append(built, [section |-> s, flat |-> BuildFlat(s),
                                           tmap |-> BuildTreemap(BuildFlat(s))])
                /\ UNCHANGED mpc
  /\ UNCHANGED <<map, loaded, camembert, tm, charts>>

(* The js-treemap node lists, then with -c draw_chart_toplevel of each     *)
(* section.                                                                *)
Output ==
  /\ mpc = "build"
  /\ Len(built) = Len(Sections)
  /\ tm' = [i \in 1..4 |->
              TreeNodes(Result(<<".text", ".rodata", ".data", ".bss">>[i]).tmap)]
  /\ charts' = IF camembert
               THEN [s \in Range(Sections) |->
                       DrawChartFlat(s, Toplevel(Result(s).tmap))]
               ELSE charts
  /\ mpc' = "done"
  /\ UNCHANGED <<map, loaded, camembert, built>>

MMNext == Build \/ Output

MMSpec == MMInit /\ [][MMNext]_mmVars /\ WF_mmVars(MMNext)

-----------------------------------------------------------------------------

MMTypeOK ==
  /\ mpc \in {"build", "done", "IndexError", "ValueError", "UnboundLocalError"}
  /\ Len(built) <= Len(Sections)
  /\ \A i \in DOMAIN built :
       \A f \in DOMAIN built[i].flat : built[i].flat[f] \in Nat \ {0}
=============================================================================
