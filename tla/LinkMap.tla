------------------------------ MODULE LinkMap ------------------------------
(***************************************************************************)
(* src/tools/linkmap.py: the tree map of the .text region of a link.  The  *)
(* script reads the map file once, top to bottom, in three passes:         *)
(*   - the "Archive member included because of file (symbol)" section      *)
(*     gives depend_list, the member pulled in and the file that needed    *)
(*     it (an entry may be wrapped on two lines);                          *)
(*   - every LOAD line gives load_list, the files given to the linker;     *)
(*   - get_section_data(".text") adds the size of every input-section line *)
(*     of the .text output section to size_dict[file] (a line may be       *)
(*     wrapped), then builds the Codeobj tree: a root "binary" with a      *)
(*     child per loaded file, and under each file the members it pulled    *)
(*     in, recursively; every Codeobj pushes its size up to its ancestors. *)
(* Each iteration of the three while loops is one step; the LOAD scan and  *)
(* the tree, which read only what the loops built, are one step each.      *)
(* An exception ends the script: pc is then the exception's name.  Before  *)
(* reading, the script picks its input: the file named by its one argument *)
(* or, run as a CGI, the uploaded "linkmap" field; a CGI request with      *)
(* action=source prints the script itself, and a wrong argument count      *)
(* prints the usage, and both exit.                                        *)
(***************************************************************************)
EXTENDS Naturals, Sequences, SequencesExt, TLC, MapFile

CONSTANTS Maps   \* the map files the script may be given

VARIABLES
  entry,         \* how the script was started, see Entries
  lm,            \* the lines of the map file
  n,             \* the line index of the loops
  pc,            \* which loop runs, "done", or the exception raised
  depend_list,   \* the 3-token dependency entries, in file order
  load_list,     \* the files of the LOAD lines, in file order
  size_dict,     \* file -> summed .text size
  data           \* the rows print_tree returns

vars == <<entry, lm, n, pc, depend_list, load_list, size_dict, data>>

lines == Len(lm)
At(i) == lm[i + 1]    \* lm[i]: Python lists count from 0

SizeOf(name) == IF name \in DOMAIN size_dict THEN size_dict[name] ELSE 0

-----------------------------------------------------------------------------
(* The Codeobj tree.  A node is identified by its path of child indices    *)
(* from the root; Created lists the nodes in the order __init__ runs.      *)

(* add_child(name): a Codeobj of size size_dict.get(name, 0), then a child *)
(* for every depend_list entry x with x[1] == name, in list order.         *)
RECURSIVE AddChild(_, _)
AddChild(path, name) ==
  LET deps == SelectSeq(depend_list, LAMBDA x : x[2] = name) IN
  <<[path |-> path, name |-> name, size |-> SizeOf(name)]>>
    \o FlattenSeq([i \in 1..Len(deps) |-> AddChild(path \o <<i>>, deps[i][1])])

(* root_obj = Codeobj("binary", 0, None), then add_child of every item of  *)
(* load_list.                                                              *)
Created ==
  <<[path |-> <<>>, name |-> Word("binary"), size |-> 0]>>
    \o FlattenSeq([i \in 1..Len(load_list) |-> AddChild(<<i>>, load_list[i])])

(* Mutant: push_size adds to the parent only, never further up.            *)
PushSizeOnce(t, p, s) == [t EXCEPT ![p] = @ + s]

(* push_size(size): total_size += size, then the parent's push_size.       *)
RECURSIVE PushSize(_, _, _)
PushSize(t, p, s) ==
  LET t1 == [t EXCEPT ![p] = @ + s] IN
  IF p = <<>> THEN t1 ELSE PushSize(t1, Front(p), s)

(* Codeobj.__init__: total_size = size, then parent.push_size(size); run   *)
(* for the nodes in creation order, giving every node's total_size.        *)
Totals ==
  LET paths == {c.path : c \in Range(Created)}
      init(t, c) == LET t1 == [t EXCEPT ![c.path] = c.size] IN
                    IF c.path = <<>> THEN t1
                    ELSE PushSize(t1, Front(c.path), c.size)
  IN FoldLeft(init, [p \in paths |-> 0], Created)

(* print_label(): pretty(name) and total_size, or with total=0 the name    *)
(* after a blank and the node's own size.                                  *)
Label(c, total) ==
  IF total THEN [lead |-> FALSE, name |-> Pretty(c.name), num |-> Totals[c.path]]
  ELSE [lead |-> TRUE, name |-> Pretty(c.name), num |-> c.size]

(* print_tree(): print_one() of the node, then of its children, which is   *)
(* creation order.  print_one gives [label, parent label or null, size],   *)
(* and when the node has a size and children, one more row for its own     *)
(* size under itself.                                                      *)
PrintTree ==
  LET node(p) == CHOOSE c \in Range(Created) : c.path = p
      kids(c) == {d \in Range(Created) : d.path # <<>> /\ Front(d.path) = c.path}
      rows(c) ==
        <<[id |-> Label(c, TRUE), size |-> c.size,
           parent |-> IF c.path = <<>> THEN "null"
                      ELSE Label(node(Front(c.path)), TRUE)]>>
        \o IF c.size # 0 /\ kids(c) # {}
           THEN <<[id |-> Label(c, FALSE), parent |-> Label(c, TRUE),
                   size |-> c.size]>>
           ELSE <<>>
  IN FlattenSeq([i \in 1..Len(Created) |-> rows(Created[i])])

-----------------------------------------------------------------------------

(* The script's start: "map" when lm is a non-empty map (argv[1] or the   *)
(* CGI field); "no_map" when lm is empty or None (a CGI post without a     *)
(* file); "source" for ?action=source; "usage" for a wrong argv.           *)
Entries == {"map", "no_map", "source", "usage"}

(* if lm: ... reads the map; otherwise data stays "" and the page is       *)
(* printed at once; sys.exit() ends the other two.                         *)
StartPc(e) ==
  CASE e = "map"    -> "deps_find"
    [] e = "no_map" -> "done"
    [] OTHER        -> "exit"

(* lm = file(sys.argv[1]).read() or cgifs.getvalue("linkmap"); then        *)
(* if lm: lm = lm.split("\n"); n = 0                                       *)
Init ==
  /\ entry \in Entries
  /\ lm \in Maps
  /\ n = 0
  /\ pc = StartPc(entry)
  /\ depend_list = <<>>
  /\ load_list = <<>>
  /\ size_dict = [f \in {} |-> 0]
  /\ data = <<>>

(* while n < lines and lm[n] != "Archive member ...": n += 1; then n += 1  *)
DepsFind ==
  /\ pc = "deps_find"
  /\ n' = n + 1
  /\ pc' = IF n < lines /\ At(n) # ArchiveHeader THEN pc ELSE "deps_check"
  /\ UNCHANGED <<entry, lm, depend_list, load_list, size_dict, data>>

(* if lm[n] != "": raise BaseException; n += 1.  Without the section n is  *)
(* past the end and lm[n] raises IndexError.                               *)
DepsCheck ==
  /\ pc = "deps_check"
  /\ pc' = IF n >= lines THEN "IndexError"
           ELSE IF At(n) # Blank THEN "BaseException" ELSE "deps"
  /\ n' = n + 1
  /\ UNCHANGED <<entry, lm, depend_list, load_list, size_dict, data>>

(* One iteration of while n < lines and lm[n] != "": fewer than 3 tokens   *)
(* is a wrapped entry, joined with lm[n + 1]; an entry of 3 tokens is      *)
(* appended.  The loop ends on an empty line.                              *)
Deps ==
  /\ pc = "deps"
  /\ IF n < lines /\ At(n) # Blank
     THEN LET wrap == Len(At(n).toks) < 3
              tmpdep == IF wrap THEN JoinSplit(At(n), At(n + 1)) ELSE At(n).toks
          IN IF wrap /\ n + 1 >= lines
             THEN pc' = "IndexError" /\ UNCHANGED <<n, depend_list>>
             ELSE /\ depend_list' = IF Len(tmpdep) = 3
                                    THEN Append(depend_list, tmpdep)
                                    ELSE depend_list
                  /\ n' = n + (IF wrap THEN 2 ELSE 1)
                  /\ UNCHANGED pc
     ELSE pc' = "load" /\ UNCHANGED <<n, depend_list>>
  /\ UNCHANGED <<entry, lm, load_list, size_dict, data>>

(* for line in lm: if line.startswith("LOAD"): append line.split()[1].     *)
(* Then get_section_data(".text") starts: n = 0.                           *)
Load ==
  /\ pc = "load"
  /\ LET loads == SelectSeq(lm, LAMBDA l : StartsWith(l, "LOAD"))
     IN load_list' = [i \in 1..Len(loads) |-> loads[i].toks[2]]
  /\ n' = 0
  /\ pc' = "text_find"
  /\ UNCHANGED <<entry, lm, depend_list, size_dict, data>>

(* while n < lines and not lm[n].startswith(section_name): n += 1; n += 1  *)
TextFind ==
  /\ pc = "text_find"
  /\ n' = n + 1
  /\ pc' = IF n < lines /\ ~StartsWith(At(n), ".text") THEN pc ELSE "text"
  /\ UNCHANGED <<entry, lm, depend_list, load_list, size_dict, data>>

(* One iteration of while n < lines and lm[n] != "": a line starting with  *)
(* " ." is an input section, joined with the next line when it has fewer  *)
(* than 4 tokens; with 4 tokens, size_dict[tmpsiz[3]] += int(tmpsiz[2]).   *)
(* Other lines (symbols, fill) are skipped.                                *)
Text ==
  /\ pc = "text"
  /\ IF n < lines /\ At(n) # Blank
     THEN IF ~StartsWithBlankDot(At(n))
          THEN n' = n + 1 /\ UNCHANGED <<pc, size_dict>>
          ELSE LET wrap == Len(At(n).toks) < 4
                   tmpsiz == IF wrap THEN JoinSplit(At(n), At(n + 1))
                             ELSE At(n).toks
               IN IF wrap /\ n + 1 >= lines
                  THEN pc' = "IndexError" /\ UNCHANGED <<n, size_dict>>
                  ELSE /\ size_dict' =
                            IF Len(tmpsiz) = 4
                            THEN AddSize(size_dict, tmpsiz[4], HexValue(tmpsiz[3]))
                            ELSE size_dict
                       /\ n' = n + (IF wrap THEN 2 ELSE 1)
                       /\ UNCHANGED pc
     ELSE pc' = "tree" /\ UNCHANGED <<n, size_dict>>
  /\ UNCHANGED <<entry, lm, depend_list, load_list, data>>

(* The end of get_section_data: the tree is built and printed.             *)
Tree ==
  /\ pc = "tree"
  /\ data' = PrintTree
  /\ pc' = "done"
  /\ UNCHANGED <<entry, lm, n, depend_list, load_list, size_dict>>

Next == DepsFind \/ DepsCheck \/ Deps \/ Load \/ TextFind \/ Text \/ Tree

Spec == Init /\ [][Next]_vars /\ WF_vars(Next)

-----------------------------------------------------------------------------

TypeOK ==
  /\ entry \in Entries
  /\ n \in 0..Len(lm) + 2
  /\ pc \in {"deps_find", "deps_check", "deps", "load", "text_find", "text",
             "tree", "done", "exit", "IndexError", "BaseException"}
  /\ \A i \in 1..Len(depend_list) : Len(depend_list[i]) = 3
  /\ \A f \in DOMAIN size_dict : size_dict[f] \in Nat

(* The total of the root row is the sum of size_dict: every byte of .text  *)
(* the map attributes to a file shows up once in the tree map, whatever    *)
(* the nesting of the members (add_child and the recursive push_size).     *)
EveryByteAttributed ==
  pc = "done" /\ entry = "map" =>
    data[1].id.num = FoldFunction(LAMBDA x, y : x + y, 0, size_dict)
=============================================================================
