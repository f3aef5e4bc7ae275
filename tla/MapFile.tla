------------------------------ MODULE MapFile ------------------------------
(***************************************************************************)
(* The GNU ld map file that src/tools/linkmap.py and src/tools/memmap.py   *)
(* read.  Both split the text at "\n" and test each line with              *)
(* str.startswith and str.split; a line is kept here as the tokens split() *)
(* returns and whether it starts with a blank, which is all those tests    *)
(* look at.  A token keeps only what the scripts tell apart: its kind, the *)
(* section or base name, the archive member and the value of a hex number. *)
(* Directories in file names are left out.  pretty() and pretty_re, which *)
(* both scripts define, are the two operators at the end.                  *)
(***************************************************************************)
EXTENDS Naturals, Sequences, TLC

Word(w) == [k |-> "word", v |-> w, sub |-> "", n |-> 0]
Hex(x) == [k |-> "hex", v |-> "0x", sub |-> "", n |-> x]     \* "0x..." of x
Section(s, sub) == [k |-> "sect", v |-> s, sub |-> sub, n |-> 0]
                                              \* s, or s + "." + sub
File(base, member) == [k |-> "file", v |-> base, sub |-> member, n |-> 0]
                                              \* base, or base(member)

Line(ind, toks) == [ind |-> ind, toks |-> toks]   \* ind: starts with " "

Blank == Line(FALSE, <<>>)                        \* the line ""
ArchiveHeader ==
  Line(FALSE, <<Word("Archive member included because of file (symbol)")>>)

(* int(t, 16) *)
HexValue(t) == t.n

(* line.startswith(s), s a word or a section name written at column 0:     *)
(* ".text" is a prefix of ".text" and of ".text.<sub>".                    *)
StartsWith(l, s) == ~l.ind /\ l.toks # <<>> /\ l.toks[1].v = s

(* line.startswith(" .")                                                   *)
StartsWithBlankDot(l) == l.ind /\ l.toks # <<>> /\ l.toks[1].k = "sect"

(* line.startswith(" " + s + " "): the section s itself, followed by more. *)
StartsWithSectionBlank(l, s) ==
  l.ind /\ Len(l.toks) >= 2 /\ l.toks[1] = Section(s, "")

(* (l1 + l2).split(), l2 a continuation line that starts with blanks.      *)
JoinSplit(l1, l2) == l1.toks \o l2.toks

(* d[f] = d.get(f, 0) + x                                                  *)
AddSize(d, f, x) ==
  IF f \in DOMAIN d THEN [d EXCEPT ![f] = @ + x] ELSE d @@ (f :> x)

(* pretty_re.search(s).groups(): ([^/(]+)(?:\((.+)\))?$ gives the base     *)
(* name and the archive member, or None.                                   *)
PrettyGroups(f) == <<f.v, IF f.sub = "" THEN "None" ELSE f.sub>>

(* pretty(s): g[1] or g[0]                                                 *)
Pretty(f) == IF f.sub = "" THEN f.v ELSE f.sub
=============================================================================
