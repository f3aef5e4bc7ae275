---------------------------- MODULE MC_SerialIf ----------------------------
(* Instantiation of SerialIf for TLC.  Opcodes are small naturals standing *)
(* for the device's: commands 1 and 2 (0x60.. in the main program),       *)
(* indications 3 (0xA1..); 0 is the value self.cmd holds when idle.       *)
EXTENDS SerialIf, TLC

CONSTANTS c1, c2   \* caller threads, model values

OneCaller  == {c1}
TwoCallers == {c1, c2}

\* symmetry of interchangeable caller threads
CallerSym == Permutations(TwoCallers)
=============================================================================
