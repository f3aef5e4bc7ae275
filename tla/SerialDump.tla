----------------------------- MODULE SerialDump -----------------------------
(***************************************************************************)
(* The serial dump scripts of src/tools.  Each opens the port and runs     *)
(*     while True: try: data = ser.read(1); <handle data>                  *)
(*                 except: break                                           *)
(*     ser.close()                                                         *)
(* ttyDumper.py (and fiteco/seropen.py, whose loop is the same) writes     *)
(* every byte to stdout; tempDumper.py gathers bytes into data_str until   *)
(* "\n", then logs the temperature of a line matching (T=...°C) to stderr  *)
(* and writes any other line to stdout.  Any exception (the port failing,  *)
(* Ctrl-C, a broken stdout pipe) ends the loop.                            *)
(*                                                                         *)
(* Bytes are numbers.  A read and its handling are one step: an exception  *)
(* between them loses the byte, which looks the same as an exception       *)
(* before the read.  Time stamps of the log and seropen's banner lines are *)
(* left out.                                                               *)
(***************************************************************************)
EXTENDS Naturals, Sequences, SequencesExt, FiniteSetsExt

CONSTANTS
  Streams,   \* the byte streams the device may send
  Scripts    \* the programs that may hold the port

VARIABLES
  input,     \* bytes the port has not delivered yet
  consumed,  \* bytes ser.read(1) has returned (history)
  script,    \* the program holding the port
  open,      \* the loop runs; FALSE once ser.close() ran
  out,       \* bytes written to stdout
  data_str,  \* tempDumper: the bytes of the current line
  log        \* tempDumper: the readings log() wrote to stderr

dumpVars == <<input, consumed, script, open, out, data_str, log>>

NL == 10                                  \* "\n"
Opening == {<<40, 84, 61>>, <<40, 116, 61>>}        \* "(T=", re.I: "(t="
Closing == {<<194, 176, 67, 41>>, <<194, 176, 99, 41>>}
                                          \* "°C)" in UTF-8, re.I: "°c)"
Digits == {46} \cup 48..57                \* [0-9\.]
NoReading == <<>>                         \* re.match(...) is None
DumpScripts == {"ttyDumper", "seropen", "tempDumper"}

(* At position i of line s: "(T=", one or more of [0-9.], "°C)".  The      *)
(* digits end at the first other byte, where "°C)" must then start.        *)
MatchAt(s, i) ==
  LET stop == {k \in i + 3..Len(s) : s[k] \notin Digits}
      k == Min(stop)
  IN  /\ i + 2 <= Len(s)
      /\ SubSeq(s, i, i + 2) \in Opening
      /\ stop # {}
      /\ k > i + 3
      /\ k + 3 <= Len(s)
      /\ SubSeq(s, k, k + 3) \in Closing

(* matchObj.group(1) of re.match(r'.*\(T=([0-9\.]+)°C\)', s, re.M|re.I):   *)
(* the greedy .* makes it the digits of the last place that matches.       *)
Reading(s) ==
  LET at == {i \in 1..Len(s) : MatchAt(s, i)}
      i == Max(at)
      k == Min({j \in i + 3..Len(s) : s[j] \notin Digits})
  IN  IF at = {} THEN NoReading ELSE SubSeq(s, i + 3, k - 1)

-----------------------------------------------------------------------------

(* The port is opened (serial.Serial) and data_str = [].                   *)
DumpInit ==
  /\ input \in Streams
  /\ consumed = <<>>
  /\ script \in Scripts
  /\ open = TRUE
  /\ out = <<>>
  /\ data_str = <<>>
  /\ log = <<>>

(* The byte ser.read(1) returns: it blocks until the device sends one.     *)
Take ==
  /\ open
  /\ input # <<>>
  /\ input' = Tail(input)
  /\ consumed' = Append(consumed, Head(input))

(* ttyDumper, seropen: sys.stdout.write(data); sys.stdout.flush()          *)
EchoRead ==
  /\ script \in {"ttyDumper", "seropen"}
  /\ Take
  /\ out' = Append(out, Head(input))
  /\ UNCHANGED <<script, open, data_str, log>>

(* tempDumper's data_str after byte b: [] after "\n", else b appended.     *)
LineAfter(b) == IF b = NL THEN <<>> ELSE Append(data_str, b)

(* tempDumper: on "\n", s = "".join(data_str); a reading goes to log(),    *)
(* any other line to stdout with "\n"; then data_str = [].  Any other      *)
(* byte is appended to data_str.                                           *)
TempRead ==
  /\ script = "tempDumper"
  /\ Take
  /\ \/ Head(input) # NL /\ UNCHANGED <<out, log>>
     \/ /\ Head(input) = NL /\ Reading(data_str) # NoReading
        /\ log' = Append(log, Reading(data_str)) /\ UNCHANGED out
     \/ /\ Head(input) = NL /\ Reading(data_str) = NoReading
        /\ out' = out \o data_str \o <<NL>> /\ UNCHANGED log
  /\ data_str' = LineAfter(Head(input))
  /\ UNCHANGED <<script, open>>

(* except: break, then ser.close(): an exception at any point of the loop  *)
(* (the port failing, Ctrl-C, a write to a closed pipe).  data_str, the    *)
(* line not yet ended, is dropped.                                         *)
Stop ==
  /\ open
  /\ script \in DumpScripts
  /\ open' = FALSE
  /\ UNCHANGED <<input, consumed, script, out, data_str, log>>

DumpNext == EchoRead \/ TempRead \/ Stop

(* ser.read(1) returns whenever the device has sent a byte: reading is     *)
(* weakly fair.  Nothing forces an exception.                              *)
DumpSpec == DumpInit /\ [][DumpNext]_dumpVars
              /\ WF_dumpVars(EchoRead) /\ WF_dumpVars(TempRead)

-----------------------------------------------------------------------------

DumpTypeOK ==
  /\ script \in Scripts /\ open \in BOOLEAN
  /\ out \in Seq(Nat) /\ data_str \in Seq(Nat)
  /\ log \in Seq(Seq(Digits))
=============================================================================
