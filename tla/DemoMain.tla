------------------------------ MODULE DemoMain ------------------------------
(***************************************************************************)
(* The __main__ program of iotlab-serial.py as the one caller of SerialIf: *)
(* start the reading thread, register the two indication handlers, send    *)
(* "stop radio" and test ret[0], then, if a mode was given on the command  *)
(* line, send its command and test ret[0], then sleep until interrupted.   *)
(* Any exception (a None or empty result indexed by ret[0], an IOError, a  *)
(* RuntimeError, a KeyboardInterrupt) goes to the except clause; finally   *)
(* closes the port.  The process exits once every thread has ended.        *)
(*                                                                         *)
(* The device, the reading thread and the timers are those of SerialIf.    *)
(***************************************************************************)
EXTENDS SerialIf

CONSTANTS
  Main,         \* the main thread, the only element of Callers
  STOP_RADIO,   \* opcode of "Stop Radio" (0x60)
  ModeOps,      \* opcodes of the modes sys.argv[1] may select (0x61-0x64)
  SNIFF_IND,    \* opcode SniffInput is registered for (0xA1)
  POLL_IND      \* opcode RadioPollInput is registered for (0xA2)

ASSUME /\ Callers = {Main}
       /\ {STOP_RADIO} \cup ModeOps \subseteq CmdOps
       /\ {SNIFF_IND, POLL_IND} \subseteq IndOps

NoMode == 0   \* no command-line argument, or one naming no mode

VARIABLES
  mpc,   \* where the main program is
  mode   \* the command opcode sys.argv[1] selects, or NoMode

mainVars == <<mpc, mode>>
allVars == <<vars, mainVars>>

MainPcs == {"reg1", "reg2", "stop", "check1", "mode", "check2", "sleep",
            "closing", "done"}

(* ret[0] == 0x0A: only a payload can be indexed; None raises TypeError,   *)
(* [] IndexError, and a call that raised has no ret.                       *)
Indexable(r) == r \in Payloads

-----------------------------------------------------------------------------

(* SerialIf(...) and ser.start(): the port is open, run() is reading.      *)
MainInit ==
  /\ Init
  /\ mpc = "reg1"
  /\ mode \in {NoMode} \cup ModeOps

(* ser.register_handler(0xA1, SniffInput()), then 0xA2, RadioPollInput().  *)
MainRegister ==
  \/ mpc = "reg1" /\ RegisterHandler(SNIFF_IND) /\ mpc' = "reg2"
  \/ mpc = "reg2" /\ RegisterHandler(POLL_IND) /\ mpc' = "stop"

(* ret = ser.send_command(0x60)                                            *)
MainStopRadio ==
  /\ mpc = "stop"
  /\ SendCommand(Main, STOP_RADIO)
  /\ mpc' = "check1"

(* if ret[0] == 0x0A: print OK / Failed -- or the exception of ret[0].     *)
MainCheck ==
  /\ mpc \in {"check1", "check2"}
  /\ pc[Main] = "idle"
  /\ mpc' = IF ~Indexable(outcome[cur[Main]]) THEN "closing"
            ELSE IF mpc = "check1" THEN "mode" ELSE "sleep"
  /\ UNCHANGED <<vars, mode>>

(* the if/elif on sys.argv[1]: send the mode's command, or go on to sleep. *)
MainStartMode ==
  /\ mpc = "mode"
  /\ IF mode = NoMode
     THEN mpc' = "sleep" /\ UNCHANGED vars
     ELSE SendCommand(Main, mode) /\ mpc' = "check2"

(* KeyboardInterrupt: the user stops the program.  It is raised in the     *)
(* main thread between its own statements; a blocked lock.acquire() is not *)
(* interrupted (Python 2 delivers the signal once acquire returns).        *)
Interrupt ==
  /\ mpc \notin {"closing", "done"}
  /\ pc[Main] = "idle"
  /\ mpc' = "closing"
  /\ UNCHANGED <<vars, mode>>

(* KeyboardInterrupt between two statements of send_command: the call     *)
(* ends where it is, with the lock possibly held and the timer possibly    *)
(* armed, and the main program goes to except and finally.                 *)
InterruptInCall ==
  /\ mpc \in {"check1", "check2"}
  /\ pc[Main] # "idle"
  /\ pc' = [pc EXCEPT ![Main] = "idle"]
  /\ outcome' = [outcome EXCEPT ![cur[Main]] = KbdInt]
  /\ mpc' = "closing"
  /\ UNCHANGED <<lock, cmd, resp_data, port_open, timer, cur, got, calls,
                 devVars, readerVars, regVars, mode>>

(* finally: ser.close(); the main thread ends.                             *)
MainClose ==
  /\ mpc = "closing"
  /\ Close
  /\ mpc' = "done"

MainStep ==
  MainRegister \/ MainStopRadio \/ MainCheck \/ MainStartMode \/ MainClose

(* The other threads and the device, as in SerialIf.                       *)
Others ==
  \/ CallerStep(Main)
  \/ \E k \in CallIds : TimerStep(k)
  \/ ReaderStep
  \/ DeviceStep
  \/ \E op \in IndOps : DeviceIndicate(op)

MainNext ==
  \/ MainStep /\ UNCHANGED mode
  \/ Interrupt
  \/ InterruptInCall
  \/ Others /\ UNCHANGED mainVars

(* The main thread runs whenever it can, except that the interrupt is the  *)
(* user's choice.  The other threads as in SerialIf.                       *)
MainSpec ==
  /\ MainInit /\ [][MainNext]_allVars
  /\ WF_allVars(MainStep /\ UNCHANGED mode)
  /\ WF_allVars(CallerStep(Main) /\ UNCHANGED mainVars)
  /\ \A k \in CallIds : WF_allVars(TimerStep(k) /\ UNCHANGED mainVars)
  /\ WF_allVars(ReaderStep /\ UNCHANGED mainVars)
  /\ WF_allVars(DeviceStep /\ UNCHANGED mainVars)

-----------------------------------------------------------------------------

(* Every thread of the process has ended: the main thread, the reading     *)
(* thread (returned, or killed by an exception) and every timer thread.    *)
Exited ==
  /\ mpc = "done"
  /\ rpc \in {"stopped", "dead"}
  /\ \A k \in CallIds : timer[k] \in {"none", "cancelled", "done"}

(* Once the main program leaves its normal path (an exception, or the user *)
(* interrupting it), the process exits: close() stops the reading thread   *)
(* and no timer or send_command is left waiting on the lock.               *)
ProgramExits == mpc = "closing" ~> Exited
=============================================================================
