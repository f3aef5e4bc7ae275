------------------------------ MODULE SerialIf ------------------------------
(***************************************************************************)
(* SerialIf of iotlab-serial.py: the command/response rendezvous, the      *)
(* handler registry and the port lifecycle, with the threads that touch    *)
(* them: callers of send_command, the reading thread run(), one            *)
(* threading.Timer per command, and the device at the other end of the     *)
(* link.                                                                   *)
(*                                                                         *)
(* self.lock is a threading.Lock: it has no owner, any thread may release  *)
(* it, and release() of an unlocked lock raises RuntimeError.  The code    *)
(* uses it both as the command slot (first acquire) and as the signal that *)
(* a response or a timeout arrived (second acquire, released by run() or   *)
(* by the timer).                                                          *)
(*                                                                         *)
(* The reading thread is modelled frame by frame: the bytes of a frame     *)
(* are decoded by the loop checked in module Deframer.  A payload is the   *)
(* identity of what it answers: Resp(k) is the device's answer to the k-th *)
(* command, Ind(j) the j-th indication.                                    *)
(***************************************************************************)
EXTENDS Naturals, Sequences, FiniteSets

CONSTANTS
  Callers,      \* threads that call send_command
  CmdOps,       \* opcodes of commands
  IndOps,       \* opcodes of indications the device sends
  MaxCalls,     \* bound on the number of send_command calls
  MaxInds,      \* bound on the number of indications
  LateReplies,  \* the device may answer after the 1 s timer has fired
  CloseAnytime  \* close() may run while commands are in progress

ASSUME /\ Callers # {} /\ CmdOps \subseteq Nat /\ IndOps \subseteq Nat
       /\ MaxCalls \in Nat /\ MaxInds \in Nat
       /\ LateReplies \in BOOLEAN /\ CloseAnytime \in BOOLEAN

Resp(k) == [kind |-> "resp", id |-> k]
Ind(j)  == [kind |-> "ind",  id |-> j]
NoneVal == [kind |-> "none", id |-> 0]     \* resp_data = None
EmptyVal == [kind |-> "empty", id |-> 0]   \* resp_data = [] (its initial value)
Payloads == {Resp(k) : k \in 1..MaxCalls} \cup {Ind(j) : j \in 1..MaxInds}
Results == Payloads \cup {NoneVal, EmptyVal}

\* what a send_command call ended with
Pending == [kind |-> "pending", id |-> 0]
IOErr   == [kind |-> "ioerror", id |-> 0]   \* serial.write raised
RTErr   == [kind |-> "rterror", id |-> 0]   \* lock.release raised
KbdInt  == [kind |-> "interrupt", id |-> 0] \* KeyboardInterrupt in the call

Ops == CmdOps \cup IndOps
CallIds == 1..MaxCalls
TimerStates == {"none", "armed", "cancelled", "setting", "releasing", "done"}

VARIABLES
  lock,       \* self.lock: "free" or "held"
  cmd,        \* self.cmd: opcode of the pending command, 0 when none
  resp_data,  \* self.resp_data
  commands,   \* set of opcodes with a handler in self.commands
  port_open,  \* self.serial is open
  pc,         \* per caller: where it is in send_command
  cur,        \* per caller: the call it is executing
  got,        \* per caller: the local resp_data of send_command
  calls,      \* the send_command calls made: [op, by]
  outcome,    \* per call: what it returned or raised
  timer,      \* per call: state of its threading.Timer
  rpc,        \* the reading thread: where it is in run()/_process_input
  rframe,     \* the frame _process_input is handling
  toDev,      \* commands written to the port, not yet read by the device
  wire,       \* frames sent by the device, not yet read by run()
  dropped,    \* calls the device will never answer
  ninds,      \* indications sent so far
  received,   \* calls whose response run() has read (history)
  handled,    \* indications passed to a handler (history)
  unreg       \* opcodes whose handler the program asked to remove (history)

callerVars == <<pc, cur, got, calls, outcome>>
devVars    == <<toDev, wire, dropped, ninds>>
readerVars == <<rpc, rframe, received, handled>>
regVars    == <<commands, unreg>>
vars == <<lock, cmd, resp_data, port_open, timer, callerVars, devVars,
          readerVars, regVars>>

-----------------------------------------------------------------------------

Init ==
  /\ lock = "free"
  /\ cmd = 0
  /\ resp_data = EmptyVal
  /\ commands = {}
  /\ port_open = TRUE
  /\ pc = [c \in Callers |-> "idle"]
  /\ cur = [c \in Callers |-> 0]
  /\ got = [c \in Callers |-> EmptyVal]
  /\ calls = <<>>
  /\ outcome = <<>>
  /\ timer = [k \in CallIds |-> "none"]
  /\ rpc = "read"
  /\ rframe = [op |-> 0, pay |-> EmptyVal]
  /\ toDev = <<>>
  /\ wire = <<>>
  /\ dropped = {}
  /\ ninds = 0
  /\ received = {}
  /\ handled = {}
  /\ unreg = {}

-----------------------------------------------------------------------------
(* send_command(command, data): one action per step between which another *)
(* thread can run.  lock.release() frees a held lock; on a free lock it    *)
(* raises RuntimeError and the lock stays free.                            *)

\* the frame is built; the caller is about to block on the command slot.
\* (Unless CloseAnytime, close() is the program's last call on the object.)
SendCommand(c, op) ==
  /\ pc[c] = "idle"
  /\ Len(calls) < MaxCalls
  /\ port_open \/ CloseAnytime
  /\ calls' = Append(calls, [op |-> op, by |-> c])
  /\ outcome' = Append(outcome, Pending)
  /\ cur' = [cur EXCEPT ![c] = Len(calls) + 1]
  /\ pc' = [pc EXCEPT ![c] = "acq1"]
  /\ UNCHANGED <<lock, cmd, resp_data, port_open, got, timer, devVars,
                 readerVars, regVars>>

\* self.lock.acquire(True); self.cmd = command
AcquireSlot(c) ==
  /\ pc[c] = "acq1"
  /\ lock = "free"
  /\ lock' = "held"
  /\ cmd' = calls[cur[c]].op
  /\ pc' = [pc EXCEPT ![c] = "write"]
  /\ UNCHANGED <<resp_data, port_open, timer, cur, got, calls, outcome,
                 devVars, readerVars, regVars>>

\* self.serial.write(cmd), then the 1 s timer is started.  On a closed
\* port write raises: the exception leaves send_command, lock still held.
WriteCommand(c) ==
  /\ pc[c] = "write"
  /\ LET k == cur[c] IN
     IF port_open
     THEN /\ toDev' = Append(toDev, k)
          /\ timer' = [timer EXCEPT ![k] = "armed"]
          /\ pc' = [pc EXCEPT ![c] = "acq2"]
          /\ UNCHANGED outcome
     ELSE /\ outcome' = [outcome EXCEPT ![k] = IOErr]
          /\ pc' = [pc EXCEPT ![c] = "idle"]
          /\ UNCHANGED <<toDev, timer>>
  /\ UNCHANGED <<lock, cmd, resp_data, port_open, cur, got, calls,
                 wire, dropped, ninds, readerVars, regVars>>

\* second self.lock.acquire(True): wait for a response or the timeout
AwaitResponse(c) ==
  /\ pc[c] = "acq2"
  /\ lock = "free"
  /\ lock' = "held"
  /\ pc' = [pc EXCEPT ![c] = "cancel"]
  /\ UNCHANGED <<cmd, resp_data, port_open, timer, cur, got, calls, outcome,
                 devVars, readerVars, regVars>>

\* Mutant: tim.cancel() left out.
CancelTimerNoop(c) ==
  /\ pc[c] = "cancel"
  /\ pc' = [pc EXCEPT ![c] = "collect"]
  /\ UNCHANGED <<lock, cmd, resp_data, port_open, timer, cur, got, calls,
                 outcome, devVars, readerVars, regVars>>

\* tim.cancel(): no effect once the timer has fired
CancelTimer(c) ==
  /\ pc[c] = "cancel"
  /\ LET k == cur[c] IN
       timer' = IF timer[k] = "armed" THEN [timer EXCEPT ![k] = "cancelled"]
                                      ELSE timer
  /\ pc' = [pc EXCEPT ![c] = "collect"]
  /\ UNCHANGED <<lock, cmd, resp_data, port_open, cur, got, calls, outcome,
                 devVars, readerVars, regVars>>

\* Mutant: self.cmd = -1 as the "no command" marker.
CollectResetMinusOne(c) ==
  /\ pc[c] = "collect"
  /\ got' = [got EXCEPT ![c] = resp_data]
  /\ cmd' = 0 - 1
  /\ pc' = [pc EXCEPT ![c] = "release"]
  /\ UNCHANGED <<lock, resp_data, port_open, timer, cur, calls, outcome,
                 devVars, readerVars, regVars>>

\* resp_data = self.resp_data; self.cmd = 0
Collect(c) ==
  /\ pc[c] = "collect"
  /\ got' = [got EXCEPT ![c] = resp_data]
  /\ cmd' = 0
  /\ pc' = [pc EXCEPT ![c] = "release"]
  /\ UNCHANGED <<lock, resp_data, port_open, timer, cur, calls, outcome,
                 devVars, readerVars, regVars>>

\* self.lock.release(); return resp_data -- or RuntimeError if unlocked
ReleaseSlot(c) ==
  /\ pc[c] = "release"
  /\ lock' = "free"
  /\ outcome' = [outcome EXCEPT ![cur[c]] =
                   IF lock = "held" THEN got[c] ELSE RTErr]
  /\ pc' = [pc EXCEPT ![c] = "idle"]
  /\ UNCHANGED <<cmd, resp_data, port_open, timer, cur, got, calls,
                 devVars, readerVars, regVars>>

-----------------------------------------------------------------------------
(* The threading.Timer of call k, running _command_timeout.                *)

(* The device answers in time unless LateReplies: the timer of call k     *)
(* then expires only if no answer reaches the caller (the device dropped  *)
(* the command, or the port closed before run() read the answer), or     *)
(* after the call has returned without cancelling it.                     *)
MayExpire(k) ==
  \/ LateReplies
  \/ k \in dropped
  \/ ~port_open /\ k \notin received
  \/ outcome[k] # Pending

\* the 1 s wait ends without cancel(): _command_timeout starts
TimerExpire(k) ==
  /\ timer[k] = "armed"
  /\ MayExpire(k)
  /\ timer' = [timer EXCEPT ![k] = "setting"]
  /\ UNCHANGED <<lock, cmd, resp_data, port_open, callerVars, devVars,
                 readerVars, regVars>>

\* self.resp_data = None
TimeoutStore(k) ==
  /\ timer[k] = "setting"
  /\ resp_data' = NoneVal
  /\ timer' = [timer EXCEPT ![k] = "releasing"]
  /\ UNCHANGED <<lock, cmd, port_open, callerVars, devVars, readerVars,
                 regVars>>

\* Mutant: _command_timeout forgets lock.release().
TimeoutReleaseMissing(k) ==
  /\ timer[k] = "releasing"
  /\ timer' = [timer EXCEPT ![k] = "done"]
  /\ UNCHANGED <<lock, cmd, resp_data, port_open, callerVars, devVars,
                 readerVars, regVars>>

\* self.lock.release(); a RuntimeError only ends the timer thread
TimeoutRelease(k) ==
  /\ timer[k] = "releasing"
  /\ lock' = "free"
  /\ timer' = [timer EXCEPT ![k] = "done"]
  /\ UNCHANGED <<cmd, resp_data, port_open, callerVars, devVars, readerVars,
                 regVars>>

-----------------------------------------------------------------------------
(* The reading thread, run(), one frame at a time.                        *)

\* Mutant: "if self.cmd:" -- any frame is the response while a command
\* is pending.
ReaderTakeAnyPending ==
  /\ rpc = "read"
  /\ port_open
  /\ wire # <<>>
  /\ LET f == Head(wire) IN
     /\ wire' = Tail(wire)
     /\ IF cmd # 0
        THEN /\ rpc' = "store"
             /\ rframe' = f
             /\ received' = IF f.pay.kind = "resp"
                            THEN received \cup {f.pay.id} ELSE received
             /\ UNCHANGED handled
        ELSE /\ handled' = IF f.op \in commands
                           THEN handled \cup {f.pay} ELSE handled
             /\ UNCHANGED <<rpc, rframe, received>>
  /\ UNCHANGED <<lock, cmd, resp_data, port_open, timer, callerVars,
                 toDev, dropped, ninds, regVars>>

\* the loop completes a frame and calls _process_input: a frame whose
\* opcode equals self.cmd is taken as the response, any other goes to the
\* handler registered for its opcode, or is dropped with a message
ReaderTake ==
  /\ rpc = "read"
  /\ port_open
  /\ wire # <<>>
  /\ LET f == Head(wire) IN
     /\ wire' = Tail(wire)
     /\ IF cmd = f.op
        THEN /\ rpc' = "store"
             /\ rframe' = f
             /\ received' = IF f.pay.kind = "resp"
                            THEN received \cup {f.pay.id} ELSE received
             /\ UNCHANGED handled
        ELSE /\ handled' = IF f.op \in commands
                           THEN handled \cup {f.pay} ELSE handled
             /\ UNCHANGED <<rpc, rframe, received>>
  /\ UNCHANGED <<lock, cmd, resp_data, port_open, timer, callerVars,
                 toDev, dropped, ninds, regVars>>

\* self.resp_data = data
ReaderStore ==
  /\ rpc = "store"
  /\ resp_data' = rframe.pay
  /\ rpc' = "release"
  /\ UNCHANGED <<lock, cmd, port_open, timer, callerVars, devVars, rframe,
                 received, handled, regVars>>

\* self.lock.release(): a RuntimeError propagates out of run() and the
\* reading thread ends
ReaderRelease ==
  /\ rpc = "release"
  /\ lock' = "free"
  /\ rpc' = IF lock = "held" THEN "read" ELSE "dead"
  /\ UNCHANGED <<cmd, resp_data, port_open, timer, callerVars, devVars,
                 rframe, received, handled, regVars>>

\* Mutant: the exception of read() is caught inside the loop and run()
\* keeps polling the closed port.
ReaderStopContinue ==
  /\ rpc = "read"
  /\ ~port_open
  /\ UNCHANGED vars

\* serial.read() on the closed port raises (and self.running is False):
\* run() prints and returns
ReaderStop ==
  /\ rpc = "read"
  /\ ~port_open
  /\ rpc' = "stopped"
  /\ UNCHANGED <<lock, cmd, resp_data, port_open, timer, callerVars, devVars,
                 rframe, received, handled, regVars>>

-----------------------------------------------------------------------------
(* The program's own calls on the object.                                  *)

\* close(): self.serial.close(); self.running = False.  The main program
\* closes in its finally clause, after its commands, unless CloseAnytime.
Close ==
  /\ port_open
  /\ CloseAnytime \/ (\A c \in Callers : pc[c] = "idle")
  /\ port_open' = FALSE
  /\ UNCHANGED <<lock, cmd, resp_data, timer, callerVars, devVars,
                 readerVars, regVars>>

\* register_handler(cmd, handler) with a handler
RegisterHandler(op) ==
  /\ commands' = commands \cup {op}
  /\ unreg' = unreg \ {op}
  /\ UNCHANGED <<lock, cmd, resp_data, port_open, timer, callerVars, devVars,
                 readerVars>>

\* register_handler(cmd, None): the elif names the undefined 'category',
\* so the call raises NameError and the handler stays registered
UnregisterHandler(op) ==
  /\ unreg' = unreg \cup {op}
  /\ UNCHANGED <<lock, cmd, resp_data, port_open, timer, callerVars, devVars,
                 readerVars, commands>>

-----------------------------------------------------------------------------
(* The device: reads commands in order, answers each with a frame of the  *)
(* same opcode or never; sends indications.                                *)

DeviceReply ==
  /\ toDev # <<>>
  /\ LET k == Head(toDev) IN
       wire' = Append(wire, [op |-> calls[k].op, pay |-> Resp(k)])
  /\ toDev' = Tail(toDev)
  /\ UNCHANGED <<lock, cmd, resp_data, port_open, timer, callerVars, dropped,
                 ninds, readerVars, regVars>>

DeviceDrop ==
  /\ toDev # <<>>
  /\ dropped' = dropped \cup {Head(toDev)}
  /\ toDev' = Tail(toDev)
  /\ UNCHANGED <<lock, cmd, resp_data, port_open, timer, callerVars, wire,
                 ninds, readerVars, regVars>>

DeviceIndicate(op) ==
  /\ ninds < MaxInds
  /\ ninds' = ninds + 1
  /\ wire' = Append(wire, [op |-> op, pay |-> Ind(ninds + 1)])
  /\ UNCHANGED <<lock, cmd, resp_data, port_open, timer, callerVars, toDev,
                 dropped, readerVars, regVars>>

-----------------------------------------------------------------------------

CallerStep(c) ==
  \/ AcquireSlot(c) \/ WriteCommand(c) \/ AwaitResponse(c)
  \/ CancelTimer(c) \/ Collect(c) \/ ReleaseSlot(c)

TimerStep(k) == TimerExpire(k) \/ TimeoutStore(k) \/ TimeoutRelease(k)

ReaderStep == ReaderTake \/ ReaderStore \/ ReaderRelease \/ ReaderStop

DeviceStep == DeviceReply \/ DeviceDrop

Next ==
  \/ \E c \in Callers, op \in CmdOps : SendCommand(c, op)
  \/ \E c \in Callers : CallerStep(c)
  \/ \E k \in CallIds : TimerStep(k)
  \/ ReaderStep
  \/ DeviceStep
  \/ \E op \in IndOps : DeviceIndicate(op)
  \/ Close
  \/ \E op \in IndOps : RegisterHandler(op) \/ UnregisterHandler(op)

(* Threads that can run do run; an armed timer fires once its time has    *)
(* come; the device eventually reads each command.  No fairness for the   *)
(* program's own choices (calling, closing, registering).                  *)
Fairness ==
  /\ \A c \in Callers : WF_vars(CallerStep(c))
  /\ \A k \in CallIds : WF_vars(TimerStep(k))
  /\ WF_vars(ReaderStep)
  /\ WF_vars(DeviceStep)

Spec == Init /\ [][Next]_vars /\ Fairness

-----------------------------------------------------------------------------

Outcomes == Results \cup {Pending, IOErr, RTErr, KbdInt}

TypeOK ==
  /\ lock \in {"free", "held"}
  /\ cmd \in {0} \cup CmdOps
  /\ resp_data \in Results
  /\ commands \subseteq IndOps /\ unreg \subseteq IndOps
  /\ port_open \in BOOLEAN
  /\ pc \in [Callers -> {"idle", "acq1", "write", "acq2", "cancel",
                         "collect", "release"}]
  /\ cur \in [Callers -> 0..MaxCalls]
  /\ got \in [Callers -> Results]
  /\ calls \in Seq([op : CmdOps, by : Callers]) /\ Len(calls) <= MaxCalls
  /\ outcome \in Seq(Outcomes) /\ Len(outcome) = Len(calls)
  /\ timer \in [CallIds -> TimerStates]
  /\ rpc \in {"read", "store", "release", "dead", "stopped"}
  /\ rframe \in [op : {0} \cup Ops, pay : Results]
  /\ toDev \in Seq(CallIds) /\ wire \in Seq([op : Ops, pay : Payloads])
  /\ dropped \subseteq CallIds /\ received \subseteq CallIds
  /\ ninds \in 0..MaxInds /\ handled \subseteq Payloads

(* Correlation: a send_command call that returns a payload returns the     *)
(* device's answer to that very command -- never the answer to another     *)
(* call, an indication, or the stale initial [].  At stake: the lock that  *)
(* is both command slot and response signal, released by run() and by the  *)
(* timer.                                                                  *)
ResponseMatchesCall ==
  \A k \in 1..Len(calls) :
    outcome[k] \in Payloads \cup {EmptyVal} => outcome[k] = Resp(k)

(* The spec's correlation invariant: a call is never resolved by a frame   *)
(* whose opcode differs from its own.                                      *)
ResolvedByOwnOpcode ==
  \A k \in 1..Len(calls) :
    outcome[k].kind = "resp" => calls[outcome[k].id].op = calls[k].op

(* Every lock.release() finds the lock held: no send_command raises        *)
(* RuntimeError and the reading thread never dies of one.  At stake: the   *)
(* timer and run() both release the lock for the same call (spec 4.3: of a *)
(* timeout and a matching frame that race, the loser is a no-op), and a    *)
(* timer tim.cancel() did not stop.                                        *)
ReleasesBalanced ==
  /\ \A k \in 1..Len(calls) : outcome[k] # RTErr
  /\ rpc # "dead"

(* Every send_command call eventually returns or raises.                   *)
CallsReturn == \A c \in Callers : pc[c] # "idle" ~> pc[c] = "idle"

(* register_handler(cmd, None) removes the handler: once the program has   *)
(* asked to remove it (and not registered one again), the opcode has none. *)
UnregisterRemoves == \A op \in unreg : op \notin commands

=============================================================================
