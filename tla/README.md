# TLA+ models of the openlab host-side serial tools

This directory holds TLA+ models of the Python tools in `src/`, and the TLC
configurations that check them. Most of the work is on the one component
with real concurrency: `SerialIf` in
`src/appli/iotlab/controlnode/test/iotlab-serial.py`. It frames a serial byte
stream, matches each command to its response, and routes device indications
to handlers.

## 1. Inventory

### Components and their state

| Component | Code | State | Operations |
|---|---|---|---|
| Deframer | `SerialIf.run`, `_process_debug` (l. 120-166) | `index`, `length`, `data` (locals of `run`), `self.debug` | one loop iteration per byte read; `_process_input` on a complete frame |
| Correlator | `send_command` (76-118), `_process_input` (168-175), `_command_timeout` (183-186) | `self.lock` (a `threading.Lock`), `self.cmd`, `self.resp_data`, one `threading.Timer` per call | acquire the slot, write, arm the timer, wait on a second acquire, cancel, collect, release |
| Dispatcher | `register_handler` (56-67), `_process_input` (177-181) | `self.commands` (opcode → handler) | register, unregister, dispatch or drop |
| Lifecycle | `__init__` (26-54), `close` (69-74), `run` (126-137) | `self.serial` open/closed, `self.running` | open in the constructor, close, the reader ends when `read` raises |
| Handlers | `SniffInput`, `RadioPollInput` (190-221) | none | decode an indication payload and print it |
| Demo main | `__main__` of iotlab-serial.py (223-276) | `ser` | start, register, send commands, index `ret[0]`, close |
| Sniffer | `src/tools/sniffer.py` `Sniffer` (22-140) | `state`, `len`, `data`, `mode_packet` | `parse_one` per byte, write a pcap record |
| Link map | `src/tools/linkmap.py` (16-48, 53-163) | `entry`, `n`, `depend_list`, `load_list`, `size_dict`; the `Codeobj` tree | the start (argv, CGI upload, `?action=source`, usage); three scans of the map, `add_child` (recursive), `push_size`, `print_tree` |
| Memory map | `src/tools/memmap.py` (22-163, 179-292) | the `(flat, tmap)` pair of each section | `build_flat`, `build_treemap` per section; js-treemap nodes; `draw_chart_toplevel`, `draw_chart_flat`, `draw_chart`; an unbound `map` without `-m` or `-e` |
| Dump scripts | `ttyDumper.py` (21-39), `seropen.py` (20-29), `tempDumper.py` (23-52) | `data_str`, the line buffer of tempDumper; the port open or closed | read a byte and echo it, or gather a line and send it to stdout or, when it holds a reading, to stderr; stop on any exception |

### How the parts interact

Four kinds of thread share one `SerialIf` object:

- callers of `send_command`;
- the reading thread `run()`;
- one `threading.Timer` thread per command;
- the main program, which registers handlers and closes the port.

Beside them is the device, at the other end of the serial link. `run()`
decodes bytes into frames. It then compares each frame's opcode with
`self.cmd`:

- if they are equal, it stores the payload in `self.resp_data` and releases
  `self.lock`;
- otherwise it calls the handler registered for the opcode, or prints a
  message and drops the frame.

A caller acquires `self.lock` (the command slot), sets `self.cmd` and writes
the command. It starts a one-second timer, then acquires the lock a second
time. The second acquire returns when `run()` or the timer releases the
lock. The timer's `_command_timeout` sets `resp_data = None` before it
releases.

The two map scripts do not talk to the rest. Each reads a GNU ld map file
and charts the code size of each file. `linkmap.py` scans the archive
member section, the LOAD lines and the `.text` output section, then builds
a tree: each loaded file, and under it the archive members it pulled in.
`memmap.py` sums the lines that start with ` .text ` (and `.data`, `.bss`,
`.rodata`) anywhere in the map. Both claim to chart the `.text` section of
the same map, so their per-file sizes should agree.

`sniffer.py` and the dump scripts also stand alone. Each opens a node's
serial port and runs the same loop: read one byte, handle it, and on any
exception break out and close the port. The user runs one of them at a
time. Whatever the node sends reaches the one that holds the port.

### What is hard

- A `threading.Lock` has no owner, so any thread may release it. Releasing
  it when it is not held raises `RuntimeError`. The code uses one lock both
  as the slot and as the "answer arrived" signal, and three different
  threads release it. Any interleaving of those three decides who wakes up
  and what `resp_data` holds at that moment.
- `tim.cancel()` does not stop a timer whose wait has already ended.
- `run()` checks `self.cmd` and stores the answer in two separate steps.
  Between them the call may time out and the next one may start.
- The device may answer after the timeout, or never.
- `close()` can run in the middle of a command.
- Frames carry no sequence number: opcode equality is the only correlation
  key, and `self.cmd = 0` is also the "no command pending" marker.
- The stream has no resynchronisation. A bad length byte, a zero length, or
  a sync byte inside a payload all test the index/length bookkeeping.

### What each component must guarantee

- **Deframer.** It passes on exactly the frames of the wire format. The
  debug text is the bytes outside frames since the last newline. Frames
  encoded by `send_command` come back unchanged. Nothing the port delivers
  kills the thread.
- **Correlator.** A call returns only its own answer, never one with another
  opcode. No `release()` finds the lock free: of a timeout and an answer
  that race, the loser does nothing (spec §4.3). Every call eventually
  returns.
- **Dispatcher.** Unregistering removes the handler. (That an indication is
  never taken for a response depends on no indication having opcode 0,
  which no run includes; see the hazards.)
- **Lifecycle.** After `close()` no call hangs, and calls fail with an error.
- **Map scripts.** The tree map shows every `.text` byte of the map once,
  members of members included. Both scripts give each file the same
  `.text` size.
- **Dump scripts.** No property of their own: what they write is each
  branch of a three-line loop, and a property would restate it. They are
  explored with the sniffer and typed.

## 2. Modules, runs and what they show

| Module | Models |
|---|---|
| `Deframer.tla` | The byte loop of `run()`, `_process_debug`, the empty-frame `IndexError` of `_process_input`, and `send_command`'s encoding. `RefDecode` is a recursive reference decoder written from the wire format. |
| `MC_Deframer.tla` | All streams of up to 7 bytes over {0, 1, 2, newline, sync}. Also a debug line (or nothing) followed by up to two encoded frames, with opcodes including 0x80 and payloads containing sync and newline bytes. `SentOf` maps each encoded stream to the frames it encodes. |
| `SerialIf.tla` | Correlator, dispatcher and lifecycle, with callers, the reader, the timers and the device. |
| `MC_SerialIf.tla` | Caller threads as model values, one or two callers. |
| `Handlers.tla` | `SniffInput` and `RadioPollInput` decoding as operators (`LE32`, `Signed8`). Recursive little-endian and two's-complement reference definitions. |
| `DemoMain.tla` | The `__main__` of iotlab-serial.py as the one caller of `SerialIf`. It covers registration, stop radio, the optional mode command, the `ret[0]` test, the sleep loop, `KeyboardInterrupt` and `close()` in `finally`. |
| `MC_DemoMain.tla` | The demo main program with its real opcodes (0x60, 0x61, 0xA1, 0xA2). Also the handler inputs. |
| `Sniffer.tla` | `sniffer.py`: one operator per state of `parse_one` (`ParseStart0`, `ParseStart1`, `ParseLength`, `ParseData`), `print_packet` and the read loop. `RefSniff` is a recursive reference decoder of the 0xAB 0xCD / 0xAB 0xCC record format. |
| `MapFile.tla` | The map file as the scripts see it: each line as the tokens `split()` returns, plus whether it starts with a blank. `str.startswith`, the joining of wrapped lines, `int(x, 16)`, and `pretty()` / `pretty_re`. |
| `LinkMap.tla` | `linkmap.py`: one action per iteration of the archive-member, LOAD and `.text` scans, each with its `IndexError` / `BaseException` exits. The `Codeobj` tree is built by `AddChild` (the recursion of `add_child` over `depend_list`), `Totals` (each `__init__` and its recursive `push_size`, in creation order) and `PrintTree` (the rows of `print_one`, in `print_tree` order). `Entries` and `StartPc` are the start: a map read from `argv[1]` or the CGI upload; an empty or missing upload, which prints the page with no rows; and `?action=source` or a wrong argument count, which exit. The properties that compare the tree with `memmap.py` speak of the `map` start. |
| `MemMap.tla` | `memmap.py`: one `Build` step per `build()` call, in the order of `main()`. `BuildFlat` folds `build_flat`'s loop body, `FlatLine`, over the lines. It raises `IndexError` or `ValueError` on a short line. `Output` produces the js-treemap nodes and, with `-c`, one pie per section: `Toplevel` sums the rows per archive or object, `DrawChartFlat` lists the slices in the dict's order and `DrawChart` totals them for the title. `loaded` is FALSE when neither `-m` nor `-e` was given; the first `build()` then raises `UnboundLocalError`. |
| `MC_MapTools.tla` | Both scripts on the same map file. `INSTANCE ... WITH` substitutes `memmap.py`'s `map` by the shared variable `lm`. The maps are built from their sections: archive entries on one line or wrapped, members pulled in by members, sizes 0 or 3. `SectionedMaps` adds a `.text.fn` input section and a discarded `.text` section. |
| `MC_Sniffer.tla` | Firmware records after line noise, and every stream of up to 5 bytes over {0, 1, 0xAB, 0xCD, 0xCC}. |
| `SerialDump.tla` | The dump scripts. `EchoRead` is the loop body of `ttyDumper.py` and `seropen.py`. `TempRead` is `tempDumper.py`'s: `LineAfter` is the update of `data_str`, and `Reading` is `re.match(r'.*\(T=([0-9\.]+)°C\)', s, re.I).group(1)` over bytes. That covers either case, the greedy `.*` that takes the last reading of a line, and a `(T=°C)` with no digit, which does not match. `Stop` is the exception at any point, then `ser.close()`. The unended line is dropped. |
| `MC_SerialTools.tla` | `Sniffer` and `SerialDump` on one port. The queue and history of the port (`input`, `consumed`) are shared. `script` picks the tool at start; the other tool's variables stay at their initial values. The streams are `MC_Sniffer`'s records and lines of text (`TextStreams`), and every tool meets both. |

`SerialIf` has one action per step of `send_command` between which another
thread can run:

- `SendCommand` (the frame is built);
- `AcquireSlot` (acquire, `self.cmd = command`);
- `WriteCommand` (write and start the timer, or raise on a closed port with
  the lock held);
- `AwaitResponse`, `CancelTimer`, `Collect` (read `resp_data`, reset
  `cmd`), and `ReleaseSlot` (release, or `RuntimeError`).

The timer thread of call k has three actions: `TimerExpire`, `TimeoutStore`
(`resp_data = None`) and `TimeoutRelease`. The reader has `ReaderTake` (a
whole frame, then match or dispatch), `ReaderStore`, `ReaderRelease` (on a
free lock the thread dies) and `ReaderStop` (read raises after close). The
main program's calls are `Close`, `RegisterHandler` and `UnregisterHandler`
(which raises `NameError`). The device has `DeviceReply`, `DeviceDrop` and
`DeviceIndicate`.

`DemoMain` replaces the generic program actions (`SendCommand` with any
opcode, `Close`, `RegisterHandler`) by the main program's sequence, held in
`mpc`. The program counter goes `reg1`, `reg2`, `stop`, `check1`, `mode`,
`check2`, `sleep`, `closing`, `done`. `MainCheck` is `if ret[0] == 0x0A`.
Only a payload can be indexed; `None`, `[]`, or a call that raised leads
to the except clause and then `finally` (`closing`). `Interrupt` is Ctrl-C,
raised between the main thread's own statements. `InterruptInCall` is
Ctrl-C landing between two statements of `send_command`. The call ends
where it is, with the lock possibly held and its timer possibly armed.
(Python 2 delays the signal while the thread blocks in `acquire`.) `Exited` says every thread
of the process has ended, since the reader and the timers are non-daemon
threads.

A payload is modelled as the identity of what it answers: `Resp(k)` for the
k-th call, `Ind(j)` for the j-th indication. Opcodes are small naturals.
The reader takes frame by frame. The bytes of each frame are decoded by the
loop checked in `Deframer`.

Environment switches:

- `LateReplies = FALSE` means the device answers within the timeout or
  never. The timer of call k then expires only in three cases: the device
  dropped the command; the port closed before `run()` read the answer; or
  the call has returned without cancelling the timer.
- `CloseAnytime = FALSE` makes `close()` the program's last call, as in the
  demo main's `finally`.

| Run | Expect | Shows |
|---|---|---|
| `deframer_any` | pass | `DecodesAsReference`: on every stream, the frames passed on are a prefix of the reference decoding, and all of it between frames. The debug text is the reference's text after the last newline. `RoundTrip`: encoded frames are eventually all delivered, unchanged. |
| `deframer_crash` | violation | A length byte of 0 kills the reading thread (`NoReaderCrash`). |
| `serialif_prompt` | pass | One caller (as in the demo main), a device that answers within the timeout or never, `close()` at any time. `ResponseMatchesCall`: each call returns its own answer. `ReleasesBalanced`: no `release()` finds the lock free; it rests on `tim.cancel()` and the order of the reader's steps. The timer racing a late answer is excluded by `LateReplies = FALSE` and shown by `serialif_late_race`. |
| `demo_main` | pass | The demo main program against a device that may answer late or never. `CallsReturn`: every call returns or raises. `ProgramExits`: once the program leaves its normal path (a `None` result indexed, Ctrl-C, also inside a call), the process exits. `HandlersOK`: the handlers decode as the reference does. |
| `serialif_two_callers` | violation | With two callers, the first returns the second's answer. |
| `serialif_late_opcode` | violation | One caller: a late answer is stored after the next command started, and resolves that command, which has another opcode. |
| `serialif_close_hang` | violation | After `close()`, a write raises with the lock held and the next call blocks forever. |
| `serialif_late_race` | violation | The demo main with one caller: the timer fires and frees the lock, the answer arrives before the caller wakes and still matches `self.cmd`, and `run()`'s `lock.release()` raises RuntimeError, ending the reading thread (`iotlab-serial.py:175`; spec §4.3 says the loser of the race is a no-op). |
| `serial_tools` | pass | `SniffedAsReference`: on firmware records after line noise, the sniffer writes exactly the reference's packets and channels. `SniffedDelivered`: it eventually writes every channel report and non-empty packet. The dump scripts run on the same streams and on text lines; only their types are checked. |
| `maptools` | pass | `EveryByteAttributed`: the root of `linkmap.py`'s tree totals all of `size_dict`, even for a member two levels down. `ToolsAgree`: on maps with one plain `.text` input section per file, both scripts give every file the same `.text` size. `ChartMatchesTree`: with `-c`, the `.text` pie is titled with as many bytes as the root of `linkmap.py`'s tree shows. |
| `maptools_sections` | violation | With a `.text.fn` input section (one-line or wrapped), `memmap.py` leaves its bytes out and `linkmap.py` counts them (`memmap.py:132`). `build_flat` also counts the `.text` lines of the discarded-sections list; the trace TLC gives has a discarded section of size 0, so it does not show that half. |
| `sniffer_resync` | violation | After 0xAB, a byte other than 0xCD or 0xCC leaves the parser in `START_1`, so noise `AB 00 CC 00` is reported as channel 0 (`sniffer.py:87`). |

Bounds:

- `serialif_prompt`: 4 calls over two command opcodes, and two
  indications. That covers a dropped call followed by two answered ones
  with the same opcode and an indication between them. It also covers a
  close before, during or after a call (567,780 states, about 25 s).
- `demo_main`: the program's own two calls and one indication. The first
  call may time out, be answered late, or be dropped. The second mode
  (0x62 to 0x64) is the same path with another opcode.
- `deframer_any`: every stream of 7 bytes holds a frame with a payload
  split by sync and newline bytes, two short frames, a zero length, and
  garbage around them.
- `serial_tools`: two records, payloads that contain 0xAB and 0xCD, and
  noise before them. Up to two lines of text from six kinds and an unended
  rest: an empty line, plain text, a reading, a lower-case reading with a
  dot, `(T=°C)`, and two readings on one line. Every tool meets every
  stream, and a dump script may stop after any byte (29,500 states). `sniffer_resync` uses all streams of 5 bytes, the
  shortest where noise can fake a header and a byte.
- Handler inputs: timestamps over the boundary bytes 0, 128 and 255, with
  the top byte below 128 because TLC integers are 32-bit signed. Sniff
  records of every length from 0 to 10, with RSSI bytes on both sides of
  128, and announced lengths right and wrong.
- `maptools`: 80 maps (1,280 initial states: the four starts of `linkmap.py`, and `memmap.py` with and without `-c` and with and without a map option; 33,664 distinct states). Each has both forms of every dependency entry, a
  member pulled in by a member (the case where `push_size` must climb two
  levels), zero and non-zero sizes (zero is dropped by `build_flat`), a
  symbol line inside `.text`, and a `.data` section that must not count.
  Both scripts may interleave, so each map gives a few hundred states.
- The violation runs use the smallest bounds that show each trace.

Fairness:

- weak fairness on every caller step, timer step and reader step: these are
  threads that run whenever they are able to;
- weak fairness on the device consuming each command, by answering it or
  dropping it;
- none on the program's own choices: calling, closing, registering.

In `MC_SerialTools` each tool's read is weakly fair, since `ser.read(1)`
returns once the device has sent a byte. A dump script's `Stop` is an
exception, and nothing forces one.

In `DemoMain`, every main-thread step is weakly fair except
`Interrupt`, which is the user's choice. So `ProgramExits` is stated from
the point where the program leaves its normal path.

Liveness is claimed only for a single caller. With several callers, a
Python `Lock` makes no promise that waiters are served fairly.

Deadlock checking is off in all runs. The byte loops of `Deframer`, `Sniffer` and the dump scripts stop when the bounded stream ends. The map scripts end when they have read the file. A bounded program really does stop
when its calls are done, and the reader then just polls (read timeouts are
stuttering steps). Hangs are caught by `CallsReturn` instead.

## 3. Plan

Order: most important behaviour first.

1. Done: `Deframer`, `SerialIf`, `Sniffer`, `Handlers` and `DemoMain`,
   with the runs above.
2. Dropped: an abstract single-slot specification and a refinement. A
   faithful mapping (the slot held as long as the lock is) fails wherever
   `close()` or Ctrl-C can happen, which `serialif_close_hang` already
   shows; with one prompt caller it only restated `ResponseMatchesCall`
   and `ReleasesBalanced`.
3. Done: `Interrupt` inside `send_command` (`InterruptInCall`).
4. Done: `LinkMap`, `MemMap` and their comparison.
5. Done: larger bounds for `serialif_prompt`.
6. Done: the dump scripts, checked together with the sniffer
   (`serial_tools`).
7. Open: two hazards of `linkmap.py` need runs of their own that expect a
   violation. The first is a map without an archive-member section, which
   crashes at line 143. The second is two tree rows with the same id,
   which the page's TreeMap rejects.
8. Open: the zero-length sniffer header (`sniffer.py:113`) and an
   opcode-0 indication (`iotlab-serial.py:172`) each need a violation run;
   the twelve runs go to the findings above. `Delivered` already states
   what the first breaks.
9. Done: `memmap.py`'s pies (`draw_chart_flat`, `draw_chart`) and its
   missing-map path, checked by `ChartMatchesTree` in `maptools`.

## 4. Not modelled

- Of the dump scripts: option parsing, time stamps in the log, and
  `seropen.py`'s `[Opened ...]` / `[Closed ...]` banner lines.
  An exception between `ser.read(1)` and the handling of the byte loses
  that byte. That looks the same as an exception before the read, so a
  read and its handling are one step.
- The sniffer's own `except: break`: `Sniffer` leaves it out, so
  `SniffedDelivered` speaks of a sniffer that keeps running.
- The pictures and HTML of `memmap.py` and `linkmap.py`, and the form
  `linkmap.py` prints as a CGI: output only. What `memmap.py`'s pies hold
  (slices and title total) is modelled; colours, figure sizes and the PNG
  file names (`-o`) are not. `draw_chart_library` is never called. Its `-e` option runs `arm-none-eabi-ld -M`, which is
  I/O. The map it produces is read the same way as with `-m`.
- The js-treemap nodes are modelled, and they show a defect no run checks:
  a node's label is the archive member, so every plain object file is
  labelled `None`.
- Directories in file names: `pretty()` drops them, and the model's file
  names have none.
- `UnregisterHandler` models the `NameError` of `register_handler(op,
  None)`. No run checks `UnregisterRemoves`: it fails on the first such
  call, which is plain from the code.
- Option parsing.
- The transport itself: a read timeout is a stuttering step, and an open
  failure happens before any state exists.
- Byte loss on the wire: the deframer is checked on whatever bytes arrive,
  including garbage.
