----------------------------- MODULE MC_DemoMain -----------------------------
(* The demo main program with its real opcodes: stop radio (0x60), one     *)
(* mode command (0x61, sniffer), the sniff (0xA1) and poll (0xA2)          *)
(* indications.  It also checks the handlers' decoding of the payloads     *)
(* those indications carry.                                                *)
EXTENDS DemoMain, Handlers, SequencesExt, TLC

CONSTANTS m

MainSet == {m}

(* Payloads for the handlers: 4-byte timestamps over bytes at the          *)
(* boundaries (the top byte below 128: TLC integers are 32-bit signed),   *)
(* and sniff records of every length from 0 to 10 with RSSI    *)
(* bytes on both sides of 128 and announced lengths right and wrong.       *)
Boundary == {0, 1, 127, 128, 255}
HandlerInputs ==
  {<<a, b, c, d>> : a, b, c \in {0, 128, 255}, d \in {0, 1, 127}}
    \cup {SubSeq(<<1, 2, 3, 4, 11, r, 7, n, 9, 9>>, 1, k) :
            r \in Boundary, n \in 0..3, k \in 0..10}

(* The handlers the main program registers first (SniffInput, then         *)
(* RadioPollInput) decode the timestamp little-endian and the RSSI bytes   *)
(* as signed values, and reject short payloads.                            *)
HandlersOK == mpc = "reg1" => HandlersDecodeAsReference(HandlerInputs, 0..255)
=============================================================================
