------------------------------ MODULE Handlers ------------------------------
(***************************************************************************)
(* The indication handlers of iotlab-serial.py, SniffInput and             *)
(* RadioPollInput: process_indication decodes the payload of an            *)
(* indication and prints the fields.  Here the decoding is an operator     *)
(* returning the fields (printing is left out); it is checked against      *)
(* reference definitions of the little-endian and two's-complement         *)
(* encodings over bounded byte inputs.                                     *)
(***************************************************************************)
EXTENDS Integers, Sequences

(* data[0] + (data[1] << 8) + (data[2] << 16) + (data[3] << 24): Python    *)
(* integers, so no wrap-around.                                            *)
LE32(d) == d[1] + d[2] * 2^8 + d[3] * 2^16 + d[4] * 2^24

(* Mutant: the +128 offset left out of the sign conversion.                *)
Signed8NoOffset(b) == -128 + (b % 256)

(* -128 + ((b + 128) % 256): a byte read as a signed 8-bit value.          *)
Signed8(b) == -128 + ((b + 128) % 256)

(* SniffInput.process_indication: fewer than 8 bytes is an error; else a   *)
(* 4-byte timestamp, channel, RSSI, LQI, announced length, then the frame, *)
(* whose length is compared with the announced one.                        *)
SniffInput(d) ==
  IF Len(d) < 8 THEN [ok |-> FALSE]
  ELSE [ok |-> TRUE, ts |-> LE32(d), chan |-> d[5], rssi |-> Signed8(d[6]),
        lqi |-> d[7], length |-> d[8], frame |-> SubSeq(d, 9, Len(d)),
        badlen |-> Len(d) - 8 # d[8]]

(* RadioPollInput.process_indication: fewer than 4 bytes is an error; else *)
(* a 4-byte timestamp and one signed RSSI sample per remaining byte.       *)
RadioPollInput(d) ==
  IF Len(d) < 4 THEN [ok |-> FALSE]
  ELSE [ok |-> TRUE, ts |-> LE32(d),
        samples |-> [i \in 1..Len(d) - 4 |-> Signed8(d[i + 4])]]

-----------------------------------------------------------------------------
(* Reference definitions, from the meaning of the fields.                  *)

RECURSIVE RefLittleEndian(_)
RefLittleEndian(d) ==
  IF d = <<>> THEN 0 ELSE Head(d) + 256 * RefLittleEndian(Tail(d))

RefSigned(b) == IF b < 128 THEN b ELSE b - 256

(* Both handlers decode the timestamp as the little-endian value of its    *)
(* four bytes and every RSSI byte as its two's-complement value, on every  *)
(* input of the given sets; short payloads are rejected, never indexed.    *)
HandlersDecodeAsReference(Inputs, Bytes) ==
  /\ \A d \in Inputs :
       /\ SniffInput(d).ok = (Len(d) >= 8)
       /\ RadioPollInput(d).ok = (Len(d) >= 4)
       /\ Len(d) >= 4 =>
            RadioPollInput(d).ts = RefLittleEndian(SubSeq(d, 1, 4))
       /\ Len(d) >= 8 =>
            /\ SniffInput(d).ts = RefLittleEndian(SubSeq(d, 1, 4))
            /\ SniffInput(d).rssi = RefSigned(d[6])
            /\ SniffInput(d).badlen = (Len(SniffInput(d).frame) # d[8])
  /\ \A b \in Bytes : Signed8(b) = RefSigned(b)
=============================================================================
