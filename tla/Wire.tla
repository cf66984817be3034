-------------------------------- MODULE Wire --------------------------------
(***************************************************************************)
(* A packet on its way through NetUnparser, InternetChecksum and NetParser,*)
(* used as their documentation says (util.cc:74-83, parser_example.cc):    *)
(* the sender writes fields with the checksum field set to zero, sums the  *)
(* packet, sets the field to the value; the receiver sums the packet it    *)
(* got, which must give zero, and reads the fields back, looking at        *)
(* error() once, at the end.                                               *)
(*                                                                         *)
(* The two ends are user code and so external: what they choose (fields,   *)
(* values, the place of the checksum, how the data is cut into chunks, the *)
(* initial sum for a pseudo-header, fields to skip) is left open.  On the  *)
(* way one byte may be changed, or the tail may be lost.                   *)
(***************************************************************************)
EXTENDS NetParser, InternetChecksum

CONSTANTS
    Values,        \* the integers that are written into fields
    InitialSums,   \* the arguments of InternetChecksum()
    MaxFields      \* bound: fields of a packet, the checksum included

ASSUME WireAssumption == Values \subseteq Nat /\ InitialSums \subseteq 0 .. SumMod - 1

VARIABLES
    phase,     \* what is being done with the packet
    fields,    \* what was written: <<length, value>>
    at,        \* which field is the checksum; 0 as long as none is
    packet,    \* the bytes
    damaged,   \* whether the packet was changed on the way
    next, got  \* the next field to read; the values read so far, by field

vars == <<phase, fields, at, packet, damaged, next, got, parser, checksum>>

Init ==
    /\ phase = "build" /\ fields = <<>> /\ at = 0 /\ packet = <<>>
    /\ damaged = FALSE /\ next = 1 /\ got = {}
    /\ buffer = <<>> /\ error = "NoError" /\ ret = 0
    /\ sum = 0 /\ parity = FALSE /\ initial = 0 /\ total = 0 /\ count = 0

-----------------------------------------------------------------------------
(* The sender *)

Append2(len, val) ==
    /\ fields' = Append(fields, <<len, val>>)
    /\ packet' = packet \o Unparse(len, val)
    /\ UNCHANGED <<phase, damaged, next, got, parser, checksum>>

\* A field, leaving room for a checksum that starts at an even offset.
WriteField(len, val) ==
    /\ phase = "build" /\ val < Place[len]
    /\ Len(fields) < (IF at = 0 THEN MaxFields - 1 ELSE MaxFields)
    /\ at # 0 \/ Len(fields) + 2 < MaxFields \/ (Len(packet) + len) % 2 = 0
    /\ Append2(len, val)
    /\ UNCHANGED at

WriteZeroChecksum ==
    /\ phase = "build" /\ at = 0 /\ Len(packet) % 2 = 0
    /\ at' = Len(fields) + 1
    /\ Append2(2, 0)

StartSum(initial_sum) ==
    /\ phase = "build" /\ at # 0
    /\ phase' = "sum"
    /\ InitialSum(initial_sum)
    /\ UNCHANGED <<fields, at, packet, damaged, next, got, parser>>

\* The next n bytes of the packet are given to add(), by either end.
AddChunk(n) ==
    /\ phase \in {"sum", "verify"} /\ n <= Len(packet) - count
    /\ Add(SubSeq(packet, count + 1, count + n))
    /\ UNCHANGED <<phase, fields, at, packet, damaged, next, got, parser>>

\* The bytes before field i.
Offset(i) == Total([j \in 1 .. i - 1 |-> fields[j][1]])

Seal ==
    /\ phase = "sum" /\ count = Len(packet)
    /\ phase' = "transit"
    /\ fields' = [fields EXCEPT ![at] = <<2, value>>]
    /\ packet' = ReplaceSubSeqAt(Offset(at) + 1, Unparse(2, value), <<0, 0>>, packet)
    /\ UNCHANGED <<at, damaged, next, got, parser, checksum>>

-----------------------------------------------------------------------------
(* The network and the receiver *)

\* What arrives is wrapped in a NetParser and about to be summed.
Arrives(data) ==
    /\ phase = "transit" /\ phase' = "verify"
    /\ packet' = data /\ damaged' = (data # packet)
    /\ ParserOf(data)
    /\ InitialSum(initial)
    /\ UNCHANGED <<fields, at, next, got>>

Deliver == Arrives(packet)

Corrupt(i, byte) == byte # packet[i] /\ Arrives([packet EXCEPT ![i] = byte])

Truncate(n) == Arrives(SubSeq(packet, 1, n))

Verify ==
    /\ phase = "verify" /\ count = Len(packet)
    /\ phase' = "parse"
    /\ IF value = 0 THEN UNCHANGED parser ELSE SetError("BadChecksum")
    /\ UNCHANGED <<fields, at, packet, damaged, next, got, checksum>>

ReadField ==
    /\ phase = "parse" /\ next <= Len(fields)
    /\ Parse(fields[next][1])
    /\ got' = got \cup {<<next, ret'>>} /\ next' = next + 1
    /\ UNCHANGED <<phase, fields, at, packet, damaged, checksum>>

SkipField ==
    /\ phase = "parse" /\ next <= Len(fields)
    /\ RemovePrefix(fields[next][1])
    /\ next' = next + 1
    /\ UNCHANGED <<phase, fields, at, packet, damaged, got, checksum>>

Finished == phase = "parse" /\ next > Len(fields)

\* Both ends start afresh.
NextPacket ==
    /\ Finished
    /\ phase' = "build" /\ fields' = <<>> /\ at' = 0 /\ packet' = <<>>
    /\ damaged' = FALSE /\ next' = 1 /\ got' = {}
    /\ ParserOf(<<>>)
    /\ InitialSum(0)

-----------------------------------------------------------------------------

Next ==
    \/ \E len \in Lengths, val \in Values : WriteField(len, val)
    \/ WriteZeroChecksum
    \/ \E initial_sum \in InitialSums : StartSum(initial_sum)
    \/ \E n \in 1 .. Len(packet) : AddChunk(n)
    \/ Seal
    \/ Deliver
    \/ \E i \in DOMAIN packet, byte \in Bytes : Corrupt(i, byte)
    \/ \E n \in 0 .. Len(packet) - 1 : Truncate(n)
    \/ Verify \/ ReadField \/ SkipField \/ NextPacket

Spec == Init /\ [][Next]_vars

-----------------------------------------------------------------------------

\* The initial sum leaves room for the words of a packet (a pseudo-header's
\* sum does, by far), and the length of the packet fits 16 bits.
NoCarryLost == 2 * initial <= SumMod /\ Len(packet) < WordMod

\* A packet that was not touched on the way passes the check, whatever its
\* fields, and every field that is read back is what was written, with the
\* fields in between read or skipped: what NetUnparser writes NetParser reads,
\* and "a correct checksum header will return zero" (util.cc).
RoundTrip ==
    Finished /\ ~damaged /\ NoCarryLost =>
        /\ error = "NoError" /\ buffer = <<>>
        /\ \A g \in got : g[2] = fields[g[1]][2]

\* A receiver that looks at error() once, after all its calls, is told about
\* every packet of which one byte changed or the tail is missing: a failed
\* read returns 0 like any zero, but no later call makes the error go away.
DamageCaught == Finished /\ damaged /\ NoCarryLost => error # "NoError"

\* Whatever happened to the packet and whichever earlier call failed, a read
\* returns 0 or the bytes at the place of the field it was meant for: a call
\* that fails consumes nothing, so it must also stop every later call of the
\* parser from succeeding, or that one would read at the wrong place.
ReadInPlace ==
    \A g \in got :
        LET start == Offset(g[1])
            len   == fields[g[1]][1]
        IN  g[2] # 0 =>
                /\ start + len <= Len(packet)
                /\ g[2] = BigEndian(SubSeq(packet, start + 1, start + len))
=============================================================================
