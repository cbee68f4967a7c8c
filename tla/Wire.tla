-------------------------------- MODULE Wire --------------------------------
(***************************************************************************)
(* The datagram format shared by the bridge and the receiver               *)
(* (src/common/wire_protocol.cpp): how a message is cut into fragments,    *)
(* which widths its header fields have, and which datagrams a receiver     *)
(* accepts.  A datagram is the record of its header fields, its size in    *)
(* bytes, whether magic and version are right, and the body it carries.    *)
(***************************************************************************)
EXTENDS Integers, Sequences

CONSTANTS
    HeaderSize,  \* kHeaderSize, 44 bytes
    MaxU16,      \* the largest 16-bit value, 65535
    MaxU32       \* the largest 32-bit value, kMaxMessageLength

ASSUME WireAssumption ==
    HeaderSize \in Nat \ {0} /\ MaxU16 \in Nat \ {0} /\ MaxU32 \in Nat \ {0}

-----------------------------------------------------------------------------

\* Conversions to uint16_t and uint32_t.
U16(x) == x % (MaxU16 + 1)
U32(x) == x % (MaxU32 + 1)

\* fragment_count_for()
FragmentCountFor(length, chunk) ==
    CASE chunk = 0 -> 0
      [] chunk # 0 /\ length = 0 -> 1
      [] OTHER -> (length + chunk - 1) \div chunk

\* encode_header() of h, and the n payload bytes that follow it.
Datagram(h, n, body) ==
    [size |-> HeaderSize + n, magic |-> TRUE, version |-> TRUE,
     source |-> h.source, sequence |-> h.sequence, timestamp |-> h.timestamp,
     flags |-> h.flags, length |-> U32(h.length), count |-> U16(h.count),
     index |-> U16(h.index), offset |-> U32(h.offset), flen |-> U16(n), body |-> body]

-----------------------------------------------------------------------------
(* parse_datagram(): the tests in the order of the code; the first that    *)
(* fails names the error.                                                  *)

Test(error, fails) == [error |-> error, fails |-> fails]

\* Fault: the last fragment may be shorter than the rest of the message.
RangeTestsFaultLast(d) ==
    << Test("RangeError", d.offset + d.flen > d.length),
       Test("RangeError", d.count = 1 /\ (d.offset # 0 \/ d.flen # d.length)),
       Test("FlagMismatch", ("FRAGMENTED" \in d.flags) # (d.count # 1)),
       Test("RangeError", d.count # 1 /\ d.flen = 0) >>

RangeTests(d) ==
    LET end  == d.offset + d.flen
        last == d.index + 1 = d.count
    IN  << Test("RangeError", end > d.length),
           Test("RangeError", d.count = 1 /\ (d.offset # 0 \/ d.flen # d.length)),
           Test("FlagMismatch", ("FRAGMENTED" \in d.flags) # (d.count # 1)),
           Test("RangeError", d.count # 1 /\ last /\ end # d.length),
           Test("RangeError", d.count # 1 /\ ~last /\ d.flen = 0) >>

Tests(d) ==
    << Test("Truncated", d.size < HeaderSize),
       Test("BadMagic", ~d.magic),
       Test("BadVersion", ~d.version),
       Test("BadFragmentCount", d.count = 0),
       Test("BadFragmentIndex", d.index >= d.count),
       Test("LengthMismatch", d.size # HeaderSize + d.flen) >> \o RangeTests(d)

ParseDatagram(d) ==
    LET failing == {i \in DOMAIN Tests(d) : Tests(d)[i].fails}
    IN  IF failing = {} THEN "None"
        ELSE Tests(d)[CHOOSE i \in failing : \A j \in failing : i <= j].error

=============================================================================
