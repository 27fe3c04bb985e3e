---------------------------- MODULE ProtoReader ------------------------------
(***************************************************************************)
(* binproto/protobuf/codec.go: ParseProtoMessage, which prints the fields  *)
(* of an encoded message without its schema, for every message of a few    *)
(* fields and every point where its bytes may end.  One step per field.    *)
(***************************************************************************)
EXTENDS Integers, Sequences, SequencesExt, FiniteSetsExt

CONSTANTS
  Fields,     \* the fields of messages: [num, type, val], val the bytes of type 2
  MaxFields   \* bound: fields of a message

VARIABLES
  msg,    \* the message
  data,   \* its encoding, perhaps cut short
  pos,    \* bytes read
  pc,     \* "parse", "end", "error"
  shown   \* the fields printed

vars == <<msg, data, pos, pc, shown>>

\* The reference encoding of protobuf: a varint has seven bits to a byte, low bits
\* first, the high bit set on all bytes but the last.
Varint(n) ==
  LET k == Min({i \in 1 .. 4 : n < 128 ^ i})
  IN [i \in 1 .. k |-> ((n \div 128 ^ (i - 1)) % 128) + (IF i < k THEN 128 ELSE 0)]
LittleEndian(n, k) == [i \in 1 .. k |-> IF i > 3 THEN 0 ELSE (n \div 256 ^ (i - 1)) % 256]
Payload(f) ==
  CASE f.type = 0 -> Varint(f.val)
    [] f.type = 1 -> LittleEndian(f.val, 8)
    [] f.type = 2 -> Varint(Len(f.val)) \o f.val
    [] f.type = 5 -> LittleEndian(f.val, 4)
EncodeField(f) == Varint(f.num * 8 + f.type) \o Payload(f)
Encode(m) == FlattenSeq([i \in DOMAIN m |-> EncodeField(m[i])])

TypeOK ==
  /\ msg \in SeqOf(Fields, MaxFields)
  /\ pos \in 0 .. Len(data) /\ \A i \in DOMAIN data : data[i] \in 0 .. 255
  /\ pc \in {"parse", "end", "error"}

Init ==
  /\ msg \in SeqOf(Fields, MaxFields)
  /\ \E n \in 0 .. Len(Encode(msg)) : data = SubSeq(Encode(msg), 1, n)
  /\ pos = 0 /\ pc = "parse" /\ shown = << >>

-----------------------------------------------------------------------------

\* The outcome of reading from position p: a value and the next position, or an error.
Read(v, p) == [ok |-> TRUE, val |-> v, next |-> p]
EOF == [ok |-> FALSE, err |-> "eof"]
Unexpected == [ok |-> FALSE, err |-> "unexpected eof or format"]

Number(p, k, base, mod) == MapThenSumSet(LAMBDA i : (data[p + i] % mod) * base ^ (i - 1),
                                         {i \in 1 .. k : data[p + i] % mod # 0})

\* Mutant of readVarint: eight bits to a byte.
readVarintOctets(p) ==
  LET last == {i \in 1 .. Len(data) - p : data[p + i] < 128}
  IN IF last = {} THEN EOF ELSE Read(Number(p, Min(last), 256, 128), p + Min(last))

\* readVarint: up to the first byte without the high bit.  After ten bytes with it the
\* varint is too long; before that, the end of the data is io.EOF, wherever it is.
readVarint(p) ==
  LET last == {i \in 1 .. Len(data) - p : data[p + i] < 128}
  IN IF (last = {} /\ Len(data) - p >= 10) \/ (last # {} /\ Min(last) > 10) THEN Unexpected
     ELSE IF last = {} THEN EOF
     ELSE Read(Number(p, Min(last), 128, 128), p + Min(last))

\* readFieldHeader: the field number and the wire type.
readFieldHeader(p) ==
  LET tag == readVarint(p)
  IN IF tag.ok THEN Read(<<tag.val \div 8, tag.val % 8>>, tag.next) ELSE tag

\* binary.Read of k bytes, little endian: all of them, or an error.
Fixed(p, k) == IF Len(data) - p < k THEN Unexpected ELSE Read(Number(p, k, 256, 256), p + k)

\* readValue.  The bytes of a length-delimited value are read in full or not at all.
readValue(p, type) ==
  CASE type = 0 -> readVarint(p)
    [] type = 1 -> Fixed(p, 8)
    [] type = 2 -> LET len == readVarint(p)
                   IN IF ~len.ok THEN len
                      ELSE IF Len(data) - len.next < len.val THEN Unexpected
                      ELSE Read(SubSeq(data, len.next + 1, len.next + len.val), len.next + len.val)
    [] type = 5 -> Fixed(p, 4)
    [] OTHER    -> Unexpected

\* An iteration of ParseProtoMessage: io.EOF in a header ends it in silence, any other
\* error, and every error in a value, is reported.
ParseProtoMessage ==
  LET header == readFieldHeader(pos)
      value == readValue(header.next, header.val[2])
  IN /\ pc = "parse"
     /\ IF ~header.ok
        THEN pc' = (IF header = EOF THEN "end" ELSE "error") /\ UNCHANGED <<pos, shown>>
        ELSE IF ~value.ok
        THEN pc' = "error" /\ UNCHANGED <<pos, shown>>
        ELSE /\ shown' = Append(shown, [num |-> header.val[1], type |-> header.val[2],
                                        val |-> value.val])
             /\ pos' = value.next
             /\ UNCHANGED pc
     /\ UNCHANGED <<msg, data>>

Next == ParseProtoMessage

Spec == Init /\ [][Next]_vars

-----------------------------------------------------------------------------
(* Properties *)

\* Wherever the bytes of a message end, the fields printed are the message's first
\* ones, exactly those that are complete; and the end is taken for a clean one only
\* between two fields or inside the tag of one.
CompleteFieldsOnly ==
  /\ IsPrefix(shown, msg)
  /\ pos = Len(Encode(shown))
  /\ pc # "parse" => \/ shown = msg
                     \/ Len(data) < pos + Len(EncodeField(msg[Len(shown) + 1]))
  /\ (pc = "end" /\ shown # msg) =>
       LET f == msg[Len(shown) + 1] IN Len(data) - pos < Len(Varint(f.num * 8 + f.type))
  /\ pc = "error" => shown # msg
==============================================================================
