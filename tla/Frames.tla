------------------------------- MODULE Frames -------------------------------
(***************************************************************************)
(* Messages between a client and the daemon (batuta-ipc): how a message is *)
(* written as bytes and read back, and how frames follow one another on a  *)
(* connection whose daemon may refuse a frame or end at any byte.  Numbers *)
(* are little-endian; a string is its bytes, an optional field a sequence  *)
(* of at most one value, a list a sequence of its items' fields.           *)
(***************************************************************************)
EXTENDS Integers, Sequences, SequencesExt

CONSTANTS
    MaxString, MaxRows, MaxFrame,   \* MAX_STRING, MAX_ROWS, MAX_FRAME
    Talks                           \* requests of a connection, each with its reply

VARIABLES
    talk,   \* what is asked and answered on this connection
    wire,   \* bytes under way in either direction, and whether the daemon's end is open
    peer    \* the client, its results so far, and the daemon

frameVars == <<talk, wire, peer>>

(***************************************************************************)
(* Layouts: tag, then fields in order.                                     *)
(***************************************************************************)
RowFields == <<"str", "u64", "u32", "bool", "u32", "u64">>
Items == [rows |-> RowFields, groups |-> <<"u64", "u64", "rows">>, volumes |-> <<"str", "u64", "u64", "u64", "bool">>]
RequestFields ==
    [search |-> <<"str", "bool", "bool", "optStr", "optU64", "optU64", "optStr", "bool", "bool", "bool", "u8", "u32", "u32">>,
     size |-> <<"str", "u32">>, bloat |-> <<"u32", "optStr">>, dupes |-> <<"u64", "u32", "optStr">>,
     status |-> <<>>, rescan |-> <<>>]
ResponseFields ==
    [rows |-> <<"u64", "u64", "rows">>, dupesInfo |-> <<"u64", "u64", "groups">>,
     sizeInfo |-> <<"str", "u64", "u64", "u64", "rows">>, statusInfo |-> <<"u64", "u64", "bool", "u64", "volumes">>,
     error |-> <<"str">>]
RequestTag == [search |-> 1, size |-> 2, bloat |-> 3, status |-> 4, rescan |-> 5, dupes |-> 6]
ResponseTag == [rows |-> 20, sizeInfo |-> 21, statusInfo |-> 22, error |-> 23, dupesInfo |-> 24]
WidthOf == [u8 |-> 1, bool |-> 1, u32 |-> 4, u64 |-> 8]
\* ROW_MIN_BYTES and its kin: an item takes at least so much.
MinBytes == [rows |-> 4 + 8 + 4 + 1 + 4 + 8, groups |-> 8 + 8 + 4, volumes |-> 4 + 8 + 8 + 8 + 1]

(***************************************************************************)
(* Writer.                                                                 *)
(***************************************************************************)
Le(v, width) == [i \in 1..width |-> IF i > 3 THEN 0 ELSE (v \div (256 ^ (i - 1))) % 256]
SmallerOf(a, b) == IF a < b THEN a ELSE b

Str(s) == Le(SmallerOf(Len(s), MaxString), 4) \o SubSeq(s, 1, SmallerOf(Len(s), MaxString))

RECURSIVE Field(_, _)
Field(type, v) ==
    CASE type \in DOMAIN WidthOf -> Le(v, WidthOf[type])
      [] type = "str" -> Str(v)
      [] type = "optStr" -> IF v = <<>> THEN <<0>> ELSE <<1>> \o Str(v[1])
      [] type = "optU64" -> IF v = <<>> THEN <<0>> ELSE <<1>> \o Le(v[1], 8)
      [] OTHER -> Le(Len(v), 4) \o FlattenSeq([k \in DOMAIN v |-> FlattenSeq([i \in DOMAIN v[k] |-> Field(Items[type][i], v[k][i])])])
Encode(tags, layouts, m) ==
    <<tags[m.kind]>> \o FlattenSeq([i \in DOMAIN m.fields |-> Field(layouts[m.kind][i], m.fields[i])])

(***************************************************************************)
(* Reader: a value and the place behind it, or what is wrong.              *)
(***************************************************************************)
Fine(v, pos) == [err |-> "", v |-> v, pos |-> pos]
Wrong(err) == [err |-> err, v |-> <<>>, pos |-> 0]
Take(buf, pos, n) == IF pos + n > Len(buf) THEN Wrong("truncated") ELSE Fine(SubSeq(buf, pos + 1, pos + n), pos + n)
Number(buf, pos, width) ==
    LET t == Take(buf, pos, width)
    IN  IF t.err # "" THEN t
        ELSE Fine(IF width = 1 THEN t.v[1] ELSE t.v[1] + 256 * t.v[2] + 65536 * t.v[3], t.pos)
\* Two-byte characters: a lead of 195 with its follower 169, nothing else above 127.
IsUtf8(s) == \A i \in DOMAIN s : /\ s[i] = 195 => i < Len(s) /\ s[i + 1] = 169
                                 /\ s[i] = 169 => i > 1 /\ s[i - 1] = 195
ReadStr(buf, pos) ==
    LET n == Number(buf, pos, 4)
        t == Take(buf, n.pos, n.v)
    IN  IF n.err # "" THEN n ELSE IF n.v > MaxString THEN Wrong("too large")
        ELSE IF t.err # "" THEN t ELSE IF IsUtf8(t.v) THEN t ELSE Wrong("bad utf-8")
\* Some(...) behind a byte that says so.
Optional(flag, Inner(_)) ==
    IF flag.err # "" THEN flag ELSE IF flag.v = 0 THEN Fine(<<>>, flag.pos)
    ELSE LET r == Inner(flag.pos) IN IF r.err # "" THEN r ELSE Fine(<<r.v>>, r.pos)
\* A count is believed when so many of the smallest items fit in what is left.
Count(buf, pos, type) ==
    LET n == Number(buf, pos, 4)
    IN  IF n.err # "" THEN n ELSE IF n.v > MaxRows THEN Wrong("too large")
        ELSE IF n.v * MinBytes[type] > Len(buf) - n.pos THEN Wrong("truncated") ELSE n

RECURSIVE ReadField(_, _, _)
RECURSIVE ReadFields(_, _, _)
RECURSIVE ReadItems(_, _, _, _)
ReadFields(types, buf, pos) ==
    IF types = <<>> THEN Fine(<<>>, pos)
    ELSE LET first == ReadField(types[1], buf, pos)
             rest == ReadFields(SubSeq(types, 2, Len(types)), buf, first.pos)
         IN  IF first.err # "" THEN first ELSE IF rest.err # "" THEN rest ELSE Fine(<<first.v>> \o rest.v, rest.pos)
ReadItems(type, n, buf, pos) ==
    IF n = 0 THEN Fine(<<>>, pos)
    ELSE LET first == ReadFields(Items[type], buf, pos)
             rest == ReadItems(type, n - 1, buf, first.pos)
         IN  IF first.err # "" THEN first ELSE IF rest.err # "" THEN rest ELSE Fine(<<first.v>> \o rest.v, rest.pos)
ReadField(type, buf, pos) ==
    CASE type \in DOMAIN WidthOf -> Number(buf, pos, WidthOf[type])
      [] type = "str" -> ReadStr(buf, pos)
      [] type = "optStr" -> Optional(Number(buf, pos, 1), LAMBDA p : ReadStr(buf, p))
      [] type = "optU64" -> Optional(Number(buf, pos, 1), LAMBDA p : Number(buf, p, 8))
      [] OTHER -> LET n == Count(buf, pos, type) IN IF n.err # "" THEN n ELSE ReadItems(type, n.v, buf, n.pos)
Decode(tags, layouts, buf) ==
    LET tag == Number(buf, 0, 1)
        kinds == {k \in DOMAIN tags : tags[k] = tag.v}
        kind == CHOOSE k \in kinds : TRUE
        r == ReadFields(layouts[kind], buf, tag.pos)
    IN  IF tag.err # "" THEN [err |-> tag.err] ELSE IF kinds = {} THEN [err |-> "unknown tag"]
        ELSE IF r.err # "" THEN [err |-> r.err] ELSE [err |-> "", kind |-> kind, fields |-> r.v]

(***************************************************************************)
(* The connection.                                                         *)
(***************************************************************************)
Asked == Len(peer.results) + 1
\* write_frame of the request; a daemon that is gone fails it.
ClientWrite ==
    /\ peer.client = "idle" /\ Asked <= Len(talk)
    /\ LET payload == Encode(RequestTag, RequestFields, talk[Asked].request)
       IN  IF wire.open
           THEN /\ wire' = [wire EXCEPT !.toDaemon = @ \o Le(Len(payload), 4) \o payload]
                /\ peer' = [peer EXCEPT !.client = "length"]
           ELSE /\ peer' = [peer EXCEPT !.results = Append(@, [err |-> "io"])]
                /\ UNCHANGED wire
    /\ UNCHANGED talk
\* handle_client: a whole frame, its answer; a frame that is too large is refused
\* before a byte of it is written, and the connection with it.
DaemonAnswer ==
    /\ peer.daemon = <<>> /\ wire.open /\ Len(wire.toDaemon) >= 4
    /\ LET n == Number(wire.toDaemon, 0, 4).v
           frame == SubSeq(wire.toDaemon, 5, 4 + n)
           reply == talk[Asked].reply
           payload == Encode(ResponseTag, ResponseFields, reply)
       IN  /\ Len(wire.toDaemon) >= 4 + n
           /\ Decode(RequestTag, RequestFields, frame).err = ""
           /\ IF Len(payload) > MaxFrame
              THEN wire' = [wire EXCEPT !.open = FALSE] /\ UNCHANGED peer
              ELSE /\ wire' = [wire EXCEPT !.toDaemon = SubSeq(@, 5 + n, Len(@))]
                   /\ peer' = [peer EXCEPT !.daemon = Le(Len(payload), 4) \o payload]
    /\ UNCHANGED talk
\* The pipe takes what fits.
DaemonWrite(n) ==
    /\ peer.daemon # <<>> /\ wire.open /\ n \in 1..Len(peer.daemon)
    /\ wire' = [wire EXCEPT !.toClient = @ \o SubSeq(peer.daemon, 1, n)]
    /\ peer' = [peer EXCEPT !.daemon = SubSeq(@, n + 1, Len(@))] /\ UNCHANGED talk
DaemonEnds == /\ wire.open /\ wire' = [wire EXCEPT !.open = FALSE] /\ UNCHANGED <<talk, peer>>

Result(r) == [peer EXCEPT !.results = Append(@, r), !.client = "idle", !.want = 0]
ClientReadLength ==
    /\ peer.client = "length"
    /\ IF Len(wire.toClient) >= 4
       THEN LET n == Number(wire.toClient, 0, 4).v
            IN  /\ wire' = [wire EXCEPT !.toClient = SubSeq(@, 5, Len(@))]
                /\ peer' = IF n > MaxFrame THEN Result([err |-> "too large"]) ELSE [peer EXCEPT !.client = "payload", !.want = n]
       ELSE ~wire.open /\ peer' = Result([err |-> "io"]) /\ UNCHANGED wire
    /\ UNCHANGED talk
\* Bug: whatever has arrived is taken for the whole payload.
ClientReadShort ==
    /\ peer.client = "payload"
    /\ wire' = [wire EXCEPT !.toClient = <<>>]
    /\ peer' = Result(Decode(ResponseTag, ResponseFields, wire.toClient)) /\ UNCHANGED talk

ClientReadPayload ==
    /\ peer.client = "payload"
    /\ IF Len(wire.toClient) >= peer.want
       THEN /\ wire' = [wire EXCEPT !.toClient = SubSeq(@, peer.want + 1, Len(@))]
            /\ peer' = Result(Decode(ResponseTag, ResponseFields, SubSeq(wire.toClient, 1, peer.want)))
       ELSE ~wire.open /\ peer' = Result([err |-> "io"]) /\ UNCHANGED wire
    /\ UNCHANGED talk

FrameInit == /\ talk \in Talks
             /\ wire = [toDaemon |-> <<>>, toClient |-> <<>>, open |-> TRUE]
             /\ peer = [client |-> "idle", results |-> <<>>, want |-> 0, daemon |-> <<>>]
\* How the bytes are cut: single ones, the length, all of them.
Cuts == {1, 4, 7} \cup {Len(peer.daemon)}
FrameNext == \/ ClientWrite \/ DaemonAnswer \/ DaemonEnds \/ ClientReadLength \/ ClientReadPayload
             \/ \E n \in Cuts : DaemonWrite(n)

(***************************************************************************)
(* Property.                                                               *)
(***************************************************************************)
RECURSIVE CutTo(_, _)
\* The message as it can arrive: strings are cut at their limit.
CutTo(types, vs) == [i \in DOMAIN vs |->
    CASE types[i] = "str" -> SubSeq(vs[i], 1, SmallerOf(Len(vs[i]), MaxString))
      [] types[i] = "optStr" -> IF vs[i] = <<>> THEN <<>> ELSE <<SubSeq(vs[i][1], 1, SmallerOf(Len(vs[i][1]), MaxString))>>
      [] types[i] \in DOMAIN Items -> [k \in DOMAIN vs[i] |-> CutTo(Items[types[i]], vs[i][k])]
      [] OTHER -> vs[i]]

\* Whatever the bytes are cut into and wherever the daemon ends, the k-th result
\* is the k-th answer, field for field with its long strings cut, or an error;
\* a reply that was refused or torn never becomes an answer, nor does what is
\* left of it become a part of the next one.
AnswersInStep ==
    \A k \in DOMAIN peer.results :
        LET r == peer.results[k]
            reply == talk[k].reply
        IN  r.err = "" => r.kind = reply.kind /\ r.fields = CutTo(ResponseFields[reply.kind], reply.fields)

\* Only a reply beyond a limit, or a daemon that ended, costs the answer.
AnsweredUnlessBeyond ==
    \A k \in DOMAIN peer.results : peer.results[k].err = "" \/ ~wire.open \/ talk[k].beyond
=============================================================================
