------------------------------ MODULE AmfCodec ------------------------------
(***************************************************************************)
(* The AMF0 codec of librtmp, amf.c: how an invoke of the server becomes   *)
(* the properties HandleInvoke looks at, what the decoder makes of a value *)
(* it does not support, and how the connect command is written into the     *)
(* packet.                                                                 *)
(*                                                                         *)
(* A value is its type and what it holds: the eight bytes of a number as   *)
(* they lie in memory, the bytes of a string, or members with their names. *)
(* A pointer and a size are the bytes between; -1 is a size that failed.   *)
(***************************************************************************)
EXTENDS Integers, Sequences
LOCAL INSTANCE SequencesExt

CONSTANTS
  Answers,   (* the invokes of servers: sequences of values                *)
  Fields,    (* the members of the object in the connect command           *)
  Auths,     (* what follows it for authentication, if anything            *)
  Extras,    (* the values that the options of the address add             *)
  Rooms      (* the bytes a packet has for all that; the name of the       *)
             (* command and its number always fit                          *)

VARIABLES
  given,     (* history: the values to be sent                             *)
  room,      (* -1 when the server sent them                               *)
  bytes,     (* what was sent, empty if nothing                            *)
  decoded    (* what AMF_Decode makes of it                                *)

amfVars == <<given, room, bytes, decoded>>

Value(type, of)   == [type |-> type, of |-> of]
Member(name, val) == [name |-> name, value |-> val]
Unnamed(vals)     == [i \in DOMAIN vals |-> Member(<<>>, vals[i])]
Whole(ps)         == [used |-> 0, props |-> ps]
Failed            == [used |-> -1, props |-> <<>>]

AmfInit == given = <<>> /\ room = -1 /\ bytes = <<>> /\ decoded = Whole(<<>>)

-----------------------------------------------------------------------------
(* The server, which writes what the AMF0 specification says.              *)

Short(n) == <<n \div 256, n % 256>>
ObjectEnd == <<0, 0, 9>>

RECURSIVE ServerWrites(_)
ServerWrites(v) ==
  LET members == FlattenSeq([i \in DOMAIN v.of |->
                   Short(Len(v.of[i].name)) \o v.of[i].name \o ServerWrites(v.of[i].value)])
      values  == FlattenSeq([i \in DOMAIN v.of |-> ServerWrites(v.of[i].value)])
      size    == <<0, 0>> \o Short(Len(v.of))
  IN  CASE v.type = "number"  -> <<0>> \o Reverse(v.of)
        [] v.type = "boolean" -> <<1, IF v.of THEN 1 ELSE 0>>
        [] v.type = "string"  -> <<2>> \o Short(Len(v.of)) \o v.of
        [] v.type = "object"  -> <<3>> \o members \o ObjectEnd
        [] v.type = "null"    -> <<5>>
        [] v.type = "ecma"    -> <<8>> \o size \o members \o ObjectEnd
        [] v.type = "array"   -> <<10>> \o size \o values
        [] v.type = "date"    -> <<11>> \o Reverse(v.of) \o <<0, 0>>
        [] v.type = "long"    -> <<12>> \o size \o v.of
        [] v.type = "xml"     -> <<15>> \o size \o v.of

ServersBytes(ps) == FlattenSeq([i \in DOMAIN ps |-> ServerWrites(ps[i].value)])

-----------------------------------------------------------------------------
(* The decoder.                                                            *)

Behind(b, n) == SubSeq(b, n + 1, Len(b))
Int16(b) == b[1] * 256 + b[2]
Int32(b) == Int16(b) * 65536 + Int16(Behind(b, 2))

Got(used, v) == [used |-> used, props |-> <<Member(<<>>, v)>>]

(* A string behind a size of so many bytes.                                *)
GotString(b, width, size) ==
  IF Len(b) < size + width THEN Failed
  ELSE Got(width + size, Value("string", SubSeq(b, width + 1, width + size)))

(* Mutant: the size in front of an array is not part of it.                *)
GotObjectWithoutSize(skipped, d) ==
  IF d.used = -1 THEN Failed ELSE Got(d.used, Value("object", d.props))

GotObject(skipped, d) ==
  IF d.used = -1 THEN Failed ELSE Got(skipped + d.used, Value("object", d.props))

RECURSIVE AmfDecode(_, _, _), DecodeArray(_, _)

(* AMFProp_Decode behind the type.                                         *)
DecodeValue(type, b) ==
  CASE type = 0          -> IF Len(b) < 8 THEN Failed
                            ELSE Got(8, Value("number", Reverse(SubSeq(b, 1, 8))))
    [] type = 1          -> IF Len(b) < 1 THEN Failed
                            ELSE Got(1, Value("boolean", b[1] # 0))
    [] type = 2          -> GotString(b, 2, Int16(b))
    [] type = 3          -> GotObject(0, AmfDecode(b, TRUE, FALSE))
    [] type \in {5, 6, 13} -> Got(0, Value("null", <<>>))
    [] type = 8          -> GotObject(4, AmfDecode(Behind(b, 4), TRUE, FALSE))
    [] type = 10         -> GotObject(4, DecodeArray(Behind(b, 4), Int32(b)))
    [] type = 11         -> IF Len(b) < 10 THEN Failed
                            ELSE Got(10, Value("date", Reverse(SubSeq(b, 1, 8))))
    [] type = 12         -> GotString(b, 4, Int32(b))
    [] OTHER             -> Failed

(* AMFProp_Decode.                                                         *)
DecodeProp(b, named) ==
  IF b = <<>> \/ (named /\ (Len(b) < 4 \/ Int16(b) > Len(b) - 3)) THEN Failed
  ELSE LET skipped == IF named THEN 2 + Int16(b) ELSE 0
           v       == DecodeValue(b[skipped + 1], Behind(b, skipped + 1))
       IN  IF v.used = -1 THEN Failed
           ELSE [used  |-> skipped + 1 + v.used,
                 props |-> <<Member(SubSeq(b, 3, skipped), v.props[1].value)>>]

(* What comes behind a step of the loop is added to what it found.         *)
Continued(used, props, rest) ==
  IF rest.used = -1 THEN Failed
  ELSE [used |-> used + rest.used, props |-> props \o rest.props]

(* The loop of AMF_Decode.  After an error it looks for an end mark.       *)
AmfDecode(b, named, error) ==
  IF Len(b) >= 3 /\ SubSeq(b, 1, 3) = ObjectEnd THEN [Whole(<<>>) EXCEPT !.used = 3]
  ELSE IF b = <<>> THEN IF error THEN Failed ELSE Whole(<<>>)
  ELSE IF error THEN Continued(1, <<>>, AmfDecode(Tail(b), named, TRUE))
  ELSE LET p == DecodeProp(b, named)
       IN  IF p.used = -1 THEN AmfDecode(b, named, TRUE)
           ELSE Continued(p.used, p.props, AmfDecode(Behind(b, p.used), named, FALSE))

(* AMF_DecodeArray.  It reads on after an error, which no later element    *)
(* makes up for.                                                           *)
DecodeArray(b, n) ==
  IF n = 0 THEN Whole(<<>>)
  ELSE LET p == DecodeProp(b, FALSE)
       IN  IF p.used = -1 THEN Failed
           ELSE Continued(p.used, p.props, DecodeArray(Behind(b, p.used), n - 1))

(* HandleInvoke decodes the body of the packet.                            *)
ReadAnswer ==
  \E answer \in Answers :
    /\ given = <<>>
    /\ given' = Unnamed(answer) /\ bytes' = ServersBytes(given')
    /\ decoded' = AmfDecode(bytes', FALSE, FALSE)
    /\ UNCHANGED room

-----------------------------------------------------------------------------
(* The encoders, with the bytes that are left; nothing for a null pointer. *)

Null == <<>>

(* The test for a short string asks for the size of a long one, too.       *)
EncodeString(str, left) ==
  IF Len(str) + 5 > left THEN Null ELSE <<2>> \o Short(Len(str)) \o str

EncodeValue(v, left) ==
  CASE v.type = "string"  -> EncodeString(v.of, left)
    [] v.type = "number"  -> IF 9 > left THEN Null ELSE <<0>> \o Reverse(v.of)
    [] v.type = "boolean" -> IF 2 > left THEN Null ELSE <<1, IF v.of THEN 1 ELSE 0>>
    [] v.type = "null"    -> IF 1 >= left THEN Null ELSE <<5>>

(* AMF_EncodeNamedString.                                                  *)
EncodeNamed(p, left) ==
  LET name == Short(Len(p.name)) \o p.name
      v    == EncodeString(p.value.of, left - Len(name))
  IN  IF Len(name) > left \/ v = Null THEN Null ELSE name \o v

RECURSIVE EncodeProp(_, _)

(* AMF_Encode: a member without room ends the object, whose end mark is    *)
(* written all the same if it has room.                                    *)
EncodeObject(ps, left) ==
  LET Add(acc, p) ==
        LET e == EncodeProp(p, left - Len(acc.out))
        IN  IF acc.full \/ e = Null THEN [acc EXCEPT !.full = TRUE]
            ELSE [acc EXCEPT !.out = @ \o e]
      written == FoldLeft(Add, [out |-> <<3>>, full |-> FALSE], ps)
  IN  IF 4 >= left \/ Len(written.out) + 3 >= left THEN Null
      ELSE written.out \o ObjectEnd

(* AMFProp_Encode, which leaves out the name of a null.                    *)
EncodeProp(p, left) ==
  LET name == IF p.value.type = "null" \/ p.name = <<>> THEN <<>>
              ELSE Short(Len(p.name)) \o p.name
      v    == IF p.value.type = "object"
              THEN EncodeObject(p.value.of, left - Len(name))
              ELSE EncodeValue(p.value, left - Len(name))
  IN  IF v = Null \/ (p.value.type # "null" /\ Len(p.name) + 3 >= left) THEN Null
      ELSE name \o v

(* The calls of SendConnectPacket, one after the other, until one finds no *)
(* room.                                                                   *)
Written(encoder, out, ps, size) ==
  LET Encode(p, left) ==
        CASE encoder = "named" -> EncodeNamed(p, left)
          [] encoder = "value" -> EncodeValue(p.value, left)
          [] encoder = "prop"  -> EncodeProp(p, left)
      Add(acc, p) ==
        LET e == Encode(p, size - Len(acc))
        IN  IF acc = Null \/ e = Null THEN Null ELSE acc \o e
  IN  FoldLeft(Add, out, ps)

Connect == <<99, 111, 110>>
First   == <<63, 240, 0, 0, 0, 0, 0, 0>>

SendConnectPacket(fields, auth, extras, size) ==
  LET opened == EncodeString(Connect, size) \o <<0>> \o First \o <<3>>
      named  == Written("named", opened, fields, size)
      closed == IF named = Null \/ Len(named) + 3 >= size THEN Null
                ELSE named \o ObjectEnd
  IN  Written("prop", Written("value", closed, auth, size), extras, size)

SendConnect ==
  \E fields \in Fields, auth \in Auths, extras \in Extras, size \in Rooms :
    LET ps == Unnamed(<<Value("string", Connect), Value("number", Reverse(First)),
                        Value("object", fields)>> \o auth \o extras)
    IN  /\ given = <<>>
        /\ given' = ps /\ room' = size
        /\ bytes' = SendConnectPacket(fields, Unnamed(auth), Unnamed(extras), size)
        /\ decoded' = AmfDecode(bytes', FALSE, FALSE)

AmfNext == ReadAnswer \/ SendConnect

AmfSpec == AmfInit /\ [][AmfNext]_amfVars

-----------------------------------------------------------------------------
(* What the decoder promises.  An array has become an object, a long       *)
(* string a string.                                                        *)
RECURSIVE Readable(_), AsRead(_), Agree(_, _), Cuts(_)

Nested(v) == v.type \in {"object", "ecma", "array"}

Readable(v) ==
  IF Nested(v) THEN \A i \in DOMAIN v.of : Readable(v.of[i].value) ELSE v.type # "xml"

AsRead(v) ==
  IF Nested(v)
  THEN Value("object",
             [i \in DOMAIN v.of |-> Member(v.of[i].name, AsRead(v.of[i].value))])
  ELSE IF v.type = "long" THEN Value("string", v.of) ELSE v

(* Up to the first member that cannot be read everything is exact, and     *)
(* what was found of that one agrees in the same way.                      *)
Agree(ps, ms) ==
  /\ \A i \in DOMAIN ms :
       (\A j \in 1..(i - 1) : Readable(ms[j].value)) =>
         IF Readable(ms[i].value)
         THEN i \in DOMAIN ps /\ ps[i] = Member(ms[i].name, AsRead(ms[i].value))
         ELSE i \in DOMAIN ps => /\ Nested(ms[i].value) /\ ps[i].name = ms[i].name
                                 /\ Agree(ps[i].value.of, ms[i].value.of)
  /\ (\A i \in DOMAIN ms : Readable(ms[i].value)) => Len(ps) = Len(ms)

(* Members of which objects have lost some at their ends.                  *)
Cuts(ms) ==
  IF ms = <<>> THEN {<<>>}
  ELSE LET first == IF Nested(Head(ms).value)
                    THEN {Member(Head(ms).name, Value("object", c)) : c \in Cuts(Head(ms).value.of)}
                    ELSE {Head(ms)}
       IN  {<<>>} \cup {<<m>> \o rest : m \in first, rest \in Cuts(Tail(ms))}

(* The decoder and the encoder hold to the format.                         *)
(* AMF_Decode finds in an answer what the server wrote.  A value it does   *)
(* not support makes it fail or look for an end mark, which may be that of *)
(* another object; the members in front of that value, which HandleInvoke  *)
(* reads by their places, are right all the same.  SendConnectPacket sends *)
(* the whole command if the packet has two bytes more than it takes;       *)
(* with less it sends nothing, or a command which is well formed and lacks *)
(* nothing but members at the ends of the objects among the extras.        *)
CodecAgrees ==
  LET readable == \A i \in DOMAIN given : Readable(given[i].value)
  IN  /\ room = -1 => /\ decoded.used # -1 => Agree(decoded.props, given)
                      /\ readable => decoded.used = Len(bytes)
      /\ room >= 0 =>
           /\ room >= Len(ServersBytes(given)) + 2 => bytes = ServersBytes(given)
           /\ bytes # Null =>
                \E cut \in Cuts(given) :
                  /\ Len(cut) = Len(given) /\ cut[3] = given[3]
                  /\ bytes = ServersBytes(cut)
                  /\ decoded = [used |-> Len(bytes), props |-> [i \in DOMAIN cut |->
                                  Member(<<>>, AsRead(cut[i].value))]]

=============================================================================
