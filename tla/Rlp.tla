--------------------------------- MODULE Rlp ---------------------------------
(***************************************************************************)
(* Recursive Length Prefix encoding, EllipticCurvesPy/rlp.py.              *)
(*                                                                         *)
(* The five numbers that the code writes as literals are constants, since  *)
(* they have to fit the base of the bytes.  An item is what Python hands   *)
(* to encode: its class, with a value or, for a sequence, its items.       *)
(***************************************************************************)
EXTENDS BaseTypes

CONSTANTS
  StringTag,      \* 0x80: the tag of the empty string
  ShortLimit,     \* 0x38: the first length that needs a length of its own
  LongStringTag,  \* 0xB7
  ListTag,        \* 0xC0
  LongListTag     \* 0xF7

Bytes(value) == [class |-> "bytes", value |-> value]
Text(value) == [class |-> "str", value |-> value]   \* by its UTF-8 bytes
Number(class, n) == [class |-> class, number |-> n]  \* Uint or a FixedUint
Truth(b) == [class |-> "bool", truth |-> b]
Items(items) == [class |-> "Sequence", items |-> items]
Unsupported(class) == [class |-> class]  \* a dataclass, an int, None, a float

Concatenation(seqs) == FoldLeft(LAMBDA joined, s : joined \o s, <<>>, seqs)

\* A header is a tag that holds the length when it is short, and otherwise the
\* length of the length, and then the length.
encode_bytes(raw) ==
  LET length == Uint(Len(raw))
  IN IF Len(raw) = 1 /\ raw[1] < StringTag THEN raw
     ELSE IF Len(raw) < ShortLimit THEN <<StringTag + Len(raw)>> \o raw
     ELSE <<LongStringTag + Len(ToBeBytes(length))>> \o ToBeBytes(length) \o raw

RECURSIVE encode(_)
get_joined_encodings(items) ==
  Concatenation([i \in DOMAIN items |-> encode(items[i])])

\* mutant: the length counts the items instead of their bytes
encode_sequence_CountsItems(items) ==
  LET joined == get_joined_encodings(items)
      length == Uint(Len(joined))
  IN IF Len(joined) < ShortLimit THEN <<ListTag + Len(items)>> \o joined
     ELSE <<LongListTag + Len(ToBeBytes(length))>> \o ToBeBytes(length) \o joined
encode_sequence(items) ==
  LET joined == get_joined_encodings(items)
      length == Uint(Len(joined))
  IN IF Len(joined) < ShortLimit THEN <<ListTag + Len(joined)>> \o joined
     ELSE <<LongListTag + Len(ToBeBytes(length))>> \o ToBeBytes(length) \o joined

\* encode of an item without an unsupported part.
encode(item) ==
  CASE item.class \in {"bytes", "str"} -> encode_bytes(item.value)
    [] item.class \in {"Uint", "U256"} ->
         encode_bytes(ToBeBytes(Object(item.class, item.number)))
    [] item.class = "bool" -> encode_bytes(IF item.truth THEN <<1>> ELSE <<>>)
    [] item.class = "Sequence" ->
         encode_sequence(item.items)

\* The last two branches of encode: the name is_dataclass is not imported, so
\* its test raises before anything else can.
NoError == "none"
UnsupportedError == "NameError"
RECURSIVE encode_error(_)
encode_error(item) ==
  CASE item.class \in {"bytes", "str", "Uint", "U256", "bool"} -> NoError
    [] item.class = "Sequence" ->
         IF \E i \in DOMAIN item.items : encode_error(item.items[i]) # NoError
         THEN UnsupportedError ELSE NoError
    [] OTHER -> UnsupportedError
==============================================================================
