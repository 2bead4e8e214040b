------------------------------ MODULE RlpItems ------------------------------
(***************************************************************************)
(* A program that calculates a number, puts it and other items on a row,   *)
(* and may close the last ones to a sequence.  What a row encodes to is    *)
(* read back by a decoder that is written after the definition of the      *)
(* format, not after rlp.py.                                               *)
(***************************************************************************)
EXTENDS Rlp, Uints

CONSTANTS
  Leaves,     \* the items without items
  RowLength,  \* bound on the items of a row
  MaxItems,   \* bound on the items of a row and of its sequences together
  MaxDepth    \* bound on the nesting of sequences

VARIABLE row

\* How deep an item is nested, and how many items it holds, itself included;
\* whether the row leaves room for one more.
RECURSIVE Depth(_), Count(_)
Depth(item) ==
  IF item.class # "Sequence" THEN 0
  ELSE 1 + FoldLeft(LAMBDA d, i : IF Depth(i) > d THEN Depth(i) ELSE d, 0, item.items)
Count(item) ==
  IF item.class # "Sequence" THEN 1
  ELSE 1 + FoldLeft(LAMBDA n, i : n + Count(i), 0, item.items)
Room == Count(Items(row)) <= MaxItems

\* The number that was calculated is put on the row, and calculating ends.
PutNumber ==
  /\ row = <<>>
  /\ row' = <<Number(acc.cls, acc.val)>>
  /\ acc' = U256(MAX_VALUE)
  /\ last' = [op |-> "new", left |-> acc', right |-> acc', modulo |-> None,
              result |-> acc']

PutItem ==
  /\ Room /\ Len(row) < RowLength
  /\ last.op = "new" /\ acc.val = MAX_VALUE
  /\ \E item \in Leaves : row' = Append(row, item)
  /\ UNCHANGED vars

\* The last k items become the items of one sequence.
Close ==
  \E k \in 1 .. Len(row) :
    LET closed == Items(SubSeq(row, Len(row) - k + 1, Len(row)))
    IN /\ Room /\ Depth(closed) <= MaxDepth
       /\ row' = Append(SubSeq(row, 1, Len(row) - k), closed)
       /\ UNCHANGED vars

Calculate == row = <<>> /\ Next /\ UNCHANGED row

DataInit == Init /\ row = <<>>
DataNext == Calculate \/ PutNumber \/ PutItem \/ Close

DataSpec == DataInit /\ [][DataNext]_<<vars, row>>

----------------------------------------------------------------------------
(* The format *)

\* What an item means: a string of bytes, or a list of meanings.
RECURSIVE Meaning(_)
Meaning(item) ==
  CASE item.class \in {"bytes", "str"} -> [string |-> item.value]
    [] item.class \in {"Uint", "U256"} ->
         [string |-> BigEndian(item.number,
            CHOOSE k \in 0 .. item.number :
              Fits(item.number, k) /\ (k > 0 => ~Fits(item.number, k - 1)))]
    [] item.class = "bool" -> [string |-> IF item.truth THEN <<1>> ELSE <<>>]
    [] item.class = "Sequence" ->
         [list |-> [i \in DOMAIN item.items |-> Meaning(item.items[i])]]

\* A decoder of the items that a sequence of bytes is made of; a sequence that
\* is not the shortest encoding of anything is malformed.
Malformed == <<[malformed |-> TRUE]>>
From(bytes, i) == SubSeq(bytes, i, Len(bytes))
RECURSIVE Decoded(_)
Decoded(bytes) ==
  LET tag == bytes[1]
      isList == tag >= ListTag
      short == IF isList THEN tag - ListTag ELSE tag - StringTag
      lengthBytes == IF isList THEN tag - LongListTag ELSE tag - LongStringTag
      isShort == short < ShortLimit
      start == IF isShort THEN 2 ELSE 2 + lengthBytes
      length == IF isShort THEN short
                ELSE FromBigEndian(SubSeq(bytes, 2, 1 + lengthBytes))
      payload == SubSeq(bytes, start, start + length - 1)
      rest == From(bytes, start + length)
      WellFormed ==
        /\ ~isShort => 1 + lengthBytes <= Len(bytes)
        /\ start + length - 1 <= Len(bytes)
        /\ ~isShort => length >= ShortLimit /\ bytes[2] # 0
        /\ ~isList /\ length = 1 => payload[1] >= StringTag
      one == IF isList THEN [list |-> Decoded(payload)] ELSE [string |-> payload]
  IN CASE bytes = <<>> -> <<>>
       [] tag < StringTag -> <<[string |-> <<tag>>]>> \o Decoded(Tail(bytes))
       [] ~WellFormed -> Malformed
       [] OTHER -> <<one>> \o Decoded(rest)

----------------------------------------------------------------------------
(* Properties *)

\* The encodings of a row, one after the other with nothing between them, are
\* read back as what the items of the row mean.  So an encoding determines its
\* item and none is the beginning of another, for strings and lists on both
\* sides of each length at which the header changes; and numbers, truth values
\* and text share the encoding of the bytes that they mean.
RlpRoundTrip ==
  encode_error(Items(row)) = NoError =>
    /\ Decoded(get_joined_encodings(row)) = [i \in DOMAIN row |-> Meaning(row[i])]
    /\ \A i, j \in DOMAIN row :
         Meaning(row[i]) = Meaning(row[j]) => encode(row[i]) = encode(row[j])

==============================================================================
