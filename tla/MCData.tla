------------------------------- MODULE MCData -------------------------------
(***************************************************************************)
(* Integers and RLP over bytes of four bits, with words of one byte.  In   *)
(* RLP a byte below 4 stands for itself, 4 to 6 begin short strings, 7 to  *)
(* 9 long ones, 10 to 12 short lists, and 13 to 15 long ones.              *)
(***************************************************************************)
EXTENDS RlpItems

\* Plain numbers on both sides of every boundary, objects of both classes, and
\* one operand that is no integer.
MCOperands ==
  {Object("int", n) : n \in {-17, -1, 0, 1, 2, 3, 8, 15, 16}}
    \union {Object("Uint", n) : n \in {0, 1, 3, 16}}
    \union {Object("U256", n) : n \in {0, 2, 5, 15}}
    \union {Object("str", 0)}
MCExponents == {-1, 0, 1, 2, 3, 5}
MCModuli == {-2, 0, 1, 6, 16}

\* Strings around the tag, the short limit and the length that needs two bytes.
Repeated(byte, length) == [i \in 1 .. length |-> byte]
MCLeaves ==
  {Bytes(<<>>), Bytes(<<3>>), Bytes(<<4>>),
   Bytes(<<0, 0, 1>>), Bytes(Repeated(0, 13)), Bytes(Repeated(0, 16)),
   Text(<<3>>), Truth(TRUE), Truth(FALSE), Items(<<>>),
   Unsupported("dataclass")}
==============================================================================
