-------------------------------- MODULE Cells --------------------------------
(***************************************************************************)
(* The memoryCell of memory.go: the bytes that hold one value of a row, or *)
(* Go's nil.  A cell carries no type.  What it means is decided by the     *)
(* declared type of the column it is read from, so the byte order, the     *)
(* difference between nil and the empty byte array, and the width of an    *)
(* integer all matter and are kept.                                        *)
(*                                                                         *)
(* The code has Base = 256 and IntBytes = 4 (int32).  TLC uses smaller     *)
(* numbers: all that is used of them is that an integer has a fixed width, *)
(* is written big-endian in two's complement, and wraps.                   *)
(***************************************************************************)
EXTENDS Integers, Sequences

CONSTANTS
  nil,        \* Go's nil: no bytes, no pointer, no expression
  Base,       \* number of values of a byte
  IntBytes    \* bytes of an integer cell

ASSUME WidthAssumption ==
  /\ Base \in Nat /\ Base > 1 /\ Base % 2 = 0
  /\ IntBytes \in Nat \ {0}

Byte == 0 .. (Base - 1)
Cell == Seq(Byte) \cup {nil}

\* len(mc) == 0: nil and the empty byte array alike
Empty(mc) == mc = nil \/ mc = <<>>

Bytes(mc) == IF mc = nil THEN <<>> ELSE mc

(***************************************************************************)
(* Integers.  IntCell is binary.Write of int32(i), which keeps the low     *)
(* bits; AsInt is binary.Read, which wants IntBytes bytes, ignores the     *)
(* rest, and gives nil when there are too few.                             *)
(***************************************************************************)
IntCell(i) ==
  [k \in 1 .. IntBytes |-> (i \div Base ^ (IntBytes - k)) % Base]

Unsigned(mc) ==
  LET value[k \in 0 .. IntBytes] ==
        IF k = 0 THEN 0 ELSE value[k - 1] * Base + mc[k]
  IN  value[IntBytes]

AsInt(mc) ==
  IF Len(Bytes(mc)) < IntBytes THEN nil
  ELSE LET u == Unsigned(mc)
       IN  IF 2 * u >= Base ^ IntBytes THEN u - Base ^ IntBytes ELSE u

\* Text: AsText, which gives nil for the empty text as it does for a null
AsText(mc) == IF Empty(mc) THEN nil ELSE mc

(***************************************************************************)
(* Booleans.  AsBool looks at the first byte only; the result is TRUE,     *)
(* FALSE or nil.                                                           *)
(***************************************************************************)
trueMemoryCell  == <<1>>
falseMemoryCell == <<0>>
nullMemoryCell  == nil

BoolCell(b) == IF b THEN trueMemoryCell ELSE falseMemoryCell

AsBool(mc) == IF Empty(mc) THEN nil ELSE mc[1] = 1

(***************************************************************************)
(* memoryCell.equals tells nil from the empty array; bytes.Compare, and    *)
(* treeItem.Less that is built on it, do not.                              *)
(***************************************************************************)
Equals(a, b) == (a = nil /\ b = nil) \/ (a # nil /\ b # nil /\ a = b)

BytesLess(a, b) ==
  \E k \in DOMAIN b :
    /\ \A j \in 1 .. (k - 1) : j \in DOMAIN a /\ a[j] = b[j]
    /\ k \in DOMAIN a => a[k] < b[k]

Less(a, b) == BytesLess(Bytes(a), Bytes(b))

\* Neither is less than the other: what a search tree takes for equal
SameKey(a, b) == ~Less(a, b) /\ ~Less(b, a)

(***************************************************************************)
(* literalToMemoryCell.  Tokens are records tagged by kind.  A numeric     *)
(* token's num is nil when strconv.Atoi rejects its text, as it does for   *)
(* the decimals and exponents that lexNumeric accepts.                     *)
(***************************************************************************)
LiteralToMemoryCell(t) ==
  CASE t.kind = "numeric" -> IF t.num = nil THEN nil ELSE IntCell(t.num)
    [] t.kind = "string"  -> t.text
    [] t.kind = "bool"    -> BoolCell(t.truth)
    [] OTHER              -> nil
==============================================================================
