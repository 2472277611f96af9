------------------------------ MODULE InlineIds ------------------------------
(***************************************************************************)
(* Inline identifiers of literals (src/src/dictionary/inline.rs).          *)
(*                                                                         *)
(* An identifier is a 64-bit integer.  With the top bit set it is negative *)
(* and carries its literal: a 7-bit type code and a value shifted by       *)
(* Offset (2^55 in the code) so that it is never negative.  Identifiers    *)
(* from the dictionary's sequence are positive.                            *)
(***************************************************************************)
EXTENDS Integers

CONSTANT Offset     \* INTEGER_OFFSET

ASSUME OffsetAssumption == Offset \in Nat \ {0}

TYPE_INTEGER  == 0
TYPE_BOOLEAN  == 1
TYPE_DATETIME == 2
TYPE_DATE     == 3
Types == TYPE_INTEGER .. TYPE_DATE

(* The values of a type that fit between the type code and the sign. *)
Inlineable(v) == v \in (-Offset) .. (Offset - 1)

(* The sign bit seen as two's complement: 2^7 type codes of 2^56 values. *)
Flag == -(128 * (2 * Offset))

pack(type, bits) == Flag + type * (2 * Offset) + bits

try_encode(type, v) == pack(type, v + Offset)

is_inline(id) == id < 0

unpack_type(id) == (id - Flag) \div (2 * Offset)

unpack_value_bits(id) == (id - Flag) % (2 * Offset)

decode_value(id) == unpack_value_bits(id) - Offset
=============================================================================
