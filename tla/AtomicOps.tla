----------------------------- MODULE AtomicOps -----------------------------
(***************************************************************************)
(* The arithmetic of atomic, fetch and swap requests (ptl_atomic.c).       *)
(*                                                                         *)
(* Memory is a sequence of bytes, least significant byte of a scalar first.*)
(* A byte has ByteBits bits (8 in the hardware); the sizes of the types    *)
(* are the ones of the code, so the relations between them are kept.  An   *)
(* integer wraps at its width.  A floating point number is a sign bit and  *)
(* a magnitude: -0 equals 0, and a result past the greatest magnitude      *)
(* stays there, which plays the part of infinity.  A complex number is two *)
(* of them.                                                                *)
(***************************************************************************)
EXTENDS Integers, Sequences, SequencesExt, Bitwise

CONSTANT ByteBits

ASSUME ByteBitsAssumption == ByteBits \in Nat \ {0}

Base == 2 ^ ByteBits

IntegerTypes == {"INT8", "UINT8", "INT16", "UINT16", "INT32", "UINT32",
                 "INT64", "UINT64"}
FloatTypes == {"FLOAT", "DOUBLE", "LONG_DOUBLE"}
ComplexTypes == {"FLOAT_COMPLEX", "DOUBLE_COMPLEX", "LONG_DOUBLE_COMPLEX"}
Types == IntegerTypes \cup FloatTypes \cup ComplexTypes

atom_type_size ==
    [t \in Types |->
        CASE t \in {"INT8", "UINT8"} -> 1
          [] t \in {"INT16", "UINT16"} -> 2
          [] t \in {"INT32", "UINT32", "FLOAT"} -> 4
          [] t \in {"INT64", "UINT64", "DOUBLE", "FLOAT_COMPLEX"} -> 8
          [] t \in {"DOUBLE_COMPLEX", "LONG_DOUBLE"} -> 16
          [] t = "LONG_DOUBLE_COMPLEX" -> 32]

AtomicOpNames == {"MIN", "MAX", "SUM", "PROD", "LOR", "LAND", "BOR", "BAND",
                  "LXOR", "BXOR"}
SwapOpNames == {"SWAP", "CSWAP", "MSWAP", "CSWAP_NE", "CSWAP_LE", "CSWAP_LT",
                "CSWAP_GE", "CSWAP_GT"}

\* The types an operation may be asked for (op_info, as check_atomic and
\* check_swap use it).
op_info ==
    [op \in AtomicOpNames \cup SwapOpNames |->
        [float |-> op \in {"MIN", "MAX", "SUM", "PROD"}
                          \cup (SwapOpNames \ {"MSWAP"}),
         complex |-> op \in {"SUM", "PROD", "SWAP", "CSWAP", "CSWAP_NE"},
         atomic |-> op \in AtomicOpNames,
         swap |-> op \in SwapOpNames,
         use_operand |-> op \in SwapOpNames \ {"SWAP"}]]

Allowed(op, t) ==
    /\ t \in FloatTypes => op_info[op].float
    /\ t \in ComplexTypes => op_info[op].complex

-----------------------------------------------------------------------------
(* Bytes and numbers.                                                      *)

RECURSIVE FromBytes(_)
FromBytes(bs) == IF bs = <<>> THEN 0 ELSE Head(bs) + Base * FromBytes(Tail(bs))
ToBytes(n, size) == [i \in 1 .. size |-> (n \div (Base ^ (i - 1))) % Base]

Bits(size) == 2 ^ (size * ByteBits)

SignedC == {"sc", "ss", "si", "sl"}
FloatC == {"f", "d", "ld"}
ComplexC == {"fc", "dc", "ldc"}

sizeof(c) == CASE c \in {"sc", "uc"} -> 1
               [] c \in {"ss", "us"} -> 2
               [] c \in {"si", "ui", "f"} -> 4
               [] c \in {"sl", "ul", "d", "fc"} -> 8
               [] c \in {"ld", "dc"} -> 16
               [] c = "ldc" -> 32

Half(c) == Bits(sizeof(c)) \div 2

ReadReal(bs) ==
    LET n == FromBytes(bs)  h == Bits(Len(bs)) \div 2
    IN  IF n >= h THEN h - n ELSE n

WriteReal(x, size) ==
    LET top == Bits(size) \div 2 - 1
    IN  IF x >= 0 THEN ToBytes(IF x > top THEN top ELSE x, size)
        ELSE ToBytes((top + 1) + (IF -x > top THEN top ELSE -x), size)

Read(c, bs) ==
    CASE c \in FloatC -> ReadReal(bs)
      [] c \in ComplexC ->
            <<ReadReal(SubSeq(bs, 1, Len(bs) \div 2)),
              ReadReal(SubSeq(bs, Len(bs) \div 2 + 1, Len(bs)))>>
      [] OTHER -> LET n == FromBytes(bs)
                  IN  IF c \in SignedC /\ n >= Half(c) THEN n - Bits(Len(bs))
                      ELSE n

Write(c, x) ==
    CASE c \in FloatC -> WriteReal(x, sizeof(c))
      [] c \in ComplexC -> WriteReal(x[1], sizeof(c) \div 2)
                           \o WriteReal(x[2], sizeof(c) \div 2)
      [] OTHER -> ToBytes(x % Bits(sizeof(c)), sizeof(c))

-----------------------------------------------------------------------------
(* The operations on one element: a is the source, b the destination.      *)

min_int(c, a, b) == IF a < b THEN a ELSE b
min_float(c, a, b) == IF a < b THEN a ELSE b
max_int(c, a, b) == IF a > b THEN a ELSE b
max_float(c, a, b) == IF a > b THEN a ELSE b
sum_int(c, a, b) == a + b
sum_float(c, a, b) == IF c \in ComplexC THEN <<a[1] + b[1], a[2] + b[2]>>
                      ELSE a + b
prod_int(c, a, b) == a * b
prod_float(c, a, b) ==
    IF c \in ComplexC
    THEN <<a[1] * b[1] - a[2] * b[2], a[1] * b[2] + a[2] * b[1]>>
    ELSE a * b

Truth(p) == IF p THEN 1 ELSE 0

lor_c(c, a, b) == Truth(a # 0 \/ b # 0)
land_c(c, a, b) == Truth(a # 0 /\ b # 0)
bor_c(c, a, b) == a | b
band_c(c, a, b) == a & b
lxor_c(c, a, b) == Truth((a # 0) # (b # 0))
bxor_c(c, a, b) == a ^^ b

\* Changed: a signed type is given the unsigned function.
atom_op_Unsigned(op, t) ==
    CASE t \in {"INT8", "UINT8"} -> "uc"
      [] t \in {"INT16", "UINT16"} -> "us"
      [] t \in {"INT32", "UINT32"} -> "ui"
      [] t \in {"INT64", "UINT64"} -> "ul"
      [] t = "FLOAT" \/ (t = "FLOAT_COMPLEX" /\ op = "SUM") -> "f"
      [] t = "DOUBLE" \/ (t = "DOUBLE_COMPLEX" /\ op = "SUM") -> "d"
      [] t = "LONG_DOUBLE" -> "ld"
      [] t = "FLOAT_COMPLEX" -> "fc"
      [] t = "DOUBLE_COMPLEX" -> "dc"
      [] t = "LONG_DOUBLE_COMPLEX" -> "ldc"

\* The table atom_op: which C type the function for op and t works on.  The
\* logical and bitwise functions of a width serve both signs, and the sums of
\* the two shorter complex types are sums of twice as many real numbers.
atom_op(op, t) ==
    LET any == op \in {"LOR", "LAND", "BOR", "BAND", "LXOR", "BXOR"}
    IN  CASE t = "INT8" -> IF any THEN "uc" ELSE "sc"
          [] t = "UINT8" -> "uc"
          [] t = "INT16" -> IF any THEN "us" ELSE "ss"
          [] t = "UINT16" -> "us"
          [] t = "INT32" -> IF any THEN "ui" ELSE "si"
          [] t = "UINT32" -> "ui"
          [] t = "INT64" -> IF any THEN "ul" ELSE "sl"
          [] t = "UINT64" -> "ul"
          [] t = "FLOAT" \/ (t = "FLOAT_COMPLEX" /\ op = "SUM") -> "f"
          [] t = "DOUBLE" \/ (t = "DOUBLE_COMPLEX" /\ op = "SUM") -> "d"
          [] t = "LONG_DOUBLE" -> "ld"
          [] t = "FLOAT_COMPLEX" -> "fc"
          [] t = "DOUBLE_COMPLEX" -> "dc"
          [] t = "LONG_DOUBLE_COMPLEX" -> "ldc"

Element(op, c, a, b) ==
    LET real == c \in FloatC \cup ComplexC
    IN  CASE op = "MIN" -> IF real THEN min_float(c, a, b) ELSE min_int(c, a, b)
          [] op = "MAX" -> IF real THEN max_float(c, a, b) ELSE max_int(c, a, b)
          [] op = "SUM" -> IF real THEN sum_float(c, a, b) ELSE sum_int(c, a, b)
          [] op = "PROD" -> IF real THEN prod_float(c, a, b)
                            ELSE prod_int(c, a, b)
          [] op = "LOR" -> lor_c(c, a, b)
          [] op = "LAND" -> land_c(c, a, b)
          [] op = "BOR" -> bor_c(c, a, b)
          [] op = "BAND" -> band_c(c, a, b)
          [] op = "LXOR" -> lxor_c(c, a, b)
          [] op = "BXOR" -> bxor_c(c, a, b)

\* One call of the function: the bytes dst after it has been combined with
\* src.  Bytes left over when the length is no multiple of the size stay.
ApplyOp(op, t, dst, src) ==
    LET c == atom_op(op, t)
        w == sizeof(c)
        n == Len(dst) \div w
        item(bs, i) == SubSeq(bs, (i - 1) * w + 1, i * w)
        done == [i \in 1 .. n |->
                    Write(c, Element(op, c, Read(c, item(src, i)),
                                     Read(c, item(dst, i))))]
    IN  FlattenSeq(done) \o SubSeq(dst, n * w + 1, Len(dst))

-----------------------------------------------------------------------------
(* swap_data_in: dst, src and operand are the bytes of one element.        *)

\* The member of the union datatype_t that is read for a type.
Member(t) == CASE t = "INT8" -> "sc"
               [] t = "UINT8" -> "uc"
               [] t = "INT16" -> "ss"
               [] t = "UINT16" -> "us"
               [] t = "INT32" -> "si"
               [] t = "UINT32" -> "ui"
               [] t = "INT64" -> "sl"
               [] t = "UINT64" -> "ul"
               [] t = "FLOAT" -> "f"
               [] t = "DOUBLE" -> "d"
               [] t = "LONG_DOUBLE" -> "ld"
               [] t = "FLOAT_COMPLEX" -> "fc"
               [] t = "DOUBLE_COMPLEX" -> "dc"
               [] t = "LONG_DOUBLE_COMPLEX" -> "ldc"

\* CSWAP and CSWAP_NE: every type.
SwapsWhenEqual(op, t, dst, operand) ==
    LET o == Read(Member(t), operand)  d == Read(Member(t), dst)
    IN  IF op = "CSWAP" THEN o = d ELSE o # d

\* CSWAP_LE, _LT, _GE and _GT: no complex types.
SwapsWhenOrdered(op, t, dst, operand) ==
    LET o == Read(Member(t), operand)  d == Read(Member(t), dst)
    IN  CASE op = "CSWAP_LE" -> o <= d
          [] op = "CSWAP_LT" -> o < d
          [] op = "CSWAP_GE" -> o >= d
          [] op = "CSWAP_GT" -> o > d

\* MSWAP: the bits of the operand come from src, the others stay.
Masked(dst, src, operand) ==
    [i \in DOMAIN dst |-> (operand[i] & src[i])
                          | ((Base - 1 - operand[i]) & dst[i])]

swap_data_in(op, t, dst, src, operand) ==
    CASE op = "MSWAP" -> Masked(dst, src, operand)
      [] op \in {"CSWAP", "CSWAP_NE"} ->
            IF SwapsWhenEqual(op, t, dst, operand) THEN src ELSE dst
      [] OTHER -> IF SwapsWhenOrdered(op, t, dst, operand) THEN src ELSE dst

=============================================================================
