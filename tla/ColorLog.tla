------------------------------ MODULE ColorLog ------------------------------
(***************************************************************************)
(* The log of colours of src/libs/objsize (c_objsize.c with bitarray.h and *)
(* alloc.h): a growing array of bits that holds a run-length encoding of   *)
(* the colours a walk over the heap has overwritten.  The globals of the C *)
(* file are the fields of one record, every C function that changes them   *)
(* is an operator from a log to a log, and an ASSERT that fails (it ends   *)
(* the compiler) makes the field ok FALSE.                                 *)
(***************************************************************************)
EXTENDS Integers, Sequences

CONSTANTS
    COLORS_INIT_COUNT,  \* 256 in the code
    BITS_FOR_COUNT,     \* 5 in the code
    BITS_FOR_ORDER      \* 4 in the code

\* A whole number of bytes, and no integer is wider than the first array.
ASSUME LogAssumption ==
    /\ COLORS_INIT_COUNT \in Nat /\ COLORS_INIT_COUNT % 4 = 0
    /\ BITS_FOR_COUNT \in 1 .. COLORS_INIT_COUNT
    /\ BITS_FOR_ORDER \in 1 .. COLORS_INIT_COUNT

Color == 0 .. 3
Col_blue == 2

\* 1 << k.
Shift[k \in Nat] == IF k = 0 THEN 1 ELSE 2 * Shift[k - 1]

MAX_REPEAT_COUNT == Shift[BITS_FOR_COUNT]
MAX_REPEAT_ORDER == Shift[BITS_FOR_ORDER]
-----------------------------------------------------------------------------
(* The array of bits *)

\* The operands of % are the other way round than the name suggests; the result
\* is at least n all the same.
wordalign(n) == IF 4 % n = 0 THEN n ELSE n + 4 - (4 % n)

bitarray_sizebytes(n) == wordalign(n \div 8)

\* bitarray_get, and bitarray_set for the bits that follow those of arr.
bitarray_get(arr, i) == arr[i + 1]
bitarray_set(arr, bits) == arr \o bits

colors_init ==
    [colors |-> << >>, bitcap |-> 2 * COLORS_INIT_COUNT,
     bytes |-> bitarray_sizebytes(2 * COLORS_INIT_COUNT), readindex |-> 0,
     prev_color |-> 0, repeat_count |-> 0, ok |-> TRUE]

writeindex(log) == Len(log.colors)

\* The smallest of the sizes got by doubling that has room for n bits.
Doubled(cap, n) ==
    LET size[k \in Nat] == IF n <= cap * Shift[k] THEN cap * Shift[k] ELSE size[k + 1]
    IN  size[0]

\* writebit for every bit in turn.
writebits(log, bits) ==
    LET cap == Doubled(log.bitcap, writeindex(log) + Len(bits))
    IN  [log EXCEPT !.colors = bitarray_set(@, bits),
                    !.bitcap = cap,
                    !.bytes = bitarray_sizebytes(cap),
                    !.ok = @ /\ writeindex(log) + Len(bits) <= 8 * bitarray_sizebytes(cap)]

\* writeint: the bits of arg, the lowest first.
IntBits(arg, width) == [k \in 1 .. width |-> (arg \div Shift[k - 1]) % 2]

\* readint shifts the bits in from the top, so the first is the lowest.
readint(log, at, width) ==
    LET acc[k \in 0 .. width] ==
            IF k = 0 THEN 0 ELSE acc[k - 1] + Shift[k - 1] * bitarray_get(log.colors, at + k - 1)
    IN  acc[width]

\* readbit asserts that the bit was written.
Written(log, at, width) == at + width <= writeindex(log)
-----------------------------------------------------------------------------
(* The run-length encoding *)

\* The first order that is not too small, or the largest that can be written.
Order(count) ==
    LET ord[k \in Nat] == IF k < MAX_REPEAT_ORDER - 1 /\ Shift[k] <= count \div 2
                          THEN ord[k + 1] ELSE k
    IN  ord[0]

\* Blue, one bit that tells which, and the order or the count.
OrderBits(ord) == IntBits(Col_blue, 2) \o IntBits(1, 1) \o IntBits(ord, BITS_FOR_ORDER)
CountBits(n) == IntBits(Col_blue, 2) \o IntBits(0, 1) \o IntBits(n, BITS_FOR_COUNT)

\* rle_write_repeats: powers of two until the rest can be written as it is.
RepeatBits(count) ==
    LET bits[n \in 0 .. count] ==
            IF n >= MAX_REPEAT_COUNT THEN OrderBits(Order(n)) \o bits[n - Shift[Order(n)]]
            ELSE IF n > 0 THEN CountBits(n) ELSE << >>
    IN  bits[count]

rle_write_flush(log) ==
    [writebits(log, RepeatBits(log.repeat_count)) EXCEPT !.repeat_count = 0]

rle_read_flush(log) ==
    [log EXCEPT !.ok = @ /\ log.repeat_count = 0 /\ log.readindex = writeindex(log)]

\* Faulty: the repeats that are pending are forgotten.
rle_write_NoFlush(log, color) ==
    IF color = log.prev_color THEN [log EXCEPT !.repeat_count = @ + 1]
    ELSE [writebits(log, IntBits(color, 2)) EXCEPT !.prev_color = color, !.repeat_count = 0]

rle_write(log, color) ==
    IF color = log.prev_color THEN [log EXCEPT !.repeat_count = @ + 1]
    ELSE [writebits(log, RepeatBits(log.repeat_count) \o IntBits(color, 2))
             EXCEPT !.prev_color = color, !.repeat_count = 0]

\* What blue announces; one of the repeats is used at once.
ReadRepeats(log) ==
    LET at == log.readindex + 2
        exact == readint(log, at, 1) = 0
        width == IF exact THEN BITS_FOR_COUNT ELSE BITS_FOR_ORDER
        n == readint(log, at + 1, width)
        count == IF exact THEN n ELSE Shift[n]
    IN  IF Written(log, at, 1 + width) /\ count > 0
        THEN [log EXCEPT !.readindex = at + 1 + width, !.repeat_count = count - 1]
        ELSE [log EXCEPT !.ok = FALSE]

\* The log after a colour was read: the colour is in prev_color.
rle_read(log) ==
    LET c == readint(log, log.readindex, 2)
    IN  IF log.repeat_count > 0 THEN [log EXCEPT !.repeat_count = @ - 1]
        ELSE IF ~Written(log, log.readindex, 2) THEN [log EXCEPT !.ok = FALSE]
        ELSE IF c = Col_blue THEN ReadRepeats(log)
        ELSE [log EXCEPT !.readindex = @ + 2, !.prev_color = c]

rle_init(log) == [log EXCEPT !.prev_color = 0, !.repeat_count = 0]

writecolor(log, col) == [rle_write(log, col) EXCEPT !.ok = @ /\ col # Col_blue]

readcolor(log) == rle_read(log)
=============================================================================
