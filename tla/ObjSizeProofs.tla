--------------------------- MODULE ObjSizeProofs ----------------------------
(***************************************************************************)
(* Theorems about ObjSize, for every heap, every list and every width of   *)
(* the encoding of the log.                                                *)
(*                                                                         *)
(* Both walks are one depth-first search, the first over the blocks that   *)
(* are not blue, the second over those that are.  Whatever can be entered  *)
(* from a block already entered is a field a pending call has yet to look  *)
(* at, or the child it holds back for the end; so a walk that is over has  *)
(* entered a closed set.  The first blues no more than the least closed    *)
(* set, and the second, on what the first has left blue, leaves no block   *)
(* blue for the next call (Inv).                                           *)
(*                                                                         *)
(* The order in which a walk meets the blocks depends on the heap and the  *)
(* arguments alone: it is written down as a trace, which the first walk    *)
(* makes and the second goes along.  The log holds the colours of the      *)
(* blocks of the trace, encoded, and what is read from it is what was      *)
(* written to it, at the same places of the trace (Ordered).  So every     *)
(* block gets back its own colour, and every bit is read.                  *)
(*                                                                         *)
(* The counts of the first walk are those of the blocks it has entered     *)
(* (Counted).  Together the three invariants make a call one step of       *)
(* Measurement.                                                            *)
(***************************************************************************)
EXTENDS ObjSize, TLAPS, SequenceTheorems, FiniteSetTheorems, WellFoundedInduction

Blues == {n \in Node : Blue(n)}
E == Elements(call.exclude)
M == Measured(heap, call.start, E)

\* f is a field of n that a pending call will still look at.
Waits(fr, n, f) ==
    \E k \in 1 .. Len(fr) :
        /\ fr[k].v = n
        /\ fr[k].prev = f \/ \E l \in fr[k].i .. Wosize(n) : Field(n, l) = f

Child(n, f) == f \in Node /\ \E l \in 1 .. Wosize(n) : Field(n, l) = f

\* The search has entered V, and can still enter the blocks of U.
Walked(fr, V, U) ==
    /\ \A k \in 1 .. Len(fr) :
        fr[k].v \in V /\ (fr[k].prev # Val_unit => Child(fr[k].v, fr[k].prev))
    /\ \A n \in V \ heap.noscan :
        \A l \in 1 .. Wosize(n) : Field(n, l) \in U => Waits(fr, n, Field(n, l))

\* Every colour read back from the log is one that a block in use may have.
LogOK(l) == "prev_color" \in DOMAIN l /\ l.prev_color # Col_blue

Typed ==
    /\ heap \in Heaps
    /\ color = [n \in Node |-> color[n]]
    /\ pc \in {"idle", "exclude", "start", "mark", "unexclude", "found", "restore", "free"}
    /\ InCall => call \in [start : Node \union {Val_unit}, exclude : Lists, reach : Lists]
    /\ InCall => LogOK(log)
    /\ todo \in Seq(Node)
    /\ frames \in Seq(Frames)
    /\ pc \notin {"mark", "restore"} => frames = << >>

Excluding == pc = "exclude" => Blues \union Elements(todo) = E

Marking ==
    pc = "mark" =>
        /\ E \subseteq Blues /\ Blues \ E \subseteq M
        /\ call.start \in Node => call.start \in Blues
        /\ IsFiniteSet(Blues \ E) /\ acc_hdrs = Cardinality(Blues \ E)
        /\ Walked(frames, Blues \ E, Node \ Blues)

Unexcluding ==
    pc = "unexclude" =>
        /\ M \subseteq Blues /\ Blues \subseteq M \union Elements(todo)
        /\ Elements(todo) \subseteq E
        /\ Len(todo) <= Len(call.exclude)
        /\ todo = call.exclude => Blues = E \union M
        /\ acc_hdrs = Cardinality(M)

Restoring ==
    pc = "restore" =>
        /\ Blues \subseteq M
        /\ call.start \notin Blues
        /\ Walked(frames, M \ Blues, Blues)

Inv ==
    /\ Typed
    /\ Excluding /\ Marking /\ Unexcluding /\ Restoring
    /\ pc \in {"idle", "free"} => Blues = {}
    /\ pc = "start" => Blues = E /\ acc_hdrs = 0
    /\ pc = "found" => Blues = M
-----------------------------------------------------------------------------
(* The heap *)

\* What a field of a block may be.
LEMMA FieldIsTyped ==
    ASSUME heap \in Heaps, NEW n \in Node
    PROVE  /\ heap.fields[n] \in Seq(Node \union {Val_unit}) /\ Wosize(n) \in Nat
           /\ DOMAIN heap.fields[n] = 1 .. Wosize(n)
           /\ \A l \in 1 .. Wosize(n) : Field(n, l) \in Node \union {Val_unit}
<1>1. heap.fields \in [Node -> Seq(Node \union {Val_unit})]
  BY HeapAssumption
<1>2. heap.fields[n] \in Seq(Node \union {Val_unit})
  BY <1>1
<1>3. /\ Len(heap.fields[n]) \in Nat /\ DOMAIN heap.fields[n] = 1 .. Len(heap.fields[n])
      /\ \A l \in 1 .. Len(heap.fields[n]) : heap.fields[n][l] \in Node \union {Val_unit}
  BY <1>2, LenProperties, ElementOfSeq
<1> QED BY <1>2, <1>3 DEF Wosize, Field

LEMMA NoscanIsTyped ==
    ASSUME heap \in Heaps PROVE heap.noscan \subseteq Node
<1> QED BY HeapAssumption

\* Closed in terms of children.
LEMMA ClosedIs ==
    ASSUME heap \in Heaps, NEW X, NEW S \in SUBSET Node
    PROVE  Closed(heap, X, S) <=>
             \A n \in S \ heap.noscan : \A f \in Node \ X : Child(n, f) => f \in S
<1>1. \A n \in S : DOMAIN heap.fields[n] = 1 .. Wosize(n)
  BY FieldIsTyped
<1> QED BY <1>1 DEF Closed, Follows, Child, Field

\* The measured blocks are a closed set with the value in it, and the least.
LEMMA MeasuredIs ==
    ASSUME heap \in Heaps, NEW start, NEW X
    PROVE  /\ Measured(heap, start, X) \subseteq Node \ X
           /\ start \in Node \ X => start \in Measured(heap, start, X)
           /\ start \notin Node \ X => Measured(heap, start, X) = {}
           /\ \A n \in Measured(heap, start, X) \ heap.noscan : \A f \in Node \ X :
                 Child(n, f) => f \in Measured(heap, start, X)
           /\ \A S \in SUBSET Node :
                 /\ start \in Node \ X => start \in S
                 /\ \A n \in S \ heap.noscan : \A f \in Node \ X : Child(n, f) => f \in S
                 => Measured(heap, start, X) \subseteq S
<1> DEFINE D == Measured(heap, start, X)
<1>1. \A n \in D : n \in Node /\ start \in Node \ X
  BY DEF Measured
<1>2. ASSUME NEW S \in SUBSET Node, start \in S, Closed(heap, X, S) PROVE D \subseteq S
  BY <1>2 DEF Measured
<1>3. D \subseteq Node \ X
  <2>1. Closed(heap, X, Node \ X)
    BY ClosedIs
  <2> QED BY <1>1, <1>2, <2>1
<1>4. start \in Node \ X => start \in D
  BY DEF Measured
<1>5. ASSUME NEW n \in D \ heap.noscan, NEW f \in Node \ X, Child(n, f) PROVE f \in D
  <2> SUFFICES ASSUME NEW S \in SUBSET Node, start \in S, Closed(heap, X, S) PROVE f \in S
    BY <1>1 DEF Measured
  <2>1. n \in S
    BY <1>2
  <2> QED BY <1>5, <2>1, ClosedIs
<1>6. ASSUME NEW S \in SUBSET Node, start \in Node \ X => start \in S,
             \A n \in S \ heap.noscan : \A f \in Node \ X : Child(n, f) => f \in S
      PROVE  D \subseteq S
  <2>1. Closed(heap, X, S)
    BY <1>6, ClosedIs
  <2> QED BY <1>1, <1>2, <1>6, <2>1
<1>7. start \notin Node \ X => D = {}
  BY <1>1
<1> QED BY <1>3, <1>4, <1>5, <1>6, <1>7
-----------------------------------------------------------------------------
(* The search *)

\* Pushing and replacing the top of the stack.
LEMMA Stacks ==
    ASSUME NEW S, NEW s \in Seq(S)
    PROVE  /\ Len(s) \in Nat
           /\ \A k \in 1 .. Len(s) : s[k] \in S
           /\ s # << >> => Len(s) \in Nat \ {0}
           /\ \A e \in S : /\ Append(s, e) \in Seq(S) /\ Len(Append(s, e)) = Len(s) + 1
                           /\ Append(s, e)[Len(s) + 1] = e
                           /\ \A k \in 1 .. Len(s) : Append(s, e)[k] = s[k]
<1> QED BY EmptySeq, LenProperties, ElementOfSeq, AppendProperties

LEMMA Lower ==
    ASSUME NEW S, NEW s \in Seq(S), s # << >>
    PROVE  /\ SubSeq(s, 1, Len(s) - 1) \in Seq(S)
           /\ Len(SubSeq(s, 1, Len(s) - 1)) = Len(s) - 1
           /\ \A k \in 1 .. (Len(s) - 1) : SubSeq(s, 1, Len(s) - 1)[k] = s[k]
<1>1. Len(s) \in Nat \ {0} /\ \A k \in 1 .. Len(s) : s[k] \in S
  BY Stacks
<1> DEFINE n == Len(s)
<1>2. n \in Nat \ {0} /\ \A k \in 1 .. (n - 1) : s[k] \in S
  BY <1>1
<1> HIDE DEF n
<1>3. n - 1 \in Int
  BY <1>2
<1>4. /\ SubSeq(s, 1, n - 1) \in Seq(S)
      /\ Len(SubSeq(s, 1, n - 1)) = IF 1 <= n - 1 THEN (n - 1) - 1 + 1 ELSE 0
      /\ \A k \in 1 .. ((n - 1) - 1 + 1) : SubSeq(s, 1, n - 1)[k] = s[1 + k - 1]
  BY <1>2, <1>3, SubSeqProperties
<1>5. Len(SubSeq(s, 1, n - 1)) = n - 1
  BY <1>2, <1>4
<1>6. \A k \in 1 .. (n - 1) : SubSeq(s, 1, n - 1)[k] = s[k]
  BY <1>2, <1>4
<1> QED BY <1>4, <1>5, <1>6 DEF n

\* The stack with e on top instead.
Replaced(fr, e) == Append(SubSeq(fr, 1, Len(fr) - 1), e)

\* The call on top.
LEMMA TopIs ==
    ASSUME NEW fr \in Seq(Frames), fr # << >>
    PROVE  \E n \in Nat : /\ n + 1 = Len(fr) /\ n + 1 \in 1 .. (n + 1)
                          /\ fr[Len(fr)] \in Frames /\ fr[n + 1] = fr[Len(fr)]
<1>1. Len(fr) \in Nat \ {0} /\ \A k \in 1 .. Len(fr) : fr[k] \in Frames
  BY Stacks
<1>2. Len(fr) - 1 \in Nat /\ (Len(fr) - 1) + 1 = Len(fr) /\ Len(fr) \in 1 .. Len(fr)
  BY <1>1
<1> QED BY <1>1, <1>2

\* A search that can enter less has less to do.
LEMMA WalkedLess ==
    ASSUME NEW fr, NEW V, NEW U, Walked(fr, V, U), NEW W \in SUBSET U
    PROVE  Walked(fr, V, W)
<1> QED BY DEF Walked

\* A block is entered: all of its fields wait, unless it has none to scan.
LEMMA WalkedEnter ==
    ASSUME heap \in Heaps, NEW fr \in Seq(Frames), NEW V, NEW U, Walked(fr, V, U),
           NEW p \in Node, NEW d \in Nat, NEW gr,
           gr = IF p \in heap.noscan THEN fr ELSE Append(fr, Frame(p, d))
    PROVE  gr \in Seq(Frames) /\ Walked(gr, V \union {p}, U)
<1>1. CASE p \in heap.noscan
  BY <1>1 DEF Walked
<1>2. CASE p \notin heap.noscan
  <2> DEFINE e == Frame(p, d)
  <2>1. e \in Frames /\ e.v = p /\ e.i = 1 /\ e.prev = Val_unit
    BY <1>2 DEF Frame, Frames
  <2> HIDE DEF e
  <2>2. PICK n \in Nat : n = Len(fr)
    BY Stacks
  <2>3. /\ gr \in Seq(Frames) /\ Len(gr) = n + 1 /\ gr[n + 1] = e
        /\ \A k \in 1 .. n : gr[k] = fr[k]
    BY <1>2, <2>1, <2>2, Stacks DEF e
  <2>4. \A k \in 1 .. (n + 1) : k \in 1 .. n \/ k = n + 1
    BY <2>2
  <2>5. \A k \in 1 .. Len(gr) :
          gr[k].v \in V \union {p} /\ (gr[k].prev # Val_unit => Child(gr[k].v, gr[k].prev))
    BY <2>1, <2>2, <2>3, <2>4 DEF Walked
  <2>6. \A m, f : Waits(fr, m, f) => Waits(gr, m, f)
    <3>1. \A k \in 1 .. n : k \in 1 .. (n + 1)
      BY <2>2
    <3> QED BY <2>2, <2>3, <3>1 DEF Waits
  <2>7. \A l \in 1 .. Wosize(p) : Waits(gr, p, Field(p, l))
    <3>1. n + 1 \in 1 .. (n + 1)
      BY <2>2
    <3> QED BY <2>1, <2>3, <3>1 DEF Waits
  <2> QED BY <2>3, <2>5, <2>6, <2>7 DEF Walked
<1> QED BY <1>1, <1>2

\* A field is looked at: it is held back, and what was held back is not to be
\* entered any more.
LEMMA WalkedField ==
    ASSUME heap \in Heaps, NEW fr \in Seq(Frames), fr # << >>, NEW V, NEW U \in SUBSET Node,
           Walked(fr, V, U),
           NEW t, t = fr[Len(fr)], t.i <= Wosize(t.v),
           NEW f, f = Field(t.v, t.i),
           NEW e \in Frames, e.v = t.v, e.i = t.i + 1,
           e.prev = IF IsBlock(f) THEN f ELSE t.prev,
           IsBlock(f) => t.prev \notin U,
           NEW gr, gr = Replaced(fr, e)
    PROVE  gr \in Seq(Frames) /\ Walked(gr, V, U)
<1>1. PICK n \in Nat : /\ n + 1 = Len(fr) /\ n + 1 \in 1 .. (n + 1)
                       /\ fr[Len(fr)] \in Frames /\ fr[n + 1] = fr[Len(fr)]
  BY TopIs
<1>2. t \in Frames /\ n + 1 \in 1 .. (n + 1)
  BY <1>1
<1>3. /\ t.v \in Node \ heap.noscan /\ t.i \in 1 .. Wosize(t.v)
      /\ t.prev \in Node \union {Val_unit} /\ f \in Node \union {Val_unit}
      /\ Wosize(t.v) \in Nat
  <2>1. t.v \in Node \ heap.noscan /\ t.i \in Nat \ {0} /\ t.prev \in Node \union {Val_unit}
    BY <1>2 DEF Frames
  <2>2. /\ Wosize(t.v) \in Nat
        /\ \A l \in 1 .. Wosize(t.v) : Field(t.v, l) \in Node \union {Val_unit}
    BY <2>1, FieldIsTyped
  <2>3. t.i \in 1 .. Wosize(t.v)
    BY <2>1, <2>2
  <2> QED BY <2>1, <2>2, <2>3
<1>4. /\ e \in Frames /\ e.v = t.v /\ e.i = t.i + 1
      /\ e.prev = IF f \in Node THEN f ELSE t.prev
  BY DEF IsBlock
<1> DEFINE low == SubSeq(fr, 1, Len(fr) - 1)
<1>5. low \in Seq(Frames) /\ Len(low) = n /\ \A k \in 1 .. n : low[k] = fr[k]
  BY <1>1, Lower
<1> HIDE DEF low
<1>6. /\ gr \in Seq(Frames) /\ Len(gr) = n + 1 /\ gr[n + 1] = e
      /\ \A k \in 1 .. n : gr[k] = fr[k]
  BY <1>1, <1>4, <1>5, Stacks DEF low, Replaced
<1>7. \A k \in 1 .. (n + 1) : k \in 1 .. n \/ k = n + 1
  BY <1>1
<1>8. t.v \in V /\ (t.prev # Val_unit => Child(t.v, t.prev))
  BY <1>1, <1>2 DEF Walked
<1>9. e.prev # Val_unit => Child(e.v, e.prev)
  BY <1>3, <1>4, <1>8 DEF Child
<1>10. \A k \in 1 .. Len(gr) :
         gr[k].v \in V /\ (gr[k].prev # Val_unit => Child(gr[k].v, gr[k].prev))
  <2>1. \A k \in 1 .. n : k \in 1 .. Len(fr)
    BY <1>1
  <2> QED BY <1>4, <1>6, <1>7, <1>8, <1>9, <2>1 DEF Walked
<1>11. ASSUME NEW m, NEW g \in U, Waits(fr, m, g) PROVE Waits(gr, m, g)
  <2>1. PICK k \in 1 .. (n + 1) :
          /\ fr[k].v = m
          /\ fr[k].prev = g \/ \E l \in fr[k].i .. Wosize(m) : Field(m, l) = g
    BY <1>1, <1>11 DEF Waits
  <2>2. CASE k \in 1 .. n
    BY <1>6, <2>1, <2>2 DEF Waits
  <2>3. CASE k = n + 1
    <3>1. m = t.v /\ (t.prev = g \/ \E l \in t.i .. Wosize(m) : Field(m, l) = g)
      BY <1>1, <2>1, <2>3
    <3>2. CASE t.prev = g
      <4>1. e.prev = g
        BY <1>4, <3>2 DEF IsBlock
      <4> QED BY <1>2, <1>4, <1>6, <3>1, <4>1 DEF Waits
    <3>3. ASSUME NEW l \in t.i .. Wosize(m), Field(m, l) = g PROVE Waits(gr, m, g)
      <4>1. CASE l = t.i
        <5>1. e.prev = g
          BY <1>4, <3>1, <3>3, <4>1
        <5> QED BY <1>2, <1>4, <1>6, <3>1, <5>1 DEF Waits
      <4>2. CASE l # t.i
        <5>1. l \in e.i .. Wosize(m)
          BY <1>3, <1>4, <3>1, <4>2
        <5> QED BY <1>2, <1>4, <1>6, <3>1, <3>3, <5>1 DEF Waits
      <4> QED BY <4>1, <4>2
    <3> QED BY <3>1, <3>2, <3>3
  <2> QED BY <2>1, <2>2, <2>3
<1> QED BY <1>6, <1>10, <1>11 DEF Walked

\* A call with no field left returns.
LEMMA WalkedLast ==
    ASSUME heap \in Heaps, NEW fr \in Seq(Frames), fr # << >>, NEW V, NEW U \in SUBSET Node,
           Walked(fr, V, U),
           NEW t, t = fr[Len(fr)], t.i > Wosize(t.v), t.prev \notin U,
           NEW gr, gr = SubSeq(fr, 1, Len(fr) - 1)
    PROVE  gr \in Seq(Frames) /\ Walked(gr, V, U)
<1>1. PICK n \in Nat : /\ n + 1 = Len(fr) /\ n + 1 \in 1 .. (n + 1)
                       /\ fr[Len(fr)] \in Frames /\ fr[n + 1] = fr[Len(fr)]
  BY TopIs
<1>2. t \in Frames /\ n + 1 \in 1 .. (n + 1)
  BY <1>1
<1>3. t.v \in Node /\ t.i \in Nat /\ Wosize(t.v) \in Nat
  BY <1>2, FieldIsTyped DEF Frames
<1>4. gr \in Seq(Frames) /\ Len(gr) = n /\ \A k \in 1 .. n : gr[k] = fr[k]
  BY <1>1, Lower
<1>5. \A k \in 1 .. (n + 1) : k \in 1 .. n \/ k = n + 1
  BY <1>1
<1>6. \A k \in 1 .. Len(gr) :
        gr[k].v \in V /\ (gr[k].prev # Val_unit => Child(gr[k].v, gr[k].prev))
  <2>1. \A k \in 1 .. n : k \in 1 .. Len(fr)
    BY <1>1
  <2> QED BY <1>4, <2>1 DEF Walked
<1>7. ASSUME NEW m, NEW g \in U, Waits(fr, m, g) PROVE Waits(gr, m, g)
  <2>1. PICK k \in 1 .. (n + 1) :
          /\ fr[k].v = m
          /\ fr[k].prev = g \/ \E l \in fr[k].i .. Wosize(m) : Field(m, l) = g
    BY <1>1, <1>7 DEF Waits
  <2>2. k # n + 1
    <3> SUFFICES ASSUME k = n + 1 PROVE FALSE
      OBVIOUS
    <3>1. m = t.v /\ \E l \in t.i .. Wosize(m) : TRUE
      BY <1>1, <2>1
    <3> QED BY <1>3, <3>1
  <2>3. k \in 1 .. n
    BY <1>5, <2>2
  <2> QED BY <1>4, <2>1, <2>3 DEF Waits
<1> QED BY <1>4, <1>6, <1>7 DEF Walked
-----------------------------------------------------------------------------
(* The log and the colours *)

\* Bits are written behind the others, and no more.
LEMMA WriteBitsKeeps ==
    ASSUME NEW l, LogOK(l), NEW bits PROVE LogOK(writebits(l, bits))
<1> QED BY DEF LogOK, writebits

\* A colour is never blue when it is written.
LEMMA WriteKeeps ==
    ASSUME NEW l, LogOK(l), NEW c, c # Col_blue PROVE LogOK(writecolor(l, c))
<1>1. \A bits : LogOK(writebits(l, bits))
  BY WriteBitsKeeps
<1>2. LogOK(rle_write(l, c))
  <2>1. CASE c = l.prev_color
    BY <2>1 DEF rle_write, LogOK
  <2>2. CASE c # l.prev_color
    <3> DEFINE w == writebits(l, RepeatBits(l.repeat_count) \o IntBits(c, 2))
    <3>1. LogOK(w)
      BY <1>1
    <3>2. rle_write(l, c) = [w EXCEPT !.prev_color = c, !.repeat_count = 0]
      BY <2>2 DEF rle_write
    <3> HIDE DEF w
    <3> QED BY <3>1, <3>2 DEF LogOK
  <2> QED BY <2>1, <2>2
<1> DEFINE r == rle_write(l, c)
<1>3. writecolor(l, c) = [r EXCEPT !.ok = @ /\ c # Col_blue]
  BY DEF writecolor
<1>4. LogOK(r)
  BY <1>2
<1> HIDE DEF r
<1> QED BY <1>3, <1>4 DEF LogOK

\* Nor when it is read: blue announces repeats of the colour before.
LEMMA ReadKeeps ==
    ASSUME NEW l, LogOK(l) PROVE LogOK(readcolor(l))
<1>1. LogOK(ReadRepeats(l))
  BY DEF LogOK, ReadRepeats
<1>2. \A c : c # Col_blue => LogOK([l EXCEPT !.readindex = @ + 2, !.prev_color = c])
  BY DEF LogOK
<1>3. LogOK([l EXCEPT !.repeat_count = @ - 1]) /\ LogOK([l EXCEPT !.ok = FALSE])
  BY DEF LogOK
<1> QED BY <1>1, <1>2, <1>3 DEF readcolor, rle_read

\* The two ends of a walk.
LEMMA FlushKeeps ==
    ASSUME NEW l, LogOK(l) PROVE LogOK(rle_init(rle_write_flush(l))) /\ LogOK(rle_read_flush(l))
<1> DEFINE w == writebits(l, RepeatBits(l.repeat_count))
<1>1. LogOK(w)
  BY WriteBitsKeeps
<1> HIDE DEF w
<1>2. rle_init(rle_write_flush(l)) =
        [[w EXCEPT !.repeat_count = 0] EXCEPT !.prev_color = 0, !.repeat_count = 0]
  BY DEF w, rle_init, rle_write_flush
<1>3. LogOK(rle_init(rle_write_flush(l)))
  BY <1>1, <1>2 DEF LogOK, Col_blue
<1>4. LogOK(rle_read_flush(l))
  BY DEF LogOK, rle_read_flush
<1> QED BY <1>3, <1>4

LEMMA InitKeeps ==
    ASSUME NEW b PROVE LogOK([colors_init EXCEPT !.ok = b])
<1> QED BY DEF LogOK, colors_init, Col_blue

\* One header is written.
LEMMA OneColor ==
    ASSUME color = [n \in Node |-> color[n]], NEW v \in Node, NEW c,
           color' = [color EXCEPT ![v] = c]
    PROVE  /\ color' = [n \in Node |-> color'[n]]
           /\ c = Col_blue => Blues' = Blues \union {v}
           /\ c # Col_blue => Blues' = Blues \ {v}
<1>1. DOMAIN color = Node
  OBVIOUS
<1>2. color' = [n \in Node |-> IF n = v THEN c ELSE color[n]]
  BY <1>1
<1>3. \A n \in Node : color'[n] = IF n = v THEN c ELSE color[n]
  BY <1>2
<1>4. color' = [n \in Node |-> color'[n]]
  BY <1>2, <1>3
<1> QED BY <1>3, <1>4 DEF Blues, Blue

\* The elements of a list and of its tail.
LEMMA HeadAndTail ==
    ASSUME NEW s \in Seq(Node), s # << >>
    PROVE  /\ Head(s) \in Node /\ Tail(s) \in Seq(Node)
           /\ Len(Tail(s)) + 1 = Len(s) /\ Len(s) \in Nat /\ Len(Tail(s)) \in Nat
           /\ Elements(s) = {Head(s)} \union Elements(Tail(s))
<1>1. /\ Head(s) \in Node /\ Tail(s) \in Seq(Node) /\ Head(s) = s[1]
      /\ \A k \in 1 .. Len(Tail(s)) : Tail(s)[k] = s[k + 1]
      /\ DOMAIN s = 1 .. Len(s) /\ DOMAIN Tail(s) = 1 .. Len(Tail(s))
  BY HeadTailProperties, LenProperties
<1>2. Len(Tail(s)) + 1 = Len(s) /\ Len(s) \in Nat /\ Len(Tail(s)) \in Nat
  BY HeadTailProperties, EmptySeq, LenProperties
<1>3. \A k \in 1 .. Len(s) : k = 1 \/ k - 1 \in 1 .. Len(Tail(s))
  BY <1>2
<1>4. 1 \in 1 .. Len(s) /\ \A k \in 1 .. Len(Tail(s)) : k + 1 \in 1 .. Len(s)
  BY <1>2
<1>5. Elements(s) \subseteq {Head(s)} \union Elements(Tail(s))
  <2> SUFFICES ASSUME NEW k \in 1 .. Len(s)
               PROVE  s[k] \in {Head(s)} \union Elements(Tail(s))
    BY <1>1 DEF Elements
  <2>1. CASE k = 1
    BY <1>1, <2>1
  <2>2. CASE k - 1 \in 1 .. Len(Tail(s))
    <3>1. Tail(s)[k - 1] = s[k]
      BY <1>1, <2>2
    <3> QED BY <1>1, <2>2, <3>1 DEF Elements
  <2> QED BY <1>3, <2>1, <2>2
<1>6. {Head(s)} \union Elements(Tail(s)) \subseteq Elements(s)
  BY <1>1, <1>4 DEF Elements
<1> QED BY <1>1, <1>2, <1>5, <1>6
-----------------------------------------------------------------------------
(* A step of a walk *)

\* How a call of either walk begins.
LEMMA Enters ==
    ASSUME heap \in Heaps, color = [n \in Node |-> color[n]], LogOK(log),
           NEW fr \in Seq(Frames), NEW V, NEW U, Walked(fr, V, U),
           NEW p \in Node, NEW d \in Nat,
           frames' = IF p \in heap.noscan THEN fr ELSE Append(fr, Frame(p, d))
    PROVE  frames' \in Seq(Frames) /\ Walked(frames', V \union {p}, U)
<1> PICK gr : gr = frames'
  OBVIOUS
<1>1. gr \in Seq(Frames) /\ Walked(gr, V \union {p}, U)
  BY WalkedEnter
<1> QED BY <1>1

\* The block a step of a walk enters comes out of those that can be entered.
LEMMA WalkStep ==
    ASSUME heap \in Heaps, frames \in Seq(Frames),
           NEW V, NEW U \in SUBSET Node, Walked(frames, V, U),
           \A n \in Node : Visit(n) <=> n \in U,
           WalkField \/ WalkLast
    PROVE  \/ /\ UNCHANGED <<color, log, accs>>
              /\ frames' \in Seq(Frames) /\ Walked(frames', V, U)
           \/ \E p \in U : \E n \in V \ heap.noscan, d \in Nat, fr \in Seq(Frames) :
                Child(n, p) /\ Walked(fr, V, U \ {p}) /\ Enter(p, d, fr)
<1> PICK st \in Seq(Frames) : st = frames
  OBVIOUS
<1> DEFINE t == st[Len(st)]
           low == SubSeq(st, 1, Len(st) - 1)
           f == Field(t.v, t.i)
           next == [t EXCEPT !.i = @ + 1, !.prev = IF IsBlock(f) THEN f ELSE @]
<1>1. st # << >>
  BY DEF WalkField, WalkLast
<1>2. t \in Frames /\ Len(st) \in 1 .. Len(st)
  <2>1. Len(st) \in Nat \ {0} /\ \A k \in 1 .. Len(st) : st[k] \in Frames
    BY <1>1, Stacks, Zenon
  <2>2. Len(st) \in 1 .. Len(st)
    BY <2>1
  <2> QED BY <2>1, <2>2, Zenon
<1>3. t.v \in Node \ heap.noscan /\ t.prev \in Node \union {Val_unit} /\ t.depth + 1 \in Nat
  BY <1>2 DEF Frames
<1>4. t.v \in V /\ (t.prev # Val_unit => Child(t.v, t.prev))
  BY <1>2 DEF Walked
<1>5. t.prev # Val_unit /\ Visit(t.prev) <=> t.prev \in U
  BY <1>3, UnitAssumption
<1>6. CASE WalkField
  <2> DEFINE gr == Append(low, next)
  <2>1. /\ t.i <= Wosize(t.v)
        /\ IF IsBlock(f) /\ t.prev \in U
           THEN Enter(t.prev, t.depth + 1, gr)
           ELSE Keep(gr)
    BY <1>5, <1>6 DEF WalkField, Top, Below
  <2>2. ASSUME NEW W \in SUBSET U, IsBlock(f) => t.prev \notin W
        PROVE  gr \in Seq(Frames) /\ Walked(gr, V, W)
    <3>1. Walked(st, V, W)
      BY WalkedLess
    <3> DEFINE e == next
    <3>2. t.i + 1 \in Nat \ {0} /\ f \in Node \union {Val_unit}
      BY <1>2, <2>1, FieldIsTyped DEF Frames
    <3>3. e \in Frames /\ e.v = t.v /\ e.i = t.i + 1 /\ e.prev = IF IsBlock(f) THEN f ELSE t.prev
      <4> DEFINE j == t.i + 1
                 p == IF IsBlock(f) THEN f ELSE t.prev
      <4>1. e = [t EXCEPT !.i = j, !.prev = p]
        OBVIOUS
      <4>2. j \in Nat \ {0} /\ p \in Node \union {Val_unit}
        BY <1>3, <3>2
      <4> HIDE DEF j, p, e, t
      <4>3. e \in Frames /\ e.v = t.v /\ e.i = j /\ e.prev = p
        BY <1>2, <4>1, <4>2 DEF Frames
      <4> QED BY <4>3 DEF j, p
    <3>4. /\ t = st[Len(st)] /\ t.i <= Wosize(t.v) /\ f = Field(t.v, t.i)
          /\ gr = Replaced(st, e) /\ W \in SUBSET Node /\ (IsBlock(f) => t.prev \notin W)
      BY <2>1, <2>2 DEF Replaced
    <3> HIDE DEF e, gr, t, f, next, low
    <3> QED BY <1>1, <3>1, <3>3, <3>4, WalkedField
  <2>3. CASE IsBlock(f) /\ t.prev \in U
    <3>1. gr \in Seq(Frames) /\ Walked(gr, V, U \ {t.prev})
      <4> HIDE DEF gr, t
      <4> QED BY <2>2
    <3>2. Child(t.v, t.prev) /\ Enter(t.prev, t.depth + 1, gr)
      <4> HIDE DEF gr, t
      <4> QED BY <1>3, <1>4, <2>1, <2>3, UnitAssumption
    <3> HIDE DEF gr, t
    <3> QED BY <1>3, <1>4, <2>3, <3>1, <3>2
  <2>4. CASE ~(IsBlock(f) /\ t.prev \in U)
    <3>1. gr \in Seq(Frames) /\ Walked(gr, V, U)
      BY <2>2, <2>4
    <3>2. frames' = gr /\ UNCHANGED <<color, log, accs>>
      BY <2>1, <2>4 DEF Keep
    <3> HIDE DEF gr
    <3> QED BY <3>1, <3>2
  <2> QED BY <2>3, <2>4
<1>7. CASE WalkLast
  <2>1. /\ t.i > Wosize(t.v)
        /\ IF t.prev \in U THEN Enter(t.prev, t.depth + 1, low) ELSE Keep(low)
    BY <1>5, <1>7 DEF WalkLast, Top, Below
  <2>2. ASSUME NEW W \in SUBSET U, t.prev \notin W
        PROVE  low \in Seq(Frames) /\ Walked(low, V, W)
    <3>1. Walked(st, V, W)
      BY WalkedLess
    <3> QED BY <1>1, <2>1, <2>2, <3>1, WalkedLast
  <2>3. CASE t.prev \in U
    <3>1. low \in Seq(Frames) /\ Walked(low, V, U \ {t.prev})
      BY <2>2
    <3> HIDE DEF low, t
    <3> QED BY <1>3, <1>4, <2>1, <2>3, <3>1, UnitAssumption
  <2>4. CASE t.prev \notin U
    <3>1. low \in Seq(Frames) /\ Walked(low, V, U)
      BY <2>2, <2>4
    <3>2. frames' = low /\ UNCHANGED <<color, log, accs>>
      BY <2>1, <2>4 DEF Keep
    <3> HIDE DEF low
    <3> QED BY <3>1, <3>2
  <2> QED BY <2>3, <2>4
<1> QED BY <1>6, <1>7
-----------------------------------------------------------------------------
(* The steps *)

THEOREM InvInit == ObjInit => Inv
<1> SUFFICES ASSUME ObjInit PROVE Inv
  OBVIOUS
<1>1. \A n \in Node : color[n] \in LiveColors
  BY DEF ObjInit, Init
<1>2. Blues = {}
  BY <1>1, ColorAssumption DEF Blues, Blue
<1>3. todo \in Seq(Node) /\ frames \in Seq(Frames)
  BY EmptySeq DEF ObjInit
<1>4. Typed
  BY <1>3 DEF ObjInit, Init, Typed, InCall
<1> QED BY <1>2, <1>4 DEF ObjInit, Inv, Excluding, Marking, Unexcluding, Restoring

\* A call finds no block blue.
LEMMA CallStep ==
    ASSUME Inv, NEW start \in Node \union {Val_unit}, NEW exclude \in Lists, NEW reach \in Lists,
           Call(start, exclude, reach)
    PROVE  Inv'
<1> USE DEF Call
<1>1. Typed'
  <2>1. LogOK(log')
    BY InitKeeps
  <2>2. call' \in [start : Node \union {Val_unit}, exclude : Lists, reach : Lists]
    OBVIOUS
  <2>3. todo' \in Seq(Node)
    BY HeapAssumption
  <2>4. Frames' = Frames
    BY DEF Frames
  <2> QED BY <2>1, <2>2, <2>3, <2>4 DEF Inv, Typed, InCall
<1>2. Blues' = {} /\ E' = Elements(exclude) /\ todo' = exclude
  BY DEF Inv, Blues, Blue, E
<1>3. Excluding'
  <2>1. Elements(todo)' = Elements(exclude)
    BY <1>2 DEF Elements
  <2> QED BY <1>2, <2>1 DEF Excluding
<1> QED BY <1>1, <1>3 DEF Inv, Marking, Unexcluding, Restoring

\* The types do not depend on how far the call is.
LEMMA TypedStep ==
    ASSUME Typed, UNCHANGED <<heap, call>>,
           color' = [n \in Node |-> color'[n]],
           pc \in {"exclude", "start", "mark", "unexclude", "found", "restore", "free"},
           pc' \in {"exclude", "start", "mark", "unexclude", "found", "restore", "free"},
           LogOK(log'), todo' \in Seq(Node), frames' \in Seq(Frames),
           pc' \notin {"mark", "restore"} => frames' = << >>
    PROVE  Typed' /\ E' = E /\ M' = M
<1>1. Frames' = Frames
  BY DEF Frames
<1>2. Typed'
  BY <1>1 DEF Typed, InCall
<1>3. E' = E
  BY DEF E, Elements
<1>4. M' = M
  BY <1>3 DEF M, Measured, Closed, Follows
<1> QED BY <1>2, <1>3, <1>4

LEMMA ExcludeSteps ==
    ASSUME Inv, ExcludeNext \/ ExcludeEnd PROVE Inv'
<1>1. CASE ExcludeNext
  <2> USE <1>1 DEF ExcludeNext, At
  <2> DEFINE h == Head(todo)
  <2>1. Typed /\ pc = "exclude" /\ Blues \union Elements(todo) = E
    BY DEF Inv, Excluding
  <2>2. /\ h \in Node /\ Tail(todo) \in Seq(Node)
        /\ Elements(todo) = {h} \union Elements(Tail(todo))
    BY <2>1, HeadAndTail DEF Typed
  <2>3. /\ LogOK(log') /\ color' = [n \in Node |-> color'[n]]
        /\ Blues' = Blues \union {h}
    <3>1. CASE Blue(h)
      BY <2>1, <2>2, <3>1 DEF Typed, InCall, Blues, Blue
    <3>2. CASE ~Blue(h)
      <4>1. log' = writecolor(log, color[h]) /\ color' = [color EXCEPT ![h] = Col_blue]
        BY <3>2
      <4>2. LogOK(log')
        BY <2>1, <3>2, <4>1, WriteKeeps DEF Typed, InCall, Blue
      <4> QED BY <2>1, <2>2, <4>1, <4>2, OneColor DEF Typed
    <3> QED BY <3>1, <3>2
  <2>4. Typed' /\ E' = E
    BY <2>1, <2>2, <2>3, TypedStep DEF Typed
  <2>5. Elements(todo)' = Elements(Tail(todo))
    BY DEF Elements
  <2>6. Excluding'
    BY <2>1, <2>2, <2>3, <2>4, <2>5 DEF Excluding
  <2> QED BY <2>4, <2>6 DEF Inv, Marking, Unexcluding, Restoring
<1>2. CASE ExcludeEnd
  <2> USE <1>2 DEF ExcludeEnd, At
  <2>1. Typed /\ pc = "exclude" /\ Blues \union Elements(todo) = E
    BY DEF Inv, Excluding
  <2>2. Typed' /\ E' = E
    BY <2>1, TypedStep DEF Typed, InCall
  <2>3. Elements(todo) = {}
    BY DEF Elements
  <2>4. Blues' = E' /\ acc_hdrs' = 0
    BY <2>1, <2>2, <2>3 DEF Blues, Blue
  <2> QED BY <2>2, <2>4 DEF Inv, Excluding, Marking, Unexcluding, Restoring
<1> QED BY <1>1, <1>2

\* c_rec_objsize enters a block that is reached and not marked yet.
LEMMA MarkEnter ==
    ASSUME Typed, NEW V, V = Blues \ E, E \subseteq Blues, V \subseteq M,
           IsFiniteSet(V), acc_hdrs = Cardinality(V),
           NEW p \in Node, p \notin Blues, p \in M,
           NEW d \in Nat, NEW fr \in Seq(Frames), c_rec_objsize(p, d, fr),
           NEW U, U = Node \ (Blues \union {p}), Walked(fr, V, U),
           call.start \in Node => call.start \in Blues \union {p},
           UNCHANGED <<heap, call>>, todo' \in Seq(Node), pc \in {"start", "mark"}, pc' = "mark"
    PROVE  Inv'
<1> USE DEF c_rec_objsize
<1>1. LogOK(log) /\ color = [n \in Node |-> color[n]] /\ heap \in Heaps
  BY DEF Typed, InCall
<1>2. LogOK(log')
  BY <1>1, WriteKeeps DEF Blues, Blue
<1>3. color' = [n \in Node |-> color'[n]] /\ Blues' = Blues \union {p}
  BY <1>1, OneColor
<1>4. frames' \in Seq(Frames) /\ Walked(frames', V \union {p}, U)
  <2>1. frames' = IF p \in heap.noscan THEN fr ELSE Append(fr, Frame(p, d))
    OBVIOUS
  <2> HIDE DEF c_rec_objsize
  <2> QED BY <1>1, <2>1, Enters
<1>5. Typed' /\ E' = E /\ M' = M
  BY <1>2, <1>3, <1>4, TypedStep
<1>6. (Blues \ E)' = V \union {p}
  BY <1>3, <1>5
<1>7. IsFiniteSet(V \union {p}) /\ Cardinality(V \union {p}) = Cardinality(V) + 1
  BY FS_AddElement
<1>8. Walked(frames, Blues \ E, Node \ Blues)'
  <2> PICK W : W = V \union {p}
    OBVIOUS
  <2>1. Walked(frames', W, U)
    BY <1>4
  <2>2. Walked(frames, W, U)'
    <3> HIDE DEF c_rec_objsize
    <3>1. heap' = heap
      OBVIOUS
    <3> QED BY <2>1, <3>1 DEF Walked, Waits, Child, Field, Wosize
  <2>3. W = (Blues \ E)' /\ U = (Node \ Blues)'
    BY <1>3, <1>6
  <2> QED BY <2>2, <2>3
<1>9. (call.start \in Node => call.start \in Blues)'
  BY <1>3
<1>10. Marking'
  BY <1>3, <1>4, <1>5, <1>6, <1>7, <1>8, <1>9 DEF Marking
<1> QED BY <1>5, <1>10 DEF Inv, Excluding, Unexcluding, Restoring

\* restore_colors takes a block that is still blue back.
LEMMA RestoreEnter ==
    ASSUME Typed, NEW V, V = M \ Blues, Blues \subseteq M, NEW p \in Blues,
           NEW d \in Nat, NEW fr \in Seq(Frames), restore_colors(p, d, fr),
           NEW U, U = Blues \ {p}, Walked(fr, V, U),
           call.start \notin Blues \ {p},
           UNCHANGED <<heap, call>>, todo' \in Seq(Node), pc \in {"found", "restore"}, pc' = "restore"
    PROVE  Inv'
<1>1. LogOK(log) /\ color = [n \in Node |-> color[n]] /\ heap \in Heaps /\ p \in Node
  BY DEF Typed, InCall, Blues
<1>2. LogOK(log')
  BY <1>1, ReadKeeps DEF restore_colors, Restore
<1>3. color' = [n \in Node |-> color'[n]] /\ Blues' = Blues \ {p}
  <2>1. color' = [color EXCEPT ![p] = log'.prev_color]
    BY DEF restore_colors, Restore
  <2>2. log'.prev_color # Col_blue
    BY <1>2 DEF LogOK
  <2> QED BY <1>1, <2>1, <2>2, OneColor
<1>4. frames' \in Seq(Frames) /\ Walked(frames', V \union {p}, U)
  <2>1. restore_colors(p, d, fr) =>
          frames' = IF p \in heap.noscan THEN fr ELSE Append(fr, Frame(p, 0))
    BY DEF restore_colors
  <2>2. 0 \in Nat
    OBVIOUS
  <2> QED BY <1>1, <2>1, <2>2, Enters
<1>5. Typed' /\ E' = E /\ M' = M
  BY <1>2, <1>3, <1>4, TypedStep
<1>6. (M \ Blues)' = V \union {p} /\ Blues' = U
  BY <1>3, <1>5
<1>7. Walked(frames, M \ Blues, Blues)'
  <2> PICK W : W = V \union {p}
    OBVIOUS
  <2>1. Walked(frames', W, U)
    BY <1>4
  <2>2. Walked(frames, W, U)'
    BY <2>1 DEF Walked, Waits, Child, Field, Wosize
  <2>3. W = (M \ Blues)' /\ U = Blues'
    BY <1>6
  <2> QED BY <2>2, <2>3
<1>8. Restoring'
  BY <1>3, <1>4, <1>5, <1>6, <1>7 DEF Restoring
<1> QED BY <1>5, <1>8 DEF Inv, Excluding, Marking, Unexcluding

\* A walk goes on without entering a block.
LEMMA WalkGoesOn ==
    ASSUME Inv, UNCHANGED <<heap, call, pc, todo, color, log, accs>>, pc \in {"mark", "restore"},
           frames' \in Seq(Frames),
           pc = "mark" => Walked(frames', Blues \ E, Node \ Blues),
           pc = "restore" => Walked(frames', M \ Blues, Blues)
    PROVE  Inv'
<1>1. LogOK(log) /\ color = [n \in Node |-> color[n]] /\ todo \in Seq(Node) /\ Typed
  BY DEF Inv, Typed, InCall
<1>2. Typed' /\ E' = E /\ M' = M /\ Blues' = Blues
  <2>1. Blues' = Blues
    BY DEF Blues, Blue
  <2> QED BY <1>1, <2>1, TypedStep
<1>3. \A V, U : Walked(frames', V, U) => Walked(frames, V, U)'
  BY DEF Walked, Waits, Child, Field, Wosize
<1>4. Marking'
  <2> SUFFICES ASSUME pc = "mark" PROVE Marking'
    BY DEF Marking
  <2> PICK V, U : V = Blues \ E /\ U = Node \ Blues
    OBVIOUS
  <2>1. Walked(frames, V, U)'
    BY <1>3
  <2>2. Marking
    BY DEF Inv
  <2> QED BY <1>2, <2>1, <2>2 DEF Marking, accs
<1>5. Restoring'
  <2> SUFFICES ASSUME pc = "restore" PROVE Restoring'
    BY DEF Restoring
  <2> PICK V, U : V = M \ Blues /\ U = Blues
    OBVIOUS
  <2>1. Walked(frames, V, U)'
    BY <1>3
  <2>2. Restoring
    BY DEF Inv
  <2> QED BY <1>2, <2>1, <2>2 DEF Restoring
<1> QED BY <1>2, <1>4, <1>5 DEF Inv, Excluding, Unexcluding

\* The first walk starts where only the excluded blocks are marked.
LEMMA MarkStartStep ==
    ASSUME Inv, MarkStart PROVE Inv'
<1>1. /\ Typed /\ pc = "start" /\ Blues = E /\ acc_hdrs = 0 /\ heap \in Heaps /\ todo \in Seq(Node)
      /\ UNCHANGED <<heap, call, todo>> /\ pc' = "mark" /\ << >> \in Seq(Frames)
  BY EmptySeq DEF Inv, Typed, MarkStart, At
<1>2. CASE IsBlock(call.start) /\ NotVisited(call.start)
  <2> PICK p, V, U : p = call.start /\ V = Blues \ E /\ U = Node \ (Blues \union {p})
    OBVIOUS
  <2>1. c_rec_objsize(p, 0, << >>) /\ p \in Node /\ p \notin Blues
    BY <1>2 DEF MarkStart, IsBlock, NotVisited, Blues
  <2>2. p \in M
    BY <1>1, <2>1, MeasuredIs DEF M
  <2>3. V = {} /\ IsFiniteSet(V) /\ acc_hdrs = Cardinality(V)
    BY <1>1, FS_EmptySet
  <2>4. Walked(<< >>, V, U)
    BY <2>3 DEF Walked
  <2>5. 0 \in Nat
    OBVIOUS
  <2> QED BY <1>1, <2>1, <2>2, <2>3, <2>4, <2>5, MarkEnter
<1>3. CASE ~(IsBlock(call.start) /\ NotVisited(call.start))
  <2>1. frames' = << >> /\ UNCHANGED <<color, log, accs>>
    BY <1>3 DEF MarkStart, Keep
  <2>2. Typed' /\ E' = E /\ Blues' = Blues
    BY <1>1, <2>1, TypedStep DEF Typed, InCall, Blues, Blue
  <2>3. call.start \in Node => call.start \in Blues
    BY <1>3 DEF IsBlock, NotVisited, Blues
  <2>4. IsFiniteSet((Blues \ E)') /\ acc_hdrs' = Cardinality((Blues \ E)') /\ (Blues \ E)' = {}
    BY <1>1, <2>1, <2>2, FS_EmptySet DEF accs
  <2>5. Walked(frames, Blues \ E, Node \ Blues)'
    BY <2>1, <2>4 DEF Walked
  <2>6. Marking'
    BY <1>1, <2>2, <2>3, <2>4, <2>5 DEF Marking
  <2> QED BY <1>1, <2>2, <2>6 DEF Inv, Excluding, Unexcluding, Restoring
<1> QED BY <1>2, <1>3

\* The first walk goes on.
LEMMA MarkStep ==
    ASSUME Inv, MarkField \/ MarkLast PROVE Inv'
<1>1. /\ pc = "mark" /\ At("mark") /\ (WalkField \/ WalkLast)
      /\ UNCHANGED <<heap, call, pc, todo>>
  BY DEF MarkField, MarkLast, At
<1>2. /\ Typed /\ Marking /\ heap \in Heaps /\ frames \in Seq(Frames) /\ todo \in Seq(Node)
  BY DEF Inv, Typed
<1> PICK V, U : V = Blues \ E /\ U = Node \ Blues
  OBVIOUS
<1>3. /\ U \in SUBSET Node /\ Walked(frames, V, U)
      /\ E \subseteq Blues /\ V \subseteq M /\ IsFiniteSet(V) /\ acc_hdrs = Cardinality(V)
      /\ call.start \in Node => call.start \in Blues
  BY <1>1, <1>2 DEF Marking
<1>4. \A n \in Node : Visit(n) <=> n \in U
  BY <1>1 DEF Visit, NotVisited, Blues
<1>5. CASE UNCHANGED <<color, log, accs>> /\ frames' \in Seq(Frames) /\ Walked(frames', V, U)
  BY <1>1, <1>5, WalkGoesOn
<1>6. ASSUME NEW p \in U, NEW n \in V \ heap.noscan, NEW d \in Nat, NEW fr \in Seq(Frames),
             Child(n, p), Walked(fr, V, U \ {p}), Enter(p, d, fr)
      PROVE  Inv'
  <2>1. c_rec_objsize(p, d, fr)
    BY <1>1, <1>6 DEF Enter
  <2>2. p \in Node /\ p \notin Blues /\ p \in Node \ E /\ n \in M \ heap.noscan
    BY <1>3
  <2>3. p \in M
    BY <1>2, <1>6, <2>2, MeasuredIs DEF M
  <2> PICK W : W = U \ {p}
    OBVIOUS
  <2>4. W = Node \ (Blues \union {p}) /\ Walked(fr, V, W)
    BY <1>6
  <2>5. /\ call.start \in Node => call.start \in Blues \union {p}
        /\ UNCHANGED <<heap, call>> /\ todo' \in Seq(Node) /\ pc \in {"start", "mark"} /\ pc' = "mark"
    BY <1>1, <1>2, <1>3
  <2> QED BY <1>2, <1>3, <2>1, <2>2, <2>3, <2>4, <2>5, MarkEnter
<1>7. QED
  BY <1>1, <1>2, <1>3, <1>4, <1>5, <1>6, WalkStep

\* A walk that is over has entered a closed set.
LEMMA WalkOver ==
    ASSUME heap \in Heaps, NEW V \in SUBSET Node, NEW U, Walked(<< >>, V, U)
    PROVE  \A n \in V \ heap.noscan : \A f \in Node : Child(n, f) => f \notin U
<1>1. \A n, f : ~Waits(<< >>, n, f)
  BY DEF Waits
<1> QED BY <1>1 DEF Walked, Child

\* The first walk is over.
LEMMA MarkEndStep ==
    ASSUME Inv, MarkEnd PROVE Inv'
<1> USE DEF MarkEnd, At
<1>1. /\ Typed /\ Marking /\ heap \in Heaps
      /\ call \in [start : Node \union {Val_unit}, exclude : Lists, reach : Lists] /\ LogOK(log)
      /\ color = [n \in Node |-> color[n]]
  BY DEF Inv, Typed, InCall
<1>2. call.exclude \in Seq(Node) /\ Len(call.exclude) \in Nat
  BY <1>1, HeapAssumption, LenProperties
<1> PICK V, U : V = Blues \ E /\ U = Node \ Blues
  OBVIOUS
<1>3. /\ Walked(<< >>, V, U) /\ E \subseteq Blues /\ V \subseteq M /\ acc_hdrs = Cardinality(V)
      /\ call.start \in Node => call.start \in Blues
  BY <1>1 DEF Marking
<1>4. M \subseteq V
  <2>1. V \in SUBSET Node
    BY DEF Blues
  <2>2. \A n \in V \ heap.noscan : \A f \in Node \ E : Child(n, f) => f \in V
    BY <1>1, <1>3, <2>1, WalkOver
  <2>3. call.start \in Node \ E => call.start \in V
    BY <1>3
  <2> QED BY <1>1, <2>1, <2>2, <2>3, MeasuredIs DEF M
<1>5. Typed' /\ E' = E /\ M' = M /\ Blues' = Blues
  <2>1. LogOK(log')
    BY <1>1, FlushKeeps
  <2>2. frames' = << >> /\ frames' \in Seq(Frames) /\ todo' \in Seq(Node)
    BY <1>1, <1>2 DEF Typed
  <2>3. Typed' /\ E' = E /\ M' = M
    BY <1>1, <2>1, <2>2, TypedStep
  <2> QED BY <2>3 DEF Blues, Blue
<1>6. Elements(todo)' = E /\ Blues = E \union M /\ acc_hdrs = Cardinality(M)
  BY <1>3, <1>4 DEF E, Elements
<1>7. Unexcluding'
  BY <1>2, <1>5, <1>6 DEF Unexcluding, accs
<1> QED BY <1>5, <1>7 DEF Inv, Excluding, Marking, Restoring

\* The excluded blocks get their colours back, and then only measured ones are blue.
LEMMA UnexcludeSteps ==
    ASSUME Inv, UnexcludeNext \/ Reach PROVE Inv'
<1>1. /\ Typed /\ pc = "unexclude" /\ Unexcluding /\ heap \in Heaps /\ todo \in Seq(Node)
      /\ call \in [start : Node \union {Val_unit}, exclude : Lists, reach : Lists] /\ LogOK(log)
      /\ color = [n \in Node |-> color[n]] /\ frames = << >> /\ frames \in Seq(Frames)
  BY DEF Inv, Typed, InCall, UnexcludeNext, Reach, At
<1>2. /\ M \subseteq Blues /\ Blues \subseteq M \union Elements(todo) /\ Elements(todo) \subseteq E
      /\ Len(todo) <= Len(call.exclude) /\ acc_hdrs = Cardinality(M)
  BY <1>1 DEF Unexcluding
<1>3. M \subseteq Node \ E
  BY <1>1, MeasuredIs DEF M
<1>4. CASE UnexcludeNext
  <2> USE <1>4 DEF UnexcludeNext, At
  <2> DEFINE h == Head(todo)
  <2>1. /\ h \in Node /\ Tail(todo) \in Seq(Node) /\ Len(Tail(todo)) + 1 = Len(todo)
        /\ Len(todo) \in Nat /\ Len(Tail(todo)) \in Nat
        /\ Elements(todo) = {h} \union Elements(Tail(todo))
    BY <1>1, HeadAndTail
  <2>2. LogOK(log') /\ color' = [n \in Node |-> color'[n]] /\ Blues' = Blues \ {h}
    <3>1. CASE Blue(h)
      <4>1. log' = readcolor(log) /\ color' = [color EXCEPT ![h] = log'.prev_color]
        BY <3>1 DEF Restore
      <4>2. LogOK(log') /\ log'.prev_color # Col_blue
        BY <1>1, <4>1, ReadKeeps DEF LogOK
      <4> QED BY <1>1, <2>1, <4>1, <4>2, OneColor
    <3>2. CASE ~Blue(h)
      BY <1>1, <3>2 DEF Blues, Blue
    <3> QED BY <3>1, <3>2
  <2>3. Typed' /\ E' = E /\ M' = M
    BY <1>1, <2>1, <2>2, TypedStep
  <2>4. Elements(todo)' = Elements(Tail(todo))
    BY DEF Elements
  <2>5. /\ M \subseteq Blues \ {h} /\ Blues \ {h} \subseteq M \union Elements(Tail(todo))
        /\ Elements(Tail(todo)) \subseteq E
    BY <1>2, <1>3, <2>1
  <2>6. call.exclude \in Seq(Node) /\ Len(call.exclude) \in Nat
    BY <1>1, HeapAssumption, LenProperties
  <2>7. Len(Tail(todo)) <= Len(call.exclude) /\ Tail(todo) # call.exclude
    BY <1>2, <2>1, <2>6
  <2>8. Unexcluding'
    BY <1>2, <2>2, <2>3, <2>4, <2>5, <2>7 DEF Unexcluding, accs
  <2> QED BY <2>3, <2>8 DEF Inv, Excluding, Marking, Restoring
<1>5. CASE Reach
  <2> USE <1>5 DEF Reach, At
  <2>1. Typed' /\ M' = M /\ Blues' = Blues
    <3>1. Typed' /\ M' = M
      BY <1>1, TypedStep
    <3> QED BY <3>1 DEF Blues, Blue
  <2>2. Elements(todo) = {}
    BY DEF Elements
  <2>3. Blues = M
    BY <1>2, <2>2
  <2> QED BY <2>1, <2>3 DEF Inv, Excluding, Marking, Unexcluding, Restoring
<1> QED BY <1>4, <1>5

\* The second walk starts where the first did, if the value is a measured block.
LEMMA RestoreStartStep ==
    ASSUME Inv, RestoreStart PROVE Inv'
<1>1. /\ Typed /\ pc = "found" /\ Blues = M /\ heap \in Heaps /\ todo \in Seq(Node)
      /\ UNCHANGED <<heap, call, todo>> /\ pc' = "restore" /\ << >> \in Seq(Frames)
      /\ color = [n \in Node |-> color[n]] /\ LogOK(log)
  BY EmptySeq DEF Inv, Typed, InCall, RestoreStart, At
<1>2. CASE IsBlock(call.start) /\ Blue(call.start)
  <2> PICK p, V, U : p = call.start /\ V = M \ Blues /\ U = Blues \ {p}
    OBVIOUS
  <2>1. restore_colors(p, 0, << >>) /\ p \in Blues
    BY <1>2 DEF RestoreStart, IsBlock, Blues
  <2>2. Walked(<< >>, V, U)
    <3>1. V = {}
      BY <1>1
    <3> QED BY <3>1 DEF Walked
  <2>3. 0 \in Nat /\ call.start \notin Blues \ {p} /\ Blues \subseteq M
    BY <1>1
  <2> QED BY <1>1, <2>1, <2>2, <2>3, RestoreEnter
<1>3. CASE ~(IsBlock(call.start) /\ Blue(call.start))
  <2>1. frames' = << >> /\ UNCHANGED <<color, log, accs>>
    BY <1>3 DEF RestoreStart, Keep
  <2>2. Typed' /\ M' = M /\ Blues' = Blues
    <3>1. Typed' /\ M' = M
      BY <1>1, <2>1, TypedStep
    <3> QED BY <2>1, <3>1 DEF Blues, Blue
  <2>3. call.start \notin Blues
    BY <1>3 DEF IsBlock, Blues
  <2>4. Walked(frames, M \ Blues, Blues)'
    <3>1. (M \ Blues)' = {}
      BY <1>1, <2>2
    <3> QED BY <2>1, <3>1 DEF Walked
  <2>5. Restoring'
    BY <1>1, <2>2, <2>3, <2>4 DEF Restoring
  <2> QED BY <1>1, <2>2, <2>5 DEF Inv, Excluding, Marking, Unexcluding
<1> QED BY <1>2, <1>3

\* The second walk goes on.
LEMMA RestoreStep ==
    ASSUME Inv, RestoreField \/ RestoreLast PROVE Inv'
<1>1. /\ pc = "restore" /\ At("restore") /\ ~At("mark") /\ (WalkField \/ WalkLast)
      /\ UNCHANGED <<heap, call, pc, todo>>
  BY DEF RestoreField, RestoreLast, At
<1>2. /\ Typed /\ Restoring /\ heap \in Heaps /\ frames \in Seq(Frames) /\ todo \in Seq(Node)
  BY DEF Inv, Typed
<1> PICK V, U : V = M \ Blues /\ U = Blues
  OBVIOUS
<1>3. /\ U \in SUBSET Node /\ Walked(frames, V, U)
      /\ Blues \subseteq M /\ call.start \notin Blues
  BY <1>1, <1>2 DEF Restoring, Blues
<1>4. \A n \in Node : Visit(n) <=> n \in U
  BY <1>1 DEF Visit, Blues
<1>5. CASE UNCHANGED <<color, log, accs>> /\ frames' \in Seq(Frames) /\ Walked(frames', V, U)
  BY <1>1, <1>5, WalkGoesOn
<1>6. ASSUME NEW p \in U, NEW n \in V \ heap.noscan, NEW d \in Nat, NEW fr \in Seq(Frames),
             Child(n, p), Walked(fr, V, U \ {p}), Enter(p, d, fr)
      PROVE  Inv'
  <2>1. restore_colors(p, d, fr)
    BY <1>1, <1>6 DEF Enter
  <2> PICK W : W = U \ {p}
    OBVIOUS
  <2>2. W = Blues \ {p} /\ Walked(fr, V, W) /\ p \in Blues
    BY <1>6
  <2>3. /\ call.start \notin Blues \ {p}
        /\ UNCHANGED <<heap, call>> /\ todo' \in Seq(Node) /\ pc \in {"found", "restore"}
        /\ pc' = "restore"
    BY <1>1, <1>2, <1>3
  <2> QED BY <1>2, <1>3, <2>1, <2>2, <2>3, RestoreEnter
<1>7. QED
  BY <1>1, <1>2, <1>3, <1>4, <1>5, <1>6, WalkStep

\* The second walk is over: no block is blue any more.
LEMMA RestoreEndStep ==
    ASSUME Inv, RestoreEnd PROVE Inv'
<1> USE DEF RestoreEnd, At
<1>1. /\ Typed /\ Restoring /\ heap \in Heaps /\ LogOK(log)
      /\ color = [n \in Node |-> color[n]] /\ todo \in Seq(Node) /\ << >> \in Seq(Frames)
  BY EmptySeq DEF Inv, Typed, InCall
<1> PICK V, U : V = M \ Blues /\ U = Blues
  OBVIOUS
<1>2. Walked(<< >>, V, U) /\ Blues \subseteq M /\ call.start \notin Blues
  BY <1>1 DEF Restoring
<1>3. M \subseteq V
  <2>1. M \subseteq Node \ E
    BY <1>1, MeasuredIs DEF M
  <2>2. \A n \in M \ heap.noscan : \A f \in Node \ E : Child(n, f) => f \in M
    BY <1>1, MeasuredIs DEF M
  <2>3. \A n \in V \ heap.noscan : \A f \in Node : Child(n, f) => f \notin Blues
    BY <1>1, <1>2, <2>1, WalkOver
  <2>4. \A n \in V \ heap.noscan : \A f \in Node \ E : Child(n, f) => f \in V
    BY <2>2, <2>3
  <2>5. call.start \in Node \ E => call.start \in V
    BY <1>1, <1>2, MeasuredIs DEF M
  <2>6. V \in SUBSET Node
    BY <2>1
  <2> QED BY <1>1, <2>4, <2>5, <2>6, MeasuredIs DEF M
<1>4. Blues = {}
  BY <1>2, <1>3
<1>5. Typed' /\ Blues' = Blues
  <2>1. LogOK(log')
    BY <1>1, FlushKeeps
  <2>2. Typed'
    BY <1>1, <2>1, TypedStep
  <2> QED BY <2>2 DEF Blues, Blue
<1> QED BY <1>4, <1>5 DEF Inv, Excluding, Marking, Unexcluding, Restoring

\* The call returns; the collector runs; nothing happens.
LEMMA OtherSteps ==
    ASSUME Inv, Return \/ CollectorRuns \/ UNCHANGED objvars PROVE Inv'
<1>1. CASE Return
  <2>1. Typed'
    BY <1>1 DEF Inv, Typed, InCall, Return, At, Frames
  <2>2. Blues' = {}
    BY <1>1 DEF Inv, Return, At, Blues, Blue
  <2> QED BY <1>1, <2>1, <2>2 DEF Inv, Return, Excluding, Marking, Unexcluding, Restoring
<1>2. CASE CollectorRuns
  <2>1. color' \in [Node -> LiveColors]
    BY <1>2 DEF CollectorRuns, Collect
  <2>2. Typed'
    <3>1. color' = [n \in Node |-> color'[n]]
      BY <2>1
    <3> QED BY <1>2, <3>1 DEF Inv, Typed, InCall, CollectorRuns, Collect, Frames
  <2>3. Blues' = {}
    BY <2>1, ColorAssumption DEF Blues, Blue
  <2> QED BY <1>2, <2>2, <2>3
          DEF Inv, CollectorRuns, Excluding, Marking, Unexcluding, Restoring
<1>3. CASE UNCHANGED objvars
  <2>1. Frames' = Frames /\ E' = E /\ Blues' = Blues
    BY <1>3 DEF objvars, Frames, E, Elements, Blues, Blue
  <2>2. M' = M
    BY <1>3, <2>1 DEF objvars, M, Measured, Closed, Follows
  <2>3. Typed'
    BY <1>3, <2>1 DEF objvars, Inv, Typed, InCall
  <2>4. Elements(todo)' = Elements(todo)
    BY <1>3 DEF objvars, Elements
  <2>5. \A V, U : Walked(frames, V, U) => Walked(frames, V, U)'
    BY <1>3 DEF objvars, Walked, Waits, Child, Field, Wosize
  <2>6. Marking'
    <3> PICK V, U : V = Blues \ E /\ U = Node \ Blues
      OBVIOUS
    <3>1. Walked(frames, V, U) => Walked(frames, V, U)'
      BY <2>5
    <3> QED BY <1>3, <2>1, <2>2, <3>1 DEF objvars, accs, Inv, Marking
  <2>7. Restoring'
    <3> PICK V, U : V = M \ Blues /\ U = Blues
      OBVIOUS
    <3>1. Walked(frames, V, U) => Walked(frames, V, U)'
      BY <2>5
    <3> QED BY <1>3, <2>1, <2>2, <3>1 DEF objvars, Inv, Restoring
  <2>8. Excluding' /\ Unexcluding'
    BY <1>3, <2>1, <2>2, <2>4 DEF objvars, accs, Inv, Excluding, Unexcluding
  <2> QED BY <1>3, <2>1, <2>2, <2>3, <2>6, <2>7, <2>8 DEF objvars, accs, Inv
<1> QED BY <1>1, <1>2, <1>3

\* Inv is inductive.
THEOREM InvStep == Inv /\ [ObjNext]_objvars => Inv'
<1> SUFFICES ASSUME Inv, [ObjNext]_objvars PROVE Inv'
  OBVIOUS
<1>1. CASE \E start \in Node \union {Val_unit}, exclude, reach \in Lists :
               Call(start, exclude, reach)
  BY <1>1, CallStep
<1>2. CASE Step
  BY <1>2, ExcludeSteps, MarkStartStep, MarkStep, MarkEndStep, UnexcludeSteps,
     RestoreStartStep, RestoreStep, RestoreEndStep, OtherSteps DEF Step
<1>3. CASE CollectorRuns \/ UNCHANGED objvars
  BY <1>3, OtherSteps
<1> QED BY <1>1, <1>2, <1>3 DEF ObjNext

(***************************************************************************)
(* For every heap and every list of excluded blocks: after the first walk  *)
(* (c_rec_objsize) the blocks with the mark are the excluded ones and      *)
(* those that can be reached without going through them, and each of the   *)
(* latter was counted once.                                                *)
(***************************************************************************)
THEOREM MarksExactly == ObjSpec => []MarksTheReachable
<1>1. Inv => MarksTheReachable
  <2> SUFFICES ASSUME Inv, pc = "unexclude", todo = call.exclude
               PROVE  Blues = E \union M /\ acc_hdrs = Cardinality(M)
    BY DEF MarksTheReachable, Blues, E, M
  <2> QED BY DEF Inv, Unexcluding
<1> QED BY <1>1, InvInit, InvStep, PTL DEF ObjSpec

(***************************************************************************)
(* No mark is left behind by a call: between two calls, and once the       *)
(* second walk (restore_colors) is over, no header has the colour that     *)
(* both walks use as the mark.                                             *)
(***************************************************************************)
THEOREM NoMarkIsLeft == ObjSpec => [](pc \in {"idle", "free"} => \A n \in Node : ~Blue(n))
<1>1. Inv => (pc \in {"idle", "free"} => \A n \in Node : ~Blue(n))
  BY DEF Inv, Blues
<1> QED BY <1>1, InvInit, InvStep, PTL DEF ObjSpec
(* Counting *)

\* Induction up to n.
LEMMA CountsUp ==
    ASSUME NEW n \in Nat, NEW P, 0 \in P, \A k \in 0..(n - 1) : k \in P => k + 1 \in P
    PROVE  \A k \in 0..n : k \in P
<1> DEFINE Missing == {k \in 0..n : k \notin P}
           R == OpToRel(<, Nat)
<1>1. SUFFICES ASSUME Missing # {} PROVE FALSE
  BY <1>1
<1>2. IsWellFoundedOn(R, Nat)
  BY NatLessThanWellFounded
<1>3. \A x, y \in Nat : y < x => <<y, x>> \in R
  BY DEF OpToRel
<1>4. Missing \subseteq Nat
  OBVIOUS
<1> HIDE DEF R
<1>5. PICK k \in Missing : \A x \in Missing : ~(<<x, k>> \in R)
  <2> HIDE DEF Missing
  <2> QED BY <1>1, <1>2, <1>4, WFMin
<1>6. k - 1 \in 0..(n - 1)
  BY <1>5
<1>7. k - 1 \notin Missing
  <2>1. k \in Nat /\ k - 1 \in Nat /\ k - 1 < k
    BY <1>4, <1>5, <1>6
  <2>2. <<k - 1, k>> \in R
    BY <1>3, <2>1
  <2> QED BY <1>5, <2>2
<1>8. k - 1 \in P
  BY <1>6, <1>7
<1>9. (k - 1) + 1 \in P
  BY <1>6, <1>8
<1> QED BY <1>5, <1>9
\* Every natural number.
LEMMA CountsOn ==
    ASSUME NEW P, 0 \in P, \A k \in Nat : k \in P => k + 1 \in P
    PROVE  \A k \in Nat : k \in P
<1> SUFFICES ASSUME NEW n \in Nat PROVE n \in P
  OBVIOUS
<1>1. \A k \in 0 .. (n - 1) : k \in P => k + 1 \in P
  OBVIOUS
<1>2. n \in 0 .. n
  OBVIOUS
<1> QED BY <1>1, <1>2, CountsUp

\* The first number of a set at or after k.
First(S, k, j) == j \in S /\ j >= k /\ \A i \in S : i >= k => j <= i

LEMMA FirstIs ==
    ASSUME NEW S \in SUBSET Nat, NEW k \in Nat, \E j \in S : j >= k
    PROVE  \E j \in Nat : First(S, k, j)
<1> DEFINE From == {j \in S : j >= k}
           R == OpToRel(<, Nat)
<1>1. From # {} /\ From \subseteq Nat
  OBVIOUS
<1>2. IsWellFoundedOn(R, Nat)
  BY NatLessThanWellFounded
<1>3. \A x, y \in Nat : y < x => <<y, x>> \in R
  BY DEF OpToRel
<1> HIDE DEF R
<1>4. PICK j \in From : \A x \in From : ~(<<x, j>> \in R)
  <2> HIDE DEF From
  <2> QED BY <1>1, <1>2, WFMin
<1>5. \A i \in From : j <= i
  <2> SUFFICES ASSUME NEW i \in From PROVE j <= i
    OBVIOUS
  <2>1. i \in Nat /\ j \in Nat /\ ~(i < j)
    BY <1>1, <1>3, <1>4
  <2> QED BY <2>1
<1> QED BY <1>1, <1>5 DEF First

\* A function that looks for the first number out of C by recursion exists.
LEMMA Climbs ==
    ASSUME NEW C, \A k \in Nat : \E j \in Nat \ C : j >= k
    PROVE  \E f \in [Nat -> Nat] : \A k \in Nat : f[k] = IF k \in C THEN f[k + 1] ELSE k
<1> DEFINE S == Nat \ C
           f == [k \in Nat |-> CHOOSE j : j \in Nat /\ First(S, k, j)]
<1>1. \A k \in Nat : f[k] \in Nat /\ First(S, k, f[k])
  <2> SUFFICES ASSUME NEW k \in Nat PROVE f[k] \in Nat /\ First(S, k, f[k])
    OBVIOUS
  <2>1. \E j : j \in Nat /\ First(S, k, j)
    <3> HIDE DEF S
    <3>1. S \in SUBSET Nat /\ \E j \in S : j >= k
      BY DEF S
    <3> QED BY <3>1, FirstIs
  <2> QED BY <2>1
<1> HIDE DEF f
<1>2. ASSUME NEW k \in Nat PROVE f[k] = IF k \in C THEN f[k + 1] ELSE k
  <2>1. k + 1 \in Nat /\ First(S, k, f[k]) /\ First(S, k + 1, f[k + 1])
        /\ f[k] \in Nat /\ f[k + 1] \in Nat
    BY <1>1
  <2>2. CASE k \in C
    <3>1. \A i \in S : i >= k => i >= k + 1
      BY <2>2
    <3>2. f[k] \in S /\ f[k] >= k + 1 /\ f[k + 1] \in S /\ f[k + 1] >= k
      BY <2>1, <3>1 DEF First
    <3>3. f[k] <= f[k + 1] /\ f[k + 1] <= f[k]
      BY <2>1, <3>2 DEF First
    <3> QED BY <2>1, <2>2, <3>3
  <2>3. CASE k \notin C
    <3>1. k \in S /\ k >= k
      BY <2>3
    <3>2. f[k] <= k /\ f[k] >= k
      BY <2>1, <3>1 DEF First
    <3> QED BY <2>1, <2>3, <3>2
  <2> QED BY <2>2, <2>3
<1>3. f \in [Nat -> Nat]
  BY <1>1 DEF f
<1> QED BY <1>2, <1>3

\* From the last number down to the first.
LEMMA CountsDown ==
    ASSUME NEW n \in Nat, NEW P, n \in P, \A k \in 0 .. (n - 1) : k + 1 \in P => k \in P
    PROVE  \A k \in 0 .. n : k \in P
<1> DEFINE Q == {k \in 0 .. n : n - k \in P}
<1>1. 0 \in Q
  OBVIOUS
<1>2. ASSUME NEW k \in 0 .. (n - 1), k \in Q PROVE k + 1 \in Q
  <2>1. n - (k + 1) \in 0 .. (n - 1) /\ (n - (k + 1)) + 1 = n - k /\ k + 1 \in 0 .. n
    OBVIOUS
  <2>2. (n - (k + 1)) + 1 \in P
    BY <1>2, <2>1
  <2> QED BY <2>1, <2>2
<1> HIDE DEF Q
<1>3. \A k \in 0 .. n : k \in Q
  BY <1>1, <1>2, CountsUp
<1>4. ASSUME NEW k \in 0 .. n PROVE k \in P
  <2>1. n - k \in 0 .. n /\ n - (n - k) = k
    OBVIOUS
  <2> QED BY <1>3, <2>1 DEF Q
<1> QED BY <1>4
-----------------------------------------------------------------------------
(* Powers of two *)

\* The recursion of Shift has a solution.
LEMMA ShiftExists ==
    \E f : f = [k \in Nat |-> IF k = 0 THEN 1 ELSE 2 * f[k - 1]]
<1> DEFINE Up(n, g) == /\ g \in [0 .. n -> Nat] /\ g[0] = 1
                       /\ \A k \in 1 .. n : g[k] = 2 * g[k - 1]
           P == {n \in Nat : \E g : Up(n, g)}
<1>1. 0 \in P
  <2>1. Up(0, [k \in 0 .. 0 |-> 1])
    OBVIOUS
  <2> HIDE DEF Up
  <2> QED BY <2>1
<1>2. ASSUME NEW n \in Nat, n \in P PROVE n + 1 \in P
  <2>1. PICK g : Up(n, g)
    BY <1>2
  <2> DEFINE h == [k \in 0 .. (n + 1) |-> IF k = n + 1 THEN 2 * g[n] ELSE g[k]]
  <2>2. \A k \in 0 .. n : k # n + 1 /\ k \in 0 .. (n + 1)
    OBVIOUS
  <2>3. \A k \in 0 .. n : h[k] = g[k]
    BY <2>2
  <2>4. n + 1 \in 0 .. (n + 1) /\ n \in 0 .. n /\ 0 \in 0 .. n /\ (n + 1) - 1 = n
    OBVIOUS
  <2>5. h[n + 1] = 2 * g[n] /\ g[n] \in Nat
    BY <2>1, <2>4
  <2>6. h \in [0 .. (n + 1) -> Nat]
    BY <2>1, <2>2, <2>5
  <2> HIDE DEF h
  <2>7. \A k \in 1 .. (n + 1) : k = n + 1 \/ (k \in 1 .. n /\ k \in 0 .. n /\ k - 1 \in 0 .. n)
    OBVIOUS
  <2>8. \A k \in 1 .. (n + 1) : h[k] = 2 * h[k - 1]
    BY <2>1, <2>3, <2>4, <2>5, <2>7
  <2>9. Up(n + 1, h)
    BY <2>1, <2>3, <2>4, <2>6, <2>8
  <2> HIDE DEF Up
  <2> QED BY <2>9
<1>3. \A n \in Nat : \E g : Up(n, g)
  <2> HIDE DEF Up
  <2> SUFFICES \A n \in Nat : n \in P
    OBVIOUS
  <2> HIDE DEF P
  <2>1. 0 \in P
    BY <1>1
  <2> QED BY <1>2, <2>1, CountsOn
<1>4. ASSUME NEW n \in Nat, NEW m \in Nat, n <= m, NEW g, NEW h, Up(n, g), Up(m, h)
      PROVE  g[n] = h[n]
  <2> DEFINE Q == {k \in 0 .. n : g[k] = h[k]}
  <2>1. 0 \in Q
    BY <1>4
  <2>2. ASSUME NEW k \in 0 .. (n - 1), k \in Q PROVE k + 1 \in Q
    <3>1. k + 1 \in 1 .. n /\ k + 1 \in 1 .. m /\ k + 1 \in 0 .. n /\ (k + 1) - 1 = k
      BY <1>4
    <3>2. g[k + 1] = 2 * g[k] /\ h[k + 1] = 2 * h[k]
      BY <1>4, <3>1
    <3> QED BY <2>2, <3>1, <3>2
  <2> HIDE DEF Q
  <2>3. n \in Q
    <3>1. n \in 0 .. n
      OBVIOUS
    <3> QED BY <2>1, <2>2, <3>1, CountsUp
  <2> QED BY <2>3 DEF Q
<1> DEFINE G == [n \in Nat |-> CHOOSE g : Up(n, g)]
           f == [n \in Nat |-> G[n][n]]
<1>5. \A n \in Nat : Up(n, G[n])
  <2> HIDE DEF Up
  <2> QED BY <1>3
<1> HIDE DEF G
<1>6. f[0] = 1
  BY <1>5
<1>7. ASSUME NEW k \in Nat \ {0} PROVE f[k] = 2 * f[k - 1]
  <2>1. k - 1 \in Nat /\ k - 1 <= k /\ k \in 1 .. k
    OBVIOUS
  <2>2. G[k][k] = 2 * G[k][k - 1]
    BY <1>5, <2>1
  <2>3. G[k - 1][k - 1] = G[k][k - 1]
    <3> HIDE DEF Up
    <3> QED BY <1>4, <1>5, <2>1
  <2> QED BY <2>1, <2>2, <2>3
<1>8. f = [k \in Nat |-> IF k = 0 THEN 1 ELSE 2 * f[k - 1]]
  <2> DEFINE e == [k \in Nat |-> IF k = 0 THEN 1 ELSE 2 * f[k - 1]]
  <2>1. \A k \in Nat : f[k] = e[k]
    <3> HIDE DEF f
    <3> QED BY <1>6, <1>7
  <2>2. f = [k \in Nat |-> f[k]] /\ e = [k \in Nat |-> e[k]]
    OBVIOUS
  <2> HIDE DEF f, e
  <2>3. f = e
    BY <2>1, <2>2
  <2> QED BY <2>3 DEF e
<1> HIDE DEF f
<1> QED BY <1>8

LEMMA ShiftIs ==
    /\ Shift[0] = 1
    /\ \A k \in Nat : Shift[k + 1] = 2 * Shift[k]
    /\ \A k \in Nat : Shift[k] \in Nat \ {0} /\ k < Shift[k]
<1>1. Shift = [k \in Nat |-> IF k = 0 THEN 1 ELSE 2 * Shift[k - 1]]
  <2> DEFINE Rec(f) == f = [k \in Nat |-> IF k = 0 THEN 1 ELSE 2 * f[k - 1]]
  <2>1. \E f : Rec(f)
    BY ShiftExists
  <2>2. Shift = CHOOSE f : Rec(f)
    BY DEF Shift
  <2> HIDE DEF Rec
  <2>3. Rec(Shift)
    BY <2>1, <2>2
  <2> QED BY <2>3 DEF Rec
<1>2. Shift[0] = 1
  BY <1>1
<1>3. \A k \in Nat : Shift[k + 1] = 2 * Shift[k]
  <2> SUFFICES ASSUME NEW k \in Nat PROVE Shift[k + 1] = 2 * Shift[k]
    OBVIOUS
  <2>1. k + 1 \in Nat /\ k + 1 # 0 /\ (k + 1) - 1 = k
    OBVIOUS
  <2> QED BY <1>1, <2>1
<1> DEFINE P == {k \in Nat : Shift[k] \in Nat \ {0} /\ k < Shift[k]}
<1>4. 0 \in P
  BY <1>2
<1>5. ASSUME NEW k \in Nat, k \in P PROVE k + 1 \in P
  BY <1>3, <1>5
<1>6. \A k \in Nat : k \in P
  <2> HIDE DEF P
  <2> QED BY <1>4, <1>5, CountsOn
<1> QED BY <1>2, <1>3, <1>6
-----------------------------------------------------------------------------
(* Numbers as bits *)

Bit == {0, 1}

\* From at on the bits say x, in w bits.
Says(bits, at, w, x) ==
    /\ at + w <= Len(bits)
    /\ \A k \in 1 .. w : bits[at + k] = IntBits(x, w)[k]

LEMMA IntBitsAre ==
    ASSUME NEW x \in Nat, NEW w \in Nat
    PROVE  /\ IntBits(x, w) \in Seq(Bit) /\ Len(IntBits(x, w)) = w
           /\ \A k \in 1 .. w : IntBits(x, w)[k] = (x \div Shift[k - 1]) % 2
<1> DEFINE b == [k \in 1 .. w |-> (x \div Shift[k - 1]) % 2]
<1>1. \A k \in 1 .. w : (x \div Shift[k - 1]) % 2 \in Bit
  <2> SUFFICES ASSUME NEW k \in 1 .. w PROVE (x \div Shift[k - 1]) % 2 \in Bit
    OBVIOUS
  <2>1. Shift[k - 1] \in Nat \ {0}
    BY ShiftIs
  <2>2. x \div Shift[k - 1] \in Nat
    BY <2>1
  <2> QED BY <2>2 DEF Bit
<1>2. b \in [1 .. w -> Bit]
  BY <1>1
<1>3. b \in Seq(Bit) /\ Len(b) = w
  <2> HIDE DEF b
  <2>1. b \in Seq(Bit)
    BY <1>2, SeqDef
  <2>2. DOMAIN b = 1 .. w
    BY <1>2
  <2> QED BY <2>1, <2>2, LenProperties
<1> QED BY <1>3 DEF IntBits

\* The remainder by 2p is that by p and one bit of the quotient.
LEMMA Halves ==
    ASSUME NEW x \in Nat, NEW p \in Nat \ {0}
    PROVE  x % (2 * p) = (x % p) + p * ((x \div p) % 2)
<1> DEFINE q == x \div p
           h == q \div 2
           c == q % 2
           r == x % p
<1>1. x = p * q + r /\ r \in 0 .. p - 1 /\ q \in Nat
  OBVIOUS
<1>2. q = 2 * h + c /\ c \in {0, 1} /\ h \in Nat
  BY <1>1
<1> HIDE DEF q, h, c, r
<1>3. p * q = (2 * p) * h + p * c
  BY <1>1, <1>2
<1>4. /\ x = (2 * p) * h + (r + p * c) /\ r + p * c \in Nat /\ r + p * c < 2 * p
  BY <1>1, <1>2, <1>3
<1>5. \A a, b, g, s \in Nat : a = b * g + s /\ s < b => a % b = s
  OBVIOUS
<1>6. x % (2 * p) = r + p * c
  <2> PICK a, s : a = 2 * p /\ s = r + p * c
    OBVIOUS
  <2>1. a \in Nat /\ s \in Nat /\ x = a * h + s /\ s < a
    BY <1>4
  <2>2. x % a = s
    BY <1>2, <1>5, <2>1
  <2> QED BY <2>2
<1> QED BY <1>6 DEF q, c, r

\* readint gets back what writeint has written.
LEMMA ReadsWhatIsSaid ==
    ASSUME NEW l, NEW at \in Nat, NEW w \in Nat, NEW x \in 0 .. (Shift[w] - 1), Says(l.colors, at, w, x)
    PROVE  readint(l, at, w) = x
<1> DEFINE bit(k) == bitarray_get(l.colors, at + k - 1)
           All(f) == f = [k \in 0 .. w |-> IF k = 0 THEN 0 ELSE f[k - 1] + Shift[k - 1] * bit(k)]
           acc == CHOOSE f : All(f)
           sum == [k \in 0 .. w |-> x % Shift[k]]
<1>0. x \in Nat /\ Shift[w] \in Nat \ {0} /\ x < Shift[w]
  BY ShiftIs
<1>1. readint(l, at, w) = acc[w]
  BY DEF readint
<1>2. \A k \in 1 .. w : bit(k) = (x \div Shift[k - 1]) % 2
  <2> SUFFICES ASSUME NEW k \in 1 .. w PROVE bit(k) = (x \div Shift[k - 1]) % 2
    OBVIOUS
  <2>1. (at + k - 1) + 1 = at + k
    OBVIOUS
  <2>2. l.colors[at + k] = (x \div Shift[k - 1]) % 2
    BY <1>0, IntBitsAre DEF Says
  <2> QED BY <2>1, <2>2 DEF bitarray_get
<1>3. \A k \in 1 .. w : x % Shift[k] = (x % Shift[k - 1]) + Shift[k - 1] * bit(k)
  <2> SUFFICES ASSUME NEW k \in 1 .. w
               PROVE  x % Shift[k] = (x % Shift[k - 1]) + Shift[k - 1] * bit(k)
    OBVIOUS
  <2> DEFINE p == Shift[k - 1]
  <2>1. p \in Nat \ {0} /\ Shift[k] = 2 * p
    <3>1. k - 1 \in Nat /\ (k - 1) + 1 = k
      OBVIOUS
    <3> QED BY <3>1, ShiftIs
  <2> HIDE DEF p
  <2>2. x % (2 * p) = (x % p) + p * ((x \div p) % 2)
    BY <1>0, <2>1, Halves
  <2> QED BY <1>2, <2>1, <2>2 DEF p
<1> HIDE DEF bit
<1>4. x % Shift[0] = 0 /\ x % Shift[w] = x
  <2>1. x % 1 = 0 /\ \A p \in Nat : x < p => x % p = x
    BY <1>0
  <2> QED BY <1>0, <2>1, ShiftIs
<1>5. All(sum)
  <2> DEFINE e == [k \in 0 .. w |-> IF k = 0 THEN 0 ELSE sum[k - 1] + Shift[k - 1] * bit(k)]
  <2>1. \A k \in 0 .. w : sum[k] = e[k]
    <3> SUFFICES ASSUME NEW k \in 0 .. w PROVE sum[k] = e[k]
      OBVIOUS
    <3>1. CASE k = 0
      BY <1>4, <3>1
    <3>2. CASE k # 0
      <4>1. k \in 1 .. w /\ k - 1 \in 0 .. w
        BY <3>2
      <4> QED BY <1>3, <3>2, <4>1
    <3> QED BY <3>1, <3>2
  <2>2. sum = [k \in 0 .. w |-> sum[k]] /\ e = [k \in 0 .. w |-> e[k]]
    OBVIOUS
  <2>3. sum = e
    <3> HIDE DEF sum, e
    <3> QED BY <2>1, <2>2
  <2> HIDE DEF sum
  <2> QED BY <2>3
<1>6. All(acc)
  <2> HIDE DEF All, sum
  <2> QED BY <1>5
<1> HIDE DEF acc
<1>7. /\ acc[0] = 0
      /\ \A k \in 1 .. w : acc[k] = acc[k - 1] + Shift[k - 1] * bit(k)
  <2>1. 0 \in 0 .. w /\ \A k \in 1 .. w : k \in 0 .. w /\ k # 0
    OBVIOUS
  <2> QED BY <1>6, <2>1
<1> HIDE DEF All, sum
<1> DEFINE P == {k \in 0 .. w : acc[k] = x % Shift[k]}
<1>8. 0 \in P
  BY <1>4, <1>7
<1>9. ASSUME NEW k \in 0 .. (w - 1), k \in P PROVE k + 1 \in P
  <2>1. k + 1 \in 1 .. w /\ k + 1 \in 0 .. w /\ (k + 1) - 1 = k
    OBVIOUS
  <2>2. acc[k + 1] = acc[k] + Shift[k] * bit(k + 1)
    BY <1>7, <2>1
  <2>3. x % Shift[k + 1] = (x % Shift[k]) + Shift[k] * bit(k + 1)
    BY <1>3, <2>1
  <2> QED BY <1>9, <2>1, <2>2, <2>3
<1>10. w \in P
  <2>1. w \in 0 .. w
    OBVIOUS
  <2> HIDE DEF P
  <2> QED BY <1>8, <1>9, <2>1, CountsUp
<1> QED BY <1>1, <1>4, <1>10

\* Two numbers on end, and what was said already.
LEMMA SaidBehind ==
    ASSUME NEW b \in Seq(Bit), NEW t \in Seq(Bit), NEW at \in Nat, NEW w \in Nat, NEW x
    PROVE  /\ b \o t \in Seq(Bit) /\ Len(b \o t) = Len(b) + Len(t)
           /\ Says(b, at, w, x) => Says(b \o t, at, w, x)
           /\ Says(t, at, w, x) => Says(b \o t, Len(b) + at, w, x)
<1> DEFINE n == Len(b)
           m == Len(t)
<1>1. /\ b \o t \in Seq(Bit) /\ Len(b \o t) = n + m /\ n \in Nat /\ m \in Nat
      /\ \A k \in 1 .. n + m : (b \o t)[k] = IF k <= n THEN b[k] ELSE t[k - n]
  BY ConcatProperties, LenProperties
<1> DEFINE bt == b \o t
<1> HIDE DEF n, m, bt
<1>2. ASSUME Says(b, at, w, x) PROVE Says(bt, at, w, x)
  <2>1. at + w <= n /\ \A k \in 1 .. w : b[at + k] = IntBits(x, w)[k]
    BY <1>2 DEF Says, n
  <2>2. \A k \in 1 .. w : at + k \in 1 .. n + m /\ at + k <= n
    BY <1>1, <2>1
  <2>3. \A k \in 1 .. w : bt[at + k] = b[at + k]
    BY <1>1, <2>2 DEF bt
  <2>4. at + w <= Len(bt)
    BY <1>1, <2>1 DEF bt
  <2> QED BY <2>1, <2>3, <2>4 DEF Says
<1>3. ASSUME Says(t, at, w, x) PROVE Says(bt, n + at, w, x)
  <2>1. at + w <= m /\ \A k \in 1 .. w : t[at + k] = IntBits(x, w)[k]
    BY <1>3 DEF Says, m
  <2>2. \A k \in 1 .. w : /\ n + at + k \in 1 .. n + m /\ ~(n + at + k <= n)
                          /\ (n + at + k) - n = at + k
    BY <1>1, <2>1
  <2>3. \A k \in 1 .. w : bt[n + at + k] = t[at + k]
    BY <1>1, <2>2 DEF bt
  <2>4. n + at + w <= Len(bt)
    BY <1>1, <2>1 DEF bt
  <2> QED BY <2>1, <2>3, <2>4 DEF Says
<1> QED BY <1>1, <1>2, <1>3 DEF n, m, bt

LEMMA SaysItself ==
    ASSUME NEW x \in Nat, NEW w \in Nat PROVE Says(IntBits(x, w), 0, w, x)
<1> QED BY IntBitsAre DEF Says
-----------------------------------------------------------------------------
(* The array grows far enough *)

LEMMA WidthsAre ==
    /\ COLORS_INIT_COUNT \in Nat \ {0} /\ COLORS_INIT_COUNT % 4 = 0
    /\ BITS_FOR_COUNT \in Nat \ {0} /\ BITS_FOR_ORDER \in Nat \ {0}
    /\ MAX_REPEAT_COUNT \in Nat /\ MAX_REPEAT_COUNT > 1
    /\ MAX_REPEAT_ORDER \in Nat /\ MAX_REPEAT_ORDER > 1
<1>1. /\ COLORS_INIT_COUNT \in Nat \ {0} /\ COLORS_INIT_COUNT % 4 = 0
      /\ BITS_FOR_COUNT \in Nat \ {0} /\ BITS_FOR_ORDER \in Nat \ {0}
  BY LogAssumption
<1>2. \A k \in Nat \ {0} : Shift[k] \in Nat /\ Shift[k] > 1
  BY ShiftIs
<1> QED BY <1>1, <1>2 DEF MAX_REPEAT_COUNT, MAX_REPEAT_ORDER

\* A capacity in bits: whole bytes, at least one.
Capacity == {n \in Nat \ {0} : n % 8 = 0}

LEMMA DoubledIs ==
    ASSUME NEW cap \in Capacity, NEW n \in Nat
    PROVE  Doubled(cap, n) \in Capacity /\ n <= Doubled(cap, n)
<1> DEFINE room(k) == cap * Shift[k]
           Small == {k \in Nat : ~(n <= room(k))}
           All(f) == f = [k \in Nat |-> IF n <= room(k) THEN room(k) ELSE f[k + 1]]
           size == CHOOSE f : All(f)
<1>1. Doubled(cap, n) = size[0]
  BY DEF Doubled
<1>2. \A k \in Nat : room(k) \in Capacity /\ k < room(k)
  <2> SUFFICES ASSUME NEW k \in Nat PROVE room(k) \in Capacity /\ k < room(k)
    OBVIOUS
  <2>1. Shift[k] \in Nat \ {0} /\ k < Shift[k] /\ cap \in Nat \ {0} /\ cap % 8 = 0
    BY ShiftIs DEF Capacity
  <2> DEFINE p == Shift[k]
  <2> HIDE DEF p
  <2>2. cap * p \in Nat \ {0} /\ p <= cap * p
    BY <2>1 DEF p
  <2>3. (cap * p) % 8 = 0
    <3>1. PICK h \in Nat : cap = 8 * h
      BY <2>1
    <3>2. h * p \in Nat /\ cap * p = 8 * (h * p)
      BY <2>1, <3>1 DEF p
    <3>3. \A a \in Nat : (8 * a) % 8 = 0
      OBVIOUS
    <3> QED BY <3>2, <3>3
  <2> QED BY <2>1, <2>2, <2>3 DEF p, Capacity
<1> HIDE DEF room
<1>3. \E f : All(f)
  <2>1. \A k \in Nat : \E j \in Nat \ Small : j >= k
    <3> SUFFICES ASSUME NEW k \in Nat PROVE \E j \in Nat \ Small : j >= k
      OBVIOUS
    <3> DEFINE j == n + k
    <3>1. j \in Nat /\ j >= k /\ n <= j
      OBVIOUS
    <3> HIDE DEF j
    <3>2. room(j) \in Nat /\ j < room(j)
      BY <1>2, <3>1 DEF Capacity
    <3>3. n <= room(j)
      BY <3>1, <3>2
    <3> QED BY <3>1, <3>3
  <2>2. PICK g \in [Nat -> Nat] : \A k \in Nat : g[k] = IF k \in Small THEN g[k + 1] ELSE k
    <3> HIDE DEF Small
    <3> QED BY <2>1, Climbs
  <2> DEFINE f == [k \in Nat |-> room(g[k])]
             e == [k \in Nat |-> IF n <= room(k) THEN room(k) ELSE f[k + 1]]
  <2>3. \A k \in Nat : f[k] = e[k]
    <3> SUFFICES ASSUME NEW k \in Nat PROVE f[k] = e[k]
      OBVIOUS
    <3>1. k + 1 \in Nat /\ g[k] = IF n <= room(k) THEN k ELSE g[k + 1]
      BY <2>2
    <3> QED BY <3>1
  <2>4. f = [k \in Nat |-> f[k]] /\ e = [k \in Nat |-> e[k]]
    OBVIOUS
  <2>5. f = e
    <3> HIDE DEF f, e
    <3> QED BY <2>3, <2>4
  <2>6. All(f)
    <3> HIDE DEF f
    <3> QED BY <2>5
  <2> QED BY <2>6
<1>4. All(size)
  <2> HIDE DEF All
  <2> QED BY <1>3
<1> HIDE DEF size
<1>5. \A k \in Nat : size[k] = IF n <= room(k) THEN room(k) ELSE size[k + 1]
  BY <1>4
<1> HIDE DEF All
<1> DEFINE P == {k \in 0 .. n : size[k] \in Capacity /\ n <= size[k]}
<1>6. n \in P
  <2>1. n <= room(n)
    BY <1>2 DEF Capacity
  <2> QED BY <1>2, <1>5, <2>1
<1>7. ASSUME NEW k \in 0 .. (n - 1), k + 1 \in P PROVE k \in P
  <2>1. k \in Nat /\ k \in 0 .. n
    OBVIOUS
  <2>2. CASE n <= room(k)
    BY <1>2, <1>5, <2>1, <2>2
  <2>3. CASE ~(n <= room(k))
    BY <1>5, <1>7, <2>1, <2>3
  <2> QED BY <2>2, <2>3
<1>8. 0 \in P
  <2>1. 0 \in 0 .. n
    OBVIOUS
  <2> HIDE DEF P
  <2> QED BY <1>6, <1>7, <2>1, CountsDown
<1> QED BY <1>1, <1>8

\* The bytes of the array hold as many bits as its capacity says.
LEMMA BytesHold ==
    ASSUME NEW cap \in Capacity PROVE cap <= 8 * bitarray_sizebytes(cap)
<1>1. PICK h \in Nat \ {0} : cap = 8 * h
  BY DEF Capacity
<1>2. cap \div 8 = h
  BY <1>1
<1>3. wordalign(h) >= h
  BY <1>1 DEF wordalign
<1>4. wordalign(h) \in Int
  BY <1>1 DEF wordalign
<1> QED BY <1>1, <1>2, <1>3, <1>4 DEF bitarray_sizebytes

\* The order that is written can be written, and announces no more than there is.
LEMMA OrderIs ==
    ASSUME NEW count \in Nat, count > 0
    PROVE  /\ Order(count) \in 0 .. (MAX_REPEAT_ORDER - 1)
           /\ Shift[Order(count)] \in 1 .. count
<1> DEFINE C == {k \in Nat : k < MAX_REPEAT_ORDER - 1 /\ Shift[k] <= count \div 2}
           All(f) == f = [k \in Nat |-> IF k < MAX_REPEAT_ORDER - 1 /\ Shift[k] <= count \div 2
                                        THEN f[k + 1] ELSE k]
           ord == CHOOSE f : All(f)
           n == MAX_REPEAT_ORDER - 1
<1>1. Order(count) = ord[0]
  BY DEF Order
<1>2. n \in Nat /\ n < MAX_REPEAT_ORDER
  BY WidthsAre
<1>3. \E f : All(f)
  <2>1. \A k \in Nat : \E j \in Nat \ C : j >= k
    <3> SUFFICES ASSUME NEW k \in Nat PROVE \E j \in Nat \ C : j >= k
      OBVIOUS
    <3>1. n + k \in Nat \ C /\ n + k >= k
      BY <1>2
    <3> QED BY <3>1
  <2>2. PICK f \in [Nat -> Nat] : \A k \in Nat : f[k] = IF k \in C THEN f[k + 1] ELSE k
    <3> HIDE DEF C
    <3> QED BY <2>1, Climbs
  <2> DEFINE e == [k \in Nat |-> IF k < MAX_REPEAT_ORDER - 1 /\ Shift[k] <= count \div 2
                                 THEN f[k + 1] ELSE k]
  <2>3. \A k \in Nat : f[k] = e[k]
    BY <2>2
  <2>4. f = [k \in Nat |-> f[k]] /\ e = [k \in Nat |-> e[k]]
    BY <2>2
  <2>5. f = e
    <3> HIDE DEF e
    <3> QED BY <2>3, <2>4
  <2>6. All(f)
    BY <2>5
  <2> HIDE DEF All
  <2> QED BY <2>6
<1>4. All(ord)
  <2> HIDE DEF All
  <2> QED BY <1>3
<1> HIDE DEF ord
<1>5. \A k \in Nat : ord[k] = IF k < n /\ Shift[k] <= count \div 2 THEN ord[k + 1] ELSE k
  BY <1>4
<1> HIDE DEF All
<1> DEFINE Fits(k) == k \in 0 .. n /\ Shift[k] \in 1 .. count
           P == {k \in 0 .. n : Shift[k] <= count => Fits(ord[k])}
<1>6. \A k \in Nat : Shift[k] \in Nat \ {0} /\ Shift[k + 1] = 2 * Shift[k]
  BY ShiftIs
<1>7. n \in P
  <2>1. n \in Nat /\ ~(n < n) /\ n \in 0 .. n
    BY <1>2
  <2>2. ord[n] = n
    BY <1>5, <2>1
  <2>3. Shift[n] <= count => Fits(n)
    <3> HIDE DEF n
    <3> QED BY <1>6, <2>1
  <2> HIDE DEF Fits
  <2> QED BY <2>1, <2>2, <2>3
<1>8. ASSUME NEW k \in 0 .. (n - 1), k + 1 \in P PROVE k \in P
  <2> SUFFICES ASSUME Shift[k] <= count PROVE Fits(ord[k])
    BY <1>2
  <2>1. k \in Nat /\ k \in 0 .. n /\ k < n /\ Shift[k] \in Nat \ {0} /\ Shift[k + 1] = 2 * Shift[k]
    BY <1>2, <1>6
  <2>2. CASE Shift[k] <= count \div 2
    <3>1. Shift[k + 1] <= count
      BY <2>1, <2>2
    <3>2. ord[k] = ord[k + 1]
      BY <1>5, <2>1, <2>2
    <3> HIDE DEF Fits
    <3> QED BY <1>8, <3>1, <3>2
  <2>3. CASE ~(Shift[k] <= count \div 2)
    <3>1. ord[k] = k
      BY <1>5, <2>1, <2>3
    <3> QED BY <2>1, <3>1
  <2> QED BY <2>2, <2>3
<1>9. 0 \in P
  <2>1. 0 \in 0 .. n
    BY <1>2
  <2> HIDE DEF P, n
  <2> QED BY <1>2, <1>7, <1>8, <2>1, CountsDown
<1>10. Shift[0] <= count
  BY ShiftIs
<1>11. Fits(ord[0])
  <2> HIDE DEF Fits
  <2> QED BY <1>9, <1>10
<1> QED BY <1>1, <1>2, <1>11
-----------------------------------------------------------------------------
(* The log as the colours that are read from it *)

\* Where the reader is: the index, the colour before, the repeats to come.
Place == [ri : Nat, prev : Color \ {Col_blue}, rep : Nat]
Start == [ri |-> 0, prev |-> 0, rep |-> 0]

\* What the bit behind blue tells: how wide the number is, and what it stands for.
Width(kind) == IF kind = 0 THEN BITS_FOR_COUNT ELSE BITS_FOR_ORDER
Times(kind, n) == IF kind = 0 THEN n ELSE Shift[n]
Token(kind, n) == IntBits(Col_blue, 2) \o IntBits(kind, 1) \o IntBits(n, Width(kind))

SaysColor(bits, s, u) ==
    \E c \in Color \ {Col_blue} :
        Says(bits, s.ri, 2, c) /\ u = [ri |-> s.ri + 2, prev |-> c, rep |-> 0]

SaysRepeats(bits, s, u) ==
    \E kind \in Bit : \E n \in 0 .. (Shift[Width(kind)] - 1) :
        /\ Says(bits, s.ri, 2, Col_blue) /\ Says(bits, s.ri + 2, 1, kind)
        /\ Says(bits, s.ri + 3, Width(kind), n)
        /\ Times(kind, n) > 0
        /\ u = [ri |-> s.ri + 3 + Width(kind), prev |-> s.prev, rep |-> Times(kind, n) - 1]

\* Reading one colour leads from s to u.
Reads(bits, s, u) ==
    \/ s.rep > 0 /\ u = [ri |-> s.ri, prev |-> s.prev, rep |-> s.rep - 1]
    \/ s.rep = 0 /\ (SaysColor(bits, s, u) \/ SaysRepeats(bits, s, u))

\* Reading the bits to their end gives n colours and goes through the places d.
Chain(bits, n, d) ==
    /\ d \in [0 .. n -> Place] /\ d[0] = Start
    /\ \A k \in 0 .. (n - 1) : Reads(bits, d[k], d[k + 1])
    /\ d[n].rep = 0 /\ d[n].ri = Len(bits)

Leads(bits, n, d) == \A k \in 0 .. (n - 1) : Reads(bits, d[k], d[k + 1])

\* e goes on where d ends, and then as g.
SameColor(n, r, d, e) == \A k \in 1 .. r : e[n + k].prev = d[n].prev
GoesOn(n, d, e) == \A k \in 0 .. n : e[k] = d[k]
ThenAs(n, r, g, e) == \A k \in 0 .. r : e[n + k] = g[k]

LEMMA WidthIs ==
    ASSUME NEW kind \in Bit
    PROVE  Width(kind) \in Nat \ {0} /\ Shift[Width(kind)] \in Nat \ {0}
<1> QED BY WidthsAre, ShiftIs DEF Width

\* What can be read can be read when more was written.
LEMMA ReadsOn ==
    ASSUME NEW b \in Seq(Bit), NEW t \in Seq(Bit), NEW s \in Place, NEW u \in Place, Reads(b, s, u)
    PROVE  Reads(b \o t, s, u)
<1>1. \A at \in Nat, w \in Nat : \A x : Says(b, at, w, x) => Says(b \o t, at, w, x)
  BY SaidBehind
<1>2. s.ri \in Nat /\ s.ri + 2 \in Nat /\ s.ri + 3 \in Nat /\ 1 \in Nat /\ 2 \in Nat
  BY DEF Place
<1>3. ASSUME SaysColor(b, s, u) PROVE SaysColor(b \o t, s, u)
  BY <1>1, <1>2, <1>3 DEF SaysColor
<1>4. ASSUME SaysRepeats(b, s, u) PROVE SaysRepeats(b \o t, s, u)
  <2>1. \A kind \in Bit : Width(kind) \in Nat
    BY WidthIs
  <2> QED BY <1>1, <1>2, <1>4, <2>1, Zenon DEF SaysRepeats
<1> QED BY <1>3, <1>4 DEF Reads

\* A chain of n places is continued by r more.
LEMMA ChainGoesOn ==
    ASSUME NEW b \in Seq(Bit), NEW t \in Seq(Bit), NEW n \in Nat, NEW d, Chain(b, n, d),
           NEW bt, bt = b \o t,
           NEW r \in Nat, NEW g \in [0 .. r -> Place], g[0] = d[n], Leads(bt, r, g),
           g[r].rep = 0, g[r].ri = Len(bt)
    PROVE  \E e : Chain(bt, n + r, e) /\ GoesOn(n, d, e) /\ ThenAs(n, r, g, e)
<1> DEFINE e == [k \in 0 .. (n + r) |-> IF k <= n THEN d[k] ELSE g[k - n]]
<1>1. /\ d \in [0 .. n -> Place] /\ d[0] = Start
      /\ \A k \in 0 .. (n - 1) : Reads(b, d[k], d[k + 1])
  BY DEF Chain
<1>2. \A k \in 0 .. n : k \in 0 .. (n + r) /\ k <= n
  OBVIOUS
<1>3. \A k \in 0 .. n : e[k] = d[k]
  BY <1>2
<1>4. \A k \in 0 .. r : e[n + k] = g[k]
  <2> SUFFICES ASSUME NEW k \in 0 .. r PROVE e[n + k] = g[k]
    OBVIOUS
  <2>1. n + k \in 0 .. (n + r) /\ (n + k) - n = k
    OBVIOUS
  <2>2. CASE k = 0
    BY <2>1, <2>2, <1>3
  <2>3. CASE k # 0
    <3>1. ~(n + k <= n)
      BY <2>3
    <3> QED BY <2>1, <3>1
  <2> QED BY <2>2, <2>3
<1>5. \A k \in 0 .. (n + r) : k \in 0 .. n \/ (k - n \in 0 .. r /\ n + (k - n) = k)
  OBVIOUS
<1>6. e \in [0 .. (n + r) -> Place]
  BY <1>1, <1>5
<1> HIDE DEF e
<1>7. ASSUME NEW k \in 0 .. (n + r - 1) PROVE Reads(bt, e[k], e[k + 1])
  <2>1. CASE k < n
    <3>1. k \in 0 .. n /\ k + 1 \in 0 .. n /\ k \in 0 .. (n - 1)
      BY <2>1
    <3>2. Reads(b, d[k], d[k + 1]) /\ d[k] \in Place /\ d[k + 1] \in Place
      BY <1>1, <3>1
    <3>3. Reads(bt, d[k], d[k + 1])
      BY <3>2, ReadsOn
    <3> QED BY <1>3, <3>1, <3>3
  <2>2. CASE k >= n
    <3>1. PICK i \in 0 .. (r - 1) : k = n + i
      <4>1. k - n \in 0 .. (r - 1) /\ k = n + (k - n)
        BY <2>2
      <4> QED BY <4>1
    <3>2. i \in 0 .. r /\ i + 1 \in 0 .. r /\ k + 1 = n + (i + 1)
      BY <3>1
    <3>3. Reads(bt, g[i], g[i + 1])
      BY <3>1 DEF Leads
    <3>4. e[k] = g[i] /\ e[k + 1] = g[i + 1]
      BY <1>4, <3>1, <3>2
    <3> QED BY <3>3, <3>4
  <2> QED BY <2>1, <2>2
<1>8. e[0] = Start
  <2>1. 0 \in 0 .. n
    OBVIOUS
  <2> QED BY <1>1, <1>3, <2>1
<1>9. e[n + r].rep = 0 /\ e[n + r].ri = Len(bt)
  <2>1. r \in 0 .. r
    OBVIOUS
  <2> QED BY <1>4, <2>1
<1>10. Chain(bt, n + r, e)
  BY <1>6, <1>7, <1>8, <1>9 DEF Chain
<1> QED BY <1>3, <1>4, <1>10 DEF GoesOn, ThenAs

\* A colour is written.
LEMMA ChainColor ==
    ASSUME NEW b \in Seq(Bit), NEW n \in Nat, NEW d, Chain(b, n, d), NEW c \in Color \ {Col_blue}
    PROVE  \E e : /\ Chain(b \o IntBits(c, 2), n + 1, e) /\ GoesOn(n, d, e)
                  /\ e[n + 1].prev = c
<1> PICK t : t = IntBits(c, 2)
  OBVIOUS
<1>1. c \in Nat /\ 2 \in Nat /\ 0 \in Nat /\ 1 \in Nat
  BY DEF Color
<1>2. t \in Seq(Bit) /\ Len(t) = 2 /\ Says(t, 0, 2, c)
  BY <1>1, IntBitsAre, SaysItself
<1>3. Len(b) \in Nat
  BY LenProperties
<1> DEFINE bt == b \o t
           u == [ri |-> Len(b) + 2, prev |-> c, rep |-> 0]
           g == [k \in 0 .. 1 |-> IF k = 0 THEN d[n] ELSE u]
<1>4. Len(bt) = Len(b) + 2 /\ Says(bt, Len(b) + 0, 2, c)
  BY <1>1, <1>2, SaidBehind
<1>5. d[n] \in Place /\ d[n].ri = Len(b) /\ d[n].rep = 0
  <2>1. n \in 0 .. n
    OBVIOUS
  <2> QED BY <2>1 DEF Chain
<1>6. u \in Place /\ u.rep = 0 /\ u.ri = Len(bt)
  BY <1>3, <1>4 DEF Place
<1>7. Reads(bt, d[n], u)
  <2>1. Says(bt, d[n].ri, 2, c)
    BY <1>3, <1>4, <1>5
  <2> HIDE DEF bt
  <2>2. SaysColor(bt, d[n], u)
    BY <1>5, <2>1 DEF SaysColor
  <2> HIDE DEF u
  <2> QED BY <1>5, <2>2 DEF Reads
<1> HIDE DEF u
<1>8. g \in [0 .. 1 -> Place] /\ g[0] = d[n] /\ g[1] = u
  BY <1>5, <1>6
<1> HIDE DEF g, bt
<1>9. Leads(bt, 1, g)
  <2>1. \A k \in 0 .. (1 - 1) : k = 0
    OBVIOUS
  <2>2. Reads(bt, g[0], g[0 + 1])
    BY <1>7, <1>8
  <2> QED BY <2>1, <2>2 DEF Leads
<1>10. PICK e : Chain(bt, n + 1, e) /\ GoesOn(n, d, e) /\ ThenAs(n, 1, g, e)
  <2>1. bt = b \o t
    BY DEF bt
  <2>2. t \in Seq(Bit) /\ 1 \in Nat /\ g \in [0 .. 1 -> Place] /\ g[0] = d[n]
    BY <1>1, <1>2, <1>8
  <2>3. g[1].rep = 0 /\ g[1].ri = Len(bt)
    BY <1>6, <1>8
  <2> QED BY <1>9, <2>1, <2>2, <2>3, ChainGoesOn
<1>11. e[n + 1].prev = c
  BY <1>8, <1>10 DEF u, ThenAs
<1> QED BY <1>10, <1>11 DEF bt

LEMMA BitsOnEnd ==
    ASSUME NEW s \in Seq(Bit), NEW t \in Seq(Bit)
    PROVE  s \o t \in Seq(Bit) /\ Len(s \o t) = Len(s) + Len(t)
<1> QED BY ConcatProperties

\* The length of what announces repeats, and what it says.
LEMMA TokenIs ==
    ASSUME NEW kind \in Bit, NEW n \in 0 .. (Shift[Width(kind)] - 1)
    PROVE  /\ Token(kind, n) \in Seq(Bit) /\ Len(Token(kind, n)) = 3 + Width(kind)
           /\ Says(Token(kind, n), 0, 2, Col_blue) /\ Says(Token(kind, n), 2, 1, kind)
           /\ Says(Token(kind, n), 3, Width(kind), n)
<1> PICK t1, t2, t3, w : t1 = IntBits(Col_blue, 2) /\ t2 = IntBits(kind, 1) /\ t3 = IntBits(n, w) /\ w = Width(kind)
  OBVIOUS
<1>1. /\ Col_blue \in Nat /\ kind \in Nat /\ n \in Nat /\ w \in Nat
      /\ 0 \in Nat /\ 1 \in Nat /\ 2 \in Nat /\ 3 \in Nat
  BY WidthIs DEF Col_blue, Bit
<1>2. /\ t1 \in Seq(Bit) /\ Len(t1) = 2 /\ Says(t1, 0, 2, Col_blue)
      /\ t2 \in Seq(Bit) /\ Len(t2) = 1 /\ Says(t2, 0, 1, kind)
      /\ t3 \in Seq(Bit) /\ Len(t3) = w /\ Says(t3, 0, w, n)
  BY <1>1, IntBitsAre, SaysItself
<1> DEFINE t12 == t1 \o t2
<1>3. t12 \in Seq(Bit) /\ Len(t12) = 3 /\ Says(t12, 0, 2, Col_blue) /\ Says(t12, 2, 1, kind)
  <2>1. t12 \in Seq(Bit) /\ Len(t12) = 2 + 1
    <3>1. t1 \in Seq(Bit) /\ t2 \in Seq(Bit)
      BY <1>2
    <3>2. t12 \in Seq(Bit) /\ Len(t12) = Len(t1) + Len(t2)
      BY <3>1, BitsOnEnd
    <3> QED BY <1>2, <3>2
  <2>2. Says(t12, 0, 2, Col_blue)
    BY <1>1, <1>2, SaidBehind
  <2>3. Says(t12, 2 + 0, 1, kind)
    BY <1>1, <1>2, SaidBehind
  <2> HIDE DEF t12
  <2> QED BY <2>1, <2>2, <2>3
<1> HIDE DEF t12
<1> DEFINE t == t12 \o t3
<1>4. /\ t \in Seq(Bit) /\ Len(t) = 3 + w /\ Says(t, 0, 2, Col_blue)
      /\ Says(t, 2, 1, kind) /\ Says(t, 3, w, n)
  <2>1. t \in Seq(Bit) /\ Len(t) = 3 + w
    <3>1. t12 \in Seq(Bit) /\ t3 \in Seq(Bit)
      BY <1>2, <1>3
    <3>2. t \in Seq(Bit) /\ Len(t) = Len(t12) + Len(t3)
      BY <3>1, BitsOnEnd
    <3> QED BY <1>2, <1>3, <3>2
  <2>2. Says(t, 0, 2, Col_blue)
    BY <1>1, <1>2, <1>3, SaidBehind
  <2>3. Says(t, 2, 1, kind)
    BY <1>1, <1>2, <1>3, SaidBehind
  <2>4. Says(t, 3 + 0, w, n)
    BY <1>1, <1>2, <1>3, SaidBehind
  <2> HIDE DEF t
  <2> QED BY <2>1, <2>2, <2>3, <2>4
<1>5. t = Token(kind, n)
  BY DEF t12, Token
<1> HIDE DEF t
<1> QED BY <1>1, <1>4, <1>5

\* A number of repeats is written.
LEMMA ChainRepeat ==
    ASSUME NEW b \in Seq(Bit), NEW n \in Nat, NEW d, Chain(b, n, d),
           NEW kind \in Bit, NEW x \in 0 .. (Shift[Width(kind)] - 1),
           NEW r \in Nat, r = Times(kind, x), r > 0
    PROVE  \E e : Chain(b \o Token(kind, x), n + r, e) /\ GoesOn(n, d, e) /\ SameColor(n, r, d, e)
<1> PICK t, w : t = Token(kind, x) /\ w = Width(kind)
  OBVIOUS
<1>1. /\ t \in Seq(Bit) /\ Len(t) = 3 + w /\ w \in Nat
      /\ Says(t, 0, 2, Col_blue) /\ Says(t, 2, 1, kind) /\ Says(t, 3, w, x)
  BY TokenIs, WidthIs
<1>2. Len(b) \in Nat /\ 0 \in Nat /\ 1 \in Nat /\ 2 \in Nat /\ 3 \in Nat
  BY LenProperties
<1> DEFINE bt == b \o t
           n0 == Len(b)
           end == n0 + 3 + w
           p == d[n].prev
           g == [k \in 0 .. r |-> IF k = 0 THEN d[n] ELSE [ri |-> end, prev |-> p, rep |-> r - k]]
<1>3. /\ Len(bt) = n0 + (3 + w)
      /\ Says(bt, n0 + 0, 2, Col_blue) /\ Says(bt, n0 + 2, 1, kind) /\ Says(bt, n0 + 3, w, x)
  BY <1>1, <1>2, SaidBehind
<1>4. d[n] \in Place /\ d[n].ri = n0 /\ d[n].rep = 0 /\ p \in Color \ {Col_blue}
  <2>1. n \in 0 .. n
    OBVIOUS
  <2> QED BY <2>1 DEF Chain, Place
<1> HIDE DEF n0, p, bt
<1>5. n0 \in Nat /\ end \in Nat /\ Len(bt) = end /\ n0 + 0 = n0
  <2>1. n0 \in Nat
    BY <1>2 DEF n0
  <2>2. Len(bt) = n0 + (3 + w)
    BY <1>3
  <2> QED BY <1>1, <2>1, <2>2
<1> HIDE DEF end
<1>6. \A k \in 1 .. r : g[k] = [ri |-> end, prev |-> p, rep |-> r - k] /\ r - k \in Nat
  <2>1. \A k \in 1 .. r : k \in 0 .. r /\ k # 0 /\ r - k \in Nat
    OBVIOUS
  <2> QED BY <2>1
<1>7. g[0] = d[n]
  OBVIOUS
<1>8. \A k \in 1 .. r : g[k] \in Place
  BY <1>4, <1>5, <1>6 DEF Place
<1>9. g \in [0 .. r -> Place]
  <2>1. \A k \in 0 .. r : k = 0 \/ k \in 1 .. r
    OBVIOUS
  <2>2. \A k \in 0 .. r : g[k] \in Place
    BY <1>4, <1>7, <1>8, <2>1
  <2>3. g = [k \in 0 .. r |-> g[k]]
    OBVIOUS
  <2> HIDE DEF g
  <2> QED BY <2>2, <2>3
<1> HIDE DEF g
<1>10. ASSUME NEW k \in 0 .. (r - 1) PROVE Reads(bt, g[k], g[k + 1])
  <2>1. CASE k = 0
    <3>1. 1 \in 1 .. r
      OBVIOUS
    <3>2. g[1] = [ri |-> end, prev |-> p, rep |-> r - 1]
      BY <1>6, <3>1
    <3>3. end = d[n].ri + 3 + w
      BY <1>4 DEF end
    <3>4. SaysRepeats(bt, d[n], g[1])
      BY <1>3, <1>4, <1>5, <3>2, <3>3 DEF SaysRepeats, p
    <3>5. Reads(bt, d[n], g[1])
      BY <1>4, <3>4 DEF Reads
    <3> QED BY <1>7, <2>1, <3>5
  <2>2. CASE k # 0
    <3>1. k \in 1 .. r /\ k + 1 \in 1 .. r /\ r - k > 0 /\ (r - k) - 1 = r - (k + 1)
      BY <2>2
    <3>2. /\ g[k] = [ri |-> end, prev |-> p, rep |-> r - k]
          /\ g[k + 1] = [ri |-> end, prev |-> p, rep |-> (r - k) - 1]
      BY <1>6, <3>1
    <3> QED BY <3>1, <3>2 DEF Reads
  <2> QED BY <2>1, <2>2
<1>11. g[r].rep = 0 /\ g[r].ri = Len(bt)
  <2>1. r \in 1 .. r /\ r - r = 0
    OBVIOUS
  <2>2. g[r] = [ri |-> end, prev |-> p, rep |-> r - r]
    BY <1>6, <2>1
  <2> QED BY <1>5, <2>1, <2>2
<1>12. PICK e : Chain(bt, n + r, e) /\ GoesOn(n, d, e) /\ ThenAs(n, r, g, e)
  <2>1. bt = b \o t
    BY DEF bt
  <2>2. Leads(bt, r, g)
    BY <1>10 DEF Leads
  <2>3. t \in Seq(Bit)
    BY <1>1
  <2> QED BY <1>7, <1>9, <1>11, <2>1, <2>2, <2>3, ChainGoesOn
<1>13. \A k \in 1 .. r : e[n + k].prev = p
  <2> SUFFICES ASSUME NEW k \in 1 .. r PROVE e[n + k].prev = p
    OBVIOUS
  <2>1. k \in 0 .. r
    OBVIOUS
  <2>2. e[n + k] = g[k] /\ g[k] = [ri |-> end, prev |-> p, rep |-> r - k]
    BY <1>6, <1>12, <2>1 DEF ThenAs
  <2> QED BY <2>2
<1> QED BY <1>12, <1>13 DEF bt, p, SameColor
-----------------------------------------------------------------------------
(* The repeats *)

\* Whatever was written before, the bits t are read as r repeats.
Repeats(t, r) ==
    \A b \in Seq(Bit), n \in Nat : \A d :
        Chain(b, n, d) =>
            \E e : Chain(b \o t, n + r, e) /\ GoesOn(n, d, e) /\ SameColor(n, r, d, e)

LEMMA RepeatsNone == Repeats(<< >>, 0)
<1> SUFFICES ASSUME NEW b \in Seq(Bit), NEW n \in Nat, NEW d, Chain(b, n, d)
             PROVE  \E e : Chain(b \o << >>, n + 0, e) /\ GoesOn(n, d, e) /\ SameColor(n, 0, d, e)
  BY DEF Repeats
<1>1. b \o << >> = b /\ n + 0 = n
  BY ConcatEmptySeq
<1>2. GoesOn(n, d, d) /\ SameColor(n, 0, d, d)
  BY DEF GoesOn, SameColor
<1> QED BY <1>1, <1>2

LEMMA RepeatsToken ==
    ASSUME NEW kind \in Bit, NEW x \in 0 .. (Shift[Width(kind)] - 1),
           NEW r \in Nat, r = Times(kind, x), r > 0
    PROVE  Token(kind, x) \in Seq(Bit) /\ Repeats(Token(kind, x), r)
<1>1. Token(kind, x) \in Seq(Bit)
  BY TokenIs
<1> SUFFICES ASSUME NEW b \in Seq(Bit), NEW n \in Nat, NEW d, Chain(b, n, d)
             PROVE  \E e : /\ Chain(b \o Token(kind, x), n + r, e) /\ GoesOn(n, d, e)
                           /\ SameColor(n, r, d, e)
  BY <1>1 DEF Repeats
<1> QED BY ChainRepeat

LEMMA RepeatsOnEnd ==
    ASSUME NEW s \in Seq(Bit), NEW t \in Seq(Bit), NEW p \in Nat, NEW q \in Nat,
           Repeats(s, p), Repeats(t, q)
    PROVE  s \o t \in Seq(Bit) /\ Repeats(s \o t, p + q)
<1>1. s \o t \in Seq(Bit)
  BY BitsOnEnd
<1> SUFFICES ASSUME NEW b \in Seq(Bit), NEW n \in Nat, NEW d, Chain(b, n, d)
             PROVE  \E e : /\ Chain(b \o (s \o t), n + (p + q), e) /\ GoesOn(n, d, e)
                           /\ SameColor(n, p + q, d, e)
  BY <1>1 DEF Repeats
<1>2. PICK f : Chain(b \o s, n + p, f) /\ GoesOn(n, d, f) /\ SameColor(n, p, d, f)
  BY DEF Repeats
<1>3. b \o s \in Seq(Bit) /\ n + p \in Nat
  BY BitsOnEnd
<1>4. PICK e : /\ Chain((b \o s) \o t, (n + p) + q, e) /\ GoesOn(n + p, f, e)
               /\ SameColor(n + p, q, f, e)
  BY <1>2, <1>3, Zenon DEF Repeats
<1>5. (b \o s) \o t = b \o (s \o t)
  BY ConcatAssociative
<1>6. (n + p) + q = n + (p + q)
  OBVIOUS
<1>7. GoesOn(n, d, e)
  <2>1. \A k \in 0 .. n : k \in 0 .. (n + p)
    OBVIOUS
  <2> QED BY <1>2, <1>4, <2>1 DEF GoesOn
<1>8. f[n + p].prev = d[n].prev
  <2>1. CASE p = 0
    <3>1. n \in 0 .. n /\ n + p = n
      BY <2>1
    <3> QED BY <1>2, <3>1 DEF GoesOn
  <2>2. CASE p # 0
    <3>1. p \in 1 .. p
      BY <2>2
    <3> QED BY <1>2, <3>1 DEF SameColor
  <2> QED BY <2>1, <2>2
<1>9. SameColor(n, p + q, d, e)
  <2> SUFFICES ASSUME NEW k \in 1 .. (p + q) PROVE e[n + k].prev = d[n].prev
    BY DEF SameColor
  <2>1. CASE k <= p
    <3>1. k \in 1 .. p /\ n + k \in 0 .. (n + p)
      BY <2>1
    <3>2. f[n + k].prev = d[n].prev /\ e[n + k] = f[n + k]
      BY <1>2, <1>4, <3>1 DEF SameColor, GoesOn
    <3> QED BY <3>2
  <2>2. CASE k > p
    <3>1. PICK j \in 1 .. q : n + k = (n + p) + j
      <4>1. k - p \in 1 .. q /\ n + k = (n + p) + (k - p)
        BY <2>2
      <4> QED BY <4>1
    <3>2. e[(n + p) + j].prev = f[n + p].prev
      BY <1>4, <3>1 DEF SameColor
    <3> QED BY <1>8, <3>1, <3>2
  <2> QED BY <2>1, <2>2
<1>10. Chain(b \o (s \o t), n + (p + q), e)
  BY <1>4, <1>5, <1>6
<1> QED BY <1>7, <1>9, <1>10

\* What rle_write_repeats writes is read as so many repeats.
LEMMA RepeatBitsAre ==
    ASSUME NEW count \in Nat
    PROVE  RepeatBits(count) \in Seq(Bit) /\ Repeats(RepeatBits(count), count)
<1> DEFINE rest(n) == n - Shift[Order(n)]
           Body(f, n) == IF n >= MAX_REPEAT_COUNT THEN OrderBits(Order(n)) \o f[n - Shift[Order(n)]]
                         ELSE IF n > 0 THEN CountBits(n) ELSE << >>
           Up(m, f) == f = [n \in 0 .. m |-> Body(f, n)]
           bits == CHOOSE f : Up(count, f)
<1>1. RepeatBits(count) = bits[count]
  BY DEF RepeatBits
<1>2. ASSUME NEW n \in Nat, n >= MAX_REPEAT_COUNT
      PROVE  /\ rest(n) \in 0 .. (n - 1) /\ Order(n) \in 0 .. (MAX_REPEAT_ORDER - 1)
             /\ Shift[Order(n)] \in Nat \ {0} /\ Shift[Order(n)] + rest(n) = n
  <2>1. n > 0
    BY <1>2, WidthsAre
  <2>2. Order(n) \in 0 .. (MAX_REPEAT_ORDER - 1) /\ Shift[Order(n)] \in 1 .. n
    BY <2>1, OrderIs
  <2> QED BY <2>2
<1>3. ASSUME NEW m \in Nat, NEW n \in 0 .. m, NEW f, NEW g,
             \A k \in 0 .. m : k < n => f[k] = g[k]
      PROVE  Body(f, n) = Body(g, n)
  <2>1. CASE n >= MAX_REPEAT_COUNT
    <3>1. rest(n) \in 0 .. (n - 1)
      BY <1>2, <2>1
    <3>2. rest(n) \in 0 .. m /\ rest(n) < n
      <4> HIDE DEF rest
      <4> QED BY <3>1
    <3>3. f[rest(n)] = g[rest(n)]
      <4> HIDE DEF rest
      <4> QED BY <1>3, <3>2
    <3> QED BY <2>1, <3>3
  <2>2. CASE ~(n >= MAX_REPEAT_COUNT)
    BY <2>2
  <2> QED BY <2>1, <2>2
<1>4. \E f : Up(count, f)
  <2> DEFINE P == {m \in 0 .. count : \E f : Up(m, f)}
  <2>1. 0 \in P
    <3> DEFINE f == [n \in 0 .. 0 |-> Body(<< >>, n)]
               g == [n \in 0 .. 0 |-> Body(f, n)]
    <3>1. \A n \in 0 .. 0 : Body(<< >>, n) = Body(f, n)
      <4> SUFFICES ASSUME NEW n \in 0 .. 0 PROVE Body(<< >>, n) = Body(f, n)
        OBVIOUS
      <4>1. \A k \in 0 .. 0 : k < n => << >>[k] = f[k]
        OBVIOUS
      <4> HIDE DEF Body, f
      <4> QED BY <1>3, <4>1
    <3> HIDE DEF Body
    <3>2. f = g
      BY <3>1
    <3>3. Up(0, f)
      <4> HIDE DEF f
      <4> QED BY <3>2
    <3> HIDE DEF f, g, Up
    <3> QED BY <3>3
  <2>2. ASSUME NEW m \in 0 .. (count - 1), m \in P PROVE m + 1 \in P
    <3>1. PICK f : Up(m, f)
      BY <2>2
    <3> DEFINE h == [n \in 0 .. (m + 1) |-> IF n <= m THEN f[n] ELSE Body(f, n)]
               e == [n \in 0 .. (m + 1) |-> Body(h, n)]
    <3> HIDE DEF Body
    <3>2. \A n \in 0 .. m : f[n] = Body(f, n) /\ h[n] = f[n]
      BY <3>1
    <3>3. \A n \in 0 .. (m + 1) : h[n] = Body(f, n)
      <4>1. \A n \in 0 .. (m + 1) : n \in 0 .. m \/ ~(n <= m)
        OBVIOUS
      <4> QED BY <3>2, <4>1
    <3>4. \A n \in 0 .. (m + 1) : Body(f, n) = Body(h, n)
      <4> SUFFICES ASSUME NEW n \in 0 .. (m + 1) PROVE Body(f, n) = Body(h, n)
        OBVIOUS
      <4>1. \A k \in 0 .. (m + 1) : k < n => f[k] = h[k]
        <5>1. \A k \in 0 .. (m + 1) : k < n => k \in 0 .. m
          OBVIOUS
        <5> HIDE DEF h
        <5> QED BY <3>2, <5>1
      <4> HIDE DEF h
      <4> QED BY <1>3, <4>1
    <3>5. h = e
      <4>1. \A n \in 0 .. (m + 1) : h[n] = e[n]
        <5> HIDE DEF h
        <5> QED BY <3>3, <3>4
      <4>2. h = [n \in 0 .. (m + 1) |-> h[n]] /\ e = [n \in 0 .. (m + 1) |-> e[n]]
        OBVIOUS
      <4> HIDE DEF h, e
      <4> QED BY <4>1, <4>2
    <3>6. Up(m + 1, h)
      <4> HIDE DEF h
      <4> QED BY <3>5
    <3> HIDE DEF h, e, Up
    <3>7. m + 1 \in 0 .. count
      OBVIOUS
    <3> QED BY <3>6, <3>7
  <2> HIDE DEF P, Up, Body
  <2>3. count \in P
    <3>1. count \in 0 .. count
      OBVIOUS
    <3> QED BY <2>1, <2>2, <3>1, CountsUp
  <2> QED BY <2>3 DEF P
<1>5. Up(count, bits)
  <2> HIDE DEF Up, Body
  <2> QED BY <1>4
<1> HIDE DEF bits
<1>6. \A n \in 0 .. count : bits[n] = Body(bits, n)
  BY <1>5
<1> HIDE DEF Up
<1> DEFINE Q(n) == bits[n] \in Seq(Bit) /\ Repeats(bits[n], n)
           P == {n \in 0 .. count : \A j \in 0 .. n : Q(j)}
<1>7. ASSUME NEW n \in 0 .. count, \A j \in 0 .. (n - 1) : Q(j) PROVE Q(n)
  <2>1. bits[n] = Body(bits, n) /\ n \in Nat
    BY <1>6
  <2>2. CASE n >= MAX_REPEAT_COUNT
    <3> DEFINE o == Order(n)
               j == rest(n)
    <3>1. /\ j \in 0 .. (n - 1) /\ o \in 0 .. (MAX_REPEAT_ORDER - 1)
          /\ Shift[o] \in Nat \ {0} /\ Shift[o] + j = n
      BY <1>2, <2>1, <2>2
    <3>2. bits[n] = Token(1, o) \o bits[j]
      <4>1. OrderBits(o) = Token(1, o)
        BY DEF OrderBits, Token, Width
      <4>2. bits[n] = OrderBits(o) \o bits[j]
        BY <2>1, <2>2
      <4> QED BY <4>1, <4>2
    <3> HIDE DEF o, j, Q
    <3>3. 1 \in Bit /\ o \in 0 .. (Shift[Width(1)] - 1) /\ Shift[o] = Times(1, o) /\ Shift[o] > 0
          /\ Shift[o] \in Nat
      BY <3>1 DEF Bit, Width, Times, MAX_REPEAT_ORDER
    <3>4. Token(1, o) \in Seq(Bit) /\ Repeats(Token(1, o), Shift[o])
      BY <3>3, RepeatsToken
    <3>5. bits[j] \in Seq(Bit) /\ Repeats(bits[j], j) /\ j \in Nat
      BY <1>7, <3>1 DEF Q
    <3>6. /\ Token(1, o) \o bits[j] \in Seq(Bit)
          /\ Repeats(Token(1, o) \o bits[j], Shift[o] + j)
      BY <3>3, <3>4, <3>5, RepeatsOnEnd
    <3> QED BY <3>1, <3>2, <3>6 DEF Q
  <2>3. CASE ~(n >= MAX_REPEAT_COUNT) /\ n > 0
    <3>1. bits[n] = Token(0, n)
      BY <2>1, <2>3 DEF CountBits, Token, Width
    <3>2. 0 \in Bit /\ n \in 0 .. (Shift[Width(0)] - 1) /\ n = Times(0, n)
      <4>1. Shift[Width(0)] = MAX_REPEAT_COUNT /\ MAX_REPEAT_COUNT \in Nat
        BY WidthsAre DEF Width, MAX_REPEAT_COUNT
      <4> QED BY <2>3, <4>1 DEF Bit, Times
    <3>3. Token(0, n) \in Seq(Bit) /\ Repeats(Token(0, n), n)
      BY <2>1, <2>3, <3>2, RepeatsToken
    <3> QED BY <3>1, <3>3
  <2>4. CASE n = 0
    <3>1. ~(0 >= MAX_REPEAT_COUNT)
      BY WidthsAre
    <3>2. bits[n] = << >>
      BY <2>1, <2>4, <3>1
    <3>3. << >> \in Seq(Bit)
      OBVIOUS
    <3> QED BY <2>4, <3>2, <3>3, RepeatsNone
  <2> QED BY <2>2, <2>3, <2>4
<1> HIDE DEF Q, Body, rest
<1>8. 0 \in P
  <2>1. \A j \in 0 .. (0 - 1) : Q(j)
    OBVIOUS
  <2>2. 0 \in 0 .. count
    OBVIOUS
  <2>3. Q(0)
    BY <1>7, <2>1, <2>2
  <2>4. \A j \in 0 .. 0 : j = 0
    OBVIOUS
  <2> QED BY <2>2, <2>3, <2>4
<1>9. ASSUME NEW n \in 0 .. (count - 1), n \in P PROVE n + 1 \in P
  <2>1. n + 1 \in 0 .. count /\ (n + 1) - 1 = n
    OBVIOUS
  <2>2. \A j \in 0 .. n : Q(j)
    BY <1>9
  <2>3. Q(n + 1)
    BY <1>7, <2>1, <2>2
  <2>4. \A j \in 0 .. (n + 1) : j \in 0 .. n \/ j = n + 1
    OBVIOUS
  <2>5. \A j \in 0 .. (n + 1) : Q(j)
    BY <2>2, <2>3, <2>4
  <2> QED BY <2>1, <2>5
<1>10. count \in P
  <2>1. count \in 0 .. count
    OBVIOUS
  <2> HIDE DEF P
  <2> QED BY <1>8, <1>9, <2>1, CountsUp
<1>11. Q(count)
  <2>1. count \in 0 .. count
    OBVIOUS
  <2> QED BY <1>10, <2>1
<1> QED BY <1>1, <1>11 DEF Q
-----------------------------------------------------------------------------
(* The operations of the log *)

LogFields == {"colors", "bitcap", "bytes", "readindex", "prev_color", "repeat_count", "ok"}

\* No ASSERT has failed, and the fields are what the code keeps them.
Sound(l) ==
    /\ DOMAIN l = LogFields
    /\ l.colors \in Seq(Bit) /\ l.bitcap \in Capacity
    /\ l.readindex \in Nat /\ l.prev_color \in Color \ {Col_blue} /\ l.repeat_count \in Nat
    /\ l.ok

PlaceOf(l) == [ri |-> l.readindex, prev |-> l.prev_color, rep |-> l.repeat_count]

\* The first m places of d give the colours c.
Gives(d, m, c) == \A k \in 1 .. m : d[k].prev = c[k]

\* The n colours c were written: some are in the array, the rest is pending.
Holds(l, n, c) ==
    /\ Sound(l) /\ l.readindex = 0
    /\ \E m \in 0 .. n : \E d :
        /\ Chain(l.colors, m, d) /\ Gives(d, m, c)
        /\ m + l.repeat_count = n /\ d[m].prev = l.prev_color
        /\ \A k \in (m + 1) .. n : c[k] = l.prev_color

\* The array holds the n colours c, and j of them were read.
Tells(l, n, c, j) ==
    /\ Sound(l) /\ j \in 0 .. n
    /\ \E d : Chain(l.colors, n, d) /\ Gives(d, n, c) /\ PlaceOf(l) = d[j]

LEMMA LogStarts ==
    ASSUME NEW b \in BOOLEAN, b, NEW c
    PROVE  Holds([colors_init EXCEPT !.ok = b], 0, c)
<1> DEFINE l == [colors_init EXCEPT !.ok = b]
           d == [k \in 0 .. 0 |-> Start]
<1>1. /\ l.colors = << >> /\ l.bitcap = 2 * COLORS_INIT_COUNT /\ l.readindex = 0
      /\ l.prev_color = 0 /\ l.repeat_count = 0
  BY DEF colors_init
<1>2. DOMAIN l = LogFields
  BY DEF colors_init, LogFields
<1>3. l.ok
  BY DEF colors_init
<1> HIDE DEF l
<1>4. Sound(l)
  <2>1. 2 * COLORS_INIT_COUNT \in Capacity
    BY WidthsAre DEF Capacity
  <2>2. << >> \in Seq(Bit)
    OBVIOUS
  <2>3. 0 \in Nat /\ 0 \in Color \ {Col_blue}
    BY DEF Color, Col_blue
  <2> QED BY <1>1, <1>2, <1>3, <2>1, <2>2, <2>3 DEF Sound
<1>5. Chain(<< >>, 0, d)
  <2>1. Start \in Place /\ Start.rep = 0 /\ Start.ri = 0 /\ Len(<< >>) = 0
    BY DEF Start, Place, Color, Col_blue
  <2>2. d \in [0 .. 0 -> Place] /\ d[0] = Start
    BY <2>1
  <2>3. \A k \in 0 .. (0 - 1) : Reads(<< >>, d[k], d[k + 1])
    OBVIOUS
  <2> HIDE DEF d
  <2> QED BY <2>1, <2>2, <2>3 DEF Chain
<1>6. d[0].prev = l.prev_color
  BY <1>1 DEF Start
<1> HIDE DEF d
<1>7. 0 \in 0 .. 0 /\ 0 + l.repeat_count = 0 /\ \A k \in (0 + 1) .. 0 : c[k] = l.prev_color
  BY <1>1
<1>8. Gives(d, 0, c)
  BY DEF Gives
<1>9. Chain(l.colors, 0, d)
  BY <1>1, <1>5
<1> QED BY <1>1, <1>4, <1>6, <1>7, <1>8, <1>9 DEF Holds, l

\* Bits are put behind the others; the array has grown far enough.
LEMMA WritesBits ==
    ASSUME NEW l, Sound(l), NEW b \in Seq(Bit), NEW w, w = writebits(l, b)
    PROVE  /\ Sound(w) /\ w.colors = l.colors \o b /\ w.readindex = l.readindex
           /\ w.prev_color = l.prev_color /\ w.repeat_count = l.repeat_count
<1>1. /\ DOMAIN l = LogFields /\ l.colors \in Seq(Bit) /\ l.bitcap \in Capacity /\ l.ok
  BY DEF Sound
<1> DEFINE n == Len(l.colors) + Len(b)
           cap == Doubled(l.bitcap, n)
<1>2. l.colors \o b \in Seq(Bit) /\ n \in Nat
  <2>1. Len(l.colors) \in Nat /\ Len(b) \in Nat
    BY <1>1, LenProperties
  <2> QED BY <1>1, <2>1, BitsOnEnd
<1>3. cap \in Capacity /\ n <= cap /\ cap <= 8 * bitarray_sizebytes(cap)
  <2> HIDE DEF n
  <2>1. cap \in Capacity /\ n <= cap
    BY <1>1, <1>2, DoubledIs
  <2> HIDE DEF cap
  <2> QED BY <2>1, BytesHold
<1>4. n <= 8 * bitarray_sizebytes(cap)
  <2>1. bitarray_sizebytes(cap) \in Int
    <3>1. \A h \in Nat \ {0} : wordalign(h) \in Int
      BY DEF wordalign
    <3>2. cap \div 8 \in Nat \ {0}
      <4> HIDE DEF cap
      <4> QED BY <1>3 DEF Capacity
    <3> QED BY <3>1, <3>2 DEF bitarray_sizebytes
  <2>2. cap \in Nat
    BY <1>3 DEF Capacity
  <2> HIDE DEF n, cap
  <2> QED BY <1>2, <1>3, <2>1, <2>2
<1>5. /\ DOMAIN w = LogFields /\ w.colors = l.colors \o b /\ w.bitcap = cap
      /\ w.readindex = l.readindex
      /\ w.prev_color = l.prev_color /\ w.repeat_count = l.repeat_count
  BY <1>1 DEF writebits, writeindex, bitarray_set, LogFields
<1>6. w.ok
  BY <1>1, <1>4 DEF writebits, writeindex, LogFields
<1> QED BY <1>1, <1>2, <1>3, <1>5, <1>6 DEF Sound

\* The pending repeats come behind what is in the array.
LEMMA FlushedRepeats ==
    ASSUME NEW l, NEW n \in Nat, NEW c, Holds(l, n, c)
    PROVE  /\ RepeatBits(l.repeat_count) \in Seq(Bit)
           /\ \E e : /\ Chain(l.colors \o RepeatBits(l.repeat_count), n, e)
                     /\ Gives(e, n, c) /\ e[n].prev = l.prev_color
<1> PICK r, t : r = l.repeat_count /\ t = RepeatBits(l.repeat_count)
  OBVIOUS
<1>1. Sound(l) /\ l.colors \in Seq(Bit) /\ r \in Nat
  BY DEF Holds, Sound
<1>2. PICK m \in 0 .. n : \E d :
        /\ Chain(l.colors, m, d) /\ Gives(d, m, c)
        /\ m + r = n /\ d[m].prev = l.prev_color
        /\ \A k \in (m + 1) .. n : c[k] = l.prev_color
  BY DEF Holds
<1>3. PICK d :
        /\ Chain(l.colors, m, d) /\ Gives(d, m, c)
        /\ m + r = n /\ d[m].prev = l.prev_color
        /\ \A k \in (m + 1) .. n : c[k] = l.prev_color
  BY <1>2
<1>4. t \in Seq(Bit) /\ Repeats(t, r)
  BY <1>1, RepeatBitsAre
<1>5. m \in Nat
  OBVIOUS
<1>6. PICK e : Chain(l.colors \o t, m + r, e) /\ GoesOn(m, d, e) /\ SameColor(m, r, d, e)
  BY <1>1, <1>3, <1>4, <1>5 DEF Repeats
<1>7. Gives(e, n, c)
  <2> SUFFICES ASSUME NEW k \in 1 .. n PROVE e[k].prev = c[k]
    BY DEF Gives
  <2>1. CASE k <= m
    <3>1. k \in 1 .. m /\ k \in 0 .. m
      BY <2>1
    <3> QED BY <1>3, <1>6, <3>1 DEF GoesOn, Gives
  <2>2. CASE ~(k <= m)
    <3>1. PICK j \in 1 .. r : k = m + j
      <4>1. k - m \in 1 .. r /\ k = m + (k - m)
        BY <1>1, <1>3, <2>2
      <4> QED BY <4>1
    <3>2. k \in (m + 1) .. n
      BY <2>2
    <3>3. e[m + j].prev = d[m].prev
      BY <1>6, <3>1 DEF SameColor
    <3>4. c[k] = l.prev_color
      BY <1>3, <3>2
    <3> QED BY <1>3, <3>1, <3>3, <3>4
  <2> QED BY <2>1, <2>2
<1>8. e[n].prev = l.prev_color
  <2>1. CASE r = 0
    <3>1. m = n /\ m \in 0 .. m
      BY <1>3, <2>1
    <3> QED BY <1>3, <1>6, <3>1 DEF GoesOn
  <2>2. CASE r # 0
    <3>1. r \in 1 .. r
      BY <1>1, <2>2
    <3>2. e[m + r].prev = d[m].prev
      BY <1>6, <3>1 DEF SameColor
    <3> QED BY <1>3, <3>2
  <2> QED BY <2>1, <2>2
<1> QED BY <1>3, <1>4, <1>6, <1>7, <1>8

\* A colour comes behind other bits.
LEMMA ChainColorBehind ==
    ASSUME NEW a \in Seq(Bit), NEW t \in Seq(Bit), NEW n \in Nat, NEW e, Chain(a \o t, n, e),
           NEW col \in Color \ {Col_blue}
    PROVE  \E f : /\ Chain(a \o (t \o IntBits(col, 2)), n + 1, f) /\ GoesOn(n, e, f)
                  /\ f[n + 1].prev = col
<1>1. IntBits(col, 2) \in Seq(Bit)
  <2>1. col \in Nat /\ 2 \in Nat
    BY DEF Color
  <2> QED BY <2>1, IntBitsAre
<1>2. a \o t \in Seq(Bit)
  BY BitsOnEnd
<1>3. \E f : /\ Chain((a \o t) \o IntBits(col, 2), n + 1, f) /\ GoesOn(n, e, f)
             /\ f[n + 1].prev = col
  <2>1. \A b \in Seq(Bit) : Chain(b, n, e) =>
           \E f : /\ Chain(b \o IntBits(col, 2), n + 1, f) /\ GoesOn(n, e, f)
                 /\ f[n + 1].prev = col
    BY ChainColor
  <2> QED BY <1>2, <2>1
<1>4. (a \o t) \o IntBits(col, 2) = a \o (t \o IntBits(col, 2))
  <2> PICK u \in Seq(Bit) : u = IntBits(col, 2)
    BY <1>1
  <2>1. (a \o t) \o u = a \o (t \o u)
    BY ConcatAssociative
  <2> QED BY <2>1
<1> QED BY <1>3, <1>4

\* The pending repeats and a colour are written.
LEMMA WritesOneColor ==
    ASSUME NEW l, Sound(l), NEW t \in Seq(Bit), NEW n \in Nat, NEW e,
           Chain(l.colors \o t, n, e), NEW col \in Color \ {Col_blue}
    PROVE  /\ Sound(writebits(l, t \o IntBits(col, 2)))
           /\ writebits(l, t \o IntBits(col, 2)).readindex = l.readindex
           /\ \E f : /\ Chain(writebits(l, t \o IntBits(col, 2)).colors, n + 1, f)
                     /\ GoesOn(n, e, f) /\ f[n + 1].prev = col
<1>1. t \o IntBits(col, 2) \in Seq(Bit)
  <2>1. col \in Nat /\ 2 \in Nat
    BY DEF Color
  <2>2. IntBits(col, 2) \in Seq(Bit)
    BY <2>1, IntBitsAre
  <2> QED BY <2>2, BitsOnEnd
<1>2. PICK a \in Seq(Bit) : a = l.colors
  BY DEF Sound
<1>3. \E f : /\ Chain(a \o (t \o IntBits(col, 2)), n + 1, f) /\ GoesOn(n, e, f)
             /\ f[n + 1].prev = col
  <2>1. Chain(a \o t, n, e)
    BY <1>2
  <2> HIDE <1>2
  <2> QED BY <2>1, ChainColorBehind
<1>4. PICK tu \in Seq(Bit) : tu = t \o IntBits(col, 2)
  BY <1>1
<1>5. /\ Sound(writebits(l, tu)) /\ writebits(l, tu).colors = l.colors \o tu
      /\ writebits(l, tu).readindex = l.readindex
  BY WritesBits
<1> QED BY <1>2, <1>3, <1>4, <1>5

\* One more colour is written.
LEMMA LogWrites ==
    ASSUME NEW l, NEW n \in Nat, NEW c, Holds(l, n, c),
           NEW col \in Color \ {Col_blue},
           NEW cc, \A k \in 1 .. n : cc[k] = c[k], cc[n + 1] = col
    PROVE  Holds(writecolor(l, col), n + 1, cc)
<1>1. Sound(l) /\ DOMAIN l = LogFields /\ l.repeat_count \in Nat /\ l.readindex = 0 /\ l.ok
      /\ l.colors \in Seq(Bit)
  BY DEF Holds, Sound
<1>2. col # Col_blue
  OBVIOUS
<1>3. CASE col = l.prev_color
  <2> DEFINE w == writecolor(l, col)
  <2>1. w = [[l EXCEPT !.repeat_count = @ + 1] EXCEPT !.ok = @ /\ col # Col_blue]
    BY <1>3 DEF writecolor, rle_write
  <2>2. /\ DOMAIN w = LogFields /\ w.colors = l.colors /\ w.bitcap = l.bitcap
        /\ w.readindex = 0 /\ w.prev_color = l.prev_color /\ w.repeat_count = l.repeat_count + 1
    BY <1>1, <2>1 DEF LogFields
  <2>3. w.ok
    BY <1>1, <1>2, <2>1 DEF LogFields
  <2> HIDE DEF w
  <2>4. Sound(w)
    BY <1>1, <2>2, <2>3 DEF Sound
  <2>5. PICK m \in 0 .. n : \E d :
          /\ Chain(l.colors, m, d) /\ Gives(d, m, c)
          /\ m + l.repeat_count = n /\ d[m].prev = l.prev_color
          /\ \A k \in (m + 1) .. n : c[k] = l.prev_color
    BY DEF Holds
  <2>6. PICK d :
          /\ Chain(l.colors, m, d) /\ Gives(d, m, c)
          /\ m + l.repeat_count = n /\ d[m].prev = l.prev_color
          /\ \A k \in (m + 1) .. n : c[k] = l.prev_color
    BY <2>5
  <2>7. Gives(d, m, cc)
    <3>1. \A k \in 1 .. m : k \in 1 .. n
      OBVIOUS
    <3> QED BY <2>6, <3>1 DEF Gives
  <2>8. \A k \in (m + 1) .. (n + 1) : cc[k] = w.prev_color
    <3>1. \A k \in (m + 1) .. (n + 1) : k = n + 1 \/ (k \in (m + 1) .. n /\ k \in 1 .. n)
      OBVIOUS
    <3> QED BY <1>3, <2>2, <2>6, <3>1
  <2>9. m \in 0 .. (n + 1) /\ m + w.repeat_count = n + 1 /\ d[m].prev = w.prev_color
        /\ Chain(w.colors, m, d)
    BY <1>1, <2>2, <2>6
  <2>10. Holds(w, n + 1, cc)
    BY <2>2, <2>4, <2>7, <2>8, <2>9 DEF Holds
  <2> QED BY <2>10 DEF w
<1>4. CASE col # l.prev_color
  <2> PICK t, v : t = RepeatBits(l.repeat_count) /\ v = writebits(l, t \o IntBits(col, 2))
    OBVIOUS
  <2> DEFINE w == writecolor(l, col)
  <2>1. w = [[v EXCEPT !.prev_color = col, !.repeat_count = 0] EXCEPT !.ok = @ /\ col # Col_blue]
    BY <1>4 DEF writecolor, rle_write
  <2>2. t \in Seq(Bit)
    BY FlushedRepeats
  <2>3. PICK e : Chain(l.colors \o t, n, e) /\ Gives(e, n, c)
    BY FlushedRepeats
  <2>4. /\ Sound(v) /\ v.readindex = l.readindex
        /\ \E f : Chain(v.colors, n + 1, f) /\ GoesOn(n, e, f) /\ f[n + 1].prev = col
    <3>1. v = writebits(l, t \o IntBits(col, 2))
      OBVIOUS
    <3>2. Chain(l.colors \o t, n, e)
      BY <2>3
    <3>3. ASSUME NEW ll, Sound(ll), NEW tt \in Seq(Bit), Chain(ll.colors \o tt, n, e)
          PROVE  /\ Sound(writebits(ll, tt \o IntBits(col, 2)))
                 /\ writebits(ll, tt \o IntBits(col, 2)).readindex = ll.readindex
                 /\ \E f : /\ Chain(writebits(ll, tt \o IntBits(col, 2)).colors, n + 1, f)
                           /\ GoesOn(n, e, f) /\ f[n + 1].prev = col
      BY <3>3, WritesOneColor
    <3>4. /\ Sound(writebits(l, t \o IntBits(col, 2)))
          /\ writebits(l, t \o IntBits(col, 2)).readindex = l.readindex
          /\ \E f : /\ Chain(writebits(l, t \o IntBits(col, 2)).colors, n + 1, f)
                    /\ GoesOn(n, e, f) /\ f[n + 1].prev = col
      <4>1. Sound(l)
        BY <1>1
      <4> QED BY <4>1, <2>2, <3>2, <3>3
    <3> QED BY <3>1, <3>4
  <2>5. DOMAIN v = LogFields /\ v.ok
    BY <2>4 DEF Sound
  <2>6. /\ DOMAIN w = LogFields /\ w.colors = v.colors /\ w.bitcap = v.bitcap
        /\ w.readindex = 0 /\ w.prev_color = col /\ w.repeat_count = 0
    BY <1>1, <2>1, <2>4, <2>5 DEF LogFields
  <2>7. w.ok
    BY <1>2, <2>1, <2>5 DEF LogFields
  <2> HIDE DEF w
  <2>8. Sound(w)
    BY <2>4, <2>6, <2>7 DEF Sound
  <2>9. PICK f : Chain(w.colors, n + 1, f) /\ GoesOn(n, e, f) /\ f[n + 1].prev = col
    BY <2>4, <2>6
  <2>10. Gives(f, n + 1, cc)
    <3>1. \A k \in 1 .. (n + 1) : k = n + 1 \/ (k \in 1 .. n /\ k \in 0 .. n)
      OBVIOUS
    <3> QED BY <2>3, <2>9, <3>1 DEF Gives, GoesOn
  <2>11. /\ n + 1 \in 0 .. (n + 1) /\ (n + 1) + w.repeat_count = n + 1
         /\ f[n + 1].prev = w.prev_color
         /\ \A k \in ((n + 1) + 1) .. (n + 1) : cc[k] = w.prev_color
    BY <2>6, <2>9
  <2>12. Holds(w, n + 1, cc)
    BY <2>6, <2>8, <2>9, <2>10, <2>11 DEF Holds
  <2> QED BY <2>12 DEF w
<1> QED BY <1>3, <1>4

\* The first walk is over: the log is read from its beginning.
LEMMA LogTurns ==
    ASSUME NEW l, NEW n \in Nat, NEW c, Holds(l, n, c)
    PROVE  Tells(rle_init(rle_write_flush(l)), n, c, 0)
<1> PICK t, v : t = RepeatBits(l.repeat_count) /\ v = writebits(l, t)
  OBVIOUS
<1> DEFINE w == rle_init(rle_write_flush(l))
<1>1. Sound(l) /\ l.readindex = 0
  BY DEF Holds
<1>2. t \in Seq(Bit)
  BY FlushedRepeats
<1>3. PICK e : Chain(l.colors \o t, n, e) /\ Gives(e, n, c)
  BY FlushedRepeats
<1>4. Sound(v) /\ v.colors = l.colors \o t /\ v.readindex = 0 /\ DOMAIN v = LogFields
  <2>1. Sound(v) /\ v.colors = l.colors \o t /\ v.readindex = 0
    BY <1>1, <1>2, WritesBits
  <2> QED BY <2>1 DEF Sound
<1>5. w = [[v EXCEPT !.repeat_count = 0] EXCEPT !.prev_color = 0, !.repeat_count = 0]
  BY DEF rle_init, rle_write_flush
<1>6. /\ DOMAIN w = LogFields /\ w.colors = v.colors /\ w.bitcap = v.bitcap
      /\ w.readindex = 0 /\ w.prev_color = 0 /\ w.repeat_count = 0
  BY <1>4, <1>5 DEF LogFields
<1>7. w.ok
  <2>1. v.ok
    BY <1>4 DEF Sound
  <2> QED BY <1>4, <1>5, <2>1 DEF LogFields
<1> HIDE DEF w
<1>8. Sound(w)
  <2>1. 0 \in Nat /\ 0 \in Color \ {Col_blue}
    BY DEF Color, Col_blue
  <2> QED BY <1>4, <1>6, <1>7, <2>1 DEF Sound
<1>9. PlaceOf(w) = e[0]
  BY <1>3, <1>6 DEF PlaceOf, Chain, Start
<1>10. 0 \in 0 .. n
  OBVIOUS
<1>11. Chain(w.colors, n, e)
  BY <1>3, <1>4, <1>6
<1>12. Tells(w, n, c, 0)
  BY <1>3, <1>8, <1>9, <1>10, <1>11 DEF Tells
<1> QED BY <1>12 DEF w

\* Reading goes from one place to the next.
LEMMA ReadsOneColor ==
    ASSUME NEW l, Sound(l), NEW u \in Place, Reads(l.colors, PlaceOf(l), u)
    PROVE  /\ Sound(readcolor(l)) /\ readcolor(l).colors = l.colors
           /\ PlaceOf(readcolor(l)) = u
<1> DEFINE w == readcolor(l)
<1>1. /\ DOMAIN l = LogFields /\ l.colors \in Seq(Bit) /\ l.bitcap \in Capacity
      /\ l.readindex \in Nat /\ l.prev_color \in Color \ {Col_blue} /\ l.repeat_count \in Nat
      /\ l.ok
  BY DEF Sound
<1>2. u.ri \in Nat /\ u.prev \in Color \ {Col_blue} /\ u.rep \in Nat
      /\ u = [ri |-> u.ri, prev |-> u.prev, rep |-> u.rep]
  BY DEF Place
<1>3. ASSUME /\ DOMAIN w = LogFields /\ w.colors = l.colors /\ w.bitcap = l.bitcap
             /\ w.readindex = u.ri /\ w.prev_color = u.prev /\ w.repeat_count = u.rep,
             w.ok
      PROVE  Sound(w) /\ w.colors = l.colors /\ PlaceOf(w) = u
  <2> HIDE DEF w
  <2> QED BY <1>1, <1>2, <1>3 DEF Sound, PlaceOf
<1>4. CASE l.repeat_count > 0
  <2>1. w = [l EXCEPT !.repeat_count = @ - 1]
    BY <1>4 DEF readcolor, rle_read
  <2>2. /\ u.ri = l.readindex /\ u.prev = l.prev_color /\ u.rep = l.repeat_count - 1
    BY <1>1, <1>4 DEF Reads, PlaceOf
  <2>3. /\ DOMAIN w = LogFields /\ w.colors = l.colors /\ w.bitcap = l.bitcap
        /\ w.readindex = u.ri /\ w.prev_color = u.prev /\ w.repeat_count = u.rep
    BY <1>1, <2>1, <2>2 DEF LogFields
  <2>4. w.ok
    BY <1>1, <2>1 DEF LogFields
  <2> HIDE DEF w
  <2>5. Sound(w) /\ w.colors = l.colors /\ PlaceOf(w) = u
    BY <1>3, <2>3, <2>4
  <2> QED BY <2>5 DEF w
<1>5. CASE ~(l.repeat_count > 0)
  <2>1. SaysColor(l.colors, PlaceOf(l), u) \/ SaysRepeats(l.colors, PlaceOf(l), u)
    BY <1>1, <1>5 DEF Reads, PlaceOf
  <2>2. CASE SaysColor(l.colors, PlaceOf(l), u)
    <3>1. PICK c \in Color \ {Col_blue} :
            Says(l.colors, l.readindex, 2, c) /\ u = [ri |-> l.readindex + 2, prev |-> c, rep |-> 0]
      BY <2>2 DEF SaysColor, PlaceOf
    <3>2. c \in 0 .. (Shift[2] - 1)
      <4>1. Shift[2] = 4
        BY ShiftIs
      <4> QED BY <4>1 DEF Color
    <3>3. readint(l, l.readindex, 2) = c
      <4>1. 2 \in Nat /\ Says(l.colors, l.readindex, 2, c)
        BY <3>1
      <4> QED BY <1>1, <3>2, <4>1, ReadsWhatIsSaid
    <3>4. Written(l, l.readindex, 2)
      BY <3>1 DEF Written, writeindex, Says
    <3>5. w = [l EXCEPT !.readindex = @ + 2, !.prev_color = c]
      BY <1>5, <3>3, <3>4 DEF readcolor, rle_read
    <3>6. /\ DOMAIN w = LogFields /\ w.colors = l.colors /\ w.bitcap = l.bitcap
          /\ w.readindex = u.ri /\ w.prev_color = u.prev /\ w.repeat_count = l.repeat_count
      BY <1>1, <3>1, <3>5 DEF LogFields
    <3>7. l.repeat_count = 0 /\ u.rep = 0
      BY <1>1, <1>5, <3>1
    <3>8. w.ok
      BY <1>1, <3>5 DEF LogFields
    <3> HIDE DEF w
    <3>9. Sound(w) /\ w.colors = l.colors /\ PlaceOf(w) = u
      BY <1>3, <3>6, <3>7, <3>8
    <3> QED BY <3>9 DEF w
  <2>3. CASE SaysRepeats(l.colors, PlaceOf(l), u)
    <3>1. PICK kind \in Bit : \E n \in 0 .. (Shift[Width(kind)] - 1) :
            /\ Says(l.colors, l.readindex, 2, Col_blue) /\ Says(l.colors, l.readindex + 2, 1, kind)
            /\ Says(l.colors, l.readindex + 3, Width(kind), n)
            /\ Times(kind, n) > 0
            /\ u = [ri |-> l.readindex + 3 + Width(kind), prev |-> l.prev_color,
                    rep |-> Times(kind, n) - 1]
      BY <2>3 DEF SaysRepeats, PlaceOf
    <3>2. PICK n \in 0 .. (Shift[Width(kind)] - 1) :
            /\ Says(l.colors, l.readindex, 2, Col_blue) /\ Says(l.colors, l.readindex + 2, 1, kind)
            /\ Says(l.colors, l.readindex + 3, Width(kind), n)
            /\ Times(kind, n) > 0
            /\ u = [ri |-> l.readindex + 3 + Width(kind), prev |-> l.prev_color,
                    rep |-> Times(kind, n) - 1]
      BY <3>1
    <3>3. Width(kind) \in Nat
      BY WidthIs
    <3>4. readint(l, l.readindex, 2) = Col_blue
      <4>1. Col_blue \in 0 .. (Shift[2] - 1)
        <5>1. Shift[2] = 4
          BY ShiftIs
        <5> QED BY <5>1 DEF Col_blue
      <4>2. 2 \in Nat /\ Says(l.colors, l.readindex, 2, Col_blue)
        BY <3>2
      <4> QED BY <1>1, <4>1, <4>2, ReadsWhatIsSaid
    <3>5. readint(l, l.readindex + 2, 1) = kind
      <4>1. kind \in 0 .. (Shift[1] - 1)
        <5>1. Shift[1] = 2
          BY ShiftIs
        <5> QED BY <5>1 DEF Bit
      <4>2. 1 \in Nat /\ l.readindex + 2 \in Nat /\ Says(l.colors, l.readindex + 2, 1, kind)
        BY <1>1, <3>2
      <4> QED BY <4>1, <4>2, ReadsWhatIsSaid
    <3>6. readint(l, l.readindex + 3, Width(kind)) = n
      <4>1. l.readindex + 3 \in Nat /\ Says(l.colors, l.readindex + 3, Width(kind), n)
        BY <1>1, <3>2
      <4> QED BY <3>3, <4>1, ReadsWhatIsSaid
    <3>7. /\ Written(l, l.readindex, 2)
          /\ Written(l, l.readindex + 2, 1 + Width(kind))
      <4>1. /\ l.readindex + 2 <= Len(l.colors)
            /\ l.readindex + 3 + Width(kind) <= Len(l.colors)
        BY <3>2 DEF Says
      <4>2. l.readindex + 2 + (1 + Width(kind)) = l.readindex + 3 + Width(kind)
        <5>1. \A r \in Nat, k \in Nat : r + 2 + (1 + k) = r + 3 + k
          OBVIOUS
        <5> QED BY <1>1, <3>3, <5>1
      <4> QED BY <4>1, <4>2 DEF Written, writeindex
    <3>8. w = ReadRepeats(l)
      BY <1>5, <3>4, <3>7 DEF readcolor, rle_read
    <3>9. (l.readindex + 2) + 1 = l.readindex + 3
      BY <1>1
    <3>10. w = [l EXCEPT !.readindex = l.readindex + 3 + Width(kind),
                         !.repeat_count = Times(kind, n) - 1]
      <4>1. Width(kind) = IF kind = 0 THEN BITS_FOR_COUNT ELSE BITS_FOR_ORDER
        BY DEF Width
      <4>2. Times(kind, n) = IF kind = 0 THEN n ELSE Shift[n]
        BY DEF Times
      <4> DEFINE at == l.readindex + 2
                 exact == readint(l, at, 1) = 0
                 width == IF exact THEN BITS_FOR_COUNT ELSE BITS_FOR_ORDER
                 m == readint(l, at + 1, width)
                 count == IF exact THEN m ELSE Shift[m]
      <4>3. width = Width(kind)
        BY <3>5, <4>1
      <4>4. m = n
        BY <3>6, <3>9, <4>3
      <4>5. count = Times(kind, n)
        BY <3>5, <4>2, <4>4
      <4>6. w = IF Written(l, at, 1 + width) /\ count > 0
                THEN [l EXCEPT !.readindex = at + 1 + width, !.repeat_count = count - 1]
                ELSE [l EXCEPT !.ok = FALSE]
        BY <3>8 DEF ReadRepeats
      <4>7. at + 1 + width = l.readindex + 3 + Width(kind)
        BY <3>9, <4>3
      <4>8. Written(l, at, 1 + width) /\ count > 0
        BY <3>2, <3>7, <4>3, <4>5
      <4> HIDE DEF w, at, exact, width, m, count
      <4> QED BY <4>5, <4>6, <4>7, <4>8
    <3>11. /\ DOMAIN w = LogFields /\ w.colors = l.colors /\ w.bitcap = l.bitcap
           /\ w.readindex = u.ri /\ w.prev_color = u.prev /\ w.repeat_count = u.rep
      <4> HIDE DEF w
      <4> QED BY <1>1, <3>2, <3>10 DEF LogFields
    <3>12. w.ok
      <4> HIDE DEF w
      <4> QED BY <1>1, <3>10 DEF LogFields
    <3> HIDE DEF w
    <3>13. Sound(w) /\ w.colors = l.colors /\ PlaceOf(w) = u
      BY <1>3, <3>11, <3>12
    <3> QED BY <3>13 DEF w
  <2> QED BY <2>1, <2>2, <2>3
<1> QED BY <1>4, <1>5

\* The next colour is read.
LEMMA LogReads ==
    ASSUME NEW l, NEW n \in Nat, NEW c, NEW j, Tells(l, n, c, j), j < n
    PROVE  /\ j \in Nat /\ Tells(readcolor(l), n, c, j + 1)
           /\ readcolor(l).prev_color = c[j + 1] /\ readcolor(l).ok
<1>1. Sound(l) /\ j \in 0 .. n
  BY DEF Tells
<1>2. PICK d : Chain(l.colors, n, d) /\ Gives(d, n, c) /\ PlaceOf(l) = d[j]
  BY DEF Tells
<1>3. j \in 0 .. (n - 1) /\ j + 1 \in 0 .. n /\ j + 1 \in 1 .. n /\ j \in Nat
  BY <1>1
<1>4. Reads(l.colors, d[j], d[j + 1]) /\ d[j + 1] \in Place
  BY <1>2, <1>3 DEF Chain
<1>5. /\ Sound(readcolor(l)) /\ readcolor(l).colors = l.colors
      /\ PlaceOf(readcolor(l)) = d[j + 1]
  <2>1. Reads(l.colors, PlaceOf(l), d[j + 1])
    BY <1>2, <1>4
  <2> QED BY <1>1, <1>4, <2>1, ReadsOneColor
<1>6. readcolor(l).prev_color = d[j + 1].prev
  BY <1>5 DEF PlaceOf
<1>7. d[j + 1].prev = c[j + 1]
  BY <1>2, <1>3 DEF Gives
<1>8. Chain(readcolor(l).colors, n, d)
  BY <1>2, <1>5
<1>9. Tells(readcolor(l), n, c, j + 1)
  BY <1>2, <1>3, <1>5, <1>8 DEF Tells
<1>10. readcolor(l).ok
  BY <1>5 DEF Sound
<1> QED BY <1>3, <1>6, <1>7, <1>9, <1>10

\* When every colour was read, nothing is left of the log.
LEMMA LogEnds ==
    ASSUME NEW l, NEW n \in Nat, NEW c, Tells(l, n, c, n)
    PROVE  rle_read_flush(l).ok
<1>1. PICK d : Chain(l.colors, n, d) /\ Gives(d, n, c) /\ PlaceOf(l) = d[n]
  BY DEF Tells
<1>2. d[n].rep = 0 /\ d[n].ri = Len(l.colors)
  BY <1>1 DEF Chain
<1>3. l.repeat_count = 0 /\ l.readindex = Len(l.colors)
  BY <1>1, <1>2 DEF PlaceOf
<1>4. Sound(l)
  BY DEF Tells
<1>5. DOMAIN l = LogFields /\ l.ok
  BY <1>4 DEF Sound
<1>6. l.ok /\ l.repeat_count = 0 /\ l.readindex = writeindex(l)
  BY <1>3, <1>5 DEF writeindex
<1>7. rle_read_flush(l) = [l EXCEPT !.ok = l.ok /\ l.repeat_count = 0 /\ l.readindex = writeindex(l)]
  BY <1>5, <1>6 DEF rle_read_flush
<1> QED BY <1>5, <1>6 DEF rle_read_flush, LogFields
-----------------------------------------------------------------------------
(* The order of the blocks *)

Has(ord, v) == \E i \in 1 .. Len(ord) : ord[i] = v
Distinct(ord) == \A i, j \in 1 .. Len(ord) : ord[i] = ord[j] => i = j
Begins(a, b) == Len(a) <= Len(b) /\ \A i \in 1 .. Len(a) : a[i] = b[i]

\* p comes behind the others, unless it is among them.
Fresh(ord, p) == p \in Node /\ ~Has(ord, p)
Met(ord, p) == IF Fresh(ord, p) THEN Append(ord, p) ELSE ord

LEMMA MetIs ==
    ASSUME NEW ord \in Seq(Node), Distinct(ord), NEW p
    PROVE  /\ Met(ord, p) \in Seq(Node) /\ Distinct(Met(ord, p)) /\ Begins(ord, Met(ord, p))
           /\ Fresh(ord, p) =>
                /\ Len(Met(ord, p)) = Len(ord) + 1 /\ Len(ord) \in Nat
                /\ Met(ord, p)[Len(ord) + 1] = p
                /\ \A k \in 1 .. Len(ord) : Met(ord, p)[k] = ord[k]
                /\ \A v : Has(Met(ord, p), v) <=> (Has(ord, v) \/ v = p)
           /\ ~Fresh(ord, p) => Met(ord, p) = ord
<1>1. CASE Fresh(ord, p)
  <2> PICK o : o = Append(ord, p)
    OBVIOUS
  <2>1. p \in Node /\ ~Has(ord, p) /\ Met(ord, p) = o
    BY <1>1 DEF Fresh, Met
  <2>2. /\ o \in Seq(Node) /\ Len(o) = Len(ord) + 1 /\ o[Len(ord) + 1] = p /\ Len(ord) \in Nat
        /\ \A k \in 1 .. Len(ord) : o[k] = ord[k]
    BY <2>1, AppendProperties, LenProperties
  <2> DEFINE n == Len(ord)
  <2>3. \A k \in 1 .. (n + 1) : k \in 1 .. n \/ k = n + 1
    BY <2>2
  <2>4. n + 1 \in 1 .. (n + 1) /\ \A k \in 1 .. n : k \in 1 .. (n + 1)
    BY <2>2
  <2>5. \A k \in 1 .. n : ord[k] # p
    BY <2>1 DEF Has
  <2>6. Distinct(o)
    <3> SUFFICES ASSUME NEW i \in 1 .. (n + 1), NEW j \in 1 .. (n + 1), o[i] = o[j] PROVE i = j
      BY <2>2 DEF Distinct
    <3> HIDE DEF n
    <3> QED BY <2>2, <2>3, <2>5 DEF Distinct, n
  <2>7. \A v : Has(o, v) <=> (Has(ord, v) \/ v = p)
    <3>1. Len(o) = n + 1
      BY <2>2
    <3> QED BY <2>2, <2>3, <2>4, <3>1 DEF Has
  <2>8. Begins(ord, o)
    BY <2>2 DEF Begins
  <2> QED BY <1>1, <2>1, <2>2, <2>6, <2>7, <2>8
<1>2. CASE ~Fresh(ord, p)
  <2>1. Met(ord, p) = ord /\ Len(ord) \in Nat
    BY <1>2, LenProperties DEF Met
  <2> QED BY <1>2, <2>1 DEF Begins
<1> QED BY <1>1, <1>2

LEMMA BeginsOn ==
    ASSUME NEW a \in Seq(Node), NEW b \in Seq(Node), NEW c \in Seq(Node), Begins(a, b), Begins(b, c)
    PROVE  Begins(a, c)
<1>1. Len(a) \in Nat /\ Len(b) \in Nat /\ Len(c) \in Nat
  BY LenProperties
<1> QED BY <1>1 DEF Begins

LEMMA HasMore ==
    ASSUME NEW a \in Seq(Node), NEW b \in Seq(Node), Begins(a, b), NEW v, Has(a, v)
    PROVE  Has(b, v)
<1>1. Len(a) \in Nat /\ Len(b) \in Nat
  BY LenProperties
<1> QED BY <1>1 DEF Begins, Has

\* The colours that the blocks had, in this order.
Colours(sv, ord) == [k \in 1 .. Len(ord) |-> sv[ord[k]]]

\* The headers when the blocks of ord are marked, and when those behind ord are.
Marked(sv, ord) == [n \in Node |-> IF Has(ord, n) THEN Col_blue ELSE sv[n]]
Half(sv, full, ord) ==
    [n \in Node |-> IF Has(full, n) /\ ~Has(ord, n) THEN Col_blue ELSE sv[n]]

\* One more block is marked.
LEMMA MarksOne ==
    ASSUME NEW sv \in [Node -> LiveColors], NEW ord \in Seq(Node), Distinct(ord),
           NEW l, Holds(l, Len(ord), Colours(sv, ord)), NEW p, Fresh(ord, p)
    PROVE  LET col == Marked(sv, ord) o == Met(ord, p) IN
           /\ [col EXCEPT ![p] = Col_blue] = Marked(sv, o)
           /\ Holds(writecolor(l, col[p]), Len(o), Colours(sv, o))
<1> DEFINE col == Marked(sv, ord)
           o == Met(ord, p)
           n == Len(ord)
           c == Colours(sv, ord)
           cc == Colours(sv, o)
<1>1. /\ o \in Seq(Node) /\ Len(o) = n + 1 /\ n \in Nat /\ o[n + 1] = p
      /\ \A k \in 1 .. n : o[k] = ord[k]
      /\ \A v : Has(o, v) <=> (Has(ord, v) \/ v = p)
  BY MetIs
<1>2. p \in Node /\ ~Has(ord, p)
  BY DEF Fresh
<1>3. col[p] = sv[p] /\ sv[p] \in Color \ {Col_blue}
  BY <1>2, ColorAssumption DEF Marked
<1>4. [col EXCEPT ![p] = Col_blue] = Marked(sv, o)
  BY <1>1, <1>2 DEF Marked
<1>5. \A k \in 1 .. n : cc[k] = c[k]
  BY <1>1 DEF Colours
<1>6. cc[n + 1] = sv[p]
  BY <1>1 DEF Colours
<1>7. Holds(l, n, c)
  OBVIOUS
<1> HIDE DEF col, o, n, c, cc
<1>8. Holds(writecolor(l, sv[p]), n + 1, cc)
  BY <1>1, <1>3, <1>5, <1>6, <1>7, LogWrites
<1> QED BY <1>1, <1>3, <1>4, <1>8 DEF col, o, cc

\* One more block gets back its colour.
LEMMA UnmarksOne ==
    ASSUME NEW sv \in [Node -> LiveColors], NEW ord \in Seq(Node), Distinct(ord),
           NEW full \in Seq(Node), Distinct(full), NEW p, Fresh(ord, p), Begins(Met(ord, p), full),
           NEW l, Tells(l, Len(full), Colours(sv, full), Len(ord))
    PROVE  LET r == readcolor(l) o == Met(ord, p) IN
           /\ [Half(sv, full, ord) EXCEPT ![p] = r.prev_color] = Half(sv, full, o)
           /\ Tells(r, Len(full), Colours(sv, full), Len(o))
<1> DEFINE r == readcolor(l)
           o == Met(ord, p)
           n == Len(full)
           c == Colours(sv, full)
           j == Len(ord)
<1>1. /\ o \in Seq(Node) /\ Len(o) = j + 1 /\ j \in Nat /\ o[j + 1] = p
      /\ \A v : Has(o, v) <=> (Has(ord, v) \/ v = p)
  BY MetIs
<1>2. n \in Nat
  BY LenProperties
<1>3. j < n /\ full[j + 1] = p /\ j + 1 \in 1 .. n
  <2>1. Len(o) <= n /\ \A i \in 1 .. Len(o) : o[i] = full[i]
    BY DEF Begins
  <2>2. j + 1 \in 1 .. (j + 1)
    BY <1>1
  <2> HIDE DEF o, n, j
  <2> QED BY <1>1, <1>2, <2>1, <2>2
<1>4. c[j + 1] = sv[p]
  BY <1>3 DEF Colours
<1>5. Tells(l, n, c, j)
  OBVIOUS
<1>6. Has(full, p) /\ p \in Node
  BY <1>3 DEF Has, Fresh
<1>7. Tells(r, n, c, j + 1) /\ r.prev_color = c[j + 1]
  <2> HIDE DEF o, n, c, j
  <2> QED BY <1>2, <1>3, <1>5, LogReads
<1>8. [Half(sv, full, ord) EXCEPT ![p] = sv[p]] = Half(sv, full, o)
  BY <1>1, <1>6 DEF Half
<1> QED BY <1>1, <1>4, <1>7, <1>8
-----------------------------------------------------------------------------
(* The search that both walks are *)

\* A pending call; its fields are Frame's.
Pending == [v : Node, i : Nat \ {0}, prev : Node \union {Val_unit}, depth : Nat]

\* The excluded blocks come first, then those the walk meets.
Search == [ph : {"list", "walk"}, todo : Seq(Node), fr : Seq(Pending), ord : Seq(Node)]

\* The child the call on top comes to, if any, and the stack below that child.
Tried(h, fr) ==
    LET t == fr[Len(fr)]
    IN  IF t.i > Len(h.fields[t.v]) \/ IsBlock(h.fields[t.v][t.i]) THEN t.prev ELSE Val_unit

Turned(h, t) ==
    [t EXCEPT !.i = @ + 1, !.prev = IF IsBlock(h.fields[t.v][t.i]) THEN h.fields[t.v][t.i] ELSE @]

Rest(h, fr) ==
    LET t == fr[Len(fr)]
    IN  IF t.i > Len(h.fields[t.v]) THEN SubSeq(fr, 1, Len(fr) - 1) ELSE Replaced(fr, Turned(h, t))

Opened(h, ord, p, d, below) ==
    IF Fresh(ord, p) /\ p \notin h.noscan THEN Append(below, Frame(p, d)) ELSE below

Listing(s) == s.ph = "list" /\ s.todo # << >>
Over(s) == s.ph = "walk" /\ s.fr = << >>

Candidate(h, start, s) ==
    IF Listing(s) THEN Head(s.todo) ELSE IF s.ph = "list" THEN start ELSE Tried(h, s.fr)

Turn(h, start, s) ==
    IF Listing(s)
    THEN [ph |-> "list", todo |-> Tail(s.todo), fr |-> s.fr, ord |-> Met(s.ord, Head(s.todo))]
    ELSE IF s.ph = "list"
    THEN [ph |-> "walk", todo |-> << >>, fr |-> Opened(h, s.ord, start, 0, << >>),
          ord |-> Met(s.ord, start)]
    ELSE [ph |-> "walk", todo |-> << >>,
          fr |-> Opened(h, s.ord, Tried(h, s.fr), s.fr[Len(s.fr)].depth + 1, Rest(h, s.fr)),
          ord |-> Met(s.ord, Tried(h, s.fr))]

\* The fields of a block.
LEMMA FieldsAre ==
    ASSUME NEW h \in Heaps, NEW v \in Node
    PROVE  /\ Len(h.fields[v]) \in Nat
           /\ \A i \in 1 .. Len(h.fields[v]) : h.fields[v][i] \in Node \union {Val_unit}
<1>1. h.fields \in [Node -> Seq(Node \union {Val_unit})]
  BY HeapAssumption
<1>2. h.fields[v] \in Seq(Node \union {Val_unit})
  BY <1>1
<1> QED BY <1>2, LenProperties, ElementOfSeq

LEMMA TurnedIs ==
    ASSUME NEW h \in Heaps, NEW t \in Pending, ~(t.i > Len(h.fields[t.v]))
    PROVE  /\ Turned(h, t) \in Pending
           /\ Turned(h, t).v = t.v /\ Turned(h, t).i = t.i + 1
           /\ Turned(h, t).prev = IF IsBlock(h.fields[t.v][t.i]) THEN h.fields[t.v][t.i] ELSE t.prev
<1> DEFINE f == h.fields[t.v][t.i]
           j == t.i + 1
           p == IF IsBlock(f) THEN f ELSE t.prev
<1>1. /\ t.v \in Node /\ t.i \in Nat \ {0} /\ t.prev \in Node \union {Val_unit}
  BY DEF Pending
<1>2. t.i \in 1 .. Len(h.fields[t.v])
  <2>1. Len(h.fields[t.v]) \in Nat
    BY <1>1, FieldsAre
  <2> QED BY <1>1, <2>1
<1>3. j \in Nat \ {0} /\ p \in Node \union {Val_unit}
  BY <1>1, <1>2, FieldsAre
<1>4. Turned(h, t) = [t EXCEPT !.i = j, !.prev = p]
  BY DEF Turned
<1> HIDE DEF j, p
<1>5. /\ Turned(h, t) \in Pending
      /\ Turned(h, t).v = t.v /\ Turned(h, t).i = j /\ Turned(h, t).prev = p
  BY <1>1, <1>3, <1>4 DEF Pending
<1> QED BY <1>5 DEF j, p

LEMMA RestIsTyped ==
    ASSUME NEW h \in Heaps, NEW fr \in Seq(Pending), fr # << >>
    PROVE  /\ Rest(h, fr) \in Seq(Pending) /\ Tried(h, fr) \in Node \union {Val_unit}
           /\ fr[Len(fr)].depth \in Nat
<1> DEFINE t == fr[Len(fr)]
           low == SubSeq(fr, 1, Len(fr) - 1)
<1>1. Len(fr) \in Nat \ {0} /\ \A k \in 1 .. Len(fr) : fr[k] \in Pending
  BY Stacks
<1>2. t \in Pending
  <2>1. Len(fr) \in 1 .. Len(fr)
    BY <1>1
  <2> QED BY <1>1, <2>1
<1>3. low \in Seq(Pending)
  BY Lower
<1>4. t.depth \in Nat /\ t.prev \in Node \union {Val_unit}
  BY <1>2 DEF Pending
<1>5. Tried(h, fr) \in Node \union {Val_unit}
  BY <1>4 DEF Tried
<1>6. CASE t.i > Len(h.fields[t.v])
  <2>1. Rest(h, fr) = low
    BY <1>6 DEF Rest
  <2> QED BY <1>3, <1>4, <1>5, <2>1
<1>7. CASE ~(t.i > Len(h.fields[t.v]))
  <2>1. Rest(h, fr) = Append(low, Turned(h, t))
    BY <1>7 DEF Rest, Replaced
  <2>2. Turned(h, t) \in Pending
    BY <1>2, <1>7, TurnedIs
  <2> HIDE DEF low, t
  <2>3. Append(low, Turned(h, t)) \in Seq(Pending)
    BY <1>3, <2>2, AppendProperties
  <2> QED BY <1>4, <1>5, <2>1, <2>3 DEF t
<1> QED BY <1>6, <1>7

LEMMA OpenedIsTyped ==
    ASSUME NEW h, NEW ord, NEW p, NEW d \in Nat, NEW low \in Seq(Pending)
    PROVE  Opened(h, ord, p, d, low) \in Seq(Pending)
<1>1. p \in Node => Frame(p, d) \in Pending
  BY DEF Frame, Pending
<1>2. p \in Node => Append(low, Frame(p, d)) \in Seq(Pending)
  BY <1>1, AppendProperties
<1> QED BY <1>2 DEF Opened, Fresh

LEMMA TurnIsTyped ==
    ASSUME NEW h \in Heaps, NEW start, NEW s \in Search, ~Over(s), Distinct(s.ord)
    PROVE  LET u == Turn(h, start, s) IN
           /\ u \in Search /\ Distinct(u.ord) /\ Begins(s.ord, u.ord)
           /\ u.ord = Met(s.ord, Candidate(h, start, s))
<1> DEFINE u == Turn(h, start, s)
           p == Candidate(h, start, s)
<1>1. /\ s.ph \in {"list", "walk"} /\ s.todo \in Seq(Node) /\ s.fr \in Seq(Pending)
      /\ s.ord \in Seq(Node)
  BY DEF Search
<1>2. u.ord = Met(s.ord, p)
  BY DEF Turn, Candidate
<1>3. /\ Met(s.ord, p) \in Seq(Node) /\ Distinct(Met(s.ord, p)) /\ Begins(s.ord, Met(s.ord, p))
  BY <1>1, MetIs
<1>4. CASE Listing(s)
  <2>1. Tail(s.todo) \in Seq(Node)
    BY <1>1, <1>4, HeadAndTail DEF Listing
  <2>2. u = [ph |-> "list", todo |-> Tail(s.todo), fr |-> s.fr, ord |-> Met(s.ord, p)]
    BY <1>4 DEF Turn, Candidate
  <2>3. u \in Search
    <3> HIDE DEF u, p
    <3> QED BY <1>1, <1>3, <2>1, <2>2 DEF Search
  <2> QED BY <1>2, <1>3, <2>3
<1>5. CASE ~Listing(s) /\ s.ph = "list"
  <2>1. << >> \in Seq(Node) /\ << >> \in Seq(Pending)
    BY EmptySeq
  <2>2. u = [ph |-> "walk", todo |-> << >>, fr |-> Opened(h, s.ord, start, 0, << >>),
             ord |-> Met(s.ord, p)]
    BY <1>5 DEF Turn, Candidate
  <2>3. Opened(h, s.ord, start, 0, << >>) \in Seq(Pending)
    BY <2>1, OpenedIsTyped
  <2>4. u \in Search
    <3> HIDE DEF u, p
    <3> QED BY <1>1, <1>3, <2>1, <2>2, <2>3 DEF Search
  <2> QED BY <1>2, <1>3, <2>4
<1>6. CASE s.ph = "walk"
  <2> DEFINE d == s.fr[Len(s.fr)].depth + 1
             fr == Opened(h, s.ord, Tried(h, s.fr), d, Rest(h, s.fr))
  <2>1. << >> \in Seq(Node) /\ s.fr # << >>
    BY <1>6, EmptySeq DEF Over
  <2>2. u = [ph |-> "walk", todo |-> << >>, fr |-> fr, ord |-> Met(s.ord, p)]
    BY <1>6 DEF Turn, Candidate, Listing
  <2>3. fr \in Seq(Pending)
    <3>1. Rest(h, s.fr) \in Seq(Pending) /\ d \in Nat
      BY <1>1, <2>1, RestIsTyped
    <3> HIDE DEF d
    <3> QED BY <3>1, OpenedIsTyped
  <2>4. u \in Search
    <3> HIDE DEF u, p, fr
    <3> QED BY <1>1, <1>3, <2>1, <2>2, <2>3 DEF Search
  <2> QED BY <1>2, <1>3, <2>4
<1> QED BY <1>1, <1>4, <1>5, <1>6

\* The same calls, whatever their depths.
Alike(a, b) ==
    /\ Len(a) = Len(b)
    /\ \A k \in 1 .. Len(a) : a[k].v = b[k].v /\ a[k].i = b[k].i /\ a[k].prev = b[k].prev

LEMMA AlikeAppended ==
    ASSUME NEW a \in Seq(Pending), NEW b \in Seq(Pending), Alike(a, b),
           NEW x \in Pending, NEW y \in Pending, x.v = y.v, x.i = y.i, x.prev = y.prev
    PROVE  Alike(Append(a, x), Append(b, y))
<1> DEFINE n == Len(a)
<1>1. n \in Nat /\ Len(b) = n
  BY LenProperties DEF Alike
<1>2. /\ Len(Append(a, x)) = n + 1 /\ Append(a, x)[n + 1] = x
      /\ \A k \in 1 .. n : Append(a, x)[k] = a[k]
  BY AppendProperties
<1>3. /\ Len(Append(b, y)) = n + 1 /\ Append(b, y)[n + 1] = y
      /\ \A k \in 1 .. n : Append(b, y)[k] = b[k]
  BY <1>1, AppendProperties
<1>4. \A k \in 1 .. (n + 1) : k \in 1 .. n \/ k = n + 1
  BY <1>1
<1>5. \A k \in 1 .. n : a[k].v = b[k].v /\ a[k].i = b[k].i /\ a[k].prev = b[k].prev
  BY DEF Alike
<1> HIDE DEF n
<1> QED BY <1>2, <1>3, <1>4, <1>5 DEF Alike

LEMMA AlikeOpened ==
    ASSUME NEW a \in Seq(Pending), NEW b \in Seq(Pending), Alike(a, b),
           NEW h, NEW ord, NEW p, NEW d \in Nat, NEW e \in Nat
    PROVE  Alike(Opened(h, ord, p, d, a), Opened(h, ord, p, e, b))
<1>1. p \in Node => /\ Frame(p, d) \in Pending /\ Frame(p, e) \in Pending
                    /\ Frame(p, d).v = Frame(p, e).v /\ Frame(p, d).i = Frame(p, e).i
                    /\ Frame(p, d).prev = Frame(p, e).prev
  BY DEF Frame, Pending
<1>2. p \in Node => Alike(Append(a, Frame(p, d)), Append(b, Frame(p, e)))
  BY <1>1, AlikeAppended
<1> QED BY <1>2 DEF Opened, Fresh

LEMMA AlikeRest ==
    ASSUME NEW h \in Heaps, NEW a \in Seq(Pending), NEW b \in Seq(Pending), Alike(a, b), a # << >>
    PROVE  b # << >> /\ Tried(h, a) = Tried(h, b) /\ Alike(Rest(h, a), Rest(h, b))
<1> DEFINE n == Len(a)
           x == a[n]
           y == b[n]
           la == SubSeq(a, 1, n - 1)
           lb == SubSeq(b, 1, n - 1)
<1>1. /\ n \in Nat \ {0} /\ Len(b) = n
      /\ \A k \in 1 .. n : a[k] \in Pending /\ b[k] \in Pending
      /\ \A k \in 1 .. n : a[k].v = b[k].v /\ a[k].i = b[k].i /\ a[k].prev = b[k].prev
  BY Stacks DEF Alike
<1>2. b # << >>
  BY <1>1
<1>3. x \in Pending /\ y \in Pending /\ x.v = y.v /\ x.i = y.i /\ x.prev = y.prev
  <2>1. n \in 1 .. n
    BY <1>1
  <2> QED BY <1>1, <2>1
<1>4. la \in Seq(Pending) /\ Len(la) = n - 1 /\ \A k \in 1 .. (n - 1) : la[k] = a[k]
  BY Lower
<1>5. lb \in Seq(Pending) /\ Len(lb) = n - 1 /\ \A k \in 1 .. (n - 1) : lb[k] = b[k]
  BY <1>1, <1>2, Lower
<1>6. Alike(la, lb)
  <2>1. \A k \in 1 .. (n - 1) : k \in 1 .. n
    BY <1>1
  <2> HIDE DEF la, lb, n
  <2> QED BY <1>1, <1>4, <1>5, <2>1 DEF Alike
<1>7. Tried(h, a) = Tried(h, b)
  BY <1>1, <1>3 DEF Tried
<1>8. CASE x.i > Len(h.fields[x.v])
  <2>1. Rest(h, a) = la /\ Rest(h, b) = lb
    BY <1>1, <1>3, <1>8 DEF Rest
  <2> QED BY <1>2, <1>6, <1>7, <2>1
<1>9. CASE ~(x.i > Len(h.fields[x.v]))
  <2>1. Rest(h, a) = Append(la, Turned(h, x)) /\ Rest(h, b) = Append(lb, Turned(h, y))
    BY <1>1, <1>3, <1>9 DEF Rest, Replaced
  <2>2. /\ Turned(h, x) \in Pending /\ Turned(h, y) \in Pending
        /\ Turned(h, x).v = Turned(h, y).v /\ Turned(h, x).i = Turned(h, y).i
        /\ Turned(h, x).prev = Turned(h, y).prev
    BY <1>3, <1>9, TurnedIs
  <2> HIDE DEF la, lb, x, y
  <2>3. Alike(Append(la, Turned(h, x)), Append(lb, Turned(h, y)))
    BY <1>4, <1>5, <1>6, <2>2, AlikeAppended
  <2> QED BY <1>2, <1>7, <2>1, <2>3
<1> QED BY <1>8, <1>9
-----------------------------------------------------------------------------
(* Both walks meet the same blocks in the same order *)

Beginning(exclude) == [ph |-> "list", todo |-> exclude, fr |-> << >>, ord |-> << >>]

\* n turns of the search, which has met t[n].ord at the end.
Trace(h, c, n, t) ==
    /\ t[0] = Beginning(c.exclude)
    /\ \A k \in 0 .. n : t[k] \in Search /\ Distinct(t[k].ord) /\ Begins(t[k].ord, t[n].ord)
    /\ \A k \in 0 .. (n - 1) : ~Over(t[k]) /\ t[k + 1] = Turn(h, c.start, t[k])

LEMMA TraceBegins ==
    ASSUME NEW h, NEW c, c.exclude \in Lists
    PROVE  \E t : Trace(h, c, 0, t) /\ t[0] = Beginning(c.exclude)
<1> DEFINE s == Beginning(c.exclude)
           t == [k \in 0 .. 0 |-> s]
<1>1. /\ c.exclude \in Seq(Node) /\ << >> \in Seq(Node) /\ << >> \in Seq(Pending)
      /\ Len(<< >>) = 0
  BY HeapAssumption, EmptySeq
<1>2. s \in Search /\ Distinct(s.ord) /\ Begins(s.ord, s.ord)
  BY <1>1 DEF Beginning, Search, Distinct, Begins
<1>3. t[0] = s
  OBVIOUS
<1> HIDE DEF t, s
<1>4. Trace(h, c, 0, t)
  BY <1>2, <1>3 DEF Trace, s
<1> QED BY <1>3, <1>4 DEF s

LEMMA TraceGoesOn ==
    ASSUME NEW h \in Heaps, NEW c, NEW n \in Nat, NEW t, Trace(h, c, n, t), ~Over(t[n])
    PROVE  /\ \E u : Trace(h, c, n + 1, u) /\ u[n + 1] = Turn(h, c.start, t[n])
           /\ Turn(h, c.start, t[n]).ord = Met(t[n].ord, Candidate(h, c.start, t[n]))
           /\ t[n].ord \in Seq(Node) /\ Distinct(t[n].ord)
<1> DEFINE s == Turn(h, c.start, t[n])
           u == [k \in 0 .. (n + 1) |-> IF k = n + 1 THEN s ELSE t[k]]
<1>1. /\ t[0] = Beginning(c.exclude)
      /\ \A k \in 0 .. n : t[k] \in Search /\ Distinct(t[k].ord) /\ Begins(t[k].ord, t[n].ord)
      /\ \A k \in 0 .. (n - 1) : ~Over(t[k]) /\ t[k + 1] = Turn(h, c.start, t[k])
  BY DEF Trace
<1>2. n \in 0 .. n
  OBVIOUS
<1>3. /\ s \in Search /\ Distinct(s.ord) /\ Begins(t[n].ord, s.ord)
      /\ s.ord = Met(t[n].ord, Candidate(h, c.start, t[n]))
  BY <1>1, <1>2, TurnIsTyped
<1>4. u[n + 1] = s /\ \A k \in 0 .. n : u[k] = t[k]
  OBVIOUS
<1>5. \A k \in 0 .. n : k \in 0 .. (n + 1) /\ k # n + 1
  OBVIOUS
<1>6. \A k \in 0 .. (n + 1) : k \in 0 .. n \/ k = n + 1
  OBVIOUS
<1> HIDE DEF u, s
<1>7. \A k \in 0 .. n : Begins(t[k].ord, s.ord)
  <2> SUFFICES ASSUME NEW k \in 0 .. n PROVE Begins(t[k].ord, s.ord)
    OBVIOUS
  <2>1. t[k].ord \in Seq(Node) /\ t[n].ord \in Seq(Node) /\ s.ord \in Seq(Node)
    BY <1>1, <1>2, <1>3 DEF Search
  <2>2. Begins(t[k].ord, t[n].ord)
    BY <1>1
  <2> QED BY <1>3, <2>1, <2>2, BeginsOn
<1>8. Begins(s.ord, s.ord)
  <2>1. s.ord \in Seq(Node)
    BY <1>3 DEF Search
  <2>2. Len(s.ord) \in Nat
    BY <2>1, LenProperties
  <2> QED BY <2>2 DEF Begins
<1>9. \A k \in 0 .. (n + 1) :
        u[k] \in Search /\ Distinct(u[k].ord) /\ Begins(u[k].ord, u[n + 1].ord)
  BY <1>1, <1>3, <1>4, <1>6, <1>7, <1>8
<1>10. \A k \in 0 .. ((n + 1) - 1) : ~Over(u[k]) /\ u[k + 1] = Turn(h, c.start, u[k])
  <2> SUFFICES ASSUME NEW k \in 0 .. n PROVE ~Over(u[k]) /\ u[k + 1] = Turn(h, c.start, u[k])
    OBVIOUS
  <2>1. CASE k = n
    BY <1>2, <1>4, <2>1 DEF s
  <2>2. CASE k # n
    <3>1. k \in 0 .. (n - 1) /\ k + 1 \in 0 .. n
      BY <2>2
    <3> QED BY <1>1, <1>4, <3>1
  <2> QED BY <2>1, <2>2
<1>11. u[0] = Beginning(c.exclude)
  BY <1>1, <1>4, <1>2
<1>12. Trace(h, c, n + 1, u)
  BY <1>9, <1>10, <1>11 DEF Trace
<1>13. t[n].ord \in Seq(Node)
  BY <1>1, <1>2 DEF Search
<1> QED BY <1>1, <1>2, <1>3, <1>4, <1>12, <1>13 DEF s

\* The call at a place of the trace.
Now(q, td, fr, ord) ==
    [ph |-> IF q \in {"mark", "restore"} THEN "walk" ELSE "list",
     todo |-> IF q \in {"exclude", "unexclude"} THEN td ELSE << >>, fr |-> fr, ord |-> ord]

\* What the blocks met so far have lost is in the log.
Logged(s, sv, l, col) ==
    /\ Holds(l, Len(s.ord), Colours(sv, s.ord))
    /\ col = Marked(sv, s.ord)

\* What the blocks met by the whole first walk have lost and not got back is still to be read.
Unlogged(s, full, sv, l, col) ==
    /\ Tells(l, Len(full), Colours(sv, full), Len(s.ord))
    /\ col = Half(sv, full, s.ord)

AtPlace(s, q, td, fr) ==
    /\ s.ph = Now(q, td, fr, s.ord).ph /\ s.todo = Now(q, td, fr, s.ord).todo
    /\ Alike(fr, s.fr)

FirstPass == {"exclude", "start", "mark"}
SecondPass == {"unexclude", "found", "restore"}

Marks(h, c, q, td, fr, sv, l, col) ==
    \E n \in Nat : \E t :
        Trace(h, c, n, t) /\ t[n] = Now(q, td, fr, t[n].ord) /\ Logged(t[n], sv, l, col)

Unmarks(h, c, q, td, fr, sv, l, col) ==
    \E n \in Nat : \E t : \E k \in 0 .. n :
        /\ Trace(h, c, n, t) /\ Over(t[n])
        /\ AtPlace(t[k], q, td, fr) /\ Unlogged(t[k], t[n].ord, sv, l, col)

\* A turn of the first walk.
LEMMA MarksOn ==
    ASSUME NEW h \in Heaps, NEW c, NEW sv \in [Node -> LiveColors],
           NEW n \in Nat, NEW t, Trace(h, c, n, t), ~Over(t[n]),
           NEW l, NEW col, Logged(t[n], sv, l, col), NEW ll, NEW cc,
           NEW p, p = Candidate(h, c.start, t[n]),
           IF Fresh(t[n].ord, p)
           THEN ll = writecolor(l, col[p]) /\ cc = [col EXCEPT ![p] = Col_blue]
           ELSE ll = l /\ cc = col,
           NEW q, NEW td, NEW fr,
           Turn(h, c.start, t[n]) = Now(q, td, fr, Met(t[n].ord, p))
    PROVE  Marks(h, c, q, td, fr, sv, ll, cc)
<1> DEFINE s == Turn(h, c.start, t[n])
<1>1. /\ s.ord = Met(t[n].ord, p) /\ t[n].ord \in Seq(Node) /\ Distinct(t[n].ord)
      /\ \E u : Trace(h, c, n + 1, u) /\ u[n + 1] = s
  BY TraceGoesOn
<1>2. PICK u : Trace(h, c, n + 1, u) /\ u[n + 1] = s
  BY <1>1
<1>3. Logged(s, sv, ll, cc)
  <2>1. CASE Fresh(t[n].ord, p)
    <3>1. Holds(l, Len(t[n].ord), Colours(sv, t[n].ord)) /\ col = Marked(sv, t[n].ord)
      BY DEF Logged
    <3>2. /\ [Marked(sv, t[n].ord) EXCEPT ![p] = Col_blue] = Marked(sv, Met(t[n].ord, p))
          /\ Holds(writecolor(l, Marked(sv, t[n].ord)[p]), Len(Met(t[n].ord, p)),
                   Colours(sv, Met(t[n].ord, p)))
      BY <1>1, <2>1, <3>1, MarksOne
    <3> HIDE DEF s
    <3> QED BY <1>1, <2>1, <3>1, <3>2 DEF Logged
  <2>2. CASE ~Fresh(t[n].ord, p)
    <3>1. s.ord = t[n].ord
      BY <1>1, <2>2, MetIs
    <3> HIDE DEF s
    <3> QED BY <2>2, <3>1 DEF Logged
  <2> QED BY <2>1, <2>2
<1>4. s = Now(q, td, fr, s.ord)
  BY <1>1
<1>5. n + 1 \in Nat
  OBVIOUS
<1> HIDE DEF s
<1> QED BY <1>2, <1>3, <1>4, <1>5 DEF Marks

\* p gets back its colour if it has lost it.
GetsBack(p, l, col, ll, cc) ==
    IF p \in Node /\ col[p] = Col_blue
    THEN ll = readcolor(l) /\ cc = [col EXCEPT ![p] = ll.prev_color]
    ELSE ll = l /\ cc = col

\* If those that have lost their colour are those not met, this is the next place.
Arrives(h, start, s, p, col, q, td, fr) ==
    Fresh(s.ord, p) <=> (p \in Node /\ col[p] = Col_blue) =>
        AtPlace(Turn(h, start, s), q, td, fr)

\* A turn of the second.
LEMMA UnmarksOn ==
    ASSUME NEW h \in Heaps, NEW c, NEW sv \in [Node -> LiveColors],
           NEW n \in Nat, NEW t, NEW k \in 0 .. n, Trace(h, c, n, t), Over(t[n]), ~Over(t[k]),
           NEW l, NEW col, Unlogged(t[k], t[n].ord, sv, l, col), NEW ll, NEW cc,
           NEW p, p = Candidate(h, c.start, t[k]), GetsBack(p, l, col, ll, cc),
           NEW q, NEW td, NEW fr, Arrives(h, c.start, t[k], p, col, q, td, fr)
    PROVE  Unmarks(h, c, q, td, fr, sv, ll, cc)
<1> DEFINE s == t[k + 1]
           full == t[n].ord
           ord == t[k].ord
<1>1. /\ \A i \in 0 .. n : t[i] \in Search /\ Distinct(t[i].ord) /\ Begins(t[i].ord, full)
      /\ \A i \in 0 .. (n - 1) : t[i + 1] = Turn(h, c.start, t[i])
  BY DEF Trace
<1>2. k \in 0 .. (n - 1) /\ k + 1 \in 0 .. n
  <2>1. k # n
    OBVIOUS
  <2> QED BY <2>1
<1>3. s = Turn(h, c.start, t[k]) /\ Begins(s.ord, full) /\ t[k] \in Search /\ Distinct(ord)
  BY <1>1, <1>2
<1>4. s.ord = Met(ord, p)
  BY <1>3, TurnIsTyped
<1>5. /\ ord \in Seq(Node) /\ full \in Seq(Node) /\ Distinct(full) /\ s.ord \in Seq(Node)
  <2>1. n \in 0 .. n
    OBVIOUS
  <2> QED BY <1>1, <1>2, <2>1 DEF Search
<1>6. Tells(l, Len(full), Colours(sv, full), Len(ord)) /\ col = Half(sv, full, ord)
  BY DEF Unlogged
<1>7. Fresh(ord, p) <=> (p \in Node /\ col[p] = Col_blue)
  <2>1. ASSUME Fresh(ord, p) PROVE p \in Node /\ col[p] = Col_blue
    <3>1. Has(Met(ord, p), p) /\ p \in Node /\ ~Has(ord, p)
      BY <1>3, <1>5, <2>1, MetIs DEF Fresh
    <3>2. Has(full, p)
      BY <1>3, <1>4, <1>5, <3>1, HasMore
    <3> QED BY <1>6, <3>1, <3>2 DEF Half
  <2>2. ASSUME p \in Node, col[p] = Col_blue PROVE Fresh(ord, p)
    <3>1. sv[p] # Col_blue
      BY <2>2, ColorAssumption
    <3> QED BY <1>6, <2>2, <3>1 DEF Half, Fresh
  <2> QED BY <2>1, <2>2
<1>8. Unlogged(s, full, sv, ll, cc)
  <2>1. CASE Fresh(ord, p)
    <3>1. ll = readcolor(l) /\ cc = [col EXCEPT ![p] = ll.prev_color]
      BY <1>7, <2>1 DEF GetsBack
    <3>2. Begins(Met(ord, p), full)
      BY <1>3, <1>4
    <3> HIDE DEF s, full, ord
    <3>3. /\ [Half(sv, full, ord) EXCEPT ![p] = readcolor(l).prev_color] = Half(sv, full, Met(ord, p))
          /\ Tells(readcolor(l), Len(full), Colours(sv, full), Len(Met(ord, p)))
      BY <1>3, <1>5, <1>6, <2>1, <3>2, UnmarksOne
    <3> QED BY <1>4, <1>6, <3>1, <3>3 DEF Unlogged
  <2>2. CASE ~Fresh(ord, p)
    <3>1. ll = l /\ cc = col
      BY <1>7, <2>2 DEF GetsBack
    <3>2. s.ord = ord
      BY <1>3, <1>4, <1>5, <2>2, MetIs
    <3> HIDE DEF s, full, ord
    <3> QED BY <1>6, <3>1, <3>2 DEF Unlogged
  <2> QED BY <2>1, <2>2
<1>9. AtPlace(s, q, td, fr)
  BY <1>3, <1>7 DEF Arrives
<1> HIDE DEF s, full
<1>10. Trace(h, c, n, t) /\ Over(t[n]) /\ AtPlace(t[k + 1], q, td, fr)
       /\ Unlogged(t[k + 1], t[n].ord, sv, ll, cc)
  BY <1>8, <1>9 DEF s, full
<1> QED BY <1>2, <1>10 DEF Unmarks
-----------------------------------------------------------------------------
(* The log in the steps of a call *)

(***************************************************************************)
(* During the first walk the log holds what the blocks met so far have     *)
(* lost; during the second it tells what those have lost that the search   *)
(* has yet to meet again, and no other header is overwritten.              *)
(***************************************************************************)
Ordered ==
    /\ saved \in [Node -> LiveColors]
    /\ pc = "idle" => color = saved /\ log = None
    /\ pc = "free" => color = saved /\ log.ok
    /\ pc \in FirstPass => Marks(heap, call, pc, todo, frames, saved, log, color)
    /\ pc \in SecondPass => Unmarks(heap, call, pc, todo, frames, saved, log, color)

\* The first walk visits the fresh blocks.
LEMMA FreshIs ==
    ASSUME NEW sv \in [Node -> LiveColors], NEW ord, NEW col, col = Marked(sv, ord), NEW p
    PROVE  Fresh(ord, p) <=> (p \in Node /\ col[p] # Col_blue)
<1>1. p \in Node => sv[p] # Col_blue
  BY ColorAssumption
<1> QED BY <1>1 DEF Fresh, Marked

LEMMA PendingFrames ==
    ASSUME Typed PROVE frames \in Seq(Pending) /\ heap \in Heaps
<1>1. Frames \subseteq Pending
  BY DEF Frames, Pending
<1>2. \A S, T : S \subseteq T => Seq(S) \subseteq Seq(T)
  <2> SUFFICES ASSUME NEW S, NEW T, S \subseteq T, NEW s \in Seq(S) PROVE s \in Seq(T)
    OBVIOUS
  <2>1. Len(s) \in Nat /\ s \in [1 .. Len(s) -> S]
    BY LenProperties
  <2> QED BY <2>1
<1> QED BY <1>1, <1>2 DEF Typed

\* What a round of the loop, or its end, does with the child it has come to.
LEMMA WalkTries ==
    ASSUME Typed, WalkField \/ WalkLast
    PROVE  /\ frames # << >>
           /\ IF Tried(heap, frames) \in Node /\ Visit(Tried(heap, frames))
              THEN Enter(Tried(heap, frames), frames[Len(frames)].depth + 1, Rest(heap, frames))
              ELSE Keep(Rest(heap, frames))
<1> DEFINE t == frames[Len(frames)]
           f == Field(t.v, t.i)
           low == SubSeq(frames, 1, Len(frames) - 1)
           p == Tried(heap, frames)
           r == Rest(heap, frames)
<1>1. frames # << >> /\ frames \in Seq(Pending)
  BY PendingFrames DEF WalkField, WalkLast
<1>2. t \in Pending
  <2>1. Len(frames) \in Nat \ {0} /\ \A k \in 1 .. Len(frames) : frames[k] \in Pending
    BY <1>1, Stacks
  <2>2. Len(frames) \in 1 .. Len(frames)
    BY <2>1
  <2> QED BY <2>1, <2>2
<1>3. t.prev \in Node \union {Val_unit} /\ t.i \in Nat /\ Wosize(t.v) \in Nat
  BY <1>2, FieldIsTyped DEF Pending, Typed
<1>4. t.prev # Val_unit <=> t.prev \in Node
  BY <1>3, UnitAssumption
<1>5. CASE WalkField
  <2>1. /\ ~(t.i > Len(heap.fields[t.v]))
        /\ IF IsBlock(f) /\ t.prev # Val_unit /\ Visit(t.prev)
           THEN Enter(t.prev, t.depth + 1, Append(low, Turned(heap, t)))
           ELSE Keep(Append(low, Turned(heap, t)))
    BY <1>3, <1>5 DEF WalkField, Top, Below, Wosize, Turned, Field
  <2>2. r = Append(low, Turned(heap, t))
    BY <2>1 DEF Rest, Replaced
  <2>3. p = IF IsBlock(f) THEN t.prev ELSE Val_unit
    BY <2>1 DEF Tried, Field
  <2>4. IF p \in Node /\ Visit(p) THEN Enter(p, t.depth + 1, r) ELSE Keep(r)
    <3> HIDE DEF p, r, t, f, low
    <3>1. CASE IsBlock(f)
      BY <1>4, <2>1, <2>2, <2>3, <3>1
    <3>2. CASE ~IsBlock(f)
      BY <2>1, <2>2, <2>3, <3>2, UnitAssumption
    <3> QED BY <3>1, <3>2
  <2> QED BY <1>1, <2>4
<1>6. CASE WalkLast
  <2>1. /\ t.i > Len(heap.fields[t.v])
        /\ IF t.prev # Val_unit /\ Visit(t.prev) THEN Enter(t.prev, t.depth + 1, low) ELSE Keep(low)
    BY <1>6 DEF WalkLast, Top, Below, Wosize
  <2>2. r = low /\ p = t.prev
    BY <2>1 DEF Rest, Tried
  <2>3. IF p \in Node /\ Visit(p) THEN Enter(p, t.depth + 1, r) ELSE Keep(r)
    <3> HIDE DEF p, r, t, f, low
    <3> QED BY <1>4, <2>1, <2>2
  <2> QED BY <1>1, <2>3
<1> QED BY <1>5, <1>6

\* A call begins with an empty log.
LEMMA OrderCall ==
    ASSUME Inv, Ordered, NEW start \in Node \union {Val_unit}, NEW exclude \in Lists,
           NEW reach \in Lists, Call(start, exclude, reach)
    PROVE  Ordered'
<1>1. /\ pc = "idle" /\ color = saved /\ log = None /\ saved \in [Node -> LiveColors]
      /\ frames = << >>
  BY DEF Ordered, Inv, Typed, Call
<1> PICK h, c, q, td, fr, sv, l, col : 
        /\ h = heap /\ c = [start |-> start, exclude |-> exclude, reach |-> reach]
        /\ q = "exclude" /\ td = exclude /\ fr = << >> /\ sv = color
        /\ l = [colors_init EXCEPT !.ok = (log = None)] /\ col = color
  OBVIOUS
<1>2. /\ heap' = h /\ call' = c /\ pc' = q /\ todo' = td /\ frames' = fr /\ saved' = sv
      /\ log' = l /\ color' = col
  BY <1>1 DEF Call
<1>3. PICK t : Trace(h, c, 0, t) /\ t[0] = Beginning(exclude)
  <2>1. c.exclude = exclude
    OBVIOUS
  <2> QED BY <2>1, TraceBegins
<1>4. t[0] = Now(q, td, fr, t[0].ord) /\ t[0].ord = << >>
  BY <1>3 DEF Now, Beginning
<1>5. Logged(t[0], sv, l, col)
  <2>1. Holds(l, 0, Colours(sv, << >>))
    BY <1>1, LogStarts
  <2>2. col = Marked(sv, << >>)
    BY <1>1 DEF Marked, Has
  <2> QED BY <1>4, <2>1, <2>2 DEF Logged
<1>6. Marks(h, c, q, td, fr, sv, l, col)
  BY <1>3, <1>4, <1>5 DEF Marks
<1>7. sv \in [Node -> LiveColors] /\ q = "exclude"
  BY <1>1
<1>8. Marks(heap, call, pc, todo, frames, saved, log, color)'
  <2> HIDE DEF Marks
  <2> QED BY <1>2, <1>6
<1> QED BY <1>2, <1>7, <1>8 DEF Ordered, SecondPass

\* What the first walk and the list before it have done goes on with one turn.
LEMMA OrderMarks ==
    ASSUME Typed, Ordered, UNCHANGED <<heap, call, saved>>,
           NEW n \in Nat, NEW t, Trace(heap, call, n, t), ~Over(t[n]),
           Logged(t[n], saved, log, color),
           NEW p, p = Candidate(heap, call.start, t[n]),
           IF p \in Node /\ ~Blue(p)
           THEN log' = writecolor(log, color[p]) /\ color' = [color EXCEPT ![p] = Col_blue]
           ELSE UNCHANGED <<log, color>>,
           pc' \in FirstPass,
           Fresh(t[n].ord, p) <=> (p \in Node /\ ~Blue(p)) =>
             Turn(heap, call.start, t[n]) = Now(pc', todo', frames', Met(t[n].ord, p))
    PROVE  Ordered'
<1>0. PICK h, c, sv, l, col, ll, cc, q, td, fr :
        /\ h = heap /\ c = call /\ sv = saved /\ l = log /\ col = color
        /\ ll = log' /\ cc = color' /\ q = pc' /\ td = todo' /\ fr = frames'
  OBVIOUS
<1>1. h \in Heaps /\ sv \in [Node -> LiveColors]
  BY <1>0 DEF Typed, Ordered
<1>2. Logged(t[n], sv, l, col) /\ Trace(h, c, n, t) /\ ~Over(t[n])
  BY <1>0
<1>3. Fresh(t[n].ord, p) <=> (p \in Node /\ col[p] # Col_blue)
  <2>1. col = Marked(sv, t[n].ord)
    BY <1>2 DEF Logged
  <2> QED BY <1>1, <2>1, FreshIs
<1>4. IF Fresh(t[n].ord, p)
      THEN ll = writecolor(l, col[p]) /\ cc = [col EXCEPT ![p] = Col_blue]
      ELSE ll = l /\ cc = col
  BY <1>0, <1>3 DEF Blue
<1>5. Turn(h, c.start, t[n]) = Now(q, td, fr, Met(t[n].ord, p))
  BY <1>0, <1>3 DEF Blue
<1>6. p = Candidate(h, c.start, t[n])
  BY <1>0
<1>7. Marks(h, c, q, td, fr, sv, ll, cc)
  BY <1>1, <1>2, <1>4, <1>5, <1>6, MarksOn
<1>8. Marks(heap, call, pc, todo, frames, saved, log, color)'
  BY <1>0, <1>7
<1> QED BY <1>0, <1>1, <1>8 DEF Ordered, FirstPass, SecondPass

\* So does what is left to the list and the second walk behind it.
LEMMA OrderUnmarks ==
    ASSUME Typed, Ordered, UNCHANGED <<heap, call, saved>>,
           NEW n \in Nat, NEW t, NEW k \in 0 .. n, Trace(heap, call, n, t), Over(t[n]), ~Over(t[k]),
           Unlogged(t[k], t[n].ord, saved, log, color),
           NEW p, p = Candidate(heap, call.start, t[k]),
           IF p \in Node /\ Blue(p) THEN Restore(p) ELSE UNCHANGED <<log, color>>,
           pc' \in SecondPass,
           Fresh(t[k].ord, p) <=> (p \in Node /\ Blue(p)) =>
             AtPlace(Turn(heap, call.start, t[k]), pc', todo', frames')
    PROVE  Ordered'
<1>0. PICK h, c, sv, l, col, ll, cc, q, td, fr :
        /\ h = heap /\ c = call /\ sv = saved /\ l = log /\ col = color
        /\ ll = log' /\ cc = color' /\ q = pc' /\ td = todo' /\ fr = frames'
  OBVIOUS
<1>1. h \in Heaps /\ sv \in [Node -> LiveColors]
  BY <1>0 DEF Typed, Ordered
<1>2. Unlogged(t[k], t[n].ord, sv, l, col)
  BY <1>0
<1>3. Trace(h, c, n, t)
  BY <1>0
<1>4. GetsBack(p, l, col, ll, cc)
  BY <1>0 DEF GetsBack, Blue, Restore
<1>5. Arrives(h, c.start, t[k], p, col, q, td, fr)
  BY <1>0 DEF Arrives, Blue
<1>6. p = Candidate(h, c.start, t[k])
  BY <1>0
<1>7. Unmarks(h, c, q, td, fr, sv, ll, cc)
  <2>1. Over(t[n]) /\ ~Over(t[k])
    OBVIOUS
  <2> QED BY <1>1, <1>2, <1>3, <1>4, <1>5, <1>6, <2>1, UnmarksOn
<1>8. Unmarks(heap, call, pc, todo, frames, saved, log, color)'
  BY <1>0, <1>7
<1> QED BY <1>0, <1>1, <1>8 DEF Ordered, FirstPass, SecondPass

\* The excluded blocks are marked.
LEMMA OrderExclude ==
    ASSUME Inv, Ordered, ExcludeNext \/ ExcludeEnd PROVE Ordered'
<1>1. Typed /\ pc = "exclude" /\ saved \in [Node -> LiveColors] /\ todo \in Seq(Node)
      /\ frames = << >>
  BY DEF Inv, Typed, Ordered, ExcludeNext, ExcludeEnd, At
<1>2. PICK n \in Nat : \E t : /\ Trace(heap, call, n, t) /\ t[n] = Now(pc, todo, frames, t[n].ord)
                              /\ Logged(t[n], saved, log, color)
  BY <1>1 DEF Ordered, FirstPass, Marks
<1>3. PICK t : /\ Trace(heap, call, n, t) /\ t[n] = Now(pc, todo, frames, t[n].ord)
               /\ Logged(t[n], saved, log, color)
  BY <1>2
<1>4. t[n].ph = "list" /\ t[n].todo = todo /\ t[n].fr = << >>
  BY <1>1, <1>3 DEF Now
<1>5. CASE ExcludeNext
  <2> DEFINE p == Head(todo)
  <2>1. todo # << >> /\ pc' = "exclude" /\ todo' = Tail(todo) /\ frames' = << >>
        /\ UNCHANGED <<heap, call, saved>>
    BY <1>1, <1>5 DEF ExcludeNext, At
  <2>2. p \in Node
    BY <1>1, <2>1, HeadAndTail
  <2>3. IF p \in Node /\ ~Blue(p)
        THEN log' = writecolor(log, color[p]) /\ color' = [color EXCEPT ![p] = Col_blue]
        ELSE UNCHANGED <<log, color>>
    BY <1>5, <2>2 DEF ExcludeNext
  <2>4. ~Over(t[n]) /\ p = Candidate(heap, call.start, t[n])
        /\ Turn(heap, call.start, t[n]) = Now(pc', todo', frames', Met(t[n].ord, p))
    BY <1>4, <2>1 DEF Over, Candidate, Turn, Now, Listing
  <2>5. pc' \in FirstPass
    BY <2>1 DEF FirstPass
  <2> HIDE DEF p
  <2> QED BY <1>1, <1>3, <2>1, <2>3, <2>4, <2>5, OrderMarks
<1>6. CASE ExcludeEnd
  <2> PICK h, c, sv, l, col, q, td, fr :
        /\ h = heap /\ c = call /\ sv = saved /\ l = log /\ col = color
        /\ q = "start" /\ td = todo' /\ fr = << >>
    OBVIOUS
  <2>1. /\ heap' = h /\ call' = c /\ pc' = q /\ todo' = td /\ frames' = fr /\ saved' = sv
        /\ log' = l /\ color' = col /\ todo = << >>
    BY <1>1, <1>6 DEF ExcludeEnd, At
  <2>2. t[n] = Now(q, td, fr, t[n].ord)
    BY <1>1, <1>3, <2>1 DEF Now
  <2>3. Marks(h, c, q, td, fr, sv, l, col)
    BY <1>3, <2>2 DEF Marks
  <2>4. Marks(heap, call, pc, todo, frames, saved, log, color)'
    BY <2>1, <2>3
  <2>5. q = "start" /\ sv \in [Node -> LiveColors]
    BY <1>1
  <2> QED BY <2>1, <2>4, <2>5 DEF Ordered, FirstPass, SecondPass
<1> QED BY <1>5, <1>6

\* The first walk.
LEMMA OrderMark ==
    ASSUME Inv, Ordered, MarkStart \/ MarkField \/ MarkLast PROVE Ordered'
<1>1. /\ Typed /\ pc \in {"start", "mark"} /\ saved \in [Node -> LiveColors]
      /\ UNCHANGED <<heap, call, saved>> /\ pc' = "mark"
      /\ pc = "start" => frames = << >>
  BY DEF Inv, Typed, Ordered, MarkStart, MarkField, MarkLast, At
<1>2. PICK n \in Nat : \E t : /\ Trace(heap, call, n, t) /\ t[n] = Now(pc, todo, frames, t[n].ord)
                              /\ Logged(t[n], saved, log, color)
  BY <1>1 DEF Ordered, FirstPass, Marks
<1>3. PICK t : /\ Trace(heap, call, n, t) /\ t[n] = Now(pc, todo, frames, t[n].ord)
               /\ Logged(t[n], saved, log, color)
  BY <1>2
<1>4. pc' \in FirstPass
  BY <1>1 DEF FirstPass
<1>5. CASE MarkStart
  <2> PICK p : p = call.start
    OBVIOUS
  <2>1. pc = "start" /\ frames = << >>
    BY <1>1, <1>5 DEF MarkStart, At
  <2>2. t[n].ph = "list" /\ t[n].todo = << >>
    BY <1>3, <2>1 DEF Now
  <2>3. IF p \in Node /\ ~Blue(p) THEN c_rec_objsize(p, 0, << >>) ELSE Keep(<< >>)
    BY <1>5 DEF MarkStart, IsBlock, NotVisited
  <2>4. IF p \in Node /\ ~Blue(p)
        THEN log' = writecolor(log, color[p]) /\ color' = [color EXCEPT ![p] = Col_blue]
        ELSE UNCHANGED <<log, color>>
    BY <2>3 DEF c_rec_objsize, Keep
  <2>5. ~Over(t[n]) /\ p = Candidate(heap, call.start, t[n])
    BY <2>2 DEF Over, Candidate, Listing
  <2>6. ASSUME Fresh(t[n].ord, p) <=> (p \in Node /\ ~Blue(p))
        PROVE  Turn(heap, call.start, t[n]) = Now(pc', todo', frames', Met(t[n].ord, p))
    <3>1. frames' = Opened(heap, t[n].ord, p, 0, << >>)
      BY <2>3, <2>6 DEF Opened, c_rec_objsize, Keep
    <3> QED BY <1>1, <2>2, <3>1 DEF Turn, Now, Listing
  <2> QED BY <1>1, <1>3, <1>4, <2>4, <2>5, <2>6, OrderMarks
<1>6. CASE MarkField \/ MarkLast
  <2> PICK p, d, r : /\ p = Tried(heap, frames) /\ d = frames[Len(frames)].depth + 1
                     /\ r = Rest(heap, frames)
    OBVIOUS
  <2>1. pc = "mark" /\ At("mark") /\ (WalkField \/ WalkLast)
    BY <1>6 DEF MarkField, MarkLast, At
  <2>2. /\ frames # << >>
        /\ IF p \in Node /\ Visit(p) THEN Enter(p, d, r) ELSE Keep(r)
    BY <1>1, <2>1, WalkTries
  <2>3. IF p \in Node /\ ~Blue(p) THEN c_rec_objsize(p, d, r) ELSE Keep(r)
    BY <2>1, <2>2 DEF Enter, Visit, NotVisited
  <2>4. t[n].ph = "walk" /\ t[n].fr = frames
    BY <1>3, <2>1 DEF Now
  <2>5. IF p \in Node /\ ~Blue(p)
        THEN log' = writecolor(log, color[p]) /\ color' = [color EXCEPT ![p] = Col_blue]
        ELSE UNCHANGED <<log, color>>
    BY <2>3 DEF c_rec_objsize, Keep
  <2>6. ~Over(t[n]) /\ p = Candidate(heap, call.start, t[n])
    BY <2>2, <2>4 DEF Over, Candidate, Listing
  <2>7. ASSUME Fresh(t[n].ord, p) <=> (p \in Node /\ ~Blue(p))
        PROVE  Turn(heap, call.start, t[n]) = Now(pc', todo', frames', Met(t[n].ord, p))
    <3>1. frames' = Opened(heap, t[n].ord, p, d, r)
      BY <2>3, <2>7 DEF Opened, c_rec_objsize, Keep
    <3> QED BY <1>1, <2>4, <3>1 DEF Turn, Now, Listing
  <2> QED BY <1>1, <1>3, <1>4, <2>5, <2>6, <2>7, OrderMarks
<1> QED BY <1>5, <1>6

\* The log is turned round.
LEMMA OrderMarkEnd ==
    ASSUME Inv, Ordered, MarkEnd PROVE Ordered'
<1>1. /\ Typed /\ pc = "mark" /\ saved \in [Node -> LiveColors] /\ frames = << >>
  BY DEF Inv, Ordered, MarkEnd, At
<1>2. PICK n \in Nat : \E t : /\ Trace(heap, call, n, t) /\ t[n] = Now(pc, todo, frames, t[n].ord)
                              /\ Logged(t[n], saved, log, color)
  BY <1>1 DEF Ordered, FirstPass, Marks
<1>3. PICK t : /\ Trace(heap, call, n, t) /\ t[n] = Now(pc, todo, frames, t[n].ord)
               /\ Logged(t[n], saved, log, color)
  BY <1>2
<1> PICK h, c, sv, l, col, q, td, fr :
        /\ h = heap /\ c = call /\ sv = saved /\ l = rle_init(rle_write_flush(log)) /\ col = color
        /\ q = "unexclude" /\ td = call.exclude /\ fr = << >>
  OBVIOUS
<1>4. /\ heap' = h /\ call' = c /\ pc' = q /\ todo' = td /\ frames' = fr /\ saved' = sv
      /\ log' = l /\ color' = col
  BY <1>1 DEF MarkEnd
<1>5. Over(t[n]) /\ 0 \in 0 .. n
  BY <1>1, <1>3 DEF Over, Now
<1>6. t[0] = Beginning(call.exclude) /\ t[n].ord \in Seq(Node)
  <2>1. n \in 0 .. n
    OBVIOUS
  <2> QED BY <1>3, <2>1 DEF Trace, Search
<1>7. t[0].ord = << >> /\ AtPlace(t[0], q, td, fr)
  BY <1>6 DEF AtPlace, Now, Alike, Beginning
<1>8. Unlogged(t[0], t[n].ord, sv, l, col)
  <2> DEFINE m == Len(t[n].ord)
  <2>1. Holds(log, m, Colours(sv, t[n].ord)) /\ col = Marked(sv, t[n].ord)
    BY <1>3 DEF Logged
  <2>2. m \in Nat
    BY <1>6, LenProperties
  <2>3. Tells(l, m, Colours(sv, t[n].ord), 0)
    <3> HIDE DEF m
    <3> QED BY <2>1, <2>2, LogTurns
  <2>4. col = Half(sv, t[n].ord, << >>)
    <3>1. \A v : ~Has(<< >>, v)
      BY DEF Has
    <3> QED BY <2>1, <3>1 DEF Half, Marked
  <2>5. Len(<< >>) = 0
    OBVIOUS
  <2> QED BY <1>7, <2>3, <2>4, <2>5 DEF Unlogged
<1>9. Unmarks(h, c, q, td, fr, sv, l, col)
  BY <1>3, <1>5, <1>7, <1>8 DEF Unmarks
<1>10. Unmarks(heap, call, pc, todo, frames, saved, log, color)'
  BY <1>4, <1>9
<1>11. q = "unexclude" /\ sv \in [Node -> LiveColors]
  BY <1>1
<1> QED BY <1>4, <1>10, <1>11 DEF Ordered, FirstPass

LEMMA AlikeSelf ==
    ASSUME NEW a PROVE Alike(a, a)
<1> QED BY DEF Alike

\* Only the second walk's own stack is compared: it keeps no depth.
LEMMA AlikeNone ==
    ASSUME NEW a \in Seq(Pending), NEW b \in Seq(Pending), Alike(a, b)
    PROVE  a = << >> <=> b = << >>
<1>1. \A s \in Seq(Pending) : s = << >> <=> Len(s) = 0
  BY EmptySeq
<1> QED BY <1>1 DEF Alike

\* The excluded blocks get back their colours, and what is still blue was measured.
LEMMA OrderUnexclude ==
    ASSUME Inv, Ordered, UnexcludeNext \/ Reach PROVE Ordered'
<1>1. /\ Typed /\ pc = "unexclude" /\ saved \in [Node -> LiveColors] /\ todo \in Seq(Node)
      /\ UNCHANGED <<heap, call, saved, frames>>
  BY DEF Inv, Typed, Ordered, UnexcludeNext, Reach, At
<1>2. PICK n \in Nat : \E t : \E k \in 0 .. n :
        /\ Trace(heap, call, n, t) /\ Over(t[n])
        /\ AtPlace(t[k], pc, todo, frames) /\ Unlogged(t[k], t[n].ord, saved, log, color)
  BY <1>1 DEF Ordered, SecondPass, Unmarks
<1>3. PICK t : \E k \in 0 .. n :
        /\ Trace(heap, call, n, t) /\ Over(t[n])
        /\ AtPlace(t[k], pc, todo, frames) /\ Unlogged(t[k], t[n].ord, saved, log, color)
  BY <1>2
<1>4. PICK k \in 0 .. n :
        /\ Trace(heap, call, n, t) /\ Over(t[n])
        /\ AtPlace(t[k], pc, todo, frames) /\ Unlogged(t[k], t[n].ord, saved, log, color)
  BY <1>3
<1>5. t[k].ph = "list" /\ t[k].todo = todo /\ Alike(frames, t[k].fr)
  BY <1>1, <1>4 DEF AtPlace, Now
<1>6. CASE UnexcludeNext
  <2> DEFINE p == Head(todo)
  <2>1. todo # << >> /\ pc' = "unexclude" /\ todo' = Tail(todo)
    BY <1>1, <1>6 DEF UnexcludeNext
  <2>2. p \in Node
    BY <1>1, <2>1, HeadAndTail
  <2>3. IF p \in Node /\ Blue(p) THEN Restore(p) ELSE UNCHANGED <<log, color>>
    BY <1>6, <2>2 DEF UnexcludeNext
  <2>4. ~Over(t[k]) /\ p = Candidate(heap, call.start, t[k])
        /\ AtPlace(Turn(heap, call.start, t[k]), pc', todo', frames')
    BY <1>1, <1>5, <2>1 DEF Over, Candidate, Turn, Now, Listing, AtPlace
  <2>5. pc' \in SecondPass
    BY <2>1 DEF SecondPass
  <2> HIDE DEF p
  <2> QED BY <1>1, <1>4, <2>3, <2>4, <2>5, OrderUnmarks
<1>7. CASE Reach
  <2>0. PICK h, c, sv, l, col, q, td, fr :
        /\ h = heap /\ c = call /\ sv = saved /\ l = log /\ col = color
        /\ q = "found" /\ td = todo' /\ fr = frames
    OBVIOUS
  <2>1. /\ heap' = h /\ call' = c /\ pc' = q /\ todo' = td /\ frames' = fr /\ saved' = sv
        /\ log' = l /\ color' = col /\ todo = << >>
    BY <1>1, <1>7, <2>0 DEF Reach
  <2>2. AtPlace(t[k], q, td, fr)
    BY <1>5, <2>0, <2>1 DEF Now, AtPlace
  <2>3. Unmarks(h, c, q, td, fr, sv, l, col)
    BY <1>4, <2>0, <2>2 DEF Unmarks
  <2>4. Unmarks(heap, call, pc, todo, frames, saved, log, color)'
    BY <2>1, <2>3
  <2>5. q = "found" /\ sv \in [Node -> LiveColors]
    BY <1>1, <2>0
  <2> QED BY <2>1, <2>4, <2>5 DEF Ordered, FirstPass, SecondPass
<1> QED BY <1>6, <1>7

\* The second walk.
LEMMA OrderRestore ==
    ASSUME Inv, Ordered, RestoreStart \/ RestoreField \/ RestoreLast PROVE Ordered'
<1>1. /\ Typed /\ pc \in {"found", "restore"} /\ saved \in [Node -> LiveColors]
      /\ UNCHANGED <<heap, call, saved>> /\ pc' = "restore"
      /\ pc = "found" => frames = << >>
  BY DEF Inv, Typed, Ordered, RestoreStart, RestoreField, RestoreLast, At
<1>2. PICK n \in Nat : \E t : \E k \in 0 .. n :
        /\ Trace(heap, call, n, t) /\ Over(t[n])
        /\ AtPlace(t[k], pc, todo, frames) /\ Unlogged(t[k], t[n].ord, saved, log, color)
  BY <1>1 DEF Ordered, SecondPass, Unmarks
<1>3. PICK t : \E k \in 0 .. n :
        /\ Trace(heap, call, n, t) /\ Over(t[n])
        /\ AtPlace(t[k], pc, todo, frames) /\ Unlogged(t[k], t[n].ord, saved, log, color)
  BY <1>2
<1>4. PICK k \in 0 .. n :
        /\ Trace(heap, call, n, t) /\ Over(t[n])
        /\ AtPlace(t[k], pc, todo, frames) /\ Unlogged(t[k], t[n].ord, saved, log, color)
  BY <1>3
<1>5. pc' \in SecondPass
  BY <1>1 DEF SecondPass
<1>6. frames \in Seq(Pending) /\ heap \in Heaps /\ t[k].fr \in Seq(Pending)
  BY <1>1, <1>4, PendingFrames DEF Trace, Search
<1>7. CASE RestoreStart
  <2>0. PICK p : p = call.start
    OBVIOUS
  <2>1. pc = "found"
    BY <1>7 DEF RestoreStart, At
  <2>2. t[k].ph = "list" /\ t[k].todo = << >>
    BY <1>4, <2>1 DEF AtPlace, Now
  <2>3. IF p \in Node /\ Blue(p) THEN restore_colors(p, 0, << >>) ELSE Keep(<< >>)
    BY <1>7, <2>0 DEF RestoreStart, IsBlock
  <2>4. IF p \in Node /\ Blue(p) THEN Restore(p) ELSE UNCHANGED <<log, color>>
    BY <2>3 DEF restore_colors, Keep
  <2>5. ~Over(t[k]) /\ p = Candidate(heap, call.start, t[k])
    BY <2>0, <2>2 DEF Over, Candidate, Listing
  <2>6. ASSUME Fresh(t[k].ord, p) <=> (p \in Node /\ Blue(p))
        PROVE  AtPlace(Turn(heap, call.start, t[k]), pc', todo', frames')
    <3>1. frames' = Opened(heap, t[k].ord, p, 0, << >>)
      BY <2>3, <2>6 DEF Opened, restore_colors, Keep
    <3>2. Turn(heap, call.start, t[k]) =
            [ph |-> "walk", todo |-> << >>, fr |-> frames', ord |-> Met(t[k].ord, p)]
      BY <2>0, <2>2, <3>1 DEF Turn, Listing
    <3> QED BY <1>1, <3>2, AlikeSelf DEF AtPlace, Now
  <2> QED BY <1>1, <1>4, <1>5, <2>4, <2>5, <2>6, OrderUnmarks
<1>8. CASE RestoreField \/ RestoreLast
  <2>0. PICK p, d, r : /\ p = Tried(heap, frames) /\ d = frames[Len(frames)].depth + 1
                       /\ r = Rest(heap, frames)
    OBVIOUS
  <2>1. pc = "restore" /\ ~At("mark") /\ (WalkField \/ WalkLast)
    BY <1>8 DEF RestoreField, RestoreLast, At
  <2>2. /\ frames # << >>
        /\ IF p \in Node /\ Visit(p) THEN Enter(p, d, r) ELSE Keep(r)
    BY <1>1, <2>0, <2>1, WalkTries
  <2>3. IF p \in Node /\ Blue(p) THEN restore_colors(p, d, r) ELSE Keep(r)
    BY <2>1, <2>2 DEF Enter, Visit
  <2>4. t[k].ph = "walk" /\ Alike(frames, t[k].fr)
    BY <1>4, <2>1 DEF AtPlace, Now
  <2>5. IF p \in Node /\ Blue(p) THEN Restore(p) ELSE UNCHANGED <<log, color>>
    BY <2>3 DEF restore_colors, Keep
  <2>6. /\ t[k].fr # << >> /\ p = Tried(heap, t[k].fr) /\ Alike(r, Rest(heap, t[k].fr))
    BY <1>6, <2>0, <2>2, <2>4, AlikeRest
  <2>7. ~Over(t[k]) /\ p = Candidate(heap, call.start, t[k])
    BY <2>4, <2>6 DEF Over, Candidate, Listing
  <2>8. ASSUME Fresh(t[k].ord, p) <=> (p \in Node /\ Blue(p))
        PROVE  AtPlace(Turn(heap, call.start, t[k]), pc', todo', frames')
    <3>0. PICK e, ord, low, u : /\ e = t[k].fr[Len(t[k].fr)].depth + 1 /\ ord = t[k].ord
                                /\ low = Rest(heap, t[k].fr) /\ u = Opened(heap, ord, p, e, low)
      OBVIOUS
    <3>1. frames' = Opened(heap, ord, p, 0, r)
      BY <2>3, <2>8, <3>0 DEF Opened, restore_colors, Keep
    <3>2. Turn(heap, call.start, t[k]) = [ph |-> "walk", todo |-> << >>, fr |-> u, ord |-> Met(ord, p)]
      BY <2>4, <2>6, <3>0 DEF Turn, Listing
    <3>3. Alike(frames', u)
      <4>1. r \in Seq(Pending) /\ low \in Seq(Pending) /\ e \in Nat
        BY <1>6, <2>0, <2>2, <2>6, <3>0, RestIsTyped
      <4>2. 0 \in Nat /\ Alike(r, low)
        BY <2>6, <3>0
      <4>3. Alike(Opened(heap, ord, p, 0, r), Opened(heap, ord, p, e, low))
        BY <4>1, <4>2, AlikeOpened
      <4> QED BY <3>0, <3>1, <4>3
    <3> QED BY <1>1, <3>2, <3>3 DEF AtPlace, Now
  <2> QED BY <1>1, <1>4, <1>5, <2>5, <2>7, <2>8, OrderUnmarks
<1> QED BY <1>7, <1>8

\* Both walks are over: nothing is left to be read.
LEMMA OrderRestoreEnd ==
    ASSUME Inv, Ordered, RestoreEnd PROVE Ordered'
<1>1. /\ Typed /\ pc = "restore" /\ saved \in [Node -> LiveColors] /\ frames = << >>
  BY DEF Inv, Ordered, RestoreEnd, At
<1>2. PICK n \in Nat : \E t : \E k \in 0 .. n :
        /\ Trace(heap, call, n, t) /\ Over(t[n])
        /\ AtPlace(t[k], pc, todo, frames) /\ Unlogged(t[k], t[n].ord, saved, log, color)
  BY <1>1 DEF Ordered, SecondPass, Unmarks
<1>3. PICK t : \E k \in 0 .. n :
        /\ Trace(heap, call, n, t) /\ Over(t[n])
        /\ AtPlace(t[k], pc, todo, frames) /\ Unlogged(t[k], t[n].ord, saved, log, color)
  BY <1>2
<1>4. PICK k \in 0 .. n :
        /\ Trace(heap, call, n, t) /\ Over(t[n])
        /\ AtPlace(t[k], pc, todo, frames) /\ Unlogged(t[k], t[n].ord, saved, log, color)
  BY <1>3
<1>5. Over(t[k])
  <2>1. frames \in Seq(Pending) /\ t[k].fr \in Seq(Pending)
    BY <1>1, <1>4, PendingFrames DEF Trace, Search
  <2>2. t[k].ph = "walk" /\ Alike(frames, t[k].fr)
    BY <1>1, <1>4 DEF AtPlace, Now
  <2> QED BY <1>1, <2>1, <2>2, AlikeNone DEF Over
<1>6. k = n
  <2>1. k \notin 0 .. (n - 1)
    BY <1>4, <1>5 DEF Trace
  <2> QED BY <2>1
<1> DEFINE full == t[n].ord
           m == Len(full)
<1>7. full \in Seq(Node) /\ m \in Nat
  <2>1. n \in 0 .. n
    OBVIOUS
  <2>2. full \in Seq(Node)
    BY <1>4, <2>1 DEF Trace, Search
  <2> QED BY <2>2, LenProperties
<1>8. Tells(log, m, Colours(saved, full), m) /\ color = Half(saved, full, full)
  BY <1>4, <1>6 DEF Unlogged
<1>9. rle_read_flush(log).ok
  <2> HIDE DEF m
  <2> QED BY <1>7, <1>8, LogEnds
<1>10. color = saved
  <2>1. color = [v \in Node |-> saved[v]]
    BY <1>8 DEF Half
  <2> QED BY <1>1, <2>1
<1>11. pc' = "free" /\ UNCHANGED <<color, saved>> /\ log' = rle_read_flush(log)
  BY DEF RestoreEnd
<1> QED BY <1>1, <1>9, <1>10, <1>11 DEF Ordered, FirstPass, SecondPass

\* The call returns; the collector runs; nothing happens.
LEMMA OrderOther ==
    ASSUME Inv, Ordered, Return \/ CollectorRuns \/ UNCHANGED objvars PROVE Ordered'
<1>1. CASE Return
  BY <1>1 DEF Ordered, Return, At, FirstPass, SecondPass
<1>2. CASE CollectorRuns
  BY <1>2 DEF Ordered, CollectorRuns, Collect, FirstPass, SecondPass
<1>3. CASE UNCHANGED objvars
  <2>1. UNCHANGED <<heap, call, pc, todo, frames, saved, log, color>>
    BY <1>3 DEF objvars
  <2>2. \A h, c, q, td, fr, sv, l, col :
          /\ h = heap /\ c = call /\ q = pc /\ td = todo /\ fr = frames /\ sv = saved
             /\ l = log /\ col = color
          => /\ Marks(h, c, q, td, fr, sv, l, col)
                  => Marks(heap, call, pc, todo, frames, saved, log, color)'
             /\ Unmarks(h, c, q, td, fr, sv, l, col)
                  => Unmarks(heap, call, pc, todo, frames, saved, log, color)'
    BY <2>1
  <2> QED BY <2>1, <2>2 DEF Ordered
<1> QED BY <1>1, <1>2, <1>3

\* Between two calls there is no log.
THEOREM OrderedInit == ObjInit => Ordered
<1> SUFFICES ASSUME ObjInit PROVE Ordered
  OBVIOUS
<1> QED BY DEF ObjInit, Init, Ordered, FirstPass, SecondPass

\* Ordered is inductive, given Inv.
THEOREM OrderedStep == Inv /\ Ordered /\ [ObjNext]_objvars => Ordered'
<1> SUFFICES ASSUME Inv, Ordered, [ObjNext]_objvars PROVE Ordered'
  OBVIOUS
<1>1. CASE \E start \in Node \union {Val_unit}, exclude, reach \in Lists :
               Call(start, exclude, reach)
  BY <1>1, OrderCall
<1>2. CASE Step
  BY <1>2, OrderExclude, OrderMark, OrderMarkEnd, OrderUnexclude, OrderRestore, OrderRestoreEnd,
     OrderOther DEF Step
<1>3. CASE CollectorRuns \/ UNCHANGED objvars
  BY <1>3, OrderOther
<1> QED BY <1>1, <1>2, <1>3 DEF ObjNext

(***************************************************************************)
(* For every heap, every list and every width of the run-length encoding:  *)
(* no ASSERT of c_objsize.c fails.  The array has room for every bit, no   *)
(* bit is read that was not written, no blue is logged, no repetition of   *)
(* nothing is read, no log is left over when a call begins, and when the   *)
(* second walk is over every bit and every repetition was read.            *)
(***************************************************************************)
THEOREM NoAssertEverFails == ObjSpec => []NoAssertFails
<1>1. Inv /\ Ordered => NoAssertFails
  <2> SUFFICES ASSUME Inv, Ordered, log # None PROVE log.ok
    BY DEF NoAssertFails
  <2>1. pc \in FirstPass \union SecondPass \union {"idle", "free"}
    BY DEF Inv, Typed, FirstPass, SecondPass
  <2>2. CASE pc \in FirstPass
    BY <2>2 DEF Ordered, Marks, Logged, Holds, Sound
  <2>3. CASE pc \in SecondPass
    BY <2>3 DEF Ordered, Unmarks, Unlogged, Tells, Sound
  <2>4. CASE pc \in {"idle", "free"}
    BY <2>4 DEF Ordered
  <2> QED BY <2>1, <2>2, <2>3, <2>4
<1> QED BY <1>1, InvInit, InvStep, OrderedInit, OrderedStep, PTL DEF ObjSpec

(***************************************************************************)
(* Every header has the colour it had when the call began, once the second *)
(* walk (restore_colors) is over and between two calls.                    *)
(***************************************************************************)
THEOREM ColoursAreRestored == ObjSpec => [](pc \in {"idle", "free"} => color = saved)
<1>1. Ordered => (pc \in {"idle", "free"} => color = saved)
  BY DEF Ordered
<1> QED BY <1>1, InvInit, InvStep, OrderedInit, OrderedStep, PTL DEF ObjSpec
-----------------------------------------------------------------------------
(* The words of a set of blocks *)

Size(h, n) == Cardinality(DOMAIN h.fields[n])
Some(s) == CHOOSE x \in s : TRUE

\* g sums up the sizes of the blocks of every set in D.
SumsUp(h, D, g) ==
    \A s \in D : g[s] = IF s = {} THEN 0 ELSE Size(h, Some(s)) + g[s \ {Some(s)}]
Sums(h, D, g) == g \in [D -> Nat] /\ SumsUp(h, D, g)

LEMMA SizeIs ==
    ASSUME NEW h \in Heaps, NEW n \in Node PROVE Size(h, n) = Len(h.fields[n]) /\ Size(h, n) \in Nat
<1>1. h.fields \in [Node -> Seq(Node \union {Val_unit})]
  BY HeapAssumption
<1>2. h.fields[n] \in Seq(Node \union {Val_unit})
  BY <1>1
<1>3. Len(h.fields[n]) \in Nat /\ DOMAIN h.fields[n] = 1 .. Len(h.fields[n])
  BY <1>2, LenProperties
<1> DEFINE m == Len(h.fields[n])
<1>4. Cardinality(1 .. m) = m
  <2> HIDE DEF m
  <2>1. m \in Nat
    BY <1>3 DEF m
  <2>2. 1 \in Int /\ m \in Int
    BY <2>1
  <2>3. Cardinality(1 .. m) = IF 1 > m THEN 0 ELSE m - 1 + 1
    BY <2>2, FS_Interval
  <2> QED BY <2>1, <2>3
<1> QED BY <1>3, <1>4 DEF Size

\* A set of finite sets has a smallest one.
LEMMA Smallest ==
    ASSUME NEW B, NEW s0 \in B, \A s \in B : IsFiniteSet(s)
    PROVE  \E s \in B : \A r \in B : ~(Cardinality(r) < Cardinality(s))
<1> DEFINE C == {Cardinality(s) : s \in B}
<1>1. C \in SUBSET Nat
  BY FS_CardinalityType
<1>2. \E j \in C : j >= 0
  <2>1. Cardinality(s0) \in C /\ Cardinality(s0) >= 0
    BY FS_CardinalityType
  <2> QED BY <2>1
<1>3. \E j \in Nat : First(C, 0, j)
  <2> HIDE DEF C
  <2> QED BY <1>1, <1>2, FirstIs
<1>4. PICK j \in C : \A i \in C : j <= i
  <2>1. \A i \in C : i >= 0
    BY <1>1
  <2> QED BY <1>3, <2>1 DEF First
<1>5. PICK s \in B : j = Cardinality(s)
  OBVIOUS
<1>6. \A r \in B : Cardinality(r) \in C /\ Cardinality(r) \in Nat
  BY <1>1
<1> HIDE DEF C
<1> QED BY <1>4, <1>5, <1>6

\* What is left of a finite set without one of its elements.
LEMMA Less ==
    ASSUME NEW s, IsFiniteSet(s), NEW x \in s
    PROVE  /\ IsFiniteSet(s \ {x}) /\ Cardinality(s) \in Nat /\ Cardinality(s \ {x}) \in Nat
           /\ Cardinality(s) = Cardinality(s \ {x}) + 1
<1>1. IsFiniteSet(s \ {x}) /\ Cardinality(s \ {x}) = Cardinality(s) - 1
  BY FS_RemoveElement
<1>2. Cardinality(s) \in Nat /\ Cardinality(s \ {x}) \in Nat
  BY <1>1, FS_CardinalityType
<1> QED BY <1>1, <1>2

LEMMA Smaller ==
    ASSUME NEW s, IsFiniteSet(s) PROVE \A x \in s : Cardinality(s \ {x}) < Cardinality(s)
<1> TAKE x \in s
<1> PICK m, n : m = Cardinality(s) /\ n = Cardinality(s \ {x})
  OBVIOUS
<1>1. m \in Nat /\ n \in Nat /\ m = n + 1
  BY Less
<1>2. n < m
  BY <1>1
<1> QED BY <1>2

LEMMA SomeIs ==
    ASSUME NEW s, s # {} PROVE Some(s) \in s
<1> QED BY DEF Some

\* Sums exist.
LEMMA SumsExist ==
    ASSUME NEW h \in Heaps, NEW U \in SUBSET Node, IsFiniteSet(U)
    PROVE  \E g : Sums(h, SUBSET U, g)
<1> DEFINE N == Cardinality(U)
           Level(k) == {s \in SUBSET U : Cardinality(s) <= k}
           P == {k \in 0 .. N : \E g : Sums(h, Level(k), g)}
<1>1. N \in Nat /\ \A s \in SUBSET U : IsFiniteSet(s) /\ Cardinality(s) \in 0 .. N
  <2>1. N \in Nat
    BY FS_CardinalityType
  <2> SUFFICES ASSUME NEW s \in SUBSET U PROVE IsFiniteSet(s) /\ Cardinality(s) \in 0 .. N
    BY <2>1
  <2>2. IsFiniteSet(s) /\ Cardinality(s) <= Cardinality(U)
    BY FS_Subset
  <2>3. Cardinality(s) \in Nat
    BY <2>2, FS_CardinalityType
  <2> QED BY <2>1, <2>2, <2>3
<1>2. \A k \in Nat : \A s \in Level(k) : s # {} =>
        /\ Some(s) \in Node /\ s \ {Some(s)} \in Level(k)
        /\ k - 1 \in Nat /\ s \ {Some(s)} \in Level(k - 1)
  <2> SUFFICES ASSUME NEW k \in Nat, NEW s \in Level(k), s # {}
               PROVE  /\ Some(s) \in Node /\ s \ {Some(s)} \in Level(k)
                      /\ k - 1 \in Nat /\ s \ {Some(s)} \in Level(k - 1)
    OBVIOUS
  <2>1. Some(s) \in s /\ IsFiniteSet(s) /\ s \in SUBSET U /\ Cardinality(s) <= k
    BY <1>1, SomeIs
  <2>2. /\ Cardinality(s) \in Nat /\ Cardinality(s \ {Some(s)}) \in Nat
        /\ Cardinality(s) = Cardinality(s \ {Some(s)}) + 1
    BY <2>1, Less
  <2> QED BY <2>1, <2>2
<1>3. 0 \in P
  <2> DEFINE g == [s \in Level(0) |-> 0]
  <2>1. \A s \in Level(0) : s = {}
    <3> SUFFICES ASSUME NEW s \in Level(0), s # {} PROVE FALSE
      OBVIOUS
    <3>1. 0 - 1 \in Nat
      BY <1>2
    <3> QED BY <3>1
  <2>2. Sums(h, Level(0), g)
    <3> HIDE DEF Level
    <3> QED BY <2>1 DEF Sums, SumsUp
  <2>3. 0 \in 0 .. N
    BY <1>1
  <2> QED BY <2>2, <2>3
<1>4. ASSUME NEW k \in 0 .. (N - 1), k \in P PROVE k + 1 \in P
  <2>1. PICK g : Sums(h, Level(k), g)
    BY <1>4
  <2>2. k \in Nat /\ k + 1 \in 0 .. N /\ k + 1 \in Nat /\ (k + 1) - 1 = k
    BY <1>1
  <2> DEFINE L == Level(k + 1)
             gg == [s \in L |-> IF s = {} THEN 0 ELSE Size(h, Some(s)) + g[s \ {Some(s)}]]
  <2>3. \A s \in L : s # {} => Some(s) \in Node /\ s \ {Some(s)} \in L /\ s \ {Some(s)} \in Level(k)
    BY <1>2, <2>2
  <2>4. \A s \in Level(k) : s \in L
    BY <1>1, <2>2
  <2>5. \A s \in Level(k) : g[s] \in Nat
                            /\ g[s] = IF s = {} THEN 0 ELSE Size(h, Some(s)) + g[s \ {Some(s)}]
    <3> HIDE DEF Level
    <3> QED BY <2>1 DEF Sums, SumsUp
  <2> HIDE DEF Level, L
  <2>6. \A s \in Level(k) : gg[s] = g[s]
    BY <2>4, <2>5
  <2>7. \A s \in L : (IF s = {} THEN 0 ELSE Size(h, Some(s)) + g[s \ {Some(s)}]) \in Nat
    <3> SUFFICES ASSUME NEW s \in L, s # {} PROVE Size(h, Some(s)) + g[s \ {Some(s)}] \in Nat
      OBVIOUS
    <3>1. Size(h, Some(s)) \in Nat /\ g[s \ {Some(s)}] \in Nat
      BY <2>3, <2>5, SizeIs
    <3> QED BY <3>1
  <2>8. gg \in [L -> Nat]
    BY <2>7
  <2>9. \A s \in L : gg[s] = IF s = {} THEN 0 ELSE Size(h, Some(s)) + gg[s \ {Some(s)}]
    <3> SUFFICES ASSUME NEW s \in L
                 PROVE  gg[s] = IF s = {} THEN 0 ELSE Size(h, Some(s)) + gg[s \ {Some(s)}]
      OBVIOUS
    <3>1. s # {} => gg[s \ {Some(s)}] = g[s \ {Some(s)}]
      BY <2>3, <2>6
    <3> QED BY <3>1
  <2> HIDE DEF gg
  <2>10. Sums(h, L, gg)
    BY <2>8, <2>9 DEF Sums, SumsUp
  <2> QED BY <2>2, <2>10 DEF L
<1>5. N \in P
  <2> HIDE DEF P, N
  <2>1. N \in Nat /\ N \in 0 .. N
    BY <1>1 DEF N
  <2> QED BY <1>3, <1>4, <2>1, CountsUp
<1>6. Level(N) = SUBSET U
  BY <1>1
<1> QED BY <1>5, <1>6

\* There is one way to sum up.
LEMMA SumsAgree ==
    ASSUME NEW h, NEW U, IsFiniteSet(U), NEW W, IsFiniteSet(W),
           NEW f, NEW g, SumsUp(h, SUBSET U, f), SumsUp(h, SUBSET W, g),
           NEW s \in SUBSET U, s \in SUBSET W
    PROVE  f[s] = g[s]
<1> DEFINE B == {r \in SUBSET U : r \in SUBSET W /\ f[r] # g[r]}
<1>1. SUFFICES ASSUME s \in B PROVE FALSE
  BY <1>1
<1>2. \A r \in B : IsFiniteSet(r)
  BY FS_Subset
<1>3. PICK r \in B : \A q \in B : ~(Cardinality(q) < Cardinality(r))
  <2> HIDE DEF B
  <2> QED BY <1>1, <1>2, Smallest
<1>4. r \in SUBSET U /\ r \in SUBSET W /\ f[r] # g[r]
  OBVIOUS
<1>5. /\ f[r] = IF r = {} THEN 0 ELSE Size(h, Some(r)) + f[r \ {Some(r)}]
      /\ g[r] = IF r = {} THEN 0 ELSE Size(h, Some(r)) + g[r \ {Some(r)}]
  BY <1>4 DEF Sums, SumsUp
<1>6. r # {}
  BY <1>4, <1>5
<1>7. Some(r) \in r
  BY <1>6, SomeIs
<1>8. r \ {Some(r)} \notin B
  <2>1. Cardinality(r \ {Some(r)}) < Cardinality(r)
    <3>1. IsFiniteSet(r)
      BY <1>2
    <3> HIDE DEF B
    <3>2. \A x \in r : Cardinality(r \ {x}) < Cardinality(r)
      BY <3>1, Smaller
    <3> QED BY <1>7, <3>2
  <2> HIDE DEF B
  <2> QED BY <1>3, <2>1
<1>9. f[r \ {Some(r)}] = g[r \ {Some(r)}]
  BY <1>4, <1>8
<1> HIDE DEF B
<1> QED BY <1>4, <1>5, <1>9

\* It does not matter which block is added last.
LEMMA SumsAdd ==
    ASSUME NEW h \in Heaps, NEW U \in SUBSET Node, IsFiniteSet(U), NEW g, Sums(h, SUBSET U, g),
           NEW v \in SUBSET U, NEW p \in U \ v
    PROVE  g[v \union {p}] = Size(h, p) + g[v]
<1> DEFINE Adds(s, q) == g[s \union {q}] = Size(h, q) + g[s]
           B == {s \in SUBSET U : \E q \in U \ s : ~Adds(s, q)}
<1>1. SUFFICES ASSUME v \in B PROVE FALSE
  BY <1>1
<1>2. \A r \in B : IsFiniteSet(r)
  BY FS_Subset
<1>3. PICK r \in B : \A q \in B : ~(Cardinality(q) < Cardinality(r))
  <2> HIDE DEF B
  <2> QED BY <1>1, <1>2, Smallest
<1>4. PICK q \in U \ r : r \in SUBSET U /\ ~Adds(r, q)
  OBVIOUS
<1> DEFINE b == r \union {q}
           x == Some(b)
           d == r \ {x}
<1>5. /\ \A s \in SUBSET U : g[s] \in Nat
      /\ \A s \in SUBSET U : s # {} => g[s] = Size(h, Some(s)) + g[s \ {Some(s)}]
  BY DEF Sums, SumsUp
<1>6. b \in SUBSET U /\ b # {} /\ x \in b
  <2>1. b \in SUBSET U /\ b # {}
    BY <1>4
  <2> QED BY <2>1, SomeIs
<1>7. g[b] = Size(h, x) + g[b \ {x}]
  BY <1>5, <1>6
<1>8. x # q
  <2> SUFFICES ASSUME x = q PROVE FALSE
    OBVIOUS
  <2>1. b \ {x} = r
    OBVIOUS
  <2> HIDE DEF x, b
  <2> QED BY <1>4, <1>7, <2>1 DEF b
<1>9. x \in r /\ x \notin d /\ d \in SUBSET U /\ q \in U \ d /\ x \in U \ d
      /\ b \ {x} = d \union {q} /\ d \union {x} = r
  <2> HIDE DEF x
  <2> QED BY <1>4, <1>6, <1>8
<1>10. d \notin B
  <2>1. Cardinality(d) < Cardinality(r)
    <3>1. IsFiniteSet(r)
      BY <1>2
    <3> HIDE DEF B, x
    <3> QED BY <1>9, <3>1, Less
  <2> HIDE DEF B, d
  <2> QED BY <1>3, <2>1
<1>11. g[d \union {q}] = Size(h, q) + g[d] /\ g[d \union {x}] = Size(h, x) + g[d]
  <2> HIDE DEF d, x
  <2> QED BY <1>9, <1>10
<1>12. Size(h, q) \in Nat /\ Size(h, x) \in Nat /\ g[d] \in Nat
  <2>1. q \in Node /\ x \in Node
    <3> HIDE DEF x
    <3> QED BY <1>4, <1>9
  <2> QED BY <1>5, <1>9, <2>1, SizeIs
<1>13. g[b] = Size(h, x) + (Size(h, q) + g[d]) /\ g[r] = Size(h, x) + g[d]
  BY <1>7, <1>9, <1>11
<1>14. g[b] = Size(h, q) + g[r]
  <2> HIDE DEF b, d, x
  <2> QED BY <1>12, <1>13
<1> QED BY <1>4, <1>14

\* The sum that Measurement takes.
LEMMA WordsAre ==
    ASSUME NEW h \in Heaps, NEW U \in SUBSET Node, IsFiniteSet(U)
    PROVE  \E g : Sums(h, SUBSET U, g) /\ Words(h, U) = g[U]
<1> DEFINE All(f) == f = [s \in SUBSET U |->
                           IF s = {} THEN 0
                           ELSE Cardinality(DOMAIN h.fields[CHOOSE x \in s : TRUE])
                                  + f[s \ {CHOOSE x \in s : TRUE}]]
           iter == CHOOSE f : All(f)
<1>1. Words(h, U) = iter[U]
  BY DEF Words, MapThenSumSet, MapThenFoldSet
<1>2. \E f : All(f)
  <2>1. PICK g : Sums(h, SUBSET U, g)
    BY SumsExist
  <2>2. g = [s \in SUBSET U |-> g[s]]
    BY <2>1 DEF Sums, SumsUp
  <2>3. \A s \in SUBSET U : g[s] = IF s = {} THEN 0 ELSE Size(h, Some(s)) + g[s \ {Some(s)}]
    BY <2>1 DEF Sums, SumsUp
  <2>4. All(g)
    BY <2>2, <2>3 DEF Size, Some
  <2> QED BY <2>4
<1>3. All(iter)
  BY <1>2
<1>4. \A f : All(f) => \A s \in SUBSET U :
                         f[s] = IF s = {} THEN 0 ELSE Size(h, Some(s)) + f[s \ {Some(s)}]
  BY DEF Size, Some
<1> HIDE DEF iter, All
<1>5. SumsUp(h, SUBSET U, iter)
  BY <1>3, <1>4 DEF SumsUp
<1>6. PICK g : Sums(h, SUBSET U, g)
  BY SumsExist
<1>7. iter[U] = g[U]
  <2>1. SumsUp(h, SUBSET U, g) /\ U \in SUBSET U
    BY <1>6 DEF Sums
  <2> QED BY <1>5, <2>1, SumsAgree
<1> QED BY <1>1, <1>6, <1>7

LEMMA WordsNone == ASSUME NEW h \in Heaps PROVE Words(h, {}) = 0
<1>1. PICK g : Sums(h, SUBSET {}, g) /\ Words(h, {}) = g[{}]
  BY WordsAre, FS_EmptySet
<1> QED BY <1>1 DEF Sums, SumsUp

LEMMA WordsAdd ==
    ASSUME NEW h \in Heaps, NEW V \in SUBSET Node, IsFiniteSet(V), NEW p \in Node \ V
    PROVE  /\ Words(h, V \union {p}) = Words(h, V) + Len(h.fields[p])
           /\ Words(h, V) \in Nat
<1> DEFINE U == V \union {p}
<1>1. IsFiniteSet(U) /\ U \in SUBSET Node
  BY FS_AddElement
<1>2. PICK f : Sums(h, SUBSET V, f) /\ Words(h, V) = f[V]
  BY WordsAre
<1>3. PICK g : Sums(h, SUBSET U, g) /\ Words(h, U) = g[U]
  <2> HIDE DEF U
  <2> QED BY <1>1, WordsAre
<1>4. f[V] = g[V]
  <2>1. SumsUp(h, SUBSET V, f) /\ SumsUp(h, SUBSET U, g) /\ V \in SUBSET V /\ V \in SUBSET U
    BY <1>2, <1>3 DEF Sums
  <2> HIDE DEF U
  <2> QED BY <1>1, <2>1, SumsAgree
<1>5. g[V \union {p}] = Size(h, p) + g[V]
  <2>1. V \in SUBSET U /\ p \in U \ V /\ U = V \union {p}
    OBVIOUS
  <2>2. Sums(h, SUBSET U, g)
    BY <1>3
  <2> HIDE DEF U
  <2>3. IsFiniteSet(U) /\ U \in SUBSET Node
    BY <1>1
  <2>4. ASSUME NEW W \in SUBSET Node, IsFiniteSet(W), Sums(h, SUBSET W, g),
               NEW v \in SUBSET W, NEW q \in W \ v
        PROVE  g[v \union {q}] = Size(h, q) + g[v]
    BY <2>4, SumsAdd
  <2> QED BY <2>1, <2>2, <2>3, <2>4
<1>6. f[V] \in Nat
  BY <1>2 DEF Sums
<1>7. Size(h, p) = Len(h.fields[p]) /\ Size(h, p) \in Nat
  BY SizeIs
<1>8. Words(h, U) = Size(h, p) + Words(h, V)
  BY <1>2, <1>3, <1>4, <1>5
<1> QED BY <1>2, <1>6, <1>7, <1>8
-----------------------------------------------------------------------------
(* What a call has counted *)

\* The depth of some block among n that were entered one by one.
Deep(d, n) == d \in Nat /\ n \in Nat /\ (IF n = 0 THEN d = 0 ELSE d < n)
Shallow(fr, n) == \A k \in 1 .. Len(fr) : fr[k].depth < n

(***************************************************************************)
(* The counts of the first walk are those of the blocks it has entered,    *)
(* and stay what they are when it is over.                                 *)
(***************************************************************************)
Counted ==
    /\ pc = "start" => acc_data = 0 /\ acc_depth = 0
    /\ pc = "mark" => /\ acc_data = Words(heap, Blues \ E)
                      /\ Deep(acc_depth, acc_hdrs) /\ Shallow(frames, acc_hdrs)
    /\ pc \in {"unexclude", "found", "restore", "free"} =>
         /\ acc_data = Words(heap, M) /\ acc_hdrs = Cardinality(M) /\ IsFiniteSet(M)
         /\ Deep(acc_depth, acc_hdrs)
    /\ pc \in {"found", "restore", "free"} => reached = (M \intersect Elements(call.reach) # {})

LEMMA SameMeasured ==
    ASSUME UNCHANGED <<heap, call>>
    PROVE  E' = E /\ M' = M /\ Elements(call.reach)' = Elements(call.reach)
<1>1. E' = E /\ Elements(call.reach)' = Elements(call.reach)
  BY DEF E, Elements
<1>2. M' = M
  BY <1>1 DEF M, Measured, Closed, Follows
<1> QED BY <1>1, <1>2

LEMMA ShallowRest ==
    ASSUME NEW h \in Heaps, NEW fr \in Seq(Pending), fr # << >>, NEW n \in Nat, Shallow(fr, n)
    PROVE  /\ Shallow(Rest(h, fr), n) /\ fr[Len(fr)].depth + 1 \in Nat
           /\ fr[Len(fr)].depth + 1 <= n
<1> DEFINE m == Len(fr)
           t == fr[m]
           low == SubSeq(fr, 1, m - 1)
           e == Turned(h, t)
<1>1. /\ m \in Nat \ {0} /\ \A k \in 1 .. m : fr[k] \in Pending
  BY Stacks
<1>2. t \in Pending /\ t.depth < n /\ t.depth \in Nat
  <2>1. m \in 1 .. m
    BY <1>1
  <2> QED BY <1>1, <2>1 DEF Shallow, Pending
<1>3. low \in Seq(Pending) /\ Len(low) = m - 1 /\ \A k \in 1 .. (m - 1) : low[k] = fr[k]
  BY Lower
<1>4. Shallow(low, n)
  <2>1. \A k \in 1 .. (m - 1) : k \in 1 .. m
    BY <1>1
  <2> HIDE DEF low
  <2> QED BY <1>3, <2>1 DEF Shallow
<1>5. CASE t.i > Len(h.fields[t.v])
  <2>1. Rest(h, fr) = low
    BY <1>5 DEF Rest
  <2> HIDE DEF low, t
  <2> QED BY <1>2, <1>4, <2>1 DEF t
<1>6. CASE ~(t.i > Len(h.fields[t.v]))
  <2>1. Rest(h, fr) = Append(low, e)
    BY <1>6 DEF Rest, Replaced
  <2>2. e \in Pending /\ e.depth = t.depth
    <3>1. e \in Pending
      BY <1>2, <1>6, TurnedIs
    <3>2. DOMAIN t = {"v", "i", "prev", "depth"}
      BY <1>2 DEF Pending
    <3>3. e.depth = t.depth
      BY <1>2 DEF Turned, Pending
    <3> QED BY <3>1, <3>3
  <2> HIDE DEF low, e, t, m
  <2>3. /\ Len(Append(low, e)) = Len(low) + 1 /\ Append(low, e)[Len(low) + 1] = e
        /\ \A k \in 1 .. Len(low) : Append(low, e)[k] = low[k]
    BY <1>3, <2>2, AppendProperties
  <2>4. \A k \in 1 .. (Len(low) + 1) : k \in 1 .. Len(low) \/ k = Len(low) + 1
    BY <1>1, <1>3
  <2>5. Shallow(Append(low, e), n)
    BY <1>2, <1>4, <2>2, <2>3, <2>4 DEF Shallow
  <2> QED BY <1>2, <2>1, <2>5 DEF t, m
<1> QED BY <1>5, <1>6

\* A block is entered at most one deeper than those before it.
LEMMA CountsOne ==
    ASSUME heap \in Heaps, NEW V \in SUBSET Node, IsFiniteSet(V), NEW p \in Node \ V,
           acc_data = Words(heap, V), acc_hdrs = Cardinality(V), Deep(acc_depth, acc_hdrs),
           NEW d \in Nat, d <= acc_hdrs, NEW fr \in Seq(Pending), Shallow(fr, acc_hdrs),
           c_rec_objsize(p, d, fr)
    PROVE  /\ acc_data' = Words(heap, V \union {p}) /\ Deep(acc_depth, acc_hdrs)'
           /\ Shallow(frames', acc_hdrs')
<1>1. /\ acc_data' = acc_data + Wosize(p) /\ acc_hdrs' = acc_hdrs + 1
      /\ acc_depth' = Larger(acc_depth, d)
      /\ frames' = IF p \in heap.noscan THEN fr ELSE Append(fr, Frame(p, d))
  BY DEF c_rec_objsize
<1>2. acc_hdrs \in Nat /\ acc_depth \in Nat /\ (acc_hdrs = 0 => acc_depth = 0)
      /\ (acc_hdrs # 0 => acc_depth < acc_hdrs)
  BY DEF Deep
<1>3. acc_data' = Words(heap, V \union {p})
  <2>1. Words(heap, V \union {p}) = Words(heap, V) + Len(heap.fields[p])
    BY WordsAdd
  <2> QED BY <1>1, <2>1 DEF Wosize
<1>4. Deep(acc_depth', acc_hdrs')
  BY <1>1, <1>2 DEF Larger, Deep
<1>5. Shallow(fr, acc_hdrs')
  <2>1. \A k \in 1 .. Len(fr) : fr[k].depth \in Nat
    <3>1. \A k \in 1 .. Len(fr) : fr[k] \in Pending
      BY Stacks
    <3> QED BY <3>1 DEF Pending
  <2> QED BY <1>1, <1>2, <2>1 DEF Shallow
<1>6. Shallow(frames', acc_hdrs')
  <2> PICK e : e = Frame(p, d)
    OBVIOUS
  <2>1. e \in Pending /\ e.depth = d
    BY DEF Frame, Pending
  <2>2. /\ Len(fr) \in Nat /\ Len(Append(fr, e)) = Len(fr) + 1 /\ Append(fr, e)[Len(fr) + 1] = e
        /\ \A k \in 1 .. Len(fr) : Append(fr, e)[k] = fr[k]
    BY <2>1, AppendProperties, LenProperties
  <2>3. \A k \in 1 .. (Len(fr) + 1) : k \in 1 .. Len(fr) \/ k = Len(fr) + 1
    BY <2>2
  <2>4. d < acc_hdrs'
    BY <1>1, <1>2
  <2>5. Shallow(Append(fr, e), acc_hdrs')
    BY <1>5, <2>1, <2>2, <2>3, <2>4 DEF Shallow
  <2> QED BY <1>1, <1>5, <2>5
<1> QED BY <1>3, <1>4, <1>6

\* The first walk starts.
LEMMA CountedStart ==
    ASSUME Inv, Counted, MarkStart PROVE Counted'
<1>1. /\ Typed /\ Blues = E /\ acc_hdrs = 0 /\ acc_data = 0 /\ acc_depth = 0
      /\ heap \in Heaps /\ color = [n \in Node |-> color[n]]
      /\ UNCHANGED <<heap, call>> /\ pc' = "mark"
  BY DEF Inv, Typed, Counted, MarkStart, At
<1>2. E' = E
  BY <1>1, SameMeasured
<1>3. CASE IsBlock(call.start) /\ NotVisited(call.start)
  <2>0. PICK p : p = call.start
    OBVIOUS
  <2>1. p \in Node /\ c_rec_objsize(p, 0, << >>) /\ p \notin Blues
    BY <1>3, <2>0 DEF MarkStart, IsBlock, NotVisited, Blues
  <2>2. /\ {} \in SUBSET Node /\ IsFiniteSet({}) /\ Cardinality({}) = 0 /\ Words(heap, {}) = 0
        /\ << >> \in Seq(Pending)
    BY <1>1, FS_EmptySet, WordsNone, EmptySeq
  <2>3. Deep(acc_depth, acc_hdrs) /\ Shallow(<< >>, acc_hdrs) /\ 0 \in Nat /\ 0 <= acc_hdrs
    BY <1>1 DEF Deep, Shallow
  <2>4. /\ acc_data' = Words(heap, {} \union {p}) /\ Deep(acc_depth, acc_hdrs)'
        /\ Shallow(frames', acc_hdrs')
    BY <1>1, <2>1, <2>2, <2>3, CountsOne
  <2>5. (Blues \ E)' = {} \union {p}
    <3>1. Blues' = Blues \union {p}
      BY <1>1, <2>1, OneColor DEF c_rec_objsize
    <3> QED BY <1>1, <1>2, <2>1, <3>1
  <2> PICK W, h : W = {} \union {p} /\ h = heap
    OBVIOUS
  <2>6. acc_data' = Words(h, W) /\ h = heap' /\ W = (Blues \ E)'
    BY <1>1, <2>4, <2>5
  <2> QED BY <1>1, <2>4, <2>6 DEF Counted
<1>4. CASE ~(IsBlock(call.start) /\ NotVisited(call.start))
  <2>1. frames' = << >> /\ UNCHANGED <<color, accs>>
    BY <1>4 DEF MarkStart, Keep
  <2>2. (Blues \ E)' = {}
    BY <1>1, <1>2, <2>1 DEF Blues, Blue
  <2>3. Words(heap, {}) = 0
    BY <1>1, WordsNone
  <2>4. Deep(acc_depth, acc_hdrs)' /\ Shallow(frames', acc_hdrs')
    BY <1>1, <2>1 DEF accs, Deep, Shallow
  <2> PICK W, h : W = {} /\ h = heap
    OBVIOUS
  <2>5. acc_data' = Words(h, W) /\ h = heap' /\ W = (Blues \ E)'
    BY <1>1, <2>1, <2>2, <2>3 DEF accs
  <2> QED BY <1>1, <2>4, <2>5 DEF Counted
<1> QED BY <1>3, <1>4

\* The first walk goes on.
LEMMA CountedMark ==
    ASSUME Inv, Counted, MarkField \/ MarkLast PROVE Counted'
<1>1. /\ Typed /\ pc = "mark" /\ heap \in Heaps /\ color = [n \in Node |-> color[n]]
      /\ UNCHANGED <<heap, call>> /\ pc' = "mark" /\ At("mark") /\ (WalkField \/ WalkLast)
  BY DEF Inv, Typed, MarkField, MarkLast, At
<1>2. E' = E
  BY <1>1, SameMeasured
<1>0. PICK V, p, d, r :
        /\ V = Blues \ E /\ p = Tried(heap, frames) /\ d = frames[Len(frames)].depth + 1
        /\ r = Rest(heap, frames)
  OBVIOUS
<1>3. /\ E \subseteq Blues /\ IsFiniteSet(V) /\ acc_hdrs = Cardinality(V) /\ V \in SUBSET Node
      /\ acc_data = Words(heap, V) /\ Deep(acc_depth, acc_hdrs) /\ Shallow(frames, acc_hdrs)
      /\ acc_hdrs \in Nat
  BY <1>0, <1>1 DEF Inv, Marking, Counted, Blues, Deep
<1>4. /\ frames # << >>
      /\ IF p \in Node /\ ~Blue(p) THEN c_rec_objsize(p, d, r) ELSE Keep(r)
  <2>1. /\ frames # << >>
        /\ IF p \in Node /\ Visit(p) THEN Enter(p, d, r) ELSE Keep(r)
    BY <1>0, <1>1, WalkTries
  <2> QED BY <1>1, <2>1 DEF Enter, Visit, NotVisited
<1>5. /\ Shallow(r, acc_hdrs) /\ d \in Nat /\ d <= acc_hdrs /\ r \in Seq(Pending)
  <2>1. frames \in Seq(Pending)
    BY <1>1, PendingFrames
  <2> QED BY <1>0, <1>1, <1>3, <1>4, <2>1, ShallowRest, RestIsTyped
<1>6. CASE p \in Node /\ ~Blue(p)
  <2>1. p \in Node \ V /\ p \notin Blues /\ c_rec_objsize(p, d, r)
    BY <1>0, <1>4, <1>6 DEF Blues
  <2>2. /\ acc_data' = Words(heap, V \union {p}) /\ Deep(acc_depth, acc_hdrs)'
        /\ Shallow(frames', acc_hdrs')
    BY <1>1, <1>3, <1>5, <2>1, CountsOne
  <2>3. (Blues \ E)' = V \union {p}
    <3>1. Blues' = Blues \union {p}
      BY <1>1, <2>1, OneColor DEF c_rec_objsize
    <3> QED BY <1>0, <1>2, <1>3, <2>1, <3>1
  <2> PICK W, h : W = V \union {p} /\ h = heap
    OBVIOUS
  <2>4. acc_data' = Words(h, W) /\ h = heap' /\ W = (Blues \ E)'
    BY <1>1, <2>2, <2>3
  <2> QED BY <1>1, <2>2, <2>4 DEF Counted
<1>7. CASE ~(p \in Node /\ ~Blue(p))
  <2>1. frames' = r /\ UNCHANGED <<color, accs>>
    BY <1>4, <1>7 DEF Keep
  <2>2. (Blues \ E)' = V
    BY <1>0, <1>2, <2>1 DEF Blues, Blue
  <2>3. Deep(acc_depth, acc_hdrs)' /\ Shallow(frames', acc_hdrs')
    BY <1>3, <1>5, <2>1 DEF accs
  <2> PICK W, h : W = V /\ h = heap
    OBVIOUS
  <2>4. acc_data' = Words(h, W) /\ h = heap' /\ W = (Blues \ E)'
    BY <1>1, <1>3, <2>1, <2>2 DEF accs
  <2> QED BY <1>1, <2>3, <2>4 DEF Counted
<1> QED BY <1>6, <1>7

\* The first walk is over: what it has entered is what is measured.
LEMMA CountedMarkEnd ==
    ASSUME Inv, Inv', Counted, MarkEnd PROVE Counted'
<1>1. /\ Typed /\ pc = "mark" /\ heap \in Heaps /\ UNCHANGED <<heap, call, color, accs>>
      /\ pc' = "unexclude" /\ todo' = call.exclude
  BY DEF Inv, Typed, MarkEnd, At
<1>2. E' = E /\ M' = M
  BY <1>1, SameMeasured
<1>3. Blues' = E' \union M'
  BY <1>1 DEF Inv, Unexcluding
<1>4. Blues' = Blues
  BY <1>1 DEF Blues, Blue
<1>5. Blues \ E = M
  <2>1. M \subseteq Node \ E
    BY <1>1, MeasuredIs DEF M
  <2> QED BY <1>2, <1>3, <1>4, <2>1
<1>6. /\ IsFiniteSet(Blues \ E) /\ acc_hdrs = Cardinality(Blues \ E)
      /\ acc_data = Words(heap, Blues \ E) /\ Deep(acc_depth, acc_hdrs)
  BY <1>1 DEF Inv, Marking, Counted
<1> PICK V, h : V = Blues \ E /\ h = heap
  OBVIOUS
<1>7. V = M' /\ h = heap' /\ acc_data' = Words(h, V)
  BY <1>1, <1>2, <1>5, <1>6 DEF accs
<1>8. IsFiniteSet(M') /\ acc_hdrs' = Cardinality(M') /\ Deep(acc_depth, acc_hdrs)'
  BY <1>1, <1>2, <1>5, <1>6 DEF accs
<1> QED BY <1>1, <1>7, <1>8 DEF Counted

\* Nothing is counted any more.
LEMMA CountedKeeps ==
    ASSUME Counted, UNCHANGED <<heap, call, accs, reached>>,
           pc \in {"unexclude", "found", "restore", "free"},
           pc' \in {"unexclude", "found", "restore", "free"},
           pc' # "unexclude" => pc # "unexclude"
    PROVE  Counted'
<1>1. E' = E /\ M' = M /\ Elements(call.reach)' = Elements(call.reach)
  BY SameMeasured
<1>2. /\ acc_data = Words(heap, M) /\ acc_hdrs = Cardinality(M) /\ IsFiniteSet(M)
      /\ Deep(acc_depth, acc_hdrs)
      /\ pc # "unexclude" => reached = (M \intersect Elements(call.reach) # {})
  BY DEF Counted
<1> PICK V, h : V = M /\ h = heap
  OBVIOUS
<1>3. V = M' /\ h = heap' /\ acc_data' = Words(h, V)
  BY <1>1, <1>2 DEF accs
<1>4. IsFiniteSet(M') /\ acc_hdrs' = Cardinality(M') /\ Deep(acc_depth, acc_hdrs)'
  BY <1>1, <1>2 DEF accs
<1>5. pc' # "unexclude" => reached' = (M' \intersect Elements(call.reach)' # {})
  BY <1>1, <1>2
<1> QED BY <1>3, <1>4, <1>5 DEF Counted

\* What is still blue now was measured.
LEMMA CountedReach ==
    ASSUME Inv, Counted, Reach PROVE Counted'
<1>1. /\ pc = "unexclude" /\ todo = << >> /\ pc' = "found"
      /\ UNCHANGED <<heap, call, accs>>
      /\ reached' = (\E i \in DOMAIN call.reach : Blue(call.reach[i]))
      /\ call \in [start : Node \union {Val_unit}, exclude : Lists, reach : Lists] /\ heap \in Heaps
  BY DEF Inv, Typed, InCall, Reach, At, accs
<1>2. Blues = M
  <2>1. M \subseteq Blues /\ Blues \subseteq M \union Elements(todo)
    BY <1>1 DEF Inv, Unexcluding
  <2>2. Elements(todo) = {}
    BY <1>1 DEF Elements
  <2> QED BY <2>1, <2>2
<1>3. E' = E /\ M' = M /\ Elements(call.reach)' = Elements(call.reach)
  BY <1>1, SameMeasured
<1>4. reached' = (M \intersect Elements(call.reach) # {})
  <2>1. call.reach \in Seq(Node)
    BY <1>1, HeapAssumption
  <2>2. \A i \in DOMAIN call.reach : call.reach[i] \in Node
    BY <2>1
  <2>3. \A i \in DOMAIN call.reach : Blue(call.reach[i]) <=> call.reach[i] \in M
    BY <1>2, <2>2 DEF Blues
  <2>4. reached' \in BOOLEAN
    BY <1>1
  <2>5. reached' <=> M \intersect Elements(call.reach) # {}
    BY <1>1, <2>3 DEF Elements
  <2> QED BY <2>4, <2>5
<1>5. /\ acc_data = Words(heap, M) /\ acc_hdrs = Cardinality(M) /\ IsFiniteSet(M)
      /\ Deep(acc_depth, acc_hdrs)
  BY <1>1 DEF Counted
<1> PICK V, h : V = M /\ h = heap
  OBVIOUS
<1>6. V = M' /\ h = heap' /\ acc_data' = Words(h, V)
  BY <1>1, <1>3, <1>5 DEF accs
<1>7. IsFiniteSet(M') /\ acc_hdrs' = Cardinality(M') /\ Deep(acc_depth, acc_hdrs)'
  BY <1>1, <1>3, <1>5 DEF accs
<1>8. reached' = (M' \intersect Elements(call.reach)' # {})
  BY <1>3, <1>4
<1> QED BY <1>1, <1>6, <1>7, <1>8 DEF Counted

\* Nothing happens.
LEMMA CountedStutter ==
    ASSUME Counted, UNCHANGED objvars PROVE Counted'
<1>1. UNCHANGED <<heap, color, call, pc, frames, accs, reached>>
  BY DEF objvars
<1>2. E' = E /\ M' = M /\ Elements(call.reach)' = Elements(call.reach) /\ Blues' = Blues
  <2>1. Blues' = Blues
    BY <1>1 DEF Blues, Blue
  <2> QED BY <1>1, <2>1, SameMeasured
<1>3. CASE pc = "mark"
  <2> PICK V, h : V = Blues \ E /\ h = heap
    OBVIOUS
  <2>1. acc_data = Words(h, V) /\ Deep(acc_depth, acc_hdrs) /\ Shallow(frames, acc_hdrs)
    BY <1>3 DEF Counted
  <2>2. V = (Blues \ E)' /\ h = heap' /\ acc_data' = Words(h, V) /\ pc' = "mark"
    BY <1>1, <1>2, <1>3, <2>1 DEF accs
  <2>3. Deep(acc_depth, acc_hdrs)' /\ Shallow(frames', acc_hdrs')
    BY <1>1, <2>1 DEF accs
  <2> QED BY <2>2, <2>3 DEF Counted
<1>4. CASE pc \in {"unexclude", "found", "restore", "free"}
  BY <1>1, <1>4, CountedKeeps
<1>5. CASE pc \notin {"mark", "unexclude", "found", "restore", "free"}
  BY <1>1, <1>5 DEF Counted, accs
<1> QED BY <1>3, <1>4, <1>5

\* Nothing was counted yet.
THEOREM CountedInit == ObjInit => Counted
<1> QED BY DEF ObjInit, Counted

\* Counted is inductive, given Inv.
THEOREM CountedStep == Inv /\ Inv' /\ Counted /\ [ObjNext]_objvars => Counted'
<1> SUFFICES ASSUME Inv, Inv', Counted, [ObjNext]_objvars PROVE Counted'
  OBVIOUS
<1>1. CASE \E start \in Node \union {Val_unit}, exclude, reach \in Lists :
               Call(start, exclude, reach)
  BY <1>1 DEF Call, Counted
<1>2. CASE ExcludeNext
  BY <1>2 DEF ExcludeNext, At, Counted
<1>3. CASE ExcludeEnd
  BY <1>3 DEF ExcludeEnd, At, Counted
<1>4. CASE MarkStart
  BY <1>4, CountedStart
<1>5. CASE MarkField \/ MarkLast
  BY <1>5, CountedMark
<1>6. CASE MarkEnd
  BY <1>6, CountedMarkEnd
<1>7. CASE UnexcludeNext
  BY <1>7, CountedKeeps DEF UnexcludeNext, At
<1>8. CASE Reach
  BY <1>8, CountedReach
<1>9. CASE RestoreStart \/ RestoreField \/ RestoreLast \/ RestoreEnd
  <2>1. /\ UNCHANGED <<heap, call, accs, reached>>
        /\ pc \in {"found", "restore"} /\ pc' \in {"restore", "free"}
    <3>1. CASE RestoreStart
      BY <3>1 DEF RestoreStart, At, restore_colors, Keep
    <3>2. CASE RestoreField \/ RestoreLast
      <4>1. /\ UNCHANGED <<heap, call, reached, pc>> /\ pc = "restore" /\ ~At("mark")
            /\ (WalkField \/ WalkLast) /\ Typed
        BY <3>2 DEF Inv, RestoreField, RestoreLast, At
      <4>2. UNCHANGED accs
        <5>0. PICK p, d, r : /\ p = Tried(heap, frames) /\ d = frames[Len(frames)].depth + 1
                             /\ r = Rest(heap, frames)
          OBVIOUS
        <5>1. IF p \in Node /\ Visit(p) THEN Enter(p, d, r) ELSE Keep(r)
          BY <4>1, <5>0, WalkTries
        <5> QED BY <4>1, <5>1 DEF Enter, restore_colors, Keep
      <4> QED BY <4>1, <4>2
    <3>3. CASE RestoreEnd
      BY <3>3 DEF RestoreEnd, At
    <3> QED BY <1>9, <3>1, <3>2, <3>3
  <2> QED BY <2>1, CountedKeeps
<1>10. CASE Return
  BY <1>10 DEF Return, At, Counted
<1>11. CASE CollectorRuns
  BY <1>11 DEF CollectorRuns, Collect, Counted
<1>12. CASE UNCHANGED objvars
  BY <1>12, CountedStutter
<1> QED BY <1>1, <1>2, <1>3, <1>4, <1>5, <1>6, <1>7, <1>8, <1>9, <1>10, <1>11, <1>12
        DEF ObjNext, Step
-----------------------------------------------------------------------------
(* The promise *)

\* What is returned is an answer.
LEMMA ReturnAnswers ==
    ASSUME Inv, Counted, Return
    PROVE  result' \in Answers(heap, call.start, E, Elements(call.reach))
<1>1. /\ pc = "free" /\ heap \in Heaps
      /\ result' = [data |-> acc_data, headers |-> acc_hdrs, depth |-> acc_depth,
                    reached |-> reached]
  BY DEF Inv, Typed, Return, At
<1>2. /\ acc_data = Words(heap, M) /\ acc_hdrs = Cardinality(M) /\ IsFiniteSet(M)
      /\ Deep(acc_depth, acc_hdrs) /\ reached = (M \intersect Elements(call.reach) # {})
  BY <1>1 DEF Counted
<1>3. acc_depth \in IF M = {} THEN {0} ELSE 0 .. Cardinality(M) - 1
  <2>1. Cardinality(M) = 0 <=> M = {}
    BY <1>2, FS_EmptySet
  <2> PICK n, d : n = Cardinality(M) /\ d = acc_depth
    OBVIOUS
  <2>2. n \in Nat /\ d \in Nat /\ (n # 0 => d \in 0 .. n - 1) /\ (n = 0 => d = 0)
    BY <1>2 DEF Deep
  <2> QED BY <2>1, <2>2
<1> QED BY <1>1, <1>2, <1>3 DEF Answers, M
-----------------------------------------------------------------------------
\* The colours the callers see.
Seen == IF InCall THEN saved ELSE color

\* Measurement's operators of constants are those of this module.
LEMMA SameAnswers ==
    ASSUME NEW h, NEW start, NEW X, NEW Y
    PROVE  Promise!Answers(h, start, X, Y) = Answers(h, start, X, Y)
<1>1. Promise!Measured(h, start, X) = Measured(h, start, X)
  BY DEF Promise!Measured, Measured, Promise!Closed, Closed, Promise!Follows, Follows
<1>2. \A S : Promise!Cardinality(S) = Cardinality(S)
  BY DEF Promise!Cardinality, Cardinality
<1>3. \A S : Promise!Words(h, S) = Words(h, S)
  BY <1>2 DEF Promise!Words, Words, Promise!MapThenSumSet, MapThenSumSet,
              Promise!MapThenFoldSet, MapThenFoldSet
<1> QED BY <1>1, <1>2, <1>3 DEF Promise!Answers, Answers

\* Within a call nothing can be seen.
LEMMA CallIsUnseen ==
    ASSUME InCall, InCall', UNCHANGED <<heap, result, saved>>
    PROVE  UNCHANGED Promise!vars
<1> QED BY DEF Promise!vars

\* The colours are back when the call returns.
LEMMA ReturnMeasures ==
    ASSUME Inv, Ordered, Counted, Return
    PROVE  Promise!Measure \/ UNCHANGED Promise!vars
<1>1. /\ pc = "free" /\ InCall /\ pc' = "idle" /\ ~InCall' /\ UNCHANGED <<heap, color, saved>>
      /\ call \in [start : Node \union {Val_unit}, exclude : Lists, reach : Lists]
  BY DEF Inv, Typed, InCall, Return, At
<1>2. color = saved
  BY <1>1 DEF Ordered
<1>3. UNCHANGED heap /\ Seen' = Seen
  BY <1>1, <1>2 DEF Seen
<1>4. CASE result' = result
  BY <1>3, <1>4 DEF Promise!vars, Seen
<1>5. CASE result' # result
  <2>1. result' \in Answers(heap, call.start, Elements(call.exclude), Elements(call.reach))
    BY ReturnAnswers DEF E
  <2>2. /\ Promise!Elements(call.exclude) = Elements(call.exclude)
        /\ Promise!Elements(call.reach) = Elements(call.reach)
    BY DEF Promise!Elements, Elements
  <2>3. result' \in Promise!Answers(heap, call.start, Promise!Elements(call.exclude),
                                    Promise!Elements(call.reach))
    BY <2>1, <2>2, SameAnswers
  <2>4. call.start \in Node \union {Val_unit} /\ call.exclude \in Lists /\ call.reach \in Lists
    BY <1>1
  <2> QED BY <1>3, <1>5, <2>3, <2>4 DEF Promise!Measure, Seen
<1> QED BY <1>4, <1>5

\* Every step of the library is a step of its promise, or none.
LEMMA MeasuresStep ==
    ASSUME Inv, Ordered, Counted, [ObjNext]_objvars
    PROVE  [Promise!Next]_(Promise!vars)
<1>1. CASE \E start \in Node \union {Val_unit}, exclude, reach \in Lists :
               Call(start, exclude, reach)
  <2>1. ~InCall /\ InCall' /\ saved' = color /\ UNCHANGED <<heap, color, result>>
    BY <1>1 DEF Call, InCall
  <2> QED BY <2>1 DEF Promise!vars
<1>2. CASE ExcludeNext \/ ExcludeEnd
  <2>1. InCall /\ InCall' /\ UNCHANGED <<heap, result, saved>>
    BY <1>2 DEF ExcludeNext, ExcludeEnd, At, InCall
  <2> QED BY <2>1, CallIsUnseen
<1>3. CASE MarkStart \/ MarkField \/ MarkLast \/ MarkEnd
  <2>1. InCall /\ InCall' /\ UNCHANGED <<heap, result, saved>>
    BY <1>3 DEF MarkStart, MarkField, MarkLast, MarkEnd, At, InCall
  <2> QED BY <2>1, CallIsUnseen
<1>4. CASE UnexcludeNext \/ Reach
  <2>1. InCall /\ InCall' /\ UNCHANGED <<heap, result, saved>>
    BY <1>4 DEF UnexcludeNext, Reach, At, InCall
  <2> QED BY <2>1, CallIsUnseen
<1>5. CASE RestoreStart \/ RestoreField \/ RestoreLast \/ RestoreEnd
  <2>1. InCall /\ InCall' /\ UNCHANGED <<heap, result, saved>>
    BY <1>5 DEF RestoreStart, RestoreField, RestoreLast, RestoreEnd, At, InCall
  <2> QED BY <2>1, CallIsUnseen
<1>6. CASE Return
  BY <1>6, ReturnMeasures DEF Promise!Next
<1>7. CASE CollectorRuns
  <2>1. /\ ~InCall /\ ~InCall' /\ color' \in [Node -> LiveColors] /\ UNCHANGED <<heap, result>>
    BY <1>7 DEF CollectorRuns, Collect, InCall
  <2> QED BY <2>1 DEF Promise!Next, Promise!Collect
<1>8. CASE UNCHANGED objvars
  BY <1>8 DEF objvars, Promise!vars, InCall
<1> QED BY <1>1, <1>2, <1>3, <1>4, <1>5, <1>6, <1>7, <1>8 DEF ObjNext, Step

(***************************************************************************)
(* The library keeps the promise of Measurement: its callers see one step  *)
(* that answers with the size, the number, the depth and the membership    *)
(* that the heap's graph gives, and headers that only the collector        *)
(* recolours, though every header met is overwritten twice during a call.  *)
(***************************************************************************)
THEOREM ObjSizeMeasures == ObjSpec => Measures
<1>1. ObjInit => Promise!Init
  BY DEF ObjInit, Init, InCall, Promise!Init
<1> QED BY <1>1, InvInit, InvStep, OrderedInit, OrderedStep, CountedInit, CountedStep, MeasuresStep,
        PTL DEF ObjSpec, Measures, Promise!Spec
=============================================================================
