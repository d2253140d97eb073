---------------------------- MODULE Pcre2Proofs ----------------------------
(* Theorems about Pcre2 and their proofs. *)
EXTENDS Pcre2, SequenceTheorems, TLAPS

(***************************************************************************)
(* The stack of matches                                                    *)
(***************************************************************************)

LEMMA TopIsFrame ==
  ASSUME frames \in Seq(Frame), frames # << >>
  PROVE  Depth \in Nat \ {0} /\ Depth \in 1 .. Len(frames) /\ Top \in Frame
<1>1. Len(frames) \in Nat /\ Len(frames) # 0
  BY EmptySeq, LenProperties
<1> QED
  BY <1>1, ElementOfSeq DEF Depth, Top

\* The offsets of a callout or a result are those of the whole subject.
LEMMA OffsetsCopied ==
  ASSUME NEW subj_start \in 0 .. Length, NEW ovec \in Offsets, NEW v_ovec \in Offsets,
         NEW n \in Nat, Searched(n, ovec, subj_start)
  PROVE  /\ copy_ovector(subj_start, ovec, v_ovec, n) \in Offsets
         /\ handle_pcre2_match_result(ovec, v_ovec, subj_start, n) \in Offsets
<1> USE PcreAssumption DEF Offsets, Group, PCRE2_UNSET
<1>1. ASSUME NEW g \in Group
      PROVE  /\ ovec[g] + subj_start \in PCRE2_UNSET .. Length
             /\ v_ovec[g] \in PCRE2_UNSET .. Length
  BY <1>1 DEF Searched
<1>2. copy_ovector(subj_start, ovec, v_ovec, n) \in Offsets
  BY <1>1 DEF copy_ovector
<1>3. -1 \in PCRE2_UNSET .. Length
  OBVIOUS
<1> QED
  BY <1>2, <1>3 DEF handle_pcre2_match_result

LEMMA OvectorType == make_ovector \in Offsets
BY PcreAssumption DEF make_ovector, Offsets, PCRE2_UNSET

-----------------------------------------------------------------------------
(* Every step keeps the stack, pushes a match, changes the top, or pops it. *)

Kept == UNCHANGED <<frames, heap>>

Pushed ==
    \E e \in Frame :
        /\ InOCaml /\ e.rex \in reachable /\ e.phase = "library"
        /\ frames' = Append(frames, e)
        /\ Allocated(e)

Changed ==
    /\ frames # << >>
    /\ \E e \in Frame :
           /\ e.rex = Top.rex /\ e.is_dfa = Top.is_dfa /\ e.callout = Top.callout
           /\ e.callout \/ e.phase = "library"
           /\ frames' = [frames EXCEPT ![Depth] = e]
    /\ UNCHANGED heap

Popped ==
    /\ frames # << >>
    /\ frames' = SubSeq(frames, 1, Depth - 1)
    /\ Freed(Resources(Top))

LEMMA StepShapes ==
  ASSUME PcreTypeOK, [PcreNext]_pcrevars
  PROVE  Kept \/ Pushed \/ Changed \/ Popped
<1>1. ASSUME NEW r \in Rex, Compile(r) \/ Drop(r) \/ Collect(r) PROVE Kept
  BY <1>1 DEF Compile, Drop, Collect, Kept
<1>3. ASSUME NEW r \in Rex, NEW subj_start \in 0 .. Length, NEW is_dfa \in BOOLEAN,
             NEW callout \in BOOLEAN, Match(r, subj_start, is_dfa, callout)
      PROVE  Pushed
  <2> DEFINE e == [rex |-> r, subj_start |-> subj_start, is_dfa |-> is_dfa,
                   callout |-> callout, v_ovec |-> make_ovector, phase |-> "library"]
  <2>1. e \in Frame /\ e.rex = r /\ e.phase = "library"
    BY OvectorType DEF Frame
  <2>2. InOCaml /\ r \in reachable /\ frames' = Append(frames, e) /\ Allocated(e)
    BY <1>3 DEF Match
  <2> HIDE DEF e
  <2> QED
    BY <2>1, <2>2 DEF Pushed
<1>4. ASSUME NEW capture_top \in 1 .. Groups + 1, NEW ovec \in Offsets,
             pcre2_callout_handler(capture_top, ovec)
      PROVE  Changed
  <2> DEFINE v == copy_ovector(Top.subj_start, ovec, Top.v_ovec, capture_top)
             e == [Top EXCEPT !.phase = "callout", !.v_ovec = v]
  <2>1. frames # << >> /\ Searched(capture_top, ovec, Top.subj_start) /\ Top.callout
    BY <1>4 DEF pcre2_callout_handler, MatchedSoFar, InLibrary
  <2>2. Top \in Frame
    BY <2>1, TopIsFrame DEF PcreTypeOK
  <2>3. v \in Offsets
    BY <2>1, <2>2, OffsetsCopied, PcreAssumption DEF Frame
  <2>4. e \in Frame /\ e.rex = Top.rex /\ e.is_dfa = Top.is_dfa /\ e.callout = Top.callout
    BY <2>2, <2>3 DEF Frame
  <2>5. frames' = [frames EXCEPT ![Depth] = e] /\ UNCHANGED heap
    BY <1>4 DEF pcre2_callout_handler
  <2> QED
    BY <2>1, <2>4, <2>5 DEF Changed
<1>5. ASSUME CalloutReturns PROVE Changed
  <2> DEFINE e == [Top EXCEPT !.phase = "library"]
  <2>1. frames # << >> /\ Top \in Frame
    BY <1>5, TopIsFrame DEF CalloutReturns, PcreTypeOK
  <2>2. /\ e \in Frame /\ e.rex = Top.rex /\ e.is_dfa = Top.is_dfa /\ e.callout = Top.callout
        /\ e.phase = "library"
    BY <2>1 DEF Frame
  <2> QED
    BY <1>5, <2>1, <2>2 DEF CalloutReturns, Changed
<1>6. ASSUME Raises \/ Returns PROVE Popped
  BY <1>6 DEF Raises, Returns, InLibrary, Pop, Popped
<1>7. ASSUME UNCHANGED pcrevars PROVE Kept
  BY <1>7 DEF pcrevars, Kept
<1> QED
  BY <1>1, <1>3, <1>4, <1>5, <1>6, <1>7 DEF PcreNext
-----------------------------------------------------------------------------
(* Types *)

LEMMA FramesStep ==
  ASSUME frames \in Seq(Frame), Kept \/ Pushed \/ Changed \/ Popped
  PROVE  frames' \in Seq(Frame)
<1>1. CASE Kept
  BY <1>1 DEF Kept
<1>2. CASE Pushed
  BY <1>2, AppendProperties DEF Pushed
<1>3. CASE Changed
  BY <1>3, TopIsFrame, ExceptSeq DEF Changed, Depth
<1>4. CASE Popped
  <2>1. \A i \in 1 .. Depth - 1 : frames[i] \in Frame
    BY <1>4, TopIsFrame, ElementOfSeq DEF Popped, Depth
  <2> QED
    BY <1>4, <2>1, TopIsFrame, SubSeqProperties DEF Popped
<1> QED
  BY <1>1, <1>2, <1>3, <1>4

\* A match that ends gives the program offsets of the whole subject.
LEMMA FoundType ==
  ASSUME NEW is_dfa \in BOOLEAN, NEW v_ovec \in Offsets, NEW subj_start \in 0 .. Length,
         Found(is_dfa, v_ovec, subj_start)
  PROVE  last'.v_ovec \in Offsets
<1>1. PICK ret \in Results(is_dfa), ovec \in Offsets :
          /\ Matched(ret, ovec, subj_start)
          /\ last' = [ret |-> ret, ovec |-> ovec, subj_start |-> subj_start,
                      v_ovec |-> handle_pcre2_match_result(ovec, v_ovec, subj_start, ret)]
  BY DEF Found
<1>2. ret \in Nat
  BY PcreAssumption DEF Results
<1> QED
  BY <1>1, <1>2, OffsetsCopied DEF Matched

LEMMA LastStep ==
  ASSUME PcreTypeOK, [PcreNext]_pcrevars
  PROVE  last' # None => last'.v_ovec \in Offsets
<1> SUFFICES ASSUME last' # None PROVE last'.v_ovec \in Offsets
  OBVIOUS
<1>1. ASSUME NEW r \in Rex, Compile(r) \/ Drop(r) \/ Collect(r) PROVE FALSE
  BY <1>1 DEF Compile, Drop, Collect
<1>3. ASSUME NEW r \in Rex, NEW subj_start \in 0 .. Length, NEW is_dfa \in BOOLEAN,
             NEW callout \in BOOLEAN, Match(r, subj_start, is_dfa, callout)
      PROVE  FALSE
  BY <1>3 DEF Match
<1>4. ASSUME NEW capture_top \in 1 .. Groups + 1, NEW ovec \in Offsets,
             pcre2_callout_handler(capture_top, ovec)
      PROVE  FALSE
  BY <1>4 DEF pcre2_callout_handler
<1>5. ASSUME CalloutReturns \/ Raises PROVE FALSE
  BY <1>5 DEF CalloutReturns, Raises
<1>6. ASSUME Returns PROVE last'.v_ovec \in Offsets
  <2>1. frames # << >> /\ Found(Top.is_dfa, Top.v_ovec, Top.subj_start)
    BY <1>6 DEF Returns, InLibrary
  <2>2. Top.is_dfa \in BOOLEAN /\ Top.v_ovec \in Offsets /\ Top.subj_start \in 0 .. Length
    BY <2>1, TopIsFrame DEF PcreTypeOK, Frame
  <2> QED
    BY <2>1, <2>2, FoundType
<1>7. ASSUME UNCHANGED pcrevars PROVE last'.v_ovec \in Offsets
  BY <1>7 DEF pcrevars, PcreTypeOK
<1> QED
  BY <1>1, <1>3, <1>4, <1>5, <1>6, <1>7 DEF PcreNext

\* What happens to the patterns.
LEMMA PatternStep ==
  ASSUME PcreTypeOK, [PcreNext]_pcrevars
  PROVE  \/ UNCHANGED rex /\ reachable' \subseteq reachable
         \/ \E r \in Rex : /\ rex' = [rex EXCEPT ![r] = "live"]
                           /\ reachable' = reachable \union {r} /\ Kept
         \/ \E r \in Rex : /\ rex' = [rex EXCEPT ![r] = "none"]
                           /\ InOCaml /\ r \notin Roots /\ UNCHANGED reachable /\ Kept
<1>1. ASSUME NEW r \in Rex, Compile(r) \/ Drop(r) \/ Collect(r)
      PROVE  \/ UNCHANGED rex /\ reachable' \subseteq reachable
             \/ /\ rex' = [rex EXCEPT ![r] = "live"]
                /\ reachable' = reachable \union {r} /\ Kept
             \/ /\ rex' = [rex EXCEPT ![r] = "none"]
                /\ InOCaml /\ r \notin Roots /\ UNCHANGED reachable /\ Kept
  BY <1>1 DEF Compile, Drop, Collect, Kept
<1>2. ASSUME NEW r \in Rex, NEW subj_start \in 0 .. Length, NEW is_dfa \in BOOLEAN,
             NEW callout \in BOOLEAN, Match(r, subj_start, is_dfa, callout)
      PROVE  UNCHANGED rex /\ reachable' \subseteq reachable
  BY <1>2 DEF Match
<1>3. ASSUME NEW capture_top \in 1 .. Groups + 1, NEW ovec \in Offsets,
             pcre2_callout_handler(capture_top, ovec)
      PROVE  UNCHANGED rex /\ reachable' \subseteq reachable
  BY <1>3 DEF pcre2_callout_handler
<1>4. ASSUME CalloutReturns \/ Raises \/ Returns \/ UNCHANGED pcrevars
      PROVE  UNCHANGED rex /\ reachable' \subseteq reachable
  BY <1>4 DEF CalloutReturns, Raises, Returns, Pop, pcrevars
<1> QED
  BY <1>1, <1>2, <1>3, <1>4 DEF PcreNext

(***************************************************************************)
(* Every variable keeps its type; the offsets a callout or a match stores  *)
(* in the program's array lie in the whole subject, for every number of    *)
(* groups, every subject and every depth of matches inside of callouts.    *)
(***************************************************************************)
THEOREM PcreTypeCorrect == PcreSpec => []PcreTypeOK
<1>1. PcreInit => PcreTypeOK
  BY EmptySeq DEF PcreInit, PcreTypeOK
<1>2. PcreTypeOK /\ [PcreNext]_pcrevars => PcreTypeOK'
  <2> SUFFICES ASSUME PcreTypeOK, [PcreNext]_pcrevars PROVE PcreTypeOK'
    OBVIOUS
  <2>1. frames' \in Seq(Frame)
    BY StepShapes, FramesStep DEF PcreTypeOK
  <2>2. rex' \in [Rex -> {"none", "live"}] /\ reachable' \subseteq Rex
    BY PatternStep DEF PcreTypeOK
  <2> QED
    BY <2>1, <2>2, LastStep DEF PcreTypeOK
<1> QED
  BY <1>1, <1>2, PTL DEF PcreSpec
-----------------------------------------------------------------------------
(* What the stack holds after a step, match by match *)

\* What NothingLeaks says of one block.
Needed(b) == b[1] \in 1 .. Depth /\ b[2] \in Resources(frames[b[1]])

LEMMA StackStep ==
  ASSUME frames \in Seq(Frame), Kept \/ Pushed \/ Changed \/ Popped
  PROVE  /\ Depth \in Nat /\ Depth' \in Nat
         /\ \/ /\ Depth' = Depth /\ heap' = heap
               /\ \A d \in 1 .. Depth : /\ frames'[d].rex = frames[d].rex
                                        /\ frames'[d].callout = frames[d].callout
                                        /\ \/ frames'[d].callout
                                           \/ frames'[d].phase = "library"
                                           \/ frames'[d] = frames[d]
                                        /\ Resources(frames'[d]) = Resources(frames[d])
            \/ /\ Depth' = Depth + 1 /\ frames'[Depth'].rex \in reachable
               /\ InOCaml /\ frames'[Depth'].phase = "library"
               /\ Allocated(frames'[Depth'])
               /\ \A d \in 1 .. Depth : frames'[d] = frames[d]
            \/ /\ Depth \in Nat \ {0} /\ Depth' = Depth - 1
               /\ Freed(Resources(frames[Depth]))
               /\ \A d \in 1 .. Depth' : frames'[d] = frames[d]
<1>1. Depth \in Nat
  BY LenProperties DEF Depth
<1>2. CASE Kept
  <2>1. frames' = frames /\ heap' = heap /\ Depth' = Depth
    BY <1>2 DEF Kept, Depth
  <2>2. Depth' \in Nat
    BY <1>1, <2>1
  <2> QED
    BY <1>1, <2>1, <2>2, Zenon
<1>3. CASE Pushed
  <2>1. PICK e \in Frame : /\ InOCaml /\ e.rex \in reachable /\ e.phase = "library"
                           /\ frames' = Append(frames, e) /\ Allocated(e)
    BY <1>3 DEF Pushed
  <2>2. Depth' = Depth + 1 /\ frames'[Depth + 1] = e /\ \A d \in 1 .. Depth : frames'[d] = frames[d]
    BY <2>1, AppendProperties DEF Depth
  <2>3. Depth' \in Nat
    BY <1>1, <2>2
  <2>4. frames'[Depth'] = e
    BY <2>2, Zenon
  <2> QED
    BY <1>1, <2>1, <2>2, <2>3, <2>4, Zenon
<1>4. CASE Changed
  <2>1. PICK e \in Frame :
            /\ e.rex = Top.rex /\ e.is_dfa = Top.is_dfa /\ e.callout = Top.callout
            /\ e.callout \/ e.phase = "library"
            /\ frames' = [frames EXCEPT ![Depth] = e]
    BY <1>4 DEF Changed
  <2>2. Depth' = Depth /\ \A d \in 1 .. Depth : frames'[d] = IF d = Depth THEN e ELSE frames[d]
    BY <1>4, <2>1, TopIsFrame, ExceptSeq DEF Changed, Depth
  <2>3. Resources(e) = Resources(Top)
    BY <2>1, Zenon DEF Resources
  <2>4. ASSUME NEW d \in 1 .. Depth
        PROVE  /\ frames'[d].rex = frames[d].rex /\ frames'[d].callout = frames[d].callout
               /\ frames'[d].callout \/ frames'[d].phase = "library" \/ frames'[d] = frames[d]
               /\ Resources(frames'[d]) = Resources(frames[d])
    <3>1. CASE d = Depth
      BY <2>1, <2>2, <2>3, <3>1, Zenon DEF Top
    <3>2. CASE d # Depth
      <4>1. frames'[d] = frames[d]
        BY <2>2, <3>2, Zenon
      <4> QED
        BY <4>1, Zenon
    <3> QED
      BY <3>1, <3>2
  <2>5. Depth' \in Nat /\ heap' = heap
    BY <1>1, <1>4, <2>2 DEF Changed
  <2> QED
    BY <1>1, <2>2, <2>4, <2>5, Zenon
<1>5. CASE Popped
  <2>1. Depth \in Nat \ {0} /\ \A i \in 1 .. Depth - 1 : frames[i] \in Frame
    BY <1>5, TopIsFrame, ElementOfSeq DEF Popped, Depth
  <2>2. /\ Len(frames') = IF 1 <= Depth - 1 THEN Depth - 1 - 1 + 1 ELSE 0
        /\ \A i \in 1 .. Depth - 1 - 1 + 1 : frames'[i] = frames[1 + i - 1]
    BY <1>5, <2>1, SubSeqProperties DEF Popped
  <2>3. Depth' = Depth - 1
    <3>1. Depth' = IF 1 <= Depth - 1 THEN Depth - 1 - 1 + 1 ELSE 0
      BY <2>2, Zenon DEF Depth
    <3> QED
      BY <2>1, <3>1
  <2>4. \A d \in 1 .. Depth' : frames'[d] = frames[d]
    BY <2>1, <2>2, <2>3
  <2>5. Freed(Resources(frames[Depth]))
    BY <1>5, Zenon DEF Popped, Top
  <2>6. Depth' \in Nat
    BY <2>1, <2>3
  <2> QED
    BY <1>1, <2>1, <2>3, <2>4, <2>5, <2>6, Zenon
<1> QED
  BY <1>2, <1>3, <1>4, <1>5

\* A match without callout is on top and inside the library: no OCaml code runs
\* until it ends.
PlainOnTop ==
    \A d \in 1 .. Depth : frames[d].callout \/ (d = Depth /\ frames[d].phase = "library")

LEMMA PlainOnTopStep ==
  ASSUME frames \in Seq(Frame), PlainOnTop, Kept \/ Pushed \/ Changed \/ Popped
  PROVE  PlainOnTop'
<1>1. Depth \in Nat /\ Depth' \in Nat
  BY StackStep
<1>2. CASE /\ Depth' = Depth
           /\ \A d \in 1 .. Depth : /\ frames'[d].callout = frames[d].callout
                                    /\ \/ frames'[d].callout
                                       \/ frames'[d].phase = "library"
                                       \/ frames'[d] = frames[d]
  BY <1>2, Zenon DEF PlainOnTop
<1>3. CASE /\ Depth' = Depth + 1 /\ InOCaml /\ frames'[Depth'].phase = "library"
           /\ \A d \in 1 .. Depth : frames'[d] = frames[d]
  <2>1. \A d \in 1 .. Depth : frames[d].callout
    <3>1. CASE frames = << >>
      BY <3>1, <1>1, EmptySeq DEF Depth
    <3>2. CASE frames # << >>
      <4>1. Top.phase = "callout"
        BY <1>3, <3>2 DEF InOCaml
      <4> QED
        BY <4>1 DEF PlainOnTop, Top
    <3> QED
      BY <3>1, <3>2
  <2>2. \A d \in 1 .. Depth' : d \in 1 .. Depth \/ d = Depth'
    BY <1>1, <1>3
  <2> QED
    BY <1>3, <2>1, <2>2, Zenon DEF PlainOnTop
<1>4. CASE /\ Depth \in Nat \ {0} /\ Depth' = Depth - 1
           /\ \A d \in 1 .. Depth' : frames'[d] = frames[d]
  <2>1. \A d \in 1 .. Depth' : d \in 1 .. Depth /\ d # Depth
    BY <1>1, <1>4
  <2> QED
    BY <1>4, <2>1, Zenon DEF PlainOnTop
<1> QED
  BY <1>2, <1>3, <1>4, StackStep, Zenon

LEMMA PlainMatchesOnTop == PcreSpec => []PlainOnTop
<1>1. PcreInit => PlainOnTop
  <2> SUFFICES ASSUME PcreInit PROVE PlainOnTop
    OBVIOUS
  <2>1. 1 .. Depth = {}
    BY EmptySeq DEF PcreInit, Depth
  <2> QED
    BY <2>1, Zenon DEF PlainOnTop
<1>2. PcreTypeOK /\ PlainOnTop /\ [PcreNext]_pcrevars => PlainOnTop'
  BY StepShapes, PlainOnTopStep DEF PcreTypeOK
<1> QED
  BY <1>1, <1>2, PcreTypeCorrect, PTL DEF PcreSpec

-----------------------------------------------------------------------------
(* Nothing leaks *)

LEMMA HeapValues ==
  NothingLeaks <=> heap = [b \in Blocks |-> IF Needed(b) THEN 1 ELSE 0]
BY Zenon DEF NothingLeaks, Needed

LEMMA NothingLeaksStep ==
  ASSUME frames \in Seq(Frame), NothingLeaks, Kept \/ Pushed \/ Changed \/ Popped
  PROVE  NothingLeaks'
<1>1. heap = [b \in Blocks |-> IF Needed(b) THEN 1 ELSE 0]
  BY HeapValues
<1>2. Depth \in Nat /\ Depth' \in Nat
  BY StackStep
<1>3. heap' = [b \in Blocks |-> IF Needed(b)' THEN 1 ELSE 0]
  <2>1. CASE /\ Depth' = Depth /\ heap' = heap
             /\ \A d \in 1 .. Depth : Resources(frames'[d]) = Resources(frames[d])
    <3>1. \A b \in Blocks : Needed(b)' <=> Needed(b)
      BY <2>1, Zenon DEF Needed
    <3> QED
      BY <1>1, <2>1, <3>1, Zenon
  <2>2. CASE /\ Depth' = Depth + 1
             /\ Allocated(frames'[Depth'])
             /\ \A d \in 1 .. Depth : frames'[d] = frames[d]
    <3>1. \A d : d \in 1 .. Depth' <=> d \in 1 .. Depth \/ d = Depth'
      BY <1>2, <2>2
    <3>2. Depth' \notin 1 .. Depth
      BY <1>2, <2>2
    <3>3. \A b \in Blocks : /\ b[1] = Depth' => ~Needed(b)
                            /\ b[1] = Depth' => (Needed(b)' <=> b[2] \in Resources(frames'[Depth']))
                            /\ b[1] # Depth' => (Needed(b)' <=> Needed(b))
      BY <2>2, <3>1, <3>2, Zenon DEF Needed
    <3>4. heap' = [b \in Blocks |-> IF b[1] = Depth' /\ b[2] \in Resources(frames'[Depth'])
                                    THEN heap[b] + 1 ELSE heap[b]]
      BY <2>2, Zenon DEF Allocated
    <3>5. \A b \in Blocks : (IF b[1] = Depth' /\ b[2] \in Resources(frames'[Depth'])
                             THEN heap[b] + 1 ELSE heap[b]) = IF Needed(b)' THEN 1 ELSE 0
      <4> HIDE DEF Needed
      <4> QED
        BY <1>1, <3>3
    <3> QED
      BY <3>4, <3>5, Zenon
  <2>3. CASE /\ Depth \in Nat \ {0} /\ Depth' = Depth - 1
             /\ Freed(Resources(frames[Depth]))
             /\ \A d \in 1 .. Depth' : frames'[d] = frames[d]
    <3>1. \A d : d \in 1 .. Depth <=> d \in 1 .. Depth' \/ d = Depth
      BY <1>2, <2>3
    <3>2. Depth \notin 1 .. Depth'
      BY <1>2, <2>3
    <3>3. \A b \in Blocks : /\ b[1] = Depth => ~Needed(b)'
                            /\ b[1] = Depth => (Needed(b) <=> b[2] \in Resources(frames[Depth]))
                            /\ b[1] # Depth => (Needed(b)' <=> Needed(b))
      BY <2>3, <3>1, <3>2, Zenon DEF Needed
    <3>4. heap' = [b \in Blocks |-> IF b[1] = Depth /\ b[2] \in Resources(frames[Depth])
                                    THEN heap[b] - 1 ELSE heap[b]]
      BY <2>3, Zenon DEF Freed
    <3>5. \A b \in Blocks : (IF b[1] = Depth /\ b[2] \in Resources(frames[Depth])
                             THEN heap[b] - 1 ELSE heap[b]) = IF Needed(b)' THEN 1 ELSE 0
      BY <1>1, <3>3
    <3> QED
      BY <3>4, <3>5, Zenon
  <2> QED
    BY <2>1, <2>2, <2>3, StackStep
<1> QED
  BY <1>3, Zenon DEF NothingLeaks, Needed

(***************************************************************************)
(* Whatever callouts do, and however a match with or without one ends, the *)
(* matches that are still running hold each block they need once, and no   *)
(* other block is held.                                                    *)
(***************************************************************************)
THEOREM EverythingIsFreed == PcreSpec => []NothingLeaks
<1>1. PcreInit => NothingLeaks
  <2> SUFFICES ASSUME PcreInit PROVE NothingLeaks
    OBVIOUS
  <2>1. heap = [b \in Blocks |-> 0] /\ 1 .. Depth = {}
    BY EmptySeq DEF PcreInit, Depth
  <2>2. \A b \in Blocks : ~Needed(b)
    BY <2>1, Zenon DEF Needed
  <2> QED
    BY <2>1, <2>2, HeapValues, Zenon
<1>2. PcreTypeOK /\ NothingLeaks /\ [PcreNext]_pcrevars => NothingLeaks'
  BY StepShapes, NothingLeaksStep DEF PcreTypeOK
<1> QED
  BY <1>1, <1>2, PcreTypeCorrect, PTL DEF PcreSpec
-----------------------------------------------------------------------------
(* Patterns in use *)

LEMMA AliveStep ==
  ASSUME PcreTypeOK, PlainOnTop, RunningCodeIsAlive, [PcreNext]_pcrevars
  PROVE  RunningCodeIsAlive'
<1>1. Depth \in Nat
  BY StepShapes, StackStep DEF PcreTypeOK
<1>2. \A r \in reachable : r \in Rex
  BY DEF PcreTypeOK
<1>3. \A d \in 1 .. Depth : frames[d].rex \in Rex
  <2>1. \A d \in 1 .. Depth : frames[d] \in Frame
    BY ElementOfSeq DEF PcreTypeOK, Depth
  <2> QED
    BY <2>1 DEF Frame
<1>4. CASE UNCHANGED rex /\ reachable' \subseteq reachable
  <2>1. \A d \in 1 .. Depth' : \/ d \in 1 .. Depth /\ frames'[d].rex = frames[d].rex
                               \/ frames'[d].rex \in reachable
    BY <1>1, StepShapes, StackStep DEF PcreTypeOK
  <2> QED
    BY <1>4, <2>1, Zenon DEF RunningCodeIsAlive
<1>5. ASSUME NEW r \in Rex, Kept, reachable' = reachable \union {r},
             rex' = [rex EXCEPT ![r] = "live"]
      PROVE  RunningCodeIsAlive'
  <2>1. frames' = frames /\ Depth' = Depth
    BY <1>5 DEF Kept, Depth
  <2>2. \A q \in Rex : q = r \/ rex[q] = "live" => rex'[q] = "live"
    BY <1>5 DEF PcreTypeOK
  <2> QED
    BY <1>2, <1>3, <1>5, <2>1, <2>2 DEF RunningCodeIsAlive
<1>6. ASSUME NEW r \in Rex, Kept, InOCaml, r \notin Roots, UNCHANGED reachable,
             rex' = [rex EXCEPT ![r] = "none"]
      PROVE  RunningCodeIsAlive'
  <2>1. frames' = frames /\ Depth' = Depth
    BY <1>6 DEF Kept, Depth
  <2>2. \A q \in Rex : q # r => rex'[q] = rex[q]
    BY <1>6 DEF PcreTypeOK
  <2>3. ASSUME NEW d \in 1 .. Depth PROVE frames[d].rex # r
    <3>1. frames # << >>
      BY <2>3, EmptySeq DEF Depth
    <3>2. Top.phase = "callout"
      BY <1>6, <3>1 DEF InOCaml
    <3>3. frames[d].callout
      BY <3>2 DEF PlainOnTop, Top
    <3> QED
      BY <1>6, <3>3 DEF Roots
  <2>4. \A q \in reachable : q # r
    BY <1>6 DEF Roots
  <2> QED
    BY <1>2, <1>3, <1>6, <2>1, <2>2, <2>3, <2>4 DEF RunningCodeIsAlive
<1> QED
  BY <1>4, <1>5, <1>6, PatternStep, Zenon

(***************************************************************************)
(* A pattern is not freed while the program refers to it or a match that   *)
(* waits for a callout uses it.                                            *)
(***************************************************************************)
THEOREM PatternsStayAlive == PcreSpec => []RunningCodeIsAlive
<1>1. PcreInit => RunningCodeIsAlive
  <2> SUFFICES ASSUME PcreInit PROVE RunningCodeIsAlive
    OBVIOUS
  <2>1. reachable = {} /\ 1 .. Depth = {}
    BY EmptySeq DEF PcreInit, Depth
  <2> QED
    BY <2>1, Zenon DEF RunningCodeIsAlive
<1> QED
  BY <1>1, AliveStep, PlainMatchesOnTop, PcreTypeCorrect, PTL DEF PcreSpec

-----------------------------------------------------------------------------
(* Groups *)

LEMMA FoundReports ==
  ASSUME NEW is_dfa, NEW v_ovec, NEW subj_start \in 0 .. Length,
         Found(is_dfa, v_ovec, subj_start)
  PROVE  GroupsReported'
<1>1. PICK ret \in Results(is_dfa), ovec \in Offsets :
          /\ Matched(ret, ovec, subj_start)
          /\ last' = [ret |-> ret, ovec |-> ovec, subj_start |-> subj_start,
                      v_ovec |-> handle_pcre2_match_result(ovec, v_ovec, subj_start, ret)]
  BY DEF Found
<1>2. ret \in Nat
  BY PcreAssumption DEF Results
<1>3. ASSUME ret > 0, NEW g \in Group
      PROVE  IF ovec[g] # PCRE2_UNSET
             THEN handle_pcre2_match_result(ovec, v_ovec, subj_start, ret)[g] = ovec[g] + subj_start
             ELSE g >= ret \/ subj_start = 0 =>
                  handle_pcre2_match_result(ovec, v_ovec, subj_start, ret)[g] < 0
  <2>1. g \in Int /\ (g >= ret => ovec[g] = PCRE2_UNSET)
    BY <1>1, PcreAssumption DEF Matched, Searched, Group
  <2>2. handle_pcre2_match_result(ovec, v_ovec, subj_start, ret)[g]
           = IF g >= ret THEN -1 ELSE ovec[g] + subj_start
    BY <1>2, <1>3, <2>1 DEF handle_pcre2_match_result, copy_ovector
  <2> QED
    BY <1>2, <2>1, <2>2, PcreAssumption DEF PCRE2_UNSET
<1>4. /\ last'.ret = ret /\ last'.ovec = ovec /\ last'.subj_start = subj_start
      /\ last'.v_ovec = handle_pcre2_match_result(ovec, v_ovec, subj_start, ret)
  BY <1>1
<1> QED
  BY <1>3, <1>4, Zenon DEF GroupsReported, Group

(***************************************************************************)
(* Whatever callouts have stored in the program's array, a match that ends *)
(* with a result leaves there the offset of every group that took part and *)
(* a negative one for every other, but for those before the last that took *)
(* part when the search began behind the start of the subject.             *)
(***************************************************************************)
THEOREM GroupsAreReported == PcreSpec => []GroupsReported
<1>1. PcreInit => GroupsReported
  BY DEF PcreInit, GroupsReported
<1>2. PcreTypeOK /\ GroupsReported /\ [PcreNext]_pcrevars => GroupsReported'
  <2> SUFFICES ASSUME PcreTypeOK, GroupsReported, [PcreNext]_pcrevars PROVE GroupsReported'
    OBVIOUS
  <2>0. ASSUME last' = None PROVE GroupsReported'
    BY <2>0 DEF GroupsReported
  <2>1. ASSUME NEW r \in Rex, Compile(r) \/ Drop(r) \/ Collect(r) PROVE last' = None
    BY <2>1 DEF Compile, Drop, Collect
  <2>3. ASSUME NEW r \in Rex, NEW subj_start \in 0 .. Length, NEW is_dfa \in BOOLEAN,
               NEW callout \in BOOLEAN, Match(r, subj_start, is_dfa, callout)
        PROVE  last' = None
    BY <2>3 DEF Match
  <2>4. ASSUME NEW capture_top \in 1 .. Groups + 1, NEW ovec \in Offsets,
               pcre2_callout_handler(capture_top, ovec)
        PROVE  last' = None
    BY <2>4 DEF pcre2_callout_handler
  <2>5. ASSUME CalloutReturns \/ Raises PROVE last' = None
    BY <2>5 DEF CalloutReturns, Raises
  <2>6. ASSUME Returns PROVE GroupsReported'
    <3>1. frames # << >> /\ Found(Top.is_dfa, Top.v_ovec, Top.subj_start)
      BY <2>6 DEF Returns, InLibrary
    <3>2. Top.subj_start \in 0 .. Length
      BY <3>1, TopIsFrame DEF PcreTypeOK, Frame
    <3> QED
      BY <3>1, <3>2, FoundReports
  <2>7. ASSUME UNCHANGED pcrevars PROVE GroupsReported'
    <3>1. last' = last
      BY <2>7 DEF pcrevars
    <3> QED
      BY <3>1, Zenon DEF GroupsReported, Group
  <2> QED
    BY <2>0, <2>1, <2>3, <2>4, <2>5, <2>6, <2>7 DEF PcreNext
<1> QED
  BY <1>1, <1>2, PcreTypeCorrect, PTL DEF PcreSpec
=============================================================================
