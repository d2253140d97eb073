------------------------------- MODULE Pcre2 -------------------------------
(***************************************************************************)
(* src/libs/pcre2/pcre2_stubs.c: compiled patterns and pcre2_match_stub0.  *)
(* A match with a callout function calls back into OCaml while the library *)
(* is matching: the program may compile, drop and match patterns there,    *)
(* the same one too, and the collector may run.  No OCaml code runs during *)
(* a match without callout.  Offsets come in pairs that are treated alike, *)
(* so a group stands for its pair with one number.                         *)
(***************************************************************************)
EXTENDS Integers, Sequences

CONSTANTS
    Rex,         \* the patterns
    Groups,      \* the groups of a pattern, beside the whole match
    Length,      \* of the subject
    MaxDepth,    \* of matches inside of callouts
    None

ASSUME PcreAssumption ==
    Groups \in Nat /\ Length \in Nat /\ MaxDepth \in Nat \ {0} /\ None \notin Nat

VARIABLES
    rex,         \* struct pcre2_ocaml_regexp: whether its pcre2_code is allocated
    reachable,   \* the patterns the program still refers to
    frames,      \* the calls of pcre2_match_stub0 that wait for the library
    heap,        \* how often each of them holds each kind of block
    last         \* history: the match that ended in the last step, if one did

pcrevars == <<rex, reachable, frames, heap, last>>

\* Group 0 is the whole match.
Group == 0 .. Groups

\* ~0, as an integer of any width.
PCRE2_UNSET == -1

Offsets == [Group -> PCRE2_UNSET .. Length]

Depth == Len(frames)
Top == frames[Depth]

\* Blocks of the C heap: of the d-th call on the stack, by what they are for.
Kinds == {"match_data", "subj", "new_mcontext", "workspace"}
Blocks == (1 .. MaxDepth + 1) \X Kinds

\* OCaml code runs: the program, or a callout of the match on top.
InOCaml == IF frames = << >> THEN TRUE ELSE Top.phase = "callout"
InLibrary == IF frames = << >> THEN FALSE ELSE Top.phase = "library"
-----------------------------------------------------------------------------
PcreInit ==
    /\ rex = [r \in Rex |-> "none"]
    /\ reachable = {} /\ frames = << >> /\ heap = [b \in Blocks |-> 0] /\ last = None

\* pcre2_compile_stub; a bad pattern raises and leaves nothing behind.
Compile(r) ==
    /\ InOCaml /\ rex[r] = "none"
    /\ rex' = [rex EXCEPT ![r] = "live"]
    /\ reachable' = reachable \union {r}
    /\ last' = None /\ UNCHANGED <<frames, heap>>

\* The program forgets a pattern.
Drop(r) ==
    /\ InOCaml /\ r \in reachable
    /\ reachable' = reachable \ {r}
    /\ last' = None /\ UNCHANGED <<rex, frames, heap>>

\* Faulty: the stub does not register its pattern.
Roots_None == reachable

\* Begin_roots4: a match that calls back keeps its pattern.
Roots == reachable \union {frames[d].rex : d \in {e \in 1 .. Depth : frames[e].callout}}

\* pcre2_dealloc_regexp; the block may be given to a later pattern.
Collect(r) ==
    /\ InOCaml /\ rex[r] = "live" /\ r \notin Roots
    /\ rex' = [rex EXCEPT ![r] = "none"]
    /\ last' = None /\ UNCHANGED <<reachable, frames, heap>>
-----------------------------------------------------------------------------
(* Offsets *)

make_ovector == [g \in Group |-> 0]

\* The first n groups; what is behind them stays as it is.
copy_ovector(subj_start, src, dst, n) ==
    [g \in Group |-> IF g < n THEN src[g] + subj_start ELSE dst[g]]

\* Faulty: the groups behind the last that matched are not cleared.
handle_pcre2_match_result_Stale(ovec, v_ovec, subj_start, ret) ==
    copy_ovector(subj_start, ovec, v_ovec, ret)

\* Nothing is cleared when ret is 0: the pointer that goes up to the end of the
\* array starts 2^32 - 1 cells behind its beginning.
handle_pcre2_match_result(ovec, v_ovec, subj_start, ret) ==
    [g \in Group |-> IF ret > 0 /\ g >= ret THEN -1
                     ELSE copy_ovector(subj_start, ovec, v_ovec, ret)[g]]

\* Groups of the searched part of the subject, the first n of them at most.
Searched(n, ovec, subj_start) ==
    \A g \in Group : ovec[g] <= Length - subj_start /\ (g >= n => ovec[g] = PCRE2_UNSET)

\* What the library reports: the groups up to the last that is set. A DFA match
\* counts its matches, and gives 0 when there is no room for all.
Matched(ret, ovec, subj_start) ==
    /\ Searched(ret, ovec, subj_start)
    /\ ret > 0 => ovec[0] # PCRE2_UNSET /\ ovec[ret - 1] # PCRE2_UNSET

\* In a callout the whole match has no end yet, and no start.
MatchedSoFar(capture_top, ovec, subj_start) ==
    Searched(capture_top, ovec, subj_start) /\ ovec[0] = PCRE2_UNSET

Results(is_dfa) == {ret \in 0 .. Groups + 1 : ret = 0 => is_dfa}

\* The match has ended and its array v_ovec is what the program reads.
Found(is_dfa, v_ovec, subj_start) ==
    \E ret \in Results(is_dfa), ovec \in Offsets :
        /\ Matched(ret, ovec, subj_start)
        /\ last' = [ret |-> ret, ovec |-> ovec, subj_start |-> subj_start,
                    v_ovec |-> handle_pcre2_match_result(ovec, v_ovec, subj_start, ret)]
-----------------------------------------------------------------------------
(* pcre2_match_stub0 *)

\* Positions outside of the subject raise before anything is allocated.
\* What is inside of it makes no difference.
Legal(subj_start) == {pos \in 0 .. Length : subj_start \in 0 .. pos} # {}

\* What a call allocates: more when there is a callout, which is set in a copy of
\* the pattern's context.
Resources(f) ==
    {"match_data"} \union
    (IF f.callout THEN {"subj", "new_mcontext"} \union (IF f.is_dfa THEN {"workspace"} ELSE {})
     ELSE {})

Allocated(f) ==
    heap' = [b \in Blocks |-> IF b[1] = Depth + 1 /\ b[2] \in Resources(f)
                              THEN heap[b] + 1 ELSE heap[b]]

Freed(kinds) ==
    heap' = [b \in Blocks |-> IF b[1] = Depth /\ b[2] \in kinds THEN heap[b] - 1 ELSE heap[b]]

\* pcre2_match_stub0 up to the call of the library.
Match(r, subj_start, is_dfa, callout) ==
    /\ InOCaml /\ r \in reachable /\ Legal(subj_start)
    /\ callout => Depth < MaxDepth
    /\ LET frame == [rex |-> r, subj_start |-> subj_start, is_dfa |-> is_dfa,
                     callout |-> callout, v_ovec |-> make_ovector, phase |-> "library"] IN
       frames' = Append(frames, frame) /\ Allocated(frame)
    /\ last' = None
    /\ UNCHANGED <<rex, reachable>>

\* The groups so far go into the array the match will return; OCaml code runs.
pcre2_callout_handler(capture_top, ovec) ==
    /\ InLibrary /\ Top.callout /\ MatchedSoFar(capture_top, ovec, Top.subj_start)
    /\ frames' = [frames EXCEPT ![Depth] =
           [Top EXCEPT !.phase = "callout",
                       !.v_ovec = copy_ovector(Top.subj_start, ovec, @, capture_top)]]
    /\ last' = None /\ UNCHANGED <<rex, reachable, heap>>

\* It returns, or raises Backtrack: the library goes on.
CalloutReturns ==
    /\ frames # << >> /\ InOCaml
    /\ frames' = [frames EXCEPT ![Depth] = [Top EXCEPT !.phase = "library"]]
    /\ last' = None /\ UNCHANGED <<rex, reachable, heap>>

Pop == frames' = SubSeq(frames, 1, Depth - 1) /\ UNCHANGED <<rex, reachable>>

\* Faulty: the function that raises returns, and the match data is freed again.
Raises_RunsOn ==
    /\ frames # << >>
    /\ heap' = [b \in Blocks |-> IF b = <<Depth, "match_data">> THEN heap[b] - 2
                                 ELSE IF b[1] = Depth /\ b[2] \in Resources(Top) THEN heap[b] - 1
                                 ELSE heap[b]]
    /\ last' = None
    /\ Pop

\* No match, an error of the library, or another exception of the callout, on
\* which the library gives up at once.
Raises ==
    /\ frames # << >>
    /\ Freed(Resources(Top))
    /\ last' = None
    /\ Pop

Returns ==
    /\ InLibrary
    /\ Freed(Resources(Top))
    /\ Found(Top.is_dfa, Top.v_ovec, Top.subj_start)
    /\ Pop

PcreNext ==
    \/ \E r \in Rex :
           \/ Compile(r) \/ Drop(r) \/ Collect(r)
           \/ \E subj_start \in 0 .. Length, is_dfa, callout \in BOOLEAN :
                  Match(r, subj_start, is_dfa, callout)
    \/ InLibrary /\ \E capture_top \in 1 .. Groups + 1, ovec \in Offsets :
                        pcre2_callout_handler(capture_top, ovec)
    \/ CalloutReturns \/ Raises \/ Returns

PcreSpec == PcreInit /\ [][PcreNext]_pcrevars
-----------------------------------------------------------------------------
(* Properties *)

\* A call of pcre2_match_stub0. A group of its array: unset, zero, or an offset.
Frame == [rex : Rex, subj_start : 0 .. Length, is_dfa : BOOLEAN, callout : BOOLEAN,
          v_ovec : Offsets, phase : {"library", "callout"}]

\* Every variable has its type. An offset of the array a callout sees (and the
\* match returns) lies in the whole subject, whatever part of it is searched.
PcreTypeOK ==
    /\ rex \in [Rex -> {"none", "live"}]
    /\ reachable \subseteq Rex
    /\ frames \in Seq(Frame)
    /\ (last # None => last.v_ovec \in Offsets)

\* The calls of pcre2_match_stub0 that have not ended hold each block they need
\* once, and no other block is held. So every way out of it, by a result or by an
\* exception, with a callout or without, frees all of its call's, and none twice.
NothingLeaks ==
    heap = [b \in Blocks |-> IF b[1] \in 1 .. Depth /\ b[2] \in Resources(frames[b[1]])
                             THEN 1 ELSE 0]

\* Neither the program nor the library holds a pattern that has been freed,
\* although the program may drop it, and the collector run, inside of a callout.
RunningCodeIsAlive ==
    \A r \in reachable \union {frames[d].rex : d \in 1 .. Depth} : rex[r] = "live"

\* The array of a match that ended tells the groups that took part, by their offset
\* in the whole subject, from those that did not, which are negative: the array
\* does not keep what an earlier callout put there. Nothing is said of a group
\* that did not take part before one that did when the search began behind the
\* start of the subject (its offset is then one that may be in the subject), and
\* of a DFA match that found no room (ret = 0), which leaves the array alone.
GroupsReported ==
    last # None /\ last.ret > 0 =>
        \A g \in Group :
            IF last.ovec[g] # PCRE2_UNSET THEN last.v_ovec[g] = last.ovec[g] + last.subj_start
            ELSE g >= last.ret \/ last.subj_start = 0 => last.v_ovec[g] < 0
=============================================================================
