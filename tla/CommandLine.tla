---------------------------- MODULE CommandLine ----------------------------
(***************************************************************************)
(* src/libs/extc/process_stubs.c on Windows: process_run puts the command  *)
(* and its arguments into one line, which the program that is started      *)
(* takes apart again, in a buffer that is a list of growing pieces.        *)
(***************************************************************************)
EXTENDS Integers, Sequences, SequencesExt

CONSTANTS
    Character,   \* the characters that are told apart
    Commands,    \* strings without quotes
    Arguments,   \* the arguments that are passed: sequences of strings
    Comspec,     \* the value of COMSPEC, or cmd.exe
    InitialBlen, \* 16 in the code
    Null

\* The characters that the code names.
Quote == "quote"
Backslash == "backslash"
Space == "space"
Slash == "slash"
LetterC == "C"

ASSUME CommandLineAssumption ==
    /\ {Quote, Backslash, Space, Slash, LetterC} \subseteq Character
    /\ Commands \subseteq Seq(Character) /\ Comspec \in Seq(Character)
    /\ Arguments \subseteq Seq(Seq(Character))
    /\ InitialBlen \in Nat \ {0}

VARIABLES cmd, vargs, step, i, j, bs_count, b, line, text

cmdvars == <<cmd, vargs, step, i, j, bs_count, b, line, text>>
-----------------------------------------------------------------------------
(* The buffer; the newest piece comes first *)

Longer(m, n) == IF m > n THEN m ELSE n

alloc_buffer == [totlen |-> 0, blen |-> InitialBlen, data |-> << >>]

\* Pieces double in size as the text grows; totlen rounds are more than enough.
Blen(totlen, blen) ==
    LET after[k \in 0 .. totlen] ==
            IF k = 0 THEN blen
            ELSE IF totlen < 4 * after[k - 1] THEN after[k - 1] ELSE 2 * after[k - 1]
    IN  after[totlen]

buffer_append_new(buf, s) ==
    LET blen == Blen(buf.totlen, buf.blen)
        piece == [str |-> s, size |-> Longer(Len(s), blen)]
    IN  [buf EXCEPT !.blen = blen, !.data = <<piece>> \o @]

\* Faulty: the characters that fill the newest piece are put into the next one too.
buffer_append_sub_Again(buf, s) ==
    LET grown == [buf EXCEPT !.totlen = @ + Len(s)]
        free == IF buf.data = << >> THEN 0 ELSE Head(buf.data).size - Len(Head(buf.data).str)
    IN  IF s = << >> THEN buf
        ELSE IF buf.data = << >> THEN buffer_append_new(grown, s)
        ELSE IF free >= Len(s) THEN [grown EXCEPT !.data[1].str = @ \o s]
        ELSE buffer_append_new([grown EXCEPT !.data[1].str = @ \o SubSeq(s, 1, free)], s)

\* What the newest piece has room for goes there, the rest into a new one.
buffer_append_sub(buf, s) ==
    LET grown == [buf EXCEPT !.totlen = @ + Len(s)]
        free == IF buf.data = << >> THEN 0 ELSE Head(buf.data).size - Len(Head(buf.data).str)
    IN  IF s = << >> THEN buf
        ELSE IF buf.data = << >> THEN buffer_append_new(grown, s)
        ELSE IF free >= Len(s) THEN [grown EXCEPT !.data[1].str = @ \o s]
        ELSE buffer_append_new([grown EXCEPT !.data[1].str = @ \o SubSeq(s, 1, free)],
                               SubSeq(s, free + 1, Len(s)))

buffer_append_str(buf, s) == buffer_append_sub(buf, s)

buffer_append_char(buf, c) ==
    LET grown == [buf EXCEPT !.totlen = @ + 1]
    IN  IF buf.data # << >> /\ Len(Head(buf.data).str) # Head(buf.data).size
        THEN [grown EXCEPT !.data[1].str = Append(@, c)]
        ELSE buffer_append_new(grown, <<c>>)

Chars(buf, s) == FoldLeft(buffer_append_char, buf, s)

buffer_to_string(buf) == FoldLeft(LAMBDA s, piece : piece.str \o s, << >>, buf.data)
-----------------------------------------------------------------------------
(* The command line *)

CmdInit ==
    /\ cmd \in Commands /\ vargs \in Arguments \union {Null}
    /\ step = "begin" /\ i = 1 /\ j = 1 /\ bs_count = 0
    /\ b = alloc_buffer /\ line = Null /\ text = << >>

\* Without arguments the command is passed to the command processor as it is.
Raw ==
    /\ step = "begin" /\ vargs = Null
    /\ b' = buffer_append_char(
                buffer_append_str(
                    buffer_append_str(
                        buffer_append_char(
                            buffer_append_str(buffer_append_char(b, Quote), Comspec), Quote),
                        <<Slash, LetterC, Space, Quote>>),
                    cmd),
                Quote)
    /\ text' = <<Quote>> \o Comspec \o <<Quote, Slash, LetterC, Space, Quote>> \o cmd \o <<Quote>>
    /\ step' = "end"
    /\ UNCHANGED <<cmd, vargs, i, j, bs_count, line>>

Command ==
    /\ step = "begin" /\ vargs # Null
    /\ b' = buffer_append_char(buffer_append_str(buffer_append_char(b, Quote), cmd), Quote)
    /\ text' = <<Quote>> \o cmd \o <<Quote>>
    /\ step' = "next"
    /\ UNCHANGED <<cmd, vargs, i, j, bs_count, line>>

NextArgument ==
    /\ step = "next" /\ i <= Len(vargs)
    /\ b' = buffer_append_str(b, <<Space, Quote>>)
    /\ text' = text \o <<Space, Quote>>
    /\ step' = "char" /\ j' = 1 /\ bs_count' = 0
    /\ UNCHANGED <<cmd, vargs, i, line>>

Backslashes(n) == [k \in 1 .. n |-> Backslash]

InArgument == step = "char" /\ j <= Len(vargs[i])

\* The backslashes before a quote are doubled, and one escapes the quote.
QuoteChar ==
    /\ InArgument /\ vargs[i][j] = Quote
    /\ b' = buffer_append_str(Chars(b, Backslashes(2 * bs_count)), <<Backslash, Quote>>)
    /\ text' = text \o Backslashes(2 * bs_count) \o <<Backslash, Quote>>
    /\ bs_count' = 0 /\ j' = j + 1
    /\ UNCHANGED <<cmd, vargs, step, i, line>>

\* Whether it is doubled depends on what follows.
BackslashChar ==
    /\ InArgument /\ vargs[i][j] = Backslash
    /\ bs_count' = bs_count + 1 /\ j' = j + 1
    /\ UNCHANGED <<cmd, vargs, step, i, b, line, text>>

OtherChar ==
    /\ InArgument /\ vargs[i][j] \notin {Quote, Backslash}
    /\ b' = buffer_append_char(Chars(b, Backslashes(bs_count)), vargs[i][j])
    /\ text' = text \o Backslashes(bs_count) \o <<vargs[i][j]>>
    /\ bs_count' = 0 /\ j' = j + 1
    /\ UNCHANGED <<cmd, vargs, step, i, line>>

\* Faulty: the backslashes at the end of an argument are not doubled.
EndArgument_Single ==
    /\ step = "char" /\ j > Len(vargs[i])
    /\ b' = buffer_append_char(Chars(b, Backslashes(bs_count)), Quote)
    /\ text' = text \o Backslashes(bs_count) \o <<Quote>>
    /\ step' = "next" /\ i' = i + 1
    /\ UNCHANGED <<cmd, vargs, j, bs_count, line>>

\* The quote that ends the argument must not be escaped.
EndArgument ==
    /\ step = "char" /\ j > Len(vargs[i])
    /\ b' = buffer_append_char(Chars(b, Backslashes(2 * bs_count)), Quote)
    /\ text' = text \o Backslashes(2 * bs_count) \o <<Quote>>
    /\ step' = "next" /\ i' = i + 1
    /\ UNCHANGED <<cmd, vargs, j, bs_count, line>>

\* The buffer is freed, the line goes to CreateProcess.
Finish ==
    /\ step = "end" \/ (step = "next" /\ i > Len(vargs))
    /\ line' = buffer_to_string(b)
    /\ b' = Null /\ step' = "done"
    /\ UNCHANGED <<cmd, vargs, i, j, bs_count, text>>

CmdNext ==
    \/ Raw \/ Command \/ NextArgument
    \/ QuoteChar \/ BackslashChar \/ OtherChar \/ EndArgument
    \/ Finish

CmdSpec == CmdInit /\ [][CmdNext]_cmdvars
-----------------------------------------------------------------------------
(* Properties *)

\* The pieces hold what was appended, in its order, and the length is right.
BufferHoldsText ==
    IF step = "done" THEN line = text
    ELSE /\ b.totlen = Len(text)
         /\ buffer_to_string(b) = text
         /\ \A k \in DOMAIN b.data : Len(b.data[k].str) <= b.data[k].size

\* How programs take their line apart after the name, the C runtime of Windows.
Scan(st, c) ==
    CASE c = Backslash -> [st EXCEPT !.bs = @ + 1, !.inside = TRUE]
      [] c = Quote /\ st.bs % 2 = 0 ->
             [st EXCEPT !.cur = @ \o Backslashes(st.bs \div 2), !.bs = 0,
                        !.quoted = ~@, !.inside = TRUE]
      [] c = Quote /\ st.bs % 2 = 1 ->
             [st EXCEPT !.cur = @ \o Backslashes(st.bs \div 2) \o <<Quote>>, !.bs = 0]
      [] c = Space /\ ~st.quoted ->
             IF st.inside
             THEN [st EXCEPT !.args = Append(@, st.cur \o Backslashes(st.bs)),
                             !.cur = << >>, !.bs = 0, !.inside = FALSE]
             ELSE st
      [] OTHER ->
             [st EXCEPT !.cur = @ \o Backslashes(st.bs) \o <<c>>, !.bs = 0, !.inside = TRUE]

Scanned(s) ==
    FoldLeft(Scan, [args |-> << >>, cur |-> << >>, bs |-> 0, quoted |-> FALSE, inside |-> FALSE],
             Append(s, Space)).args

(***************************************************************************)
(* The program is started with exactly the arguments that were passed,     *)
(* whatever quotes, backslashes and spaces they contain.                   *)
(***************************************************************************)
ArgumentsArrive ==
    step = "done" /\ vargs # Null =>
        /\ SubSeq(line, 1, Len(cmd) + 2) = <<Quote>> \o cmd \o <<Quote>>
        /\ Scanned(SubSeq(line, Len(cmd) + 3, Len(line))) = vargs
=============================================================================
