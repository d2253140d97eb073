----------------------------- MODULE NativeXml -----------------------------
(***************************************************************************)
(* The XML parser of std/cpp: NativeXmlImport.cpp, a state machine that    *)
(* reads one character after another and calls itself for the children of  *)
(* an element, and the class NativeXmlState of NativeXml.hx, which makes a *)
(* tree of its callbacks.  A document is a sequence of characters made of  *)
(* tokens; a step is one round of the loop of do_parse_xml.                *)
(***************************************************************************)
EXTENDS Integers, Sequences, SequencesExt

CONSTANTS
    Character,   \* the characters of documents
    Token,       \* a set of tokens, with their characters
    Tokens,      \* a set of sequences of tokens
    Spaces,      \* the characters that are skipped
    Newline,     \* the one of them that ends a line
    NameChars,   \* is_valid_char
    Lower(_),    \* a character without its case, as strcmpi compares
    NUL          \* the character behind the last

\* The characters that the code looks for beyond the present one.
Looked == {"-", "?", "[", "]", ">"} \union
          {"C", "c", "D", "d", "A", "a", "T", "t", "O", "o", "Y", "y", "P", "p", "E", "e"}

ASSUME NativeXmlAssumption ==
    /\ Tokens \subseteq Seq(Token) /\ \A t \in Token : t.chars \in Seq(Character)
    /\ NUL \notin Character \union Looked

VARIABLES
    tokens, doc,     \* the document
    p, line,
    frames,          \* the calls of do_parse_xml
    nodes, cur,      \* the tree: nodes in the order they came, the open one
    result,
    endtags          \* history: end tags that were read

inputs == <<tokens, doc>>
tree == <<nodes, cur>>
xmlvars == <<inputs, p, line, frames, tree, result, endtags>>

CharAt(i) == IF i <= Len(doc) THEN doc[i] ELSE NUL
c == CharAt(p)
Peek(k) == CharAt(p + k)

\* The alternatives of one character are compared in turn up to the first that differs.
Reads(at, word) == \A k \in DOMAIN word : CharAt(at + k - 1) \in word[k]

is_valid_char(ch) == ch \in NameChars

Top == frames[Len(frames)]
start == Top.start
Slice(from, to) == SubSeq(doc, from, to - 1)

NoName == << >>

do_parse_xml(parentname) ==
    [state |-> "BEGIN", next |-> "BEGIN", start |-> 0, nodename |-> NoName, aname |-> NoName,
     attribs |-> << >>, nsubs |-> 0, nbrackets |-> 0, parentname |-> parentname]

BOM == <<"EF", "BB", "BF">>

\* parse_xml; a byte order mark is skipped.
XmlInit ==
    /\ tokens \in Tokens
    /\ doc = FlattenSeq([k \in DOMAIN tokens |-> tokens[k].chars])
    /\ p = IF IsPrefix(BOM, doc) THEN 4 ELSE 1
    /\ line = 0
    /\ frames = <<do_parse_xml(NoName)>>
    /\ nodes = << >> /\ cur = 0
    /\ result = "parsing" /\ endtags = 0
-----------------------------------------------------------------------------
(* NativeXmlState *)

Node(type, value, attribs) == [type |-> type, value |-> value, attribs |-> attribs, parent |-> cur]

Add(type, value) == nodes' = Append(nodes, Node(type, value, << >>)) /\ UNCHANGED cur

xml(name, attribs) ==
    /\ nodes' = Append(nodes, Node("Element", name, attribs))
    /\ cur' = Len(nodes) + 1

pcdata(text) == Add("PCData", text)
cdata(text) == Add("CData", text)
doctype(text) == Add("DocType", SubSeq(text, 2, Len(text)))

\* What begins with a question mark is a processing instruction.
comment(text) ==
    IF Len(text) > 1 /\ Head(text) = "?"
    THEN Add("ProcessingInstruction", SubSeq(text, 2, Len(text) - 1))
    ELSE Add("Comment", text)

done == cur' = nodes[cur].parent /\ UNCHANGED nodes
-----------------------------------------------------------------------------
(* The cases of the loop *)

Case(state) == result = "parsing" /\ c # NUL /\ Top.state = state

Set(frame) == frames' = [frames EXCEPT ![Len(frames)] = frame]

\* break: the next character, behind k that were looked at already.
Break(k) ==
    /\ p' = p + k + 1
    /\ line' = IF Peek(k + 1) = Newline THEN line + 1 ELSE line
    /\ UNCHANGED <<inputs, result, endtags>>

\* continue: the same character once more.
Continue == UNCHANGED <<inputs, p, line, tree, result, endtags>>

ERROR ==
    /\ result' = "error"
    /\ UNCHANGED <<inputs, p, line, frames, tree, endtags>>

Goto(state) == [Top EXCEPT !.state = state]
Mark(state, at) == [Top EXCEPT !.state = state, !.start = at]
Skip(next) == [Top EXCEPT !.state = "IGNORE_SPACES", !.next = next]

\* Faulty: the space is not left behind.
IgnoreSpaces_Stay ==
    /\ Case("IGNORE_SPACES")
    /\ IF c \in Spaces THEN UNCHANGED frames ELSE Set(Goto(Top.next))
    /\ Continue

IgnoreSpaces ==
    /\ Case("IGNORE_SPACES")
    /\ \/ c \in Spaces /\ Break(0) /\ UNCHANGED <<frames, tree>>
       \/ c \notin Spaces /\ Set(Goto(Top.next)) /\ Continue

Begin ==
    /\ Case("BEGIN")
    /\ \/ c = "<" /\ Set(Skip("BEGIN_NODE")) /\ Break(0) /\ UNCHANGED tree
       \/ c # "<" /\ Set(Mark("PCDATA", p)) /\ Continue

Pcdata ==
    /\ Case("PCDATA") /\ Break(0)
    /\ \/ /\ c = "<"
          /\ pcdata(Slice(start, p))
          /\ Set([Skip("BEGIN_NODE") EXCEPT !.nsubs = @ + 1])
       \/ c # "<" /\ UNCHANGED <<frames, tree>>

\* Faulty: the end is looked for from the second bracket on.
Cdata_TwoChars ==
    /\ Case("CDATA")
    /\ \/ /\ Reads(p, <<{"]"}, {">"}>>)
          /\ cdata(Slice(start, p))
          /\ Set([Goto("BEGIN") EXCEPT !.nsubs = @ + 1])
          /\ Break(1)
       \/ ~Reads(p, <<{"]"}, {">"}>>) /\ Break(0) /\ UNCHANGED <<frames, tree>>

Cdata ==
    LET end == Reads(p, <<{"]"}, {"]"}, {">"}>>)
    IN  /\ Case("CDATA")
        /\ \/ /\ end
              /\ cdata(Slice(start, p))
              /\ Set([Goto("BEGIN") EXCEPT !.nsubs = @ + 1])
              /\ Break(2)
           \/ ~end /\ Break(0) /\ UNCHANGED <<frames, tree>>

CDATA_OPEN == << {"C", "c"}, {"D", "d"}, {"A", "a"}, {"T", "t"}, {"A", "a"}, {"["} >>
DOCTYPE_OPEN == << {"D", "d"}, {"O", "o"}, {"C", "c"}, {"T", "t"}, {"Y", "y"}, {"P", "p"}, {"E", "e"} >>

\* Faulty: the keyword is skipped without a look at it.
Section_Unchecked(found, length, state) ==
    Set(Mark(state, p + length + 1)) /\ Break(length) /\ UNCHANGED tree

\* After <!, the section begins behind its keyword.
Section(found, length, state) ==
    IF found THEN Set(Mark(state, p + length + 1)) /\ Break(length) /\ UNCHANGED tree
    ELSE ERROR

Declaration ==
    /\ Case("BEGIN_NODE") /\ c = "!"
    /\ CASE Peek(1) = "[" -> Section(Reads(p + 2, CDATA_OPEN), 7, "CDATA")
         [] Peek(1) \in {"D", "d"} -> Section(Reads(p + 1, DOCTYPE_OPEN), 7, "DOCTYPE")
         [] OTHER -> Section(Reads(p + 1, <<{"-"}, {"-"}>>), 2, "COMMENT")

BeginHeader ==
    /\ Case("BEGIN_NODE") /\ c = "?"
    /\ Set(Mark("HEADER", p)) /\ Break(0) /\ UNCHANGED tree

BeginClose ==
    /\ Case("BEGIN_NODE") /\ c = "/"
    /\ IF Top.parentname = NoName THEN ERROR
       ELSE /\ Set([Skip("CLOSE") EXCEPT !.start = p + 1])
            /\ Break(0) /\ UNCHANGED tree

BeginTag ==
    /\ Case("BEGIN_NODE") /\ c \notin {"!", "?", "/"}
    /\ Set(Mark("TAG_NAME", p)) /\ Continue

TagName ==
    /\ Case("TAG_NAME")
    /\ \/ is_valid_char(c) /\ Break(0) /\ UNCHANGED <<frames, tree>>
       \/ ~is_valid_char(c) /\ p = start /\ ERROR
       \/ /\ ~is_valid_char(c) /\ p # start
          /\ Set([Skip("BODY") EXCEPT !.nodename = Slice(start, p), !.attribs = << >>])
          /\ Continue

\* The element is complete, empty or with children to come.
Body ==
    /\ Case("BODY")
    /\ \/ /\ c \in {"/", ">"}
          /\ xml(Top.nodename, Top.attribs)
          /\ Set([Goto(IF c = "/" THEN "WAIT_END" ELSE "CHILDS") EXCEPT !.nsubs = @ + 1])
          /\ Break(0)
       \/ c \notin {"/", ">"} /\ Set(Mark("ATTRIB_NAME", p)) /\ Continue

Duplicate(name) == \E k \in DOMAIN Top.attribs : Top.attribs[k].name = name

AttribName ==
    /\ Case("ATTRIB_NAME")
    /\ \/ is_valid_char(c) /\ Break(0) /\ UNCHANGED <<frames, tree>>
       \/ ~is_valid_char(c) /\ (start = p \/ Duplicate(Slice(start, p))) /\ ERROR
       \/ /\ ~is_valid_char(c) /\ start # p /\ ~Duplicate(Slice(start, p))
          /\ Set([Skip("EQUALS") EXCEPT !.aname = Slice(start, p)])
          /\ Continue

Equals ==
    /\ Case("EQUALS")
    /\ IF c = "=" THEN Set(Skip("ATTVAL_BEGIN")) /\ Break(0) /\ UNCHANGED tree ELSE ERROR

AttvalBegin ==
    /\ Case("ATTVAL_BEGIN")
    /\ IF c \in {"\"", "'"} THEN Set(Mark("ATTRIB_VAL", p)) /\ Break(0) /\ UNCHANGED tree ELSE ERROR

AttribVal ==
    /\ Case("ATTRIB_VAL") /\ Break(0) /\ UNCHANGED tree
    /\ IF c = doc[start]
       THEN Set([Skip("BODY") EXCEPT
                    !.attribs = Append(@, [name |-> Top.aname, value |-> Slice(start + 1, p)])])
       ELSE UNCHANGED frames

Childs ==
    /\ Case("CHILDS")
    /\ frames' = Append(frames, do_parse_xml(Top.nodename))
    /\ Continue

\* Faulty: an element without an end tag stays open.
WaitEnd_NotDone ==
    /\ Case("WAIT_END")
    /\ IF c = ">" THEN Set(Goto("BEGIN")) /\ Break(0) /\ UNCHANGED tree ELSE ERROR

WaitEnd ==
    /\ Case("WAIT_END")
    /\ IF c = ">" THEN done /\ Set(Goto("BEGIN")) /\ Break(0) ELSE ERROR

Close ==
    LET v == Slice(start, p)
        same == Len(v) = Len(Top.parentname)
                /\ \A k \in DOMAIN v : Lower(v[k]) = Lower(Top.parentname[k])
    IN  /\ Case("CLOSE")
        /\ \/ is_valid_char(c) /\ Break(0) /\ UNCHANGED <<frames, tree>>
           \/ ~is_valid_char(c) /\ (start = p \/ ~same) /\ ERROR
           \/ ~is_valid_char(c) /\ start # p /\ same /\ Set(Skip("WAIT_END_RET")) /\ Continue

\* The call returns to the one that goes through the parent's siblings.
WaitEndRet ==
    /\ Case("WAIT_END_RET")
    /\ IF c # ">" THEN ERROR
       ELSE /\ IF Top.nsubs = 0 THEN pcdata(<< >>) ELSE UNCHANGED tree
            /\ LET caller == frames[Len(frames) - 1]
               IN  frames' = Append(SubSeq(frames, 1, Len(frames) - 2),
                                    [caller EXCEPT !.state = "BEGIN", !.start = p])
            /\ p' = p + 1
            /\ line' = IF Peek(1) = Newline THEN line + 1 ELSE line
            /\ endtags' = endtags + 1
            /\ UNCHANGED <<inputs, result>>

Comment ==
    LET end == Reads(p, <<{"-"}, {"-"}, {">"}>>)
    IN  /\ Case("COMMENT")
        /\ \/ end /\ comment(Slice(start, p)) /\ Set(Goto("BEGIN")) /\ Break(2)
           \/ ~end /\ Break(0) /\ UNCHANGED <<frames, tree>>

Doctype ==
    /\ Case("DOCTYPE") /\ Break(0)
    /\ CASE c = "[" -> Set([Top EXCEPT !.nbrackets = @ + 1]) /\ UNCHANGED tree
         [] c = "]" -> Set([Top EXCEPT !.nbrackets = @ - 1]) /\ UNCHANGED tree
         [] c = ">" /\ Top.nbrackets = 0 -> doctype(Slice(start, p)) /\ Set(Goto("BEGIN"))
         [] OTHER -> UNCHANGED <<frames, tree>>

Header ==
    LET end == Reads(p, <<{"?"}, {">"}>>)
    IN  /\ Case("HEADER")
        /\ \/ end /\ comment(Slice(start, p + 1)) /\ Set(Goto("BEGIN")) /\ Break(1)
           \/ ~end /\ Break(0) /\ UNCHANGED <<frames, tree>>

\* Behind the last character only text may be under way, outside of all elements.
End ==
    LET from == IF Top.state = "BEGIN" THEN p ELSE start
    IN  /\ result = "parsing" /\ c = NUL
        /\ IF Top.parentname = NoName /\ Top.state \in {"BEGIN", "PCDATA"}
           THEN /\ IF p # from \/ Top.nsubs = 0 THEN pcdata(Slice(from, p)) ELSE UNCHANGED tree
                /\ result' = "parsed"
                /\ UNCHANGED <<inputs, p, line, frames, endtags>>
           ELSE ERROR

XmlNext ==
    \/ IgnoreSpaces \/ Begin \/ Pcdata \/ Cdata
    \/ Declaration \/ BeginHeader \/ BeginClose \/ BeginTag
    \/ TagName \/ Body \/ AttribName \/ Equals \/ AttvalBegin \/ AttribVal
    \/ Childs \/ WaitEnd \/ Close \/ WaitEndRet
    \/ Comment \/ Doctype \/ Header \/ End

XmlSpec == XmlInit /\ [][XmlNext]_xmlvars /\ WF_xmlvars(XmlNext)
-----------------------------------------------------------------------------
(* What the tokens of a document look like *)

Blank(w, from, to) == from <= to /\ \A i \in from .. to - 1 : w[i] \in Spaces
Named(w, from, to) == from < to /\ \A i \in from .. to - 1 : is_valid_char(w[i])

\* From at on the characters are those of word.
Spells(w, at, word) == \A x \in DOMAIN word : w[at + x - 1] = word[x]

\* The first end behind from is the end of w.
EndsWith(w, from, end) ==
    LET last == Len(w) - Len(end) + 1
    IN  from <= last /\ \A i \in from .. last : Spells(w, i, end) <=> i = last

\* The attribute a between from and to: its name at x, "=" at z, its value behind q.
Attribute(w, a, from, x, y, z, q, to) ==
    /\ Blank(w, from, x) /\ Named(w, x, y) /\ a.name = SubSeq(w, x, y - 1)
    /\ Blank(w, y, z) /\ w[z] = "="
    /\ Blank(w, z + 1, q) /\ w[q] \in {"\"", "'"}
    /\ q < to - 1 /\ w[to - 1] = w[q] /\ \A i \in q + 1 .. to - 2 : w[i] # w[q]
    /\ a.value = SubSeq(w, q + 1, to - 2)

\* The name begins at m and ends before at[0], the i-th attribute before at[i].
IsTag(t, m, at, end) ==
    LET w == t.chars
        n == Len(t.attribs)
        last == Len(w) - Len(end) + 1
    IN  /\ Named(w, m, at[0]) /\ ~is_valid_char(w[at[0]]) /\ t.name = SubSeq(w, m, at[0] - 1)
        /\ \A i \in 1 .. n : \E x, y, z, q \in at[i - 1] .. at[i] :
               Attribute(w, t.attribs[i], at[i - 1], x, y, z, q, at[i])
        /\ \A i, j \in 1 .. n : t.attribs[i].name = t.attribs[j].name => i = j
        /\ Blank(w, at[n], last) /\ Spells(w, last, end)

IsEndTag(t, m, e) ==
    LET w == t.chars
    IN  /\ w[m] = "/" /\ Named(w, m + 1, e) /\ t.name = SubSeq(w, m + 1, e - 1)
        /\ Blank(w, e, Len(w)) /\ w[Len(w)] = ">"

\* The brackets that are open behind the character at to.
Brackets(w, from, to) ==
    Cardinality({i \in from .. to : w[i] = "["}) - Cardinality({i \in from .. to : w[i] = "]"})

IsOther(t, m) ==
    LET w == t.chars
    IN  CASE t.type = "CData" ->
                 /\ w[m] = "!" /\ w[m + 1] = "["
                 /\ \A x \in 1 .. 6 : w[m + 1 + x] \in CDATA_OPEN[x]
                 /\ EndsWith(w, m + 8, <<"]", "]", ">">>)
                 /\ t.name = SubSeq(w, m + 8, Len(w) - 3)
          [] t.type = "Comment" ->
                 /\ w[m] = "!" /\ w[m + 1] = "-" /\ w[m + 2] = "-"
                 /\ EndsWith(w, m + 3, <<"-", "-", ">">>)
                 /\ t.name = SubSeq(w, m + 3, Len(w) - 3)
                 /\ Len(t.name) > 1 => Head(t.name) # "?"
          [] t.type = "ProcessingInstruction" ->
                 /\ w[m] = "?" /\ EndsWith(w, m + 1, <<"?", ">">>)
                 /\ t.name = SubSeq(w, m + 1, Len(w) - 2)
          [] t.type = "DocType" ->
                 /\ w[m] = "!" /\ \A x \in 1 .. 7 : w[m + x] \in DOCTYPE_OPEN[x]
                 /\ m + 8 <= Len(w) /\ w[Len(w)] = ">"
                 /\ \A i \in m + 8 .. Len(w) :
                        w[i] = ">" => (Brackets(w, m + 8, i) = 0 <=> i = Len(w))
                 /\ t.name = SubSeq(w, m + 9, Len(w) - 1)

TagEnd(t) == IF t.kind = "open" THEN <<">">> ELSE <<"/", ">">>

\* From m on the characters of t are what its kind has behind "<".
Markup(t, m) ==
    LET w == t.chars
    IN  CASE t.kind \in {"open", "empty"} ->
                 \E at \in [0 .. Len(t.attribs) -> m .. Len(w)] : IsTag(t, m, at, TagEnd(t))
          [] t.kind = "close" -> \E e \in m .. Len(w) : IsEndTag(t, m, e)
          [] t.kind = "other" -> IsOther(t, m)

IsToken(t) ==
    LET w == t.chars
    IN  IF t.kind = "text" THEN w # << >> /\ \A i \in DOMAIN w : w[i] # "<"
        ELSE w # << >> /\ w[1] = "<" /\ \E m \in 2 .. Len(w) : Blank(w, 2, m) /\ Markup(t, m)

Junk(t) == t.kind = "junk"

\* A byte order mark is no text.
ASSUME TokenAssumption ==
    /\ \A t \in Token :
           /\ t.kind \in {"text", "open", "empty", "close", "other", "junk"}
           /\ ~Junk(t) => IsToken(t)
           /\ t.kind \in {"open", "empty"} =>
                  t.attribs \in Seq([name : Seq(Character), value : Seq(Character)])
           /\ t.kind = "other" =>
                  t.type \in {"CData", "Comment", "ProcessingInstruction", "DocType"}
    /\ \A ts \in Tokens :
           IsPrefix(BOM, FlattenSeq([k \in DOMAIN ts |-> ts[k].chars]))
               => \E k \in DOMAIN ts : Junk(ts[k])
    /\ (NameChars \union Spaces) \intersect {"<", ">", "/", "=", "!", "?", "\"", "'"} = {}
    /\ NameChars \intersect Spaces = {}
-----------------------------------------------------------------------------
(* What the tokens of a document stand for *)

Whole == \A k \in DOMAIN tokens : ~Junk(tokens[k])

TheOpen(acc) == acc.open[Len(acc.open)]

AddNode(acc, type, value, attribs, counts) ==
    [acc EXCEPT !.nodes = Append(@, [type |-> type, value |-> value, attribs |-> attribs,
                                     parent |-> TheOpen(acc).node]),
                !.open[Len(acc.open)].subs = @ + counts]

\* The characters between two tags are one node.
Flushed(acc) ==
    IF acc.text = << >> THEN acc
    ELSE [AddNode(acc, "PCData", acc.text, << >>, 1) EXCEPT !.text = << >>]

SameName(m, n) == Len(m) = Len(n) /\ \A k \in DOMAIN m : Lower(m[k]) = Lower(n[k])

\* An element in which nothing was found has an empty text.
Filled(acc) == IF TheOpen(acc).subs = 0 THEN AddNode(acc, "PCData", << >>, << >>, 1) ELSE acc

Understand(acc, t) ==
    LET flushed == Flushed(acc)
        child == AddNode(flushed, "Element", t.name, t.attribs, 1)
    IN  CASE ~acc.ok -> acc
          [] acc.ok /\ t.kind = "text" -> [acc EXCEPT !.text = @ \o t.chars]
          [] acc.ok /\ t.kind = "empty" -> child
          [] acc.ok /\ t.kind = "open" ->
                 [child EXCEPT !.open = Append(@, [name |-> t.name, subs |-> 0,
                                                   node |-> Len(child.nodes)])]
          [] acc.ok /\ t.kind = "close" ->
                 IF Len(acc.open) > 1 /\ SameName(TheOpen(acc).name, t.name)
                 THEN [Filled(flushed) EXCEPT !.open = SubSeq(@, 1, Len(@) - 1)]
                 ELSE [flushed EXCEPT !.ok = FALSE]
          [] acc.ok /\ t.kind = "other" ->
                 AddNode(flushed, t.type, t.name, << >>, IF t.type = "CData" THEN 1 ELSE 0)

Root == [ok |-> TRUE, nodes |-> << >>, text |-> << >>,
         open |-> <<[name |-> NoName, subs |-> 0, node |-> 0]>>]

\* What the first k of the tokens ts stand for.
Meaning(ts) ==
    LET acc[k \in 0 .. Len(ts)] == IF k = 0 THEN Root ELSE Understand(acc[k - 1], ts[k])
    IN  acc

Understood ==
    LET acc == Meaning(tokens)[Len(tokens)]
    IN  IF acc.ok /\ Len(acc.open) = 1 THEN Filled(Flushed(acc)) ELSE [acc EXCEPT !.ok = FALSE]
-----------------------------------------------------------------------------
(* Properties *)

\* The types; what is read lies between the first character and the one behind the last.
XmlTypeOK ==
    /\ p \in 1 .. Len(doc) + 1 /\ line \in 0 .. Len(doc)
    /\ Len(frames) >= 1 /\ \A k \in DOMAIN frames : frames[k].start \in 0 .. p
    /\ cur \in 0 .. Len(nodes) /\ \A k \in DOMAIN nodes : nodes[k].parent \in 0 .. k - 1
    /\ result \in {"parsing", "parsed", "error"} /\ endtags \in Nat

Contents(ns) == [k \in DOMAIN ns |-> [type |-> ns[k].type, value |-> ns[k].value, attribs |-> ns[k].attribs]]

(***************************************************************************)
(* The callbacks come in the order of the document and with its names,     *)
(* attributes and texts, and a document is rejected exactly when an end    *)
(* tag does not match or an element is still open.                         *)
(***************************************************************************)
CallbacksFollowDocument ==
    Whole =>
        /\ IsPrefix(Contents(nodes), Contents(Understood.nodes))
        /\ result = "parsed" => Understood.ok /\ Len(nodes) = Len(Understood.nodes)
        /\ result = "error" => ~Understood.ok

(***************************************************************************)
(* Every node hangs where it stands in the document, up to the first end   *)
(* tag: done, which closes an element in the tree, is called for <a/> and  *)
(* not for </a>.                                                           *)
(***************************************************************************)
TreeIsRight ==
    Whole /\ endtags = 0 => \A k \in DOMAIN nodes : nodes[k].parent = Understood.nodes[k].parent

\* Every document is parsed to its end or rejected.
Terminates == <>(result # "parsing")
=============================================================================
