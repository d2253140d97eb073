---------------------------- MODULE MCNativeXml ----------------------------
(* Instances of NativeXml: documents of up to four tokens, whole and broken ones. *)
EXTENDS NativeXml, TLC

Tag(kind, name, attribs, chars) == [kind |-> kind, name |-> name, attribs |-> attribs, chars |-> chars]
Text(chars) == Tag("text", << >>, << >>, chars)
Other(type, value, chars) ==
    [kind |-> "other", type |-> type, name |-> value, attribs |-> << >>, chars |-> chars]
Broken(chars) == Tag("junk", << >>, << >>, chars)
Attr(value) == <<[name |-> <<"c">>, value |-> value]>>

WholeTokens == {
    Tag("open", <<"a">>, << >>, <<"<", "a", ">">>),
    Tag("open", <<"a">>, Attr(<<">">>),
        <<"<", "a", "\n", "c", " ", "=", "'", ">", "'", ">">>),
    Tag("empty", <<"a", "c">>, Attr(<< >>), <<"<", " ", "a", "c", " ", "c", "=", "\"", "\"", "/", ">">>),
    Tag("close", <<"A">>, << >>, <<"<", "/", "A", ">">>),
    Tag("close", <<"c">>, << >>, <<"<", "/", "c", " ", ">">>),
    Text(<<"a">>), Text(<<"\n", "]", ">">>),
    Other("Comment", <<"-", ">">>, <<"<", "!", "-", "-", "-", ">", "-", "-", ">">>),
    Other("CData", <<"]", "<">>, <<"<", "!", "[", "C", "D", "a", "t", "A", "[", "]", "<", "]", "]", ">">>),
    Other("ProcessingInstruction", <<"a", "?">>, <<"<", "?", "a", "?", "?", ">">>),
    Other("DocType", <<"[", ">", "]">>,
          <<"<", "!", "D", "O", "C", "T", "Y", "P", "E", " ", "[", ">", "]", ">">>) }

JunkTokens == {
    Broken(<<"<">>), Broken(<<"<", "!">>), Broken(<<"<", "!", "-">>), Broken(<<"<", "?">>),
    Broken(<<"<", "!", "[", "C", "D">>), Broken(<<"<", "!", "D", "O">>), Broken(<<"]", "]">>),
    Broken(<<"-", "-", ">">>), Broken(<<"<", "a", " ", "c", "=", "'">>),
    Broken(<<"'", "c", "=", "'">>), Broken(<<"/", " ", ">">>),
    Broken(<<"<", "/", " ", "a", ">">>), Broken(BOM) }

EmptyDoctype == Other("DocType", << >>, <<"<", "!", "D", "O", "C", "T", "Y", "P", "E", ">">>)

SmallToken == WholeTokens \union JunkTokens \union {EmptyDoctype}
SmallTokens == BoundedSeq(WholeTokens, 4) \union BoundedSeq(SmallToken, 2)

XmlSpaces == {"\n", "\r", "\t", " "}
LineEnd == "\n"
SmallCharacter == UNION {ToSet(t.chars) : t \in SmallToken}
XmlNameChars == {"a", "A", "c", "C", "D", "t", "T", "O", "Y", "P", "E", "-"}
WithoutCase(ch) == IF ch = "A" THEN "a" ELSE ch
=============================================================================
