----------------------------- MODULE MCProcess -----------------------------
(* An instance of ProcessRun: two processes, and every short list of arguments. *)
EXTENDS ProcessRun

SmallFd == 3 .. 11

SmallCharacter == {Quote, Backslash, Space, Slash, LetterC}
Strings(n) == BoundedSeq(SmallCharacter \ {Slash}, n)
SmallCommands == {<<LetterC, Space, LetterC>>}
SmallArguments ==
    {<< >>} \union {<<s>> : s \in Strings(4)} \union {<<s, t>> : s, t \in Strings(2)}
SmallComspec == <<LetterC, LetterC, LetterC, LetterC>>
=============================================================================
