---------------------------- MODULE FreshCompile ----------------------------
(***************************************************************************)
(* What a user of the compilation server may rely on: a request that       *)
(* compiles a module either fails or uses a text its source file held at   *)
(* some moment of the request.  How the server comes by it, and what it    *)
(* remembers from one request to the next, does not show.                  *)
(***************************************************************************)
CONSTANTS
    Contents,   \* the texts the source file may hold
    None        \* no text

VARIABLES
    content,    \* the text of the source file
    seen,       \* the texts it has held since the running request began
    result      \* the text the last request compiled, or None if it failed

vars == <<content, seen, result>>

Init ==
    /\ content \in Contents
    /\ seen = {}
    /\ result = None

\* The file is written at any time.
Write ==
    /\ content' \in Contents
    /\ seen' = IF seen = {} THEN {} ELSE seen \union {content'}
    /\ UNCHANGED result

Request ==
    /\ seen = {}
    /\ seen' = {content}
    /\ result' = None
    /\ UNCHANGED content

Answer ==
    /\ seen # {}
    /\ result' \in seen \union {None}
    /\ seen' = {}
    /\ UNCHANGED content

Next == Write \/ Request \/ Answer

Spec == Init /\ [][Next]_vars
=============================================================================
