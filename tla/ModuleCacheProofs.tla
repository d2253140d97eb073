------------------------- MODULE ModuleCacheProofs --------------------------
(* Theorems about ModuleCache and their proofs. *)
EXTENDS ModuleCache, TLAPS

(***************************************************************************)
(* Every variable keeps its type: what is cached was parsed, and a request *)
(* holds a typed module exactly between typing and its end.                *)
(***************************************************************************)
THEOREM TypeCorrect == Spec => []TypeOK
<1>1. Init => TypeOK
  <2>1. Init => late \in BOOLEAN /\ mistimed \in BOOLEAN /\ overtaken \in BOOLEAN
    BY Zenon DEF Init
  <2> QED
    BY <2>1, ConstantsAssumption, NoneAssumption DEF Init, TypeOK, Times
<1>2. TypeOK /\ [Next]_vars => TypeOK'
  <2> SUFFICES ASSUME TypeOK, [Next]_vars PROVE TypeOK'
    OBVIOUS
  <2> USE ConstantsAssumption, NoneAssumption DEF TypeOK, Times, Parsed, Typed
  <2>1. CASE Write
    BY <2>1 DEF Write, locals
  <2>2. CASE Invalidate
    BY <2>2 DEF Invalidate, disk, marks, locals, history
  <2>3. CASE Compile \/ Explore
    BY <2>3 DEF Compile, Explore, ParseFile, disk, marks, locals, history
  <2>4. CASE LookupFails \/ LookupDies
    BY <2>4 DEF LookupFails, LookupDies, Answer, ParseFile, disk, marks, locals, history
  <2>5. CASE FileUnmodified \/ FileModified
    BY <2>5 DEF FileUnmodified, FileModified, CheckFile, Answer, ParseFile, disk, marks, locals, history
  <2>6. CASE CompareContent
    BY <2>6 DEF CompareContent, CheckFile, ParseFile, disk, marks, history
  <2>7. CASE ContentUnchanged \/ ContentChanged
    BY <2>7 DEF ContentUnchanged, ContentChanged, Answer, ParseFile, disk, marks, locals, history
  <2>8. CASE Stat \/ ParseHit
    BY <2>8 DEF Stat, ParseHit, disk, marks, history
  <2>9. CASE ParseFails \/ ExploreDone
    BY <2>9 DEF ParseFails, ExploreDone, CacheMiss, Answer, disk, marks, locals, history
  <2>10. CASE MakeModule \/ EndUncached
    BY <2>10 DEF MakeModule, EndUncached, Answer, disk, marks, locals, history
  <2>11. CASE UNCHANGED vars
    BY <2>11 DEF vars, disk, marks, locals, history
  <2>12. CASE ParseRead
    <3>1. overtaken' \in BOOLEAN
      BY <2>12, Zenon DEF ParseRead
    <3> QED
      BY <2>12, <3>1 DEF ParseRead, CacheMiss, disk, history
  <2>13. CASE EndCached
    <3>1. mistimed' \in BOOLEAN
      BY <2>13, Zenon DEF EndCached
    <3> QED
      BY <2>13, <3>1 DEF EndCached, Answer, disk, locals
  <2> QED
    BY <2>1, <2>2, <2>3, <2>4, <2>5, <2>6, <2>7, <2>8, <2>9, <2>10, <2>11, <2>12, <2>13 DEF Next
<1> QED
  BY <1>1, <1>2, PTL DEF Spec
-----------------------------------------------------------------------------
(* The parser cache *)

\* An entry made of the file at some time says nothing else of it now.
Fits(e) == e.time <= mtime /\ (e.time = mtime => e.content = content)

ParserInv == (cfile # None => Fits(cfile)) /\ ftime <= mtime

LEMMA ParserInvInit == Init => ParserInv
BY ConstantsAssumption DEF Init, ParserInv, Fits, Times

LEMMA ParserInvStep ==
  ASSUME ~SameSecond, TypeOK, TypeOK', ParserInv, [Next]_vars
  PROVE  ParserInv'
<1> USE ConstantsAssumption, NoneAssumption DEF TypeOK, Times, Parsed, ParserInv, Fits
<1>1. CASE Write
  BY <1>1 DEF Write, locals
<1>2. CASE ParseRead
  BY <1>2 DEF ParseRead, CacheMiss, disk
<1>3. CASE Stat \/ ParseHit \/ ParseFails
  BY <1>3 DEF Stat, ParseHit, ParseFails, CacheMiss, disk, marks, locals
<1>4. CASE Invalidate
  BY <1>4 DEF Invalidate, disk, marks, locals
<1>5. CASE UNCHANGED <<disk, cfile, ftime>>
  BY <1>5 DEF disk, marks
<1>6. CASE Compile \/ Explore \/ LookupFails \/ LookupDies \/ FileUnmodified \/ FileModified
  BY <1>5, <1>6 DEF Compile, Explore, LookupFails, LookupDies, FileUnmodified, FileModified, locals
<1>7. CASE CompareContent \/ ContentUnchanged \/ ContentChanged \/ ExploreDone
  BY <1>5, <1>7 DEF CompareContent, ContentUnchanged, ContentChanged, ExploreDone, locals
<1>8. CASE MakeModule \/ EndCached \/ EndUncached \/ UNCHANGED vars
  BY <1>5, <1>8 DEF MakeModule, EndCached, EndUncached, vars, locals
<1> QED
  BY <1>1, <1>2, <1>3, <1>4, <1>6, <1>7, <1>8 DEF Next

(***************************************************************************)
(* Unless two texts share a modification time, the parser cache never      *)
(* offers an old text under the present time of the file, although the     *)
(* file may be written between the steps of parse_file.                    *)
(***************************************************************************)
THEOREM ParserCacheIsFresh == ~SameSecond => (Spec => []ParseCacheFresh)
<1> SUFFICES ASSUME ~SameSecond PROVE Spec => []ParseCacheFresh
  OBVIOUS
<1>1. Init => ParserInv
  BY ParserInvInit
<1>2. TypeOK /\ TypeOK' /\ ParserInv /\ [Next]_vars => ParserInv'
  BY ParserInvStep
<1>3. ParserInv => ParseCacheFresh
  BY DEF ParserInv, Fits, ParseCacheFresh
<1> QED
  BY <1>1, <1>2, <1>3, TypeCorrect, PTL DEF Spec
-----------------------------------------------------------------------------
(* What a compilation uses *)

Compiling == pc = "lookup" \/ (pc # "idle" /\ caller # "explore")

Parsing == pc \in {"stat", "parse", "parsed"}

\* The parsed file is the one a reusable module came from: what the content
\* policy relies on when it compares.
SameSource(e) == ContentPolicy /\ cfile # None => cfile.content = e.content

SeenInv == IF Compiling THEN content \in seen ELSE seen = {}

CachedInv ==
    cached # None =>
        /\ cached.time <= mtime
        /\ cached.state # "bad" /\ ~mistimed => Fits(cached)
        /\ cached.state = "good" /\ ~overtaken => SameSource(cached)

ParseInv ==
    /\ pc = "parse" /\ ~late => ftime = mtime
    /\ pc = "parse" /\ Compiling /\ cfile # None /\ cfile.time = ftime => cfile.content \in seen
    /\ pc = "parsed" /\ Compiling => data \in seen
    /\ pc = "parsed" /\ ~late => data = content
    /\ pc = "parsed" => cfile # None /\ cfile.content = data
    /\ Parsing /\ cached # None /\ ContentPolicy /\ caller # "explore" => cached.state # "good"
    /\ Parsing /\ caller = "compare" =>
          ContentPolicy /\ cached.state = "unknown" /\ (~overtaken => old = cached.content)

TypedInv ==
    pc = "typed" =>
        /\ caller = "load"
        /\ module.content \in seen /\ module.time <= mtime /\ module.state = "good"
        /\ ~late => Fits(module)
        /\ SameSource(module)

ServeInv == SeenInv /\ CachedInv /\ ParseInv /\ TypedInv

LEMMA ServeInvInit == Init => ServeInv
BY NoneAssumption
   DEF Init, ServeInv, SeenInv, CachedInv, ParseInv, TypedInv, Compiling, Parsing

LEMMA ServeInvStep ==
  ASSUME ~SameSecond, TypeOK, TypeOK', ParserInv, ServeInv, [Next]_vars
  PROVE  ServeInv'
<1> USE ConstantsAssumption, NoneAssumption
    DEF TypeOK, Times, Parsed, Typed, ParserInv, Fits, SameSource, ServeInv, SeenInv,
        CachedInv, ParseInv, TypedInv, Compiling, Parsing
<1>1. CASE Write
  BY <1>1 DEF Write, locals
<1>2. CASE Invalidate
  BY <1>2 DEF Invalidate, disk, marks, locals, history
<1>3. CASE Compile
  BY <1>3 DEF Compile, disk, marks, locals
<1>4. CASE Explore
  BY <1>4 DEF Explore, ParseFile, disk, marks, history
<1>5. CASE LookupFails
  BY <1>5 DEF LookupFails, ParseFile, disk, marks, history
<1>6. CASE LookupDies
  BY <1>6 DEF LookupDies, Answer, disk, marks, locals
<1>7. CASE FileUnmodified
  BY <1>7 DEF FileUnmodified, CheckFile, Answer, disk, marks, locals
<1>8. CASE FileModified
  BY <1>8 DEF FileModified, CheckFile, ParseFile, disk, marks, history
<1>9. CASE CompareContent
  BY <1>9 DEF CompareContent, CheckFile, ParseFile, disk, marks, history
<1>10. CASE ContentUnchanged
  BY <1>10 DEF ContentUnchanged, Answer, disk, marks, locals
<1>11. CASE ContentChanged
  BY <1>11 DEF ContentChanged, ParseFile, disk, marks, history
<1>12. CASE Stat
  BY <1>12 DEF Stat, disk, marks, history
<1>13. CASE ParseHit
  BY <1>13 DEF ParseHit, disk, marks, history
<1>14. CASE ParseRead
  BY <1>14 DEF ParseRead, CacheMiss, disk, marks, history
<1>15. CASE ParseFails
  BY <1>15 DEF ParseFails, Answer, CacheMiss, disk, marks, locals, history
<1>16. CASE ExploreDone
  BY <1>16 DEF ExploreDone, disk, marks, locals, history
<1>17. CASE MakeModule
  BY <1>17 DEF MakeModule, disk, marks, locals, history
<1>18. CASE EndCached
  BY <1>18 DEF EndCached, Answer, disk, marks, locals
<1>19. CASE EndUncached
  BY <1>19 DEF EndUncached, Answer, disk, marks, locals
<1>20. CASE UNCHANGED vars
  BY <1>20 DEF vars, disk, marks, locals, history
<1> QED
  BY <1>1, <1>2, <1>3, <1>4, <1>5, <1>6, <1>7, <1>8, <1>9, <1>10, <1>11, <1>12, <1>13,
     <1>14, <1>15, <1>16, <1>17, <1>18, <1>19, <1>20 DEF Next

\* Every step of the server but two is one the abstract specification allows.
StepServes ==
    \/ mistimed /\ FileUnmodified
    \/ overtaken /\ ContentUnchanged
    \/ Fresh!Next

LEMMA StepSimulation ==
  ASSUME TypeOK, TypeOK', ServeInv, [Next]_vars
  PROVE  [StepServes]_(Fresh!vars)
<1> USE DEF ServeInv, SeenInv, Compiling, StepServes, Fresh!vars, Fresh!Next
<1>1. CASE Write
  BY <1>1 DEF Write, Fresh!Write, TypeOK
<1>2. CASE Compile
  BY <1>2 DEF Compile, Fresh!Request, disk
<1>3. CASE LookupDies
  BY <1>3 DEF LookupDies, Answer, Fresh!Answer, disk
<1>4. CASE FileUnmodified
  BY <1>4 DEF FileUnmodified, CheckFile, CachedInv, Fits, Answer, Fresh!Answer, disk
<1>5. CASE ContentUnchanged
  BY <1>5 DEF ContentUnchanged, ParseInv, Parsing, Answer, Fresh!Answer, disk
<1>6. CASE ParseFails
  BY <1>6 DEF ParseFails, CacheMiss, Answer, Fresh!Answer, disk, marks, history
<1>7. CASE EndCached \/ EndUncached
  BY <1>7 DEF EndCached, EndUncached, TypedInv, Answer, Fresh!Answer, disk
<1>8. CASE Invalidate \/ Explore \/ LookupFails \/ FileModified
  BY <1>8 DEF Invalidate, Explore, LookupFails, FileModified, disk, marks, history
<1>9. CASE CompareContent \/ ContentChanged \/ Stat \/ ParseHit \/ ParseRead
  BY <1>9 DEF CompareContent, ContentChanged, Stat, ParseHit, ParseRead, disk, marks, history
<1>10. CASE ExploreDone \/ MakeModule \/ UNCHANGED vars
  BY <1>10 DEF ExploreDone, MakeModule, vars, disk, marks, history
<1> QED
  BY <1>1, <1>2, <1>3, <1>4, <1>5, <1>6, <1>7, <1>8, <1>9, <1>10 DEF Next

(***************************************************************************)
(* The server serves what FreshCompile promises, for every history of      *)
(* writes between and during requests, of compilations, errors,            *)
(* invalidations and explorations, if every write changes the modification *)
(* time: only the reuse of a mistimed or of an overtaken module may serve  *)
(* a text the file did not hold, and what replaces the module is served    *)
(* correctly again.                                                        *)
(***************************************************************************)
THEOREM FreshTextIsServed == ~SameSecond => (Spec => ServesFreshText)
<1> SUFFICES ASSUME ~SameSecond PROVE Spec => ServesFreshText
  OBVIOUS
<1>1. Init => ParserInv /\ ServeInv /\ Fresh!Init
  BY ParserInvInit, ServeInvInit DEF Init, Fresh!Init
<1>2. TypeOK /\ TypeOK' /\ (ParserInv /\ ServeInv) /\ [Next]_vars => (ParserInv /\ ServeInv)'
  BY ParserInvStep, ServeInvStep
<1>3. TypeOK /\ TypeOK' /\ ServeInv /\ [Next]_vars => [StepServes]_(Fresh!vars)
  BY StepSimulation
<1> QED
  BY <1>1, <1>2, <1>3, TypeCorrect, PTL DEF Spec, ServesFreshText, StepServes
=============================================================================
