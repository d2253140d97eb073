------------------------ MODULE DirectoryCacheProofs ------------------------
(* Theorems about DirectoryCache and their proofs. *)
EXTENDS DirectoryCache, TLAPS

LEMMA SomeDirectory == NoModule.dir \in Dirs /\ NoModule = [dir |-> NoModule.dir, time |-> 0]
<1> DEFINE d == CHOOSE d \in Dirs : TRUE
<1>1. d \in Dirs
  BY ConstantsAssumption
<1> HIDE DEF d
<1> QED
  BY <1>1 DEF NoModule, d

LEMMA Bounds == MaxTime \in Nat \ {0} /\ MaxDelays \in Nat \ {0}
BY ConstantsAssumption

\* What the steps of the file system share.
LEMMA ChangeType ==
  ASSUME TypeOK, Change
  PROVE  clock' \in Times \ {0} /\ clock' = clock + 1
BY Bounds DEF TypeOK, DiskOK, Change, Times

LEMMA FilesType == ASSUME TypeOK, Files PROVE TypeOK'
<1>1. DiskOK'
  <2>1. PICK d \in Dirs : Create(d) \/ Delete(d) \/ Rewrite(d) \/ RemoveDir(d) \/ MakeDir(d)
    BY DEF Files
  <2>2. Change
    BY <2>1 DEF Create, Delete, Rewrite, RemoveDir, MakeDir
  <2> USE <2>2, ChangeType DEF TypeOK, DiskOK, Times
  <2>3. CASE Create(d)
    BY <2>3, Bounds DEF Create
  <2>4. CASE Delete(d)
    BY <2>4, Bounds DEF Delete
  <2>5. CASE Rewrite(d)
    BY <2>5, Bounds DEF Rewrite
  <2>6. CASE RemoveDir(d)
    BY <2>6, Bounds DEF RemoveDir
  <2>7. CASE MakeDir(d)
    BY <2>7, Bounds DEF MakeDir
  <2> QED
    BY <2>1, <2>3, <2>4, <2>5, <2>6, <2>7
<1>2. UNCHANGED <<dirs, memo, com, cached, pc, overlooked, began>>
  BY DEF Files, Create, Delete, Rewrite, RemoveDir, MakeDir, Change
<1> QED
  BY <1>1, <1>2 DEF TypeOK, DirsOK, DelaysOK, RequestOK, dirs, memo, com

LEMMA DirsType == ASSUME TypeOK, [Next]_vars, ~Files PROVE DirsOK'
<1> USE Bounds DEF TypeOK, DirsOK, Times, NoDirs
<1>1. CASE \E path \in Paths : Begin(path) \/ NextCompilation(path)
  <2>1. asked' \in BOOLEAN /\ changed' \subseteq Dirs
    BY <1>1 DEF Begin, NextCompilation, memo
  <2>2. PICK path \in Paths : Compile(path)
    BY <1>1 DEF Begin, NextCompilation
  <2>3. CASE classPath \in {<<>>, path}
    BY <2>1, <2>2, <2>3 DEF Compile
  <2>4. CASE classPath \notin {<<>>, path}
    <3>1. listed' = FALSE /\ known' = [d \in Dirs |-> 0] /\ overlooked' = {}
      BY <2>2, <2>4 DEF Compile
    <3>2. known' \in [Dirs -> Times] /\ \A d \in Dirs : known'[d] = 0
      BY <3>1
    <3> QED
      BY <2>1, <3>1, <3>2
  <2> QED
    BY <2>3, <2>4
<1>2. CASE AskNewContext
  BY <1>2 DEF AskNewContext
<1>3. CASE AskDirectories
  BY <1>3 DEF AskDirectories, DiskOK
<1>4. CASE \E d \in Dirs : ReadDirectory(d)
  BY <1>4 DEF ReadDirectory, dirs, memo
<1>5. CASE \E d \in Dirs : Type(d)
  BY <1>5 DEF Type, RequestOK, dirs, memo
<1>6. CASE Reuse
  BY <1>6 DEF Reuse, dirs, memo
<1>7. CASE RunDelays
  <2>1. UNCHANGED memo
    BY <1>7 DEF RunDelays, Leave
  <2>2. CASE delays = <<>>
    BY <1>7, <2>1, <2>2 DEF RunDelays, memo
  <2>3. CASE delays # <<>>
    <3> DEFINE path == ToSet(Last(delays))
    <3> HIDE DEF path
    <3>1. /\ listed' = TRUE
          /\ known' = [d \in Dirs |-> IF d \in path THEN dirTime[d] ELSE 0]
          /\ overlooked' \subseteq {d \in Dirs : known'[d] # 0}
      BY <1>7, <2>3 DEF RunDelays, path
    <3> QED
      BY <2>1, <3>1 DEF DiskOK, memo
  <2> QED
    BY <2>2, <2>3
<1>8. CASE UNCHANGED <<dirs, memo, overlooked>>
  BY <1>8 DEF dirs, memo
<1> QED
  BY <1>1, <1>2, <1>3, <1>4, <1>5, <1>6, <1>7, <1>8
     DEF Next, Server, GiveUp, NotCached, NotNeeded, NotFound, EndCached, EndUncached, Goto,
         CutOff, Leave, vars

LEMMA DelaysType == ASSUME TypeOK, [Next]_vars, ~Files PROVE DelaysOK'
<1> USE Bounds DEF TypeOK, DelaysOK
<1>1. CASE AskNewContext
  BY <1>1 DEF AskNewContext, Asking, RequestOK
<1>2. CASE RunDelays
  BY <1>2 DEF RunDelays
<1>3. CASE UNCHANGED delays
  BY <1>3
<1> QED
  BY <1>1, <1>2, <1>3
     DEF Next, Server, Begin, NextCompilation, Compile, AskDirectories, ReadDirectory, Type,
         Reuse, GiveUp, NotCached, NotNeeded, NotFound, EndCached, EndUncached, Goto, CutOff,
         vars, dirs

LEMMA RequestType == ASSUME TypeOK, [Next]_vars, ~Files PROVE RequestOK'
<1> USE Bounds, SomeDirectory DEF TypeOK, RequestOK, Times
<1>1. CASE \E path \in Paths : Begin(path) \/ NextCompilation(path)
  BY <1>1 DEF Begin, NextCompilation, Compile, DiskOK
<1>2. CASE AskNewContext \/ AskDirectories
  BY <1>2 DEF AskNewContext, AskDirectories, com
<1>3. CASE \E d \in Dirs : ReadDirectory(d)
  BY <1>3 DEF ReadDirectory
<1>4. CASE \E d \in Dirs : Type(d)
  BY <1>4 DEF Type, DiskOK
<1>5. CASE Reuse \/ GiveUp
  BY <1>5 DEF Reuse, GiveUp, Check, com
<1>6. CASE NotCached \/ NotNeeded \/ NotFound \/ EndUncached
  BY <1>6 DEF NotCached, NotNeeded, NotFound, EndUncached, Goto, com
<1>7. CASE EndCached
  BY <1>7 DEF EndCached, com
<1>8. CASE RunDelays \/ CutOff
  BY <1>8 DEF RunDelays, CutOff, Leave
<1>9. CASE UNCHANGED vars
  BY <1>9 DEF vars, com
<1> QED
  BY <1>1, <1>2, <1>3, <1>4, <1>5, <1>6, <1>7, <1>8, <1>9 DEF Next, Server

(***************************************************************************)
(* Every variable keeps its type: a request that runs has a class path,    *)
(* and only a listed directory has a time.                                 *)
(***************************************************************************)
THEOREM TypeCorrect == Spec => []TypeOK
<1>1. Init => TypeOK
  <2> SUFFICES ASSUME Init PROVE TypeOK
    OBVIOUS
  <2> USE Bounds, SomeDirectory DEF Init, Times, NoDirs
  <2>1. DiskOK
    BY DEF DiskOK
  <2>2. DirsOK
    <3>1. known \in [Dirs -> Times] /\ \A d \in Dirs : known[d] = 0
      OBVIOUS
    <3> QED
      BY <3>1 DEF DirsOK
  <2>3. DelaysOK
    BY DEF DelaysOK
  <2>4. RequestOK
    BY DEF RequestOK
  <2> QED
    BY <2>1, <2>2, <2>3, <2>4 DEF TypeOK
<1>2. TypeOK /\ [Next]_vars => TypeOK'
  <2> SUFFICES ASSUME TypeOK, [Next]_vars PROVE TypeOK'
    OBVIOUS
  <2>1. CASE Files
    BY <2>1, FilesType
  <2>2. CASE ~Files
    <3>1. UNCHANGED disk
      BY <2>2
         DEF Next, Server, Begin, NextCompilation, Compile, AskNewContext, AskDirectories,
             ReadDirectory, Type, Reuse, GiveUp, NotCached, NotNeeded, NotFound, EndCached,
             EndUncached, Goto, RunDelays, CutOff, Leave, vars
    <3> QED
      BY <2>2, <3>1, DirsType, DelaysType, RequestType DEF TypeOK, DiskOK, disk
  <2> QED
    BY <2>1, <2>2
<1> QED
  BY <1>1, <1>2, PTL DEF Spec
-----------------------------------------------------------------------------
(* Shadowing *)

\* What was recorded of a directory is its present time, or it has changed
\* since; in a request that has asked, it changed after the request began.
TimesInv ==
    /\ began <= clock
    /\ \A d \in Dirs :
        /\ dirTime[d] <= clock /\ known[d] <= clock
        /\ file[d] # 0 => dirTime[d] # 0
        /\ dirTime[d] # 0 => known[d] <= dirTime[d]
        /\ asked /\ pc # "idle" /\ known[d] # 0 =>
              dirTime[d] \in {0, known[d]} \/ dirTime[d] > began

\* In a directory whose recorded time is the present one nothing comes before
\* directory e, but what the server has passed over.
Clear(e) ==
    \A d \in Dirs :
        known[d] # 0 /\ known[d] = dirTime[d] /\ Before(d, e) => d \in overlooked

ClearInv ==
    /\ cached.state = "good" => Clear(cached.dir)
    /\ pc = "typed" => Clear(typed.dir)
    /\ pc \in {"type", "typed"} => cached.state # "good"
    /\ classPath = <<>> => ~listed

Numbers ==
    /\ clock \in Nat /\ began \in Nat
    /\ dirTime \in [Dirs -> Nat] /\ file \in [Dirs -> Nat] /\ known \in [Dirs -> Nat]

LEMMA TypeOKNumbers == (TypeOK => Numbers) /\ (TypeOK' => Numbers')
BY Bounds DEF TypeOK, DiskOK, DirsOK, RequestOK, Numbers, Times

LEMMA TimesStep ==
  ASSUME Numbers, Numbers', DirsOK, TimesInv, [Next]_vars
  PROVE  TimesInv'
<1> USE DEF Numbers, TimesInv
<1>1. CASE Files
  <2>1. PICK d \in Dirs : Create(d) \/ Delete(d) \/ Rewrite(d) \/ RemoveDir(d) \/ MakeDir(d)
    BY <1>1 DEF Files
  <2>2. Change
    BY <2>1 DEF Create, Delete, Rewrite, RemoveDir, MakeDir
  <2>3. /\ UNCHANGED <<known, asked, pc, began>>
        /\ clock' = clock + 1
    BY <2>2 DEF Change, dirs, memo
  <2>4. CASE Create(d)
    BY <2>3, <2>4 DEF Create
  <2>5. CASE Delete(d)
    BY <2>3, <2>5 DEF Delete
  <2>6. CASE Rewrite(d)
    BY <2>3, <2>6 DEF Rewrite
  <2>7. CASE RemoveDir(d)
    BY <2>3, <2>7 DEF RemoveDir
  <2>8. CASE MakeDir(d)
    BY <2>3, <2>8 DEF MakeDir
  <2> QED
    BY <2>1, <2>4, <2>5, <2>6, <2>7, <2>8
<1>2. CASE \E path \in Paths : Begin(path) \/ NextCompilation(path)
  <2>1. PICK path \in Paths : Begin(path) \/ NextCompilation(path)
    BY <1>2
  <2>2. UNCHANGED disk
    BY <2>1 DEF Begin, NextCompilation, Compile
  <2>3. known' = known \/ \A d \in Dirs : known'[d] = 0
    BY <2>1 DEF Begin, NextCompilation, Compile, NoDirs
  <2>4. \/ ~asked' /\ began' = clock
        \/ pc # "idle" /\ UNCHANGED <<asked, began>>
    BY <2>1 DEF Begin, NextCompilation, memo
  <2> QED
    BY <2>2, <2>3, <2>4 DEF disk
<1>3. CASE AskDirectories
  <2>1. UNCHANGED <<disk, began>>
    BY <1>3 DEF AskDirectories
  <2>2. \A d \in Dirs : known'[d] = IF known[d] = 0 THEN 0 ELSE dirTime[d]
    BY <1>3 DEF AskDirectories
  <2> QED
    BY <2>1, <2>2 DEF disk
<1>4. CASE AskNewContext
  <2>1. UNCHANGED <<disk, known, began>> /\ ~listed
    BY <1>4 DEF AskNewContext
  <2>2. \A d \in Dirs : known[d] = 0
    BY <2>1 DEF DirsOK
  <2> QED
    BY <2>1, <2>2 DEF disk
<1>5. CASE RunDelays
  <2>1. UNCHANGED disk /\ pc' = "idle" /\ began' = 0
    BY <1>5 DEF RunDelays, Leave
  <2>2. \A d \in Dirs : known'[d] \in {0, known[d], dirTime[d]}
    BY <1>5 DEF RunDelays
  <2> QED
    BY <2>1, <2>2 DEF disk
<1>6. CASE CutOff
  BY <1>6 DEF CutOff, Leave, disk, dirs
<1>7. CASE \E d \in Dirs : ReadDirectory(d) \/ Type(d)
  <2>1. UNCHANGED <<disk, dirs, memo, began>> /\ pc # "idle"
    BY <1>7 DEF ReadDirectory, Type
  <2> QED
    BY <2>1 DEF disk, dirs, memo
<1>8. CASE Reuse \/ GiveUp \/ NotCached \/ NotNeeded \/ NotFound \/ EndCached \/ EndUncached
  <2>1. UNCHANGED <<disk, dirs, memo, began>> /\ pc # "idle"
    BY <1>8 DEF Reuse, GiveUp, Check, NotCached, NotNeeded, NotFound, EndCached, EndUncached, Goto
  <2> QED
    BY <2>1 DEF disk, dirs, memo
<1>9. CASE UNCHANGED vars
  BY <1>9 DEF vars, disk, dirs, memo
<1> QED
  BY <1>1, <1>2, <1>3, <1>4, <1>5, <1>6, <1>7, <1>8, <1>9 DEF Next, Server

\* A request in which neither the files nor the lists of the server change.
LEMMA ClearKept ==
  ASSUME UNCHANGED <<disk, known, classPath, overlooked>>, NEW e, Clear(e)
  PROVE  Clear(e)'
BY DEF Clear, Before, disk

\* Files come and go only in directories whose time changes with them.
LEMMA ClearFiles ==
  ASSUME Numbers, TimesInv, Files, NEW e, Clear(e)
  PROVE  Clear(e)'
<1> USE DEF Numbers, TimesInv
<1>1. PICK d \in Dirs : Create(d) \/ Delete(d) \/ Rewrite(d) \/ RemoveDir(d) \/ MakeDir(d)
  BY DEF Files
<1>2. /\ UNCHANGED <<known, classPath, overlooked>>
      /\ clock' = clock + 1
  BY <1>1 DEF Create, Delete, Rewrite, RemoveDir, MakeDir, Change, dirs, com
<1>3. \A c \in Dirs : known[c] # 0 /\ known[c] = dirTime'[c] =>
        dirTime'[c] = dirTime[c] /\ (file'[c] # 0 => file[c] # 0)
  <2>1. CASE Create(d)
    BY <1>2, <2>1 DEF Create
  <2>2. CASE Delete(d)
    BY <1>2, <2>2 DEF Delete
  <2>3. CASE Rewrite(d)
    BY <1>2, <2>3 DEF Rewrite
  <2>4. CASE RemoveDir(d)
    BY <1>2, <2>4 DEF RemoveDir
  <2>5. CASE MakeDir(d)
    BY <1>2, <2>5 DEF MakeDir
  <2> QED
    BY <1>1, <2>1, <2>2, <2>3, <2>4, <2>5
<1> QED
  BY <1>2, <1>3 DEF Clear, Before

LEMMA ClearAsk ==
  ASSUME Numbers, TimesInv, AskDirectories, NEW e, Clear(e)
  PROVE  Clear(e)'
<1>1. UNCHANGED <<disk, classPath>>
  BY DEF AskDirectories, com
<1>2. ASSUME NEW d \in Dirs, known'[d] # 0, d \notin overlooked'
      PROVE  known[d] # 0 /\ known[d] = dirTime[d] /\ d \notin overlooked
  BY <1>2 DEF AskDirectories, Numbers, TimesInv
<1> QED
  BY <1>1, <1>2 DEF Clear, Before, disk

\* A request that reuses M has looked at every directory that has changed.
LEMMA ClearReuse ==
  ASSUME Numbers, RequestOK, Reuse, Clear(cached.dir)
  PROVE  Clear(cached.dir)'
<1>1. UNCHANGED <<disk, dirs, classPath, cached>>
  BY DEF Reuse, com
<1>2. ASSUME NEW d \in Dirs, known[d] # 0, d \in overlooked, file[d] # 0
      PROVE  d \in overlooked'
  <2>1. CASE d \in changed
    <3>1. file[d] <= cached.time
      BY <2>1 DEF Reuse, Shadowed, Numbers, RequestOK, Times
    <3>2. file[d] \in 1..cached.time
      BY <1>2, <3>1, Bounds DEF Numbers, RequestOK, Times
    <3> QED
      BY <1>2, <2>1, <3>2 DEF Reuse
  <2>2. CASE d \notin changed
    BY <1>2, <2>2 DEF Reuse
  <2> QED
    BY <2>1, <2>2
<1> QED
  BY <1>1, <1>2 DEF Clear, Before, disk, dirs

LEMMA ClearType ==
  ASSUME NEW d \in Dirs, TypeOK, Type(d)
  PROVE  Clear(d)'
<1>1. UNCHANGED <<disk, known, classPath>>
  BY DEF Type, dirs
<1>2. ASSUME NEW e \in Dirs, Before(e, d), known[e] # 0
      PROVE  e \in overlooked'
  <2>1. PICK i \in 1..Len(classPath) :
          classPath[i] = d /\ \A j \in 1..i-1 : classPath[j] \in read \ found
    BY DEF Type, First
  <2>2. PICK k \in 1..Len(classPath) :
          classPath[k] = e /\ \A j \in 1..k : classPath[j] # d
    BY <1>2 DEF Before
  <2>3. Len(classPath) \in Nat
    BY ConstantsAssumption DEF TypeOK, RequestOK
  <2>4. k < i
    BY <2>1, <2>2, <2>3
  <2>5. e \in read \ found
    BY <2>1, <2>2, <2>3, <2>4
  <2> QED
    BY <1>2, <2>5 DEF Type, Before
<1> QED
  BY <1>1, <1>2 DEF Clear, Before, disk

LEMMA ClearStep ==
  ASSUME TypeOK, TimesInv, ClearInv, [Next]_vars
  PROVE  ClearInv'
<1> USE DEF ClearInv
<1>n. Numbers /\ RequestOK /\ DirsOK
  BY TypeOKNumbers DEF TypeOK
<1>1. CASE Files
  <2>1. UNCHANGED <<cached, pc, typed, classPath, listed>>
    BY <1>1 DEF Files, Create, Delete, Rewrite, RemoveDir, MakeDir, Change, com, dirs
  <2>2. PICK c, t : c = cached.dir /\ t = typed.dir
    OBVIOUS
  <2>3. (Clear(c) => Clear(c)') /\ (Clear(t) => Clear(t)')
    BY <1>1, <1>n, ClearFiles
  <2> QED
    BY <2>1, <2>2, <2>3 DEF Clear, Before
<1>2. CASE \E path \in Paths : Begin(path) \/ NextCompilation(path)
  <2>1. PICK path \in Paths : Compile(path)
    BY <1>2 DEF Begin, NextCompilation
  <2>2. pc' = "lookup" /\ UNCHANGED <<disk, cached>> /\ classPath' # <<>>
    BY <2>1, ConstantsAssumption DEF Compile
  <2>3. CASE classPath = path
    <3>1. UNCHANGED <<known, classPath, overlooked>>
      BY <2>1, <2>3 DEF Compile
    <3> QED
      BY <2>2, <3>1, ClearKept DEF Clear, Before, disk
  <2>4. CASE classPath # path
    <3>1. \A d \in Dirs : known'[d] = 0
      BY <2>1, <2>4, <1>n DEF Compile, NoDirs, DirsOK
    <3> QED
      BY <2>2, <3>1 DEF Clear
  <2> QED
    BY <2>3, <2>4
<1>3. CASE AskDirectories
  <2>1. UNCHANGED <<cached, typed, pc, classPath, listed>>
    BY <1>3 DEF AskDirectories, com
  <2>2. PICK c, t : c = cached.dir /\ t = typed.dir
    OBVIOUS
  <2>3. (Clear(c) => Clear(c)') /\ (Clear(t) => Clear(t)')
    BY <1>3, <1>n, ClearAsk
  <2> QED
    BY <2>1, <2>2, <2>3 DEF Clear, Before
<1>4. CASE AskNewContext
  <2>1. /\ UNCHANGED <<disk, known, com, cached, pc, overlooked>>
        /\ classPath # <<>>
    BY <1>4, <1>n, ConstantsAssumption DEF AskNewContext, Asking, RequestOK
  <2> QED
    BY <2>1 DEF Clear, Before, com, disk
<1>5. CASE \E d \in Dirs : ReadDirectory(d)
  BY <1>5 DEF ReadDirectory, Clear, Before, disk, dirs
<1>6. CASE \E d \in Dirs : Type(d)
  <2>1. PICK d \in Dirs : Type(d)
    BY <1>6
  <2>2. Clear(d)'
    BY <2>1, ClearType
  <2>3. /\ pc' = "typed" /\ typed'.dir = d
        /\ cached' = cached /\ cached.state # "good"
        /\ UNCHANGED <<classPath, listed>>
    BY <2>1 DEF Type, dirs
  <2> QED
    BY <2>2, <2>3 DEF Clear, Before
<1>7. CASE Reuse
  <2>1. /\ pc' = "reused" /\ cached.state = "good"
        /\ UNCHANGED <<cached, classPath, listed>>
    BY <1>7 DEF Reuse, Check, com, dirs
  <2> QED
    BY <1>7, <1>n, <2>1, ClearReuse DEF Clear, Before
<1>8. CASE GiveUp
  <2>1. /\ pc' = "type" /\ cached'.state = "bad"
        /\ UNCHANGED <<classPath, listed>>
    BY <1>8, <1>n DEF GiveUp, RequestOK, com, dirs
  <2> QED
    BY <2>1
<1>9. CASE NotCached \/ NotNeeded \/ NotFound \/ EndUncached
  <2>1. /\ UNCHANGED <<disk, known, classPath, overlooked, cached, listed>>
        /\ pc' \in {"type", "compiled"} /\ (pc' = "type" => cached.state # "good")
    BY <1>9 DEF NotCached, NotNeeded, NotFound, EndUncached, Goto, com, dirs
  <2> QED
    BY <2>1 DEF Clear, Before, disk
<1>10. CASE EndCached
  <2>1. /\ UNCHANGED <<disk, known, classPath, overlooked, listed>>
        /\ pc = "typed" /\ pc' = "compiled" /\ cached'.dir = typed.dir
    BY <1>10 DEF EndCached, com, dirs
  <2> QED
    BY <2>1 DEF Clear, Before, disk
<1>11. CASE RunDelays
  <2>1. /\ UNCHANGED <<disk, classPath, cached>> /\ pc' = "idle"
        /\ classPath # <<>>
    BY <1>11, <1>n, ConstantsAssumption DEF RunDelays, Leave, RequestOK
  <2>2. CASE delays = <<>>
    BY <1>11, <2>1, <2>2 DEF RunDelays, Clear, Before, disk
  <2>3. CASE delays # <<>>
    <3>1. overlooked' = {d \in Dirs : known'[d] # 0 /\ Before(d, cached.dir)}
      BY <1>11, <2>3 DEF RunDelays
    <3>2. \A d \in Dirs : Before(d, cached.dir)' <=> Before(d, cached.dir)
      BY <2>1 DEF Before, disk
    <3> QED
      BY <2>1, <3>1, <3>2 DEF Clear
  <2> QED
    BY <2>2, <2>3
<1>12. CASE CutOff
  BY <1>12 DEF CutOff, Leave, Clear, Before, disk, dirs
<1>13. CASE UNCHANGED vars
  BY <1>13 DEF vars, Clear, Before, disk, dirs, com
<1> QED
  BY <1>1, <1>2, <1>3, <1>4, <1>5, <1>6, <1>7, <1>8, <1>9, <1>10, <1>11, <1>12, <1>13
     DEF Next, Server

(***************************************************************************)
(* For every set of directories, class paths and requests: the only files  *)
(* a reused module can be shadowed by lie in directories the server does   *)
(* not know, has passed over before, or that changed during the request.   *)
(***************************************************************************)
THEOREM ShadowsAreSeen == Spec => ShadowingIsSeen
<1>1. Init => TimesInv /\ ClearInv
  BY Bounds DEF Init, TimesInv, ClearInv, NoDirs
<1>2. TypeOK /\ TypeOK' /\ TimesInv /\ [Next]_vars => TimesInv'
  BY TypeOKNumbers, TimesStep DEF TypeOK
<1>3. TypeOK /\ TimesInv /\ ClearInv /\ [Next]_vars => ClearInv'
  BY ClearStep
<1>4. TypeOK /\ TimesInv /\ ClearInv /\ [Next]_vars =>
        [pc = "lookup" /\ pc' = "reused" =>
          \A d \in Dirs : Before(d, cached.dir) =>
            known[d] = 0 \/ d \in overlooked' \/ dirTime[d] > began]_vars
  <2> SUFFICES ASSUME TypeOK, TimesInv, ClearInv, [Next]_vars,
                      pc = "lookup", pc' = "reused",
                      NEW d \in Dirs, Before(d, cached.dir), known[d] # 0, d \notin overlooked'
               PROVE  dirTime[d] > began
    OBVIOUS
  <2>1. Reuse
    BY DEF Next, Server, Files, Create, Delete, Rewrite, RemoveDir, MakeDir, Change, Begin,
           NextCompilation, Compile, AskNewContext, AskDirectories, ReadDirectory, Type, GiveUp,
           NotCached, NotNeeded, NotFound, EndCached, EndUncached, Goto, RunDelays, CutOff,
           Leave, vars
  <2>2. Numbers /\ RequestOK
    BY TypeOKNumbers DEF TypeOK
  <2>3. asked /\ cached.state = "good" /\ UNCHANGED <<disk, dirs, classPath, cached>>
    BY <2>1 DEF Reuse, Check, com
  <2>4. Clear(cached.dir)'
    BY <2>1, <2>2, <2>3, ClearReuse DEF ClearInv
  <2>5. known[d] # dirTime[d]
    BY <2>3, <2>4 DEF Clear, Before, disk, dirs
  <2>6. dirTime[d] # 0
    BY DEF Before, TimesInv
  <2> QED
    BY <2>3, <2>5, <2>6 DEF TimesInv
<1> QED
  BY <1>1, <1>2, <1>3, <1>4, TypeCorrect, PTL DEF Spec, ShadowingIsSeen
=============================================================================
