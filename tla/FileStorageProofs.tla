-------------------------- MODULE FileStorageProofs --------------------------
(***************************************************************************)
(* That a write or clear which returned no error is in the file, for every *)
(* set of entries and hashes and every interleaving of failures and kills, *)
(* which does not depend on what an entry is or on how they are trimmed;   *)
(* and that FileStorage implements StatsStore, which does.                 *)
(***************************************************************************)
EXTENDS FileStorage, Induction

\* Nothing is cached while the process is down or a clear is under way.
NothingCached == pc \in {"down", "truncate"} => cache = Empty

\* The temp file that is renamed holds all that the cache holds.
TempComplete == pc = "rename" => temp = cache

\* After the rename the file does.
Renamed == pc \in {"closeOld", "reopen"} => path = cache

IInv == NothingCached /\ TempComplete /\ Renamed /\ AckedIsSaved

USE DEF Return, NothingCached, TempComplete, Renamed, AckedIsSaved

-----------------------------------------------------------------------------
\* Nothing is cached and nothing is in the file.
LEMMA InitIInv == Init => IInv
BY DEF Init, IInv

\* Every step of a write, a clear or the process keeps IInv.
LEMMA NextIInv == IInv /\ [Next]_vars => IInv'
<1> SUFFICES ASSUME IInv, [Next]_vars PROVE IInv'
  OBVIOUS
<1> USE DEF IInv
<1>1. CASE Open
  BY <1>1 DEF Open
<1>2. CASE \E e \in Entries : Write(e)
  BY <1>2 DEF Write
<1>3. CASE WriteLine
  BY <1>3 DEF WriteLine
<1>4. CASE TempDone
  BY <1>4 DEF TempDone, AllWritten
<1>5. CASE Rename
  BY <1>5 DEF Rename
<1>6. CASE TempFails
  BY <1>6 DEF TempFails
<1>7. CASE CloseOld \/ CloseOldFails
  BY <1>7 DEF CloseOld, CloseOldFails
<1>8. CASE Reopen \/ ReopenFails
  BY <1>8 DEF Reopen, ReopenFails
<1>9. CASE Clear
  BY <1>9 DEF Clear
<1>10. CASE Truncate \/ TruncateFails
  BY <1>10 DEF Truncate, TruncateFails
<1>11. CASE Close
  BY <1>11 DEF Close
<1>12. CASE Crash
  BY <1>12 DEF Crash
<1>13. CASE UNCHANGED vars
  BY <1>13 DEF vars
<1> QED
  BY <1>1, <1>2, <1>3, <1>4, <1>5, <1>6, <1>7, <1>8, <1>9, <1>10, <1>11, <1>12,
     <1>13 DEF Next

\* The file is only ever replaced by all that the cache holds.
LEMMA StepReplacesWhole ==
  IInv /\ [Next]_vars => [path' # path => path' = cache']_vars
<1> SUFFICES ASSUME IInv, Next, path' # path PROVE path' = cache'
  OBVIOUS
<1>1. Rename \/ Truncate
  BY DEF Next, Open, Write, WriteLine, TempDone, TempFails, CloseOld,
         CloseOldFails, Reopen, ReopenFails, Clear, TruncateFails, Close, Crash
<1> QED
  BY <1>1 DEF IInv, Rename, Truncate

-----------------------------------------------------------------------------
\* IInv holds in every reachable state.
THEOREM Invariance == Spec => []IInv
BY InitIInv, NextIInv, PTL DEF Spec

\* When WriteStats, WriteFailure or Clear has returned nil, the file says what
\* readers see (rewriteEntireFile: a failing step returns its error).
THEOREM AckedWritesAreSaved == Spec => []AckedIsSaved
<1>1. IInv => AckedIsSaved
  BY DEF IInv
<1> QED
  BY <1>1, Invariance, PTL

\* Wherever a write fails or the process dies, the file is the old one or the
\* new one and never half of each (rewriteEntireFile: temp file and rename).
THEOREM FileReplacedWhole == Spec => [][path' # path => path' = cache']_vars
BY StepReplacesWhole, Invariance, PTL DEF Spec
-----------------------------------------------------------------------------
(* What is loaded from a file.                                             *)

\* The loop of loadFromFile has a result after each line.
LEMMA LoadedDef ==
  ASSUME NEW s \in Seq(Entries)
  PROVE  \E kept : /\ Loaded(s) = kept[Len(s)] /\ kept[0] = <<>>
                   /\ \A n \in 1..Len(s) :
                        kept[n] = IF Decodes(s[n])
                                    THEN Trim(Append(kept[n - 1], s[n]))
                                    ELSE kept[n - 1]
<1> DEFINE V == Seq(Entries)
           Turn(v, n) == IF Decodes(s[n]) THEN Trim(Append(v, s[n])) ELSE v
           step == [n \in 1..Len(s) |-> [v \in V |-> Turn(v, n)]]
           Body(f) == [n \in 0..Len(s) |-> IF n = 0 THEN <<>>
                                                    ELSE Turn(f[n - 1], n)]
<1>1. \A n \in 1..Len(s) : \A v \in V : Turn(v, n) \in V
  BY DEF Trim
<1>2. step \in [1..Len(s) -> [V -> V]]
  <2> HIDE DEF Turn, V
  <2> QED
    BY <1>1
<1>3. PICK f \in [0..Len(s) -> V] :
        f[0] = <<>> /\ \A n \in 1..Len(s) : f[n] = step[n][f[n - 1]]
  <2> DEFINE base == <<>>
             N == Len(s)
  <2>1. base \in V /\ N \in Nat
    OBVIOUS
  <2>2. step \in [1..N -> [V -> V]]
    BY <1>2
  <2> HIDE DEF step, V, base, N
  <2>3. \E f \in [0..N -> V] :
          f[0] = base /\ \A n \in 1..N : f[n] = step[n][f[n - 1]]
    BY <2>1, <2>2, Recursion
  <2> QED
    BY <2>3 DEF base, N
<1>4. f = Body(f)
  <2> SUFFICES ASSUME NEW n \in 0..Len(s), n # 0 PROVE f[n] = Turn(f[n - 1], n)
    BY <1>3
  <2>1. n \in 1..Len(s) /\ n - 1 \in 0..Len(s)
    OBVIOUS
  <2>2. f[n - 1] \in V
    BY <1>3, <2>1
  <2> HIDE DEF Turn, V
  <2> QED
    BY <1>3, <2>1, <2>2
<1> DEFINE kept == CHOOSE g : g = Body(g)
<1>5. kept = Body(kept)
  <2> HIDE DEF Body
  <2> QED
    BY <1>4
<1>6. Loaded(s) = kept[Len(s)]
  BY DEF Loaded
<1> HIDE DEF kept
<1>7. kept[0] = <<>> /\ \A n \in 1..Len(s) : kept[n] = Turn(kept[n - 1], n)
  <2> HIDE DEF Turn
  <2> QED
    BY <1>5
<1> QED
  BY <1>6, <1>7

\* t lists what of the first n lines of s decodes, in their order.
ReadPart(t, s, n) ==
  \E from \in [1..Len(t) -> 1..n] :
    /\ \A i \in 1..Len(t) : t[i] = s[from[i]]
    /\ \A i, j \in 1..Len(t) : i < j => from[i] < from[j]
    /\ \A m \in 1..n : s[m] \in Readable <=> \E i \in 1..Len(t) : from[i] = m

\* One line more.
LEMMA ReadPartStep ==
  ASSUME NEW s \in Seq(Entries), NEW n \in Nat, n + 1 \in 1..Len(s),
         NEW t \in Seq(Entries), ReadPart(t, s, n)
  PROVE  IF s[n + 1] \in Readable THEN ReadPart(Append(t, s[n + 1]), s, n + 1)
                                  ELSE ReadPart(t, s, n + 1)
<1>1. PICK from \in [1..Len(t) -> 1..n] :
        /\ \A i \in 1..Len(t) : t[i] = s[from[i]]
        /\ \A i, j \in 1..Len(t) : i < j => from[i] < from[j]
        /\ \A m \in 1..n : s[m] \in Readable <=> \E i \in 1..Len(t) : from[i] = m
  BY DEF ReadPart
<1>2. CASE s[n + 1] \notin Readable
  <2>1. from \in [1..Len(t) -> 1..n + 1]
    BY <1>1
  <2>2. \A m \in 1..n + 1 :
          s[m] \in Readable <=> \E i \in 1..Len(t) : from[i] = m
    <3> SUFFICES ASSUME NEW m \in 1..n + 1
                 PROVE  s[m] \in Readable <=> \E i \in 1..Len(t) : from[i] = m
      OBVIOUS
    <3>1. CASE m = n + 1
      BY <1>1, <1>2, <3>1
    <3>2. CASE m # n + 1
      BY <1>1, <3>2
    <3> QED
      BY <3>1, <3>2
  <2> QED
    BY <1>1, <1>2, <2>1, <2>2 DEF ReadPart
<1>3. CASE s[n + 1] \in Readable
  <2> DEFINE u == Append(t, s[n + 1])
             to == [i \in 1..Len(t) + 1 |-> IF i = Len(t) + 1 THEN n + 1
                                                              ELSE from[i]]
  <2>1. /\ Len(u) = Len(t) + 1 /\ u[Len(t) + 1] = s[n + 1] /\ Len(t) \in Nat
        /\ \A i \in 1..Len(t) : u[i] = t[i]
    OBVIOUS
  <2>2. /\ to[Len(t) + 1] = n + 1
        /\ \A i \in 1..Len(t) : to[i] = from[i] /\ to[i] \in 1..n
    BY <1>1, <2>1
  <2>3. \A i \in 1..Len(t) + 1 : i = Len(t) + 1 \/ i \in 1..Len(t)
    BY <2>1
  <2>4. to \in [1..Len(u) -> 1..n + 1]
    BY <1>1, <2>1
  <2> HIDE DEF u, to
  <2>5. \A i \in 1..Len(u) : u[i] = s[to[i]]
    BY <1>1, <2>1, <2>2, <2>3
  <2>6. \A i, j \in 1..Len(u) : i < j => to[i] < to[j]
    BY <1>1, <2>1, <2>2, <2>3
  <2>7. ASSUME NEW m \in 1..n + 1
        PROVE  s[m] \in Readable <=> \E i \in 1..Len(u) : to[i] = m
    <3>1. CASE m = n + 1
      BY <1>3, <2>1, <2>2, <3>1
    <3>2. CASE m # n + 1
      <4>1. m \in 1..n
        BY <3>2
      <4>2. \A i \in 1..Len(u) : to[i] = m => i \in 1..Len(t) /\ from[i] = m
        BY <2>1, <2>2, <2>3, <3>2
      <4>3. \A i \in 1..Len(t) : from[i] = m => i \in 1..Len(u) /\ to[i] = m
        BY <2>1, <2>2
      <4> QED
        BY <1>1, <4>1, <4>2, <4>3
    <3> QED
      BY <3>1, <3>2
  <2>8. ReadPart(u, s, n + 1)
    BY <2>4, <2>5, <2>6, <2>7 DEF ReadPart
  <2> QED
    BY <1>3, <2>8 DEF u
<1> QED
  BY <1>2, <1>3

\* A file of at most MaxEntries lines is loaded as what of it decodes: the
\* trimming in addToCache loses none of it.
LEMMA LoadedIsReadPart ==
  ASSUME NEW s \in Seq(Entries), Len(s) <= MaxEntries
  PROVE  /\ Loaded(s) \in Seq(Entries) /\ Len(Loaded(s)) <= MaxEntries
         /\ Store!IsReadPart(Loaded(s), s)
<1>1. PICK kept : /\ Loaded(s) = kept[Len(s)] /\ kept[0] = <<>>
                  /\ \A n \in 1..Len(s) :
                       kept[n] = IF Decodes(s[n])
                                   THEN Trim(Append(kept[n - 1], s[n]))
                                   ELSE kept[n - 1]
  BY LoadedDef
<1> DEFINE Good(n) == /\ kept[n] \in Seq(Entries) /\ Len(kept[n]) <= n
                      /\ ReadPart(kept[n], s, n)
           T == {n \in Nat : n <= Len(s) => Good(n)}
<1>2. 0 \in T
  <2> DEFINE none == <<>>
             from == [i \in 1..0 |-> i]
  <2>1. none \in Seq(Entries) /\ Len(none) = 0
    OBVIOUS
  <2>2. from \in [1..0 -> 1..0] /\ 1..0 = {}
    OBVIOUS
  <2>3. kept[0] = none
    BY <1>1
  <2> HIDE DEF none, from
  <2>4. ReadPart(none, s, 0)
    BY <2>1, <2>2 DEF ReadPart
  <2>5. Good(0)
    BY <2>1, <2>3, <2>4
  <2> QED
    BY <2>5
<1>3. ASSUME NEW n \in Nat, n \in T, n + 1 <= Len(s)
      PROVE  Good(n + 1)
  <2>1. /\ n + 1 \in 1..Len(s) /\ (n + 1) - 1 = n /\ s[n + 1] \in Entries
        /\ kept[n] \in Seq(Entries) /\ Len(kept[n]) <= n
        /\ ReadPart(kept[n], s, n)
    BY <1>3
  <2>2. kept[n + 1] = IF s[n + 1] \in Readable
                        THEN Trim(Append(kept[n], s[n + 1])) ELSE kept[n]
    BY <1>1, <2>1 DEF Decodes
  <2>3. Len(Append(kept[n], s[n + 1])) <= MaxEntries
    BY <1>3, <2>1, FileAssumption
  <2>4. Trim(Append(kept[n], s[n + 1])) = Append(kept[n], s[n + 1])
    BY <2>3, <2>1, FileAssumption DEF Trim
  <2>5. ReadPart(kept[n + 1], s, n + 1)
    BY <2>1, <2>2, <2>4, ReadPartStep
  <2>6. kept[n + 1] \in Seq(Entries) /\ Len(kept[n + 1]) <= n + 1
    BY <2>1, <2>2, <2>4
  <2> QED
    BY <2>5, <2>6
<1>4. Nat \subseteq T
  <2> HIDE DEF Good
  <2>1. \A n \in Nat : n \in T => n + 1 \in T
    BY <1>3
  <2> HIDE DEF T
  <2> QED
    BY <1>2, <2>1, SetInduction
<1>5. Good(Len(s))
  <2> HIDE DEF Good
  <2> QED
    BY <1>4
<1>6. Store!IsReadPart(kept[Len(s)], s)
  BY <1>5 DEF ReadPart, Store!IsReadPart
<1>7. Len(kept[Len(s)]) <= MaxEntries
  BY <1>5, FileAssumption
<1> QED
  BY <1>1, <1>5, <1>6, <1>7

-----------------------------------------------------------------------------
(* Types, and the implementation of StatsStore.                            *)

\* One append to a list within the limit, and the trimming after it, keep the
\* newest entries: one too many is all there can be.
LEMMA TrimKeepsNewest ==
  ASSUME NEW s \in Seq(Entries), Len(s) <= MaxEntries, NEW e \in Entries
  PROVE  /\ Trim(Append(s, e)) \in Seq(Entries)
         /\ Len(Trim(Append(s, e))) <= MaxEntries
         /\ Trim(Append(s, e)) = Store!Newest(Append(s, e))
<1> DEFINE t == Append(s, e)
<1>1. t \in Seq(Entries) /\ Len(t) = Len(s) + 1 /\ Len(s) \in Nat /\ t # <<>>
  OBVIOUS
<1>2. MaxEntries \in Nat
  BY FileAssumption
<1> HIDE DEF t
<1>3. CASE Len(t) > MaxEntries
  <2>1. Len(t) - MaxEntries + 1 = 2
    BY <1>1, <1>2, <1>3
  <2>2. Tail(t) = SubSeq(t, 2, Len(t))
    BY <1>1
  <2>3. Tail(t) \in Seq(Entries) /\ Len(Tail(t)) = Len(s)
    BY <1>1
  <2> QED
    BY <1>1, <1>3, <2>1, <2>2, <2>3 DEF t, Trim, Store!Newest
<1>4. CASE ~(Len(t) > MaxEntries)
  BY <1>1, <1>2, <1>4 DEF t, Trim, Store!Newest
<1> QED
  BY <1>3, <1>4

\* The cache and the file stay within the limit of each hash, whatever is
\* written, loaded or cut short.
LEMMA TypeStep == IInv /\ TypeOK /\ [Next]_vars => TypeOK'
<1> SUFFICES ASSUME IInv, TypeOK, [Next]_vars PROVE TypeOK'
  OBVIOUS
<1>0. Empty \in History /\ Bounded(Empty)
  BY FileAssumption DEF Empty, History, Bounded
<1>1. CASE Open
  <2>1. \A k \in Keys : path[k] \in Seq(Entries) /\ Len(path[k]) <= MaxEntries
    BY DEF TypeOK, History, Bounded
  <2>2. \A k \in Keys : Loaded(path[k]) \in Seq(Entries)
                        /\ Len(Loaded(path[k])) <= MaxEntries
    BY <2>1, LoadedIsReadPart
  <2>3. cache' \in History /\ Bounded(cache')
    BY <1>1, <2>2 DEF Open, History, Bounded
  <2> QED
    BY <1>1, <2>3 DEF Open, TypeOK
<1>2. ASSUME NEW e \in Entries, Write(e) PROVE TypeOK'
  <2> DEFINE k == KeyOf[e]
  <2>1. k \in Keys /\ cache[k] \in Seq(Entries) /\ Len(cache[k]) <= MaxEntries
    BY FileAssumption DEF TypeOK, History, Bounded
  <2>2. cache' = [cache EXCEPT ![k] = Trim(Append(cache[k], e))]
    BY <1>2 DEF Write, AddToCache
  <2>3. /\ Trim(Append(cache[k], e)) \in Seq(Entries)
        /\ Len(Trim(Append(cache[k], e))) <= MaxEntries
    BY <2>1, TrimKeepsNewest
  <2> HIDE DEF k
  <2>4. cache' \in History /\ Bounded(cache')
    BY <2>1, <2>2, <2>3 DEF TypeOK, History, Bounded
  <2> QED
    BY <1>0, <1>2, <2>4 DEF Write, TypeOK
<1>3. CASE WriteLine
  <2>1. PICK k \in Keys :
          /\ Len(temp[k]) < Len(cache[k])
          /\ temp' = [temp EXCEPT ![k] =
                        Append(temp[k], cache[k][Len(temp[k]) + 1])]
    BY <1>3 DEF WriteLine
  <2>2. temp[k] \in Seq(Entries) /\ cache[k] \in Seq(Entries)
    BY DEF TypeOK, History
  <2>3. Append(temp[k], cache[k][Len(temp[k]) + 1]) \in Seq(Entries)
    BY <2>1, <2>2
  <2>4. temp' \in History
    BY <2>1, <2>3 DEF TypeOK, History
  <2> QED
    BY <1>3, <2>4 DEF WriteLine, TypeOK
<1>4. CASE TempDone \/ TempFails \/ CloseOld \/ CloseOldFails
  BY <1>4 DEF TempDone, TempFails, CloseOld, CloseOldFails, TypeOK
<1>5. CASE Rename
  BY <1>5 DEF Rename, TypeOK, IInv
<1>6. CASE Reopen \/ ReopenFails \/ TruncateFails \/ Close
  BY <1>6 DEF Reopen, ReopenFails, TruncateFails, Close, TypeOK
<1>7. CASE Clear \/ Truncate \/ Crash
  BY <1>0, <1>7 DEF Clear, Truncate, Crash, TypeOK
<1>8. CASE UNCHANGED vars
  BY <1>8 DEF vars, TypeOK
<1> QED
  BY <1>1, <1>2, <1>3, <1>4, <1>5, <1>6, <1>7, <1>8 DEF Next

\* No hash has more entries than maxEntries in the cache or in the file
\* (addToCache, which writes and loads share).
THEOREM TypeCorrect == Spec => []TypeOK
<1>1. Init => TypeOK
  BY FileAssumption DEF Init, TypeOK, Empty, History, Bounded
<1> QED
  BY <1>1, TypeStep, Invariance, PTL DEF Spec

\* Every step of the file storage is one of the store, or none.
LEMMA StoreStep ==
  IInv /\ TypeOK /\ [Next]_vars => [Store!SNext]_(Store!svars)
<1> SUFFICES ASSUME IInv, TypeOK, [Next]_vars
             PROVE  [Store!SNext]_(Store!svars)
  OBVIOUS
<1>0. Empty = Store!Nothing
  BY DEF Empty, Store!Nothing
<1>1. CASE Open
  <2>1. \A k \in Keys : path[k] \in Seq(Entries) /\ Len(path[k]) <= MaxEntries
    BY DEF TypeOK, History, Bounded
  <2>2. \A k \in Keys : Loaded(path[k]) \in Seq(Entries)
                        /\ Store!IsReadPart(Loaded(path[k]), path[k])
    BY <2>1, LoadedIsReadPart
  <2>3. /\ cache' \in [Keys -> Seq(Entries)]
        /\ \A k \in Keys : Store!IsReadPart(cache'[k], path[k])
    BY <1>1, <2>2 DEF Open
  <2>4. cache = Store!Nothing /\ UNCHANGED path
    BY <1>0, <1>1 DEF Open, IInv
  <2>5. Store!SLoad
    BY <2>3, <2>4 DEF Store!SLoad
  <2> QED
    BY <2>5 DEF Store!SNext
<1>2. ASSUME NEW e \in Entries, Write(e) PROVE Store!SNext
  <2> DEFINE k == KeyOf[e]
  <2>1. k \in Keys /\ cache[k] \in Seq(Entries) /\ Len(cache[k]) <= MaxEntries
    BY FileAssumption DEF TypeOK, History, Bounded
  <2>2. cache' = [cache EXCEPT ![k] = Trim(Append(cache[k], e))]
    BY <1>2 DEF Write, AddToCache
  <2>3. Trim(Append(cache[k], e)) = Store!Newest(Append(cache[k], e))
    BY <2>1, TrimKeepsNewest
  <2>4. cache' = Store!Filed(cache, e) /\ UNCHANGED path
    BY <1>2, <2>2, <2>3 DEF Write, Store!Filed
  <2>5. Store!SWrite(e)
    BY <2>4 DEF Store!SWrite
  <2> QED
    BY <2>5 DEF Store!SNext
<1>3. CASE Rename \/ Truncate
  <2>1. path' = cache /\ UNCHANGED cache
    BY <1>3 DEF Rename, Truncate, IInv
  <2> QED
    BY <2>1 DEF Store!SSave, Store!SNext
<1>4. CASE Clear \/ Crash
  <2>1. cache' = Store!Nothing /\ UNCHANGED path
    BY <1>0, <1>4 DEF Clear, Crash
  <2> QED
    BY <2>1 DEF Store!SLose, Store!SNext
<1>5. CASE \/ WriteLine \/ TempDone \/ TempFails \/ CloseOld \/ CloseOldFails
           \/ Reopen \/ ReopenFails \/ TruncateFails \/ Close
           \/ UNCHANGED vars
  BY <1>5 DEF WriteLine, TempDone, TempFails, CloseOld, CloseOldFails, Reopen,
              ReopenFails, TruncateFails, Close, vars, Store!svars
<1> QED
  BY <1>1, <1>2, <1>3, <1>4, <1>5 DEF Next

\* FileStorage in file mode is a store of the newest entries per hash: readers
\* see them, the file only changes to a whole copy of what readers see, and a
\* restart brings back what of it decodes.
THEOREM StoreRefinement == Spec => StoreSpec
<1>1. Init => Store!SInit
  BY DEF Init, Empty, Store!SInit, Store!Nothing
<1> QED
  BY <1>1, StoreStep, Invariance, TypeCorrect, PTL
  DEF Spec, StoreSpec, Store!SSpec
=============================================================================
