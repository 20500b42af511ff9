----------------------------- MODULE FileStorage -----------------------------
(***************************************************************************)
(* FileStorage in file mode: a cache of the newest entries per hash, and a *)
(* file that every write replaces whole - temp file, sync, close, rename,  *)
(* close the old handle, reopen.  Each step may fail and the process may   *)
(* be killed between any two of them.  FileStorage.mu is held throughout a *)
(* write, so readers see the cache before or after it.                     *)
(***************************************************************************)
EXTENDS Naturals, Sequences

CONSTANTS Entries,     \* each entry is written once
          Keys,        \* <<type, hash>>: the maps statsCache and failuresCache
          KeyOf,       \* KeyOf[e]: where e is cached
          Readable,    \* entries json.Unmarshal accepts (a non-empty []error
                       \* does not decode)
          MaxEntries   \* f.maxEntries

ASSUME FileAssumption ==
  /\ KeyOf \in [Entries -> Keys]
  /\ Readable \subseteq Entries
  /\ MaxEntries \in Nat \ {0}

VARIABLES
  pc,        \* "down", "idle", or the step of rewriteEntireFile
  cache,     \* statsCache and failuresCache
  path,      \* the file: what the lines in it say, per key
  temp,      \* the same of the temp file
  handle,    \* f.file: "open", "stale" (closed, not replaced) or "nil"
  result,    \* what the last call returned
  written    \* entries given to a write so far

vars == <<pc, cache, path, temp, handle, result, written>>

Empty == [k \in Keys |-> <<>>]

History == [Keys -> Seq(Entries)]

Bounded(h) == \A k \in Keys : Len(h[k]) <= MaxEntries

TypeOK ==
  /\ pc \in {"down", "idle", "temp", "rename", "closeOld", "reopen", "truncate"}
  /\ cache \in History /\ Bounded(cache)
  /\ path \in History /\ Bounded(path)
  /\ temp \in History
  /\ handle \in {"open", "stale", "nil"}
  /\ result \in {"none", "ok", "error"}
  /\ written \subseteq Entries

\* The program starts with whatever an earlier run left; here with no file.
Init ==
  /\ pc = "down"
  /\ cache = Empty /\ path = Empty /\ temp = Empty
  /\ handle = "nil" /\ result = "none"
  /\ written = {}

\* Mutant of Trim: one entry too many is kept.
TrimOffByOne(s) == IF Len(s) > MaxEntries + 1 THEN Tail(s) ELSE s

\* for len(entries) > f.maxEntries: one entry was appended, one may go.
Trim(s) == IF Len(s) > MaxEntries THEN Tail(s) ELSE s

AddToCache(e) ==
  cache' = [cache EXCEPT ![KeyOf[e]] = Trim(Append(@, e))]

Return(r) == pc' = "idle" /\ result' = r

-----------------------------------------------------------------------------
Decodes(e) == e \in Readable

\* loadFromFile: lines that do not decode are skipped, the others are added to
\* the cache.
Loaded(lines) ==
  LET kept[n \in 0..Len(lines)] ==
        IF n = 0 THEN <<>>
        ELSE IF Decodes(lines[n]) THEN Trim(Append(kept[n - 1], lines[n]))
        ELSE kept[n - 1]
  IN kept[Len(lines)]

\* NewFileStorage.
Open ==
  /\ pc = "down"
  /\ cache' = [k \in Keys |-> Loaded(path[k])]
  /\ handle' = "open"
  /\ Return("none")
  /\ UNCHANGED <<path, temp, written>>

\* WriteStats and WriteFailure: cache first, then the file if there is a
\* handle.
Write(e) ==
  /\ pc = "idle"
  /\ e \notin written
  /\ written' = written \cup {e}
  /\ AddToCache(e)
  /\ IF handle = "nil"
       THEN Return("error")
       ELSE pc' = "temp" /\ UNCHANGED result
  /\ temp' = Empty
  /\ UNCHANGED <<path, handle>>

\* writeAllDataToFile: one line per entry of the cache.
WriteLine ==
  /\ pc = "temp"
  /\ \E k \in Keys :
       /\ Len(temp[k]) < Len(cache[k])
       /\ temp' = [temp EXCEPT ![k] = Append(@, cache[k][Len(@) + 1])]
  /\ UNCHANGED <<pc, cache, path, handle, result, written>>

\* Mutant of AllWritten: the temp file is used before it is complete.
SomeWritten == temp # Empty

AllWritten == temp = cache

\* Sync and Close of the temp file.
TempDone ==
  /\ pc = "temp"
  /\ AllWritten
  /\ pc' = "rename"
  /\ UNCHANGED <<cache, path, temp, handle, result, written>>

Rename ==
  /\ pc = "rename"
  /\ path' = temp
  /\ pc' = "closeOld"
  /\ UNCHANGED <<cache, temp, handle, result, written>>

\* Mutant of TempFails: the error is dropped.
TempFailsSilently ==
  /\ pc \in {"temp", "rename"}
  /\ Return("ok")
  /\ UNCHANGED <<cache, path, temp, handle, written>>

\* Creating, writing, syncing, closing or renaming the temp file fails; the
\* temp file is removed.
TempFails ==
  /\ pc \in {"temp", "rename"}
  /\ Return("error")
  /\ UNCHANGED <<cache, path, temp, handle, written>>

CloseOld ==
  /\ pc = "closeOld"
  /\ handle = "open"
  /\ pc' = "reopen"
  /\ UNCHANGED <<cache, path, temp, handle, result, written>>

\* Closing fails, as it always does on a handle that was closed before.
CloseOldFails ==
  /\ pc = "closeOld"
  /\ handle' = "stale"
  /\ Return("error")
  /\ UNCHANGED <<cache, path, temp, written>>

Reopen ==
  /\ pc = "reopen"
  /\ handle' = "open"
  /\ Return("ok")
  /\ UNCHANGED <<cache, path, temp, written>>

ReopenFails ==
  /\ pc = "reopen"
  /\ handle' = "nil"
  /\ Return("error")
  /\ UNCHANGED <<cache, path, temp, written>>

\* Clear empties the cache, then truncates the file through a new handle.
Clear ==
  /\ pc = "idle"
  /\ cache' = Empty
  /\ handle' = IF handle = "open" THEN "stale" ELSE handle
  /\ pc' = "truncate"
  /\ UNCHANGED <<path, temp, result, written>>

Truncate ==
  /\ pc = "truncate"
  /\ path' = Empty
  /\ handle' = "open"
  /\ Return("ok")
  /\ UNCHANGED <<cache, temp, written>>

TruncateFails ==
  /\ pc = "truncate"
  /\ Return("error")
  /\ UNCHANGED <<cache, path, temp, handle, written>>

Close ==
  /\ pc = "idle"
  /\ handle' = "nil"
  /\ Return(IF handle = "stale" THEN "error" ELSE "none")
  /\ UNCHANGED <<cache, path, temp, written>>

\* The process is killed, or the closed storage is dropped.
Crash ==
  /\ pc # "down"
  /\ pc' = "down"
  /\ cache' = Empty /\ temp' = Empty /\ handle' = "nil" /\ result' = "none"
  /\ UNCHANGED <<path, written>>

Next ==
  \/ Open \/ (\E e \in Entries : Write(e)) \/ WriteLine \/ TempDone \/ Rename
  \/ TempFails \/ CloseOld \/ CloseOldFails \/ Reopen \/ ReopenFails
  \/ Clear \/ Truncate \/ TruncateFails \/ Close \/ Crash

Spec == Init /\ [][Next]_vars

-----------------------------------------------------------------------------
(* Properties.                                                             *)

\* A write or clear that returned no error is in the file: the file holds
\* exactly the entries that readers see, for a restart to find.
AckedIsSaved == pc = "idle" /\ result = "ok" => path = cache

Store == INSTANCE StatsStore WITH hist <- cache, saved <- path

\* The file only ever changes to a complete copy of the cache, whatever step
\* fails and wherever the process dies.
StoreSpec == Store!SSpec

\* Loading existing data brings back every entry in the file.
RestartKeepsAll == [][pc = "down" /\ pc' = "idle" => cache' = path]_vars
=============================================================================
