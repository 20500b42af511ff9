------------------------------ MODULE StatsStore ------------------------------
(***************************************************************************)
(* What a persistent statistics store promises: readers see the newest     *)
(* entries of every key (a configuration hash and a type), the saved copy  *)
(* only ever changes to a whole copy of what readers see, and a restart    *)
(* brings back what was saved and can be read.  FileStorage implements it. *)
(***************************************************************************)
EXTENDS Naturals, Sequences

CONSTANTS Entries,     \* statistics and failure entries
          Keys,        \* <<type, configuration hash>>
          KeyOf,       \* KeyOf[e]: the key e is filed under
          Readable,    \* the entries that can be decoded again
          MaxEntries   \* entries kept per key

Nothing == [k \in Keys |-> <<>>]

\* The last MaxEntries elements of s.
Newest(s) ==
  IF Len(s) > MaxEntries
    THEN SubSeq(s, Len(s) - MaxEntries + 1, Len(s))
    ELSE s

Filed(h, e) == [h EXCEPT ![KeyOf[e]] = Newest(Append(@, e))]

\* t lists the elements of s that can be decoded, in their order.
IsReadPart(t, s) ==
  \E from \in [1..Len(t) -> 1..Len(s)] :
    /\ \A i \in 1..Len(t) : t[i] = s[from[i]]
    /\ \A i, j \in 1..Len(t) : i < j => from[i] < from[j]
    /\ \A m \in 1..Len(s) :
         s[m] \in Readable <=> \E i \in 1..Len(t) : from[i] = m

VARIABLES hist,    \* what readers see
          saved    \* what survives a restart

svars == <<hist, saved>>

SInit == hist = Nothing /\ saved = Nothing

SWrite(e) == hist' = Filed(hist, e) /\ UNCHANGED saved

SSave == saved' = hist /\ UNCHANGED hist

\* A clear is not undone by a failure half-way, but it may not reach the copy.
SClear == hist' = Nothing /\ saved' \in {saved, Nothing}

SLose == hist' = Nothing /\ UNCHANGED saved

SLoad ==
  /\ hist = Nothing
  /\ hist' \in [Keys -> Seq(Entries)]
  /\ \A k \in Keys : IsReadPart(hist'[k], saved[k])
  /\ UNCHANGED saved

SNext == \/ \E e \in Entries : SWrite(e)
         \/ SSave \/ SClear \/ SLose \/ SLoad

SSpec == SInit /\ [][SNext]_svars
=============================================================================
