---------------------------- MODULE BadgerStorage ----------------------------
(***************************************************************************)
(* BadgerStorage: a map from <<type, hash, millisecond>> to an encoded     *)
(* Stats, with a time to live per type.  A write in the millisecond of an  *)
(* earlier one replaces it; a read walks one prefix from the oldest key    *)
(* and fails at the first value that does not decode.  The garbage         *)
(* collection of the value log changes nothing a caller can see.           *)
(***************************************************************************)
EXTENDS Integers, SequencesExt

CONSTANTS Specs,        \* specifications; the hash tells them apart
          Types,        \* the two key prefixes
          TTL           \* TTL[type], in milliseconds

ASSUME BadgerAssumption ==
  /\ Types = {"stats", "failure"}
  /\ TTL \in [Types -> Nat \ {0}]

VARIABLES db,      \* the entries: records with type, spec, ms and failed
                   \* (the Stats lists an error)
          isOpen,  \* Close has not run
          clock    \* time.Now in milliseconds

badger == <<db, isOpen, clock>>

\* Mutant of SameKey: the specification's hash is not part of the key.
SameMillisecond(a, b) == a.type = b.type /\ a.ms = b.ms

SameKey(a, b) == a.type = b.type /\ a.spec = b.spec /\ a.ms = b.ms

\* The prefix "type:hash:".
Key(type, spec) == {e \in db : e.type = type /\ e.spec = spec}

\* Badger hides an entry whose time to live is over.
Alive(e) == clock < e.ms + TTL[e.type]

\* json.Unmarshal refuses a non-empty []error.
Undecodable(e) == e.failed

Older(a, b) == a.ms < b.ms

\* The order of the keys.
InOrder(S) ==
  CHOOSE s \in [1..Cardinality(S) -> S] :
    /\ ToSet(s) = S
    /\ \A i, j \in DOMAIN s : i < j => ~Older(s[j], s[i])

\* Mutant of Walk: a limit takes the newest entries.
WalkNewest(type, spec, limit) ==
  LET all  == InOrder({e \in Key(type, spec) : Alive(e)})
      read == IF limit = 0 \/ limit > Len(all) THEN all
              ELSE IF limit < 0 THEN <<>>
              ELSE SubSeq(all, Len(all) - limit + 1, Len(all))
  IN [failed  |-> ~isOpen \/ \E i \in 1..Len(read) : Undecodable(read[i]),
      entries |-> read]

\* GetStats and GetFailures without a since: limit 0 is no limit, and a
\* negative one reads nothing.
Walk(type, spec, limit) ==
  LET all  == InOrder({e \in Key(type, spec) : Alive(e)})
      read == IF limit = 0 \/ limit > Len(all) THEN all
                                              ELSE SubSeq(all, 1, limit)
  IN [failed  |-> ~isOpen \/ \E i \in 1..Len(read) : Undecodable(read[i]),
      entries |-> read]

\* WriteStats and WriteFailure, when the transaction commits.
Put(e) ==
  /\ isOpen
  /\ db' = {f \in db : ~SameKey(e, f)} \cup {e}
  /\ UNCHANGED <<isOpen, clock>>

\* Close; the worker calls it once.
Close ==
  /\ isOpen
  /\ isOpen' = FALSE
  /\ UNCHANGED <<db, clock>>

\* NewBadgerStorage on a path that holds a database or none.
Open ==
  /\ isOpen' = TRUE
  /\ UNCHANGED <<db, clock>>

Elapse ==
  /\ clock' = clock + 1
  /\ UNCHANGED <<db, isOpen>>
=============================================================================
