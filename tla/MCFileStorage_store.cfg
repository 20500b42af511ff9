\* Every step of a write may fail, the process may be killed at any time.
SPECIFICATION Spec
CONSTANTS
  e1 = e1
  e2 = e2
  e3 = e3
  e4 = e4
  e5 = e5
  Entries = {e1, e2, e3, e4, e5}
  Keys <- MCKeys
  KeyOf <- MCKeyOf
  Readable <- MCReadable
  MaxEntries = 2
INVARIANTS
  TypeOK
  AckedIsSaved
PROPERTIES
  StoreSpec
