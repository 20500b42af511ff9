\* A failure entry is written, and the program is restarted.
SPECIFICATION Spec
CONSTANTS
  e1 = e1
  e2 = e2
  e3 = e3
  e4 = e4
  e5 = e5
  Entries = {e1, e2, e3, e4, e5}
  Keys <- MCKeys
  KeyOf <- MCKeyOf
  Readable <- MCReadable
  MaxEntries = 2
PROPERTIES
  RestartKeepsAll
