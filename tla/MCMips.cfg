SPECIFICATION Spec
CONSTANTS
  Texts <- MCTexts
  Argvs <- MCArgvs
  Lines <- MCLines
  Words <- MCWords
  Junk <- MCJunk
  MaxInput = 3
INVARIANTS TypeOK FlagsAsGiven OneWordPerLine InPlace RoundTrip Reassembles
CHECK_DEADLOCK FALSE
