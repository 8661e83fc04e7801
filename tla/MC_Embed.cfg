CONSTANTS
  Bytes <- MCBytes
  MaxData <- MCMaxData
  MinData = 1
SPECIFICATION FairSpec
INVARIANT TypeOK
INVARIANT EscapesSpellInput
INVARIANT LinesWithin80
PROPERTY EmbedRefinesAbstract
CHECK_DEADLOCK FALSE
