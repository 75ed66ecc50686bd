SPECIFICATION FairSocketSpec
CONSTANTS
  Goals = {g1, g2, g3}
  Contents <- MCContents
  Texts <- MCTexts
  MaxContentParts = 2
  MaxTextCharacters = 2
  MaxJpegBytes = 2
  MaxTotalJpegBytes = 3
INVARIANTS
  OneRequestAtATime
  WholeAnswersOnly
PROPERTIES
  AcceptedGoalsEnd
CHECK_DEADLOCK FALSE
