CONSTANTS
  Headings = 3
  Heights = {0, 1, 2}
SPECIFICATION Spec
INVARIANTS TypeOK TrackAgreesWithTrigger FetchedOnce CheckedIsCopied
PROPERTIES DotStays PositionsCatchUp LoadingEnds
