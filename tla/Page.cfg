SPECIFICATION FairSpec
CONSTANTS
  MaxSessions = 3
  MaxVersions = 2
  MaxClicks = 3
INVARIANTS OneSession EdgesNotOlder WaitingHasRequest
PROPERTIES LoadingEnds TooltipFills
