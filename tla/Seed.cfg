\* Two windows, and one failure or other event.
SPECIFICATION FairSpec
CONSTANTS
  MaxWindow = 3
  MaxSent = 1
  MaxEvents = 1
  CronTries = 2
INVARIANTS
  OfferIsCurrent
PROPERTIES
  OfferCatchesUp
CHECK_DEADLOCK FALSE
