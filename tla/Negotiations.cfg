SPECIFICATION FairSpec
CONSTANTS
  Offers = {o1, o2}
  Requests = {q1, q2}
  MaxOpenOffers = 1
  None = None
INVARIANTS DealHasOffer PostedOnce
PROPERTIES DecidedOnce NothingHangs
CHECK_DEADLOCK FALSE
