SPECIFICATION FairSpec
CONSTANTS
  deal = deal
  mark1 = mark1
  mark2 = mark2
  Proposals = {deal, mark1, mark2}
  Consented = {deal, mark1, mark2}
  Workers = {w1, w2}
  Approval <- MCApproval
  Siblings <- MCSiblings
  None = None
INVARIANTS TypeOK ConsentBeforeEffect EffectAtMostOnce LedgersAgree
PROPERTIES ClosedForGood ImplementsGate EveryProposalCloses
CHECK_DEADLOCK FALSE
