\* Two loops, two deliveries in one claim, two attempts, one fault.
CONSTANTS
  Processes = {p1, p2}
  MaxDelivery = 2
  MaxPerClaim = 2
  MaxAttempts = 2
  MaxFaults = 1
SPECIFICATION FairSpec
INVARIANTS
  TypeOK
  SendsBounded
PROPERTIES
  SecondSendHasCause
  EveryDeliverySettles
CHECK_DEADLOCK FALSE
