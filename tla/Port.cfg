SPECIFICATION Spec
CONSTANTS
  a = a
  b = b
  none = none
  Clients <- MCClients
  Sizes <- MCSizes
  None = none
  Capacity = 2
  MaxWaiting = 3
INVARIANT TypeOK
PROPERTY ImplementsDelivery
