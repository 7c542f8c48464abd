CONSTANTS
  First <- MCFirst
  Max <- MCMax
  Healthy <- MCHealthy
  MaxTicks <- MCMaxTicks
SPECIFICATION Spec
INVARIANTS
  TypeOK
  HealthyResets
PROPERTIES
  ShortSessionsBackOff
