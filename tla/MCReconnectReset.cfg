CONSTANTS
  First <- MCFirst
  Max <- MCMax
  Healthy <- MCHealthy
  MaxTicks <- MCMaxTicks
SPECIFICATION Spec
PROPERTIES
  ResetOnlyWhenHealthy
