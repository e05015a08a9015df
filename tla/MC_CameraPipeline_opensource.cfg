CONSTANTS
  p1 = p1
  d1 = d1
  d2 = d2
  Dispatcher = Dispatcher
  Instances <- MCInstances
  Configured <- MCConfigured
  RetryLimit <- MCRetryLimit
SPECIFICATION Spec
PROPERTIES
  StartsOnlyWithOpenSource
