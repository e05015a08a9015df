CONSTANTS
  Behaviours <- MCBehavioursHandled
  MaxSends <- MCMaxSends
SPECIFICATION Spec
PROPERTIES SendReqReturns StopObserved
\* HttpClient::Run ends after a Stop(): the thread really stops.
CHECK_DEADLOCK FALSE
