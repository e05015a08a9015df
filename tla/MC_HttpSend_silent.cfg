CONSTANTS
  Behaviours <- MCBehavioursAll
  MaxSends <- MCMaxSends
SPECIFICATION Spec
PROPERTIES SendReqReturns
\* HttpClient::Run ends after a Stop(): the thread really stops.
CHECK_DEADLOCK FALSE
