SPECIFICATION Spec
CONSTANTS
  Rtmp = {r1, r2}
  Flv  = {f1}
  Srt  = {s1}
  Keys = {k1, k2}
  None = None
SYMMETRY Symmetry
INVARIANTS
  
  HeadersGateDelivery
  SubscribersServed
  
PROPERTIES
  RegistrationEndsWithAPublisher
