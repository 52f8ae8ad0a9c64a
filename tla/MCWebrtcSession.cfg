CONSTANTS
  c1 = c1
  c2 = c2
  Clients = {c1, c2}
  Talkers = {c1}
  MaxPackets = 1
  MaxFaults = 1
  None = None
SPECIFICATION Spec
CHECK_DEADLOCK FALSE
INVARIANTS
  CredentialsOfOneOffer
  EndsOnlyByRepetition
  OneVoice
  RelayedIntact
PROPERTIES
  SessionsEstablished
