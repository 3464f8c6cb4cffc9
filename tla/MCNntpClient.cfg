SPECIFICATION Spec
CONSTANTS
  soup = soup
  Groups = {soup}
  NoGroup = NoGroup
  Articles = {1, 2}
  Settings <- MCSettings
  Hosts <- MCHosts
  MaxCalls = 3
  MaxFaults = 2
CHECK_DEADLOCK FALSE
INVARIANTS
  RepliesInStep
  SessionAgrees
  CredentialsUnderTls
PROPERTY CallsReturn
