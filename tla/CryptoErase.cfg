SPECIFICATION CryptoSpec
CONSTANTS
  n1 = n1
  s1 = s1
  e1 = e1
  u1 = u1
  CryptoDevices <- MCDevices
  CryptoKind <- MCKind
  CryptoFaults <- AllFaults
INVARIANT
  CryptoTypeOK
PROPERTIES
  PasswordsHandled
  VerdictIsTrue
