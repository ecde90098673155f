SPECIFICATION SessionSpec
CONSTANTS
  ha = ha
  hb = hb
  sa = sa
  CertDevices <- MCDevices
  SessionKind <- MCKind
  KEYS = 7
  CertFaults <- NoFaults
INVARIANT SignatureIsOfTheData
