SPECIFICATION FairSpec
CONSTANTS
  KeyFile = {"id_work", "id_ed25519", "id_ecdsa", "id_rsa"}
  Default <- MCDefault
  HostName <- MCHostName
  HostKey <- MCHostKey
  Disks <- MCDisks
  Records <- MCRecords
  Configs <- MCConfigs
  Messages <- MCMessages
  MaxAttempts = 2
CHECK_DEADLOCK FALSE
INVARIANTS
  TypeOK
  TrustedServer
  ExplicitKeyIsFinal
  PasswordComesLast
  AcceptedMeansLast
  HonestReason
  DiscoveryAgrees
  OutputAgrees
PROPERTY AttemptEnds
