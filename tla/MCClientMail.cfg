SPECIFICATION FairSpec
CONSTANTS
  Senders <- MCSenders
  Receiver = "bo"
  Commands <- MCCommands
  Configs <- MCConfigs
  RequireEncrypted = FALSE
  MaxKeys = 2
  MaxChanges = 5
INVARIANTS ClearByAgreement RefusalHasACause
PROPERTY AgreedMailIsRead
CHECK_DEADLOCK FALSE
