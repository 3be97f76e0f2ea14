SPECIFICATION FairSpec
CONSTANTS
  Policies = {"NONE", "PREFERRED", "FORCED"}
  Foreigners <- MCForeigners
  ForeignMedia <- MCForeignMedia
  NoSdp = NoSdp
INVARIANTS ForcedIsEncrypted KeysBelongTogether EndsAgree TalkTogether
PROPERTY EndsTogether
CHECK_DEADLOCK FALSE
