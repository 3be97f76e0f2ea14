SPECIFICATION ImpatientSpec
CONSTANTS
  Policies = {"NONE", "PREFERRED", "FORCED"}
  Foreigners <- MCForeigners
  ForeignMedia <- MCNoCodec
  NoSdp = NoSdp
PROPERTY RefusedEnds
CHECK_DEADLOCK FALSE
