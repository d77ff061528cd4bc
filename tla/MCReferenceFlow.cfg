SPECIFICATION MCSpec
CONSTANTS
  Texts = {"text", "name"}
  None = None
  Required = Required
  Absent = Absent
  Key = Key
  MaxEdits = 2
INVARIANTS
  TypeOK
  PassedIsConformant
  ConformantPasses
  ReceiverHasTheChain
  ReceiverConstructs
  ConstructedIsPublishable
  ArrivesAsSent
CHECK_DEADLOCK FALSE
