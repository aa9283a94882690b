SPECIFICATION Spec
CONSTANTS
  Ids = {"bill", "port", "ship"}
  Nodes = {"bill", "port", "ship"}
  Imported <- MCImported
  Paths = {"bill.arch", "port.src", "ship.arch"}
  ArchPaths = {"bill.arch", "ship.arch"}
  IdAt <- MCIdAt
  Kinds <- MCKinds
  Slots = {"{x}", "{y}"}
  Broken = {"{"}
  TypeNames = {"line"}
  None = None
  SlotPool <- MCSlotPool
  OpPool <- MCOpPool
  Namespaces <- MCNamespaces
  SchemaPool <- MCSchemaPool
  MaxItems = 3
INVARIANTS CleanModelsAreWired HealthAgreesWithFindings CyclesAreFound
