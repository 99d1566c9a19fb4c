CONSTANTS
  Handlers = {h1, h2}
  Tables = {"a"}
  MaxUses = 2
SPECIFICATION RegistrySpec
INVARIANT OnePoolPerTable
CHECK_DEADLOCK FALSE
