SPECIFICATION RSpec
CONSTANTS
  plain = plain fifo = fifo ret = ret vis = vis type = type
  low = low high = high bad = bad l1 = l1 l2 = l2 t1 = t1 t2 = t2 p1 = p1 p2 = p2
  Names = {fifo}
  FifoNames = {fifo}
  Keys = {ret, vis}
  Retention = ret
  Values = {low, high, bad}
  BadValues = {bad}
  Default = low
  FifoKey = type
  Labels = {l1}
  TagKeys = {t1}
  Creates <- TypedCreates
  Patches <- SinglePatches
  Procs = {p1}
  CreatePropagation = 1
  DeleteCooldown = 2
  PurgeCooldown = 2
  AttributePropagation = 1
  RetentionPropagation = 2
  Second = 1
  MaxClock = 5
  MaxRows = 2
  MaxPatches = 2
INVARIANTS RegistryTypeOK RowsValid AttributesConverge PurgesSpaced DeletedStaysBlocked
