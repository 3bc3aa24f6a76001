SPECIFICATION Spec
CONSTANTS
  db = db
  web = web
  preview = preview
  rows = rows
  index = index
  Files = {rows, index}
  Containers = {db, web, preview}
  Mounts <- MountsOf
  Previews = {preview}
  Hazards = {}
  MaxWrites = 2
  MaxStarts = 1
  MaxCrashes = 1
  MaxFaults = 1
INVARIANTS
  CopyIsASnapshot
  RecordsAreTrue
  NoKeyAfterRollback
CHECK_DEADLOCK FALSE
