CONSTANTS
  start = start
  good = good
  schema = schema
  garbage = garbage
  call = call
  Docs = {start, good, schema, garbage}
  First = start
  Malformed = {garbage}
  Invalid = {schema}
  Reloads = {call}
  Budget = 2
  Validators = 2
  MaxWrites = 3
  MaxLosses = 1

SPECIFICATION FairSpec
INVARIANTS
  TypeOK
  RuntimeFollows
  UpToDate
PROPERTIES
  UpdatesDecided
CHECK_DEADLOCK FALSE
