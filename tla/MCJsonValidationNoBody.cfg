SPECIFICATION Spec
CONSTANTS
  id = id
  token = token
  Key = {id, token}
  NoKey = NoKey
  MaxParts = 2
INVARIANT PayloadRequired
CHECK_DEADLOCK FALSE
