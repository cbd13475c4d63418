SPECIFICATION Spec
CONSTANTS
  o1 = o1
  o2 = o2
  a1 = a1
  a2 = a2
  add = add
  add2 = add2
  get = get
  search = search
  update = update
  process = process
  Nil = Nil
  RPC <- BatchCalls
  Kind <- KindOf
  OrderId = {o1, o2}
  Address = {a1, a2}
  BatchSize = 2
  MaxMsgs = 5
  MaxHits = 0
INVARIANT OrdersConserved
INVARIANT BatchBoundaries
PROPERTY ImplementsDelivery
CHECK_DEADLOCK FALSE
SYMMETRY Symmetry
