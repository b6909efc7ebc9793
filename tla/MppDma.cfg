CONSTANTS
  f1 = f1 f2 = f2 f3 = f3 f4 = f4 da = da db = db dc = dc
  Clients = {p1, p2}
  Fds = {f1, f2, f3}
  Dmabufs = {da, db}
  DmabufOf <- DupAndOther
  Tasks = {t1}
  NSlots = 2
  MaxBuffers = 1
  MemNum = 2
  MaxAttach = 2
  MaxTrans = 1
  Null = Null
SPECIFICATION Spec
SYMMETRY Symmetry
CHECK_DEADLOCK FALSE
INVARIANTS TypeOK PoolConsistent MappedOnce RefsAccount HeldStaysMapped
