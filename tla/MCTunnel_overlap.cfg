SPECIFICATION FairSpec
CONSTANTS
  c1 = c1
  c2 = c2
  x1 = x1
  x2 = x2
  s1 = s1
  s2 = s2
  Conns = {c1, c2}
  Ctxs = {x1, x2}
  Sessions = {s1, s2}
  None = None
  RetryTimes = 2
  MaxNotifies = 2
  MaxMsgs = 2
INVARIANTS TypeOK OneConnection ClosedIsNoticed ShellNeedsTunnel
PROPERTIES HandlersEnd
CHECK_DEADLOCK FALSE
