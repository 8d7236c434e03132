CONSTANTS
  Conns = {c1, c2}
  Tokens = {t1, t2}
  Addrs = {a1, a2}
  MaxDevices = 1
  MaxAddresses = 2
  QueueCap = 2
  NoConn = NoConn
  NoToken = NoToken
  NoReg = NoReg
  TickTask = TickTask
  Notifier = Notifier
SPECIFICATION Spec
SYMMETRY Symmetry
INVARIANT TypeOK
INVARIANT NoGhostDevice
INVARIANT OneCurrentConnection
INVARIANT DeviceCap
INVARIANT OwnNoticesOnly
PROPERTY RoutingSpec
