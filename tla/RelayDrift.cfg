CONSTANTS
  Conns = {c1, c2}
  Tokens = {t1}
  Addrs = {a1}
  MaxDevices = 1
  MaxAddresses = 2
  QueueCap = 1
  NoConn = NoConn
  NoToken = NoToken
  NoReg = NoReg
  TickTask = TickTask
  Notifier = Notifier
SPECIFICATION Spec
INVARIANT RoutedIsSearched
