SPECIFICATION FairSpec
CONSTANTS
  a = a
  b = b
  c = c
  left = left
  right = right
  Objs = {a, b}
  Ips = {left, right}
  IpOf <- MCIpOf
  MaxPackets = 2
  QueueCap = 2
  MaxErrors = 1
  AppCalls = {"shutdown", "delete"}
  Throws = TRUE
PROPERTIES
  QueuedIsDelivered
  ShutdownReturns
CHECK_DEADLOCK FALSE
