SPECIFICATION Spec
CONSTANTS
  a = a
  b = b
  c = c
  left = left
  right = right
  Objs = {a, b}
  Ips = {left, right}
  IpOf <- MCIpOf
  MaxPackets = 1
  QueueCap = 1
  MaxErrors = 0
  AppCalls = {"shutdown"}
  Throws = FALSE
INVARIANTS
  LiveMeansServed
CHECK_DEADLOCK FALSE
