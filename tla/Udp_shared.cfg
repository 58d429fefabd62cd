SPECIFICATION Spec
CONSTANTS
  a = a
  b = b
  c = c
  left = left
  right = right
  Objs = {a, b, c}
  Ips = {left, right}
  IpOf <- MCIpOf
  MaxPackets = 2
  QueueCap = 2
  MaxErrors = 1
  AppCalls = {"shutdown"}
  Throws = FALSE
INVARIANTS
  TypeOK
  NoCallbackAfterUnsubscribe
  RunningMeansReceiving
PROPERTIES
  RouterSpec
CHECK_DEADLOCK FALSE
