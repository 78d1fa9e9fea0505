SPECIFICATION CastSpec
CONSTANTS
  Names = {"eth0", "eth1"}
  Inet = {"eth0", "eth1"}
  Inet6 = {"eth0"}
  GroupIds = {1}
  MaxSockets = 2
INVARIANT OperatesUnderItsInterface
CHECK_DEADLOCK FALSE
