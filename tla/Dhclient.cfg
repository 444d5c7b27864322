SPECIFICATION Spec
CONSTANTS
  Links = {eth0, wlan0}
  Protocols = {ipv4, ipv6}
INVARIANTS TypeOK ReportsAddUp
PROPERTY Closes
CHECK_DEADLOCK FALSE
