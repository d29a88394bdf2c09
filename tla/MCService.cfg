\* A service with start and a caller of Close, one request whose handler or callback
\* sends something, and two TCP connections with one address.
SPECIFICATION Spec
CONSTANTS
  Sends = {s1}
  Conns = {c1, c2}
  Ports = {p5060, p5070}
  DefaultPort = p5060
  Peers = {a1}
  Closers = {k1}
  None = None
INVARIANT ServiceSound
 
PROPERTY HandlersWaited
 
CHECK_DEADLOCK FALSE
