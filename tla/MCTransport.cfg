\* Two calls of Listen, one of which may be for TCP, and two TCP connections
\* from one address.
SPECIFICATION Spec
CONSTANTS
  Listens = {l1, l2}
  TcpListens = {l1}
  Conns = {c1, c2}
  Peers = {a1}
  None = None
 
INVARIANT AcceptedServed
PROPERTY ImplementsLayer
 
CHECK_DEADLOCK FALSE
