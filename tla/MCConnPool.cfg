\* Two TCP connections put under one key, every interleaving.
SPECIFICATION Spec
CONSTANTS
  Conns = {c1, c2}
  Keys = {k1}
  NoConn = NoConn
  Expires = TRUE
SYMMETRY Symmetry
INVARIANT HandlersSound
INVARIANT ClosedAfterHandlers
 
CHECK_DEADLOCK FALSE
