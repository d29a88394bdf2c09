\* One TCP connection, its handler and the release of the pool.
SPECIFICATION Spec
CONSTANTS
  Conns = {c1}
  Keys = {k1}
  NoConn = NoConn
  Expires = TRUE
PROPERTY ReleaseCompletes
CHECK_DEADLOCK FALSE
