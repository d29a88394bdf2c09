\* Two messages over a stream, cut anywhere, or three datagrams.
CONSTANTS
    Streams <- MCStreams
    Datagrams <- MCDatagrams
    MaxDatagrams = 3
    ChanSize = 1
SPECIFICATION Spec
INVARIANTS BufferSound
PROPERTIES  LengthsAreFifo  StopEnds
CHECK_DEADLOCK FALSE
