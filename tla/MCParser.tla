------------------------------ MODULE MCParser ------------------------------
(***************************************************************************)
(* Model-checking instance of Parser: the messages a peer may send.        *)
(***************************************************************************)
EXTENDS Parser

EndOfLine == <<"CR", "LF">>
Start     == <<"S", "CR", "LF">>

Plain    == Start \o <<"L1", "CR", "LF">> \o EndOfLine \o <<"X">>
Folded   == Start \o <<"L0", "CR", "LF", "H", "CR", "LF", "W", "CR", "LF">> \o EndOfLine
NoLength == Start \o EndOfLine \o <<"X", "CR", "LF">>
Doubled  == Start \o <<"L0", "CR", "LF", "L1", "CR", "LF">> \o EndOfLine
BadStart == <<"X", "CR", "LF">>
Short    == Start \o <<"L2", "CR", "LF", "H", "CR", "LF">> \o EndOfLine \o <<"X">>

Frames == {Plain, Folded, NoLength, Doubled, BadStart, Short}
MCStreams == {f \o g : f, g \in Frames}

KeepAlive   == EndOfLine \o EndOfLine
Unended     == Start
StrayCR     == <<"S", "CR", "CR", "LF">> \o EndOfLine
MCDatagrams == {Plain, Short, BadStart \o EndOfLine \o <<"X">>, KeepAlive, Unended, StrayCR}

\* NextLine as its loop goes: up to the next CR, then one more byte.
ScanLine(b) ==
    LET from[i \in 1 .. Len(b) + 2] ==
          IF i >= Len(b) THEN 0
          ELSE IF b[i] # CR THEN from[i + 1]
          ELSE IF b[i + 1] = LF THEN i + 1
          ELSE from[i + 2]
    IN from[1]

\* LineEnd is what the loop finds, whatever CR and LF stand where.
ASSUME LineEndIsScan == \A b \in SeqOf({CR, LF, "X"}, 7) : LineEnd(b) = ScanLine(b)

=============================================================================
