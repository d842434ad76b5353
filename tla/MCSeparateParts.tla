-------------------------- MODULE MCSeparateParts --------------------------
EXTENDS SeparateParts

Interchangeable == Permutations(Viewers) \cup Permutations(Browsers)

\* A frame to pass on, a KISS parameter, another protocol, one that is too
\* long and one without addresses.
SomeFrames ==
    {[size |-> s, proto |-> p, address |-> a] :
        s \in {7, 8, 514}, p \in {"AX25", "other"}, a \in BOOLEAN}

\* A sentence of length 1 fits into a read of the serial port with its end: one
\* without a fix.  Those of length 2 do not; the long one has no end for a while,
\* as binary data would.
SomeSentences ==
    {[kind |-> "GGA", len |-> 1, good |-> g] : g \in BOOLEAN}
      \cup {[kind |-> k, len |-> 2, good |-> TRUE] : k \in {"GGA", "RMC"}}
      \cup {[kind |-> "void RMC", len |-> 1, good |-> TRUE],
            [kind |-> "other", len |-> 5, good |-> TRUE]}

\* One station nearer than the own one, with weather and a position that moves,
\* and one that sends what leaves fields alone.
CONSTANTS near, other
Report(s, k, c, v, d) == [name |-> s, kind |-> k, comment |-> c, speed |-> v, dist |-> d]
SomeReports ==
    {Report(MyCall, "weather", FALSE, "none", d) : d \in {0, 2}}
      \cup {Report(near, "weather", TRUE, "none", d) : d \in {0, 1}}
      \cup {Report(near, "position", FALSE, "some", 0),
            Report(near, "telemetry", FALSE, "none", 0)}
      \cup {Report(other, k, TRUE, "none", 0) : k \in {"lame PHG", "message", "position"}}

APath == <<"WIDE">>
SomeBeacons ==
    {[path |-> <<"TEMP">>, body |-> <<":", "to", ":", "text">>],
     [path |-> <<"TEMP", "TEMP">>, body |-> <<"text", ":", "more">>],
     [path |-> <<"WIDE", "TEMP">>, body |-> <<"text">>]}

\* Every kind of frame, of numbers the least, the greatest and one between, and
\* up to two digipeaters of which any number has repeated.
Call(c, n) == [call |-> c, ssid |-> n]
Controls(extseq) ==
    LET n == IF extseq THEN {0, 64, 127} ELSE {0, 4, 7}
    IN  [type : {"I"}, ns : n, nr : n, code : {0}]
          \cup [type : {"S"}, ns : {0}, nr : n, code : {1, 5, 9}]
          \cup [type : {"U"}, ns : {0}, nr : {0}, code : {47, 111, 67, 15, 99, 135, 3}]
SomeAxFrames ==
    UNION {[flexnet : BOOLEAN, cut : BOOLEAN, tocall : {Call("b", 0)},
            fmcall : {Call("a", 15)},
            digis : {SubSeq(<<Call("c", 1), Call("d", 2)>>, 1, n)}, repeated : 0..n,
            cmdrsp : {"command", "response", "unknown"}, extseq : {x}, dama : BOOLEAN,
            ctl : Controls(x), pf : BOOLEAN, rest : {<<>>, <<240>>, <<240, 1, 2>>}]
            : x \in BOOLEAN, n \in 0..2}
=============================================================================
