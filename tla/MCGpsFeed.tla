----------------------------- MODULE MCGpsFeed -----------------------------
EXTENDS GpsFeed

\* A sentence of length 1 fits into a read of the serial port with its end, though
\* two reads may share it: one without a fix.  Those of length 2 do not fit; the long one has no end for a while,
\* as binary data would.
SomeSentences ==
    {[kind |-> "GGA", len |-> 1, good |-> g] : g \in BOOLEAN}
      \cup {[kind |-> k, len |-> 2, good |-> TRUE] : k \in {"GGA", "RMC"}}
      \cup {[kind |-> "void RMC", len |-> 1, good |-> TRUE],
            [kind |-> "other", len |-> 5, good |-> TRUE]}
=============================================================================
