----------------------------- MODULE MCReadings -----------------------------
EXTENDS Readings

\* Short network names; the longest one, with as many characters to escape as the
\* Wi-Fi message has room for, with one more, and with all of them.
MCSsids == {Plain(1), Plain(10), Plain(11), [len |-> 32, escapes |-> 3],
            [len |-> 32, escapes |-> 4], [len |-> 32, escapes |-> 160]}
==============================================================================
