----------------------------- MODULE MCDownlink -----------------------------
\* Downlink on a small instance.
EXTENDS Downlink

\* A header alone, one with a field, and with fields that fill the buffer
\* exactly, or several times over so that a part of them goes directly.
MCShapes == {<<1>>, <<1, 2>>, <<1, 7>>, <<2, 3, 2>>}
=============================================================================
