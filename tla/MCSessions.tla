---------------------------- MODULE MCSessions ----------------------------
\* A run with safety properties only may treat calls, browsers and tokens as
\* interchangeable; this one has liveness too and does not.
EXTENDS Sessions
=============================================================================
