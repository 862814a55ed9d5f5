---------------------------- MODULE MCSseStream ----------------------------
EXTENDS SseStream
=============================================================================
