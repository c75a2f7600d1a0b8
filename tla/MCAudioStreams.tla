--------------------------- MODULE MCAudioStreams ---------------------------
(* A small instance of AudioStreams for TLC: its constants are numbers.    *)
EXTENDS AudioStreams
=============================================================================
