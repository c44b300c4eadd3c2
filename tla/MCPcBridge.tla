----------------------------- MODULE MCPcBridge -----------------------------
(* Two browsers, two sessions.  The FUSE loop is a single thread; a second    *)
(* caller exercises the queueing in Call().                                   *)
EXTENDS PcBridge
CONSTANTS fuse, c2, b1, b2
TwoCallers == {fuse, c2}
TwoBrowsers == {b1, b2}
=============================================================================
