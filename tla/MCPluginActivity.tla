------------------------- MODULE MCPluginActivity -------------------------
(* Two plugins that may both be active, on a storage or on none.            *)
EXTENDS PluginActivity

CONSTANTS p1, p2, t1, t2, none, data

TwoPlugins == {p1, p2}
TwoThreads == {t1, t2}
TwoStorages == {none, data}
NoneOnly == {none}
===========================================================================
