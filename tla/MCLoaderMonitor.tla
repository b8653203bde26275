--------------------------- MODULE MCLoaderMonitor ---------------------------
(* An instance of LoaderMonitor for TLC: beside the main thread and the        *)
(* observer, one thread loads libraries and calls for hosts.                   *)
EXTENDS LoaderMonitor
=============================================================================
