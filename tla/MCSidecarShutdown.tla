------------------------- MODULE MCSidecarShutdown -------------------------
(* Instances of SidecarShutdown: tasks and calls are model values.         *)
EXTENDS SidecarShutdown
============================================================================
