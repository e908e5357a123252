--------------------------- MODULE MCBlockTracker ---------------------------
(* Two chains; which of them can be tracked is chosen initially.             *)
EXTENDS BlockTracker
CONSTANTS c1, c2
=============================================================================
