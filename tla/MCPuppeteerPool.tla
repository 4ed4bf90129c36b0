--------------------------- MODULE MCPuppeteerPool ---------------------------
(***************************************************************************)
(* Three callers on two slots, one of them a CV renderer.                   *)
(***************************************************************************)
EXTENDS PuppeteerPool, TLC
CONSTANTS t1, t2, t3
=============================================================================
