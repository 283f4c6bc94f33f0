--------------------------- MODULE MCBrowserSession ---------------------------
(* Instances of BrowserSession for TLC: requests are strings, and no symmetry *)
(* is used, as the run of the sessions checks liveness.                       *)
EXTENDS BrowserSession
=============================================================================
