----------------------------- MODULE MCBrowserIdle -----------------------------
(* TLC instances of BrowserIdle.                                           *)
EXTENDS BrowserIdle
=============================================================================
