--------------------------- MODULE MCBrowserPlayer ---------------------------
(* An instance of BrowserPlayer for TLC: a grid of 2 x 2.                  *)
EXTENDS BrowserPlayer, TLC
=============================================================================
