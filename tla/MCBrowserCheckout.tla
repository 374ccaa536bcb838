-------------------------- MODULE MCBrowserCheckout --------------------------
(***************************************************************************)
(* BrowserCheckout for TLC.  Tabs, calls and products are interchangeable. *)
(***************************************************************************)
EXTENDS BrowserCheckout, TLC

Symmetry ==
    Permutations(Tabs) \cup Permutations(Calls) \cup Permutations(Products)
=============================================================================
