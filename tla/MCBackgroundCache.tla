------------------------- MODULE MCBackgroundCache -------------------------
(* Small instances of BackgroundCache for TLC. *)
EXTENDS BackgroundCache

CONSTANTS f1, f2, c1, c2

TwoFetches == {f1, f2}
TwoCallers == {c1, c2}
=============================================================================
