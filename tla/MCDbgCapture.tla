--------------------------- MODULE MCDbgCapture ---------------------------
(***************************************************************************)
(* DbgCapture with the two channels of the source.  Two programs print on  *)
(* channel 2 (one of them a message that fills the cache), one on channel  *)
(* 1, and LogView itself prints too.                                       *)
(***************************************************************************)
EXTENDS DbgCapture, TLC

CONSTANTS a, b, d, own

MCMsg == {a, b, d, own}
MCSession == (a :> 1) @@ (b :> 2) @@ (d :> 2) @@ (own :> 2)
MCOwner == (a :> 1) @@ (b :> 2) @@ (d :> 3) @@ (own :> 9)
MCTextLen == (a :> 1) @@ (b :> 2) @@ (d :> 1) @@ (own :> 1) @@ (None :> 0)

=============================================================================
