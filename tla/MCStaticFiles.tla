---------------------------- MODULE MCStaticFiles ----------------------------
(* Files for checking StaticFiles with TLC: an empty one, one of exactly   *)
(* two blocks, one of a block and some bytes.                              *)
EXTENDS StaticFiles, TLC

CONSTANTS empty, even, odd

MCFull == empty :> 0 @@ even :> 2 @@ odd :> 1
MCRest == empty :> FALSE @@ even :> FALSE @@ odd :> TRUE
==============================================================================
