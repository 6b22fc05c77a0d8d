-------------------------- MODULE MCCfbDirectory --------------------------
(***************************************************************************)
(* Instances of CfbDirectory: names over the code units of "A", "B", "a".  *)
(***************************************************************************)
EXTENDS CfbDirectoryShape

MCUpcase == (65 :> 65) @@ (66 :> 66) @@ (97 :> 65)

\* "a" and "A" differ in case only, "a" sorts before "B" only when upcased,
\* "BA" and "AB" are longer, "BAB" does not fit.
MCNames == {<< 97 >>, << 65 >>, << 66 >>, << 66, 65 >>, << 65, 66 >>, << 66, 65, 66 >>}
=============================================================================
