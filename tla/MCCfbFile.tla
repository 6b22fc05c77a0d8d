----------------------------- MODULE MCCfbFile -----------------------------
(***************************************************************************)
(* Files of two and three streams, side by side and one below a storage,   *)
(* of sizes at and around those of the sectors and the cutoff.             *)
(***************************************************************************)
EXTENDS CfbFile

MCUpcase == (65 :> 65) @@ (66 :> 66)
A == << 65 >>
B == << 66 >>
C == << 65, 66 >>

MCListings ==
  {(<< A >> :> s[1]) @@ (<< B >> :> s[2]) : s \in {<< 0, 7 >>, << 6, 3 >>, << 2, 5 >>, << 11, 11 >>}}
    \cup {(<< A, B >> :> s[1]) @@ (<< B >> :> s[2]) : s \in {<< 3, 6 >>, << 11, 1 >>}}
    \cup {(<< A >> :> 1) @@ (<< B >> :> 6) @@ (<< C >> :> 3)}
=============================================================================
