---------------------------- MODULE MCCfbLayout ----------------------------
(***************************************************************************)
(* Small geometries for CfbLayout; the configurations give the sizes.      *)
(***************************************************************************)
EXTENDS CfbRoundTrip
=============================================================================
