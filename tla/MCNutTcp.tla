------------------------------ MODULE MCNutTcp ------------------------------
(* Small instances of NutTcp.                                                *)
EXTENDS NutTcp
=============================================================================
