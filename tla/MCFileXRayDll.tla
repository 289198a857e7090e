---------------------------- MODULE MCFileXRayDll ----------------------------
(***************************************************************************)
(* The composition with two addresses and two pages: enough for a factory, *)
(* an extension, two sheets describing at once, unload and reload.         *)
(***************************************************************************)
EXTENDS FileXRayDll
=============================================================================
