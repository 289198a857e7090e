--------------------------- MODULE MCRegistration ---------------------------
(***************************************************************************)
(* Registration with two install locations: the DLL may be registered      *)
(* again from elsewhere over an old or half-made registration.             *)
(***************************************************************************)
EXTENDS Registration
=============================================================================
