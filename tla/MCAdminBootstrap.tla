--------------------------- MODULE MCAdminBootstrap ---------------------------
(***************************************************************************)
(* AdminBootstrap for TLC: two emails, an acceptable password and one that *)
(* is too short.                                                           *)
(***************************************************************************)
EXTENDS AdminBootstrap

CONSTANTS s1, s2, s3
=============================================================================
