------------------------------ MODULE MCUpdates ------------------------------
(* A newer release with a smaller last component than the one installed,   *)
(* and an older one with a larger.                                         *)
EXTENDS Updates

MCInstalled == <<0, 7, 12>>
MCReleases  == {<<0, 8, 0>>, <<0, 6, 20>>}
=============================================================================
