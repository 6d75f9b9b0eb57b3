------------------------------- MODULE MCPool -------------------------------
(* Small instances of Pool for TLC; the constants are in the .cfg files.    *)
EXTENDS Pool
=============================================================================
