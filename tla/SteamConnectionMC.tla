-------------------------- MODULE SteamConnectionMC --------------------------
(***************************************************************************)
(* SteamConnection for TLC: a CMsgMulti of two messages and another one;  *)
(* the logon response is any of them.                                      *)
(***************************************************************************)
EXTENDS SteamConnection

MCWire == << <<11, 12>>, <<13>> >>
=============================================================================
