------------------------------ MODULE MCCommands ------------------------------
(* An instance of Commands: two servers in the room, a pool of one worker or  *)
(* two.                                                                        *)
EXTENDS Commands, TLC
=============================================================================
