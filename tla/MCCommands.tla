------------------------------- MODULE MCCommands ------------------------------
(***************************************************************************)
(* A small instance of Commands: two passphrases, so that the user can     *)
(* mistype, every way to configure the source and every command.           *)
(***************************************************************************)
EXTENDS Commands

CONSTANTS a, b

===============================================================================
