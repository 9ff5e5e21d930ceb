---------------------------- MODULE MCVibrations ----------------------------
(* Small instances of Vibrations for TLC. *)
EXTENDS Vibrations

OneEach == {{"peer"}, {"runner"}, {"await"}}
OnlyRunner == {{"runner"}}
=============================================================================
