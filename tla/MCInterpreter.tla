---------------------------- MODULE MCInterpreter ----------------------------
(* An instance of Interpreter: which names are given does not matter.      *)
EXTENDS Interpreter, TLC

Perms == Permutations(Names)
=============================================================================
