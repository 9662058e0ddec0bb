------------------------ MODULE MCConstructorCycle ------------------------
(***************************************************************************)
(* A small instance of ConstructorCycle: requests of every plan and shape, *)
(* and limits on both sides of MAX_ITERATIONS.                             *)
(***************************************************************************)
EXTENDS ConstructorCycle

MCWords == {{"rest"}, {"calculadora", "login"}, {"login"}, {}}
=============================================================================
