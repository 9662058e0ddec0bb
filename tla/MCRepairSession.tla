-------------------------- MODULE MCRepairSession --------------------------
(***************************************************************************)
(* An instance of RepairSession: texts of an API with some of its words,   *)
(* of a login and of a calculator.                                         *)
(***************************************************************************)
EXTENDS RepairSession

MCTexts ==
    SUBSET {"HTTP", "NET", "GET", "READ", "route"}
        \cup SUBSET {"main", "validar_credenciales", "login"}
        \cup {{"main", "sumar"}, {"Server", "Routes", "POST", "x"}}
=============================================================================
