------------------------------ MODULE MCErrorChains ------------------------------
(* Errors of one class pass for each other; 0 is the class of all others. *)
EXTENDS ErrorChains

MCClasses == {0, 1}
===============================================================================
