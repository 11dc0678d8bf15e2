------------------------------ MODULE MCArrays ------------------------------
(***************************************************************************)
(* A caller of the array library for the model checker.                    *)
(***************************************************************************)
EXTENDS AkwArrays

JustNil == {NilValue}

=============================================================================
