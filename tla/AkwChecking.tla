----------------------------- MODULE AkwChecking -----------------------------
(***************************************************************************)
(* The two modes of the compiler side by side.  With                       *)
(* AKW_COMPILER_FLAG_CHECK_ONLY it parses and checks and emits nothing:    *)
(* three functions of src/compiler.c return early where the flag is set,   *)
(* and the two emit macros do nothing; what is skipped must not be needed  *)
(* by a check.  Forgetting the chunk maps the compiler to the checker.     *)
(***************************************************************************)
EXTENDS AkwCompiler

Checking ==
  INSTANCE AkwCompiler
  WITH CheckOnly <- TRUE, code <- <<>>, consts <- <<>>, heap <- <<>>

\* Compiling is checking and emitting: at every step the compiler reads the same
\* token, makes the same calls, defines the same variables and reports the same
\* error as it does with the flag set.  Only a chunk that is full can stop it
\* where a check goes on.
ChecksAlike ==
  Checking!CompilerInit /\ [][rc' = "Range" \/ Checking!CompilerNext]_compilerVars

=============================================================================
