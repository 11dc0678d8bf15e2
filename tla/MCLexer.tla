------------------------------ MODULE MCLexer ------------------------------
(***************************************************************************)
(* Standard input for the model checker: the characters that the lexer     *)
(* tells apart, in any order.                                              *)
(***************************************************************************)
EXTENDS AkwLexer

SomeLetters == {"E", "a", "e", "f", "i", "l", "n", "o", "r", "s", "t", "u"}

SomePieces ==
  {<<c>> : c \in {"0", "1", ".", "e", "-", "\"", " ", "\n", "?", NUL}}
  \union {<<"n", "i", "l">>, <<"1", ".", "1">>}

SomeGarbage == {"1", "\""}

=============================================================================
