----------------------------- MODULE MCCompiler -----------------------------
(***************************************************************************)
(* Source texts for the model checker: sets of fragments that the cfg      *)
(* files choose from.  The sets of single tokens produce every text up to  *)
(* the bound, well-formed or not; the sets of statements reach deep into   *)
(* nested blocks.                                                          *)
(***************************************************************************)
EXTENDS AkwScopes, AkwChecking

OneByOne(tokens) == {<<t>> : t \in tokens}

T(kind) == Token(kind)
x == NameToken("x")
y == NameToken("y")
Whole == [kind |-> "WholeNumber", text |-> "", num |-> 1]
z == NameToken("z")

\* Every kind of operand and operator, in any order.
ExpressionTokens ==
  OneByOne({T("Int"), T("String"), T("Minus"), T("Star"), T("DotDot"), T("LBracket"), T("RBracket"),
            T("Comma"), T("LParen"), T("RParen"), x, T("Error")})
  \union {<<T("LetKw"), x, T("Semicolon")>>, <<T("Amp"), x>>}

\* Every token a statement at the top level turns on.
StatementTokens ==
  OneByOne({T("Int"), T("Number"), Whole, T("NilKw"), T("Semicolon"), T("Eq"), T("Plus"), T("ReturnKw"),
            T("Amp"), T("InoutKw"), T("LetKw"), x, y})
  \union {<<T("LetKw"), x, T("Semicolon")>>, <<x, T("LBracket"), T("Int"), T("RBracket")>>}

Let(name) == <<T("LetKw"), name, T("Semicolon")>>
Inout(name, to) == <<T("InoutKw"), name, T("Eq"), T("Amp"), to, T("Semicolon")>>
Assign(name, from) == <<name, T("Eq"), from, T("Semicolon")>>

\* Statements between braces that open and close in any order; with small
\* limits they also use up variables, constants and code.
BlockFragments ==
  OneByOne({T("LBrace"), T("RBrace")})
  \union {Let(x), Let(y), Inout(y, x), Assign(x, T("TrueKw")),
          <<T("String"), T("Semicolon")>>, <<IntToken(99), T("Semicolon")>>}

=============================================================================
