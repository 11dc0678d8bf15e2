------------------------------ MODULE MCAkwan ------------------------------
(***************************************************************************)
(* Programs for the model checker, put together from whole statements.     *)
(***************************************************************************)
EXTENDS AkwMeaning

T(kind) == Token(kind)
x == NameToken("x")
y == NameToken("y")
z == NameToken("z")
Sign(kind) == <<T(kind)>>
Ref(name) == <<T("Amp"), name>>
Index(name, i) == <<name, T("LBracket")>> \o i \o <<T("RBracket")>>
ArrayOf(a, b) == <<T("LBracket")>> \o a \o Sign("Comma") \o b \o Sign("RBracket")

Let(name, value) == <<T("LetKw"), name, T("Eq")>> \o value \o Sign("Semicolon")
Inout(name, value) == <<T("InoutKw"), name, T("Eq")>> \o value \o Sign("Semicolon")
Assign(name, value) == <<name, T("Eq")>> \o value \o Sign("Semicolon")
Return_(value) == <<T("ReturnKw")>> \o value \o Sign("Semicolon")
Evaluate(value) == value \o Sign("Semicolon")

Operate(a, op, b) == a \o Sign(op) \o b
Num(n) == <<IntToken(n)>>
Negative(a) == Sign("Minus") \o a

\* Objects that are shared, nested, referred to, replaced and indexed, and
\* what the instructions without objects do in between.
ObjectPrograms ==
  {Let(x, Sign("String")),
   Let(y, ArrayOf(<<x>>, Ref(x))),
   Let(y, Ref(x)),
   Inout(z, Ref(x)),
   Assign(x, <<y>>),
   Assign(z, ArrayOf(<<x>>, Sign("String"))),
   Assign(x, Operate(Num(0), "DotDot", Num(2))),
   Assign(y, <<z>>),
   Evaluate(Sign("LParen") \o Index(y, Num(1)) \o Sign("RParen")),
   Return_(ArrayOf(<<x>>, Index(x, Num(0))))}

\* Every instruction on every type of operand, among them those it refuses.
Operands ==
  {Num(3), Negative(Num(2)), Sign("Number"), Sign("NilKw"), Sign("FalseKw"), Sign("TrueKw"),
   Sign("String"), <<x>>}

Signs == {"Plus", "Minus", "Star", "Slash", "Percent", "DotDot"}

ResultExprs ==
  {Operate(a, op, b) : a \in Operands, b \in Operands, op \in Signs}
  \union {Index(x, a) : a \in Operands \union {Num(1), Operate(Num(1), "Slash", Num(0))}}
  \union {Negative(a) : a \in Operands}

\* Blocks that have closed before, whose variables the compiler still counts:
\* the VM pops and reads cells that are not there.
Block(statements) == Sign("LBrace") \o statements \o Sign("RBrace")
ClosedBlocks ==
  {Block(Let(x, Sign("String"))) \o next :
     next \in {Block(Let(y, Sign("TrueKw"))), Let(y, Sign("String")) \o Return_(<<y>>),
               Let(y, Num(3)) \o Let(z, ArrayOf(<<y>>, Sign("String"))) \o Return_(<<z>>),
               Block(Return_(<<x>>)), Block(Return_(Ref(x)))}}

\* Two operators in a row, with and without brackets and signs.
Chains ==
  {Return_(Operate(Operate(Num(7), a, c), b, Num(2))) :
     a \in Signs, b \in Signs, c \in {Num(3), Negative(Num(3)), Negative(Negative(Num(3)))}}
  \union {Return_(Operate(Num(7), a, Sign("LParen") \o Operate(Num(3), b, Num(2)) \o Sign("RParen"))) :
     a \in Signs, b \in Signs}
  \union {Return_(Operate(Negative(Num(7)), a, <<Token("WholeNumber")>>)) : a \in Signs}

\* Variables and references read and written in the block that declares them,
\* and what is left when it has closed.
Inner == Let(y, Sign("String")) \o Inout(z, Ref(y)) \o Assign(z, ArrayOf(<<z>>, Ref(z)))
Nested ==
  {Let(x, Num(3)) \o Block(Inner \o next) :
     next \in {Return_(<<y>>), Return_(Index(y, Num(1))), Return_(ArrayOf(<<z>>, <<y>>)),
               Block(Let(x, Sign("NilKw")) \o Return_(<<x>>)) \o Return_(<<z>>),
               Assign(y, Operate(Index(z, Num(0)), "Plus", Num(1))), Assign(y, Sign("TrueKw"))}}
  \union {Let(x, Num(3)) \o Block(Inner) \o Assign(x, ArrayOf(<<x>>, Sign("LBracket") \o Sign("RBracket")))
             \o Return_(next) : next \in {<<x>>, Index(x, Num(1)), Index(x, Num(2))}}

\* Rows that fill the stack, or do not, up to a last element that is pushed or
\* is an empty array.
Filling ==
  {Let(x, Sign("String")) \o Return_(Sign("LBracket") \o elems \o last \o Sign("RBracket")) :
     elems \in {FlattenSeq([i \in 1..n |-> <<x, T("Comma")>>]) : n \in 2..5},
     last \in {<<x>>, Sign("LBracket") \o Sign("RBracket")}}

\* Blocks whose variables refer to each other, and attempts to carry a reference
\* out of its block, directly, in an array and through an inout.
Outer == Let(x, Num(3)) \o Inout(z, Ref(x))
Escaping ==
  {Outer \o Block(Let(y, Sign("String")) \o carry) \o Return_(<<x>>) :
     carry \in {Assign(x, Ref(y)), Assign(x, ArrayOf(Num(1), Ref(y))), Assign(z, Ref(y))}}
  \union {Outer \o Block(Let(y, Sign("String")) \o Let(x, Ref(y)) \o inner) \o Return_(ArrayOf(<<x>>, <<z>>)) :
            inner \in {Assign(y, Ref(x)), Assign(y, ArrayOf(Ref(x), Ref(y))), Evaluate(Ref(y)),
                       Inout(z, Ref(x)) \o Assign(z, Ref(z)), Return_(ArrayOf(Ref(x), <<x>>))}}

\* Inout variables that are given an integer, and what is done with them.
IntegerInouts ==
  {given \o next :
     given \in {Inout(z, Num(1)),
                Let(x, Sign("String")) \o Inout(y, Ref(x))
                  \o Inout(z, Sign("LParen") \o Num(1) \o Sign("RParen"))},
     next \in {Assign(z, Sign("TrueKw")), Return_(<<z>>), Return_(Ref(z)), Return_(Num(2)),
               Return_(Operate(Ref(z), "DotDot", Num(3)))}}
  \union {Inout(y, Num(0)) \o Inout(z, Ref(y)) \o next :
            next \in {Assign(z, Num(2)), Return_(<<z>>), Return_(Ref(z))}}

\* The quotient of two integers, exact or not.
Quotients == {Return_(Operate(Num(a), "Slash", Num(b))) : a \in {6, 10}, b \in {2, 3}}

\* Each program is one fragment.
OperandPrograms ==
  {Let(x, container) \o Return_(result) :
     container \in {ArrayOf(Num(7), Sign("String")), Operate(Num(1), "DotDot", Num(3))},
     result \in ResultExprs}
  \union ClosedBlocks \union Chains \union Nested \union Filling
  \union Escaping \union IntegerInouts

=============================================================================
