------------------------------- MODULE MCYul --------------------------------
(***************************************************************************)
(* Functions of a few statements over words of two bits, with calls of a   *)
(* function that leaves early and of a contract with the same code.        *)
(***************************************************************************)
EXTENDS YulPrograms

Set(var, expr) == Let(<<var>>, expr)
Do(prim, args) == ExprStmtCall(PrimCall(prim, args))
Plus(x, y) == PrimCall("ADD", <<x, y>>)

Pure ==
  {Set("r", Plus(Var("r"), Lit(1))), Set("r", FunCall("g", <<Var("p")>>)),
   Jump("Leave")}
Impure ==
  {Do("SSTORE",
      <<Plus(PrimCall("SLOAD", <<>>), PrimCall("CALLDATALOAD", <<>>))>>),
   Do("STOP", <<>>), Do("REVERT", <<>>)}
External ==
  {Do("CALL", <<Lit("twin"), Lit(1), Lit(1)>>),
   Do("STATICCALL", <<Lit("twin"), Lit(0), Lit(1)>>),
   Do("DELEGATECALL", <<Lit("twin"), Lit(0), Lit(1)>>)}
MCStatements == Pure \union Impure \union External
Internal == Pure \union Impure

MCConditions == {Var("p"), PrimCall("ISZERO", <<Var("r")>>)}
MCPosts == {<<>>, <<Set("p", Plus(Var("p"), Lit(3)))>>}

\* function g(a) -> b { b := a  if a { leave }  b := 3 }
MCLibrary ==
  "g" :> [params |-> <<"a">>, rets |-> <<"b">>,
          body |-> <<Set("b", Var("a")), If(Var("a"), <<Jump("Leave")>>),
                     Set("b", Lit(3))>>]
=============================================================================
