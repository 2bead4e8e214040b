---------------------------- MODULE YulPrograms -----------------------------
(***************************************************************************)
(* Contracts for the interpreter of Yul: a function is written statement   *)
(* by statement, with branches, loops and switches around what was         *)
(* written.  Every text is a whole contract, which the properties run.     *)
(***************************************************************************)
EXTENDS Yul

CONSTANTS
  Statements,    \* the simple statements of the function
  Conditions,    \* the conditions of its branches, loops and switches
  Posts,         \* the blocks that its loops run after their bodies
  Library,       \* functions that it may call
  Input,         \* the argument it is called with
  MaxSize        \* bound on its statements, those within others included

VARIABLES
  text,  \* the body of the function
  inner  \* the body of a loop that will come next

Init == text = <<>> /\ inner = <<>>

RECURSIVE Size(_), Exits(_), Orderly(_), IsInternal(_)
Parts(stmt) ==
  CASE stmt.stmt \in {"Block", "If"} -> <<stmt.body>>
    [] stmt.stmt = "For" -> <<stmt.post, stmt.body>>
    [] stmt.stmt = "Switch" ->
         Append([k \in DOMAIN stmt.cases |-> stmt.cases[k].body], stmt.default)
    [] OTHER -> <<>>
Size(stmts) ==
  FoldLeft(LAMBDA n, stmt : n + 1 + Size(FlattenSeq(Parts(stmt))), 0, stmts)

Fits == Size(text') + Size(inner') <= MaxSize

\* What writes a statement more, or puts the last ones under a condition.
More(stmts, allowed) == \E stmt \in allowed : stmts' = Append(stmts, stmt)
Branch(stmts) ==
  /\ stmts # <<>>
  /\ \E cond \in Conditions : stmts' = Append(Front(stmts), If(cond, <<Last(stmts)>>))
Choose(stmts) ==
  LET n == Len(stmts)
  IN /\ n >= 2
     /\ \E cond \in Conditions :
          stmts' = Append(SubSeq(stmts, 1, n - 2),
                          Switch(cond, <<Case(1, <<stmts[n - 1]>>)>>, <<stmts[n]>>))

WriteText == More(text, Statements) /\ UNCHANGED inner /\ Fits
BranchText == Branch(text) /\ UNCHANGED inner /\ Fits
ChooseText == Choose(text) /\ UNCHANGED inner /\ Fits
WriteInner ==
  /\ More(inner, Statements \union {Jump("Break"), Jump("Continue")})
  /\ UNCHANGED text /\ Fits
BranchInner == Branch(inner) /\ UNCHANGED text /\ Fits
Loops(body) == {For(cond, post, body) : cond \in Conditions, post \in Posts}
CloseLoop ==
  /\ inner # <<>> /\ inner' = <<>>
  /\ \E stmt \in Loops(inner) : text' = Append(text, stmt)
  /\ Fits
NestLoop ==
  /\ inner # <<>> /\ text' = text
  /\ \E stmt \in Loops(inner) : inner' = <<stmt>>
  /\ Fits

Next ==
  \/ WriteText \/ BranchText \/ ChooseText
  \/ WriteInner \/ BranchInner \/ CloseLoop \/ NestLoop

Spec == Init /\ [][Next]_<<text, inner>>

-----------------------------------------------------------------------------
(* The world: two accounts with the contract. *)

Contract ==
  [dispatcher |-> ExprStmtCall(FunCall("f", <<Lit(Input)>>)),
   functions |->
     ("f" :> [params |-> <<"p">>, rets |-> <<"r">>, body |-> text]) @@ Library]
Account(slot) == [balance |-> 2, slot |-> slot, code |-> Contract]
Start ==
  Ok([accounts |-> ("main" :> Account(0)) @@ ("twin" :> Account(1)),
      env |-> [DefaultEnv EXCEPT !.codeOwner = "main", !.code = Contract,
                                 !.calldata = 1, !.perm = TRUE]],
     "x" :> 0)
Entry == Let(<<"x">>, FunCall("f", <<Lit(Input)>>))

Executed(fuel) == exec(fuel, Entry, NoContract, Start)
Meant == Run(Patience, Entry, Start)

\* The text does not change while a loop is written.
Written == inner = <<>>

\* No call of another contract.
IsInternal(stmts) ==
  \A i \in DOMAIN stmts :
    /\ \A k \in DOMAIN Parts(stmts[i]) : IsInternal(Parts(stmts[i])[k])
    /\ stmts[i].stmt = "ExprStmtCall" /\ stmts[i].expr.expr = "PrimCall" =>
         stmts[i].expr.prim \notin Calls

\* The jumps that get out of a statement.
Exits(stmt) ==
  LET within == UNION {UNION {Exits(part[i]) : i \in DOMAIN part} :
                         part \in Range(Parts(stmt))}
  IN CASE stmt.stmt = "Jump" -> {stmt.kind}
       [] stmt.stmt = "For" -> within \intersect {"Leave"}
       [] OTHER -> within

\* Nothing follows a statement that may jump, in its block or around it, and
\* no default has anything in it that may fail.
Orderly(stmts) ==
  \A i \in DOMAIN stmts :
    /\ i < Len(stmts) => Exits(stmts[i]) = {}
    /\ \A k \in DOMAIN Parts(stmts[i]) : Orderly(Parts(stmts[i])[k])
    /\ stmts[i].stmt = "Switch" =>
         \A k \in DOMAIN stmts[i].default : stmts[i].default[k].stmt \in {"Let", "Jump"}

-----------------------------------------------------------------------------
(* Properties *)

\* Whatever the fuel, the interpreter never gives a wrong answer: when it ends
\* without an exception, the world and the values are those that Yul's
\* specification gives, though it runs what follows a break, continue or leave
\* on marked states, all branches of a switch, and loops on default states.
\* For functions where nothing follows a jump and no default can fail, the
\* exceptions and halts are right too, and the largest of the fuels is enough
\* for all that is not endless.
AnswersRight ==
  Written /\ IsInternal(text) =>
    \A fuel \in Fuels :
      LET r == Executed(fuel)
      IN CASE r.error = "OutOfFuel" ->
                fuel = Max(Fuels) /\ Orderly(text) => Meant.mode = "endless"
           [] r.error = "none" -> Meant.mode = "none" /\ Meant.state = r.state
           [] OTHER ->
                Orderly(text) =>
                  /\ Meant.mode = r.error
                  /\ r.error = "YulHalt" => Meant.state.shared = r.state.shared

\* A contract that is called by STATICCALL leaves every account as it was,
\* whatever it calls in turn and however deep, if nothing in it follows a jump;
\* and a caller that learns of its success may write again.
StaticCallPure ==
  Written /\ Orderly(text) =>
    \A fuel \in Fuels :
      LET r == primCall(fuel, "STATICCALL", <<"twin", 0, 1>>, Start)
      IN r.error = "none" =>
           /\ r.state.shared.accounts = Start.shared.accounts
           /\ r.values = <<1>> => executionEnv(r.state).perm

\* The comment on mkOk: "Since it literally does not matter what happens if the
\* state is non-Ok, we just use the default."  So a function ends with an
\* exception or a halt only when Yul's specification says so.
NonOkDoesNotMatter ==
  Written /\ IsInternal(text) =>
    \A fuel \in Fuels :
      Executed(fuel).error \in {"OutOfFuel", "none"} \/ Meant.mode = Executed(fuel).error
=============================================================================
