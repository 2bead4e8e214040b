-------------------------------- MODULE Yul --------------------------------
(***************************************************************************)
(* The Yul interpreter of EvmYul/Yul/Interpreter.lean, with its fuel.      *)
(*                                                                         *)
(* break, continue and leave mark the state: a marked state (Checkpoint in *)
(* the code) keeps what the program had when it jumped, and looks like the *)
(* default state to everything that reads or writes it.  A block runs all  *)
(* its statements, on marked states too; loops and calls take marks away.  *)
(*                                                                         *)
(* An account has one storage slot, a call one word of input; memory, logs *)
(* and return data are left out.  Meaning is what Yul's specification says *)
(* of the same programs.                                                   *)
(***************************************************************************)
EXTENDS Integers, SequencesExt

CONSTANTS
  WordSize,   \* 2^256 in the code
  MaxDepth,   \* 1024 in the code
  Fuels,      \* the fuels that programs are run with
  Patience    \* how many loops and calls Meaning follows; more are endless

ASSUME YulAssumption ==
  /\ WordSize \in Nat \ {0}
  /\ MaxDepth \in Nat
  /\ Fuels \subseteq Nat
  /\ Patience \in Nat

-----------------------------------------------------------------------------
(* The syntax of EvmYul/Yul/Ast.lean. *)

Lit(n) == [expr |-> "Lit", value |-> n]
Var(id) == [expr |-> "Var", id |-> id]
PrimCall(prim, args) == [expr |-> "PrimCall", prim |-> prim, args |-> args]
FunCall(name, args) == [expr |-> "FunCall", name |-> name, args |-> args]

Block(stmts) == [stmt |-> "Block", body |-> stmts]
Let(vars, expr) == [stmt |-> "Let", vars |-> vars, expr |-> expr]
ExprStmtCall(expr) == [stmt |-> "ExprStmtCall", expr |-> expr]
If(cond, body) == [stmt |-> "If", cond |-> cond, body |-> body]
For(cond, post, body) ==
  [stmt |-> "For", cond |-> cond, post |-> post, body |-> body]
Case(value, body) == [value |-> value, body |-> body]
Switch(cond, cases, default) ==
  [stmt |-> "Switch", cond |-> cond, cases |-> cases, default |-> default]
Jump(kind) == [stmt |-> "Jump", kind |-> kind]  \* Break, Continue or Leave

NoContract == [dispatcher |-> Block(<<>>), functions |-> <<>>]

-----------------------------------------------------------------------------
(* States. *)

NoStore == <<>>  \* a store is a function of the variables that have a value
DefaultEnv ==
  [codeOwner |-> "nobody", source |-> "nobody", weiValue |-> 0, calldata |-> 0,
   code |-> NoContract, depth |-> 0, perm |-> FALSE]
DefaultShared == [accounts |-> <<>>, env |-> DefaultEnv]

Ok(shared, store) == [mark |-> "none", shared |-> shared, store |-> store]
DefaultState == Ok(DefaultShared, NoStore)
IsOk(s) == s.mark = "none"

sharedState(s) == IF IsOk(s) THEN s.shared ELSE DefaultShared
executionEnv(s) == sharedState(s).env

insert(var, val, s) == IF IsOk(s) THEN [s EXCEPT !.store = (var :> val) @@ @] ELSE s
multifill(vars, vals, s) ==
  FoldRight(LAMBDA pair, t : insert(pair[1], pair[2], t), Zip(vars, vals), s)
lookup(var, s) == IF var \in DOMAIN s.store THEN s.store[var] ELSE 0
\* s[var]!, which finds no variable in a marked state.
read(var, s) == IF IsOk(s) THEN lookup(var, s) ELSE 0
setStore(s, t) == IF IsOk(s) /\ IsOk(t) THEN [s EXCEPT !.store = t.store] ELSE s
setJump(kind, s) == IF IsOk(s) THEN [s EXCEPT !.mark = kind] ELSE s
mkOk(s) == IF IsOk(s) THEN s ELSE DefaultState
reviveJump(s) == [s EXCEPT !.mark = "none"]
overwrite(s, t) == IF IsOk(t) THEN s ELSE t
initcall(params, args, s) ==
  IF IsOk(s) THEN multifill(params, args, [s EXCEPT !.store = NoStore]) ELSE s
\* mutant: the permission is never taken away
setStatic_Grants(s, p) == IF IsOk(s) THEN [s EXCEPT !.shared.env.perm = TRUE] ELSE s
setStatic(s, p) == IF IsOk(s) THEN [s EXCEPT !.shared.env.perm = p] ELSE s

-----------------------------------------------------------------------------
(* Results: a state and values, or an exception; YulHalt carries a state. *)

Values(s, vals) == [error |-> "none", state |-> s, values |-> vals]
Raise(e) == [error |-> e, state |-> DefaultState, values |-> <<>>]
Halt(s) == [error |-> "YulHalt", state |-> s, values |-> <<>>]

\* What comes next, unless there was an exception.
Then(r, Next(_)) == IF r.error = "none" THEN Next(r) ELSE r

head(r) == Then(r, LAMBDA q : Values(q.state, <<IF q.values = <<>> THEN 0 ELSE q.values[1]>>))
fill(vars, r) == Then(r, LAMBDA q : Values(multifill(vars, q.values, q.state), <<>>))

-----------------------------------------------------------------------------
(* Operations that stay in one contract. *)

Writes == {"SSTORE"}  \* those of the list in primCall that are modelled

Slot(shared) ==
  IF shared.env.codeOwner \in DOMAIN shared.accounts
  THEN shared.accounts[shared.env.codeOwner].slot
  ELSE 0

step(prim, s, args) ==
  CASE prim = "ADD" -> Values(s, <<(args[1] + args[2]) % WordSize>>)
    [] prim = "ISZERO" -> Values(s, <<IF args[1] = 0 THEN 1 ELSE 0>>)
    [] prim = "SLOAD" -> Values(s, <<Slot(sharedState(s))>>)
    [] prim = "CALLDATALOAD" -> Values(s, <<executionEnv(s).calldata>>)
    [] prim = "SSTORE" ->
         Values(IF IsOk(s)
                THEN [s EXCEPT !.shared.accounts[s.shared.env.codeOwner].slot = args[1]]
                ELSE s, <<>>)
    [] prim = "STOP" -> Halt(s)
    [] prim = "REVERT" -> Raise("Revert")

-----------------------------------------------------------------------------
(* The functions of the interpreter call each other.  An override of       *)
(* NoContract stands for none.                                             *)

RECURSIVE primCall(_, _, _, _), evalArgs(_, _, _, _), eval(_, _, _, _)
RECURSIVE call(_, _, _, _, _), callDispatcher(_, _, _)
RECURSIVE exec(_, _, _, _), loop(_, _, _, _)

-----------------------------------------------------------------------------
(* Calls of other contracts.  The arguments are target, value and input;   *)
(* the value of STATICCALL and DELEGATECALL is 0.                          *)

Calls == {"CALL", "CALLCODE", "STATICCALL", "DELEGATECALL"}
Paying == {"CALL", "CALLCODE"}

CanPay(accounts, from, amount) ==
  from \in DOMAIN accounts /\ accounts[from].balance >= amount

transferBalance(accounts, from, to, amount) ==
  LET debited == [accounts EXCEPT ![from].balance = @ - amount]
  IN IF to \in DOMAIN accounts
     THEN [debited EXCEPT ![to].balance = (@ + amount) % WordSize]
     ELSE (to :> [balance |-> amount, slot |-> 0, code |-> NoContract]) @@ debited

\* buildContractCallEmptyReturnState: a call that runs no code.
NoCodeRun(s, accounts, value) ==
  IF IsOk(s) THEN Values([s EXCEPT !.shared.accounts = accounts], <<value>>)
  ELSE Values(s, <<0>>)

CalleeEnv(kind, env, target, value, input, code) ==
  [env EXCEPT
     !.calldata = input,
     !.code = code,
     !.codeOwner = IF kind \in {"CALL", "STATICCALL"} THEN target ELSE @,
     !.source = IF kind = "DELEGATECALL" THEN @ ELSE env.codeOwner,
     !.weiValue = IF kind = "DELEGATECALL" THEN @ ELSE value,
     !.depth = @ + 1]

\* The caller goes on with the world of the callee, its own variables, and the
\* environment of the callee with these fields of its own.
ReturnTo(s, callee, perm) ==
  [s EXCEPT !.shared =
     [callee.shared EXCEPT
        !.env = [@ EXCEPT !.calldata = 0,
                          !.code = s.shared.env.code,
                          !.codeOwner = s.shared.env.codeOwner,
                          !.source = s.shared.env.source,
                          !.weiValue = s.shared.env.weiValue,
                          !.perm = perm]]]

AfterCallee(kind, s, r) ==
  IF r.error \notin {"none", "YulHalt"} THEN r
  ELSE IF ~IsOk(r.state) THEN Values(r.state, <<0>>)
  ELSE LET perm == IF kind = "STATICCALL" THEN executionEnv(s).perm
                   ELSE r.state.shared.env.perm
       IN Values(ReturnTo(s, r.state, perm), <<1>>)

ExternalCall(fuel, kind, s, target, value, input) ==
  LET env == executionEnv(s)
      accounts == sharedState(s).accounts
      paid == IF kind \in Paying
              THEN transferBalance(accounts, env.codeOwner,
                                   IF kind = "CALL" THEN target ELSE env.codeOwner, value)
              ELSE accounts
      entered == IF kind = "STATICCALL" THEN setStatic(s, FALSE) ELSE s
      callee == accounts[target].code
  IN IF ~env.perm /\ (kind = "STATICCALL" \/ (kind \in Paying /\ value # 0))
     THEN Raise("StaticModeViolation")
     ELSE IF kind \in Paying /\ ~CanPay(accounts, env.codeOwner, value)
     THEN NoCodeRun(s, accounts, 0)
     ELSE IF env.depth >= MaxDepth
     THEN NoCodeRun(entered, IF kind = "CALLCODE" THEN paid ELSE accounts, 0)
     ELSE IF ~IsOk(s) THEN Values(s, <<0>>)
     ELSE IF target \notin DOMAIN accounts THEN NoCodeRun(entered, paid, 1)
     ELSE AfterCallee(kind, s,
            callDispatcher(fuel,
              IF kind \in {"CALLCODE", "DELEGATECALL"} THEN callee ELSE NoContract,
              Ok([accounts |-> paid,
                  env |-> CalleeEnv(kind, executionEnv(entered), target, value,
                                    input, callee)], NoStore)))

-----------------------------------------------------------------------------
(* The interpreter. *)

primCall(fuel, prim, args, s) ==
  IF fuel = 0 THEN Raise("OutOfFuel")
  ELSE IF ~executionEnv(s).perm /\ prim \in Writes THEN Raise("StaticModeViolation")
  ELSE IF prim \in Calls
  THEN ExternalCall(fuel - 1, prim, s, args[1], args[2], args[3])
  ELSE step(prim, s, args)

\* Operands are evaluated from the last to the first.
evalArgs(fuel, args, override, s) ==
  IF fuel = 0 THEN Raise("OutOfFuel")
  ELSE IF args = <<>> THEN Values(s, <<>>)
  ELSE Then(eval(fuel - 1, Head(args), override, s), LAMBDA r :
         IF fuel = 1 THEN Raise("OutOfFuel")
         ELSE Then(evalArgs(fuel - 2, Tail(args), override, r.state), LAMBDA q :
                Values(q.state, r.values \o q.values)))

\* evalPrimCall, evalCall, execPrimCall and execCall without what they do with
\* the values.
Callee(fuel, expr, override, s) ==
  Then(evalArgs(fuel, Reverse(expr.args), override, s), LAMBDA r :
    IF expr.expr = "PrimCall" THEN primCall(fuel, expr.prim, Reverse(r.values), r.state)
    ELSE IF fuel = 0 THEN Raise("OutOfFuel")
    ELSE call(fuel - 1, Reverse(r.values), expr.name, override, r.state))

eval(fuel, expr, override, s) ==
  IF fuel = 0 THEN Raise("OutOfFuel")
  ELSE CASE expr.expr = "Lit" -> Values(s, <<expr.value>>)
         [] expr.expr = "Var" -> Values(s, <<read(expr.id, s)>>)
         [] OTHER -> head(Callee(fuel - 1, expr, override, s))

\* mutant: a leave goes on in the caller
Body_KeepsMark(fuel, params, rets, body, args, override, s) ==
  Then(exec(fuel, Block(body), override, mkOk(initcall(params, args, s))), LAMBDA r :
    Values(IF IsOk(r.state) THEN setStore(overwrite(r.state, s), s) ELSE r.state,
           [i \in DOMAIN rets |-> lookup(rets[i], r.state)]))
\* The body of a function, and its values when it has ended.
Body(fuel, params, rets, body, args, override, s) ==
  Then(exec(fuel, Block(body), override, mkOk(initcall(params, args, s))), LAMBDA r :
    Values(setStore(overwrite(reviveJump(r.state), s), s),
           [i \in DOMAIN rets |-> lookup(rets[i], r.state)]))

call(fuel, args, name, override, s) ==
  LET accounts == sharedState(s).accounts
      owner == executionEnv(s).codeOwner
      code == IF override = NoContract THEN accounts[owner].code ELSE override
      f == code.functions[name]
  IN IF fuel = 0 THEN Raise("OutOfFuel")
     ELSE IF owner \notin DOMAIN accounts THEN Raise("MissingContract")
     ELSE IF name \notin DOMAIN code.functions THEN Raise("MissingContractFunction")
     ELSE Body(fuel - 1, f.params, f.rets, f.body, args, override, s)

callDispatcher(fuel, override, s) ==
  IF fuel = 0 THEN Raise("OutOfFuel")
  ELSE Body(fuel - 1, <<>>, <<>>, <<executionEnv(s).code.dispatcher>>, <<>>, override, s)

\* All branches are run, each case with less fuel than the one before it; the
\* outcome is that of the chosen one, but for exceptions of the default.
SwitchBranch(fuel, stmt, override, s, value) ==
  LET chosen == {k \in DOMAIN stmt.cases : stmt.cases[k].value = value}
  IN IF fuel < Len(stmt.cases) THEN Raise("OutOfFuel")
     ELSE Then(exec(fuel, Block(stmt.default), override, s), LAMBDA r :
            IF chosen = {} THEN r
            ELSE exec(fuel - Min(chosen), Block(stmt.cases[Min(chosen)].body), override, s))

exec(fuel, stmt, override, s) ==
  IF fuel = 0 THEN Raise("OutOfFuel")
  ELSE CASE stmt.stmt = "Block" ->
              IF stmt.body = <<>> THEN Values(s, <<>>)
              ELSE Then(exec(fuel - 1, Head(stmt.body), override, s), LAMBDA r :
                     exec(fuel - 1, Block(Tail(stmt.body)), override, r.state))
         [] stmt.stmt = "Let" ->
              CASE stmt.expr.expr = "Lit" ->
                     Values(insert(stmt.vars[1], stmt.expr.value, s), <<>>)
                [] stmt.expr.expr = "Var" ->
                     Values(insert(stmt.vars[1], read(stmt.expr.id, s), s), <<>>)
                [] OTHER -> fill(stmt.vars, Callee(fuel - 1, stmt.expr, override, s))
         [] stmt.stmt = "ExprStmtCall" ->
              fill(<<>>, Callee(fuel - 1, stmt.expr, override, s))
         [] stmt.stmt = "If" ->
              Then(eval(fuel - 1, stmt.cond, override, s), LAMBDA r :
                IF r.values[1] = 0 THEN Values(r.state, <<>>)
                ELSE exec(fuel - 1, Block(stmt.body), override, r.state))
         [] stmt.stmt = "Switch" ->
              Then(eval(fuel - 1, stmt.cond, override, s), LAMBDA r :
                SwitchBranch(fuel - 1, stmt, override, r.state, r.values[1]))
         [] stmt.stmt = "For" -> loop(fuel - 1, stmt, override, s)
         [] stmt.stmt = "Jump" -> Values(setJump(stmt.kind, s), <<>>)

loop(fuel, stmt, override, s) ==
  IF fuel <= 1 THEN Raise("OutOfFuel")
  ELSE Then(eval(fuel - 2, stmt.cond, override, mkOk(s)), LAMBDA r :
    IF r.values[1] = 0 THEN Values(overwrite(r.state, s), <<>>)
    ELSE Then(exec(fuel - 2, Block(stmt.body), override, r.state), LAMBDA b :
      IF b.state.mark = "Break" THEN Values(overwrite(reviveJump(b.state), s), <<>>)
      ELSE IF b.state.mark = "Leave" THEN Values(overwrite(b.state, s), <<>>)
      ELSE Then(exec(fuel - 2, Block(stmt.post), override, reviveJump(b.state)), LAMBDA p :
        Then(exec(fuel - 2, stmt, override, overwrite(p.state, s)), LAMBDA q :
          Values(overwrite(q.state, s), <<>>)))))

-----------------------------------------------------------------------------
(* What Yul's specification says of programs without external calls: a     *)
(* mode other than "none" skips the rest of every block up to the loop or  *)
(* the function that it is meant for.  Modes are those of the states, the  *)
(* exceptions, and "endless".                                              *)

RECURSIVE Eval(_, _, _), Run(_, _, _), RunLoop(_, _, _)

Goes(mode, s, vals) == [mode |-> mode, state |-> s, values |-> vals]
Proceed(r, Next(_)) == IF r.mode = "none" THEN Next(r) ELSE r

EvalAll(n, args, s) ==
  FoldRight(LAMBDA arg, q : Proceed(q, LAMBDA t :
              Proceed(Eval(n, arg, t.state), LAMBDA r :
                Goes("none", r.state, r.values \o t.values))),
            args, Goes("none", s, <<>>))

\* A function has variables of its own, and takes a leave.
RunFunction(n, f, args, s) ==
  LET entered == multifill(f.rets, [i \in DOMAIN f.rets |-> 0],
                           multifill(f.params, args, [s EXCEPT !.store = NoStore]))
      r == Run(n, Block(f.body), entered)
  IN IF n = 0 THEN Goes("endless", s, <<>>)
     ELSE IF r.mode \in {"none", "Leave"}
     THEN Goes("none", [r.state EXCEPT !.store = s.store],
               [i \in DOMAIN f.rets |-> r.state.store[f.rets[i]]])
     ELSE r

Apply(n, expr, args, s) ==
  IF expr.expr = "FunCall"
  THEN RunFunction(n - 1, executionEnv(s).code.functions[expr.name], args, s)
  ELSE LET r == step(expr.prim, s, args)
       IN Goes(r.error, IF r.error = "Revert" THEN s ELSE r.state, r.values)

Eval(n, expr, s) ==
  CASE expr.expr = "Lit" -> Goes("none", s, <<expr.value>>)
    [] expr.expr = "Var" -> Goes("none", s, <<s.store[expr.id]>>)
    [] OTHER -> Proceed(EvalAll(n, expr.args, s), LAMBDA r :
                  Apply(n, expr, r.values, r.state))

Run(n, stmt, s) ==
  CASE stmt.stmt = "Block" ->
         FoldLeft(LAMBDA r, st : Proceed(r, LAMBDA q : Run(n, st, q.state)),
                  Goes("none", s, <<>>), stmt.body)
    [] stmt.stmt = "Let" ->
         Proceed(Eval(n, stmt.expr, s), LAMBDA r :
           Goes("none", multifill(stmt.vars, r.values, r.state), <<>>))
    [] stmt.stmt = "ExprStmtCall" -> Eval(n, stmt.expr, s)
    [] stmt.stmt = "If" ->
         Proceed(Eval(n, stmt.cond, s), LAMBDA r :
           Run(n, Block(IF r.values[1] = 0 THEN <<>> ELSE stmt.body), r.state))
    [] stmt.stmt = "Switch" ->
         Proceed(Eval(n, stmt.cond, s), LAMBDA r :
           LET chosen == {k \in DOMAIN stmt.cases : stmt.cases[k].value = r.values[1]}
           IN Run(n, Block(IF chosen = {} THEN stmt.default
                           ELSE stmt.cases[Min(chosen)].body), r.state))
    [] stmt.stmt = "For" -> RunLoop(n, stmt, s)
    [] stmt.stmt = "Jump" -> Goes(stmt.kind, s, <<>>)

RunLoop(n, stmt, s) ==
  IF n = 0 THEN Goes("endless", s, <<>>)
  ELSE Proceed(Eval(n, stmt.cond, s), LAMBDA r :
    IF r.values[1] = 0 THEN Goes("none", r.state, <<>>)
    ELSE LET b == Run(n, Block(stmt.body), r.state)
         IN CASE b.mode = "Break" -> Goes("none", b.state, <<>>)
              [] b.mode \notin {"none", "Break", "Continue"} -> b
              [] b.mode \in {"none", "Continue"} ->
                   Proceed(Run(n, Block(stmt.post), b.state), LAMBDA q :
                     RunLoop(n - 1, stmt, q.state)))
=============================================================================
