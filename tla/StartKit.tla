------------------------------ MODULE StartKit ------------------------------
(***************************************************************************)
(* The vocabulary in which the start-up code of the boards is written      *)
(* down.  A plan stands for one initialisation function: the driver whose  *)
(* global endpoint handle it fills and its calls, in source order.  What   *)
(* each kind of step does is said in BoardStart.                           *)
(***************************************************************************)
EXTENDS Sequences

Plan(driver, steps) == [driver |-> driver, steps |-> steps]

Step(op, arg, undo) ==
    [op |-> op, arg |-> arg, undo |-> undo, needs |-> {}, sets |-> {},
     clears |-> {}]

-----------------------------------------------------------------------------
(* Early returns.  A condition is a flag of the code, or the name of a     *)
(* driver: its handle is valid.  The answer is "ok", "fail" or a flag:     *)
(* success if that flag is set.  Unless and IfOk skip or take the next n   *)
(* steps.                                                                  *)
Leave(condition, answer) == Step("leave", <<condition, answer>>, {})
Unless(condition, n)     == Step("unless", <<condition, n>>, {})
IfOk(n)                  == Step("if ok", n, {})
Require(condition)       == Step("require", condition, {})

(* Kernel objects.  undo is what the code releases when the step fails:    *)
(* the endpoint it created ("ep"), the global handle ("handle").           *)
NewEp                == Step("new ep", "", {})
NewBoundEp           == Step("new bound ep", "", {})
Bind                 == Step("bind", "", {})
Unbind               == Step("unbind", "", {})
Try(call)            == Step("try", call, {})
TryOr(call, undo)    == Step("try", call, undo)
Thread(server, undo) == Step("thread", server, undo)
Grant                == Step("grant", "", {})

(* A server: whether it begins by mapping its registers, which takes the   *)
(* capability granted after its creation, and which endpoint it serves:    *)
(* the one it was handed, the one the global handle names, or none.        *)
Server(name, begins, serves) ==
    [name |-> name, begins |-> begins, serves |-> serves]

(* Calls of other start-up functions, and of running servers.              *)
Must(plan)  == Step("must", plan, {})
Also(plan)  == Step("also", plan, {})
Ask(driver) == Step("ask", driver, {})
Probe(driver) == Step("probe", driver, {})

-----------------------------------------------------------------------------
(* Flags of the code and facts about the hardware.  A write makes facts    *)
(* hold or cease and needs those the manual asks for.  A poll waits for    *)
(* its facts for ever, until a bound after which the function fails, or    *)
(* until a bound after which it goes on regardless.  A check finds out     *)
(* whether what it needs works, and sets its fact only then.               *)
With(op, needs, sets, clears) ==
    [Step(op, "", {}) EXCEPT !.needs = needs, !.sets = sets,
                             !.clears = clears]

Mark(fact)                == With("write", {}, {fact}, {})
Clear(fact)               == With("write", {}, {}, {fact})
Write(needs, sets)        == With("write", needs, sets, {})
Drop(needs, clears)       == With("write", needs, {}, clears)
Await(fact)               == With("await", {}, {fact}, {})
AwaitOrFail(fact)         == With("await or fail", {}, {fact}, {})
AwaitOrDrop(fact, window) == With("await or fail", {}, {fact}, {window})
AwaitOrGoOn(fact)         == With("await or go on", {}, {fact}, {})
Check(needs, fact)        == With("check", needs, {fact}, {})
=============================================================================
