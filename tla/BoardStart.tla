----------------------------- MODULE BoardStart -----------------------------
(***************************************************************************)
(* The start-up of a board: its root thread works through the plans of     *)
(* TcStart, LinumStart or EspStart (StartKit says how they are written).   *)
(* Any call of the kernel may fail, a server may run before its creator    *)
(* has granted it the capabilities it needs, and a poll may find that the  *)
(* hardware does not answer: at most MaxFaults times in one start-up.      *)
(***************************************************************************)
EXTENDS Integers, FiniteSets, SequencesExt

CONSTANTS
    MaxFaults,   (* bound on what goes wrong in a behaviour                  *)
    Plans,       (* board -> name of an initialisation function -> its plan  *)
    Programs,    (* board -> what its root thread may be built to call       *)
    Unwinding,   (* board -> drivers whose start-up undoes what it did when  *)
                 (* it fails                                                 *)
    Repeatable,  (* board -> drivers whose start-up may be called again      *)
                 (* after it has succeeded, or after it failed half-way      *)
    Devices      (* board -> what each device node relies on                 *)

ASSUME MaxFaultsAssumption == MaxFaults \in Nat

VARIABLES
    board,   (* which board; never changes                                   *)
    todo,    (* the calls root still makes                                   *)
    stack,   (* active functions: plan, next step, endpoint created,         *)
             (* and what the last function called has answered               *)
    pub,     (* driver -> endpoint its global handle names, 0 if invalid     *)
    made,    (* driver -> how many endpoints it has created                  *)
    gone,    (* endpoints destroyed                                          *)
    thr,     (* threads created                                              *)
    facts,   (* flags of the code and states of the hardware that hold       *)
    faults,  (* what has gone wrong so far ...                               *)
    blamed,  (* ... in the start-up of which drivers                         *)
    missed,  (* facts a poll stopped waiting for, the function going on      *)
    misused  (* facts relied upon without being established                  *)

vars == <<board, todo, stack, pub, made, gone, thr, facts, faults, blamed,
          missed, misused>>

kernel == <<pub, made, gone, thr>>
trouble == <<faults, blamed, missed, misused>>

Drivers == {Plans[board][p].driver : p \in DOMAIN Plans[board]}

-----------------------------------------------------------------------------
(* Where root is.                                                          *)

Frame(plan) ==
    [plan |-> plan, pc |-> 1, ep |-> 0, due |-> "none", got |-> "none"]

Top   == Last(stack)
Steps == Plans[board][Top.plan].steps
Self  == Plans[board][Top.plan].driver
Cur   == Steps[Top.pc]

GivingUp   == Top.due = "must" /\ Top.got = "fail"
Running(op) ==
    /\ stack # <<>> /\ ~GivingUp
    /\ Top.pc <= Len(Steps) /\ Cur.op = op

SetTop(frame) == stack' = [stack EXCEPT ![Len(stack)] = frame]
Skip(n)       == SetTop([Top EXCEPT !.pc = @ + 1 + n])
Advance       == Skip(0)

Return(answer) ==
    stack' = IF Len(stack) = 1 THEN <<>>
             ELSE [Front(stack) EXCEPT ![Len(stack) - 1].got = answer]

(* A failed step releases what its plan says and returns.                  *)
Fail ==
    /\ gone' = gone \cup {e \in {<<Self, Top.ep>>} : "ep" \in Cur.undo}
    /\ pub' = IF "handle" \in Cur.undo THEN [pub EXCEPT ![Self] = 0] ELSE pub
    /\ Return("fail")

Fault(driver) ==
    /\ faults < MaxFaults
    /\ faults' = faults + 1
    /\ blamed' = blamed \cup {driver}

Holds(condition) ==
    IF condition \in Drivers THEN pub[condition] # 0 ELSE condition \in facts

(* A driver whose handle leads to a thread that receives from it.          *)
Serves(t, d) ==
    /\ t.driver = d /\ t.st = "serving"
    /\ \/ t.serves = "handle"
       \/ t.serves = "own" /\ t.ep = pub[d]

Served(d) ==
    pub[d] # 0 /\ <<d, pub[d]>> \notin gone /\ \E t \in thr : Serves(t, d)

-----------------------------------------------------------------------------
(* Root calls a function, which returns at its end, early or because a     *)
(* function it depends on has failed.                                      *)

Begin ==
    /\ stack = <<>> /\ todo # <<>>
    /\ stack' = <<Frame(Head(todo))>> /\ todo' = Tail(todo)
    /\ UNCHANGED <<board, kernel, facts, trouble>>

Call ==
    /\ Running("must") \/ Running("also")
    /\ stack' = Append([stack EXCEPT ![Len(stack)] =
                           [Top EXCEPT !.pc = @ + 1, !.due = Cur.op,
                                       !.got = "none"]],
                       Frame(Cur.arg))
    /\ UNCHANGED <<board, todo, kernel, facts, trouble>>

GiveUp ==
    /\ stack # <<>> /\ GivingUp
    /\ Return("fail")
    /\ UNCHANGED <<board, todo, kernel, facts, trouble>>

End ==
    /\ stack # <<>> /\ ~GivingUp /\ Top.pc > Len(Steps)
    /\ Return("ok")
    /\ UNCHANGED <<board, todo, kernel, facts, trouble>>

Answer(answer) ==
    IF answer \in {"ok", "fail"} THEN answer
    ELSE IF answer \in facts THEN "ok" ELSE "fail"

Leave ==
    /\ Running("leave")
    /\ IF Holds(Cur.arg[1]) THEN Return(Answer(Cur.arg[2])) ELSE Advance
    /\ UNCHANGED <<board, todo, kernel, facts, trouble>>

Branch ==
    /\ \/ /\ Running("unless")
          /\ Skip(IF Holds(Cur.arg[1]) THEN Cur.arg[2] ELSE 0)
       \/ /\ Running("if ok")
          /\ Skip(IF Top.got = "ok" THEN 0 ELSE Cur.arg)
       \/ /\ Running("require")
          /\ IF Holds(Cur.arg) THEN Advance ELSE Return("fail")
    /\ UNCHANGED <<board, todo, kernel, facts, trouble>>

-----------------------------------------------------------------------------
(* Kernel objects.                                                         *)

CreateEp ==
    /\ Running("new ep") \/ Running("new bound ep")
    /\ made' = [made EXCEPT ![Self] = @ + 1]
    /\ pub' = IF Cur.op = "new ep" THEN pub
              ELSE [pub EXCEPT ![Self] = made[Self] + 1]
    /\ SetTop([Top EXCEPT !.pc = @ + 1, !.ep = made[Self] + 1])
    /\ UNCHANGED <<board, todo, gone, thr, facts, trouble>>

(* The handle takes the invalid value it was assigned.                     *)
CreateEpFails ==
    /\ Running("new ep") \/ Running("new bound ep")
    /\ Fault(Self)
    /\ pub' = IF Cur.op = "new ep" THEN pub ELSE [pub EXCEPT ![Self] = 0]
    /\ Return("fail")
    /\ UNCHANGED <<board, todo, made, gone, thr, facts, missed, misused>>

SetHandle ==
    /\ \/ Running("bind") /\ pub' = [pub EXCEPT ![Self] = Top.ep]
       \/ Running("unbind") /\ pub' = [pub EXCEPT ![Self] = 0]
    /\ Advance
    /\ UNCHANGED <<board, todo, made, gone, thr, facts, trouble>>

Try ==
    /\ Running("try")
    /\ Advance
    /\ UNCHANGED <<board, todo, kernel, facts, trouble>>

TryFails ==
    /\ Running("try") \/ Running("thread")
    /\ Fault(Self)
    /\ Fail
    /\ UNCHANGED <<board, todo, made, thr, facts, missed, misused>>

(* A thread that only receives can serve from the start; one that maps its *)
(* registers needs the grant that follows ...                              *)
CreateThread ==
    /\ Running("thread")
    /\ thr' = thr \cup
           {[id |-> Cardinality(thr), driver |-> Self, name |-> Cur.arg.name,
             ep |-> Top.ep, serves |-> Cur.arg.serves,
             st |-> IF Cur.arg.begins = "maps" THEN "new" ELSE "serving"]}
    /\ Advance
    /\ UNCHANGED <<board, todo, pub, made, gone, facts, trouble>>

New == {t \in thr : t.st = "new"}
Become(st) == thr' = (thr \ New) \cup {[t EXCEPT !.st = st] : t \in New}

Grant ==
    /\ Running("grant")
    /\ Become("serving")
    /\ Advance
    /\ UNCHANGED <<board, todo, pub, made, gone, facts, trouble>>

(* ... and stops, or spins, when it runs before: it may have a higher      *)
(* priority than its creator or run on another core.  Mapping may also     *)
(* fail for other reasons, with the same result.                           *)
ServerStops ==
    /\ New # {}
    /\ Fault(Self)
    /\ Become("dead")
    /\ UNCHANGED <<board, todo, stack, pub, made, gone>>
    /\ UNCHANGED <<facts, missed, misused>>

(* A call of a server: refused without a valid handle, answered by a       *)
(* server that runs, and otherwise never answered.                         *)
Ask ==
    /\ Running("ask") \/ Running("probe")
    /\ \/ /\ pub[Cur.arg] = 0
          /\ IF Cur.op = "ask" THEN Return("fail") ELSE Advance
       \/ Served(Cur.arg) /\ Advance
    /\ UNCHANGED <<board, todo, kernel, facts, trouble>>

-----------------------------------------------------------------------------
(* Flags and registers.                                                    *)

Write ==
    /\ Running("write")
    /\ misused' = misused \cup (Cur.needs \ facts)
    /\ facts' = (facts \cup Cur.sets) \ Cur.clears
    /\ Advance
    /\ UNCHANGED <<board, todo, kernel, faults, blamed, missed>>

Poll ==
    /\ \/ Running("await") \/ Running("await or fail")
       \/ Running("await or go on")
       \/ Running("check") /\ Cur.needs \subseteq facts
    /\ facts' = facts \cup Cur.sets
    /\ Advance
    /\ UNCHANGED <<board, todo, kernel, trouble>>

(* What an earlier start has established may have ceased to hold.          *)
PollFails ==
    /\ Running("await or fail")
    /\ Fault(Self)
    /\ facts' = facts \ (Cur.sets \cup Cur.clears)
    /\ Return("fail")
    /\ UNCHANGED <<board, todo, kernel, missed, misused>>

PollGoesOn ==
    /\ Running("await or go on")
    /\ Fault(Self)
    /\ facts' = facts \ Cur.sets
    /\ missed' = missed \cup Cur.sets
    /\ Advance
    /\ UNCHANGED <<board, todo, kernel, misused>>

CheckFails ==
    /\ Running("check")
    /\ IF Cur.needs \subseteq facts THEN Fault(Self)
       ELSE UNCHANGED <<faults, blamed>>
    /\ facts' = facts \ Cur.sets
    /\ Advance
    /\ UNCHANGED <<board, todo, kernel, missed, misused>>

-----------------------------------------------------------------------------
Init ==
    /\ board \in DOMAIN Programs
    /\ todo \in Programs[board]
    /\ stack = <<>>
    /\ pub = [d \in Drivers |-> 0] /\ made = [d \in Drivers |-> 0]
    /\ gone = {} /\ thr = {} /\ facts = {}
    /\ faults = 0 /\ blamed = {} /\ missed = {} /\ misused = {}

(* What root does when nothing goes wrong.                                 *)
Proceed ==
    \/ Begin \/ Call \/ GiveUp \/ End \/ Leave \/ Branch
    \/ CreateEp \/ SetHandle \/ Try \/ CreateThread \/ Grant \/ Ask
    \/ Write \/ Poll \/ (CheckFails /\ UNCHANGED faults)

GoWrong ==
    \/ CreateEpFails \/ TryFails \/ ServerStops
    \/ PollFails \/ PollGoesOn \/ CheckFails

Next == Proceed \/ GoWrong

(* Root is scheduled.                                                      *)
Fairness == WF_vars(Proceed)

Spec     == Init /\ [][Next]_vars
FairSpec == Spec /\ Fairness

-----------------------------------------------------------------------------
Frames == [plan : DOMAIN Plans[board], pc : Nat \ {0}, ep : Nat,
           due : {"none", "must", "also"}, got : {"none", "ok", "fail"}]

Threads == [id : Nat, driver : Drivers, name : STRING, ep : Nat,
            serves : {"own", "handle", "none"},
            st : {"new", "serving", "dead"}]

(* The variables keep their types; endpoints are numbered as created, and  *)
(* at most one server awaits its capabilities.                             *)
TypeOK ==
    /\ board \in DOMAIN Programs
    /\ stack \in Seq(Frames)
    /\ pub \in [Drivers -> Nat] /\ made \in [Drivers -> Nat]
    /\ \A d \in Drivers : pub[d] <= made[d]
    /\ gone \subseteq UNION {{d} \X (1 .. made[d]) : d \in Drivers}
    /\ thr \subseteq Threads /\ IsFiniteSet(thr)
    /\ Cardinality(New) <= 1
    /\ faults \in 0 .. MaxFaults /\ blamed \subseteq Drivers
    /\ facts \cap Drivers = {}

AtRest == stack = <<>>
Stopped(d) == \E t \in thr : t.driver = d /\ t.st = "dead"

(* Unwound.  When root is between two calls, a driver of Unwinding whose   *)
(* handle is valid has its server, unless that server ran before its       *)
(* capabilities were granted, and it has no endpoint left that nobody can  *)
(* reach (the ep_destroy and "= ULMK_EP_INVALID" of the error paths).  The *)
(* handle of any driver whose start-up met no fault has its server.        *)
Unwound ==
    AtRest => \A d \in Drivers :
        /\ pub[d] # 0 /\ d \notin blamed => Served(d)
        /\ d \in Unwinding[board] =>
             /\ pub[d] # 0 => Served(d) \/ Stopped(d)
             /\ \A n \in 1 .. made[d] : <<d, n>> \in gone \/ pub[d] = n

(* OneServer.  No driver outside Repeatable ever has two servers at work   *)
(* on the same hardware, however often its *_init is called and whatever   *)
(* fails in between (the guards on the handles and on *_ready).            *)
OneServer ==
    \A t, u \in thr :
        /\ t.driver = u.driver /\ t.driver \notin Repeatable[board]
        /\ t.serves # "none" /\ u.serves # "none"
        /\ t.st # "dead" /\ u.st # "dead"
        => t = u

(* RegisteredOpens.  A device node that board_devices_register* has entered*)
(* leads to a running adapter which accepts open and to a running driver,  *)
(* unless the start-up of one of them met a fault.                         *)
RegisteredOpens ==
    AtRest => \A node \in Devices[board] :
        node.path \in facts /\ node.drivers \cap blamed = {} =>
            /\ \A d \in node.drivers : Served(d)
            /\ node.flags \subseteq facts

(* BootOrder.  The clock, PLL, memory and core bring-up relies only on     *)
(* what has been established, except for what a poll that goes on          *)
(* regardless has stopped waiting for; and when root rests no ENDINIT      *)
(* window is open and the SMU trap is only off if the oscillator failed.   *)
BootOrder ==
    /\ misused \subseteq missed
    /\ AtRest => {"cpu", "safety", "cpu1"} \cap facts = {}
    /\ AtRest /\ "trap off" \in facts => "osc" \notin facts

(* Finishes.  Unless something goes wrong root gets through all of its     *)
(* calls: no start-up code asks a server that has not been started.        *)
Finishes == <>(faults > 0 \/ (stack = <<>> /\ todo = <<>>))
=============================================================================
