---------------------------- MODULE StartOutline ----------------------------
(***************************************************************************)
(* A proof outline of the start-up.  For every place that root can be at,  *)
(* which is a step of a plan reached through a certain chain of calls, the *)
(* outline says what holds whenever root is there.  An outline is sound if *)
(* every step establishes what the outline claims at the places it leads   *)
(* to; that is a condition on the plans alone, and it does not depend on   *)
(* how much goes wrong.  What a sound outline claims is then true of every *)
(* behaviour, and the properties of BoardStart follow from it.             *)
(***************************************************************************)
EXTENDS BoardStart

CONSTANTS
    Outline,   (* board -> program -> what is claimed: "rest", before each   *)
               (* of its calls and at the end, and "at", per chain of calls: *)
               (* the plan, the claims before each of its steps and after    *)
               (* the last, those on any return and on a successful one      *)
    Seals      (* board -> <<d, c>>: while condition c fails, d has no server*)

-----------------------------------------------------------------------------
(* Claims.  A claim record says of which facts, drivers and device nodes   *)
(* something is claimed:                                                   *)
(*   on      holds, or its poll has been given up   off    does not hold   *)
(*   apart   pairs that do not hold together                               *)
(*   tied    pairs of which the second holds, or its poll has been given   *)
(*           up, when the first holds                                      *)
(*   up      the handle is valid                    down   it is not       *)
(*   tried   the handle is valid, or the start-up met a fault              *)
(*   alone   no server is at work                                          *)
(*   manned  a valid handle has its server, or a server has stopped        *)
(*   ready   a valid handle has its server, or the start-up met a fault    *)
(*   tidy    no endpoint is left that nobody can reach                     *)
(*   open    a registered node can be opened, or a driver met a fault      *)
(*   quiet   a node is not registered, or a driver met a fault             *)
(*   frame   what holds of the endpoint of the function itself             *)
Fields == {"on", "off", "apart", "tied", "up", "tried", "down", "alone",
           "manned", "ready", "tidy", "open", "quiet", "frame"}

DriversOf(b) == {Plans[b][p].driver : p \in DOMAIN Plans[b]}
StepsOf(b) ==
    UNION {{Plans[b][p].steps[i] : i \in DOMAIN Plans[b][p].steps} :
           p \in DOMAIN Plans[b]}

Proper(b, c) ==
    /\ DOMAIN c = Fields
    /\ (c.on \cup c.off) \cap DriversOf(b) = {}
    /\ \A f \in {"up", "tried", "down", "alone", "manned", "ready", "tidy"} :
         c[f] \subseteq DriversOf(b)
    /\ c.open \cup c.quiet \subseteq Devices[b]

Weaker(c, d) == \A f \in Fields : c[f] \subseteq d[f]

Out(c) == [c EXCEPT !.frame = {}]

(* Facts a poll may stop waiting for.                                      *)
GoneOn(b) == UNION {s.sets : s \in {x \in StepsOf(b) :
                                       x.op = "await or go on"}}

Conflicts == {<<"trap off", "osc">>}
Ties      == {<<"axi", x>> : x \in {"window", "refined", "read back"}}
Windows   == {"cpu", "safety", "cpu1"}

Sealed(seals, x) == {y[1] : y \in {z \in seals : z[2] = x}}

(* Before anything has happened.                                           *)
Initially(b) ==
    LET all == DriversOf(b) IN
    [on |-> {}, off |-> Windows \cup UNION {s.sets : s \in StepsOf(b)},
     apart |-> Conflicts, tied |-> Ties,
     up |-> {}, tried |-> {}, down |-> all, alone |-> all,
     manned |-> all, ready |-> all, tidy |-> all,
     open |-> Devices[b], quiet |-> Devices[b], frame |-> {}]

-----------------------------------------------------------------------------
(* What holds after a step of driver e, given what held before it.         *)

(* A condition turned out to hold, or not to hold.                         *)
Learn(drivers, c, x) ==
    [c EXCEPT !.up = @ \cup ({x} \cap drivers),
              !.tried = @ \cup ({x} \cap drivers),
              !.on = @ \cup ({x} \ drivers)
                  \cup {p[2] : p \in {q \in c.tied : q[1] \in {x} \ drivers}}]

Deny(drivers, seals, c, x) ==
    [c EXCEPT !.down = @ \cup ({x} \cap drivers),
              !.off = @ \cup ({x} \ drivers),
              !.alone = @ \cup Sealed(seals, x),
              !.quiet = @ \cup {n \in c.open : x \in n.drivers}]

(* Facts may be established, or cease to hold.                             *)
Changed(c, added, removed, on, off) ==
    [c EXCEPT
       !.on = on, !.off = off,
       !.apart = {p \in Conflicts :
                    \/ p[1] \in off \/ p[2] \in off
                    \/ p \in c.apart /\ {p[1], p[2]} \cap added = {}},
       !.tied = {p \in Ties :
                    \/ p[1] \in off \/ p[2] \in on
                    \/ p \in c.tied /\ p[1] \notin added
                                    /\ p[2] \notin removed}]

Wrote(c, s) ==
    LET on == (c.on \cup s.sets) \ s.clears IN
    [Changed(c, s.sets, s.clears, on, (c.off \ s.sets) \cup s.clears) EXCEPT
       !.quiet = {n \in @ : n.path \notin s.sets},
       !.open = {n \in @ :
          /\ n.path \in s.sets => n.drivers \subseteq c.tried
                                  /\ n.flags \subseteq on
          /\ n.flags \cap s.clears # {} => n \in c.quiet
                                           /\ n.path \notin s.sets}]

Polled(c, s) == Changed(c, s.sets, {}, c.on \cup s.sets, c.off \ s.sets)

Checked(c, s) == Changed(c, s.sets, s.sets, c.on \ s.sets, c.off \ s.sets)

(* The step met a fault.                                                   *)
Blame(c, e) == [Out(c) EXCEPT !.ready = @ \cup {e}, !.tried = @ \cup {e}]

PollFailed(c, e, s) ==
    LET lost == s.sets \cup s.clears IN
    Changed(Blame(c, e), {}, lost, c.on \ lost, c.off \cup lost)

(* An endpoint is created, with or without the global handle.              *)
NewEpMade(c, e) ==
    [c EXCEPT !.frame = {"made"} \cup {x \in {"left"} : e \in c.tidy},
              !.tidy = @ \ {e}]

BoundEpMade(c, e) ==
    [c EXCEPT !.frame = {"made", "bound"}, !.up = @ \cup {e},
              !.tried = @ \cup {e},
              !.down = @ \ {e}, !.manned = @ \ {e}, !.ready = @ \ {e},
              !.tidy = @ \ ({e} \ c.down)]

(* The handle becomes invalid.                                             *)
Reset(c, e) ==
    [c EXCEPT !.down = @ \cup {e}, !.up = @ \ {e}, !.tried = @ \ {e},
              !.manned = @ \cup {e}, !.ready = @ \cup {e},
              !.tidy = @ \ ({e} \ c.down),
              !.frame = @ \ {"bound", "left"}]

Unset(c, e) ==
    [Reset(c, e) EXCEPT !.open = {n \in @ : e \in n.drivers => n \in c.quiet}]

HandleSet(c, e) ==
    LET served == {x \in {e} : c.frame \cap {"own", "handle"} # {}}
    IN  [c EXCEPT !.up = @ \cup {e}, !.tried = @ \cup {e}, !.down = @ \ {e},
                  !.manned = (@ \ {e}) \cup served,
                  !.ready = (@ \ {e}) \cup served,
                  !.tidy = (@ \ {e}) \cup
                     {x \in {e} \cap c.down : "left" \in c.frame},
                  !.frame = (@ \ {"left"}) \cup {"bound"}]

ThreadMade(c, e, serves) ==
    LET served == {x \in {e} : \/ serves = "handle"
                               \/ serves = "own" /\ "bound" \in c.frame}
    IN  [c EXCEPT !.frame = @ \cup ({serves} \cap {"own", "handle"}),
                  !.manned = @ \cup served, !.ready = @ \cup served,
                  !.alone = IF serves = "none" THEN @ ELSE @ \ {e}]

(* A step fails and releases what its plan says.                           *)
Released(c, e, undo) ==
    LET handle == "handle" \in undo
        tidy == \/ e \in c.tidy /\ ~handle
                \/ e \in c.tidy /\ e \in c.down
                \/ e \in c.tidy /\ "bound" \in c.frame /\ "ep" \in undo
                \/ "left" \in c.frame /\ "ep" \in undo
                   /\ (handle => e \in c.down)
        reset == IF handle THEN Reset(c, e) ELSE c
    IN  [Blame(reset, e) EXCEPT !.tidy = (@ \ {e}) \cup {x \in {e} : tidy}]

-----------------------------------------------------------------------------
(* Soundness of a step: the claims c before it are enough for it, and they *)
(* lead to what is claimed where it leads.                                 *)

(* To a return.                                                            *)
Returns(a, c, answer) ==
    Weaker(IF answer = "ok" THEN a.ok ELSE a.any, Out(c))

Skips(a, i, n, c) ==
    /\ i + 1 + n \in DOMAIN a.claims
    /\ Weaker(a.claims[i + 1 + n], c)

Goes(a, i, c) == Skips(a, i, 0, c)

(* Steps that only look, calls, kernel objects and flags.  A condition     *)
(* known to fail, or to hold, closes one of two ways.                      *)
Looks(b, a, i, s, c) ==
    /\ s.op = "leave" =>
         LET x == s.arg[1] answer == s.arg[2]
             yes == Learn(DriversOf(b), c, x) IN
         /\ x \notin c.down \cup c.off =>
              /\ answer # "fail" => Returns(a, yes, "ok")
              /\ answer # "ok" => Returns(a, yes, "fail")
         /\ x \notin c.up => Goes(a, i, Deny(DriversOf(b), Seals[b], c, x))
    /\ s.op = "unless" =>
         LET x == s.arg[1] IN
         /\ x \notin c.down \cup c.off =>
              Skips(a, i, s.arg[2], Learn(DriversOf(b), c, x))
         /\ x \notin c.up => Goes(a, i, Deny(DriversOf(b), Seals[b], c, x))
    /\ s.op = "if ok" => Goes(a, i, c) /\ Skips(a, i, s.arg, c)
    /\ s.op = "require" =>
         /\ s.arg \notin c.down \cup c.off =>
              Goes(a, i, Learn(DriversOf(b), c, s.arg))
         /\ s.arg \notin c.up =>
              Returns(a, Deny(DriversOf(b), Seals[b], c, s.arg), "fail")
    /\ s.op \in {"ask", "probe"} => s.arg \in DriversOf(b) /\ Goes(a, i, c)
    /\ s.op = "ask" /\ s.arg \notin c.up =>
         Returns(a, Deny(DriversOf(b), Seals[b], c, s.arg), "fail")

(* The function called begins with what is known, less what is known of    *)
(* the caller's endpoint.                                                  *)
Calls(book, path, a, i, s, c) ==
    s.op \in {"must", "also"} =>
        LET call == Append(path, i) callee == book.at[call] IN
        /\ call \in DOMAIN book.at /\ callee.plan = s.arg
        /\ Weaker(callee.claims[1], Out(c))
        /\ s.op = "also" => Goes(a, i, callee.any)
        /\ s.op = "must" => Goes(a, i, callee.ok) /\ Weaker(a.any, callee.any)

(* A step that will close the way to a second server.                      *)
Closes(s, e, x) == \/ s.op = "bind" /\ x = e
                   \/ s.op = "write" /\ x \in s.sets

Closing(steps, i, e, x) ==
    \E j \in {i, i + 1} :
        /\ j \in DOMAIN steps /\ Closes(steps[j], e, x)
        /\ j = i + 1 => steps[i].op = "grant"

Undoes(b, e, s, c) ==
    /\ "ep" \in s.undo => /\ "made" \in c.frame
                          /\ "handle" \in s.undo \/ e \in c.down
    /\ "handle" \in s.undo => Sealed(Seals[b], e) \subseteq c.alone

Starts(b, steps, i, e, s, c) ==
    /\ s.arg.name \in STRING /\ s.arg.serves \in {"own", "handle", "none"}
    /\ s.arg.begins = "maps" =>
         i + 1 \in DOMAIN steps /\ steps[i + 1].op = "grant"
    /\ s.arg.serves # "none" =>
         /\ e \in Repeatable[b] \/ e \in c.alone
         /\ \A x \in Seals[b] : x[1] = e =>
              \/ x[2] \in c.up \/ x[2] \in c.on
              \/ Closing(steps, i + 1, e, x[2])

Makes(b, a, steps, i, e, s, c) ==
    /\ s.op = "new ep" => /\ Goes(a, i, NewEpMade(c, e))
                          /\ Returns(a, Blame(c, e), "fail")
    /\ s.op = "new bound ep" =>
         /\ Sealed(Seals[b], e) \subseteq c.alone
         /\ Goes(a, i, BoundEpMade(c, e))
         /\ Returns(a, Blame(Reset(c, e), e), "fail")
    /\ s.op = "bind" => "made" \in c.frame /\ Goes(a, i, HandleSet(c, e))
    /\ s.op = "unbind" => /\ Sealed(Seals[b], e) \subseteq c.alone
                          /\ Goes(a, i, Unset(c, e))
    /\ s.op \in {"try", "thread"} =>
         Undoes(b, e, s, c) /\ Returns(a, Released(c, e, s.undo), "fail")
    /\ s.op = "thread" => /\ Starts(b, steps, i, e, s, c)
                          /\ Goes(a, i, ThreadMade(c, e, s.arg.serves))
    /\ s.op \in {"try", "grant"} => Goes(a, i, c)

Flags(a, i, e, s, c) ==
    /\ s.op = "write" => s.needs \subseteq c.on /\ Goes(a, i, Wrote(c, s))
    /\ s.op \in {"await", "await or fail", "await or go on"} =>
         Goes(a, i, Polled(c, s))
    /\ s.op = "await or fail" => Returns(a, PollFailed(c, e, s), "fail")
    /\ s.op = "check" => Goes(a, i, Checked(c, s))

SoundAt(b, book, path) ==
    LET a == book.at[path]
        e == Plans[b][a.plan].driver
        steps == Plans[b][a.plan].steps
    IN  /\ a.plan \in DOMAIN Plans[b]
        /\ Len(steps) \in Nat /\ DOMAIN steps = 1 .. Len(steps)
        /\ DOMAIN a.claims = 1 .. Len(steps) + 1
        /\ \A i \in DOMAIN a.claims : Proper(b, a.claims[i])
        /\ a.any.frame = {} /\ a.ok.frame = {} /\ Weaker(a.any, a.ok)
        /\ \A i \in DOMAIN steps :
             LET s == steps[i] c == a.claims[i] IN
             /\ Looks(b, a, i, s, c) /\ Calls(book, path, a, i, s, c)
             /\ Makes(b, a, steps, i, e, s, c) /\ Flags(a, i, e, s, c)
        /\ Returns(a, a.claims[Len(steps) + 1], "ok")

-----------------------------------------------------------------------------
(* Soundness of what is claimed when root rests.                           *)

(* Enough for the properties of BoardStart.                                *)
Suffices(b, c) ==
    /\ c.frame = {}
    /\ Windows \subseteq c.off /\ Conflicts \subseteq c.apart
    /\ DriversOf(b) \subseteq c.ready
    /\ Unwinding[b] \subseteq c.manned \cap c.tidy
    /\ Devices[b] \subseteq c.open

SoundProgram(b, program, book) ==
    /\ program \in Seq(DOMAIN Plans[b])
    /\ DOMAIN book.rest = 1 .. Len(program) + 1
    /\ \A k \in DOMAIN book.rest : Suffices(b, book.rest[k])
    /\ Weaker(book.rest[1], Initially(b))
    /\ \A k \in DOMAIN program :
         /\ <<k>> \in DOMAIN book.at /\ book.at[<<k>>].plan = program[k]
         /\ Weaker(book.at[<<k>>].claims[1], book.rest[k])
         /\ Weaker(book.rest[k + 1], book.at[<<k>>].any)
    /\ \A path \in DOMAIN book.at : SoundAt(b, book, path)

(* What the outline watches: a registration, and the flags without which a *)
(* node cannot be opened or a second server could be started.  Only writes *)
(* concern them, and none reopens the way to a second server.              *)
SealFlags(b) == {x[2] : x \in Seals[b]} \ DriversOf(b)
Watched(b) ==
    SealFlags(b) \cup UNION {{n.path} \cup n.flags : n \in Devices[b]}

SoundPlans(b) ==
    /\ \A s \in StepsOf(b) :
         /\ s.sets \cap DriversOf(b) = {}
         /\ s.op # "write" => (s.sets \cup s.clears) \cap Watched(b) = {}
         /\ s.op = "write" => s.clears \cap SealFlags(b) = {}
    /\ \A x \in Seals[b] : x[1] \in DriversOf(b)
    /\ \A n \in Devices[b] : n.drivers \subseteq DriversOf(b)

Sound(b, program) ==
    SoundPlans(b) /\ SoundProgram(b, program, Outline[b][program])

OutlineSound(boards) ==
    \A b \in boards : \A program \in Programs[b] : Sound(b, program)

-----------------------------------------------------------------------------
(* What the claims mean.                                                   *)

Live(d) == \E t \in thr : t.driver = d /\ t.serves # "none" /\ t.st # "dead"

(* A server of d receives from endpoint ep, or whatever the handle names;  *)
(* or one has stopped.                                                     *)
Own(d, ep) == \E t \in thr : /\ t.driver = d /\ t.serves = "own"
                             /\ t.ep = ep /\ t.st # "dead"
ByHandle(d) == \E t \in thr : /\ t.driver = d /\ t.serves = "handle"
                              /\ t.st # "dead"
Manned(d) ==
    pub[d] # 0 => Own(d, pub[d]) \/ ByHandle(d) \/ Stopped(d)

(* No endpoint of d but those of kept is left behind its handle.           *)
Tidy(d, kept) ==
    \A n \in 1 .. made[d] : <<d, n>> \in gone \/ n = pub[d] \/ n \in kept

Met(node) == node.drivers \cap blamed # {}
Opens(node) ==
    node.path \in facts =>
        \/ Met(node)
        \/ node.flags \subseteq facts /\ \A d \in node.drivers : pub[d] # 0

OfFacts(c) ==
    /\ c.on \subseteq facts \cup missed
    /\ c.off \cap facts = {}
    /\ \A p \in c.apart : p[1] \in facts => p[2] \notin facts
    /\ \A p \in c.tied : p[1] \in facts => p[2] \in facts \cup missed

OfDrivers(c) ==
    /\ \A d \in c.up : pub[d] # 0
    /\ \A d \in c.tried : d \in blamed \/ pub[d] # 0
    /\ \A d \in c.down : pub[d] = 0
    /\ \A d \in c.alone : ~Live(d)
    /\ \A d \in c.manned : Manned(d)
    /\ \A d \in c.ready : d \in blamed \/ Manned(d)
    /\ \A d \in c.tidy : Tidy(d, {})

OfNodes(c) ==
    /\ \A node \in c.open : Opens(node)
    /\ \A node \in c.quiet : node.path \in facts => Met(node)

OfFrame(c, e, ep) ==
    /\ "made" \in c.frame => ep # 0 /\ <<e, ep>> \notin gone
    /\ "bound" \in c.frame => ep # 0 /\ pub[e] = ep
    /\ "own" \in c.frame => Own(e, ep) \/ Stopped(e)
    /\ "handle" \in c.frame => ByHandle(e) \/ Stopped(e)
    /\ "left" \in c.frame => Tidy(e, {ep})

Valid(c, e, ep) ==
    OfFacts(c) /\ OfDrivers(c) /\ OfNodes(c) /\ OfFrame(c, e, ep)

-----------------------------------------------------------------------------
(* Where root is in the outline of a program: the chain of calls that has  *)
(* led to the i-th active function, k being the call root itself has made. *)

Chain(k, i) == [j \in 1 .. i |-> IF j = 1 THEN k ELSE stack[j - 1].pc - 1]

(* A function that has called another waits behind the step that calls.    *)
Waits(frame, steps) ==
    /\ frame.pc - 1 \in DOMAIN steps
    /\ frame.due = steps[frame.pc - 1].op /\ frame.due \in {"must", "also"}
    /\ frame.got = "none"

Follows(book, k, i) ==
    LET path == Chain(k, i)
        plan == Plans[board][stack[i].plan]
    IN  /\ path \in DOMAIN book.at /\ book.at[path].plan = stack[i].plan
        /\ stack[i].pc \in 1 .. Len(plan.steps) + 1
        /\ stack[i].ep <= made[plan.driver]
        /\ i < Len(stack) => Waits(stack[i], plan.steps)

Claimed(a) == IF GivingUp THEN a.any ELSE a.claims[Top.pc]

Placed(program) ==
    LET book == Outline[board][program]
        k == Len(program) - Len(todo)
    IN  /\ k \in Nat /\ todo = SubSeq(program, k + 1, Len(program))
        /\ stack = <<>> => Valid(book.rest[k + 1], "none", 0)
        /\ stack # <<>> =>
             /\ k >= 1
             /\ \A i \in DOMAIN stack : Follows(book, k, i)
             /\ Valid(Claimed(book.at[Chain(k, Len(stack))]), Self, Top.ep)

(* What holds everywhere.                                                  *)

(* A server that waits for its capabilities is about to get them.          *)
Granted ==
    New # {} =>
        /\ Running("grant")
        /\ \A t \in New : t.driver = Self
        /\ \A t, u \in New : t = u

(* A driver with a server cannot be given a second one.                    *)
Locked ==
    \A x \in Seals[board] :
        Live(x[1]) => \/ Holds(x[2])
                      \/ /\ stack # <<>> /\ ~GivingUp
                         /\ Closing(Steps, Top.pc, Self, x[2])

Kept ==
    /\ \A d \in Drivers : pub[d] # 0 => <<d, pub[d]>> \notin gone
    /\ \A t \in thr : t.st = "dead" => t.driver \in blamed
    /\ \A f \in missed : f \in GoneOn(board)
    /\ misused \subseteq missed

Outlined ==
    /\ todo \in Programs[board] => Sound(board, todo)
    /\ TypeOK /\ Granted /\ Locked /\ Kept /\ OneServer
    /\ \E program \in Programs[board] : Placed(program)
=============================================================================
