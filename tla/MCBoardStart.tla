---------------------------- MODULE MCBoardStart ----------------------------
(* The three boards, each with the start-up programs of its components and *)
(* with every initialisation function called twice after the services.     *)
EXTENDS StartOutline, TLC

Tc    == INSTANCE TcStart
Linum == INSTANCE LinumStart
Esp   == INSTANCE EspStart

(* TLC computes this, MCSeals and MCOutline once; with a LET around them,  *)
(* the statistics it keeps of the expressions it evaluates stop there.     *)
MCPlans ==
    LET plans == [tc |-> Tc!TcPlans, linum |-> Linum!LinumPlans,
                  esp |-> Esp!EspPlans]
    IN  plans

Twice(p) == <<"services", p, p>>
Inits(b) == DOMAIN MCPlans[b]

MCPrograms ==
    [tc |-> {<<"board_init", "cpu_start", "cpu_wdt_disable_self">>}
            \cup {<<p>> : p \in {"adc_pot_dm", "can_loopback_dm",
                                 "gpio_led_notify_dm", "pwm_led_dm",
                                 "adc_pot", "can_loopback", "pwm_led",
                                 "gpio_led", "i2c_scanner", "smp_tps_pwm"}}
            \cup {Twice(p) : p \in
                    {"asclin_init", "can_init", "i2c_init", "adc_init",
                     "pwm_init", "pinmux_init", "gpio_init",
                     "console_start", "adc_dm_init", "can_dm_init",
                     "gpio_dm_init", "pwm_dm_init"}},
     linum |-> {<<"board_init", "sdram_smoke">>}
            \cup {<<p>> : p \in {"adc_scan", "can_loopback", "pwm_backlight",
                                 "qspi_jedec", "touch_xy"}}
            \cup {Twice(p) : p \in
                    {"devices_register", "dma_init", "i2c_init", "adc_init",
                     "qspi_init", "can0_init", "uart_init", "pwm_init",
                     "gpio_init", "pinmux_init"}},
     esp |-> {<<"board_init">>}
            \cup {<<p>> : p \in {"adc_scan", "can_loopback", "dma_memcpy",
                                 "gdma_memcpy", "pwm_backlight",
                                 "spi_loopback", "smp_spi_can",
                                 "display_touch"}}
            \cup {Twice(p) : p \in
                    {"devices_register", "adc_init", "can_init", "dma_init",
                     "gdma_axi_init", "i2c_init", "pwm_init", "uart_init",
                     "spi0_init"}}]

MCUnwinding ==
    [tc |-> {"pwm", "pinmux", "adc_dm", "can_dm", "gpio_dm", "pwm_dm"},
     linum |-> {"gpio", "pinmux"},
     esp |-> {"gpio", "pinmux", "spi0", "spi1"}]

MCRepeatable == [tc |-> {}, linum |-> {"console"},
                 esp |-> {"adc", "touch", "display", "bsvc"}]

Node(path, drivers, flags) ==
    [path |-> path, drivers |-> drivers, flags |-> flags]

MCDevices ==
    [tc |-> {Node("/dev/adc0", {"adc_dm", "adc"}, {"adc_dm.opened"}),
             Node("/dev/can0", {"can_dm", "can"}, {"can_dm.opened"}),
             Node("/dev/gpio0", {"gpio_dm", "gpio"}, {"gpio_dm.opened"}),
             Node("/dev/pwm0", {"pwm_dm"}, {"pwm_dm.opened"})},
     linum |-> {Node("/dev/disp0", {"display_dm", "display"}, {}),
                Node("/dev/input0", {"touch_dm", "touch"}, {})},
     esp |-> {Node("/dev/disp0", {"display_dm", "display"}, {}),
              Node("/dev/input0", {"touch_dm", "touch"}, {})}]

-----------------------------------------------------------------------------
(* The outline: what holds before the first step of a plan is carried      *)
(* through its steps and the functions it calls, one chain of calls at a   *)
(* time.  Where ways meet, what holds on both is claimed; a way that       *)
(* cannot be taken is the empty set.                                       *)

Meet(c, way) ==
    IF way = {} THEN c
    ELSE LET d == CHOOSE x \in way : TRUE IN
         [on |-> c.on \cap d.on, off |-> c.off \cap d.off,
          apart |-> c.apart \cap d.apart, tied |-> c.tied \cap d.tied,
          up |-> c.up \cap d.up, tried |-> c.tried \cap d.tried,
          down |-> c.down \cap d.down, alone |-> c.alone \cap d.alone,
          manned |-> c.manned \cap d.manned, ready |-> c.ready \cap d.ready,
          tidy |-> c.tidy \cap d.tidy, open |-> c.open \cap d.open,
          quiet |-> c.quiet \cap d.quiet, frame |-> c.frame \cap d.frame]

If(test, c) == {x \in {c} : test}

(* Claims about everything, at a place that nothing leads to yet.          *)
Tests(b, ops) == {s \in StepsOf(b) : s.op \in ops}
Anything(b) ==
    LET all == (UNION {s.sets \cup s.clears : s \in StepsOf(b)} \cup Windows
                \cup {s.arg[1] : s \in Tests(b, {"leave", "unless"})}
                \cup {s.arg : s \in Tests(b, {"require"})}) \ DriversOf(b)
    IN  [Initially(b) EXCEPT
           !.on = all, !.off = all,
           !.up = DriversOf(b), !.tried = DriversOf(b),
           !.frame = {"made", "bound", "own", "handle", "left"}]

May(c, x)    == x \notin c.down \cup c.off
MayNot(c, x) == x \notin c.up

(* To the next step, ...                                                   *)
Near(w, e, s, c, callee) ==
    CASE s.op \in {"leave", "unless"} ->
           If(MayNot(c, s.arg[1]), Deny(w.drivers, w.seals, c, s.arg[1]))
      [] s.op = "require" -> If(May(c, s.arg), Learn(w.drivers, c, s.arg))
      [] s.op = "must" -> {callee.ok}
      [] s.op = "also" -> {callee.any}
      [] s.op = "new ep" -> {NewEpMade(c, e)}
      [] s.op = "new bound ep" -> {BoundEpMade(c, e)}
      [] s.op = "bind" -> {HandleSet(c, e)}
      [] s.op = "unbind" -> {Unset(c, e)}
      [] s.op = "thread" -> {ThreadMade(c, e, s.arg.serves)}
      [] s.op = "write" -> {Wrote(c, s)}
      [] s.op = "check" -> {Checked(c, s)}
      [] s.op \in {"await", "await or fail", "await or go on"} ->
           {Polled(c, s)}
      [] OTHER -> {c}

(* ... past some steps, ...                                                *)
Far(w, s, c) ==
    CASE s.op = "unless" -> If(May(c, s.arg[1]),
                               Learn(w.drivers, c, s.arg[1]))
      [] s.op = "if ok"  -> {c}
      [] OTHER           -> {}

Beyond(i, s) == i + 1 + CASE s.op = "unless" -> s.arg[2]
                          [] s.op = "if ok"  -> s.arg
                          [] OTHER           -> 0

(* ... and back to the caller, successfully or not.                        *)
Exit(w, e, s, c, callee) ==
    CASE s.op = "leave" -> If(May(c, s.arg[1]), Learn(w.drivers, c, s.arg[1]))
      [] s.op \in {"require", "ask"} ->
           If(MayNot(c, s.arg), Deny(w.drivers, w.seals, c, s.arg))
      [] s.op = "must" -> {callee.any}
      [] s.op = "new ep" -> {Blame(c, e)}
      [] s.op = "new bound ep" -> {Blame(Reset(c, e), e)}
      [] s.op \in {"try", "thread"} -> {Released(c, e, s.undo)}
      [] s.op = "await or fail" -> {PollFailed(c, e, s)}
      [] OTHER -> {}

Succeeds(s) == s.op = "leave" /\ s.arg[2] # "fail"

RECURSIVE Trace(_, _, _, _)
Trace(w, path, plan, entry) ==
    LET e     == w.plans[plan].driver
        steps == w.plans[plan].steps
        start == [at |-> <<>>, any |-> Out(w.any), ok |-> Out(w.any),
                  claims |-> <<entry>> \o [i \in DOMAIN steps |-> w.any]]
        step(r, i) ==
            LET s == steps[i]
                c == r.claims[i]
                callee == IF s.op \in {"must", "also"}
                          THEN Trace(w, Append(path, i), s.arg, Out(c))
                          ELSE [at |-> <<>>]
                exit == {Out(x) : x \in Exit(w, e, s, c, callee)}
            IN  [at |-> r.at @@ callee.at,
                 any |-> Meet(r.any, exit),
                 ok |-> IF Succeeds(s) THEN Meet(r.ok, exit) ELSE r.ok,
                 claims |-> [r.claims EXCEPT
                    ![i + 1] = Meet(@, Near(w, e, s, c, callee)),
                    ![Beyond(i, s)] = Meet(@, Far(w, s, c))]]
        run == FoldLeft(step, start, [i \in DOMAIN steps |-> i])
        end == {Out(run.claims[Len(steps) + 1])}
        all == [plan |-> plan, claims |-> run.claims,
                any |-> Meet(run.any, end), ok |-> Meet(run.ok, end)]
    IN  [at |-> (path :> all) @@ run.at, any |-> all.any, ok |-> all.ok]

Book(w, program) ==
    LET start == [rest |-> <<w.first>>, at |-> <<>>]
        call(r, k) == LET t == Trace(w, <<k>>, program[k], Last(r.rest)) IN
                      [rest |-> Append(r.rest, t.any), at |-> r.at @@ t.at]
    IN  FoldLeft(call, start, [k \in DOMAIN program |-> k])

(* With @@ it is a function of explicit values, computed only once.        *)
Traced ==
    [b \in DOMAIN MCPrograms |->
        LET w == [plans |-> Plans[b], drivers |-> DriversOf(b),
                  seals |-> Seals[b], first |-> Initially(b),
                  any |-> Anything(b)]
        IN  [program \in MCPrograms[b] |-> Book(w, program)] @@ <<>>]
    @@ <<>>

MCOutline == LET outline == Traced IN outline

(* A driver's own handle closes the way to a second server, or a flag does,*)
(* or, for the console, the handle of the driver it starts first.          *)
SealTable ==
    [tc |-> {<<d, d>> : d \in DriversOf("tc") \ {"bcon"}}
            \cup {<<"bcon", "asclin">>},
     linum |-> {<<d, d>> : d \in DriversOf("linum") \ {"dma", "console"}}
               \cup {<<"dma", "dma.ready">>},
     esp |-> {<<d, d>> : d \in DriversOf("esp") \
                 ({"can", "uart"} \cup MCRepeatable.esp)}
             \cup {<<"can", "can.ready">>, <<"uart", "uart.ready">>}]

MCSeals == LET seals == SealTable IN seals
=============================================================================
