------------------------------ MODULE LinumI2c ------------------------------
(***************************************************************************)
(* The I2C server of the Linum board: an address probe without data, and   *)
(* reads and writes whose bytes a DMA stream moves (LinumDma models the    *)
(* stream pool).  The wait for the bytes is bounded, and may be ended by a *)
(* completion left over; the wait for the STOP is not bounded, and sleeps  *)
(* on an interrupt that STOPF and NACKF raise.                             *)
(***************************************************************************)
EXTENDS ServerKit

Events == {"stop", "nack"}

(* hw: line; run, the transfer on the bus; moved, its bytes have been      *)
(* moved; refused, the slave has not acknowledged; armed, the request the  *)
(* stream is armed for; good, the transfer begun last, when it has been    *)
(* acknowledged to its end; stuck, a slave holds the bus and no STOP comes.*)
(* hist: requests that have left the stream armed or its completion        *)
(* unread: those given up, and those behind a completion left over.        *)

Init ==
    /\ usr = IdleUsers
    /\ srv = Resting(CHOOSE u \in Users : TRUE)
    /\ hw = [line |-> Line(Events), run |-> None, moved |-> FALSE,
             refused |-> FALSE, armed |-> None, good |-> None,
             stuck |-> FALSE]
    /\ hist = {}

Calls == {"probe", "write", "read", "write read"}

(* i2c_probe, i2c_write, i2c_read; i2c_writeread, which is a write and, if *)
(* that went well, a read (left: transfers that follow this one).          *)
Request(u) == \E call \in Calls : Ask(u, call)

Receive(u) ==
    \/ Recv(u, {"probe", "write", "read"}, "clear")
    \/ /\ srv.at = "recv" /\ usr[u].at = "write read"
       /\ srv' = [Resting(u) EXCEPT !.at = "clear", !.left = 1]
       /\ UNCHANGED <<usr, hw, hist>>

ClearFlags ==
    /\ srv.at = "clear"
    /\ Goto(IF Call = "probe" THEN "start" ELSE "arm")
    /\ hw' = [hw EXCEPT !.line = Cleared(@, Events)]
    /\ UNCHANGED hist

ArmDma ==
    /\ srv.at = "arm"
    /\ Goto("start")
    /\ hw' = [hw EXCEPT !.armed = Own]
    /\ UNCHANGED hist

(* The stream may have no endpoint, or be refused.                         *)
ArmFails ==
    /\ srv.at = "arm"
    /\ Reply("einval", None)
    /\ UNCHANGED <<hw, hist>>

Start ==
    /\ srv.at = "start"
    /\ Goto(IF Call = "probe" THEN "test" ELSE "dma")
    /\ hw' = [hw EXCEPT !.run = Own, !.moved = Call = "probe",
                        !.refused = FALSE, !.good = None]
    /\ UNCHANGED hist

DmaDone ==
    /\ srv.at = "dma" /\ hw.moved
    /\ Goto("test")
    /\ hw' = [hw EXCEPT !.armed = None]
    /\ UNCHANGED hist

(* dma_wait joins a completion of a request before (WaitJoinsItsTC of      *)
(* LinumDma is violated), while the bytes are still to be moved.  The      *)
(* stream stays armed for them.                                            *)
DmaStale ==
    /\ srv.at = "dma" /\ ~hw.moved /\ hist # {}
    /\ srv' = [srv EXCEPT !.at = "test", !.raw = {"stale"}]
    /\ hist' = hist \cup {Own}
    /\ UNCHANGED <<usr, hw>>

(* The worker that times out leaves the stream armed.                      *)
DmaTimesOut ==
    /\ srv.at = "dma" /\ ~hw.moved
    /\ srv' = [srv EXCEPT !.at = "recover", !.late = TRUE]
    /\ hist' = hist \cup {Own}
    /\ UNCHANGED <<usr, hw>>

(* wait_stop_or_nack tests NACKF, then STOPF, ...                          *)
TestNack ==
    /\ srv.at = "test" /\ "nack" \in hw.line.raw
    /\ Goto("recover")
    /\ hw' = [hw EXCEPT !.line = Cleared(@, Events)]
    /\ UNCHANGED hist

(* A read returns the buffer as dma_wait has found it.                     *)
Reading == Call \in {"read", "write read"} /\ srv.left = 0

TestStop ==
    /\ srv.at = "test" /\ srv.left = 0 /\ hw.line.raw = {"stop"}
    /\ hw' = [hw EXCEPT !.line = Cleared(@, {"stop"})]
    /\ Reply("ok", IF Reading /\ srv.raw # {} THEN None ELSE hw.good)
    /\ UNCHANGED hist

(* i2c_do_writeread: the read follows the write.                           *)
WriteDone ==
    /\ srv.at = "test" /\ srv.left = 1 /\ hw.line.raw = {"stop"}
    /\ srv' = [srv EXCEPT !.at = "clear", !.left = 0, !.raw = {}]
    /\ hw' = [hw EXCEPT !.line = Cleared(@, {"stop"})]
    /\ UNCHANGED <<usr, hist>>

TestNeither ==
    /\ srv.at = "test" /\ hw.line.raw = {}
    /\ Goto("open")
    /\ UNCHANGED <<hw, hist>>

(* Faulty variant: a notification left over is thrown away first.          *)
OpenFresh ==
    /\ srv.at = "open"
    /\ Goto("wait")
    /\ hw' = [hw EXCEPT !.line = Taken(@)]
    /\ UNCHANGED hist

(* ... and waits: the flag that comes between the test and the             *)
(* acknowledgement still raises the interrupt.                             *)
Open ==
    /\ srv.at = "open"
    /\ Goto("wait")
    /\ hw' = [hw EXCEPT !.line = Acked(@)]
    /\ UNCHANGED hist

Woken ==
    /\ srv.at = "wait" /\ hw.line.bit
    /\ Goto("test")
    /\ hw' = [hw EXCEPT !.line = Acked(Taken(@))]
    /\ UNCHANGED hist

(* i2c_bus_recover.  A bus that is free needs its flags cleared only; else *)
(* a STOP is requested and awaited 50 ms, and a bus that is still busy     *)
(* then has its controller disabled and enabled.                           *)
Verdict == IF srv.late THEN "etimeout" ELSE "esrch"

RecoverFree ==
    /\ srv.at = "recover" /\ hw.run = None
    /\ hw' = [hw EXCEPT !.line = Cleared(@, Events)]
    /\ Reply(Verdict, None)
    /\ UNCHANGED hist

RecoverStop ==
    /\ srv.at = "recover" /\ hw.run # None
    /\ Goto("stopping")
    /\ hw' = [hw EXCEPT !.refused = TRUE]
    /\ UNCHANGED hist

Stopped ==
    /\ srv.at = "stopping"
    /\ Goto("stopped")
    /\ hw' = [hw EXCEPT !.line = Cleared(@, Events)]
    /\ UNCHANGED hist

Restart ==
    /\ srv.at = "stopped"
    /\ hw' = IF hw.run = None THEN hw
             ELSE [hw EXCEPT !.run = None, !.line = Cleared(@, Events),
                             !.stuck = FALSE]
    /\ Reply(Verdict, None)
    /\ UNCHANGED hist

-----------------------------------------------------------------------------
(* The bus and the stream.                                                 *)

Active == hw.run # None /\ ~hw.stuck

MoveBytes ==
    /\ Active /\ ~hw.moved /\ ~hw.refused /\ hw.armed = hw.run
    /\ hw' = [hw EXCEPT !.moved = TRUE]
    /\ UNCHANGED <<usr, srv, hist>>

Nack ==
    /\ Active /\ ~hw.refused
    /\ hw' = [hw EXCEPT !.refused = TRUE, !.line = Latched(@, "nack")]
    /\ UNCHANGED <<usr, srv, hist>>

Stop ==
    /\ Active /\ (hw.moved \/ hw.refused)
    /\ hw' = [hw EXCEPT !.run = None, !.line = Latched(@, "stop"),
                        !.good = IF hw.refused THEN @ ELSE hw.run]
    /\ UNCHANGED <<usr, srv, hist>>

(* A slave stretches the clock for ever.                                   *)
Stick ==
    /\ Active
    /\ hw' = [hw EXCEPT !.stuck = TRUE]
    /\ UNCHANGED <<usr, srv, hist>>

Interrupt ==
    /\ Due(hw.line)
    /\ hw' = [hw EXCEPT !.line = Delivered(@)]
    /\ UNCHANGED <<usr, srv, hist>>

(* A transfer whose bytes are moved ends, unless a slave holds the bus.    *)
Proceed ==
    \/ \E u \in Users : Receive(u)
    \/ ClearFlags \/ ArmDma \/ ArmFails \/ Start \/ DmaDone \/ DmaStale
    \/ DmaTimesOut \/ TestNack \/ TestStop \/ WriteDone \/ TestNeither
    \/ Open \/ Woken \/ RecoverFree \/ RecoverStop \/ Stopped \/ Restart
    \/ Interrupt \/ Stop

Next ==
    \/ Proceed
    \/ \E u \in Users : Request(u)
    \/ MoveBytes \/ Nack \/ Stick

Spec == Init /\ [][Next]_vars

-----------------------------------------------------------------------------
Places == {"clear", "arm", "start", "dma", "test", "open", "wait", "recover",
           "stopping", "stopped"}

(* The variables keep their types.                                         *)
TypeOK ==
    /\ usr \in UserType(Calls, {"ok", "esrch", "einval", "etimeout"})
    /\ srv \in ServerType(Places, {"stale"}, 1)
    /\ hw \in [line : LineType(Events), run : Ids, moved : BOOLEAN,
               refused : BOOLEAN, armed : Ids, good : Ids, stuck : BOOLEAN]
    /\ hist \subseteq Ids

(* A transfer answered OK is the one that the slave has acknowledged to    *)
(* its end: a STOP of a transfer given up before is never taken for it.    *)
(* Only the bytes of a read may not be there yet, and only behind a        *)
(* completion left over by a request given up.                             *)
OkIsTrue ==
    \A u \in Users : usr[u].rc = "ok" =>
        usr[u].val = usr[u].n \/ (usr[u].val = None /\ usr[u].n \in hist)

(* When a request has its answer the bus is free, however the transfer     *)
(* went, and the stream is left armed only by a transfer given up or one   *)
(* that was believed done; it then moves no byte of a later one, which     *)
(* arms it again.                                                          *)
Traced ==
    /\ srv.at = "recv" =>
          hw.run = None /\ (hw.armed # None => hw.armed \in hist)
    /\ hw.run # None => hw.run = Own
    /\ hw.moved /\ hw.run # None /\ Call # "probe" =>
          hw.armed \in {None, Own}

(* wait_ev has no bound: a slave may hold the bus, or the bytes of which   *)
(* dma_wait has reported the end may not be moved, before the STOP.        *)
Stalled ==
    /\ srv.at = "wait" /\ hw.run # None /\ (hw.stuck \/ ~hw.moved)
    /\ hw.line.raw = {} /\ ~hw.line.bit
=============================================================================
