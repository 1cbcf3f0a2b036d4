----------------------------- MODULE LinumTouch -----------------------------
(***************************************************************************)
(* The touch server of the Linum board: WAIT sleeps for a falling edge of  *)
(* the panel's INT pin, READ_XY reads the panel and sleeps until the pin   *)
(* is released, POLL reads the panel if the pin is low.  The EXTI line     *)
(* latches an edge while it is unmasked and while it is masked it may.     *)
(***************************************************************************)
EXTENDS ServerKit

CONSTANT MaxTouches     (* bound on the times the panel pulls the pin low    *)

(* hw: line, whose event "edge" is the EXTI pending bit; open, the EXTI    *)
(* mask bit; low, the pin; touches, falling edges so far.                  *)
(* hist: woken, the WAITs answered OK.                                     *)

Init ==
    /\ usr = IdleUsers
    /\ srv = Resting(CHOOSE u \in Users : TRUE)
    /\ hw = [line |-> Line({"edge"}), open |-> TRUE, low |-> FALSE,
             touches |-> 0]
    /\ hist = [woken |-> 0]

(* touch_wait with and without a time-out, touch_read_xy, touch_poll.      *)
Request(u) == \E call \in {"wait", "wait for ever", "read", "poll"} : Ask(u, call)

Receive(u) ==
    \/ Recv(u, {"wait", "wait for ever"}, "ack")
    \/ Recv(u, {"read"}, "i2c")
    \/ Recv(u, {"poll"}, "pin")

(* touch_exti_ack clears the pending bit, then unmasks the interrupt.      *)
ExtiAck(line) == Acked(Cleared(line, {"edge"}))

WaitAck ==
    /\ srv.at = "ack"
    /\ Goto("unmask")
    /\ hw' = [hw EXCEPT !.line = ExtiAck(@)]
    /\ UNCHANGED hist

WaitUnmask ==
    /\ srv.at = "unmask"
    /\ Goto("wait")
    /\ hw' = [hw EXCEPT !.open = TRUE]
    /\ UNCHANGED hist

Woken ==
    /\ srv.at = "wait" /\ hw.line.bit
    /\ Goto("done")
    /\ hw' = [hw EXCEPT !.line = Taken(@)]
    /\ UNCHANGED hist

TimesOut ==
    /\ srv.at = "wait" /\ Call = "wait" /\ ~hw.line.bit /\ ~Due(hw.line)
    /\ srv' = [srv EXCEPT !.at = "done", !.late = TRUE]
    /\ UNCHANGED <<usr, hw, hist>>

WaitEndAck ==
    /\ srv.at = "done"
    /\ Goto("mask")
    /\ hw' = [hw EXCEPT !.line = ExtiAck(@)]
    /\ UNCHANGED hist

WaitEndMask ==
    /\ srv.at = "mask"
    /\ hw' = [hw EXCEPT !.open = FALSE]
    /\ hist' = IF srv.late THEN hist ELSE [hist EXCEPT !.woken = @ + 1]
    /\ Reply(IF srv.late THEN "etimeout" ELSE "ok", None)

(* READ_XY: the transfer may fail and the panel may report no touch; then  *)
(* the server sleeps up to 50 times for the release of the pin.            *)
ReadPanel ==
    /\ srv.at = "i2c"
    /\ \/ Goto("release")
       \/ \E rc \in {"i2c", "esrch"} : Reply(rc, None)
    /\ UNCHANGED <<hw, hist>>

ReadEnd ==
    /\ srv.at = "release"
    /\ hw' = [hw EXCEPT !.line = ExtiAck(@)]
    /\ Reply("ok", None)
    /\ UNCHANGED hist

(* POLL does not wait for the release.                                     *)
PollHigh ==
    /\ srv.at = "pin" /\ ~hw.low
    /\ Reply("released", None)
    /\ UNCHANGED <<hw, hist>>

PollLow ==
    /\ srv.at = "pin" /\ hw.low
    /\ Goto("poll")
    /\ UNCHANGED <<hw, hist>>

PollPanel ==
    /\ srv.at = "poll"
    /\ \/ /\ hw' = [hw EXCEPT !.line = ExtiAck(@)]
          /\ Reply("pressed", None)
       \/ \E rc \in {"i2c", "released"} : Reply(rc, None) /\ UNCHANGED hw
    /\ UNCHANGED hist

-----------------------------------------------------------------------------
Touch ==
    /\ ~hw.low /\ hw.touches < MaxTouches
    /\ \E latches \in IF hw.open THEN {TRUE} ELSE BOOLEAN :
          hw' = [hw EXCEPT !.low = TRUE, !.touches = @ + 1,
                           !.line = IF latches THEN Latched(@, "edge") ELSE @]
    /\ UNCHANGED <<usr, srv, hist>>

Untouch ==
    /\ hw.low
    /\ hw' = [hw EXCEPT !.low = FALSE]
    /\ UNCHANGED <<usr, srv, hist>>

Raises == hw.open /\ Due(hw.line)

Interrupt ==
    /\ Raises
    /\ hw' = [hw EXCEPT !.line = Delivered(@)]
    /\ UNCHANGED <<usr, srv, hist>>

Proceed ==
    \/ \E u \in Users : Receive(u)
    \/ WaitAck \/ WaitUnmask \/ Woken \/ TimesOut \/ WaitEndAck
    \/ WaitEndMask \/ ReadPanel \/ ReadEnd \/ PollHigh \/ PollLow
    \/ PollPanel \/ Interrupt

Next ==
    \/ Proceed
    \/ \E u \in Users : Request(u)
    \/ Touch \/ Untouch

Spec == Init /\ [][Next]_vars

-----------------------------------------------------------------------------
Places == {"ack", "unmask", "wait", "done", "mask", "i2c", "release", "pin",
           "poll"}

(* The variables keep their types.                                         *)
TypeOK ==
    /\ usr \in UserType({"wait", "wait for ever", "read", "poll"},
                        {"ok", "etimeout", "i2c", "esrch", "released",
                         "pressed"})
    /\ srv \in ServerType(Places, {}, 0)
    /\ hw \in [line : LineType({"edge"}), open : BOOLEAN, low : BOOLEAN,
               touches : 0 .. MaxTouches]
    /\ hist \in [woken : 0 .. MaxRuns]

(* No touch is reported twice: the WAITs answered OK, with the one that a  *)
(* notification left over would answer, are at most as many as the touches.*)
OkIsTrue ==
    hist.woken + (IF hw.line.bit THEN 1 ELSE 0) <= hw.touches

(* The interrupt is never left masked while the server sleeps, so a touch  *)
(* always wakes it.                                                        *)
Traced ==
    srv.at = "wait" =>
        hw.open /\ (hw.line.masked => hw.line.bit)

(* The server sleeps in a WAIT without a time-out and nobody touches: POLL *)
(* and READ_XY of the others are behind it.                                *)
Stalled ==
    /\ srv.at = "wait" /\ Call = "wait for ever"
    /\ hw.line.raw = {} /\ ~hw.line.bit
=============================================================================
