------------------------------ MODULE EspTwai -------------------------------
(***************************************************************************)
(* The CAN (TWAI) server of the ESP32-P4 board.  It runs the controller in *)
(* self-test: a frame that is sent is received back, and SEND is answered  *)
(* when a frame has come back, or after CAN_WAIT_MS with a time-out.       *)
(***************************************************************************)
EXTENDS ServerKit, Sequences

Twai == {"tx", "rx"}

(* hw: line; wire, the frame in the transmit buffer; fifo, frames received *)
(* and not drained; last, the frame rx_drain took last.                    *)
(* hist: the server has given up a wait.                                   *)

Init ==
    /\ usr = IdleUsers
    /\ srv = Resting(CHOOSE u \in Users : TRUE)
    /\ hw = [line |-> Line({}), wire |-> None, fifo |-> <<>>, last |-> None]
    /\ hist = FALSE

(* RF status follows the FIFO; reading TWAI_INT clears the other event.    *)
Read(l, fifo) == [l EXCEPT !.raw = IF fifo = <<>> THEN {} ELSE {"rx"}]

(* can_send, can_recv.                                                     *)
Request(u) == Ask(u, "send") \/ Ask(u, "recv")

Receive(u) == Recv(u, {"send"}, "tx?") \/ Recv(u, {"recv"}, "last")

(* CAN_MSG_RECV answers with the frame drained last.                       *)
AnswerLast ==
    /\ srv.at = "last"
    /\ Reply("ok", hw.last)
    /\ UNCHANGED <<hw, hist>>

CheckTx ==
    /\ srv.at = "tx?"
    /\ Goto(IF hw.wire = None THEN "load" ELSE "open tx")
    /\ UNCHANGED <<hw, hist>>

(* twai_wait_int: read TWAI_INT, acknowledge, enable, wait, disable, read. *)
Open(from, events, to) ==
    /\ srv.at = from
    /\ hw' = [hw EXCEPT !.line = Enabled(Acked(Read(@, hw.fifo)), events)]
    /\ srv' = [srv EXCEPT !.at = to, !.late = FALSE]
    /\ UNCHANGED <<usr, hist>>

OpenTx == Open("open tx", {"tx"}, "wait tx")
OpenRx == Open("open rx", {"rx"}, "wait rx")

Waiting == srv.at \in {"wait tx", "wait rx"}
Closing == IF srv.at = "wait tx" THEN "close tx" ELSE "close rx"

Woken ==
    /\ Waiting /\ hw.line.bit
    /\ Goto(Closing)
    /\ hw' = [hw EXCEPT !.line = Taken(@)]
    /\ UNCHANGED hist

TimesOut ==
    /\ Waiting /\ ~hw.line.bit /\ ~Due(hw.line)
    /\ srv' = [srv EXCEPT !.at = Closing, !.late = TRUE]
    /\ hist' = TRUE
    /\ UNCHANGED <<usr, hw>>

CloseTx ==
    /\ srv.at = "close tx"
    /\ hw' = [hw EXCEPT !.line = Enabled(Read(@, hw.fifo), {})]
    /\ IF srv.late THEN Reply("etimeout", None) ELSE Goto("load")
    /\ UNCHANGED hist

(* The frame is written to the transmit buffer and CMD_SELF_RX given.      *)
Load ==
    /\ srv.at = "load"
    /\ hw' = [hw EXCEPT !.wire = Own]
    /\ Goto("rx?")
    /\ UNCHANGED hist

(* Faulty variant: the status of the transmission is tested in the place   *)
(* of the reception, and is still that of the frame before.                *)
CheckRxSent ==
    /\ srv.at = "rx?"
    /\ Goto("drain")
    /\ UNCHANGED <<hw, hist>>

CheckRx ==
    /\ srv.at = "rx?"
    /\ Goto(IF hw.fifo = <<>> THEN "open rx" ELSE "drain")
    /\ UNCHANGED <<hw, hist>>

(* After a time-out the transmission is aborted, unless it is already      *)
(* under way on the wire, and answered.                                    *)
CloseRx ==
    /\ srv.at = "close rx"
    /\ \E wire \in IF srv.late THEN {None, hw.wire} ELSE {hw.wire} :
          hw' = [hw EXCEPT !.line = Enabled(Read(@, hw.fifo), {}),
                           !.wire = wire]
    /\ IF srv.late THEN Reply("etimeout", None) ELSE Goto("drain")
    /\ UNCHANGED hist

(* rx_drain takes one frame, if there is one, and SEND is answered OK.     *)
Drain ==
    /\ srv.at = "drain"
    /\ LET some == hw.fifo # <<>>
           last == IF some THEN Head(hw.fifo) ELSE hw.last
           rest == IF some THEN Tail(hw.fifo) ELSE <<>>
       IN /\ hw' = [hw EXCEPT !.fifo = rest, !.last = last,
                              !.line = IF rest = <<>> THEN Cleared(@, {"rx"})
                                       ELSE @]
          /\ Reply("ok", last)
    /\ UNCHANGED hist

-----------------------------------------------------------------------------
(* The controller: the frame in the transmit buffer goes out and comes     *)
(* back, which frees the buffer.                                           *)

SelfReceive ==
    /\ hw.wire # None
    /\ hw' = [hw EXCEPT !.wire = None, !.fifo = Append(@, hw.wire),
                        !.line = Latched(Latched(@, "tx"), "rx")]
    /\ UNCHANGED <<usr, srv, hist>>

Interrupt ==
    /\ Due(hw.line)
    /\ hw' = [hw EXCEPT !.line = Delivered(@)]
    /\ UNCHANGED <<usr, srv, hist>>

Proceed ==
    \/ \E u \in Users : Receive(u)
    \/ AnswerLast \/ CheckTx \/ OpenTx \/ OpenRx \/ Woken \/ TimesOut
    \/ CloseTx \/ Load \/ CheckRx \/ CloseRx \/ Drain \/ Interrupt

Next ==
    \/ Proceed
    \/ \E u \in Users : Request(u)
    \/ SelfReceive

Spec == Init /\ [][Next]_vars

-----------------------------------------------------------------------------
Places == {"last", "tx?", "open tx", "wait tx", "close tx", "load",
           "rx?", "open rx", "wait rx", "close rx", "drain"}

(* The variables keep their types.                                         *)
TypeOK ==
    /\ usr \in UserType({"send", "recv"}, {"ok", "etimeout"})
    /\ srv \in ServerType(Places, {}, 0)
    /\ hw.line \in LineType(Twai)
    /\ hw.wire \in Ids /\ hw.last \in Ids /\ hw.fifo \in Seq(Ids)
    /\ hist \in BOOLEAN

(* A SEND that is answered OK has got its own frame back, as long as the   *)
(* server has given up no wait; afterwards it may be the late frame of an  *)
(* earlier request, or none.                                               *)
OkIsTrue ==
    srv.at = "drain" =>
        \/ hw.fifo # <<>> /\ Head(hw.fifo) = Own
        \/ hist

(* Frames are left behind in the FIFO or in the transmit buffer, and the   *)
(* notification is left over, only after a wait that was given up.         *)
Traced ==
    (srv.at = "recv" /\ ~hist) =>
        hw.fifo = <<>> /\ hw.wire = None /\ ~hw.line.bit
=============================================================================
