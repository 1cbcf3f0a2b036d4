----------------------------- MODULE UartServer -----------------------------
(***************************************************************************)
(* The UART servers of the Linum board (a transmit register) and of the    *)
(* ESP32-P4 board (a transmit FIFO): a byte is written when there is room  *)
(* for it, and the server sleeps, with one notification bit for both       *)
(* directions, until the interrupt says there is.                          *)
(***************************************************************************)
EXTENDS ServerKit

CONSTANTS
    Depth,      (* bytes the transmitter holds                               *)
    Receives,   (* the receive calls of the board                            *)
    AcksAgain,  (* the board acknowledges once more after the wait           *)
    Batch,      (* bytes of one transmit call, at most                       *)
    MaxBytes    (* bound on the bytes received                               *)

Events == {"space", "byte"}

(* hw: line; used, bytes in the transmitter; full, a received byte is      *)
(* there; over, a byte has come on top of it and is lost; rest, bytes the  *)
(* line has still to bring.                                                *)
(* hist: bytes written into a full transmitter.                            *)

(* The two events are levels.  The one of the receiver is raised by an     *)
(* overrun too (ORE, under RXNEIE), which no driver clears.                *)
Levels(h) ==
    [h EXCEPT !.line.raw = (IF h.used < Depth THEN {"space"} ELSE {})
                           \cup (IF h.full \/ h.over THEN {"byte"} ELSE {})]

Init ==
    /\ usr = IdleUsers
    /\ srv = Resting(CHOOSE u \in Users : TRUE)
    /\ hw = Levels([line |-> Line({}), used |-> 0, full |-> FALSE,
                    over |-> FALSE, rest |-> MaxBytes])
    /\ hist = 0

(* uart_tx_byte, uart_tx_buf and the receive calls.                        *)
Request(u) == \E call \in {"tx"} \cup Receives : Ask(u, call)

Receive(u) ==
    \/ /\ srv.at = "recv" /\ usr[u].at = "tx"
       /\ \E n \in 1 .. Batch :
             srv' = [Resting(u) EXCEPT !.at = "room?", !.left = n]
       /\ UNCHANGED <<usr, hw, hist>>
    \/ Recv(u, Receives, "byte?")

Room ==
    /\ srv.at = "room?"
    /\ Goto(IF hw.used < Depth THEN "write" ELSE "ack tx")
    /\ UNCHANGED <<hw, hist>>

Byte ==
    /\ srv.at = "byte?"
    /\ IF hw.full THEN Goto("take")
       ELSE IF Call = "rx nb" THEN Reply("etimeout", None)
       ELSE Goto("ack rx")
    /\ UNCHANGED <<hw, hist>>

(* wait_txe, wait_rxne, tx_wait_space: acknowledge, enable, wait, ...      *)
Ack ==
    /\ srv.at \in {"ack tx", "ack rx"}
    /\ Goto(IF srv.at = "ack tx" THEN "enable tx" ELSE "enable rx")
    /\ hw' = [hw EXCEPT !.line = Acked(@)]
    /\ UNCHANGED hist

Enable(from, event, to) ==
    /\ srv.at = from
    /\ Goto(to)
    /\ hw' = [hw EXCEPT !.line = Enabled(@, {event})]
    /\ UNCHANGED hist

EnableTx == Enable("enable tx", "space", "wait tx")
EnableRx == Enable("enable rx", "byte", "wait rx")

Woken ==
    /\ srv.at \in {"wait tx", "wait rx"} /\ hw.line.bit
    /\ Goto(IF srv.at = "wait tx" THEN "disable tx" ELSE "disable rx")
    /\ hw' = [hw EXCEPT !.line = Taken(@)]
    /\ UNCHANGED hist

(* Faulty variant: the interrupt is acknowledged before it is disabled.    *)
DisableLate ==
    /\ srv.at \in {"disable tx", "disable rx"}
    /\ Goto(IF srv.at = "disable tx" THEN "write" ELSE "take")
    /\ hw' = [hw EXCEPT !.line = Enabled(IF Due(Acked(@)) THEN Delivered(@)
                                         ELSE Acked(@), {})]
    /\ UNCHANGED hist

(* ... disable, and on one board acknowledge again.                        *)
Disable ==
    /\ srv.at \in {"disable tx", "disable rx"}
    /\ Goto(IF srv.at = "disable tx" THEN "write" ELSE "take")
    /\ hw' = [hw EXCEPT !.line = IF AcksAgain THEN Acked(Enabled(@, {}))
                                 ELSE Enabled(@, {})]
    /\ UNCHANGED hist

Write ==
    /\ srv.at = "write"
    /\ IF hw.used < Depth
       THEN hw' = Levels([hw EXCEPT !.used = @ + 1]) /\ UNCHANGED hist
       ELSE hist' = hist + 1 /\ UNCHANGED hw
    /\ IF srv.left = 1 THEN Reply("ok", None)
       ELSE srv' = [srv EXCEPT !.at = "room?", !.left = @ - 1]
            /\ UNCHANGED usr

Take ==
    /\ srv.at = "take"
    /\ IF hw.full THEN Reply("ok", None) ELSE Reply("etimeout", None)
    /\ hw' = Levels([hw EXCEPT !.full = FALSE])
    /\ UNCHANGED hist

-----------------------------------------------------------------------------
Transmit ==
    /\ hw.used > 0
    /\ hw' = Levels([hw EXCEPT !.used = @ - 1])
    /\ UNCHANGED <<usr, srv, hist>>

Arrive ==
    /\ hw.rest > 0
    /\ hw' = Levels([hw EXCEPT !.full = TRUE, !.over = @ \/ hw.full,
                               !.rest = @ - 1])
    /\ UNCHANGED <<usr, srv, hist>>

Interrupt ==
    /\ Due(hw.line)
    /\ hw' = [hw EXCEPT !.line = Delivered(@)]
    /\ UNCHANGED <<usr, srv, hist>>

Proceed ==
    \/ \E u \in Users : Receive(u)
    \/ Room \/ Byte \/ Ack \/ EnableTx \/ EnableRx \/ Woken \/ Disable
    \/ Write \/ Take \/ Transmit \/ Interrupt

Next ==
    \/ Proceed
    \/ \E u \in Users : Request(u)
    \/ Arrive

Spec == Init /\ [][Next]_vars

-----------------------------------------------------------------------------
Places == {"room?", "byte?", "ack tx", "ack rx", "enable tx", "enable rx",
           "wait tx", "wait rx", "disable tx", "disable rx", "write", "take"}

(* The variables keep their types.                                         *)
TypeOK ==
    /\ usr \in UserType({"tx"} \cup Receives, {"ok", "etimeout"})
    /\ srv \in ServerType(Places, {}, Batch)
    /\ hw \in [line : LineType(Events), used : 0 .. Depth, full : BOOLEAN,
               over : BOOLEAN, rest : 0 .. MaxBytes]
    /\ hist \in Nat

(* No byte is written into a full transmitter, although the notification   *)
(* that wakes the server may come from either direction.                   *)
OkIsTrue == hist = 0

(* No notification and no enabled interrupt outlives the wait it was for;  *)
(* so a server that waited for a byte finds one, unless a byte was lost to *)
(* an overrun: every receive that would wait is then answered at once.     *)
Traced ==
    /\ srv.at = "recv" => ~hw.line.bit /\ hw.line.ena = {}
    /\ srv.at = "take" => hw.full \/ hw.over

(* A blocking receive waits for a byte and none comes: the bytes the       *)
(* others have to send are behind it.                                      *)
Stalled == srv.at = "wait rx" /\ ~hw.full /\ ~hw.over
=============================================================================
