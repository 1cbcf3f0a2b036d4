------------------------------ MODULE LinumCan ------------------------------
(***************************************************************************)
(* The FDCAN server of the Linum board: one transmit buffer, a receive     *)
(* FIFO of one element, SEND that does not wait for the bus, and RECV that *)
(* waits without bound for a frame, occupying the server.                  *)
(***************************************************************************)
EXTENDS ServerKit

CONSTANT MaxFrames      (* bound on the frames of the other node             *)

(* hw: line; tx, the request in the transmit buffer; fifo, the number of   *)
(* the frame in the receive FIFO or 0; sent, frames stored so far, which   *)
(* numbers them; bus, frames the other node has still to send.             *)
(* hist: took, the frame delivered last; eager, a RECV has found its frame *)
(* before it waited; twice, a frame has been delivered again or late.      *)

Init ==
    /\ usr = IdleUsers
    /\ srv = Resting(CHOOSE u \in Users : TRUE)
    /\ hw = [line |-> Line({"new"}), tx |-> None, fifo |-> 0, sent |-> 0,
             bus |-> MaxFrames]
    /\ hist = [took |-> 0, eager |-> FALSE, twice |-> FALSE]

(* can_send, can_recv.                                                     *)
Request(u) == Ask(u, "send") \/ Ask(u, "recv")

Receive(u) == Recv(u, {"send"}, "send") \/ Recv(u, {"recv"}, "level")

SendBusy ==
    /\ srv.at = "send" /\ hw.tx # None
    /\ Reply("etimeout", None)
    /\ UNCHANGED <<hw, hist>>

Send ==
    /\ srv.at = "send" /\ hw.tx = None
    /\ hw' = [hw EXCEPT !.tx = Own]
    /\ Reply("ok", Own)
    /\ UNCHANGED hist

(* can_hw_recv waits only when the fill level is zero.                     *)
Level ==
    /\ srv.at = "level"
    /\ Goto(IF hw.fifo = 0 THEN "open" ELSE "take")
    /\ UNCHANGED <<hw, hist>>

(* A frame that comes before the acknowledgement is notified twice.        *)
Open ==
    /\ srv.at = "open"
    /\ Goto("wait")
    /\ hw' = [hw EXCEPT !.line = Acked(@)]
    /\ hist' = [hist EXCEPT !.eager = @ \/ hw.fifo # 0]

Woken ==
    /\ srv.at = "wait" /\ hw.line.bit
    /\ Goto("level2")
    /\ hw' = [hw EXCEPT !.line = Taken(@)]
    /\ UNCHANGED hist

Empty ==
    /\ srv.at = "level2" /\ hw.fifo = 0
    /\ Reply("etimeout", None)
    /\ UNCHANGED <<hw, hist>>

Take ==
    /\ \/ srv.at = "take"
       \/ srv.at = "level2" /\ hw.fifo # 0
    /\ Goto("release")
    /\ hist' = [took |-> hw.fifo, eager |-> hist.eager \/ srv.at = "take",
                twice |-> hist.twice \/ hw.fifo <= hist.took]
    /\ UNCHANGED hw

(* The FIFO element is released before the interrupt flag is cleared: a    *)
(* frame stored in between loses its flag and not its place.               *)
Release ==
    /\ srv.at = "release"
    /\ Goto("clear")
    /\ hw' = [hw EXCEPT !.fifo = 0]
    /\ UNCHANGED hist

Clear ==
    /\ srv.at = "clear"
    /\ hw' = [hw EXCEPT !.line = Acked(Cleared(@, {"new"}))]
    /\ Reply("ok", Own)
    /\ UNCHANGED hist

-----------------------------------------------------------------------------
(* The bus: a frame is stored when the FIFO is free, else it is lost.      *)

Store(h) ==
    IF h.fifo = 0
    THEN [h EXCEPT !.fifo = h.sent + 1, !.sent = @ + 1,
                   !.line = Latched(@, "new")]
    ELSE h

LoopBack ==
    /\ hw.tx # None
    /\ hw' = Store([hw EXCEPT !.tx = None])
    /\ UNCHANGED <<usr, srv, hist>>

OtherNode ==
    /\ hw.bus # 0
    /\ hw' = Store([hw EXCEPT !.bus = @ - 1])
    /\ UNCHANGED <<usr, srv, hist>>

Interrupt ==
    /\ Due(hw.line)
    /\ hw' = [hw EXCEPT !.line = Delivered(@)]
    /\ UNCHANGED <<usr, srv, hist>>

Proceed ==
    \/ \E u \in Users : Receive(u)
    \/ SendBusy \/ Send \/ Level \/ Open \/ Woken \/ Empty \/ Take
    \/ Release \/ Clear \/ Interrupt \/ LoopBack

Next ==
    \/ Proceed
    \/ \E u \in Users : Request(u)
    \/ OtherNode

Spec == Init /\ [][Next]_vars

-----------------------------------------------------------------------------
Places == {"send", "level", "open", "wait", "level2", "take", "release",
           "clear"}
Frames == 0 .. (MaxRuns + MaxFrames)

(* The variables keep their types.                                         *)
TypeOK ==
    /\ usr \in UserType({"send", "recv"}, {"ok", "etimeout"})
    /\ srv \in ServerType(Places, {}, 0)
    /\ hw \in [line : LineType({"new"}), tx : Ids, fifo : Frames,
               sent : Frames, bus : 0 .. MaxFrames]
    /\ hist \in [took : Frames, eager : BOOLEAN, twice : BOOLEAN]

(* RECV delivers every stored frame at most once and in the order stored.  *)
OkIsTrue == ~hist.twice

(* A RECV blocks only while nothing is stored: a frame in the FIFO has its *)
(* flag, its notification or its place before the test.  And a RECV fails  *)
(* only after one has found its frame before it began to wait, which       *)
(* leaves that frame's notification to the next.                           *)
Traced ==
    /\ srv.at = "wait" /\ hw.fifo # 0 =>
          hw.line.bit \/ Due(hw.line)
    /\ srv.at = "level2" /\ hw.fifo = 0 => hist.eager

(* The server waits for a frame and none is on its way: who sends is       *)
(* behind the one who waits.                                               *)
Stalled == srv.at = "wait" /\ hw.tx = None /\ hw.fifo = 0
=============================================================================
