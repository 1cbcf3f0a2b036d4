------------------------------- MODULE EspI2c -------------------------------
(***************************************************************************)
(* The I2C server of the ESP32-P4 board.  A transfer is a list of commands *)
(* that the controller executes alone; it latches its end, a missing       *)
(* acknowledgement (after which it still sends the STOP) or a fault in     *)
(* INT_RAW, and the server waits for the first of these at most 50 ms.     *)
(***************************************************************************)
EXTENDS ServerKit

Events == {"done", "nack", "fault"}

(* hw: line; run, the transfer on the wire; refused, its slave has not     *)
(* acknowledged; good, the last transfer that was acknowledged to its end. *)
(* hist: requests that found the transfer before them unfinished: still on *)
(* the wire, or its interrupt not yet delivered.                           *)

Unfinished == hw.run # None \/ Due(hw.line)

Init ==
    /\ usr = IdleUsers
    /\ srv = Resting(CHOOSE u \in Users : TRUE)
    /\ hw = [line |-> Line(Events), run |-> None, refused |-> FALSE,
             good |-> None]
    /\ hist = {}

(* i2c_write, i2c_read; i2c_probe is a write without data.                 *)
Request(u) == Ask(u, "write") \/ Ask(u, "read")

Receive(u) == Recv(u, {"write", "read"}, "drain")

(* xfer_begin: the notification that the transfer before has left is       *)
(* polled away, ...                                                        *)
DrainNotif ==
    /\ srv.at = "drain"
    /\ Goto("clear")
    /\ hw' = [hw EXCEPT !.line = Taken(@)]
    /\ hist' = IF Unfinished THEN hist \cup {Own} ELSE hist

(* ... the latched events are cleared, ...                                 *)
ClearEvents ==
    /\ srv.at = "clear"
    /\ Goto("reset")
    /\ hw' = [hw EXCEPT !.line = Cleared(@, Events)]
    /\ UNCHANGED hist

(* ... and a controller that is still busy is reset.                       *)
ResetBusy ==
    /\ srv.at = "reset"
    /\ Goto("start")
    /\ hw' = [hw EXCEPT !.run = None]
    /\ UNCHANGED hist

Start ==
    /\ srv.at = "start"
    /\ Goto("open")
    /\ hw' = [hw EXCEPT !.run = Own, !.refused = FALSE]
    /\ UNCHANGED hist

(* wait_ev: acknowledge, wait, acknowledge; a wait that has timed out      *)
(* succeeds after all when an event is latched by now.                     *)
Open ==
    /\ srv.at = "open"
    /\ Goto("wait")
    /\ hw' = [hw EXCEPT !.line = Acked(@)]
    /\ UNCHANGED hist

Woken ==
    /\ srv.at = "wait" /\ hw.line.bit
    /\ Goto("read")
    /\ hw' = [hw EXCEPT !.line = Acked(Taken(@))]
    /\ UNCHANGED hist

TimesOut ==
    /\ srv.at = "wait" /\ ~hw.line.bit /\ ~Due(hw.line)
    /\ Goto("late")
    /\ UNCHANGED <<hw, hist>>

TooLate ==
    /\ srv.at = "late"
    /\ srv' = [srv EXCEPT !.at = "read", !.late = hw.line.raw = {}]
    /\ hw' = [hw EXCEPT !.line = Acked(@)]
    /\ UNCHANGED <<usr, hist>>

(* finish_xfer: INT_RAW is read and then cleared.                          *)
ReadRaw ==
    /\ srv.at = "read"
    /\ srv' = [srv EXCEPT !.at = "finish", !.raw = hw.line.raw]
    /\ UNCHANGED <<usr, hw, hist>>

Verdict ==
    IF srv.late THEN "etimeout"
    ELSE IF "nack" \in srv.raw THEN "esrch"
    ELSE IF "fault" \notin srv.raw /\ "done" \in srv.raw THEN "ok"
    ELSE "einval"

(* i2c_do_read turns every failure into one.                               *)
Finish ==
    /\ srv.at = "finish"
    /\ hw' = [hw EXCEPT !.line = Cleared(@, Events)]
    /\ Reply(IF Call = "read" /\ Verdict # "ok" THEN "einval" ELSE Verdict,
             hw.good)
    /\ UNCHANGED hist

-----------------------------------------------------------------------------
(* The controller and the bus.                                             *)

Nack ==
    /\ hw.run # None /\ ~hw.refused
    /\ hw' = [hw EXCEPT !.refused = TRUE, !.line = Latched(@, "nack")]
    /\ UNCHANGED <<usr, srv, hist>>

TransComplete ==
    /\ hw.run # None
    /\ hw' = [hw EXCEPT !.run = None, !.line = Latched(@, "done"),
                        !.good = IF hw.refused THEN @ ELSE hw.run]
    /\ UNCHANGED <<usr, srv, hist>>

BusFault ==
    /\ hw.run # None
    /\ hw' = [hw EXCEPT !.run = None, !.line = Latched(@, "fault")]
    /\ UNCHANGED <<usr, srv, hist>>

Interrupt ==
    /\ Due(hw.line)
    /\ hw' = [hw EXCEPT !.line = Delivered(@)]
    /\ UNCHANGED <<usr, srv, hist>>

Proceed ==
    \/ \E u \in Users : Receive(u)
    \/ DrainNotif \/ ClearEvents \/ ResetBusy \/ Start \/ Open \/ Woken
    \/ TimesOut \/ TooLate \/ ReadRaw \/ Finish \/ Interrupt

Next ==
    \/ Proceed
    \/ \E u \in Users : Request(u)
    \/ Nack \/ TransComplete \/ BusFault

Spec == Init /\ [][Next]_vars

-----------------------------------------------------------------------------
Places == {"drain", "clear", "reset", "start", "open", "wait",
           "late", "read", "finish"}

(* The variables keep their types.                                         *)
TypeOK ==
    /\ usr \in UserType({"write", "read"},
                        {"ok", "esrch", "einval", "etimeout"})
    /\ srv \in ServerType(Places, Events, 0)
    /\ hw \in [line : LineType(Events), run : Ids, refused : BOOLEAN,
               good : Ids]
    /\ hist \subseteq Ids

(* A transfer answered OK is one the slave has acknowledged to its end,    *)
(* unless the transfer before it, refused or given up, was unfinished when *)
(* it began: its STOP may then end within xfer_begin, behind the clearing  *)
(* of the events, and pass for the end of the new one.                     *)
OkIsTrue ==
    \A u \in Users :
        usr[u].rc = "ok" => usr[u].val = usr[u].n \/ usr[u].n \in hist

(* The server is woken without an event only in the same case: otherwise   *)
(* polling the notification away has left none over.                       *)
Traced ==
    srv.at = "finish" /\ ~srv.late /\ srv.raw = {} => Own \in hist
=============================================================================
