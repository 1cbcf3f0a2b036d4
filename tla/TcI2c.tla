------------------------------- MODULE TcI2c --------------------------------
(***************************************************************************)
(* The I2C server of the TC275 board.  A request is one packet (a read, or *)
(* the address alone) or two (the address, then the address with data);    *)
(* each is awaited without bound in wait_protocol, which polls the latched *)
(* events first and sleeps only when there are none.  The interrupt is an  *)
(* edge: an event sets the service request, which the acknowledgement      *)
(* drops if the kernel is of that kind (see TcCan).                        *)
(***************************************************************************)
EXTENDS ServerKit

Events == {"end", "nack", "lost"}
Bad    == {"nack", "lost"}

(* hw: line, whose enabled events are not used; srr, the service request;  *)
(* drops; run, the request whose packet is on the wire; final, the packet  *)
(* is its last; busy, the bus is; ending, SETEND is requested; good, the   *)
(* request whose last packet was acknowledged last.                        *)
(* srv.left: 3 before the request, 2 in its address, 1 in its data, 0 when *)
(* the bus is released behind it.                                          *)
(* hist: polled, a wait has found its event by polling; early, requests    *)
(* woken without an event; lost, writes that lost the bus in their data.   *)

Init ==
    /\ usr = IdleUsers
    /\ srv = Resting(CHOOSE u \in Users : TRUE)
    /\ \E drops \in BOOLEAN :
          hw = [line |-> Line({}), srr |-> FALSE, drops |-> drops,
                run |-> None, final |-> FALSE, busy |-> FALSE,
                ending |-> FALSE, good |-> None]
    /\ hist = [polled |-> FALSE, early |-> {}, lost |-> {}]

AckRequest(h) == [h EXCEPT !.line = Acked(@), !.srr = @ /\ ~h.drops]
Raised(h, event) == [h EXCEPT !.line = Latched(@, event), !.srr = TRUE]

Enter(next, left) ==
    /\ srv' = [srv EXCEPT !.at = next, !.left = left]
    /\ UNCHANGED usr

(* i2c_probe, i2c_write, i2c_read.                                         *)
Request(u) == \E call \in {"probe", "write", "read"} : Ask(u, call)

Receive(u) ==
    /\ srv.at = "recv" /\ usr[u].at \in {"probe", "write", "read"}
    /\ srv' = [Resting(u) EXCEPT !.at = "bus?", !.left = 3]
    /\ UNCHANGED <<usr, hw, hist>>

(* A bus that is busy is released before the request, in vain perhaps.     *)
BusFree ==
    /\ srv.at = "bus?" /\ ~hw.busy
    /\ Goto("clear")
    /\ UNCHANGED <<hw, hist>>

BusBusy ==
    /\ srv.at = "bus?" /\ hw.busy
    /\ Goto("idle?")
    /\ UNCHANGED <<hw, hist>>

StillBusy ==
    /\ srv.at = "bus??"
    /\ IF hw.busy THEN Reply("edeadlk", None) ELSE Goto("clear")
    /\ UNCHANGED <<hw, hist>>

ClearAll ==
    /\ srv.at = "clear"
    /\ Enter("put", 2)
    /\ hw' = [hw EXCEPT !.line = Cleared(@, Events)]
    /\ UNCHANGED hist

Put ==
    /\ srv.at = "put"
    /\ Goto("poll")
    /\ hw' = [hw EXCEPT !.run = Own, !.busy = TRUE,
                        !.final = Call # "write" \/ srv.left = 1]
    /\ UNCHANGED hist

-----------------------------------------------------------------------------
(* wait_protocol.                                                          *)

Polled ==
    /\ srv.at = "poll" /\ hw.line.raw # {}
    /\ Goto("test")
    /\ hw' = AckRequest(hw)
    /\ hist' = [hist EXCEPT !.polled = TRUE]

PollsNothing ==
    /\ srv.at = "poll" /\ hw.line.raw = {}
    /\ Goto("open")
    /\ UNCHANGED <<hw, hist>>

Open ==
    /\ srv.at = "open"
    /\ Goto("wait")
    /\ hw' = AckRequest(hw)
    /\ UNCHANGED hist

Woken ==
    /\ srv.at = "wait" /\ hw.line.bit
    /\ Goto("test")
    /\ hw' = AckRequest([hw EXCEPT !.line = Taken(@)])
    /\ hist' = IF hw.line.raw # {} THEN hist
               ELSE [hist EXCEPT !.early = @ \cup {Own}]

-----------------------------------------------------------------------------
(* What follows a wait.  A refused packet ends the request: all events are *)
(* cleared and the bus is released.                                        *)

Refused ==
    /\ srv.at = "test"
    /\ \/ srv.left = 2 /\ hw.line.raw \cap Bad # {}
       \/ srv.left = 1 /\ Call = "write" /\ "nack" \in hw.line.raw
    /\ srv' = [srv EXCEPT !.at = "idle?", !.left = 0, !.raw = hw.line.raw]
    /\ hw' = [hw EXCEPT !.line = Cleared(@, Events)]
    /\ UNCHANGED <<usr, hist>>

(* The address is acknowledged.  A read keeps the event, for which it      *)
(* waits once more.                                                        *)
Addressed ==
    /\ srv.at = "test" /\ srv.left = 2 /\ hw.line.raw \cap Bad = {}
    /\ CASE Call = "probe" -> Enter("idle?", 0)
         [] Call = "write" -> Enter("put", 1)
         [] Call = "read"  -> Enter("poll", 1)
    /\ hw' = [hw EXCEPT !.line = Cleared(@, IF Call = "read" THEN {}
                                            ELSE {"end"})]
    /\ UNCHANGED hist

(* Behind the data of a write only NACK is tested.  A read whose data have *)
(* not arrived falls short.                                                *)
Moved ==
    /\ srv.at = "test" /\ srv.left = 1
    /\ Call = "write" => "nack" \notin hw.line.raw
    /\ srv' = [srv EXCEPT !.at = "idle?", !.left = 0,
                          !.late = Call = "read" /\ hw.good # Own]
    /\ hw' = [hw EXCEPT !.line = Cleared(@, {"end"})]
    /\ hist' = IF Call = "write" /\ "lost" \in hw.line.raw
               THEN [hist EXCEPT !.lost = @ \cup {Own}] ELSE hist
    /\ UNCHANGED usr

Verdict ==
    IF "nack" \in srv.raw /\ (Call = "read" \/ "lost" \notin srv.raw)
    THEN "esrch"
    ELSE IF "lost" \in srv.raw \/ srv.late THEN "eperm" ELSE "ok"

(* release_bus.                                                            *)
Return ==
    IF srv.left = 3 THEN Goto("bus??") ELSE Reply(Verdict, hw.good)

Idle ==
    /\ srv.at = "idle?" /\ ~hw.busy
    /\ Return
    /\ UNCHANGED <<hw, hist>>

SetEnd ==
    /\ srv.at = "idle?" /\ hw.busy
    /\ Goto("poll")
    /\ hw' = [hw EXCEPT !.ending = TRUE]
    /\ UNCHANGED hist

Released ==
    /\ srv.at = "test" /\ srv.left \in {0, 3}
    /\ Return
    /\ hw' = [hw EXCEPT !.line = Cleared(@, Events)]
    /\ UNCHANGED hist

-----------------------------------------------------------------------------
(* The controller: one event for a packet and one for SETEND, together if  *)
(* the packet was not over.                                                *)

PacketOver(event) ==
    /\ hw.run # None
    /\ hw' = Raised([hw EXCEPT !.run = None, !.ending = FALSE,
                        !.good = IF event = "end" /\ hw.final THEN hw.run
                                 ELSE @], event)
    /\ UNCHANGED <<usr, srv, hist>>

(* SETEND does not free a bus that another master has taken.               *)
Ended ==
    /\ hw.ending /\ hw.run = None
    /\ \E busy \in BOOLEAN :
          hw' = Raised([hw EXCEPT !.ending = FALSE, !.busy = busy], "end")
    /\ UNCHANGED <<usr, srv, hist>>

BusGetsFree ==
    /\ hw.busy /\ hw.run = None /\ ~hw.ending
    /\ hw' = [hw EXCEPT !.busy = FALSE]
    /\ UNCHANGED <<usr, srv, hist>>

Interrupt ==
    /\ hw.srr /\ ~hw.line.masked
    /\ hw' = [hw EXCEPT !.line = Delivered(@), !.srr = FALSE]
    /\ UNCHANGED <<usr, srv, hist>>

(* The waits rely on the controller to end its packets.                    *)
Proceed ==
    \/ \E u \in Users : Receive(u)
    \/ BusFree \/ BusBusy \/ StillBusy \/ ClearAll \/ Put
    \/ Polled \/ PollsNothing \/ Open \/ Woken
    \/ Refused \/ Addressed \/ Moved \/ Idle \/ SetEnd \/ Released
    \/ \E event \in Events : PacketOver(event)
    \/ Ended \/ Interrupt

Next ==
    \/ Proceed
    \/ \E u \in Users : Request(u)
    \/ BusGetsFree

Spec == Init /\ [][Next]_vars

-----------------------------------------------------------------------------
Places == {"bus?", "bus??", "clear", "put", "poll", "open", "wait", "test",
           "idle?"}

(* The variables keep their types.                                         *)
TypeOK ==
    /\ usr \in UserType({"probe", "write", "read"},
                        {"ok", "esrch", "eperm", "edeadlk"})
    /\ srv \in ServerType(Places, Events, 3)
    /\ hw \in [line : LineType(Events), srr : BOOLEAN, drops : BOOLEAN,
               run : Ids, final : BOOLEAN, busy : BOOLEAN, ending : BOOLEAN,
               good : Ids]
    /\ hist \in [polled : BOOLEAN, early : SUBSET Ids, lost : SUBSET Ids]

(* A request answered OK has been acknowledged to its end, unless one of   *)
(* its waits was woken without an event (a probe then finds a device that  *)
(* is not there) or a write lost the bus in its data.                      *)
OkIsTrue ==
    \A u \in Users :
        usr[u].rc = "ok" =>
            usr[u].val = usr[u].n \/ usr[u].n \in hist.early \cup hist.lost

(* A wait is woken without an event only after one that found its event by *)
(* polling, which leaves the notification of that event to the next.       *)
Traced == hist.early # {} => hist.polled

(* An event between the poll and an acknowledgement that drops it.         *)
Stalled ==
    /\ srv.at = "wait" /\ hw.drops
    /\ hw.line.raw # {} /\ ~hw.line.bit /\ ~hw.srr
=============================================================================
