----------------------------- MODULE LinumQspi ------------------------------
(***************************************************************************)
(* The QSPI flash server of the Linum board.  Every command is preceded by *)
(* an abort, then waits without bound for the transfer-complete interrupt. *)
(* Reading the JEDEC id sends four commands without data first, whose      *)
(* results are ignored.  TCF is left set until the data are read out, so   *)
(* the acknowledgement that ends a wait raises the interrupt once more.    *)
(*                                                                         *)
(* A request asks for 1 to 16 bytes, which the answer carries in words 2   *)
(* to 5.  The server then writes the control register into word 5, so that *)
(* the last bytes of a long request (13 to 16) are lost.                   *)
(***************************************************************************)
EXTENDS ServerKit

Prefix == 4         (* exit QPI, reset enable, reset, release power-down     *)

Longs    == {"long id", "long cmd", "long read"}
Jedec    == {"id", "long id"}                   (* the command 0x9F          *)
Commands == Jedec \cup {"cmd", "long cmd"}
Reads    == {"read", "long read"}

(* hw: line; run, the request whose command is under way or 0; data, the   *)
(* request all of whose bytes the FIFO holds or 0; cmd, what the command   *)
(* started last is for: nothing but itself, data, or data at an address.   *)
(* The interrupt is enabled for TCF ("tc") and not for TEF ("te").         *)
(* hist: early, a wait has been woken by an interrupt left over; long, the *)
(* long requests; failed, those whose transfer ended in an error.          *)

Init ==
    /\ usr = IdleUsers
    /\ srv = Resting(CHOOSE u \in Users : TRUE)
    /\ hw = [line |-> Line({"tc"}), run |-> None, data |-> None,
             cmd |-> "bare"]
    /\ hist = [early |-> FALSE, long |-> {}, failed |-> {}]

(* qspi_cmd_read, qspi_read.                                               *)
Request(u) == \E call \in Commands \cup Reads : Ask(u, call)

(* left counts the commands without data that are still to be sent.        *)
Receive(u) ==
    /\ srv.at = "recv" /\ usr[u].at \in Commands \cup Reads
    /\ srv' = [Resting(u) EXCEPT !.at = "abort",
                  !.left = IF usr[u].at \in Jedec THEN Prefix ELSE 0]
    /\ hist' = IF usr[u].at \in Longs
               THEN [hist EXCEPT !.long = @ \cup {usr[u].n}] ELSE hist
    /\ UNCHANGED <<usr, hw>>

(* qspi_abort: aborting may itself set TCF, which is cleared behind it.    *)
(* The abort behind a command of the prefix and the one before the next    *)
(* command are taken as one.                                               *)
Abort ==
    /\ srv.at = "abort"
    /\ Goto("clear")
    /\ \E event \in SUBSET {"tc"} :
          hw' = [hw EXCEPT !.run = None, !.data = None,
                           !.line.raw = @ \cup event]
    /\ UNCHANGED hist

AbortClear ==
    /\ srv.at = "clear"
    /\ Goto("command")
    /\ hw' = [hw EXCEPT !.line = Cleared(@, {"tc", "te"})]
    /\ UNCHANGED hist

(* do_cmd_write and do_cmd_read acknowledge the interrupt before they      *)
(* start the command; do_read does not.                                    *)
Command ==
    /\ srv.at = "command"
    /\ Goto("open")
    /\ hw' = [hw EXCEPT !.run = Own,
                        !.cmd  = IF srv.left # 0 THEN "bare"
                                 ELSE IF Call \in Reads THEN "address"
                                 ELSE "data",
                        !.line = IF Call \in Reads THEN @ ELSE Acked(@)]
    /\ UNCHANGED hist

(* wait_tc.                                                                *)
Open ==
    /\ srv.at = "open"
    /\ Goto("wait")
    /\ hw' = [hw EXCEPT !.line = Acked(@)]
    /\ UNCHANGED hist

Woken ==
    /\ srv.at = "wait" /\ hw.line.bit
    /\ Goto("test")
    /\ hw' = [hw EXCEPT !.line = Acked(Taken(@))]
    /\ UNCHANGED hist

Complete == "tc" \in hw.line.raw

(* Faulty variant: the commands of the prefix are not counted.             *)
TestPrefixEndless ==
    /\ srv.at = "test"
    /\ srv' = [srv EXCEPT !.at = "abort", !.left = @ - 1]
    /\ hist' = [hist EXCEPT !.early = @ \/ ~Complete]
    /\ UNCHANGED <<usr, hw>>

(* A command of the prefix is followed by the next, whether or not it has  *)
(* completed.                                                              *)
TestPrefix ==
    /\ srv.at = "test" /\ srv.left # 0
    /\ srv' = [srv EXCEPT !.at = "abort", !.left = @ - 1]
    /\ hist' = [hist EXCEPT !.early = @ \/ ~Complete]
    /\ UNCHANGED <<usr, hw>>

TestLate ==
    /\ srv.at = "test" /\ srv.left = 0 /\ ~Complete
    /\ Reply("etimeout", None)
    /\ hist' = [hist EXCEPT !.early = TRUE]
    /\ UNCHANGED hw

TestDone ==
    /\ srv.at = "test" /\ srv.left = 0 /\ Complete
    /\ Goto("drain")
    /\ UNCHANGED <<hw, hist>>

(* pack_reply, and word 5 written over behind it.                          *)
Carried == IF Call \in Longs THEN None ELSE hw.data

(* do_cmd_read: an empty FIFO is a time-out that leaves the flags as they  *)
(* are; otherwise the bytes are read out and the flags cleared.            *)
Pop ==
    /\ srv.at = "drain" /\ Call \in Commands
    /\ hw' = IF hw.data = None THEN hw
             ELSE [hw EXCEPT !.data = None,
                             !.line = Cleared(@, {"tc", "te"})]
    /\ IF hw.data = None THEN Reply("etimeout", None)
       ELSE Reply("ok", Carried)
    /\ UNCHANGED hist

(* do_read and qspi_drain: the bytes are read out one by one; when they    *)
(* run short TEF is cleared and what was read is dropped.  TCF stays set.  *)
Drain ==
    /\ srv.at = "drain" /\ Call \in Reads
    /\ hw' = IF hw.data = None THEN [hw EXCEPT !.line = Cleared(@, {"te"})]
             ELSE [hw EXCEPT !.data = None]
    /\ IF hw.data = None THEN Reply("etimeout", None)
       ELSE Reply("ok", Carried)
    /\ UNCHANGED hist

-----------------------------------------------------------------------------
Transfer ==
    /\ hw.run # None
    /\ hw' = [hw EXCEPT !.run = None, !.line = Latched(@, "tc"),
                        !.data = IF hw.cmd = "bare" THEN @ ELSE hw.run]
    /\ UNCHANGED <<usr, srv, hist>>

(* A command with an address outside the flash ends in TEF, with TCF or    *)
(* without, and its bytes do not all come.                                 *)
TransferError ==
    /\ hw.run # None /\ hw.cmd = "address"
    /\ \E event \in SUBSET {"tc"} :
          hw' = [hw EXCEPT !.run = None,
                           !.line.raw = @ \cup event \cup {"te"}]
    /\ hist' = [hist EXCEPT !.failed = @ \cup {hw.run}]
    /\ UNCHANGED <<usr, srv>>

Interrupt ==
    /\ Due(hw.line)
    /\ hw' = [hw EXCEPT !.line = Delivered(@)]
    /\ UNCHANGED <<usr, srv, hist>>

(* The controller ends the command under way, well or in error.            *)
Proceed ==
    \/ \E u \in Users : Receive(u)
    \/ Abort \/ AbortClear \/ Command \/ Open \/ Woken \/ TestPrefix
    \/ TestLate \/ TestDone \/ Pop \/ Drain \/ Transfer \/ TransferError
    \/ Interrupt

Next ==
    \/ Proceed
    \/ \E u \in Users : Request(u)

Spec == Init /\ [][Next]_vars

-----------------------------------------------------------------------------
Places == {"abort", "clear", "command", "open", "wait", "test", "drain"}

(* The variables keep their types.                                         *)
TypeOK ==
    /\ usr \in UserType(Commands \cup Reads, {"ok", "etimeout"})
    /\ srv \in ServerType(Places, {}, Prefix)
    /\ hw \in [line : LineType({"tc", "te"}), run : Ids, data : Ids,
               cmd : {"bare", "data", "address"}]
    /\ hist \in [early : BOOLEAN, long : SUBSET Ids, failed : SUBSET Ids]

(* An answer OK carries the bytes of its own request and never another's,  *)
(* although a wait may be woken for the command before; but those of a     *)
(* long request are never whole, as the control register has taken the     *)
(* place of the last of them.                                              *)
OkIsTrue ==
    \A u \in Users : usr[u].rc = "ok" =>
        usr[u].val = IF usr[u].n \in hist.long THEN None ELSE usr[u].n

(* A request fails only because its own transfer did, or because a wait    *)
(* was woken by an interrupt left over; and the first wait of all cannot   *)
(* be.  When the wait found TCF the bytes are there, unless TEF says why   *)
(* they are not.                                                           *)
Traced ==
    /\ \A u \in Users : usr[u].rc = "etimeout" =>
          hist.early \/ usr[u].n \in hist.failed
    /\ srv.at = "drain" =>
          hw.data = Own \/ ("te" \in hw.line.raw /\ Own \in hist.failed)

(* wait_tc has no bound, and the interrupt for TEF is not enabled: a       *)
(* transfer that ends in error without TCF is waited for in vain.          *)
Stalled ==
    srv.at = "wait" /\ hw.run = None /\ ~hw.line.bit
    /\ "te" \in hw.line.raw /\ "tc" \notin hw.line.raw
=============================================================================
