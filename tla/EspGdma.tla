------------------------------ MODULE EspGdma ------------------------------
(***************************************************************************)
(* The DMA servers of the ESP32-P4 board (dma for the AHB controller,      *)
(* gdma_axi for the AXI controller, which differ in register names only)   *)
(* and the threads that use them: the SPI servers, which arm a receiving   *)
(* and a transmitting channel and wait for both, the ADC server, which     *)
(* arms one for a frame, and callers of memcpy.  The server waits for a    *)
(* channel's interrupt at most 100 ms; a channel that is late is not       *)
(* stopped, only reset when it is armed again.                             *)
(***************************************************************************)
EXTENDS ServerKit

CONSTANT Role       (* user -> "spi", "adc" or "mem"                         *)

(* usr[u]: at, n as in ServerKit; rx, tx, the answers to its two waits.    *)
(* hw[c] for a channel: line; run, the request it transfers for; buf, the  *)
(* request whose buffer the server remembers (rx_dst, buf); by, the        *)
(* request that completed last; fed, its peripheral is enabled.            *)
(* hist: channels on which a wait has timed out.                           *)

Rx(u) == <<u, "rx">>
Tx(u) == <<u, "tx">>
Chans == Users \X {"rx", "tx"}

Waits == {"wait rx", "wait tx"}
Calls == {"arm rx", "arm tx", "copy"} \cup Waits
Side(call) == IF call \in {"arm tx", "wait tx"} THEN "tx" ELSE "rx"
Chan == <<srv.user, Side(Call)>>

Both == {"eof", "err"}

-----------------------------------------------------------------------------
(* A user.  Before it arms it has its peripheral stopped and reset; it     *)
(* starts it when armed and stops it after the last wait.                  *)

Feed(u, on) ==
    hw' = [c \in Chans |->
              IF c[1] = u /\ Role[u] # "mem" THEN [hw[c] EXCEPT !.fed = on]
              ELSE hw[c]]

Begin(u) ==
    /\ usr[u].at = "idle"
    /\ \E n \in 1 .. MaxRuns :
          /\ Fresh(n)
          /\ usr' = [usr EXCEPT ![u] =
                        [at |-> IF Role[u] = "mem" THEN "copy" ELSE "arm rx",
                         n |-> n, rx |-> "", tx |-> ""]]
    /\ Feed(u, FALSE)
    /\ UNCHANGED <<srv, hist>>

Start(u) ==
    /\ usr[u].at = "start"
    /\ usr' = [usr EXCEPT ![u].at =
                  IF Role[u] = "spi" THEN "wait tx" ELSE "wait rx"]
    /\ Feed(u, TRUE)
    /\ UNCHANGED <<srv, hist>>

Stop(u) ==
    /\ usr[u].at = "stop"
    /\ usr' = [usr EXCEPT ![u].at = "idle"]
    /\ Feed(u, FALSE)
    /\ UNCHANGED <<srv, hist>>

(* Where an answer leaves the user: the SPI server waits for both channels *)
(* whatever the first wait says.                                           *)
After(u) ==
    CASE usr[u].at = "arm rx"  -> IF Role[u] = "spi" THEN "arm tx" ELSE "start"
      [] usr[u].at = "arm tx"  -> "start"
      [] usr[u].at = "wait tx" -> "wait rx"
      [] OTHER -> "stop"

Answer(rc) ==
    LET u == srv.user IN
    /\ usr' = [usr EXCEPT ![u].at = After(u),
                          ![u].rx = IF Call \in {"wait rx", "copy"}
                                    THEN rc ELSE @,
                          ![u].tx = IF Call = "wait tx" THEN rc ELSE @]
    /\ srv' = Resting(u)

-----------------------------------------------------------------------------
(* The server.                                                             *)

Receive(u) ==
    \/ Recv(u, Waits, "wait")
    \/ Recv(u, Calls \ Waits, "reset")

(* Arming: the channel is reset, its latched status cleared, and started.  *)
ArmReset ==
    /\ srv.at = "reset"
    /\ Goto("start")
    /\ hw' = [hw EXCEPT ![Chan].run = None]
    /\ UNCHANGED hist

ArmStart ==
    /\ srv.at = "start"
    /\ hw' = [hw EXCEPT ![Chan].line = Cleared(@, Both), ![Chan].run = Own,
                        ![Chan].buf = IF Call = "copy" THEN @ ELSE Own]
    /\ IF Call = "copy" THEN Goto("wait") ELSE Answer("ok")
    /\ UNCHANGED hist

(* Waiting: the line is unmasked and the interrupt enabled, for the time   *)
(* of the wait only.                                                       *)
WaitOpen ==
    /\ srv.at = "wait"
    /\ Goto("waiting")
    /\ hw' = [hw EXCEPT ![Chan].line = Enabled(Acked(@), Both)]
    /\ UNCHANGED hist

Woken ==
    /\ srv.at = "waiting" /\ hw[Chan].line.bit
    /\ Goto("close")
    /\ hw' = [hw EXCEPT ![Chan].line = Taken(@)]
    /\ UNCHANGED hist

(* An interrupt that is due is taken long before the 100 ms are over.      *)
TimesOut ==
    /\ srv.at = "waiting" /\ ~hw[Chan].line.bit /\ ~Due(hw[Chan].line)
    /\ srv' = [srv EXCEPT !.at = "close", !.late = TRUE]
    /\ hist' = hist \cup {Chan}
    /\ UNCHANGED <<usr, hw>>

(* The interrupt is disabled again.  After a time-out the status is        *)
(* cleared and the buffer forgotten, but the channel goes on.              *)
WaitClose ==
    /\ srv.at = "close" /\ ~srv.late
    /\ Goto("read")
    /\ hw' = [hw EXCEPT ![Chan].line = Enabled(@, {})]
    /\ UNCHANGED hist

GiveUp ==
    /\ srv.at = "close" /\ srv.late
    /\ hw' = [hw EXCEPT ![Chan].line = Cleared(Enabled(@, {}), Both),
                        ![Chan].buf = None]
    /\ Answer("etimeout")
    /\ UNCHANGED hist

ReadRaw ==
    /\ srv.at = "read"
    /\ srv' = [srv EXCEPT !.at = "verdict", !.raw = hw[Chan].line.raw]
    /\ UNCHANGED <<usr, hw, hist>>

Forget ==
    /\ hw' = [hw EXCEPT ![Chan].line = Cleared(@, Both), ![Chan].buf = None]
    /\ UNCHANGED hist

Verdict ==
    /\ srv.at = "verdict"
    /\ Forget
    /\ Answer(IF "err" \in srv.raw THEN "einval"
              ELSE IF "eof" \in srv.raw THEN "ok" ELSE "etimeout")

-----------------------------------------------------------------------------
(* The controller.  What a receiving SPI channel is to take exists once    *)
(* the transmitting one has been emptied for the same request.             *)

Complete(c) ==
    /\ hw[c].run # None /\ hw[c].fed
    /\ c[2] = "rx" /\ Role[c[1]] = "spi" => hw[Tx(c[1])].by = hw[c].run
    /\ hw' = [hw EXCEPT ![c].run = None, ![c].by = hw[c].run,
                        ![c].line = Latched(@, "eof")]
    /\ UNCHANGED <<usr, srv, hist>>

DescriptorError(c) ==
    /\ hw[c].run # None
    /\ hw' = [hw EXCEPT ![c].run = None, ![c].line = Latched(@, "err")]
    /\ UNCHANGED <<usr, srv, hist>>

Interrupt(c) ==
    /\ Due(hw[c].line)
    /\ hw' = [hw EXCEPT ![c].line = Delivered(@)]
    /\ UNCHANGED <<usr, srv, hist>>

-----------------------------------------------------------------------------
Init ==
    /\ usr = [u \in Users |-> [at |-> "idle", n |-> 0, rx |-> "", tx |-> ""]]
    /\ srv = Resting(CHOOSE u \in Users : TRUE)
    /\ hw = [c \in Chans |-> [line |-> Line({}), run |-> None, buf |-> None,
                              by |-> None, fed |-> Role[c[1]] = "mem"]]
    /\ hist = {}

(* What happens without a new request and without the hardware.            *)
Proceed ==
    \/ \E u \in Users : Start(u) \/ Stop(u) \/ Receive(u)
    \/ ArmReset \/ ArmStart \/ WaitOpen \/ Woken \/ TimesOut \/ WaitClose
    \/ GiveUp \/ ReadRaw \/ Verdict
    \/ \E c \in Chans : Interrupt(c)

Next ==
    \/ Proceed
    \/ \E u \in Users : Begin(u)
    \/ \E c \in Chans : Complete(c) \/ DescriptorError(c)

Spec == Init /\ [][Next]_vars

-----------------------------------------------------------------------------
Answers == {"", "ok", "einval", "etimeout"}

UsersType == [at : {"idle", "start", "stop"} \cup Calls, n : Ids,
              rx : Answers, tx : Answers]

Places == {"reset", "start", "wait", "waiting", "close", "read", "verdict"}

ChanType == [line : LineType(Both), run : Ids, buf : Ids, by : Ids,
             fed : BOOLEAN]

(* The variables keep their types.                                         *)
TypeOK ==
    /\ usr \in [Users -> UsersType]
    /\ srv \in ServerType(Places, Both, 0)
    /\ hw \in [Chans -> ChanType]
    /\ hist \subseteq Chans

(* A wait that is answered OK is true: the channel has completed the       *)
(* transfer of this very request, has stopped, and so writes the buffer no *)
(* more (the cache lines are invalidated before the answer).  A wait is    *)
(* made only for a channel whose buffer the server remembers.              *)
OkIsTrue ==
    /\ \A u \in Users :
        /\ usr[u].rx = "ok" =>
               hw[Rx(u)].by = usr[u].n /\ hw[Rx(u)].run = None
        /\ usr[u].tx = "ok" =>
               hw[Tx(u)].by = usr[u].n /\ hw[Tx(u)].run = None
    /\ srv.at = "wait" /\ Call \in Waits => hw[Chan].buf = Own

(* A channel still transfers when its user has its answers, or the server  *)
(* is woken without an event, only where a wait has timed out before: the  *)
(* late frame of a receive that was given up.                              *)
Traced ==
    /\ \A c \in Chans :
          usr[c[1]].at = "idle" /\ hw[c].run # None => c \in hist
    /\ srv.at = "verdict" /\ srv.raw = {} => Chan \in hist
=============================================================================
