------------------------------- MODULE TcAdc --------------------------------
(***************************************************************************)
(* The ADC server of the TC275 board: CONFIG prepares a channel, READ arms *)
(* one conversion and waits without bound for its service request, which   *)
(* only a prepared channel raises.  A group is prepared by its first call, *)
(* with the channel of that call.                                          *)
(***************************************************************************)
EXTENDS ServerKit

(* Two channels of one group.                                              *)
Channels == {0, 1}

(* hw: line; srr, the service request; drops, see TcCan; ready, g_group_   *)
(* ready; served, the channels prepared; conv, the conversion under way;   *)
(* vf, the request whose result is valid.                                  *)
(* hist: an answer has been late.                                          *)

Configs == [ch \in Channels |-> IF ch = 0 THEN "config 0" ELSE "config 1"]
Reads   == [ch \in Channels |-> IF ch = 0 THEN "read 0" ELSE "read 1"]
Calls == {Configs[ch] : ch \in Channels} \cup {Reads[ch] : ch \in Channels}
Channel == CHOOSE ch \in Channels : Call \in {Configs[ch], Reads[ch]}

Init ==
    /\ usr = IdleUsers
    /\ srv = Resting(CHOOSE u \in Users : TRUE)
    /\ \E drops \in BOOLEAN :
          hw = [line |-> Line({}), srr |-> FALSE, drops |-> drops,
                ready |-> FALSE, served |-> {}, conv |-> None, vf |-> None]
    /\ hist = FALSE

AckRequest(h) == [h EXCEPT !.line = Acked(@), !.srr = @ /\ ~h.drops]

(* adc_config, adc_read.                                                   *)
Request(u) == \E call \in Calls : Ask(u, call)

Receive(u) == Recv(u, Calls, "channel")

Prepared == [hw EXCEPT !.ready = TRUE, !.served = @ \cup {Channel}]

Config ==
    /\ srv.at = "channel" /\ Call = Configs[Channel]
    /\ hw' = Prepared
    /\ Reply("ok", None)
    /\ UNCHANGED hist

Read ==
    /\ srv.at = "channel" /\ Call = Reads[Channel]
    /\ Goto("drop")
    /\ hw' = IF hw.ready THEN hw ELSE Prepared
    /\ UNCHANGED hist

(* convert_once: the stale result and service request are dropped, ...     *)
DropStale ==
    /\ srv.at = "drop"
    /\ Goto("arm")
    /\ hw' = AckRequest([hw EXCEPT !.vf = None])
    /\ UNCHANGED hist

(* ... the queue is cleared and started with the channel, ...              *)
Arm ==
    /\ srv.at = "arm"
    /\ Goto("wait")
    /\ hw' = [hw EXCEPT !.conv = Own]
    /\ UNCHANGED hist

Woken ==
    /\ srv.at = "wait" /\ hw.line.bit
    /\ Goto("get")
    /\ hw' = [hw EXCEPT !.line = Taken(@)]
    /\ UNCHANGED hist

(* ... and the result is read and dropped, before the acknowledgement.     *)
Get ==
    /\ srv.at = "get"
    /\ hw' = AckRequest([hw EXCEPT !.vf = None])
    /\ IF hw.vf = None THEN Reply("etimeout", None) ELSE Reply("ok", hw.vf)
    /\ hist' = (hist \/ hw.vf = None)

-----------------------------------------------------------------------------
(* The server prepares any of its groups, but only the service request of  *)
(* group 0 leads to it: a READ of another would wait for ever.  The client *)
(* names no group but the board's, group 0, the one modelled.              *)
Converted ==
    /\ hw.conv # None
    /\ hw' = [hw EXCEPT !.conv = None, !.vf = hw.conv,
                        !.srr = @ \/ Channel \in hw.served]
    /\ UNCHANGED <<usr, srv, hist>>

Interrupt ==
    /\ hw.srr /\ ~hw.line.masked
    /\ hw' = [hw EXCEPT !.line = Delivered(@), !.srr = FALSE]
    /\ UNCHANGED <<usr, srv, hist>>

Proceed ==
    \/ \E u \in Users : Receive(u)
    \/ Config \/ Read \/ DropStale \/ Arm \/ Woken \/ Get
    \/ Converted \/ Interrupt

Next ==
    \/ Proceed
    \/ \E u \in Users : Request(u)

Spec == Init /\ [][Next]_vars

-----------------------------------------------------------------------------
Places == {"channel", "drop", "arm", "wait", "get"}

(* The variables keep their types.                                         *)
TypeOK ==
    /\ usr \in UserType(Calls, {"ok", "etimeout"})
    /\ srv \in ServerType(Places, {}, 0)
    /\ hw \in [line : LineType({}), srr : BOOLEAN, drops : BOOLEAN,
               ready : BOOLEAN, served : SUBSET Channels, conv : Ids,
               vf : Ids]
    /\ hist \in BOOLEAN

(* A READ answered OK carries the result of its own conversion.            *)
OkIsTrue ==
    \A u \in Users :
        usr[u].rc = "ok" /\ usr[u].at = "idle" =>
            usr[u].val \in {None, usr[u].n}

(* convert_once takes no notification away before it waits and has none to *)
(* take: a request leaves neither a notification nor a conversion behind,  *)
(* and its wait never ends without a result.                               *)
Traced ==
    /\ srv.at \in {"recv", "drop"} =>
          ~hw.line.bit /\ ~hw.srr /\ hw.conv = None
    /\ ~hist

(* A READ of a channel nobody has prepared, in a group that is ready.      *)
Stalled == srv.at = "wait" /\ Channel \notin hw.served
=============================================================================
