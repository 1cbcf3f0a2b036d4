----------------------------- MODULE ServerKit -----------------------------
(***************************************************************************)
(* What the driver servers of the three boards have in common: threads     *)
(* that call a server over its endpoint and block until it replies         *)
(* (ulmk_ep_call, ulmk_ep_recv, ulmk_ep_reply), one call served at a time, *)
(* and an interrupt that the kernel masks when it delivers it as a         *)
(* notification bit and unmasks on ulmk_irq_ack.  The kernel is outside    *)
(* this repository.                                                        *)
(*                                                                         *)
(* An interrupt source is a level: it asks while a latched event is        *)
(* enabled, and asks again after the acknowledgement if the event is still *)
(* latched.  Requests are numbered in the order in which they are made.    *)
(***************************************************************************)
EXTENDS Integers

CONSTANTS
    Users,      (* the threads that call the server                          *)
    MaxRuns     (* bound on the requests made                                *)

VARIABLES
    usr,    (* user -> [at: "idle" or the message it has sent, n: number of  *)
            (*   its request, rc: the answer, val: the request whose data    *)
            (*   the answer carries]                                         *)
    srv,    (* the server: [at, user: whom it serves, late: its wait has     *)
            (*   timed out, raw: events it has read, left: steps left]       *)
    hw,     (* the peripheral and its interrupt line                         *)
    hist    (* history variable of the module that extends this one          *)

vars == <<usr, srv, hw, hist>>

None == 0
Ids  == 0 .. MaxRuns
Own  == usr[srv.user].n        (* the request being served                   *)
Call == usr[srv.user].at       (* and its message                            *)

(* The number of the next request.                                         *)
Fresh(n) ==
    /\ \A u \in Users : usr[u].n < n
    /\ n = 1 \/ \E u \in Users : usr[u].n = n - 1

-----------------------------------------------------------------------------
(* Calls and replies.                                                      *)

IdleUsers == [u \in Users |-> [at |-> "idle", n |-> 0, rc |-> "",
                               val |-> None]]

Resting(u) == [at |-> "recv", user |-> u, late |-> FALSE, raw |-> {},
               left |-> 0]

Ask(u, call) ==
    /\ usr[u].at = "idle"
    /\ \E n \in 1 .. MaxRuns :
          /\ Fresh(n)
          /\ usr' = [usr EXCEPT ![u] = [at |-> call, n |-> n, rc |-> "",
                                        val |-> None]]
    /\ UNCHANGED <<srv, hw, hist>>

Recv(u, calls, next) ==
    /\ srv.at = "recv" /\ usr[u].at \in calls
    /\ srv' = [Resting(u) EXCEPT !.at = next]
    /\ UNCHANGED <<usr, hw, hist>>

Reply(rc, val) ==
    /\ usr' = [usr EXCEPT ![srv.user].at = "idle", ![srv.user].rc = rc,
                          ![srv.user].val = val]
    /\ srv' = Resting(srv.user)

Goto(next) == srv' = [srv EXCEPT !.at = next] /\ UNCHANGED usr

UserType(calls, rcs) ==
    [Users -> [at : {"idle"} \cup calls, n : Ids, rc : {""} \cup rcs,
               val : Ids]]

ServerType(places, events, steps) ==
    [at : {"recv"} \cup places, user : Users, late : BOOLEAN,
     raw : SUBSET events, left : 0 .. steps]

-----------------------------------------------------------------------------
(* An interrupt line: latched and enabled events, masked by the kernel,    *)
(* and the notification bit.                                               *)

Line(enabled) == [raw |-> {}, ena |-> enabled, masked |-> FALSE,
                  bit |-> FALSE]

LineType(events) == [raw : SUBSET events, ena : SUBSET events,
                     masked : BOOLEAN, bit : BOOLEAN]

Acked(l)     == [l EXCEPT !.masked = FALSE]
Enabled(l, events) == [l EXCEPT !.ena = events]
Latched(l, event)  == [l EXCEPT !.raw = @ \cup {event}]
Cleared(l, events) == [l EXCEPT !.raw = @ \ events]
Taken(l)     == [l EXCEPT !.bit = FALSE]
Due(l)       == l.raw \cap l.ena # {} /\ ~l.masked
Delivered(l) == [l EXCEPT !.bit = TRUE, !.masked = TRUE]
=============================================================================
