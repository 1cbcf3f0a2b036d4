----------------------------- MODULE DmaChannel -----------------------------
(***************************************************************************)
(* What dma.h promises of a DMA channel, whatever threads and registers    *)
(* implement it: a channel is opened, armed with one transfer at a time,   *)
(* the transfer ends with one verdict, and the wait that joins it hands    *)
(* that verdict - and no other transfer's - to the caller.                 *)
(***************************************************************************)
EXTENDS Naturals

CONSTANTS Slots,     (* the channels (stream slots) of the pool              *)
          Verdicts   (* how a transfer can end: TC seen or timed out         *)

VARIABLES phase,     (* phase[s]: closed, idle, armed or done                *)
          xfer,      (* xfer[s]: number of the transfer armed last           *)
          verdict,   (* verdict[s]: how that transfer ended                  *)
          answer     (* answer[s]: what the last wait on s told its caller   *)

vars == <<phase, xfer, verdict, answer>>

Init ==
    /\ phase = [s \in Slots |-> "closed"]
    /\ xfer = [s \in Slots |-> 0]
    /\ verdict \in [Slots -> Verdicts]
    /\ \E v \in Verdicts : answer = [s \in Slots |-> [code |-> v, for |-> 0]]

Open(s) ==
    /\ phase[s] = "closed"
    /\ phase' = [phase EXCEPT ![s] = "idle"]
    /\ UNCHANGED <<xfer, verdict, answer>>

Close(s) ==
    /\ phase[s] = "idle"
    /\ phase' = [phase EXCEPT ![s] = "closed"]
    /\ UNCHANGED <<xfer, verdict, answer>>

Arm(s) ==
    /\ phase[s] = "idle"
    /\ phase' = [phase EXCEPT ![s] = "armed"]
    /\ xfer' = [xfer EXCEPT ![s] = @ + 1]
    /\ UNCHANGED <<verdict, answer>>

Finish(s) ==
    /\ phase[s] = "armed"
    /\ phase' = [phase EXCEPT ![s] = "done"]
    /\ \E v \in Verdicts : verdict' = [verdict EXCEPT ![s] = v]
    /\ UNCHANGED <<xfer, answer>>

Join(s) ==
    /\ phase[s] = "done"
    /\ phase' = [phase EXCEPT ![s] = "idle"]
    /\ answer' = [answer EXCEPT ![s] = [code |-> verdict[s], for |-> xfer[s]]]
    /\ UNCHANGED <<xfer, verdict>>

Next == \E s \in Slots : Open(s) \/ Close(s) \/ Arm(s) \/ Finish(s) \/ Join(s)

Spec == Init /\ [][Next]_vars
=============================================================================
