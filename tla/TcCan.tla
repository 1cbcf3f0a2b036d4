------------------------------- MODULE TcCan --------------------------------
(***************************************************************************)
(* The MultiCAN driver of the TC275 board (tc275_lite/drivers/can) under   *)
(* one sending and one receiving thread.  The server handles one call at a *)
(* time and blocks inside RECV, so SEND and RECV must not cross.           *)
(*                                                                         *)
(* With demo the two threads are those of smp_can_demo, which keep one     *)
(* frame under way with the shared counters g_posted and g_taken; without  *)
(* it they are any two users of can_send and can_recv.                     *)
(*                                                                         *)
(* A frame is named by the attempt that sent it.  Its data words DATAL and *)
(* DATAH are read one after the other while the bus may store another      *)
(* frame, so a frame in the receive object is a pair lo, hi.               *)
(*                                                                         *)
(* ulmk_irq_ack is the kernel's, outside this repository: it unmasks the   *)
(* interrupt, and with drops it also drops a request that is pending in    *)
(* the service request node, as the ADC server relies on ("Drop stale      *)
(* result / SRC before arming").                                           *)
(***************************************************************************)
EXTENDS Naturals

CONSTANT MaxFrames   (* bound: frames the sender attempts                   *)

ASSUME CanConstants == MaxFrames \in Nat \ {0}

VARIABLES
    demo,    (* the users synchronise as smp_can_demo does: never changes    *)
    drops,   (* ulmk_irq_ack drops a pending request: never changes          *)
    tpc,     (* sender: "idle", in can_send, or holding its verdict          *)
    rpc,     (* receiver: "idle", in can_recv, or holding its verdict        *)
    seq,     (* attempts the sender finished                                 *)
    posted,  (* g_posted                                                     *)
    taken,   (* g_taken                                                      *)
    got,     (* the frame the receiver decoded last                          *)
    spc,     (* where the server is                                          *)
    frame,   (* can_server: frame                                            *)
    txrq,    (* frame in the transmit object, 0 when TXRQ is clear           *)
    line,    (* frame sent and not yet stored, 0 when there is none          *)
    newdat,  (* NEWDAT of the receive object                                 *)
    rx,      (* frame in the receive object                                  *)
    srr,     (* the receive interrupt is requested ...                       *)
    masked,  (* ... and the kernel keeps it masked until ulmk_irq_ack        *)
    bit      (* CAN_NOTIF_RX is pending in the notification                  *)

vars == <<demo, drops, tpc, rpc, seq, posted, taken, got, spc, frame, txrq,
          line, newdat, rx, srr, masked, bit>>

mode    == <<demo, drops>>
txVars  == <<tpc, seq, posted>>
rxVars  == <<rpc, taken, got>>
objVars == <<txrq, line, newdat, rx>>
irqVars == <<srr, masked, bit>>

Whole(n) == [lo |-> n, hi |-> n]

Init ==
    /\ demo \in BOOLEAN /\ drops \in BOOLEAN
    /\ tpc = "idle" /\ rpc = "idle"
    /\ seq = 0 /\ posted = 0 /\ taken = 0
    /\ got = Whole(0)
    /\ spc = "ep" /\ frame = Whole(0)
    /\ txrq = 0 /\ line = 0
    /\ newdat = FALSE /\ rx = Whole(0)
    /\ srr = FALSE /\ masked = FALSE /\ bit = FALSE

-----------------------------------------------------------------------------
(* The sender: thr_tx_cpu0.                                                *)

CallSend ==
    /\ tpc = "idle"
    /\ seq < MaxFrames
    /\ demo => taken = posted
    /\ tpc' = "send"
    /\ UNCHANGED <<mode, seq, posted, rxVars, spc, frame, objVars, irqVars>>

(* Faulty variants: a failed attempt is posted too; seq is not advanced.   *)
PostedAlways ==
    /\ tpc \in {"ok", "late"}
    /\ posted' = posted + 1
    /\ seq' = seq + 1
    /\ tpc' = "idle"
    /\ UNCHANGED <<mode, rxVars, spc, frame, objVars, irqVars>>

PostedSameSeq ==
    /\ tpc \in {"ok", "late"}
    /\ posted' = IF tpc = "ok" THEN posted + 1 ELSE posted
    /\ tpc' = "idle"
    /\ UNCHANGED <<mode, seq, rxVars, spc, frame, objVars, irqVars>>

(* The next frame has the next number, whether or not this one went out.   *)
Posted ==
    /\ tpc \in {"ok", "late"}
    /\ posted' = IF tpc = "ok" THEN posted + 1 ELSE posted
    /\ seq' = seq + 1
    /\ tpc' = "idle"
    /\ UNCHANGED <<mode, rxVars, spc, frame, objVars, irqVars>>

(* The receiver: thr_rx_cpu1.                                              *)

CallRecv ==
    /\ rpc = "idle"
    /\ demo => posted # taken
    /\ rpc' = "recv"
    /\ UNCHANGED <<mode, txVars, taken, got, spc, frame, objVars, irqVars>>

Taken ==
    /\ rpc \in {"ok", "late"}
    /\ taken' = IF rpc = "ok" THEN taken + 1 ELSE taken
    /\ rpc' = "idle"
    /\ UNCHANGED <<mode, txVars, got, spc, frame, objVars, irqVars>>

-----------------------------------------------------------------------------
(* The server: tx_frame.                                                   *)

SendBusy ==
    /\ spc = "ep" /\ tpc = "send"
    /\ txrq # 0
    /\ tpc' = "late"
    /\ UNCHANGED <<mode, seq, posted, rxVars, spc, frame, objVars, irqVars>>

SendStart ==
    /\ spc = "ep" /\ tpc = "send"
    /\ txrq = 0
    /\ txrq' = seq + 1
    /\ spc' = "spin"
    /\ UNCHANGED <<mode, txVars, rxVars, frame, line, newdat, rx, irqVars>>

(* The loop watches NEWDAT, whichever frame set it ...                     *)
SendSeen ==
    /\ spc = "spin"
    /\ newdat
    /\ tpc' = "ok" /\ spc' = "ep"
    /\ UNCHANGED <<mode, seq, posted, rxVars, frame, objVars, irqVars>>

(* Faulty variant: the loop ends only once the frame has been sent.        *)
SendGiveUpSent ==
    /\ spc = "spin"
    /\ ~newdat /\ txrq = 0
    /\ tpc' = "late" /\ spc' = "ep"
    /\ UNCHANGED <<mode, seq, posted, rxVars, frame, objVars, irqVars>>

(* ... and is bounded; the transmission itself is not taken back.          *)
SendGiveUp ==
    /\ spc = "spin"
    /\ ~newdat
    /\ tpc' = "late" /\ spc' = "ep"
    /\ UNCHANGED <<mode, seq, posted, rxVars, frame, objVars, irqVars>>

-----------------------------------------------------------------------------
(* The server: RECV and rx_frame.                                          *)

RecvReady ==
    /\ spc = "ep" /\ rpc = "recv"
    /\ newdat
    /\ spc' = "low"
    /\ UNCHANGED <<mode, txVars, rxVars, frame, objVars, irqVars>>

RecvEmpty ==
    /\ spc = "ep" /\ rpc = "recv"
    /\ ~newdat
    /\ spc' = "unmask"
    /\ UNCHANGED <<mode, txVars, rxVars, frame, objVars, irqVars>>

IrqAck ==
    /\ masked' = FALSE
    /\ srr' = (srr /\ ~drops)

(* Faulty variant: RECV blocks without unmasking the interrupt.            *)
BlockMasked ==
    /\ spc = "unmask"
    /\ spc' = "block"
    /\ UNCHANGED <<mode, txVars, rxVars, frame, objVars, irqVars>>

Unmask ==
    /\ spc = "unmask"
    /\ IrqAck
    /\ spc' = "block"
    /\ UNCHANGED <<mode, txVars, rxVars, frame, objVars, bit>>

(* A bit latched for a frame that was taken already wakes the server too.  *)
Wake ==
    /\ spc = "block" /\ bit
    /\ bit' = FALSE
    /\ spc' = "look"
    /\ UNCHANGED <<mode, txVars, rxVars, frame, objVars, srr, masked>>

Look ==
    /\ spc = "look"
    /\ \/ newdat /\ spc' = "low" /\ rpc' = rpc
       \/ ~newdat /\ spc' = "ep" /\ rpc' = "late"
    /\ UNCHANGED <<mode, txVars, taken, got, frame, objVars, irqVars>>

ReadLow ==
    /\ spc = "low"
    /\ frame' = [frame EXCEPT !.lo = rx.lo]
    /\ spc' = "high"
    /\ UNCHANGED <<mode, txVars, rxVars, objVars, irqVars>>

ReadHigh ==
    /\ spc = "high"
    /\ frame' = [frame EXCEPT !.hi = rx.hi]
    /\ spc' = "clear"
    /\ UNCHANGED <<mode, txVars, rxVars, objVars, irqVars>>

(* Faulty variant: NEWDAT is not cleared.                                  *)
LeaveObj ==
    /\ spc = "clear"
    /\ spc' = "ack"
    /\ UNCHANGED <<mode, txVars, rxVars, frame, objVars, irqVars>>

(* NEWDAT and RXPND are cleared ...                                        *)
ClearObj ==
    /\ spc = "clear"
    /\ newdat' = FALSE
    /\ spc' = "ack"
    /\ UNCHANGED <<mode, txVars, rxVars, frame, txrq, line, rx, irqVars>>

(* ... then the interrupt is unmasked and the caller answered.             *)
RecvEnd ==
    /\ spc = "ack"
    /\ IrqAck
    /\ got' = frame
    /\ rpc' = "ok" /\ spc' = "ep"
    /\ UNCHANGED <<mode, txVars, taken, frame, objVars, bit>>

-----------------------------------------------------------------------------
(* The bus, the receive object and the kernel's interrupt dispatch.        *)

Transmit ==
    /\ txrq # 0 /\ line = 0
    /\ line' = txrq /\ txrq' = 0
    /\ UNCHANGED <<mode, txVars, rxVars, spc, frame, newdat, rx, irqVars>>

Store ==
    /\ line # 0
    /\ rx' = Whole(line) /\ newdat' = TRUE /\ srr' = TRUE
    /\ line' = 0
    /\ UNCHANGED <<mode, txVars, rxVars, spc, frame, txrq, masked, bit>>

Interrupt ==
    /\ srr /\ ~masked
    /\ srr' = FALSE /\ masked' = TRUE /\ bit' = TRUE
    /\ UNCHANGED <<mode, txVars, rxVars, spc, frame, objVars>>

(* Everything within the bound is done and both threads are at rest.       *)
BoundReached ==
    /\ seq = MaxFrames /\ tpc = "idle" /\ rpc = "idle"
    /\ demo => posted = taken
    /\ UNCHANGED vars

-----------------------------------------------------------------------------
Server ==
    \/ SendBusy \/ SendStart \/ SendSeen \/ SendGiveUp
    \/ RecvReady \/ RecvEmpty \/ Unmask \/ Wake \/ Look
    \/ ReadLow \/ ReadHigh \/ ClearObj \/ RecvEnd
Sender == CallSend \/ Posted
Receiver == CallRecv \/ Taken
Bus == Transmit \/ Store

Next == Sender \/ Receiver \/ Server \/ Bus \/ Interrupt \/ BoundReached

(* The threads of the demo run on cores of their own and never stop; the   *)
(* bus owes nothing.                                                       *)
Fairness ==
    /\ WF_vars(Sender) /\ WF_vars(Receiver)
    /\ WF_vars(Server) /\ WF_vars(Interrupt)

Spec == Init /\ [][Next]_vars
FairSpec == Spec /\ Fairness

-----------------------------------------------------------------------------
Frames == 0 .. MaxFrames
Pairs == [lo : Frames, hi : Frames]

(* The variables keep their types; no frame is numbered past the attempts. *)
TypeOK ==
    /\ demo \in BOOLEAN /\ drops \in BOOLEAN
    /\ tpc \in {"idle", "send", "ok", "late"}
    /\ rpc \in {"idle", "recv", "ok", "late"}
    /\ seq \in Frames /\ posted \in Frames /\ taken \in Nat
    /\ got \in Pairs /\ frame \in Pairs /\ rx \in Pairs
    /\ spc \in {"ep", "spin", "unmask", "block", "look", "low", "high",
               "clear", "ack"}
    /\ txrq \in Frames /\ line \in Frames
    /\ newdat \in BOOLEAN /\ srr \in BOOLEAN /\ masked \in BOOLEAN
    /\ bit \in BOOLEAN

(* Some attempt so far was answered ETIMEOUT.                              *)
Overdue == posted # seq \/ tpc = "late"

(* The deadlock the demo's header describes - the server blocked in RECV   *)
(* with the frame it waits for behind it in a SEND - needs a RECV that     *)
(* finds NEWDAT clear.  The counters exclude it, time-outs included: at    *)
(* every RECV of the receiver a frame is there.                            *)
NeverBlocks ==
    demo => spc \notin {"unmask", "block", "look"} /\ rpc # "late"

(* The counters never disagree by more than the one frame under way, and   *)
(* no RECV is under way while they agree.                                  *)
Lockstep ==
    /\ taken <= posted /\ posted <= taken + 1
    /\ rpc \in {"recv", "ok"} => posted = taken + 1

(* As long as no SEND was answered ETIMEOUT the receiver decodes exactly   *)
(* the frame that was posted, whole.                                       *)
Faithful ==
    demo /\ posted = taken /\ tpc = "idle" /\ ~Overdue => got = Whole(posted)

(* Time-outs or not, frames are decoded in the order they were sent and    *)
(* none is decoded twice, although OK means only that some frame came in.  *)
InOrder == [][rpc = "recv" /\ rpc' = "ok" => got.lo < got'.lo]_vars

(* No lost wake-up: a server blocked in RECV while a frame is in the       *)
(* receive object is about to be woken, whatever the order in which frame, *)
(* interrupt, ulmk_irq_ack and the test of NEWDAT happened - provided the  *)
(* acknowledgement before the wait drops no request.                       *)
WillWake ==
    ~drops /\ spc = "block" /\ newdat => bit \/ (srr /\ ~masked)

-----------------------------------------------------------------------------
(* The inductive strengthening of the safety properties, by topic.         *)

Reading == spc \in {"low", "high", "clear"}
InRecv == Reading \/ spc \in {"unmask", "block", "look", "ack"}
Spinning == spc = "spin"
Answering == tpc \in {"ok", "late"}

(* The server works for a caller that waits for it; attempts and bound.    *)
Calls ==
    /\ Spinning => tpc = "send"
    /\ InRecv => rpc = "recv"
    /\ tpc # "idle" => seq < MaxFrames
    /\ posted <= seq

(* Frames move from the transmit object over the bus and the receive       *)
(* object to the receiver without overtaking one another.                  *)
Newest == IF Spinning \/ Answering THEN seq + 1 ELSE seq
Queue ==
    /\ rx.lo <= Newest /\ line <= Newest /\ txrq <= Newest
    /\ line # 0 => rx.lo < line
    /\ txrq # 0 => rx.lo < txrq /\ line < txrq
    /\ got.lo <= rx.lo
    /\ newdat => got.lo < rx.lo
    /\ Reading => newdat
    /\ spc \in {"high", "clear", "ack"} =>
          got.lo < frame.lo /\ frame.lo <= rx.lo
    /\ spc = "ack" /\ newdat => frame.lo < rx.lo

(* A frame stored since RECV found NEWDAT clear leaves its trace behind,   *)
(* unless acknowledging may erase it.                                      *)
Awaited ==
    /\ ~drops /\ spc \in {"unmask", "block"} /\ newdat => bit \/ srr
    /\ spc = "block" => bit \/ ~masked

(* What the counters of the demo guarantee.                                *)
Counters ==
    /\ NeverBlocks
    /\ Lockstep
    /\ tpc # "idle" => posted = taken
    /\ tpc = "ok" => newdat
    /\ posted = taken + 1 /\ rpc # "ok" /\ spc # "ack" => newdat

(* Where the only frame is while no attempt has failed.                    *)
Idle == txrq = 0 /\ line = 0 /\ ~newdat
Stored(n) == txrq = 0 /\ line = 0 /\ newdat /\ rx = Whole(n)
OneFrame ==
    /\ posted = taken /\ ~Spinning /\ tpc # "ok" =>
          Idle /\ got = Whole(posted)
    /\ Spinning =>
          \/ txrq = seq + 1 /\ line = 0 /\ ~newdat
          \/ txrq = 0 /\ line = seq + 1 /\ ~newdat
          \/ Stored(seq + 1)
    /\ tpc = "ok" => Stored(seq + 1)
    /\ posted = taken + 1 =>
          IF rpc = "ok"
          THEN Idle /\ got = Whole(posted)
          ELSE IF spc = "ack" THEN Idle ELSE Stored(posted)
    /\ spc \in {"high", "clear", "ack"} => frame.lo = posted
    /\ spc \in {"clear", "ack"} => frame = Whole(posted)

IInv ==
    /\ TypeOK /\ Calls /\ Queue /\ Awaited
    /\ demo => Counters /\ (~Overdue => OneFrame)

-----------------------------------------------------------------------------
(* A call of the demo is always answered, even when the bus never moves.   *)
Answered ==
    /\ demo /\ tpc = "send" ~> tpc # "send"
    /\ demo /\ rpc = "recv" ~> rpc # "recv"
=============================================================================
