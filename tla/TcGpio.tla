------------------------------- MODULE TcGpio -------------------------------
(***************************************************************************)
(* Edge subscriptions of the TC275 GPIO driver                             *)
(* (tc275_lite/drivers/gpio).  Two threads share g_subs and g_eru_enc: the *)
(* IPC server executes SUBSCRIBE, the interrupt server turns event flags   *)
(* of the external request unit (ERU) into notifications of subscribers.   *)
(* Several pins share one ERU channel, which listens to one of them.       *)
(*                                                                         *)
(* Both threads are created for core 0 and the interrupt server has the    *)
(* higher priority, so the IPC server moves only while the other waits;    *)
(* the ERU and the interrupt may act between any two steps.                *)
(*                                                                         *)
(* owed and lost are history: they record for each subscription the edges  *)
(* detected for it and not yet signalled, and those that never will be.    *)
(***************************************************************************)
EXTENDS Naturals

CONSTANTS
    Pins,      (* pins with an ERU input, eru_pins                           *)
    NChans,    (* ERU channels, GPIO_ERU_CH_MAX                              *)
    ChanOf,    (* the channel of a pin                                       *)
    EdgeSets,  (* what can be subscribed: falling, rising, both              *)
    MaxSubs,   (* GPIO_MAX_SUBS                                              *)
    AckDrops,  (* ulmk_irq_ack drops a pending request                       *)
    None       (* no pin, no subscription                                    *)

Chans == 0 .. NChans - 1
Slots == 1 .. MaxSubs
Kinds == UNION EdgeSets

ASSUME GpioConstants ==
    /\ NChans \in Nat \ {0} /\ MaxSubs \in Nat
    /\ ChanOf \in [Pins -> Chans]
    /\ {} \notin EdgeSets
    /\ AckDrops \in BOOLEAN
    /\ None \notin Pins /\ None \notin [pin : Pins, edge : EdgeSets]

VARIABLES
    subs,    (* g_subs; None where active is clear                           *)
    req,     (* the SUBSCRIBE being executed, or the last one                *)
    ipc,     (* where the IPC server is                                      *)
    enc,     (* g_eru_enc; None where g_eru_armed_mask is clear              *)
    sel,     (* the input an ERU channel listens to                          *)
    want,    (* the edges it detects                                         *)
    flag,    (* its event flag                                               *)
    srr,     (* the ERU interrupt is requested ...                           *)
    masked,  (* ... and masked until ulmk_irq_ack                            *)
    bit,     (* GPIO_IRQ_BIT is pending                                      *)
    at,      (* the channel the interrupt server scans; NChans when it is    *)
             (* through, NChans + 1 while it waits                           *)
    told,    (* subscriptions whose notification bit is pending              *)
    owed,    (* subscriptions with an edge detected and not signalled        *)
    lost     (* subscriptions that lost one                                  *)

vars == <<subs, req, ipc, enc, sel, want, flag, srr, masked, bit, at, told,
          owed, lost>>

ipcVars == <<subs, req, ipc>>
eruVars == <<enc, sel, want>>
irqVars == <<srr, masked, bit>>
tellVars == <<told, owed, lost>>

Requests == [pin : Pins, edge : EdgeSets]
Waiting == at = NChans + 1
On(i, ch) == subs[i] # None /\ ChanOf[subs[i].pin] = ch
Chan == ChanOf[req.pin]

Init ==
    /\ subs = [i \in Slots |-> None]
    /\ req = None /\ ipc = "recv"
    /\ enc = [ch \in Chans |-> None]
    /\ sel = [ch \in Chans |-> None]
    /\ want = [ch \in Chans |-> {}]
    /\ flag = [ch \in Chans |-> FALSE]
    /\ srr = FALSE /\ masked = FALSE /\ bit = FALSE
    /\ at = NChans + 1
    /\ told = {} /\ owed = {} /\ lost = {}

-----------------------------------------------------------------------------
(* The IPC server: do_subscribe and eru_arm.                               *)

Runs(from, to) ==
    /\ Waiting /\ ~bit
    /\ ipc = from /\ ipc' = to

Subscribe(r) ==
    /\ Runs("recv", "select")
    /\ req' = r
    /\ UNCHANGED <<subs, eruVars, flag, irqVars, at, tellVars>>

(* The input is switched while the old edges are still detected ...        *)
SelectInput ==
    /\ Runs("select", "edges")
    /\ sel' = [sel EXCEPT ![Chan] = req.pin]
    /\ UNCHANGED <<subs, req, enc, want, flag, irqVars, at, tellVars>>

(* ... then the edges of this request replace them ...                     *)
SelectEdges ==
    /\ Runs("edges", "clear")
    /\ want' = [want EXCEPT ![Chan] = req.edge]
    /\ UNCHANGED <<subs, req, enc, sel, flag, irqVars, at, tellVars>>

(* ... and what was detected so far is dropped, with the edges of others   *)
(* on the same channel.                                                    *)
ClearFlag ==
    /\ Runs("clear", "publish")
    /\ flag' = [flag EXCEPT ![Chan] = FALSE]
    /\ LET dropped == {i \in owed : On(i, Chan)}
       IN  owed' = owed \ dropped /\ lost' = lost \union dropped
    /\ UNCHANGED <<subs, req, eruVars, irqVars, at, told>>

(* Faulty variant: a channel in use keeps its pin.                         *)
PublishOnce ==
    /\ Runs("publish", "record")
    /\ enc' = [enc EXCEPT ![Chan] = IF @ = None THEN req.pin ELSE @]
    /\ UNCHANGED <<subs, req, sel, want, flag, irqVars, at, tellVars>>

Publish ==
    /\ Runs("publish", "record")
    /\ enc' = [enc EXCEPT ![Chan] = req.pin]
    /\ UNCHANGED <<subs, req, sel, want, flag, irqVars, at, tellVars>>

FirstFree(i) == subs[i] = None /\ \A j \in Slots : j < i => subs[j] # None

(* An edge detected since the flag was cleared belongs to the new record.  *)
Record(i) ==
    /\ FirstFree(i)
    /\ Runs("record", "recv")
    /\ subs' = [subs EXCEPT ![i] = req]
    /\ owed' = IF flag[Chan] THEN owed \union {i} ELSE owed
    /\ UNCHANGED <<req, eruVars, flag, irqVars, at, told, lost>>

(* ENOMEM is found only now; the channel stays armed for this pin.         *)
NoRoom ==
    /\ \A i \in Slots : subs[i] # None
    /\ Runs("record", "recv")
    /\ UNCHANGED <<subs, req, eruVars, flag, irqVars, at, tellVars>>

-----------------------------------------------------------------------------
(* The interrupt server.                                                   *)

(* Faulty variants: the scan starts where it ended, or off by one.         *)
WokenWithoutReset ==
    /\ Waiting /\ bit
    /\ bit' = FALSE /\ at' = at + 1
    /\ UNCHANGED <<ipcVars, eruVars, flag, srr, masked, tellVars>>

WokenAtOne ==
    /\ Waiting /\ bit
    /\ bit' = FALSE /\ at' = 1
    /\ UNCHANGED <<ipcVars, eruVars, flag, srr, masked, tellVars>>

Woken ==
    /\ Waiting /\ bit
    /\ bit' = FALSE /\ at' = 0
    /\ UNCHANGED <<ipcVars, eruVars, flag, srr, masked, tellVars>>

ScanMiss ==
    /\ at \in Chans /\ ~flag[at]
    /\ at' = at + 1
    /\ UNCHANGED <<ipcVars, eruVars, flag, irqVars, tellVars>>

(* defer_subs of the pin the channel is armed for: nobody when it is not.  *)
Named(ch) == {i \in Slots : On(i, ch) /\ subs[i].pin = enc[ch]}
Settle(ch) ==
    LET mine == {i \in owed : On(i, ch)}
    IN  /\ told' = told \union Named(ch)
        /\ owed' = owed \ mine
        /\ lost' = lost \union (mine \ Named(ch))

(* Faulty variants: all flags are cleared at the first one that is set;    *)
(* none is.                                                                *)
ScanHitClearAll ==
    /\ at \in Chans /\ flag[at]
    /\ flag' = [ch \in Chans |-> FALSE]
    /\ Settle(at)
    /\ at' = at + 1
    /\ UNCHANGED <<ipcVars, eruVars, irqVars>>

ScanHitClearNone ==
    /\ at \in Chans /\ flag[at]
    /\ Settle(at)
    /\ at' = at + 1
    /\ UNCHANGED <<ipcVars, eruVars, flag, irqVars>>

ScanHit ==
    /\ at \in Chans /\ flag[at]
    /\ flag' = [flag EXCEPT ![at] = FALSE]
    /\ Settle(at)
    /\ at' = at + 1
    /\ UNCHANGED <<ipcVars, eruVars, irqVars>>

(* Faulty variant: the interrupt is not acknowledged.                      *)
AckNothing ==
    /\ at = NChans
    /\ at' = NChans + 1
    /\ UNCHANGED <<ipcVars, eruVars, flag, irqVars, tellVars>>

Ack ==
    /\ at = NChans
    /\ at' = NChans + 1
    /\ masked' = FALSE /\ srr' = (srr /\ ~AckDrops)
    /\ UNCHANGED <<ipcVars, eruVars, flag, bit, tellVars>>

-----------------------------------------------------------------------------
(* The pins, the ERU, the kernel's interrupt dispatch, the subscribers.    *)

(* An edge of kind k on pin p, when p is selected and k detected.          *)
Edge(p, k) ==
    /\ sel[ChanOf[p]] = p /\ k \in want[ChanOf[p]]
    /\ flag' = [flag EXCEPT ![ChanOf[p]] = TRUE]
    /\ srr' = TRUE
    /\ owed' = owed \union
          {i \in Slots : subs[i] # None /\ subs[i].pin = p /\ k \in subs[i].edge}
    /\ UNCHANGED <<ipcVars, eruVars, masked, bit, at, told, lost>>

Interrupt ==
    /\ srr /\ ~masked
    /\ srr' = FALSE /\ masked' = TRUE /\ bit' = TRUE
    /\ UNCHANGED <<ipcVars, eruVars, flag, at, tellVars>>

(* The subscriber takes its notification.                                  *)
Consume(i) ==
    /\ i \in told
    /\ told' = told \ {i}
    /\ UNCHANGED <<ipcVars, eruVars, flag, irqVars, at, owed, lost>>

-----------------------------------------------------------------------------
Arm == SelectInput \/ SelectEdges \/ ClearFlag \/ Publish
IpcServer ==
    \/ \E r \in Requests : Subscribe(r)
    \/ Arm \/ NoRoom \/ \E i \in Slots : Record(i)
IrqServer == Woken \/ ScanMiss \/ ScanHit \/ Ack

Next ==
    \/ IpcServer \/ IrqServer \/ Interrupt
    \/ \E p \in Pins, k \in Kinds : Edge(p, k)
    \/ \E i \in Slots : Consume(i)

(* The interrupt is taken and the thread it wakes is scheduled.            *)
Fairness == WF_vars(IrqServer) /\ WF_vars(Interrupt)

Spec == Init /\ [][Next]_vars
FairSpec == Spec /\ Fairness

-----------------------------------------------------------------------------
(* The variables keep their types.                                         *)
TypeOK ==
    /\ subs \in [Slots -> Requests \union {None}]
    /\ req \in Requests \union {None}
    /\ ipc \in {"recv", "select", "edges", "clear", "publish", "record"}
    /\ ipc # "recv" => req # None
    /\ enc \in [Chans -> Pins \union {None}]
    /\ sel \in [Chans -> Pins \union {None}]
    /\ want \in [Chans -> EdgeSets \union {{}}]
    /\ flag \in [Chans -> BOOLEAN]
    /\ srr \in BOOLEAN /\ masked \in BOOLEAN /\ bit \in BOOLEAN
    /\ at \in 0 .. NChans + 1
    /\ told \subseteq Slots /\ owed \subseteq Slots /\ lost \subseteq Slots

Arming(ch) == ipc \in {"edges", "clear", "publish"} /\ Chan = ch
Selected(i) == LET ch == ChanOf[subs[i].pin]
               IN  sel[ch] = subs[i].pin /\ want[ch] = subs[i].edge

(* An edge detected for a subscription stays in the event flag until the   *)
(* interrupt server signals it, although its scan reads each flag once and *)
(* edges come in behind it.                                                *)
FlagKept == \A i \in owed : subs[i] # None /\ flag[ChanOf[subs[i].pin]]

(* And as long as acknowledging drops no request that flag will be looked  *)
(* at: the interrupt is requested, signalled, or the scan has not passed.  *)
WillScan ==
    ~AckDrops =>
        \A i \in owed : srr \/ bit \/ at <= ChanOf[subs[i].pin]

(* A subscriber is not told of edges that did not happen: a flag that is   *)
(* set is owed to every subscription it will be deferred to, when they     *)
(* agree on pin and edge and the channel is not just being armed.          *)
NoStray ==
    \A ch \in Chans :
        flag[ch] /\ ~Arming(ch) /\ (\A i \in Slots : On(i, ch) => Selected(i))
            => Named(ch) \subseteq owed

(* An edge that was detected is lost only while a SUBSCRIBE arms the       *)
(* channel it came in on.                                                  *)
LostByArming ==
    [][\A i \in lost' \ lost : Arming(ChanOf[subs[i].pin])]_vars

-----------------------------------------------------------------------------
(* The inductive strengthening of the safety properties.                   *)

Switching(ch) == ipc \in {"edges", "clear"} /\ Chan = ch

(* What is flagged will be scanned, owed or not.                           *)
FlagScanned ==
    ~AckDrops => \A ch \in Chans : flag[ch] => srr \/ bit \/ at <= ch

(* A flag raised since the channel was switched is owed to every record    *)
(* that asked for what the channel detects.                                *)
Genuine ==
    \A i \in Slots :
        subs[i] # None /\ Selected(i) =>
            LET ch == ChanOf[subs[i].pin]
            IN  flag[ch] /\ ~Switching(ch) => i \in owed

(* Which pin the ERU, the interrupt server and the debts speak of.         *)
SamePin ==
    /\ ipc \in {"edges", "clear", "publish", "record"} => sel[Chan] = req.pin
    /\ \A ch \in Chans : ~Arming(ch) => sel[ch] = enc[ch]
    /\ \A i \in owed :
          ~Switching(ChanOf[subs[i].pin])
              => subs[i].pin = sel[ChanOf[subs[i].pin]]

IInv == TypeOK /\ FlagKept /\ FlagScanned /\ Genuine /\ SamePin

-----------------------------------------------------------------------------
(* Every edge detected is signalled, or lost to a SUBSCRIBE.               *)
Signalled == \A i \in Slots : i \in owed ~> i \in told \union lost

(* README.md: pins with an ERU request "get edge IRQs from the GPIO IRQ    *)
(* thread".  A subscription that was accepted keeps the input and the      *)
(* edges it asked for.                                                     *)
StaysArmed ==
    \A i \in Slots :
        ipc = "recv" /\ subs[i] # None =>
            LET ch == ChanOf[subs[i].pin]
            IN  sel[ch] = subs[i].pin /\ subs[i].edge \subseteq want[ch]
=============================================================================
