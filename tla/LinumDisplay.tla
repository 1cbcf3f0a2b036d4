---------------------------- MODULE LinumDisplay ----------------------------
(***************************************************************************)
(* The LTDC display server of the Witte Linum board                        *)
(* (witte_linum/drivers/display): one client, two frame buffers, the       *)
(* server that presents them and the controller that scans one of them.    *)
(*                                                                         *)
(* A frame of the panel runs through three phases: sync and back porch,    *)
(* the active lines, and the front porch.  A requested reload of the       *)
(* shadow registers (VBR) happens after the last active line; the line     *)
(* interrupt is programmed for line 0 (LIPCR = 0), where the next frame    *)
(* begins.                                                                 *)
(*                                                                         *)
(* The interrupt line is a level, LIF and LIE; the interrupt controller    *)
(* latches it in a pending bit.  The kernel masks the interrupt when it    *)
(* signals the notification; ulmk_irq_ack unmasks it and may also drop     *)
(* what is pending: either kernel is a behaviour of the model.             *)
(***************************************************************************)
EXTENDS Naturals

VARIABLES
    drops,    (* ulmk_irq_ack drops a pending request: never changes         *)
    upc,      (* client: painting, or waiting in a present                   *)
    held,     (* the buffer it paints or presents                            *)
    answer,   (* what its last present returned                              *)
    spc,      (* where the server is                                         *)
    front,    (* g_front; g_back is always the other one                     *)
    cfbar,    (* the shadow register CFBAR                                   *)
    vbr,      (* SRCR.VBR: a reload is requested                             *)
    scan,     (* the buffer the controller scans                             *)
    phase,    (* where in the frame the controller is                        *)
    lif,      (* ISR.LIF                                                     *)
    lie,      (* IER.LIE                                                     *)
    pend,     (* the interrupt is pending ...                                *)
    masked,   (* ... and masked until ulmk_irq_ack                           *)
    bit,      (* DISPLAY_NOTIF_VSYNC is pending in the notification          *)
    passed    (* line 0 was reached since the server began to wait for it    *)

vars == <<drops, upc, held, answer, spc, front, cfbar, vbr, scan, phase, lif,
          lie, pend, masked, bit, passed>>

userVars == <<upc, held, answer>>
ltdcVars == <<cfbar, vbr, scan, phase>>
irqVars  == <<lif, lie, pend, masked, bit, passed>>

Buffers == {0, 1}
Other(b) == 1 - b

Init ==
    /\ drops \in BOOLEAN
    /\ upc = "paint" /\ held = 1 /\ answer = "OK"
    /\ spc = "recv" /\ front = 0
    /\ cfbar = 0 /\ vbr = FALSE /\ scan = 0
    /\ phase \in {"sync", "active", "porch"}
    /\ lif \in BOOLEAN /\ lie = FALSE
    /\ pend = FALSE /\ masked = FALSE /\ bit = FALSE /\ passed = FALSE

-----------------------------------------------------------------------------
(* The client paints the buffer display_write or display_fb gave it, and   *)
(* presents it with display_present or, equally, display_flip.             *)

CallPresent ==
    /\ upc = "paint"
    /\ upc' = "present"
    /\ UNCHANGED <<drops, held, answer, spc, front, ltdcVars, irqVars>>

(* Faulty variant: the index of the next buffer does not wrap around.      *)
ContinueNextIndex ==
    /\ upc = "done"
    /\ upc' = "paint" /\ held' = front + 1
    /\ UNCHANGED <<drops, answer, spc, front, ltdcVars, irqVars>>

(* The next buffer to paint: g_back after OK, which is the other one;      *)
(* after an error g_back is the same one again, and a client that simply   *)
(* alternates takes the other.                                             *)
Continue ==
    /\ upc = "done"
    /\ upc' = "paint"
    /\ \/ answer = "OK" /\ held' = Other(front)
       \/ answer # "OK" /\ held' \in Buffers
    /\ UNCHANGED <<drops, answer, spc, front, ltdcVars, irqVars>>

-----------------------------------------------------------------------------
(* The server: display_do_present.                                         *)

ProgramCfbar ==
    /\ spc = "recv" /\ upc = "present"
    /\ cfbar' = held
    /\ spc' = "reload"
    /\ UNCHANGED <<drops, userVars, front, vbr, scan, phase, irqVars>>

(* Faulty variant: the reload is immediate (IMR).                          *)
RequestImmediate ==
    /\ spc = "reload"
    /\ scan' = cfbar
    /\ spc' = "clear"
    /\ UNCHANGED <<drops, userVars, front, cfbar, vbr, phase, irqVars>>

RequestReload ==
    /\ spc = "reload"
    /\ vbr' = TRUE
    /\ spc' = "clear"
    /\ UNCHANGED <<drops, userVars, front, cfbar, scan, phase, irqVars>>

(* display_wait_vsync.                                                     *)
ClearStale ==
    /\ spc = "clear"
    /\ lif' = FALSE /\ passed' = FALSE
    /\ spc' = "ack"
    /\ UNCHANGED <<drops, userVars, front, ltdcVars, lie, pend, masked, bit>>

IrqAck ==
    /\ masked' = FALSE
    /\ pend' = ((pend /\ ~drops) \/ (lif /\ lie))

AckStale ==
    /\ spc = "ack"
    /\ IrqAck
    /\ spc' = "enable"
    /\ UNCHANGED <<drops, userVars, front, ltdcVars, lif, lie, bit, passed>>

(* Faulty variant: the server waits without enabling the interrupt.        *)
EnableNothing ==
    /\ spc = "enable"
    /\ spc' = "wait"
    /\ UNCHANGED <<drops, userVars, front, ltdcVars, irqVars>>

EnableLine ==
    /\ spc = "enable"
    /\ lie' = TRUE /\ pend' = (pend \/ lif)
    /\ spc' = "wait"
    /\ UNCHANGED <<drops, userVars, front, ltdcVars, lif, masked, bit, passed>>

Wake ==
    /\ spc = "wait" /\ bit
    /\ bit' = FALSE
    /\ spc' = "disable"
    /\ UNCHANGED <<drops, userVars, front, ltdcVars, lif, lie, pend,
                   masked, passed>>

DisableLine ==
    /\ spc = "disable"
    /\ lie' = FALSE
    /\ spc' = "check"
    /\ UNCHANGED <<drops, userVars, front, ltdcVars, lif, pend, masked,
                   bit, passed>>

(* Woken without a line interrupt: the present fails, but what it          *)
(* programmed stays programmed.                                            *)
CheckFails ==
    /\ spc = "check" /\ ~lif
    /\ answer' = "ETIMEOUT" /\ upc' = "done"
    /\ spc' = "recv"
    /\ UNCHANGED <<drops, held, front, ltdcVars, irqVars>>

(* Faulty variant: being woken is taken for the line interrupt.            *)
PassUnchecked ==
    /\ spc = "check"
    /\ lif' = FALSE
    /\ spc' = "ack2"
    /\ UNCHANGED <<drops, userVars, front, ltdcVars, lie, pend, masked,
                   bit, passed>>

CheckPasses ==
    /\ spc = "check" /\ lif
    /\ lif' = FALSE
    /\ spc' = "ack2"
    /\ UNCHANGED <<drops, userVars, front, ltdcVars, lie, pend, masked,
                   bit, passed>>

Confirm ==
    /\ spc = "ack2"
    /\ IrqAck
    /\ front' = held
    /\ answer' = "OK" /\ upc' = "done"
    /\ spc' = "recv"
    /\ UNCHANGED <<drops, held, ltdcVars, lif, lie, bit, passed>>

-----------------------------------------------------------------------------
(* The controller and the interrupt.                                       *)

FirstActiveLine ==
    /\ phase = "sync"
    /\ phase' = "active"
    /\ UNCHANGED <<drops, userVars, spc, front, cfbar, vbr, scan, irqVars>>

LastActiveLine ==
    /\ phase = "active"
    /\ phase' = "porch"
    /\ scan' = IF vbr THEN cfbar ELSE scan
    /\ vbr' = FALSE
    /\ UNCHANGED <<drops, userVars, spc, front, cfbar, irqVars>>

LineZero ==
    /\ phase = "porch"
    /\ phase' = "sync"
    /\ lif' = TRUE /\ pend' = (pend \/ lie) /\ passed' = TRUE
    /\ UNCHANGED <<drops, userVars, spc, front, cfbar, vbr, scan, lie,
                   masked, bit>>

(* LIF stays set, so the request is pending again when the kernel is done. *)
Interrupt ==
    /\ pend /\ ~masked
    /\ bit' = TRUE /\ masked' = TRUE /\ pend' = (lif /\ lie)
    /\ UNCHANGED <<drops, userVars, spc, front, ltdcVars, lif, lie, passed>>

-----------------------------------------------------------------------------
Server ==
    \/ ProgramCfbar \/ RequestReload \/ ClearStale \/ AckStale \/ EnableLine
    \/ Wake \/ DisableLine \/ CheckFails \/ CheckPasses \/ Confirm
Ltdc == FirstActiveLine \/ LastActiveLine \/ LineZero

Next == CallPresent \/ Continue \/ Server \/ Ltdc \/ Interrupt

(* The server is scheduled, the controller never stops scanning and the    *)
(* kernel takes an interrupt that is due.                                  *)
Fairness == WF_vars(Server) /\ WF_vars(Ltdc) /\ WF_vars(Interrupt)

Spec == Init /\ [][Next]_vars
FairSpec == Spec /\ Fairness

-----------------------------------------------------------------------------
(* The variables keep their types.                                         *)
TypeOK ==
    /\ drops \in BOOLEAN
    /\ upc \in {"paint", "present", "done"}
    /\ held \in Buffers /\ answer \in {"OK", "ETIMEOUT"}
    /\ spc \in {"recv", "reload", "clear", "ack", "enable", "wait", "disable",
               "check", "ack2"}
    /\ front \in Buffers /\ cfbar \in Buffers /\ scan \in Buffers
    /\ phase \in {"sync", "active", "porch"}
    /\ vbr \in BOOLEAN /\ lif \in BOOLEAN /\ lie \in BOOLEAN
    /\ pend \in BOOLEAN /\ masked \in BOOLEAN /\ bit \in BOOLEAN
    /\ passed \in BOOLEAN

(* display.h: "present waits vsync".  A present is confirmed only when     *)
(* line 0 was reached after the server began to wait for it: a request     *)
(* latched earlier ends the wait but not with OK.                          *)
WaitsVsync == spc = "ack2" => passed

(* If acknowledging drops what is pending, no present is ever ended by a   *)
(* request latched for an earlier one: ETIMEOUT is never returned.         *)
NeverSpurious == drops => answer = "OK"

(* The controller may still scan the buffer the client paints, although    *)
(* its last present was confirmed - but then the reload that ends this is  *)
(* already requested, for the other buffer.                                *)
AtMostOneFrame ==
    upc = "paint" /\ answer = "OK" /\ scan = held
        => vbr /\ cfbar = Other(held)

(* README.md: "double buffered in SDRAM, flip on VSYNC (tear free)".  The  *)
(* controller never scans out the buffer the client paints.                *)
TearFree ==
    upc = "paint" /\ answer = "OK" /\ phase = "active" => scan # held

-----------------------------------------------------------------------------
(* The inductive strengthening of the safety properties, by topic.         *)

(* A line interrupt seen since ClearStale is one of line 0.                *)
LatchedSince ==
    /\ spc \in {"ack", "enable", "wait", "disable", "check"} /\ lif => passed
    /\ WaitsVsync

(* Where acknowledging drops what is pending, an interrupt is requested,   *)
(* delivered and notified only within one wait.                            *)
OneWait ==
    /\ lie <=> spc \in {"wait", "disable"}
    /\ drops =>
          /\ answer = "OK"
          /\ spc \in {"recv", "reload", "clear", "ack", "enable"} =>
                ~bit /\ ~pend /\ ~masked
          /\ spc = "wait" => (pend \/ bit => lif) /\ (masked <=> bit)
          /\ spc \in {"disable", "check"} => lif
          /\ spc \in {"disable", "check", "ack2"} => ~bit /\ masked

(* The shadow register holds the buffer presented last; it is the one the  *)
(* controller scans, or a reload is requested.                             *)
Shadowed ==
    /\ spc # "recv" => upc = "present"
    /\ spc # "reload" => vbr \/ scan = cfbar
    /\ spc # "recv" => cfbar = held
    /\ upc = "done" /\ answer = "OK" => cfbar = front
    /\ upc = "paint" /\ answer = "OK" => cfbar = Other(held)

IInv == TypeOK /\ LatchedSince /\ OneWait /\ Shadowed

-----------------------------------------------------------------------------
(* Every present is answered.                                              *)
Answered == upc = "present" ~> upc = "done"

(* The buffers are those of DoubleBuffer, confirmed before the take-over.  *)
Buffering == INSTANCE DoubleBuffer WITH
    strict <- FALSE,
    next <- IF vbr THEN cfbar ELSE scan,
    shown <- front

ImplementsDoubleBuffer == Buffering!Spec
=============================================================================
