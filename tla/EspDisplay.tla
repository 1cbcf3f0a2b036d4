----------------------------- MODULE EspDisplay -----------------------------
(***************************************************************************)
(* The display of the ESP32-P4 board: the display server                   *)
(* (esp32p4_ev_function/drivers/display), the frame-buffer stream          *)
(* dsi_fb.c it calls, the DW_GDMA channel that feeds the panel and the     *)
(* interrupt that rearms it after every frame, and one client.             *)
(*                                                                         *)
(* The frame buffers are in PSRAM (g_psram_fb).  The interrupt is routed   *)
(* to the core the server runs on, so the rearm is atomic for the server;  *)
(* the channel runs in parallel with both.                                 *)
(***************************************************************************)
EXTENDS Naturals

CONSTANT None   (* what the channel reads before it is started               *)

VARIABLES
    upc,     (* client: painting, or waiting in a present                    *)
    held,    (* the buffer it paints or presents                             *)
    answer,  (* what its last present returned                               *)
    spc,     (* where the server is                                          *)
    front,   (* g_front                                                      *)
    dpi,     (* g_dpi_on                                                     *)
    fb,      (* g_fb                                                         *)
    on,      (* g_fb_on                                                      *)
    chan,    (* the channel: off, transferring a frame, done with it         *)
    scan,    (* the buffer it transfers (SAR)                                *)
    bit,     (* g_frame_notif is signalled                                   *)
    shown    (* the buffer of the last present answered OK                   *)

vars == <<upc, held, answer, spc, front, dpi, fb, on, chan, scan, bit, shown>>

userVars == <<upc, held, answer>>
chanVars == <<chan, scan>>

Buffers == {0, 1}
Other(b) == 1 - b

Init ==
    /\ upc = "paint" /\ held = 1 /\ answer = "OK"
    /\ spc = "recv" /\ front = 0 /\ dpi = FALSE
    /\ fb = None /\ on = FALSE
    /\ chan = "off" /\ scan = None /\ bit = FALSE
    /\ shown = None

-----------------------------------------------------------------------------
(* The client paints display_write's buffer, the one behind g_front, and   *)
(* presents it with display_present or display_flip.                       *)

CallPresent ==
    /\ upc = "paint"
    /\ upc' = "present"
    /\ UNCHANGED <<held, answer, spc, front, dpi, fb, on, chanVars, bit, shown>>

(* Faulty variant: the index of the back buffer does not wrap around.      *)
ContinueNextIndex ==
    /\ upc = "done"
    /\ upc' = "paint" /\ held' = front + 1
    /\ UNCHANGED <<answer, spc, front, dpi, fb, on, chanVars, bit, shown>>

Continue ==
    /\ upc = "done"
    /\ upc' = "paint" /\ held' = Other(front)
    /\ UNCHANGED <<answer, spc, front, dpi, fb, on, chanVars, bit, shown>>

Return(code) ==
    /\ spc' = "recv" /\ upc' = "done" /\ answer' = code
    /\ shown' = IF code = "OK" THEN held ELSE shown

-----------------------------------------------------------------------------
(* The server: do_present.  g_front is flipped before anything can fail.   *)

Present ==
    /\ spc = "recv" /\ upc = "present"
    /\ front' = held
    /\ spc' = IF dpi THEN "publish" ELSE "start"
    /\ UNCHANGED <<userVars, dpi, fb, on, chanVars, bit, shown>>

(* dsi_fb_start: the interrupt may not be attached or enabled ...          *)
StartBegin ==
    /\ spc = "start"
    /\ fb' = held
    /\ spc' = "attach"
    /\ UNCHANGED <<userVars, front, dpi, on, chanVars, bit, shown>>

StartFails ==
    /\ spc = "attach"
    /\ Return("EINVAL")
    /\ UNCHANGED <<held, front, dpi, fb, on, chanVars, bit>>

(* ... or it is, and the first frame is streamed while the server sleeps.  *)
StartChannel ==
    /\ spc = "attach"
    /\ on' = TRUE
    /\ chan' = "run" /\ scan' = held
    /\ spc' = "started"
    /\ UNCHANGED <<userVars, front, dpi, fb, bit, shown>>

StartEnd ==
    /\ spc = "started"
    /\ dpi' = TRUE
    /\ Return("OK")
    /\ UNCHANGED <<held, front, fb, on, chanVars, bit>>

(* dsi_fb_present.                                                         *)
Publish ==
    /\ spc = "publish"
    /\ fb' = held
    /\ spc' = "drain"
    /\ UNCHANGED <<userVars, front, dpi, on, chanVars, bit, shown>>

(* Faulty variant: rearms of earlier frames are not dropped.               *)
DrainNothing ==
    /\ spc = "drain"
    /\ spc' = "wait"
    /\ UNCHANGED <<userVars, front, dpi, fb, on, chanVars, bit, shown>>

Drain ==
    /\ spc = "drain"
    /\ bit' = FALSE
    /\ spc' = "wait"
    /\ UNCHANGED <<userVars, front, dpi, fb, on, chanVars, shown>>

Rearmed ==
    /\ spc = "wait" /\ bit
    /\ bit' = FALSE
    /\ Return("OK")
    /\ UNCHANGED <<held, front, dpi, fb, on, chanVars>>

(* 100 ms without a rearm; g_fb and g_front stay as they are.              *)
TimesOut ==
    /\ spc = "wait" /\ ~bit
    /\ Return("EINVAL")
    /\ UNCHANGED <<held, front, dpi, fb, on, chanVars, bit>>

-----------------------------------------------------------------------------
(* The channel, and dw_gdma_rearm with the signal its return value asks    *)
(* the kernel for.                                                         *)

FrameDone ==
    /\ chan = "run"
    /\ chan' = "done"
    /\ UNCHANGED <<userVars, spc, front, dpi, fb, on, scan, bit, shown>>

(* Faulty variant: the rearm does not ask for the signal.                  *)
RearmSilently ==
    /\ chan = "done" /\ on
    /\ chan' = "run" /\ scan' = fb
    /\ UNCHANGED <<userVars, spc, front, dpi, fb, on, bit, shown>>

(* Only the end of a frame interrupts; the branch for another cause, which *)
(* signals without rearming, is not reached.                               *)
Rearm ==
    /\ chan = "done" /\ on
    /\ chan' = "run" /\ scan' = fb
    /\ bit' = TRUE
    /\ UNCHANGED <<userVars, spc, front, dpi, fb, on, shown>>

-----------------------------------------------------------------------------
Server ==
    \/ Present \/ StartBegin \/ StartFails \/ StartChannel \/ StartEnd
    \/ Publish \/ Drain \/ Rearmed

Next == CallPresent \/ Continue \/ Server \/ TimesOut \/ FrameDone \/ Rearm

(* The server is scheduled, the bridge paces the channel and the interrupt *)
(* is taken; the time-out need never strike.                               *)
Fairness == WF_vars(Server) /\ WF_vars(FrameDone) /\ WF_vars(Rearm)

Spec == Init /\ [][Next]_vars
FairSpec == Spec /\ Fairness

-----------------------------------------------------------------------------
(* The variables keep their types.                                         *)
TypeOK ==
    /\ upc \in {"paint", "present", "done"}
    /\ held \in Buffers /\ answer \in {"OK", "EINVAL"}
    /\ spc \in {"recv", "start", "attach", "started", "publish", "drain",
               "wait"}
    /\ front \in Buffers
    /\ fb \in Buffers \union {None} /\ scan \in Buffers \union {None}
    /\ shown \in Buffers \union {None}
    /\ chan \in {"off", "run", "done"}
    /\ dpi \in BOOLEAN /\ on \in BOOLEAN /\ bit \in BOOLEAN

(* After a confirmed present the client paints a buffer the channel does   *)
(* not read, now or after any number of rearms.                            *)
NoTear ==
    upc = "paint" /\ answer = "OK" /\ on => scan # held /\ fb # held

(* After one that failed the channel may still read the painted buffer,    *)
(* but the next rearm ends that.                                           *)
TearEnds == upc = "paint" /\ on => fb = Other(held)

(* The inductive strengthening of both: g_front and g_fb follow the buffer *)
(* presented, and a rearm seen since Drain has taken it over.              *)
Follows ==
    /\ spc # "recv" =>
          /\ upc = "present" /\ front = held
          /\ dpi <=> spc \in {"publish", "drain", "wait"}
    /\ on <=> dpi \/ spc = "started"
    /\ spc \in {"attach", "started", "drain", "wait"} => fb = held
    /\ spc = "started" \/ (spc = "wait" /\ bit) => scan = fb
    /\ upc = "done" /\ on => fb = front
    /\ upc = "paint" /\ on => fb = Other(held)
    /\ upc \in {"done", "paint"} /\ answer = "OK" /\ on => scan = fb

IInv == TypeOK /\ Follows

(* "A lost frame must degrade into a late frame, never into a wedged       *)
(* rendering thread": every present is answered, and not only because its  *)
(* wait is bounded - the rearm that is awaited comes.                      *)
Answered == upc = "present" ~> upc = "done"

-----------------------------------------------------------------------------
(* dsi.h: "block until the next DW_GDMA rearm consumes it".  The buffers   *)
(* are those of DoubleBuffer, confirmed only after the take-over.          *)
Buffering == INSTANCE DoubleBuffer WITH
    Buffers <- Buffers \union {None},
    strict <- TRUE,
    next <- fb

ImplementsDoubleBuffer == Buffering!Spec
=============================================================================
