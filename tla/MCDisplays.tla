----------------------------- MODULE MCDisplays -----------------------------
(***************************************************************************)
(* The two display servers checked side by side: a behaviour is one of the *)
(* Linum board or one of the ESP32-P4 board.  Variables that mean the same *)
(* on both boards have the same name in both modules and are shared here;  *)
(* those of the other board keep their initial value.                      *)
(***************************************************************************)
EXTENDS Naturals

CONSTANT None   (* what the DSI channel reads before it is started           *)

ASSUME NoneIsNoBuffer == None \notin {0, 1}

VARIABLES board,                                        (* never changes *)
          upc, held, answer, spc, front, scan, bit,     (* both boards   *)
          drops, cfbar, vbr, phase, lif, lie, pend, masked, passed,
          dpi, fb, on, chan, shown

linumOnly == <<drops, cfbar, vbr, phase, lif, lie, pend, masked, passed>>
espOnly   == <<dpi, fb, on, chan, shown>>
vars == <<board, upc, held, answer, spc, front, scan, bit, linumOnly, espOnly>>

Linum == INSTANCE LinumDisplay
Esp   == INSTANCE EspDisplay

OnLinum(A) == board = "linum" /\ A /\ UNCHANGED <<board, espOnly>>
OnEsp(A)   == board = "esp" /\ A /\ UNCHANGED <<board, linumOnly>>

Init ==
    \/ /\ board = "linum" /\ Linum!Init
       /\ dpi = FALSE /\ fb = None /\ on = FALSE /\ chan = "off" /\ shown = None
    \/ /\ board = "esp" /\ Esp!Init
       /\ drops = FALSE /\ cfbar = 0 /\ vbr = FALSE /\ phase = "sync"
       /\ lif = FALSE /\ lie = FALSE /\ pend = FALSE /\ masked = FALSE
       /\ passed = FALSE

Next ==
    \/ OnLinum(Linum!CallPresent) \/ OnLinum(Linum!Continue)
    \/ OnLinum(Linum!Server) \/ OnLinum(Linum!Ltdc) \/ OnLinum(Linum!Interrupt)
    \/ OnEsp(Esp!CallPresent) \/ OnEsp(Esp!Continue)
    \/ OnEsp(Esp!Server) \/ OnEsp(Esp!TimesOut)
    \/ OnEsp(Esp!FrameDone) \/ OnEsp(Esp!Rearm)

(* The fairness of the two modules.                                        *)
Fairness ==
    /\ WF_vars(OnLinum(Linum!Server)) /\ WF_vars(OnLinum(Linum!Ltdc))
    /\ WF_vars(OnLinum(Linum!Interrupt))
    /\ WF_vars(OnEsp(Esp!Server)) /\ WF_vars(OnEsp(Esp!FrameDone))
    /\ WF_vars(OnEsp(Esp!Rearm))

FairSpec == Init /\ [][Next]_vars /\ Fairness

-----------------------------------------------------------------------------
(* The variables keep their types.                                         *)
TypeOK == IF board = "linum" THEN Linum!TypeOK ELSE Esp!TypeOK

(* display.h "present waits vsync", on the Linum board: a present is       *)
(* confirmed only for a line 0 reached while the server waited, and with a *)
(* kernel that drops pending requests none is refused for a stale one.     *)
WaitsVsync == board = "linum" => Linum!WaitsVsync /\ Linum!NeverSpurious

(* What tearing there can be is bounded: a frame on the Linum board, none  *)
(* after a confirmed present on the ESP32-P4, where one that failed is     *)
(* made good by the next rearm (display_do_present, dsi_fb_present).       *)
TearBounded ==
    /\ board = "linum" => Linum!AtMostOneFrame
    /\ board = "esp" => Esp!NoTear /\ Esp!TearEnds

(* Every present is answered.                                              *)
Answered == upc = "present" ~> upc = "done"

(* Both are double buffers; only the ESP32-P4 confirms after the take-over.*)
Buffering == INSTANCE DoubleBuffer WITH
    Buffers <- {0, 1, None},
    strict <- board = "esp",
    next <- IF board = "esp" THEN fb ELSE IF vbr THEN cfbar ELSE scan,
    shown <- IF board = "esp" THEN shown ELSE front

ImplementsDoubleBuffer == Buffering!Spec
=============================================================================
