---------------------------- MODULE DoubleBuffer ----------------------------
(***************************************************************************)
(* What the display drivers promise of two frame buffers and one panel:    *)
(* the panel is fed from one buffer, a buffer handed to the driver takes   *)
(* over at the end of a frame and never inside one, and a present is       *)
(* confirmed for the buffer that was handed over last - if the driver is   *)
(* strict, only once the panel is fed from it.                             *)
(***************************************************************************)
CONSTANT Buffers   (* the frame buffers, and what the panel shows before     *)

VARIABLES strict, (* confirmation waits for the take-over: never changes     *)
          scan,   (* the buffer the panel is fed from                        *)
          next,   (* the buffer it is fed from after this frame              *)
          shown   (* the buffer of the last confirmed present                *)

vars == <<strict, scan, next, shown>>

Init ==
    /\ strict \in BOOLEAN
    /\ \E b \in Buffers : scan = b /\ next = b /\ shown = b

HandOver(b) == next' = b /\ UNCHANGED <<strict, scan, shown>>

FrameEnd == scan' = next /\ UNCHANGED <<strict, next, shown>>

Confirm ==
    /\ strict => scan = next
    /\ shown' = next
    /\ UNCHANGED <<strict, scan, next>>

Next == FrameEnd \/ Confirm \/ \E b \in Buffers : HandOver(b)

Spec == Init /\ [][Next]_vars
=============================================================================
