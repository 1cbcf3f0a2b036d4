-------------------------- MODULE MCDisplaysProofs --------------------------
(***************************************************************************)
(* Proofs about the two display servers, for any value of None: each board *)
(* keeps its inductive invariant, and both implement DoubleBuffer.         *)
(***************************************************************************)
EXTENDS MCDisplays, TLAPS

-----------------------------------------------------------------------------
(* The Linum board.                                                        *)

LEMMA LinumInit == Linum!Init => Linum!IInv
<1> SUFFICES ASSUME Linum!Init PROVE Linum!IInv
  OBVIOUS
<1> USE DEF Linum!Init, Linum!Buffers
<1>1. Linum!TypeOK  BY DEF Linum!TypeOK
<1>2. Linum!LatchedSince  BY DEF Linum!LatchedSince, Linum!WaitsVsync
<1>3. Linum!OneWait  BY DEF Linum!OneWait
<1>4. Linum!Shadowed  BY DEF Linum!Shadowed, Linum!Other
<1> QED  BY <1>1, <1>2, <1>3, <1>4 DEF Linum!IInv

(* Steps of the client.                                                    *)
LEMMA LinumClient ==
    ASSUME Linum!IInv, Linum!CallPresent \/ Linum!Continue
    PROVE  Linum!IInv'
<1> USE DEF Linum!IInv, Linum!TypeOK, Linum!Buffers, Linum!Other,
            Linum!LatchedSince, Linum!WaitsVsync, Linum!OneWait,
            Linum!Shadowed, Linum!ltdcVars, Linum!irqVars
<1>1. CASE Linum!CallPresent  BY <1>1 DEF Linum!CallPresent
<1>2. CASE Linum!Continue  BY <1>2 DEF Linum!Continue
<1> QED  BY <1>1, <1>2

(* Steps of display_do_present and display_wait_vsync.                     *)
LEMMA LinumServer ==
    ASSUME Linum!IInv, Linum!Server
    PROVE  Linum!IInv'
<1> USE DEF Linum!IInv, Linum!TypeOK, Linum!Buffers, Linum!Other,
            Linum!LatchedSince, Linum!WaitsVsync, Linum!OneWait,
            Linum!Shadowed, Linum!userVars, Linum!ltdcVars, Linum!irqVars,
            Linum!IrqAck
<1>1. CASE Linum!ProgramCfbar  BY <1>1 DEF Linum!ProgramCfbar
<1>2. CASE Linum!RequestReload  BY <1>2 DEF Linum!RequestReload
<1>3. CASE Linum!ClearStale  BY <1>3 DEF Linum!ClearStale
<1>4. CASE Linum!AckStale  BY <1>4 DEF Linum!AckStale
<1>5. CASE Linum!EnableLine  BY <1>5 DEF Linum!EnableLine
<1>6. CASE Linum!Wake
  <2> USE <1>6 DEF Linum!Wake
  <2>1. Linum!TypeOK'
    <3> HIDE DEF Linum!LatchedSince, Linum!WaitsVsync, Linum!OneWait,
                 Linum!Shadowed
    <3>1. /\ drops' \in BOOLEAN /\ vbr' \in BOOLEAN /\ lif' \in BOOLEAN
          /\ lie' \in BOOLEAN /\ pend' \in BOOLEAN /\ masked' \in BOOLEAN
          /\ bit' \in BOOLEAN /\ passed' \in BOOLEAN
      OBVIOUS
    <3>2. /\ upc' \in {"paint", "present", "done"}
          /\ answer' \in {"OK", "ETIMEOUT"}
          /\ phase' \in {"sync", "active", "porch"}
          /\ spc' \in {"recv", "reload", "clear", "ack", "enable", "wait",
                       "disable", "check", "ack2"}
      OBVIOUS
    <3>3. /\ held' \in Linum!Buffers /\ front' \in Linum!Buffers
          /\ cfbar' \in Linum!Buffers /\ scan' \in Linum!Buffers
      OBVIOUS
    <3> QED  BY ONLY <3>1, <3>2, <3>3 DEF Linum!TypeOK, Linum!Buffers
  <2>2. Linum!LatchedSince'  OBVIOUS
  <2>3. Linum!OneWait'  OBVIOUS
  <2>4. Linum!Shadowed'  OBVIOUS
  <2> QED  BY <2>1, <2>2, <2>3, <2>4
<1>7. CASE Linum!DisableLine
  <2> USE <1>7 DEF Linum!DisableLine
  <2>1. Linum!TypeOK'
    <3> HIDE DEF Linum!LatchedSince, Linum!WaitsVsync, Linum!OneWait,
                 Linum!Shadowed
    <3>1. /\ drops' \in BOOLEAN /\ vbr' \in BOOLEAN /\ lif' \in BOOLEAN
          /\ lie' \in BOOLEAN /\ pend' \in BOOLEAN /\ masked' \in BOOLEAN
          /\ bit' \in BOOLEAN /\ passed' \in BOOLEAN
      OBVIOUS
    <3>2. /\ upc' \in {"paint", "present", "done"}
          /\ answer' \in {"OK", "ETIMEOUT"}
          /\ phase' \in {"sync", "active", "porch"}
          /\ spc' \in {"recv", "reload", "clear", "ack", "enable", "wait",
                       "disable", "check", "ack2"}
      OBVIOUS
    <3>3. /\ held' \in Linum!Buffers /\ front' \in Linum!Buffers
          /\ cfbar' \in Linum!Buffers /\ scan' \in Linum!Buffers
      OBVIOUS
    <3> QED  BY ONLY <3>1, <3>2, <3>3 DEF Linum!TypeOK, Linum!Buffers
  <2>2. Linum!LatchedSince'  OBVIOUS
  <2>3. Linum!OneWait'  OBVIOUS
  <2>4. Linum!Shadowed'  OBVIOUS
  <2> QED  BY <2>1, <2>2, <2>3, <2>4
<1>8. CASE Linum!CheckFails  BY <1>8 DEF Linum!CheckFails
<1>9. CASE Linum!CheckPasses
  <2> USE <1>9 DEF Linum!CheckPasses
  <2>1. Linum!TypeOK'  OBVIOUS
  <2>2. Linum!LatchedSince'  OBVIOUS
  <2>3. Linum!OneWait'  OBVIOUS
  <2>4. Linum!Shadowed'  OBVIOUS
  <2> QED  BY <2>1, <2>2, <2>3, <2>4
<1>10. CASE Linum!Confirm  BY <1>10 DEF Linum!Confirm
<1> QED
  BY <1>1, <1>2, <1>3, <1>4, <1>5, <1>6, <1>7, <1>8, <1>9, <1>10
     DEF Linum!Server

(* Steps of the controller and of the kernel's interrupt dispatch.         *)
LEMMA LinumHardware ==
    ASSUME Linum!IInv, Linum!Ltdc \/ Linum!Interrupt
    PROVE  Linum!IInv'
<1> USE DEF Linum!IInv, Linum!TypeOK, Linum!Buffers, Linum!Other,
            Linum!LatchedSince, Linum!WaitsVsync, Linum!OneWait,
            Linum!Shadowed, Linum!userVars, Linum!ltdcVars, Linum!irqVars
<1>1. CASE Linum!FirstActiveLine  BY <1>1 DEF Linum!FirstActiveLine
<1>2. CASE Linum!LastActiveLine
  <2> USE <1>2 DEF Linum!LastActiveLine
  <2>1. Linum!TypeOK'
    <3> HIDE DEF Linum!LatchedSince, Linum!WaitsVsync, Linum!OneWait,
                 Linum!Shadowed
    <3>1. /\ drops' \in BOOLEAN /\ vbr' \in BOOLEAN /\ lif' \in BOOLEAN
          /\ lie' \in BOOLEAN /\ pend' \in BOOLEAN /\ masked' \in BOOLEAN
          /\ bit' \in BOOLEAN /\ passed' \in BOOLEAN
      OBVIOUS
    <3>2. /\ upc' \in {"paint", "present", "done"}
          /\ answer' \in {"OK", "ETIMEOUT"}
          /\ phase' \in {"sync", "active", "porch"}
          /\ spc' \in {"recv", "reload", "clear", "ack", "enable", "wait",
                       "disable", "check", "ack2"}
      OBVIOUS
    <3>3. /\ held' \in Linum!Buffers /\ front' \in Linum!Buffers
          /\ cfbar' \in Linum!Buffers /\ scan' \in Linum!Buffers
      OBVIOUS
    <3> QED  BY ONLY <3>1, <3>2, <3>3 DEF Linum!TypeOK, Linum!Buffers
  <2>2. Linum!LatchedSince'  OBVIOUS
  <2>3. Linum!OneWait'  OBVIOUS
  <2>4. Linum!Shadowed'  OBVIOUS
  <2> QED  BY <2>1, <2>2, <2>3, <2>4
<1>3. CASE Linum!LineZero  BY <1>3 DEF Linum!LineZero
<1>4. CASE Linum!Interrupt  BY <1>4 DEF Linum!Interrupt
<1> QED  BY <1>1, <1>2, <1>3, <1>4 DEF Linum!Ltdc

-----------------------------------------------------------------------------
(* The ESP32-P4 board.                                                     *)

LEMMA EspInit == Esp!Init => Esp!IInv
BY DEF Esp!Init, Esp!IInv, Esp!TypeOK, Esp!Buffers, Esp!Follows, Esp!Other

LEMMA EspClient ==
    ASSUME Esp!IInv, Esp!CallPresent \/ Esp!Continue
    PROVE  Esp!IInv'
<1> USE DEF Esp!IInv, Esp!TypeOK, Esp!Buffers, Esp!Other, Esp!Follows,
            Esp!chanVars
<1>1. CASE Esp!CallPresent  BY <1>1 DEF Esp!CallPresent
<1>2. CASE Esp!Continue  BY <1>2 DEF Esp!Continue
<1> QED  BY <1>1, <1>2

(* Steps of do_present, dsi_fb_start and dsi_fb_present.                   *)
LEMMA EspServer ==
    ASSUME Esp!IInv, Esp!Server \/ Esp!TimesOut
    PROVE  Esp!IInv'
<1> USE DEF Esp!IInv, Esp!TypeOK, Esp!Buffers, Esp!Other, Esp!Follows,
            Esp!userVars, Esp!chanVars, Esp!Return
<1>1. CASE Esp!Present  BY <1>1 DEF Esp!Present
<1>2. CASE Esp!StartBegin  BY <1>2 DEF Esp!StartBegin
<1>3. CASE Esp!StartFails  BY <1>3 DEF Esp!StartFails
<1>4. CASE Esp!StartChannel  BY <1>4 DEF Esp!StartChannel
<1>5. CASE Esp!StartEnd  BY <1>5 DEF Esp!StartEnd
<1>6. CASE Esp!Publish  BY <1>6 DEF Esp!Publish
<1>7. CASE Esp!Drain  BY <1>7 DEF Esp!Drain
<1>8. CASE Esp!Rearmed  BY <1>8 DEF Esp!Rearmed
<1>9. CASE Esp!TimesOut  BY <1>9 DEF Esp!TimesOut
<1> QED
  BY <1>1, <1>2, <1>3, <1>4, <1>5, <1>6, <1>7, <1>8, <1>9 DEF Esp!Server

(* Steps of the channel and of its interrupt.                              *)
LEMMA EspHardware ==
    ASSUME Esp!IInv, Esp!FrameDone \/ Esp!Rearm
    PROVE  Esp!IInv'
<1> USE DEF Esp!IInv, Esp!TypeOK, Esp!Buffers, Esp!Other, Esp!Follows,
            Esp!userVars
<1>1. CASE Esp!FrameDone  BY <1>1 DEF Esp!FrameDone
<1>2. CASE Esp!Rearm  BY <1>2 DEF Esp!Rearm
<1> QED  BY <1>1, <1>2

-----------------------------------------------------------------------------
(* Either board.                                                           *)

Inv == /\ board \in {"linum", "esp"}
       /\ board = "linum" => Linum!IInv
       /\ board = "esp" => Esp!IInv

LEMMA InvInit == Init => Inv
BY LinumInit, EspInit DEF Init, Inv

LEMMA InvStep == Inv /\ [Next]_vars => Inv'
<1> SUFFICES ASSUME Inv, [Next]_vars PROVE Inv'
  OBVIOUS
<1>1. CASE UNCHANGED vars
  <2>1. UNCHANGED <<board, Linum!vars, Esp!vars>>
    BY <1>1 DEF vars, linumOnly, espOnly, Linum!vars, Esp!vars
  <2>2. Linum!IInv => Linum!IInv'
    BY <2>1 DEF Linum!vars, Linum!IInv, Linum!TypeOK, Linum!Buffers,
                Linum!LatchedSince, Linum!WaitsVsync, Linum!OneWait,
                Linum!Shadowed, Linum!Other
  <2>3. Esp!IInv => Esp!IInv'
    BY <2>1 DEF Esp!vars, Esp!IInv, Esp!TypeOK, Esp!Buffers, Esp!Follows,
                Esp!Other
  <2> QED  BY <2>1, <2>2, <2>3 DEF Inv
<1>2. CASE board = "linum" /\ UNCHANGED board
           /\ (\/ Linum!CallPresent \/ Linum!Continue \/ Linum!Server
               \/ Linum!Ltdc \/ Linum!Interrupt)
  BY <1>2, LinumClient, LinumServer, LinumHardware DEF Inv
<1>3. CASE board = "esp" /\ UNCHANGED board
           /\ (\/ Esp!CallPresent \/ Esp!Continue \/ Esp!Server
               \/ Esp!TimesOut \/ Esp!FrameDone \/ Esp!Rearm)
  BY <1>3, EspClient, EspServer, EspHardware DEF Inv
<1> QED  BY <1>1, <1>2, <1>3 DEF Next, OnLinum, OnEsp

(* The inductive invariant of the board at hand holds throughout.          *)
THEOREM DisplayInvariance == FairSpec => []Inv
<1> QED  BY InvInit, InvStep, PTL DEF FairSpec

(* The variables keep their types.                                         *)
THEOREM DisplaysTyped == FairSpec => []TypeOK
<1>1. Inv => TypeOK
  BY DEF Inv, TypeOK, Linum!IInv, Esp!IInv
<1> QED  BY <1>1, DisplayInvariance, PTL

(* On the Linum board OK is answered only after a line 0 reached while the *)
(* server waited, and with a kernel that drops pending requests no present *)
(* is refused for a stale one.                                             *)
THEOREM PresentWaitsVsync == FairSpec => []WaitsVsync
<1>1. Inv => WaitsVsync
  BY DEF Inv, WaitsVsync, Linum!IInv, Linum!LatchedSince, Linum!OneWait,
         Linum!NeverSpurious
<1> QED  BY <1>1, DisplayInvariance, PTL

(* The buffer painted after a confirmed present is scanned for at most the *)
(* rest of the frame on the Linum board, and not at all on the ESP32-P4.   *)
THEOREM TearingBounded == FairSpec => []TearBounded
<1>1. ASSUME Inv, board = "linum" PROVE Linum!AtMostOneFrame
  BY <1>1 DEF Inv, Linum!IInv, Linum!TypeOK, Linum!Buffers, Linum!Shadowed,
              Linum!AtMostOneFrame, Linum!Other
<1>2. ASSUME Inv, board = "esp" PROVE Esp!NoTear /\ Esp!TearEnds
  BY <1>2 DEF Inv, Esp!IInv, Esp!TypeOK, Esp!Buffers, Esp!Follows,
              Esp!NoTear, Esp!TearEnds, Esp!Other
<1>3. Inv => TearBounded  BY <1>1, <1>2 DEF TearBounded
<1> QED  BY <1>3, DisplayInvariance, PTL

-----------------------------------------------------------------------------
(* Refinement of DoubleBuffer.                                             *)

LEMMA BufferInit == Init => Buffering!Init
BY DEF Init, Linum!Init, Esp!Init, Buffering!Init

(* A step of the Linum board hands a buffer over (RequestReload, and       *)
(* ProgramCfbar under a reload still requested), ends a frame, confirms,   *)
(* or changes nothing a double buffer has.                                 *)
LEMMA LinumBuffers ==
    ASSUME Linum!IInv, board = "linum", UNCHANGED board,
           \/ Linum!CallPresent \/ Linum!Continue \/ Linum!Server
           \/ Linum!Ltdc \/ Linum!Interrupt
    PROVE  [Buffering!Next]_(Buffering!vars)
<1> DEFINE Upcoming == IF vbr THEN cfbar ELSE scan
           Still == scan' = scan /\ Upcoming' = Upcoming /\ front' = front
<1>1. ASSUME Still PROVE UNCHANGED Buffering!vars
  BY <1>1 DEF Buffering!vars
<1>2. ASSUME NEW b \in {0, 1}, Upcoming' = b, scan' = scan, front' = front
      PROVE  Buffering!Next
  <2>1. Buffering!HandOver(b)  BY <1>2 DEF Buffering!HandOver
  <2> QED  BY <2>1 DEF Buffering!Next
<1>3. ASSUME scan' = Upcoming, Upcoming' = Upcoming, front' = front
      PROVE  Buffering!Next
  <2>1. Buffering!FrameEnd  BY <1>3 DEF Buffering!FrameEnd
  <2> QED  BY <2>1 DEF Buffering!Next
<1>4. ASSUME front' = Upcoming, Upcoming' = Upcoming, scan' = scan
      PROVE  Buffering!Next
  <2>1. Buffering!Confirm  BY <1>4 DEF Buffering!Confirm
  <2> QED  BY <2>1 DEF Buffering!Next
<1> USE DEF Linum!IInv, Linum!TypeOK, Linum!Buffers, Linum!Shadowed,
            Linum!userVars, Linum!ltdcVars, Linum!irqVars
<1>5. CASE Linum!ProgramCfbar
  <2>1. scan' = scan /\ front' = front /\ vbr' = vbr /\ cfbar' = held
        /\ held \in {0, 1}
    BY <1>5 DEF Linum!ProgramCfbar
  <2>2. CASE vbr  BY <1>2, <2>1, <2>2
  <2>3. CASE ~vbr  BY <1>1, <2>1, <2>3
  <2> QED  BY <2>2, <2>3
<1>6. CASE Linum!RequestReload
  <2>1. Upcoming' = cfbar /\ cfbar \in {0, 1} /\ scan' = scan /\ front' = front
    BY <1>6 DEF Linum!RequestReload
  <2> QED  BY <1>2, <2>1
<1>7. CASE Linum!LastActiveLine
  BY <1>3, <1>7 DEF Linum!LastActiveLine
<1>8. CASE Linum!Confirm
  BY <1>4, <1>8 DEF Linum!Confirm
<1>9. CASE \/ Linum!CallPresent \/ Linum!Continue \/ Linum!ClearStale
           \/ Linum!AckStale \/ Linum!EnableLine \/ Linum!Wake
           \/ Linum!DisableLine \/ Linum!CheckFails \/ Linum!CheckPasses
           \/ Linum!FirstActiveLine \/ Linum!LineZero \/ Linum!Interrupt
  BY <1>1, <1>9
     DEF Linum!CallPresent, Linum!Continue, Linum!ClearStale,
         Linum!AckStale, Linum!EnableLine, Linum!Wake, Linum!DisableLine,
         Linum!CheckFails, Linum!CheckPasses, Linum!FirstActiveLine,
         Linum!LineZero, Linum!Interrupt
<1> QED
  BY <1>5, <1>6, <1>7, <1>8, <1>9 DEF Linum!Server, Linum!Ltdc

(* A step of the ESP32-P4 board hands a buffer over (g_fb), starts a frame *)
(* from it, or confirms it once the channel reads it.                      *)
LEMMA EspBuffers ==
    ASSUME Esp!IInv, board = "esp", UNCHANGED board,
           \/ Esp!CallPresent \/ Esp!Continue \/ Esp!Server
           \/ Esp!TimesOut \/ Esp!FrameDone \/ Esp!Rearm
    PROVE  [Buffering!Next]_(Buffering!vars)
<1>1. ASSUME scan' = scan, fb' = fb, shown' = shown
      PROVE  UNCHANGED Buffering!vars
  BY <1>1 DEF Buffering!vars
<1>2. ASSUME NEW b \in {0, 1}, fb' = b, scan' = scan, shown' = shown
      PROVE  Buffering!Next
  <2>1. Buffering!HandOver(b)  BY <1>2 DEF Buffering!HandOver
  <2> QED  BY <2>1 DEF Buffering!Next
<1>3. ASSUME scan' = fb, fb' = fb, shown' = shown
      PROVE  Buffering!Next
  <2>1. Buffering!FrameEnd  BY <1>3 DEF Buffering!FrameEnd
  <2> QED  BY <2>1 DEF Buffering!Next
<1>4. ASSUME scan = fb, shown' = fb, fb' = fb, scan' = scan
      PROVE  Buffering!Next
  <2>1. Buffering!Confirm  BY <1>4 DEF Buffering!Confirm
  <2> QED  BY <2>1 DEF Buffering!Next
<1> USE DEF Esp!IInv, Esp!TypeOK, Esp!Buffers, Esp!Follows, Esp!userVars,
            Esp!chanVars, Esp!Return
<1>5. CASE Esp!StartBegin \/ Esp!Publish
  BY <1>2, <1>5 DEF Esp!StartBegin, Esp!Publish
<1>6. CASE Esp!StartChannel \/ Esp!Rearm
  BY <1>3, <1>6 DEF Esp!StartChannel, Esp!Rearm
<1>7. CASE Esp!StartEnd \/ Esp!Rearmed
  BY <1>4, <1>7 DEF Esp!StartEnd, Esp!Rearmed
<1>8. CASE \/ Esp!CallPresent \/ Esp!Continue \/ Esp!Present
           \/ Esp!StartFails \/ Esp!Drain \/ Esp!TimesOut \/ Esp!FrameDone
  BY <1>1, <1>8
     DEF Esp!CallPresent, Esp!Continue, Esp!Present, Esp!StartFails,
         Esp!Drain, Esp!TimesOut, Esp!FrameDone
<1> QED  BY <1>5, <1>6, <1>7, <1>8 DEF Esp!Server

LEMMA BufferStep == Inv /\ [Next]_vars => [Buffering!Next]_(Buffering!vars)
<1> SUFFICES ASSUME Inv, [Next]_vars
             PROVE  [Buffering!Next]_(Buffering!vars)
  OBVIOUS
<1>1. CASE UNCHANGED vars
  BY <1>1 DEF vars, linumOnly, espOnly, Buffering!vars
<1>2. CASE board = "linum" /\ UNCHANGED board
           /\ (\/ Linum!CallPresent \/ Linum!Continue \/ Linum!Server
               \/ Linum!Ltdc \/ Linum!Interrupt)
  BY <1>2, LinumBuffers DEF Inv
<1>3. CASE board = "esp" /\ UNCHANGED board
           /\ (\/ Esp!CallPresent \/ Esp!Continue \/ Esp!Server
               \/ Esp!TimesOut \/ Esp!FrameDone \/ Esp!Rearm)
  BY <1>3, EspBuffers DEF Inv
<1> QED  BY <1>1, <1>2, <1>3 DEF Next, OnLinum, OnEsp

(* Both display drivers are double buffers, and that of the ESP32-P4       *)
(* confirms a present only once the panel is fed from its buffer.          *)
THEOREM DisplaysAreDoubleBuffers == FairSpec => ImplementsDoubleBuffer
<1> QED
  BY BufferInit, BufferStep, DisplayInvariance, PTL
     DEF FairSpec, ImplementsDoubleBuffer, Buffering!Spec
=============================================================================
