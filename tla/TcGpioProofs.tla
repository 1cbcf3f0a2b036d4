---------------------------- MODULE TcGpioProofs ----------------------------
(***************************************************************************)
(* Proofs about TcGpio, for any pins, channels and number of records.      *)
(***************************************************************************)
EXTENDS TcGpio, TLAPS

-----------------------------------------------------------------------------
(* The places of a scan: 0, behind each channel, the end, waiting.         *)
LEMMA Places ==
    /\ {0, NChans, NChans + 1} \subseteq 0 .. NChans + 1
    /\ \A ch \in Chans : ch + 1 \in 0 .. NChans + 1
BY GpioConstants DEF Chans

LEMMA InitIInv == Init => IInv
<1> SUFFICES ASSUME Init PROVE IInv
  OBVIOUS
<1>1. TypeOK
  BY Places DEF Init, TypeOK
<1>2. FlagKept /\ FlagScanned
  BY DEF Init, FlagKept, FlagScanned
<1>3. Genuine /\ SamePin
  BY DEF Init, Genuine, SamePin, Arming
<1> QED  BY <1>1, <1>2, <1>3 DEF IInv

(* The variables keep their types.                                         *)
LEMMA StepTyped ==
    ASSUME TypeOK, [Next]_vars
    PROVE  TypeOK'
<1> USE GpioConstants, Places
    DEF TypeOK, Kinds, Waiting, Runs, Chan, On, Requests, Slots,
        ipcVars, eruVars, irqVars, tellVars, Settle, Named, FirstFree
<1>1. CASE UNCHANGED vars  BY <1>1 DEF vars
<1>2. ASSUME NEW r \in Requests, Subscribe(r) PROVE TypeOK'
  BY <1>2 DEF Subscribe
<1>3. ASSUME NEW i \in Slots, Record(i) PROVE TypeOK'  BY <1>3 DEF Record
<1>4. ASSUME NEW p \in Pins, NEW k \in Kinds, Edge(p, k) PROVE TypeOK'
  BY <1>4 DEF Edge
<1>5. ASSUME NEW i \in Slots, Consume(i) PROVE TypeOK'  BY <1>5 DEF Consume
<1>6. CASE SelectInput  BY <1>6 DEF SelectInput
<1>7. CASE SelectEdges  BY <1>7 DEF SelectEdges
<1>8. CASE ClearFlag  BY <1>8 DEF ClearFlag
<1>9. CASE Publish  BY <1>9 DEF Publish
<1>10. CASE NoRoom  BY <1>10 DEF NoRoom
<1>11. CASE Woken  BY <1>11 DEF Woken
<1>12. CASE ScanMiss  BY <1>12 DEF ScanMiss
<1>13. CASE ScanHit  BY <1>13 DEF ScanHit
<1>14. CASE Ack  BY <1>14 DEF Ack
<1>15. CASE Interrupt  BY <1>15 DEF Interrupt
<1> QED
  BY <1>1, <1>2, <1>3, <1>4, <1>5, <1>6, <1>7, <1>8,
     <1>9, <1>10, <1>11, <1>12, <1>13, <1>14, <1>15
  DEF Next, IpcServer, IrqServer, Arm

(* A flag is cleared together with the debts it stands for.                *)
LEMMA StepFlagKept ==
    ASSUME TypeOK, FlagKept, [Next]_vars
    PROVE  FlagKept'
<1> USE GpioConstants
    DEF TypeOK, FlagKept, Runs, Chan, On, Requests, Chans, Slots,
        ipcVars, eruVars, irqVars, tellVars, Settle, FirstFree
<1>1. CASE UNCHANGED vars  BY <1>1 DEF vars
<1>2. ASSUME NEW r \in Requests, Subscribe(r) PROVE FlagKept'
  BY <1>2 DEF Subscribe
<1>3. ASSUME NEW i \in Slots, Record(i) PROVE FlagKept'  BY <1>3 DEF Record
<1>4. ASSUME NEW p \in Pins, NEW k \in Kinds, Edge(p, k) PROVE FlagKept'
  BY <1>4 DEF Edge
<1>5. ASSUME NEW i \in Slots, Consume(i) PROVE FlagKept'  BY <1>5 DEF Consume
<1>6. CASE SelectInput  BY <1>6 DEF SelectInput
<1>7. CASE SelectEdges  BY <1>7 DEF SelectEdges
<1>8. CASE ClearFlag  BY <1>8 DEF ClearFlag
<1>9. CASE Publish  BY <1>9 DEF Publish
<1>10. CASE NoRoom  BY <1>10 DEF NoRoom
<1>11. CASE Woken  BY <1>11 DEF Woken
<1>12. CASE ScanMiss  BY <1>12 DEF ScanMiss
<1>13. CASE ScanHit  BY <1>13 DEF ScanHit
<1>14. CASE Ack  BY <1>14 DEF Ack
<1>15. CASE Interrupt  BY <1>15 DEF Interrupt
<1> QED
  BY <1>1, <1>2, <1>3, <1>4, <1>5, <1>6, <1>7, <1>8,
     <1>9, <1>10, <1>11, <1>12, <1>13, <1>14, <1>15
  DEF Next, IpcServer, IrqServer, Arm

(* A scan that has passed a flag will be repeated.                         *)
LEMMA StepFlagScanned ==
    ASSUME TypeOK, FlagScanned, [Next]_vars
    PROVE  FlagScanned'
<1> USE GpioConstants
    DEF TypeOK, FlagScanned, Waiting, Runs, Chan, On, Requests, Chans, Slots,
        ipcVars, eruVars, irqVars, tellVars, Settle, FirstFree
<1>1. CASE UNCHANGED vars  BY <1>1 DEF vars
<1>2. ASSUME NEW r \in Requests, Subscribe(r) PROVE FlagScanned'
  BY <1>2 DEF Subscribe
<1>3. ASSUME NEW i \in Slots, Record(i) PROVE FlagScanned'  BY <1>3 DEF Record
<1>4. ASSUME NEW p \in Pins, NEW k \in Kinds, Edge(p, k) PROVE FlagScanned'
  BY <1>4 DEF Edge
<1>5. ASSUME NEW i \in Slots, Consume(i) PROVE FlagScanned'  BY <1>5 DEF Consume
<1>6. CASE SelectInput  BY <1>6 DEF SelectInput
<1>7. CASE SelectEdges  BY <1>7 DEF SelectEdges
<1>8. CASE ClearFlag  BY <1>8 DEF ClearFlag
<1>9. CASE Publish  BY <1>9 DEF Publish
<1>10. CASE NoRoom  BY <1>10 DEF NoRoom
<1>11. CASE Woken  BY <1>11 DEF Woken
<1>12. CASE ScanMiss  BY <1>12 DEF ScanMiss
<1>13. CASE ScanHit  BY <1>13 DEF ScanHit
<1>14. CASE Ack  BY <1>14 DEF Ack
<1>15. CASE Interrupt  BY <1>15 DEF Interrupt
<1> QED
  BY <1>1, <1>2, <1>3, <1>4, <1>5, <1>6, <1>7, <1>8,
     <1>9, <1>10, <1>11, <1>12, <1>13, <1>14, <1>15
  DEF Next, IpcServer, IrqServer, Arm

(* A new flag is a new debt.                                               *)
LEMMA StepGenuine ==
    ASSUME TypeOK, Genuine, [Next]_vars
    PROVE  Genuine'
<1> USE GpioConstants
    DEF TypeOK, Genuine, Selected, Switching, Kinds,
        Runs, Chan, On, Requests, Chans, Slots,
        ipcVars, eruVars, irqVars, tellVars, Settle, FirstFree
<1>1. CASE UNCHANGED vars  BY <1>1 DEF vars
<1>2. ASSUME NEW r \in Requests, Subscribe(r) PROVE Genuine'
  BY <1>2 DEF Subscribe
<1>3. ASSUME NEW i \in Slots, Record(i) PROVE Genuine'  BY <1>3 DEF Record
<1>4. ASSUME NEW p \in Pins, NEW k \in Kinds, Edge(p, k) PROVE Genuine'
  BY <1>4 DEF Edge
<1>5. ASSUME NEW i \in Slots, Consume(i) PROVE Genuine'  BY <1>5 DEF Consume
<1>6. CASE SelectInput  BY <1>6 DEF SelectInput
<1>7. CASE SelectEdges  BY <1>7 DEF SelectEdges
<1>8. CASE ClearFlag  BY <1>8 DEF ClearFlag
<1>9. CASE Publish  BY <1>9 DEF Publish
<1>10. CASE NoRoom  BY <1>10 DEF NoRoom
<1>11. CASE Woken  BY <1>11 DEF Woken
<1>12. CASE ScanMiss  BY <1>12 DEF ScanMiss
<1>13. CASE ScanHit  BY <1>13 DEF ScanHit
<1>14. CASE Ack  BY <1>14 DEF Ack
<1>15. CASE Interrupt  BY <1>15 DEF Interrupt
<1> QED
  BY <1>1, <1>2, <1>3, <1>4, <1>5, <1>6, <1>7, <1>8,
     <1>9, <1>10, <1>11, <1>12, <1>13, <1>14, <1>15
  DEF Next, IpcServer, IrqServer, Arm

(* Input, published pin and debts agree outside of arming.                 *)
LEMMA StepSamePin ==
    ASSUME TypeOK, FlagKept, SamePin, [Next]_vars
    PROVE  SamePin'
<1> USE GpioConstants
    DEF TypeOK, FlagKept, SamePin, Arming, Switching,
        Runs, Chan, On, Requests, Chans, Slots,
        ipcVars, eruVars, irqVars, tellVars, Settle, FirstFree
<1>1. CASE UNCHANGED vars  BY <1>1 DEF vars
<1>2. ASSUME NEW r \in Requests, Subscribe(r) PROVE SamePin'
  BY <1>2 DEF Subscribe
<1>3. ASSUME NEW i \in Slots, Record(i) PROVE SamePin'  BY <1>3 DEF Record
<1>4. ASSUME NEW p \in Pins, NEW k \in Kinds, Edge(p, k) PROVE SamePin'
  BY <1>4 DEF Edge
<1>5. ASSUME NEW i \in Slots, Consume(i) PROVE SamePin'  BY <1>5 DEF Consume
<1>6. CASE SelectInput  BY <1>6 DEF SelectInput
<1>7. CASE SelectEdges  BY <1>7 DEF SelectEdges
<1>8. CASE ClearFlag  BY <1>8 DEF ClearFlag
<1>9. CASE Publish  BY <1>9 DEF Publish
<1>10. CASE NoRoom  BY <1>10 DEF NoRoom
<1>11. CASE Woken  BY <1>11 DEF Woken
<1>12. CASE ScanMiss  BY <1>12 DEF ScanMiss
<1>13. CASE ScanHit  BY <1>13 DEF ScanHit
<1>14. CASE Ack  BY <1>14 DEF Ack
<1>15. CASE Interrupt  BY <1>15 DEF Interrupt
<1> QED
  BY <1>1, <1>2, <1>3, <1>4, <1>5, <1>6, <1>7, <1>8,
     <1>9, <1>10, <1>11, <1>12, <1>13, <1>14, <1>15
  DEF Next, IpcServer, IrqServer, Arm

LEMMA StepIInv == IInv /\ [Next]_vars => IInv'
BY StepTyped, StepFlagKept, StepFlagScanned, StepGenuine, StepSamePin DEF IInv

(* The strengthened invariant of the GPIO driver holds throughout.         *)
THEOREM GpioInvariance == Spec => []IInv
<1>1. Init => IInv  BY InitIInv
<1>2. IInv /\ [Next]_vars => IInv'  BY StepIInv
<1> QED  BY <1>1, <1>2, PTL DEF Spec

-----------------------------------------------------------------------------
(* The records, the ERU and the two threads keep their types.              *)
THEOREM GpioTyped == Spec => []TypeOK
<1>1. IInv => TypeOK  BY DEF IInv
<1> QED  BY <1>1, GpioInvariance, PTL

(* The scan of gpio_irq_server clears no flag it does not signal.          *)
THEOREM EdgesKept == Spec => []FlagKept
<1>1. IInv => FlagKept  BY DEF IInv
<1> QED  BY <1>1, GpioInvariance, PTL

(* No edge is left behind a scan that has already passed its channel, as   *)
(* long as ulmk_irq_ack drops no request.                                  *)
THEOREM FlagsScanned == Spec => []WillScan
<1>1. IInv => WillScan
  BY GpioConstants
  DEF IInv, TypeOK, FlagKept, FlagScanned, WillScan, Requests, Slots
<1> QED  BY <1>1, GpioInvariance, PTL

(* gpio_irq_server notifies nobody of an edge that did not happen.         *)
THEOREM NobodyStray == Spec => []NoStray
<1>1. IInv => NoStray
  BY DEF IInv, Genuine, NoStray, Named, On, Arming, Switching
<1> QED  BY <1>1, GpioInvariance, PTL

(* An edge is lost to nothing but eru_arm on the channel it came in on.    *)
THEOREM LossTraced == Spec => LostByArming
<1>1. IInv /\ [Next]_vars
        => [\A i \in lost' \ lost : Arming(ChanOf[subs[i].pin])]_vars
  <2> SUFFICES ASSUME IInv, Next, NEW i \in lost' \ lost
               PROVE  Arming(ChanOf[subs[i].pin])
    BY DEF vars
  <2>1. ClearFlag \/ ScanHit
    BY DEF Next, IpcServer, IrqServer, Arm, Subscribe, Record, NoRoom,
           SelectInput, SelectEdges, Publish, Woken, ScanMiss, Ack, Edge,
           Interrupt, Consume, ipcVars, eruVars, irqVars, tellVars
  <2>2. CASE ClearFlag
    BY <2>2 DEF ClearFlag, Runs, On, Arming
  <2>3. CASE ScanHit
    BY <2>3 DEF ScanHit, Settle, Named, On, IInv, TypeOK, SamePin, Arming,
                Switching
  <2> QED  BY <2>1, <2>2, <2>3
<1> QED  BY <1>1, GpioInvariance, PTL DEF Spec, LostByArming
=============================================================================
