----------------------------- MODULE TcCanProofs ----------------------------
(***************************************************************************)
(* Proofs about TcCan, for any number of frames.                           *)
(***************************************************************************)
EXTENDS TcCan, TLAPS

-----------------------------------------------------------------------------
LEMMA InitIInv == Init => IInv
<1> SUFFICES ASSUME Init PROVE IInv
  OBVIOUS
<1>1. TypeOK
  <2>1. 0 \in Frames /\ Whole(0) \in Pairs
    BY CanConstants DEF Frames, Pairs, Whole
  <2> QED  BY <2>1 DEF Init, TypeOK
<1>2. Calls /\ Queue
  BY CanConstants
  DEF Init, Calls, Queue, Spinning, InRecv, Reading, Answering, Newest, Whole
<1>3. Awaited /\ Counters
  BY DEF Init, Awaited, Counters, NeverBlocks, Lockstep
<1>4. OneFrame  BY DEF Init, OneFrame, Spinning, Idle, Stored, Whole
<1> QED  BY <1>1, <1>2, <1>3, <1>4 DEF IInv

(* A call that is under way has a number within the bound. *)
LEMMA StepTyped ==
    ASSUME TypeOK, Calls, [Next]_vars
    PROVE  TypeOK' /\ Calls'
<1> USE CanConstants
    DEF TypeOK, Calls, Frames, Pairs, Whole, Spinning,
        InRecv, Reading, txVars, rxVars, objVars, irqVars, mode
<1>1. CASE UNCHANGED vars  BY <1>1 DEF vars
<1>2. CASE CallSend  BY <1>2 DEF CallSend
<1>3. CASE Posted  BY <1>3 DEF Posted
<1>4. CASE CallRecv  BY <1>4 DEF CallRecv
<1>5. CASE Taken  BY <1>5 DEF Taken
<1>6. CASE SendBusy  BY <1>6 DEF SendBusy
<1>7. CASE SendStart  BY <1>7 DEF SendStart
<1>8. CASE SendSeen  BY <1>8 DEF SendSeen
<1>9. CASE SendGiveUp  BY <1>9 DEF SendGiveUp
<1>10. CASE RecvReady  BY <1>10 DEF RecvReady
<1>11. CASE RecvEmpty  BY <1>11 DEF RecvEmpty
<1>12. CASE Unmask  BY <1>12 DEF Unmask, IrqAck
<1>13. CASE Wake  BY <1>13 DEF Wake
<1>14. CASE Look  BY <1>14 DEF Look
<1>15. CASE ReadLow  BY <1>15 DEF ReadLow
<1>16. CASE ReadHigh  BY <1>16 DEF ReadHigh
<1>17. CASE ClearObj  BY <1>17 DEF ClearObj
<1>18. CASE RecvEnd  BY <1>18 DEF RecvEnd, IrqAck
<1>19. CASE Transmit  BY <1>19 DEF Transmit
<1>20. CASE Store  BY <1>20 DEF Store
<1>21. CASE Interrupt  BY <1>21 DEF Interrupt
<1>22. CASE BoundReached  BY <1>22 DEF BoundReached, vars
<1> QED
  BY <1>1, <1>2, <1>3, <1>4, <1>5, <1>6, <1>7, <1>8, <1>9,
     <1>10, <1>11, <1>12, <1>13, <1>14, <1>15, <1>16, <1>17,
     <1>18, <1>19, <1>20, <1>21, <1>22
  DEF Next, Sender, Receiver, Server, Bus

(* No frame overtakes another between the sender and the receiver. *)
LEMMA StepQueue ==
    ASSUME TypeOK, Calls, Queue, [Next]_vars
    PROVE  Queue'
<1> USE CanConstants
    DEF TypeOK, Calls, Queue, Frames, Pairs, Whole, Spinning,
        InRecv, Reading, Answering, Newest, txVars, rxVars, objVars, irqVars, mode
<1>1. CASE UNCHANGED vars  BY <1>1 DEF vars
<1>2. CASE CallSend  BY <1>2 DEF CallSend
<1>3. CASE Posted  BY <1>3 DEF Posted
<1>4. CASE CallRecv  BY <1>4 DEF CallRecv
<1>5. CASE Taken  BY <1>5 DEF Taken
<1>6. CASE SendBusy  BY <1>6 DEF SendBusy
<1>7. CASE SendStart  BY <1>7 DEF SendStart
<1>8. CASE SendSeen  BY <1>8 DEF SendSeen
<1>9. CASE SendGiveUp  BY <1>9 DEF SendGiveUp
<1>10. CASE RecvReady  BY <1>10 DEF RecvReady
<1>11. CASE RecvEmpty  BY <1>11 DEF RecvEmpty
<1>12. CASE Unmask  BY <1>12 DEF Unmask, IrqAck
<1>13. CASE Wake  BY <1>13 DEF Wake
<1>14. CASE Look  BY <1>14 DEF Look
<1>15. CASE ReadLow  BY <1>15 DEF ReadLow
<1>16. CASE ReadHigh  BY <1>16 DEF ReadHigh
<1>17. CASE ClearObj  BY <1>17 DEF ClearObj
<1>18. CASE RecvEnd  BY <1>18 DEF RecvEnd, IrqAck
<1>19. CASE Transmit  BY <1>19 DEF Transmit
<1>20. CASE Store  BY <1>20 DEF Store
<1>21. CASE Interrupt  BY <1>21 DEF Interrupt
<1>22. CASE BoundReached  BY <1>22 DEF BoundReached, vars
<1> QED
  BY <1>1, <1>2, <1>3, <1>4, <1>5, <1>6, <1>7, <1>8, <1>9,
     <1>10, <1>11, <1>12, <1>13, <1>14, <1>15, <1>16, <1>17,
     <1>18, <1>19, <1>20, <1>21, <1>22
  DEF Next, Sender, Receiver, Server, Bus

(* A stored frame is never forgotten by a server about to block. *)
LEMMA StepAwaited ==
    ASSUME TypeOK, Awaited, [Next]_vars
    PROVE  Awaited'
<1> USE DEF TypeOK, Awaited, txVars, rxVars, objVars, irqVars, mode
<1>1. CASE UNCHANGED vars  BY <1>1 DEF vars
<1>2. CASE CallSend  BY <1>2 DEF CallSend
<1>3. CASE Posted  BY <1>3 DEF Posted
<1>4. CASE CallRecv  BY <1>4 DEF CallRecv
<1>5. CASE Taken  BY <1>5 DEF Taken
<1>6. CASE SendBusy  BY <1>6 DEF SendBusy
<1>7. CASE SendStart  BY <1>7 DEF SendStart
<1>8. CASE SendSeen  BY <1>8 DEF SendSeen
<1>9. CASE SendGiveUp  BY <1>9 DEF SendGiveUp
<1>10. CASE RecvReady  BY <1>10 DEF RecvReady
<1>11. CASE RecvEmpty  BY <1>11 DEF RecvEmpty
<1>12. CASE Unmask  BY <1>12 DEF Unmask, IrqAck
<1>13. CASE Wake  BY <1>13 DEF Wake
<1>14. CASE Look  BY <1>14 DEF Look
<1>15. CASE ReadLow  BY <1>15 DEF ReadLow
<1>16. CASE ReadHigh  BY <1>16 DEF ReadHigh
<1>17. CASE ClearObj  BY <1>17 DEF ClearObj
<1>18. CASE RecvEnd  BY <1>18 DEF RecvEnd, IrqAck
<1>19. CASE Transmit  BY <1>19 DEF Transmit
<1>20. CASE Store  BY <1>20 DEF Store
<1>21. CASE Interrupt  BY <1>21 DEF Interrupt
<1>22. CASE BoundReached  BY <1>22 DEF BoundReached, vars
<1> QED
  BY <1>1, <1>2, <1>3, <1>4, <1>5, <1>6, <1>7, <1>8, <1>9,
     <1>10, <1>11, <1>12, <1>13, <1>14, <1>15, <1>16, <1>17,
     <1>18, <1>19, <1>20, <1>21, <1>22
  DEF Next, Sender, Receiver, Server, Bus

(* The demo's counters stay in step. *)
LEMMA StepCounters ==
    ASSUME demo, TypeOK, Calls, Counters, [Next]_vars
    PROVE  Counters'
<1> USE CanConstants
    DEF TypeOK, Calls, Counters, NeverBlocks, Lockstep, Frames, Spinning,
        InRecv, Reading, txVars, rxVars, objVars, irqVars, mode
<1>1. CASE UNCHANGED vars  BY <1>1 DEF vars
<1>2. CASE CallSend  BY <1>2 DEF CallSend
<1>3. CASE Posted  BY <1>3 DEF Posted
<1>4. CASE CallRecv  BY <1>4 DEF CallRecv
<1>5. CASE Taken  BY <1>5 DEF Taken
<1>6. CASE SendBusy  BY <1>6 DEF SendBusy
<1>7. CASE SendStart  BY <1>7 DEF SendStart
<1>8. CASE SendSeen  BY <1>8 DEF SendSeen
<1>9. CASE SendGiveUp  BY <1>9 DEF SendGiveUp
<1>10. CASE RecvReady  BY <1>10 DEF RecvReady
<1>11. CASE RecvEmpty  BY <1>11 DEF RecvEmpty
<1>12. CASE Unmask  BY <1>12 DEF Unmask, IrqAck
<1>13. CASE Wake  BY <1>13 DEF Wake
<1>14. CASE Look  BY <1>14 DEF Look
<1>15. CASE ReadLow  BY <1>15 DEF ReadLow
<1>16. CASE ReadHigh  BY <1>16 DEF ReadHigh
<1>17. CASE ClearObj  BY <1>17 DEF ClearObj
<1>18. CASE RecvEnd  BY <1>18 DEF RecvEnd, IrqAck
<1>19. CASE Transmit  BY <1>19 DEF Transmit
<1>20. CASE Store  BY <1>20 DEF Store
<1>21. CASE Interrupt  BY <1>21 DEF Interrupt
<1>22. CASE BoundReached  BY <1>22 DEF BoundReached, vars
<1> QED
  BY <1>1, <1>2, <1>3, <1>4, <1>5, <1>6, <1>7, <1>8, <1>9,
     <1>10, <1>11, <1>12, <1>13, <1>14, <1>15, <1>16, <1>17,
     <1>18, <1>19, <1>20, <1>21, <1>22
  DEF Next, Sender, Receiver, Server, Bus

(* While no attempt fails there is one frame at most. *)
LEMMA StepOneFrame ==
    ASSUME demo, TypeOK, Calls, Counters, ~Overdue => OneFrame, [Next]_vars
    PROVE  ~Overdue' => OneFrame'
<1> USE CanConstants
    DEF TypeOK, Calls, Counters, NeverBlocks, Lockstep, Frames, Pairs, Whole, Spinning,
        InRecv, Reading, Idle, Stored, Overdue, OneFrame, txVars, rxVars, objVars, irqVars, mode
<1>1. CASE UNCHANGED vars  BY <1>1 DEF vars
<1>2. CASE CallSend  BY <1>2 DEF CallSend
<1>3. CASE Posted  BY <1>3 DEF Posted
<1>4. CASE CallRecv  BY <1>4 DEF CallRecv
<1>5. CASE Taken  BY <1>5 DEF Taken
<1>6. CASE SendBusy  BY <1>6 DEF SendBusy
<1>7. CASE SendStart  BY <1>7 DEF SendStart
<1>8. CASE SendSeen  BY <1>8 DEF SendSeen
<1>9. CASE SendGiveUp  BY <1>9 DEF SendGiveUp
<1>10. CASE RecvReady  BY <1>10 DEF RecvReady
<1>11. CASE RecvEmpty  BY <1>11 DEF RecvEmpty
<1>12. CASE Unmask  BY <1>12 DEF Unmask, IrqAck
<1>13. CASE Wake  BY <1>13 DEF Wake
<1>14. CASE Look  BY <1>14 DEF Look
<1>15. CASE ReadLow  BY <1>15 DEF ReadLow
<1>16. CASE ReadHigh  BY <1>16 DEF ReadHigh
<1>17. CASE ClearObj  BY <1>17 DEF ClearObj
<1>18. CASE RecvEnd  BY <1>18 DEF RecvEnd, IrqAck
<1>19. CASE Transmit  BY <1>19 DEF Transmit
<1>20. CASE Store  BY <1>20 DEF Store
<1>21. CASE Interrupt  BY <1>21 DEF Interrupt
<1>22. CASE BoundReached  BY <1>22 DEF BoundReached, vars
<1> QED
  BY <1>1, <1>2, <1>3, <1>4, <1>5, <1>6, <1>7, <1>8, <1>9,
     <1>10, <1>11, <1>12, <1>13, <1>14, <1>15, <1>16, <1>17,
     <1>18, <1>19, <1>20, <1>21, <1>22
  DEF Next, Sender, Receiver, Server, Bus

(* No step changes who the users are or what the kernel does.              *)
LEMMA StepMode == [Next]_vars => UNCHANGED demo
BY DEF Next, Sender, Receiver, Server, Bus, CallSend, Posted, CallRecv, Taken,
       SendBusy, SendStart, SendSeen, SendGiveUp, RecvReady, RecvEmpty, Unmask,
       Wake, Look, ReadLow, ReadHigh, ClearObj, RecvEnd, Transmit, Store,
       Interrupt, BoundReached, mode, vars

LEMMA StepIInv == IInv /\ [Next]_vars => IInv'
BY StepMode, StepTyped, StepQueue, StepAwaited, StepCounters, StepOneFrame DEF IInv

(* The strengthened invariant of the driver holds throughout.              *)
THEOREM CanInvariance == Spec => []IInv
<1>1. Init => IInv  BY InitIInv
<1>2. IInv /\ [Next]_vars => IInv'  BY StepIInv
<1> QED  BY <1>1, <1>2, PTL DEF Spec

-----------------------------------------------------------------------------
(* The variables of server, objects and threads keep their types.          *)
THEOREM CanTyped == Spec => []TypeOK
<1>1. IInv => TypeOK  BY DEF IInv
<1> QED  BY <1>1, CanInvariance, PTL

(* No wake-up of a server blocked in RECV is lost, whoever the users are,  *)
(* as long as ulmk_irq_ack drops no request.                               *)
THEOREM RecvWakes == Spec => []WillWake
<1>1. IInv => WillWake  BY DEF IInv, Awaited, WillWake
<1> QED  BY <1>1, CanInvariance, PTL

(* With the counters of smp_can_demo the server never blocks in RECV, the  *)
(* deadlock its header describes.                                          *)
THEOREM NoDeadlock == Spec => []NeverBlocks
<1>1. IInv => NeverBlocks  BY DEF IInv, Counters, NeverBlocks
<1> QED  BY <1>1, CanInvariance, PTL

(* g_posted and g_taken differ by the one frame under way at most.         *)
THEOREM InLockstep == Spec => [](demo => Lockstep)
<1>1. IInv => (demo => Lockstep)  BY DEF IInv, Counters
<1> QED  BY <1>1, CanInvariance, PTL

(* Without a failed attempt the demo decodes exactly what it posted.       *)
THEOREM DecodedIsPosted == Spec => []Faithful
<1>1. IInv => Faithful
  BY DEF IInv, Faithful, OneFrame, Calls, Spinning
<1> QED  BY <1>1, CanInvariance, PTL

(* No frame is decoded twice or out of order, whoever the two users are    *)
(* and however many attempts fail.                                         *)
THEOREM DecodedInOrder == Spec => InOrder
<1>1. IInv /\ [Next]_vars
        => [rpc = "recv" /\ rpc' = "ok" => got.lo < got'.lo]_vars
  <2> SUFFICES ASSUME IInv, Next, rpc = "recv", rpc' = "ok"
               PROVE  got.lo < got'.lo
    BY DEF vars
  <2>1. RecvEnd
    BY DEF Next, Sender, Receiver, Server, Bus, CallSend, Posted, CallRecv,
           Taken, SendBusy, SendStart, SendSeen, SendGiveUp, RecvReady,
           RecvEmpty, Unmask, Wake, Look, ReadLow, ReadHigh, ClearObj, Transmit,
           Store, Interrupt, BoundReached, txVars, rxVars, vars
  <2> QED  BY <2>1 DEF RecvEnd, IInv, Queue
<1> QED  BY <1>1, CanInvariance, PTL DEF Spec, InOrder
=============================================================================
