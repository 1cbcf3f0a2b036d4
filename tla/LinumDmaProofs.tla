--------------------------- MODULE LinumDmaProofs ---------------------------
(***************************************************************************)
(* Proofs about LinumDma, for any set of slots, any time-out, any payload  *)
(* length and any number of transfers.                                     *)
(***************************************************************************)
EXTENDS LinumDma, TLAPS

(* Every action of the pool is an action of one slot.                      *)
Step(s) == User(s) \/ Dispatcher(s) \/ Worker(s) \/ Hardware(s)

-----------------------------------------------------------------------------
(* Type correctness, together with the budget it rests on.                 *)

LEMMA TypeInit == Init => TypeOK /\ \A s \in Slots : Budget(s)
<1> USE DmaConstants
        DEF Init, TypeOK, Budget, Payload, Outcome, Xfers, Buffers, Outcomes
<1> SUFFICES ASSUME Init PROVE TypeOK /\ \A s \in Slots : Budget(s)
  OBVIOUS
<1>1. /\ 0 \in Xfers /\ Payload(0) \in Buffers
      /\ Outcome("OK", 0, 0) \in Outcomes
  OBVIOUS
<1> QED  BY <1>1

LEMMA TypeUser ==
    ASSUME TypeOK, \A t \in Slots : Budget(t), NEW s \in Slots, User(s)
    PROVE  TypeOK' /\ \A t \in Slots : Budget(t)'
<1> USE DmaConstants
    DEF TypeOK, Budget, slotVars, workVars, hwVars, memVars, userVars, Xfers
<1>1. CASE CallOpen(s)  BY <1>1 DEF CallOpen, Request
<1>2. CASE CallClose(s)  BY <1>2 DEF CallClose, Request
<1>3. CASE CallArm(s)  BY <1>3 DEF CallArm
<1>4. CASE KickThenWait(s)  BY <1>4 DEF KickThenWait, Request
<1> QED  BY <1>1, <1>2, <1>3, <1>4 DEF User

LEMMA TypeDispatcher ==
    ASSUME TypeOK, \A t \in Slots : Budget(t), NEW s \in Slots, Dispatcher(s)
    PROVE  TypeOK' /\ \A t \in Slots : Budget(t)'
<1> USE DmaConstants
    DEF TypeOK, Budget, slotVars, workVars, hwVars, memVars, userVars, Xfers,
        Reply, Block, Unblock, Receiving
<1>1. CASE DoOpen(s)  BY <1>1 DEF DoOpen
<1>2. CASE DoClose(s)  BY <1>2 DEF DoClose
<1>3. CASE Reject(s)  BY <1>3 DEF Reject
<1>4. CASE DoLoad(s)
  <2>1. chunk[s] + 1 \in 1 .. Chunks /\ xfer[s] + 1 \in Xfers
    BY <1>4 DEF DoLoad
  <2>2. cpu' \in [Slots -> Buffers]
    BY <1>4, <2>1 DEF DoLoad, Buffers
  <2> QED  BY <1>4, <2>1, <2>2 DEF DoLoad
<1>5. CASE ArmBegin(s)  BY <1>5 DEF ArmBegin
<1>6. CASE ArmEnd(s)  BY <1>6 DEF ArmEnd
<1>7. CASE WaitBegin(s)  BY <1>7 DEF WaitBegin
<1>8. CASE WaitEnd(s)  BY <1>8 DEF WaitEnd
<1> QED  BY <1>1, <1>2, <1>3, <1>4, <1>5, <1>6, <1>7, <1>8 DEF Dispatcher

LEMMA TypeWorker ==
    ASSUME TypeOK, \A t \in Slots : Budget(t), NEW s \in Slots, Worker(s)
    PROVE  TypeOK' /\ \A t \in Slots : Budget(t)'
<1> USE DmaConstants
    DEF TypeOK, Budget, slotVars, workVars, hwVars, memVars, userVars, Xfers,
        Go, Clean, Invalidate
<1>1. CASE TakeJob(s)
  <2>1. /\ cpu' \in [Slots -> Buffers]
        /\ ram' \in [Slots -> Buffers]
        /\ dirty' \in [Slots -> BOOLEAN]
    <3>1. CASE Clean(s)  BY <3>1
    <3>2. CASE Invalidate(s)  BY <3>2
    <3> QED  BY <1>1, <3>1, <3>2 DEF TakeJob
  <2> QED  BY <1>1, <2>1 DEF TakeJob
<1>2. CASE ClearFlags(s)  BY <1>2 DEF ClearFlags
<1>3. CASE Program(s)  BY <1>3 DEF Program
<1>4. CASE SignalArmed(s)  BY <1>4 DEF SignalArmed
<1>5. CASE PollHit(s)  BY <1>5 DEF PollHit, Outcome, Outcomes
<1>6. CASE PollSleep(s)  BY <1>6 DEF PollSleep
<1>7. CASE PollExpire(s)  BY <1>7 DEF PollExpire, Outcome, Outcomes
<1>8. CASE SignalDone(s)  BY <1>8 DEF SignalDone
<1> QED  BY <1>1, <1>2, <1>3, <1>4, <1>5, <1>6, <1>7, <1>8 DEF Worker

LEMMA TypeHardware ==
    ASSUME TypeOK, \A t \in Slots : Budget(t), NEW s \in Slots, Hardware(s)
    PROVE  TypeOK' /\ \A t \in Slots : Budget(t)'
<1> USE DmaConstants
    DEF TypeOK, Budget, slotVars, workVars, hwVars, memVars, userVars, Xfers,
        Clean, Invalidate
<1>1. CASE StreamComplete(s)
  <2>1. Payload(stream[s]) \in Buffers  BY DEF Payload, Buffers
  <2> QED  BY <1>1, <2>1 DEF StreamComplete
<1>2. CASE WriteBack(s)  BY <1>2 DEF WriteBack
<1>3. CASE Refetch(s)  BY <1>3 DEF Refetch
<1> QED  BY <1>1, <1>2, <1>3 DEF Hardware

LEMMA TypeStep ==
    TypeOK /\ (\A t \in Slots : Budget(t)) /\ [Next]_vars
        => (TypeOK /\ \A t \in Slots : Budget(t))'
<1> SUFFICES ASSUME TypeOK, \A t \in Slots : Budget(t), [Next]_vars
             PROVE  TypeOK' /\ \A t \in Slots : Budget(t)'
  OBVIOUS
<1>1. CASE UNCHANGED vars  BY <1>1 DEF vars, TypeOK, Budget
<1>2. ASSUME NEW s \in Slots, Step(s)
      PROVE  TypeOK' /\ \A t \in Slots : Budget(t)'
  BY <1>2, TypeUser, TypeDispatcher, TypeWorker, TypeHardware DEF Step
<1> QED  BY <1>1, <1>2 DEF Next, Step

(* The type invariant holds of every behaviour of the pool.                *)
THEOREM TypeCorrect == Spec => []TypeOK
<1> DEFINE Inv == TypeOK /\ \A t \in Slots : Budget(t)
<1>1. Init => Inv  BY TypeInit
<1>2. Inv /\ [Next]_vars => Inv'  BY TypeStep
<1>3. Inv => TypeOK  OBVIOUS
<1> QED  BY <1>1, <1>2, <1>3, PTL DEF Spec

-----------------------------------------------------------------------------
(* A step of one slot leaves every variable of the other slots alone.      *)

Frame(t) ==
    /\ open'[t] = open[t] /\ job'[t] = job[t] /\ done'[t] = done[t]
    /\ result'[t] = result[t] /\ wpc'[t] = wpc[t] /\ stream'[t] = stream[t]
    /\ tcif'[t] = tcif[t] /\ disp'[t] = disp[t] /\ upc'[t] = upc[t]
    /\ xfer'[t] = xfer[t] /\ ret'[t] = ret[t]
    /\ cpu'[t] = cpu[t] /\ ram'[t] = ram[t] /\ dirty'[t] = dirty[t]
    /\ chunk'[t] = chunk[t] /\ got'[t] = got[t]

LEMMA StepFrame ==
    ASSUME TypeOK, NEW s \in Slots, NEW t \in Slots, s # t, Step(s)
    PROVE  Frame(t)
<1> USE DEF TypeOK, Frame, slotVars, workVars, hwVars, memVars, userVars,
            Reply, Block, Unblock, Go, Request, Clean, Invalidate
<1>1. CASE User(s)
  BY <1>1 DEF User, CallOpen, CallClose, CallArm, KickThenWait
<1>2. CASE Dispatcher(s)
  BY <1>2 DEF Dispatcher, DoOpen, DoClose, Reject, DoLoad, ArmBegin, ArmEnd,
              WaitBegin, WaitEnd
<1>3. CASE Worker(s)
  BY <1>3 DEF Worker, TakeJob, ClearFlags, Program, SignalArmed, PollHit,
              PollSleep, PollExpire, SignalDone
<1>4. CASE Hardware(s)
  BY <1>4 DEF Hardware, StreamComplete, WriteBack, Refetch
<1> QED  BY <1>1, <1>2, <1>3, <1>4 DEF Step

-----------------------------------------------------------------------------
(* The handshake over job_notif and done_notif.                            *)

LEMMA HandshakeUser ==
    ASSUME TypeOK, NEW s \in Slots, Handshake(s), User(s)
    PROVE  Handshake(s)'
<1> USE DEF TypeOK, Handshake, AtRest, ArmStage, WaitStage, slotVars,
            workVars
<1>1. CASE CallOpen(s)  BY <1>1 DEF CallOpen, Request
<1>2. CASE CallClose(s)  BY <1>2 DEF CallClose, Request
<1>3. CASE CallArm(s)  BY <1>3 DEF CallArm
<1>4. CASE KickThenWait(s)  BY <1>4 DEF KickThenWait, Request
<1> QED  BY <1>1, <1>2, <1>3, <1>4 DEF User

LEMMA HandshakeDispatcher ==
    ASSUME TypeOK, NEW s \in Slots, Handshake(s), Dispatcher(s)
    PROVE  Handshake(s)'
<1> USE DEF TypeOK, Handshake, AtRest, ArmStage, WaitStage, slotVars,
            workVars, Reply, Block, Unblock, Receiving
<1>1. CASE DoOpen(s)  BY <1>1 DEF DoOpen
<1>2. CASE DoClose(s)  BY <1>2 DEF DoClose
<1>3. CASE Reject(s)  BY <1>3 DEF Reject
<1>4. CASE DoLoad(s)  BY <1>4 DEF DoLoad
<1>5. CASE ArmBegin(s)  BY <1>5 DEF ArmBegin
<1>6. CASE ArmEnd(s)  BY <1>6 DEF ArmEnd
<1>7. CASE WaitBegin(s)  BY <1>7 DEF WaitBegin
<1>8. CASE WaitEnd(s)  BY <1>8 DEF WaitEnd
<1> QED  BY <1>1, <1>2, <1>3, <1>4, <1>5, <1>6, <1>7, <1>8 DEF Dispatcher

LEMMA HandshakeWorker ==
    ASSUME TypeOK, NEW s \in Slots, Handshake(s), Worker(s)
    PROVE  Handshake(s)'
<1> USE DEF TypeOK, Handshake, AtRest, ArmStage, WaitStage, slotVars,
            workVars, Go
<1>1. CASE TakeJob(s)  BY <1>1 DEF TakeJob
<1>2. CASE ClearFlags(s)  BY <1>2 DEF ClearFlags
<1>3. CASE Program(s)  BY <1>3 DEF Program
<1>4. CASE SignalArmed(s)  BY <1>4 DEF SignalArmed
<1>5. CASE PollHit(s)  BY <1>5 DEF PollHit
<1>6. CASE PollSleep(s)  BY <1>6 DEF PollSleep
<1>7. CASE PollExpire(s)  BY <1>7 DEF PollExpire
<1>8. CASE SignalDone(s)  BY <1>8 DEF SignalDone
<1> QED  BY <1>1, <1>2, <1>3, <1>4, <1>5, <1>6, <1>7, <1>8 DEF Worker

LEMMA HandshakeHardware ==
    ASSUME TypeOK, NEW s \in Slots, Handshake(s), Hardware(s)
    PROVE  Handshake(s)'
BY DEF TypeOK, Handshake, AtRest, ArmStage, WaitStage, slotVars, workVars,
       Hardware, StreamComplete, WriteBack, Refetch

LEMMA HandshakeStep ==
    ASSUME TypeOK, \A t \in Slots : Handshake(t), [Next]_vars
    PROVE  \A t \in Slots : Handshake(t)'
<1>1. CASE UNCHANGED vars
  BY <1>1 DEF vars, Handshake, AtRest, ArmStage, WaitStage
<1>2. ASSUME NEW s \in Slots, Step(s), NEW t \in Slots
      PROVE  Handshake(t)'
  <2>1. CASE s = t
    BY <1>2, <2>1, HandshakeUser, HandshakeDispatcher, HandshakeWorker,
       HandshakeHardware DEF Step
  <2>2. CASE s # t
    <3>1. Frame(t)  BY <1>2, <2>2, StepFrame
    <3> QED  BY <3>1 DEF Frame, Handshake, AtRest, ArmStage, WaitStage
  <2> QED  BY <2>1, <2>2
<1> QED  BY <1>1, <1>2 DEF Next, Step

-----------------------------------------------------------------------------
(* Which transfer a stream, a TC flag and a result belong to.              *)

LEMMA NumberingUser ==
    ASSUME TypeOK, NEW s \in Slots, Handshake(s), Numbering(s), CleanSlate(s),
           User(s)
    PROVE  Numbering(s)' /\ CleanSlate(s)'
<1> USE DEF TypeOK, Xfers, Outcomes, Handshake, AtRest, Numbering, CleanSlate,
            JoinedOwn, Preparing, Joinable, slotVars, workVars, hwVars,
            memVars, userVars
<1>1. CASE CallOpen(s)  BY <1>1 DEF CallOpen, Request
<1>2. CASE CallClose(s)  BY <1>2 DEF CallClose, Request
<1>3. CASE CallArm(s)  BY <1>3 DEF CallArm
<1>4. CASE KickThenWait(s)  BY <1>4 DEF KickThenWait, Request
<1> QED  BY <1>1, <1>2, <1>3, <1>4 DEF User

LEMMA NumberingDispatcher ==
    ASSUME TypeOK, NEW s \in Slots, Handshake(s), Numbering(s), CleanSlate(s),
           Dispatcher(s)
    PROVE  Numbering(s)' /\ CleanSlate(s)'
<1> USE DEF TypeOK, Xfers, Outcomes, Handshake, AtRest, ArmStage, WaitStage,
            Numbering, CleanSlate, JoinedOwn, Preparing, Joinable, slotVars,
            workVars, hwVars, memVars, userVars, Reply, Block, Unblock,
            Receiving
<1>1. CASE DoOpen(s)  BY <1>1 DEF DoOpen
<1>2. CASE DoClose(s)  BY <1>2 DEF DoClose
<1>3. CASE Reject(s)  BY <1>3 DEF Reject
<1>4. CASE DoLoad(s)  BY <1>4 DEF DoLoad
<1>5. CASE ArmBegin(s)  BY <1>5 DEF ArmBegin
<1>6. CASE ArmEnd(s)  BY <1>6 DEF ArmEnd
<1>7. CASE WaitBegin(s)  BY <1>7 DEF WaitBegin
<1>8. CASE WaitEnd(s)  BY <1>8 DEF WaitEnd
<1> QED  BY <1>1, <1>2, <1>3, <1>4, <1>5, <1>6, <1>7, <1>8 DEF Dispatcher

LEMMA NumberingWorker ==
    ASSUME TypeOK, NEW s \in Slots, Handshake(s), Numbering(s), CleanSlate(s),
           Worker(s)
    PROVE  Numbering(s)' /\ CleanSlate(s)'
<1> USE DEF TypeOK, Xfers, Outcomes, Outcome, Handshake, AtRest, ArmStage,
            WaitStage, Numbering, CleanSlate, JoinedOwn, Preparing, Joinable,
            slotVars, workVars, hwVars, memVars, userVars, Go
<1>1. CASE TakeJob(s)  BY <1>1 DEF TakeJob
<1>2. CASE ClearFlags(s)  BY <1>2 DEF ClearFlags
<1>3. CASE Program(s)  BY <1>3 DEF Program
<1>4. CASE SignalArmed(s)  BY <1>4 DEF SignalArmed
<1>5. CASE PollHit(s)  BY <1>5 DEF PollHit
<1>6. CASE PollSleep(s)  BY <1>6 DEF PollSleep
<1>7. CASE PollExpire(s)  BY <1>7 DEF PollExpire
<1>8. CASE SignalDone(s)  BY <1>8 DEF SignalDone
<1> QED  BY <1>1, <1>2, <1>3, <1>4, <1>5, <1>6, <1>7, <1>8 DEF Worker

LEMMA NumberingHardware ==
    ASSUME TypeOK, NEW s \in Slots, Handshake(s), Numbering(s), CleanSlate(s),
           Hardware(s)
    PROVE  Numbering(s)' /\ CleanSlate(s)'
<1> USE DEF TypeOK, Xfers, Outcomes, Handshake, AtRest, ArmStage, WaitStage,
            Numbering, CleanSlate, JoinedOwn, Preparing, Joinable, slotVars,
            workVars, hwVars, memVars, userVars
<1>1. CASE StreamComplete(s)  BY <1>1 DEF StreamComplete
<1>2. CASE WriteBack(s)  BY <1>2 DEF WriteBack
<1>3. CASE Refetch(s)  BY <1>3 DEF Refetch
<1> QED  BY <1>1, <1>2, <1>3 DEF Hardware

LEMMA NumberingStep ==
    ASSUME TypeOK, [Next]_vars,
           \A t \in Slots : Handshake(t) /\ Numbering(t) /\ CleanSlate(t)
    PROVE  \A t \in Slots : Numbering(t)' /\ CleanSlate(t)'
<1> USE DEF Handshake, AtRest, Numbering, CleanSlate, JoinedOwn, Preparing,
            Joinable
<1>1. CASE UNCHANGED vars  BY <1>1 DEF vars
<1>2. ASSUME NEW s \in Slots, Step(s), NEW t \in Slots
      PROVE  Numbering(t)' /\ CleanSlate(t)'
  <2>1. CASE s = t
    BY <1>2, <2>1, NumberingUser, NumberingDispatcher, NumberingWorker,
       NumberingHardware DEF Step
  <2>2. CASE s # t
    <3>1. Frame(t)  BY <1>2, <2>2, StepFrame
    <3> QED  BY <3>1 DEF Frame
  <2> QED  BY <2>1, <2>2
<1> QED  BY <1>1, <1>2 DEF Next, Step

-----------------------------------------------------------------------------
(* The slot buffer, seen through the cache and in memory.                  *)

(* Two buffers that hold the same payload in every chunk are equal.        *)
LEMMA BufferFilled ==
    ASSUME NEW b \in Buffers, NEW n \in Nat,
           \A c \in 1 .. Chunks : b[c] = n
    PROVE  b = Payload(n)
BY DEF Buffers, Payload

LEMMA MemoryUser ==
    ASSUME TypeOK, NEW s \in Slots, Handshake(s), Memory(s), User(s)
    PROVE  Memory(s)'
<1> USE DmaConstants
    DEF TypeOK, Handshake, AtRest, Memory, Loaded, Fetched, Joinable,
        JoinedOwn, Payload, slotVars, workVars, hwVars, memVars, userVars
<1>1. CASE CallOpen(s)  BY <1>1 DEF CallOpen, Request
<1>2. CASE CallClose(s)  BY <1>2 DEF CallClose, Request
<1>3. CASE CallArm(s)  BY <1>3 DEF CallArm
<1>4. CASE KickThenWait(s)  BY <1>4 DEF KickThenWait, Request
<1> QED  BY <1>1, <1>2, <1>3, <1>4 DEF User

LEMMA MemoryDispatcher ==
    ASSUME TypeOK, NEW s \in Slots, Budget(s), Handshake(s), Numbering(s),
           CleanSlate(s), Memory(s), Dispatcher(s)
    PROVE  Memory(s)'
<1> USE DmaConstants
    DEF TypeOK, Xfers, Handshake, AtRest, Memory, Loaded, Fetched, Joinable,
        JoinedOwn, slotVars, workVars, hwVars, memVars, userVars, Reply,
        Block, Unblock, Receiving
<1>1. CASE DoOpen(s)  BY <1>1 DEF DoOpen
<1>2. CASE DoClose(s)  BY <1>2 DEF DoClose
<1>3. CASE Reject(s)  BY <1>3 DEF Reject
<1>4. CASE DoLoad(s)
  <2>1. s \in M2PSlots  BY <1>4 DEF DoLoad
  <2>2. /\ chunk[s] \in Nat /\ chunk[s] < Chunks
        /\ cpu'[s] = [cpu[s] EXCEPT ![chunk[s] + 1] = xfer[s] + 1]
        /\ chunk'[s] = chunk[s] + 1 /\ xfer'[s] = xfer[s] /\ dirty'[s]
        /\ cpu[s] \in Buffers /\ disp'[s] = "no"
        /\ upc'[s] = IF chunk[s] + 1 < Chunks THEN "load" ELSE "arm"
    BY <1>4 DEF DoLoad, Budget
  <2> DEFINE k == chunk[s]  n == xfer[s] + 1
  <2>0. /\ k \in Nat /\ k + 1 \in 1 .. Chunks /\ n \in Xfers
        /\ cpu[s] \in [1 .. Chunks -> Xfers]
        /\ \A c \in 1 .. k : cpu[s][c] = n
        /\ cpu'[s] = [cpu[s] EXCEPT ![k + 1] = n]
    <3>1. k \in Nat /\ k + 1 \in 1 .. Chunks  BY <2>2
    <3>2. n \in Xfers  BY <1>4 DEF DoLoad, Budget
    <3>3. cpu[s] \in [1 .. Chunks -> Xfers]  BY <2>2 DEF Buffers
    <3>4. \A c \in 1 .. k : cpu[s][c] = n  BY <1>4, <2>1 DEF DoLoad
    <3> QED  BY <2>2, <3>1, <3>2, <3>3, <3>4
  <2>3. \A c \in 1 .. chunk'[s] : cpu'[s][c] = xfer'[s] + 1
    <3>1. \A c \in 1 .. k + 1 : [cpu[s] EXCEPT ![k + 1] = n][c] = n
      <4> HIDE DEF n, k
      <4> QED  BY ONLY <2>0, DmaConstants
    <3> QED  BY <2>0, <2>2, <3>1
  <2>4. cpu'[s] \in Buffers
    <3> HIDE DEF n, k
    <3> QED  BY ONLY <2>0 DEF Buffers
  <2>5. upc'[s] = "arm" => cpu'[s] = Payload(xfer'[s] + 1)
    <3>1. SUFFICES ASSUME upc'[s] = "arm" PROVE cpu'[s] = Payload(xfer'[s] + 1)
      OBVIOUS
    <3>2. chunk'[s] = Chunks  BY <2>2, <3>1
    <3>3. xfer'[s] + 1 \in Nat  BY <2>2
    <3>4. \A c \in 1 .. Chunks : cpu'[s][c] = xfer'[s] + 1  BY <2>3, <3>2
    <3> QED  BY ONLY <2>4, <3>3, <3>4, BufferFilled
  <2> QED  BY <2>1, <2>2, <2>3, <2>5
<1>5. CASE ArmBegin(s)  BY <1>5 DEF ArmBegin
<1>6. CASE ArmEnd(s)  BY <1>6 DEF ArmEnd, ArmStage
<1>7. CASE WaitBegin(s)  BY <1>7 DEF WaitBegin
<1>8. CASE WaitEnd(s)
  BY <1>8 DEF WaitEnd, WaitStage, Numbering
<1> QED  BY <1>1, <1>2, <1>3, <1>4, <1>5, <1>6, <1>7, <1>8 DEF Dispatcher

LEMMA MemoryWorker ==
    ASSUME TypeOK, NEW s \in Slots, Handshake(s), Numbering(s), CleanSlate(s),
           Memory(s), Worker(s)
    PROVE  Memory(s)'
<1> USE DEF TypeOK, Xfers, Outcomes, Handshake, AtRest, ArmStage, WaitStage,
            Numbering, CleanSlate, Preparing, Memory, Loaded, Fetched,
            Joinable, JoinedOwn, slotVars, workVars, hwVars, memVars,
            userVars, Go, Clean, Invalidate
<1>1. CASE TakeJob(s)  BY <1>1 DEF TakeJob
<1>2. CASE ClearFlags(s)  BY <1>2 DEF ClearFlags
<1>3. CASE Program(s)  BY <1>3 DEF Program
<1>4. CASE SignalArmed(s)  BY <1>4 DEF SignalArmed
<1>5. CASE PollHit(s)  BY <1>5 DEF PollHit, Outcome
<1>6. CASE PollSleep(s)  BY <1>6 DEF PollSleep
<1>7. CASE PollExpire(s)  BY <1>7 DEF PollExpire, Outcome
<1>8. CASE SignalDone(s)  BY <1>8 DEF SignalDone
<1> QED  BY <1>1, <1>2, <1>3, <1>4, <1>5, <1>6, <1>7, <1>8 DEF Worker

LEMMA MemoryHardware ==
    ASSUME TypeOK, NEW s \in Slots, Handshake(s), Numbering(s), CleanSlate(s),
           Memory(s), Hardware(s)
    PROVE  Memory(s)'
<1> USE DEF TypeOK, Xfers, Outcomes, Handshake, AtRest, ArmStage, WaitStage,
            Numbering, CleanSlate, Preparing, Memory, Loaded, Fetched,
            Joinable, JoinedOwn, slotVars, workVars, hwVars, memVars,
            userVars, Clean, Invalidate
<1>1. CASE StreamComplete(s)  BY <1>1 DEF StreamComplete
<1>2. CASE WriteBack(s)  BY <1>2 DEF WriteBack
<1>3. CASE Refetch(s)  BY <1>3 DEF Refetch
<1> QED  BY <1>1, <1>2, <1>3 DEF Hardware

LEMMA MemoryStep ==
    ASSUME TypeOK, [Next]_vars,
           \A t \in Slots : /\ Budget(t) /\ Handshake(t) /\ Numbering(t)
                            /\ CleanSlate(t) /\ Memory(t)
    PROVE  \A t \in Slots : Memory(t)'
<1>1. CASE UNCHANGED vars
  BY <1>1 DEF vars, Memory, Loaded, Fetched, Joinable, JoinedOwn
<1>2. ASSUME NEW s \in Slots, Step(s), NEW t \in Slots PROVE Memory(t)'
  <2>1. CASE s = t
    BY <1>2, <2>1, MemoryUser, MemoryDispatcher, MemoryWorker, MemoryHardware
       DEF Step
  <2>2. CASE s # t
    <3>1. Frame(t)  BY <1>2, <2>2, StepFrame
    <3> QED  BY <3>1 DEF Frame, Memory, Loaded, Fetched, Joinable, JoinedOwn
  <2> QED  BY <2>1, <2>2
<1> QED  BY <1>1, <1>2 DEF Next, Step

-----------------------------------------------------------------------------
(* The inductive invariant and what follows from it.                       *)

LEMMA InvInit == Init => IInv
<1> SUFFICES ASSUME Init PROVE IInv  OBVIOUS
<1>1. TypeOK /\ \A s \in Slots : Budget(s)  BY TypeInit
<1>2. ASSUME NEW s \in Slots
      PROVE  Handshake(s) /\ Numbering(s) /\ CleanSlate(s) /\ Memory(s)
  <2> USE DEF Init, Outcome
  <2>1. Handshake(s)  BY DEF Handshake
  <2>2. Numbering(s)  BY DEF Numbering, Preparing, Joinable
  <2>3. CleanSlate(s)  BY DEF CleanSlate, JoinedOwn, Preparing, Joinable
  <2>4. Memory(s)  BY DEF Memory, Loaded, Fetched, Joinable, JoinedOwn
  <2> QED  BY <2>1, <2>2, <2>3, <2>4
<1> QED  BY <1>1, <1>2 DEF IInv

LEMMA InvStep == IInv /\ [Next]_vars => IInv'
<1> SUFFICES ASSUME IInv, [Next]_vars PROVE IInv'  OBVIOUS
<1>1. TypeOK' /\ \A s \in Slots : Budget(s)'  BY TypeStep DEF IInv
<1>2. \A s \in Slots : Handshake(s)'  BY HandshakeStep DEF IInv
<1>3. \A s \in Slots : Numbering(s)' /\ CleanSlate(s)'
  BY NumberingStep DEF IInv
<1>4. \A s \in Slots : Memory(s)'  BY MemoryStep DEF IInv
<1> QED  BY <1>1, <1>2, <1>3, <1>4 DEF IInv

(* IInv is an invariant of the pool.                                       *)
THEOREM Invariance == Spec => []IInv
<1> QED  BY InvInit, InvStep, PTL DEF Spec

(* No wake-up is lost in do_arm or do_wait, whatever the interleaving of   *)
(* dispatcher, workers and streams.                                        *)
THEOREM WakeupsKept == Spec => []NoLostWakeup
<1>1. ASSUME IInv, NEW s \in Slots, disp[s] = "arm"
      PROVE  "ARMED" \in done[s] \/ job[s] \/ wpc[s] \in {"clear", "program", "armed"}
  BY <1>1 DEF IInv, Handshake, ArmStage
<1>2. ASSUME IInv, NEW s \in Slots, disp[s] = "wait"
      PROVE  "DONE" \in done[s] \/ WorkerRuns(s)
  <2>1. WaitStage(s)  BY <1>2 DEF IInv, Handshake
  <2> QED  BY <2>1 DEF WaitStage, WorkerRuns
<1>3. IInv => NoLostWakeup  BY <1>1, <1>2 DEF NoLostWakeup
<1> QED  BY <1>3, Invariance, PTL

(* Every completion is joined exactly once.                                *)
THEOREM JoinedOnce == Spec => []NothingLeftBehind
<1>1. IInv => NothingLeftBehind
  BY DEF IInv, NothingLeftBehind, Handshake, AtRest, WorkerRuns
<1> QED  BY <1>1, Invariance, PTL

(* An OK never rests on a TC flag older than the preceding transfer's.     *)
THEOREM LateByOne == Spec => []AtMostOneLate
<1>1. IInv => AtMostOneLate  BY DEF IInv, AtMostOneLate, Numbering
<1> QED  BY <1>1, Invariance, PTL

(* What a stream reads is the payload loaded for the transfer it runs.     *)
THEOREM PayloadKept == Spec => []PayloadIntact
<1>1. ASSUME IInv, NEW s \in M2PSlots, stream[s] # 0, stream[s] = xfer[s],
             disp[s] # "no" \/ upc[s] \in {"kick", "wait"}
      PROVE  ram[s] = Payload(xfer[s])
  <2>1. /\ s \in Slots /\ Handshake(s) /\ Numbering(s) /\ Loaded(s)
        /\ disp[s] \in {"no", "arm", "wait"}
    BY <1>1, DmaConstants DEF IInv, TypeOK, Memory
  <2>2. ~job[s]  BY <1>1, <2>1 DEF Numbering, Preparing
  <2> QED  BY <1>1, <2>1, <2>2 DEF Handshake, Loaded
<1>2. IInv => PayloadIntact  BY <1>1 DEF PayloadIntact
<1> QED  BY <1>2, Invariance, PTL

(* What a read that joined its own transfer copies out is what the stream  *)
(* wrote in it, never a cached copy of an earlier one.                     *)
THEOREM ReadsAreFresh == Spec => []ReadFresh
<1>1. IInv => ReadFresh
  BY DEF IInv, ReadFresh, Memory, Fetched, JoinedOwn
<1> QED  BY <1>1, Invariance, PTL

(* A WAIT is only answered with a foreign completion in the wake of one    *)
(* that timed out, or that was itself so answered.                         *)
THEOREM MixupTraced == Spec => MixupNeedsTimeout
<1> DEFINE Traced == \A s \in Slots :
             (/\ ret[s].code = "OK" /\ ret[s].by = ret[s].for
              /\ ret'[s].code = "OK")
               => ret'[s].by = ret'[s].for
<1>1. IInv /\ [Next]_vars => [Traced]_vars
  <2> SUFFICES ASSUME IInv, [Next]_vars, vars' # vars, NEW t \in Slots,
                      JoinedOwn(t), ret'[t].code = "OK"
               PROVE  ret'[t].by = ret'[t].for
    BY DEF JoinedOwn
  <2>1. PICK s \in Slots : Step(s)  BY DEF Next, Step
  <2>2. CASE ret'[t] = ret[t]  BY <2>2 DEF JoinedOwn
  <2>3. CASE WaitEnd(s) /\ s = t
    <3>1. ret'[t] = result[t]  BY <2>3 DEF WaitEnd, IInv, TypeOK
    <3>2. Joinable(t)  BY <2>3 DEF WaitEnd, Joinable
    <3> QED  BY <3>1, <3>2 DEF IInv, CleanSlate, Numbering
  <2>4. CASE s = t /\ ~WaitEnd(s)
    <3>1. ret' = ret
      BY <2>1, <2>4 DEF Step, User, Dispatcher, Worker, Hardware, userVars,
         CallOpen, CallClose, CallArm, KickThenWait, Request, DoOpen, DoClose,
         Reject, DoLoad, ArmBegin, ArmEnd, WaitBegin, TakeJob, ClearFlags,
         Program, SignalArmed, PollHit, PollSleep, PollExpire, SignalDone,
         StreamComplete, WriteBack, Refetch
    <3> QED  BY <3>1, <2>2
  <2>5. CASE s # t  BY <2>1, <2>5, <2>2, StepFrame DEF IInv, Frame
  <2> QED  BY <2>3, <2>4, <2>5
<1> QED  BY <1>1, Invariance, PTL DEF Spec, MixupNeedsTimeout

-----------------------------------------------------------------------------
(* The pool implements DmaChannel.                                         *)

LEMMA ChannelInit == Init => Channel!Init
<1> SUFFICES ASSUME Init PROVE Channel!Init  OBVIOUS
<1>1. \A s \in Slots : PhaseOf(s) = "closed"  BY DEF Init, PhaseOf
<1> QED  BY <1>1 DEF Init, Outcome, Channel!Init

(* What a step does to its own slot, as the channel sees it: nothing, or   *)
(* one of the five operations.                                             *)
Hidden(s) == /\ PhaseOf(s)' = PhaseOf(s) /\ xfer'[s] = xfer[s]
             /\ result'[s] = result[s] /\ ret'[s] = ret[s]
Opens(s)  == /\ PhaseOf(s) = "closed" /\ PhaseOf(s)' = "idle"
             /\ xfer'[s] = xfer[s] /\ result'[s] = result[s] /\ ret'[s] = ret[s]
Closes(s) == /\ PhaseOf(s) = "idle" /\ PhaseOf(s)' = "closed"
             /\ xfer'[s] = xfer[s] /\ result'[s] = result[s] /\ ret'[s] = ret[s]
Arms(s)   == /\ PhaseOf(s) = "idle" /\ PhaseOf(s)' = "armed"
             /\ xfer'[s] = xfer[s] + 1 /\ result'[s] = result[s]
             /\ ret'[s] = ret[s]
Ends(s)   == /\ PhaseOf(s) = "armed" /\ PhaseOf(s)' = "done"
             /\ result'[s].code \in {"OK", "ETIMEOUT"}
             /\ xfer'[s] = xfer[s] /\ ret'[s] = ret[s]
Joins(s)  == /\ PhaseOf(s) = "done" /\ PhaseOf(s)' = "idle"
             /\ ret'[s] = result[s] /\ result[s].for = xfer[s]
             /\ xfer'[s] = xfer[s] /\ result'[s] = result[s]
Effect(s) == Hidden(s) \/ Opens(s) \/ Closes(s) \/ Arms(s) \/ Ends(s) \/ Joins(s)

LEMMA UserEffect ==
    ASSUME TypeOK, NEW s \in Slots, User(s) PROVE Hidden(s)
BY DEF TypeOK, User, CallOpen, CallClose, CallArm, KickThenWait, Request,
       Hidden, PhaseOf, slotVars, workVars, userVars

LEMMA DispatcherEffect ==
    ASSUME TypeOK, NEW s \in Slots, Handshake(s), Numbering(s), Dispatcher(s)
    PROVE  Effect(s)
<1> USE DEF TypeOK, Handshake, AtRest, PhaseOf, Reply, Block, Unblock,
            Receiving, slotVars, workVars, userVars, Effect
<1>1. CASE DoOpen(s)  BY <1>1 DEF DoOpen, Hidden, Opens
<1>2. CASE DoClose(s)  BY <1>2 DEF DoClose, Hidden, Closes
<1>3. CASE Reject(s)  BY <1>3 DEF Reject, Hidden
<1>4. CASE DoLoad(s)  BY <1>4 DEF DoLoad, Hidden
<1>5. CASE ArmBegin(s)  BY <1>5 DEF ArmBegin, Arms
<1>6. CASE ArmEnd(s)  BY <1>6 DEF ArmEnd, Hidden
<1>7. CASE WaitBegin(s)  BY <1>7 DEF WaitBegin, Hidden
<1>8. CASE WaitEnd(s)
  BY <1>8 DEF WaitEnd, Joins, WaitStage, Numbering, Joinable
<1> QED  BY <1>1, <1>2, <1>3, <1>4, <1>5, <1>6, <1>7, <1>8 DEF Dispatcher

LEMMA WorkerEffect ==
    ASSUME TypeOK, NEW s \in Slots, Handshake(s), Worker(s)
    PROVE  Effect(s)
<1> USE DEF TypeOK, Handshake, AtRest, ArmStage, WaitStage, PhaseOf, Go,
            slotVars, workVars, userVars, Effect
<1>1. CASE TakeJob(s)  BY <1>1 DEF TakeJob, Hidden
<1>2. CASE ClearFlags(s)  BY <1>2 DEF ClearFlags, Hidden
<1>3. CASE Program(s)  BY <1>3 DEF Program, Hidden
<1>4. CASE SignalArmed(s)  BY <1>4 DEF SignalArmed, Hidden
<1>5. CASE PollHit(s)  BY <1>5 DEF PollHit, Ends, Outcome
<1>6. CASE PollSleep(s)  BY <1>6 DEF PollSleep, Hidden
<1>7. CASE PollExpire(s)  BY <1>7 DEF PollExpire, Ends, Outcome
<1>8. CASE SignalDone(s)  BY <1>8 DEF SignalDone, Hidden
<1> QED  BY <1>1, <1>2, <1>3, <1>4, <1>5, <1>6, <1>7, <1>8 DEF Worker

LEMMA HardwareEffect ==
    ASSUME TypeOK, NEW s \in Slots, Hardware(s) PROVE Hidden(s)
BY DEF TypeOK, Hardware, StreamComplete, WriteBack, Refetch, Hidden, PhaseOf,
       slotVars, workVars, userVars

LEMMA ChannelStep == IInv /\ [Next]_vars => [Channel!Next]_(Channel!vars)
<1> SUFFICES ASSUME IInv, [Next]_vars
             PROVE  Channel!Next \/ UNCHANGED Channel!vars
  OBVIOUS
<1>1. CASE UNCHANGED vars
  BY <1>1 DEF vars, Channel!vars, PhaseOf
<1>2. ASSUME NEW s \in Slots, Step(s)
      PROVE  Channel!Next \/ UNCHANGED Channel!vars
  <2>1. \A t \in Slots \ {s} :
           /\ PhaseOf(t)' = PhaseOf(t) /\ xfer'[t] = xfer[t]
           /\ result'[t] = result[t] /\ ret'[t] = ret[t]
    BY <1>2, StepFrame DEF IInv, Frame, PhaseOf
  <2>2. Effect(s)
    BY <1>2, UserEffect, DispatcherEffect, WorkerEffect, HardwareEffect
       DEF Step, IInv, Effect
  <2> DEFINE phases == [t \in Slots |-> PhaseOf(t)]
             codes == [t \in Slots |-> result[t].code]
             answers == [t \in Slots |-> [code |-> ret[t].code, for |-> ret[t].for]]
  <2>3. phases' = [phases EXCEPT ![s] = PhaseOf(s)']
    BY <2>1
  <2>4. codes' = [codes EXCEPT ![s] = result'[s].code]
    BY <2>1
  <2>5. answers' = [answers EXCEPT ![s] =
                       [code |-> ret'[s].code, for |-> ret'[s].for]]
    BY <2>1
  <2>6. xfer' = [xfer EXCEPT ![s] = xfer'[s]]
    BY <2>1, TypeStep DEF IInv, TypeOK
  <2>7. result'[s] = result[s] => codes' = codes
    BY <2>1
  <2>8. ret'[s] = ret[s] => answers' = answers
    BY <2>1
  <2>9. xfer'[s] = xfer[s] => xfer' = xfer
    BY <2>6, TypeStep DEF IInv, TypeOK
  <2>10. phases[s] = PhaseOf(s) /\ codes[s] = result[s].code
    OBVIOUS
  <2>11. CASE Hidden(s)
    <3>1. phases' = phases  BY <2>1, <2>11 DEF Hidden
    <3> QED  BY <3>1, <2>7, <2>8, <2>9, <2>11 DEF Hidden, Channel!vars
  <2>12. CASE Opens(s)
    <3>1. Channel!Open(s)
      BY <2>3, <2>7, <2>8, <2>9, <2>10, <2>12 DEF Opens, Channel!Open
    <3> QED  BY <3>1 DEF Channel!Next
  <2>13. CASE Closes(s)
    <3>1. Channel!Close(s)
      BY <2>3, <2>7, <2>8, <2>9, <2>10, <2>13 DEF Closes, Channel!Close
    <3> QED  BY <3>1 DEF Channel!Next
  <2>14. CASE Arms(s)
    <3>1. Channel!Arm(s)
      BY <2>3, <2>6, <2>7, <2>8, <2>10, <2>14 DEF Arms, Channel!Arm
    <3> QED  BY <3>1 DEF Channel!Next
  <2>15. CASE Ends(s)
    <3>1. Channel!Finish(s)
      BY <2>3, <2>4, <2>8, <2>9, <2>10, <2>15 DEF Ends, Channel!Finish
    <3> QED  BY <3>1 DEF Channel!Next
  <2>16. CASE Joins(s)
    <3>1. Channel!Join(s)
      BY <2>3, <2>5, <2>7, <2>9, <2>10, <2>16 DEF Joins, Channel!Join
    <3> QED  BY <3>1 DEF Channel!Next
  <2> QED  BY <2>2, <2>11, <2>12, <2>13, <2>14, <2>15, <2>16 DEF Effect
<1> QED  BY <1>1, <1>2 DEF Next, Step

(* Every behaviour of the pool, seen through PhaseOf, is one of the channel*)
(* abstraction: each WAIT hands over the verdict on the transfer armed     *)
(* last.                                                                   *)
THEOREM PoolIsChannel == Spec => ImplementsChannel
<1> QED  BY ChannelInit, ChannelStep, Invariance, PTL
        DEF Spec, ImplementsChannel, Channel!Spec
=============================================================================
