------------------------------ MODULE LinumDma ------------------------------
(***************************************************************************)
(* The DMA1 stream pool of the Witte Linum board                           *)
(* (witte_linum/drivers/dma).  One dispatcher thread serves the endpoint;  *)
(* one worker thread per slot owns the stream registers of that slot.      *)
(* The two meet in g_slots[slot] and in two notification objects: job      *)
(* (dispatcher -> worker) and done, with the bits ARMED and DONE           *)
(* (worker -> dispatcher).                                                 *)
(*                                                                         *)
(* Every slot has one user, as in the repository: the ADC server owns slot *)
(* 0, the I2C server slots 1 and 2.  A user runs dma_arm (which LOADs the  *)
(* payload in chunks first), kicks its peripheral, and runs dma_wait.      *)
(*                                                                         *)
(* Payloads are named by the number of the transfer they belong to, and    *)
(* the slot buffer is seen twice, through the D-cache (cpu) and in the     *)
(* memory the stream reads and writes (ram).                               *)
(***************************************************************************)
EXTENDS Naturals

CONSTANTS Slots,    (* the stream slots, DMA_MAX_SLOTS of them               *)
          M2PSlots, (* the slots opened with DMA_FLAG_DIR_M2P                *)
          Chunks,   (* LOAD messages one payload takes (12 bytes each)       *)
          Timeout,  (* 1 ms polls the worker grants a transfer               *)
          MaxXfers  (* bound: transfers a user starts                        *)

ASSUME DmaConstants ==
    /\ M2PSlots \subseteq Slots
    /\ Chunks \in Nat \ {0}
    /\ Timeout \in Nat \ {0}
    /\ MaxXfers \in Nat \ {0}

VARIABLES
    open,     (* g_slots[s].open                                             *)
    job,      (* job_notif has the JOB bit                                   *)
    done,     (* pending bits of done_notif                                  *)
    result,   (* g_slots[s].result; "for" and "by" name the transfer the     *)
              (* worker ran and the one whose TC flag it consumed            *)
    wpc,      (* where the worker of s is                                    *)
    elapsed,  (* slot_wait_tc: elapsed                                       *)
    stream,   (* transfer the enabled stream runs, 0 when EN is clear        *)
    tcif,     (* transfer that set the TC flag, 0 when the flag is clear     *)
    cpu,      (* g_slots[s].buf as the CPU sees it                           *)
    ram,      (* g_slots[s].buf as the stream sees it                        *)
    dirty,    (* the cached copy is newer than memory                        *)
    disp,     (* the done_notif bit the dispatcher is blocked on for s       *)
    upc,      (* where the user of s is                                      *)
    chunk,    (* LOADs of the current payload answered so far                *)
    xfer,     (* transfers armed on s so far                                 *)
    ret,      (* what the last dma_wait of the user returned                 *)
    got       (* the payload that dma_wait copied out                        *)

vars == <<open, job, done, result, wpc, elapsed, stream, tcif, cpu, ram,
          dirty, disp, upc, chunk, xfer, ret, got>>

slotVars == <<open, job, done, result>>
workVars == <<wpc, elapsed>>
hwVars   == <<stream, tcif>>
memVars  == <<cpu, ram, dirty>>
userVars == <<chunk, xfer, ret, got>>

(* The dispatcher is in ulmk_ep_recv, not blocked inside a request.        *)
Receiving == \A s \in Slots : disp[s] = "no"
Block(s, what) == disp' = [disp EXCEPT ![s] = what]
Unblock(s) == Block(s, "no")

Payload(n) == [c \in 1 .. Chunks |-> n]
Outcome(v, n, m) == [code |-> v, for |-> n, by |-> m]

Init ==
    /\ open = [s \in Slots |-> FALSE]
    /\ job = [s \in Slots |-> FALSE]
    /\ done = [s \in Slots |-> {}]
    /\ result = [s \in Slots |-> Outcome("OK", 0, 0)]
    /\ wpc = [s \in Slots |-> "idle"]
    /\ elapsed = [s \in Slots |-> 0]
    /\ stream = [s \in Slots |-> 0]
    /\ tcif = [s \in Slots |-> 0]
    /\ cpu = [s \in Slots |-> Payload(0)]
    /\ ram = [s \in Slots |-> Payload(0)]
    /\ dirty = [s \in Slots |-> FALSE]
    /\ disp = [s \in Slots |-> "no"]
    /\ upc = [s \in Slots |-> "ready"]
    /\ chunk = [s \in Slots |-> 0]
    /\ xfer = [s \in Slots |-> 0]
    /\ ret = [s \in Slots |-> Outcome("OK", 0, 0)]
    /\ got = [s \in Slots |-> Payload(0)]

-----------------------------------------------------------------------------
(* Users: the calls of client.c.  upc[s] = "open", "close", "load", "arm"  *)
(* or "wait" is a user blocked in ulmk_ep_call with that request.          *)

Request(s, from, to) ==
    /\ upc[s] = from
    /\ upc' = [upc EXCEPT ![s] = to]
    /\ UNCHANGED <<slotVars, workVars, hwVars, memVars, disp, userVars>>

CallOpen(s)  == Request(s, "ready", "open")
CallClose(s) == Request(s, "ready", "close")

(* dma_arm: LOAD the payload chunk by chunk when there is one, then ARM.   *)
CallArm(s) ==
    /\ xfer[s] < MaxXfers
    /\ upc[s] = "ready"
    /\ upc' = [upc EXCEPT ![s] = IF s \in M2PSlots THEN "load" ELSE "arm"]
    /\ chunk' = [chunk EXCEPT ![s] = 0]
    /\ UNCHANGED <<slotVars, workVars, hwVars, memVars, disp, xfer, ret, got>>

(* The peripheral is kicked between the reply to ARM and the WAIT call.    *)
KickThenWait(s) == Request(s, "kick", "wait")

-----------------------------------------------------------------------------
(* Dispatcher.  A request it can answer at once is received, executed and  *)
(* replied to in one action; ARM and WAIT block it on done_notif.          *)

Reply(s, to) == upc' = [upc EXCEPT ![s] = to]

DoOpen(s) ==
    /\ Receiving /\ upc[s] = "open"
    /\ open' = [open EXCEPT ![s] = TRUE]      \* ENOSPC leaves it open
    /\ Reply(s, "ready")
    /\ UNCHANGED <<job, done, result, workVars, hwVars, memVars, disp, userVars>>

DoClose(s) ==
    /\ Receiving /\ upc[s] = "close"
    /\ open' = [open EXCEPT ![s] = FALSE]     \* EINVAL leaves it closed
    /\ Reply(s, "ready")
    /\ UNCHANGED <<job, done, result, workVars, hwVars, memVars, disp, userVars>>

(* Every operation but OPEN answers EINVAL on a slot that is not open; the *)
(* client functions then return without calling on.                        *)
Reject(s) ==
    /\ Receiving /\ upc[s] \in {"load", "arm", "wait"}
    /\ ~open[s]
    /\ Reply(s, "ready")
    /\ UNCHANGED <<slotVars, workVars, hwVars, memVars, disp, userVars>>

DoLoad(s) ==
    /\ Receiving /\ upc[s] = "load"
    /\ open[s]
    /\ cpu' = [cpu EXCEPT ![s][chunk[s] + 1] = xfer[s] + 1]
    /\ dirty' = [dirty EXCEPT ![s] = TRUE]
    /\ chunk' = [chunk EXCEPT ![s] = @ + 1]
    /\ Reply(s, IF chunk[s] + 1 < Chunks THEN "load" ELSE "arm")
    /\ UNCHANGED <<slotVars, workVars, hwVars, ram, disp, xfer, ret, got>>

ArmBegin(s) ==
    /\ Receiving /\ upc[s] = "arm"
    /\ open[s]
    /\ job' = [job EXCEPT ![s] = TRUE]
    /\ xfer' = [xfer EXCEPT ![s] = @ + 1]
    /\ Block(s, "arm")
    /\ UNCHANGED <<open, done, result, workVars, hwVars, memVars, upc, chunk,
                   ret, got>>

(* Faulty variant: the wait for ARMED consumes every pending bit.          *)
ArmEndAllBits(s) ==
    /\ disp[s] = "arm" /\ "ARMED" \in done[s]
    /\ done' = [done EXCEPT ![s] = {}]
    /\ Unblock(s)
    /\ Reply(s, "kick")
    /\ UNCHANGED <<open, job, result, workVars, hwVars, memVars, userVars>>

(* ulmk_notif_wait consumes the bits of its mask and leaves the others.    *)
ArmEnd(s) ==
    /\ disp[s] = "arm" /\ "ARMED" \in done[s]
    /\ done' = [done EXCEPT ![s] = @ \ {"ARMED"}]
    /\ Unblock(s)
    /\ Reply(s, "kick")
    /\ UNCHANGED <<open, job, result, workVars, hwVars, memVars, userVars>>

WaitBegin(s) ==
    /\ Receiving /\ upc[s] = "wait"
    /\ open[s]
    /\ Block(s, "wait")
    /\ UNCHANGED <<slotVars, workVars, hwVars, memVars, upc, userVars>>

(* Faulty variant: the wait does not consume DONE.                         *)
WaitEndKeepsDone(s) ==
    /\ disp[s] = "wait" /\ "DONE" \in done[s]
    /\ ret' = [ret EXCEPT ![s] = result[s]]
    /\ got' = [got EXCEPT ![s] =
                 IF s \notin M2PSlots /\ result[s].code = "OK" THEN cpu[s] ELSE @]
    /\ Unblock(s)
    /\ Reply(s, "ready")
    /\ UNCHANGED <<slotVars, workVars, hwVars, memVars, chunk, xfer>>

(* The timeout_ms of the call is dropped: the wait has no deadline.        *)
WaitEnd(s) ==
    /\ disp[s] = "wait" /\ "DONE" \in done[s]
    /\ done' = [done EXCEPT ![s] = @ \ {"DONE"}]
    /\ ret' = [ret EXCEPT ![s] = result[s]]
    /\ got' = [got EXCEPT ![s] =
                 IF s \notin M2PSlots /\ result[s].code = "OK" THEN cpu[s] ELSE @]
    /\ Unblock(s)
    /\ Reply(s, "ready")
    /\ UNCHANGED <<open, job, result, workVars, hwVars, memVars, chunk, xfer>>

-----------------------------------------------------------------------------
(* Workers: dma_worker, slot_arm_hw, slot_wait_tc.                         *)

Go(s, from, to) == wpc[s] = from /\ wpc' = [wpc EXCEPT ![s] = to]

Clean(s) ==
    /\ ram' = [ram EXCEPT ![s] = cpu[s]]
    /\ dirty' = [dirty EXCEPT ![s] = FALSE]
    /\ cpu' = cpu

Invalidate(s) ==
    /\ cpu' = [cpu EXCEPT ![s] = ram[s]]
    /\ dirty' = [dirty EXCEPT ![s] = FALSE]
    /\ ram' = ram

(* Faulty variant: the payload is not cleaned to memory.                   *)
TakeJobUncleaned(s) ==
    /\ job[s]
    /\ Go(s, "idle", "clear")
    /\ job' = [job EXCEPT ![s] = FALSE]
    /\ elapsed' = [elapsed EXCEPT ![s] = 0]
    /\ IF s \in M2PSlots THEN UNCHANGED memVars ELSE Invalidate(s)
    /\ UNCHANGED <<open, done, result, hwVars, disp, upc, userVars>>

TakeJob(s) ==
    /\ job[s]
    /\ Go(s, "idle", "clear")
    /\ job' = [job EXCEPT ![s] = FALSE]
    /\ elapsed' = [elapsed EXCEPT ![s] = 0]
    /\ IF s \in M2PSlots THEN Clean(s) ELSE Invalidate(s)
    /\ UNCHANGED <<open, done, result, hwVars, disp, upc, userVars>>

(* LIFCR is written first, while a stream left over by an earlier          *)
(* transfer may still be enabled ...                                       *)
ClearFlags(s) ==
    /\ Go(s, "clear", "program")
    /\ tcif' = [tcif EXCEPT ![s] = 0]
    /\ UNCHANGED <<slotVars, elapsed, stream, memVars, disp, upc, userVars>>

(* Faulty variant: a stream still enabled is not stopped by CR = 0.        *)
ProgramRunning(s) ==
    /\ Go(s, "program", "armed")
    /\ stream' = [stream EXCEPT ![s] = IF @ = 0 THEN xfer[s] ELSE @]
    /\ UNCHANGED <<slotVars, elapsed, tcif, memVars, disp, upc, userVars>>

(* ... then CR = 0 stops it and the new transfer is set up and enabled.    *)
Program(s) ==
    /\ Go(s, "program", "armed")
    /\ stream' = [stream EXCEPT ![s] = xfer[s]]
    /\ UNCHANGED <<slotVars, elapsed, tcif, memVars, disp, upc, userVars>>

SignalArmed(s) ==
    /\ Go(s, "armed", "poll")
    /\ done' = [done EXCEPT ![s] = @ \union {"ARMED"}]
    /\ UNCHANGED <<open, job, result, elapsed, hwVars, memVars, disp, upc,
                   userVars>>

PollHit(s) ==
    /\ tcif[s] # 0
    /\ Go(s, "poll", "finish")
    /\ tcif' = [tcif EXCEPT ![s] = 0]
    /\ result' = [result EXCEPT ![s] = Outcome("OK", xfer[s], tcif[s])]
    /\ UNCHANGED <<open, job, done, elapsed, stream, memVars, disp, upc,
                   userVars>>

(* Faulty variant: the poll loop has no bound.                             *)
PollSleepForever(s) ==
    /\ wpc[s] = "poll" /\ tcif[s] = 0
    /\ elapsed' = [elapsed EXCEPT ![s] = @ + 1]
    /\ UNCHANGED <<slotVars, wpc, hwVars, memVars, disp, upc, userVars>>

PollSleep(s) ==
    /\ wpc[s] = "poll" /\ tcif[s] = 0
    /\ elapsed[s] < Timeout
    /\ elapsed' = [elapsed EXCEPT ![s] = @ + 1]
    /\ UNCHANGED <<slotVars, wpc, hwVars, memVars, disp, upc, userVars>>

(* ETIMEOUT leaves the stream enabled.                                     *)
PollExpire(s) ==
    /\ tcif[s] = 0
    /\ elapsed[s] >= Timeout
    /\ Go(s, "poll", "finish")
    /\ result' = [result EXCEPT ![s] = Outcome("ETIMEOUT", xfer[s], 0)]
    /\ UNCHANGED <<open, job, done, elapsed, hwVars, memVars, disp, upc,
                   userVars>>

(* Faulty variant: the cache is not invalidated after a read.              *)
SignalDoneCached(s) ==
    /\ Go(s, "finish", "idle")
    /\ done' = [done EXCEPT ![s] = @ \union {"DONE"}]
    /\ UNCHANGED <<open, job, result, elapsed, hwVars, memVars, disp, upc,
                   userVars>>

SignalDone(s) ==
    /\ Go(s, "finish", "idle")
    /\ IF s \notin M2PSlots /\ result[s].code = "OK"
       THEN Invalidate(s)
       ELSE UNCHANGED memVars
    /\ done' = [done EXCEPT ![s] = @ \union {"DONE"}]
    /\ UNCHANGED <<open, job, result, elapsed, hwVars, disp, upc, userVars>>

-----------------------------------------------------------------------------
(* Hardware: an enabled stream may finish at any moment, or never; the     *)
(* D-cache may write a dirty line back, or refetch a clean one, when the   *)
(* fields around buf are used.                                             *)

StreamComplete(s) ==
    /\ stream[s] # 0
    /\ tcif' = [tcif EXCEPT ![s] = stream[s]]
    /\ stream' = [stream EXCEPT ![s] = 0]
    /\ ram' = IF s \in M2PSlots THEN ram
              ELSE [ram EXCEPT ![s] = Payload(stream[s])]
    /\ UNCHANGED <<slotVars, workVars, cpu, dirty, disp, upc, userVars>>

WriteBack(s) ==
    /\ dirty[s]
    /\ Clean(s)
    /\ UNCHANGED <<slotVars, workVars, hwVars, disp, upc, userVars>>

Refetch(s) ==
    /\ ~dirty[s] /\ cpu[s] # ram[s]
    /\ Invalidate(s)
    /\ UNCHANGED <<slotVars, workVars, hwVars, disp, upc, userVars>>

-----------------------------------------------------------------------------
Dispatcher(s) ==
    \/ DoOpen(s) \/ DoClose(s) \/ Reject(s) \/ DoLoad(s)
    \/ ArmBegin(s) \/ ArmEnd(s) \/ WaitBegin(s) \/ WaitEnd(s)

Worker(s) ==
    \/ TakeJob(s) \/ ClearFlags(s) \/ Program(s) \/ SignalArmed(s)
    \/ PollHit(s) \/ PollSleep(s) \/ PollExpire(s) \/ SignalDone(s)

User(s) == CallOpen(s) \/ CallClose(s) \/ CallArm(s) \/ KickThenWait(s)

Hardware(s) == StreamComplete(s) \/ WriteBack(s) \/ Refetch(s)

Next == \E s \in Slots : User(s) \/ Dispatcher(s) \/ Worker(s) \/ Hardware(s)

(* The scheduler runs every ready thread, a user that got its ARM reply    *)
(* goes on to WAIT, and the endpoint queue starves no caller: the strong   *)
(* fairness of the dispatcher is per caller.  The peripheral owes nothing. *)
Fairness ==
    \A s \in Slots :
        /\ SF_vars(Dispatcher(s))
        /\ WF_vars(Worker(s))
        /\ WF_vars(KickThenWait(s))

Spec == Init /\ [][Next]_vars
FairSpec == Spec /\ Fairness

-----------------------------------------------------------------------------
Xfers == 0 .. MaxXfers
Buffers == [1 .. Chunks -> Xfers]
Outcomes == [code : {"OK", "ETIMEOUT"}, for : Xfers, by : Xfers]

(* The variables keep their types; in particular no poll counter runs past *)
(* the time-out and no payload is numbered past the transfers started.     *)
TypeOK ==
    /\ open \in [Slots -> BOOLEAN]
    /\ job \in [Slots -> BOOLEAN]
    /\ done \in [Slots -> SUBSET {"ARMED", "DONE"}]
    /\ result \in [Slots -> Outcomes]
    /\ wpc \in [Slots -> {"idle", "clear", "program", "armed", "poll", "finish"}]
    /\ elapsed \in [Slots -> 0 .. Timeout]
    /\ stream \in [Slots -> Xfers]
    /\ tcif \in [Slots -> Xfers]
    /\ cpu \in [Slots -> Buffers]
    /\ ram \in [Slots -> Buffers]
    /\ dirty \in [Slots -> BOOLEAN]
    /\ disp \in [Slots -> {"no", "arm", "wait"}]
    /\ upc \in [Slots -> {"ready", "open", "close", "load", "arm", "kick", "wait"}]
    /\ chunk \in [Slots -> 0 .. Chunks]
    /\ xfer \in [Slots -> Xfers]
    /\ ret \in [Slots -> Outcomes]
    /\ got \in [Slots -> Buffers]

-----------------------------------------------------------------------------
(* Safety                                                                  *)

WorkerRuns(s) == wpc[s] # "idle"

(* No lost wake-up: while the dispatcher is blocked for a slot - and with  *)
(* it every other caller of the pool - the bit it waits for is pending or  *)
(* the worker of that slot is still on its way to signal it.               *)
NoLostWakeup ==
    \A s \in Slots :
        /\ disp[s] = "arm" =>
              \/ "ARMED" \in done[s] \/ job[s]
              \/ wpc[s] \in {"clear", "program", "armed"}
        /\ disp[s] = "wait" => "DONE" \in done[s] \/ WorkerRuns(s)

(* A completion is joined exactly once: when a user is back at rest its    *)
(* slot has no pending bit, no queued job and no running worker that could *)
(* answer the next WAIT in place of the next transfer.                     *)
NothingLeftBehind ==
    \A s \in Slots :
        upc[s] \in {"ready", "open", "close", "load"} =>
            done[s] = {} /\ ~job[s] /\ ~WorkerRuns(s)

(* The payload the stream reads is the one that was loaded for the very    *)
(* transfer it runs, every chunk of it, from the enabling of the stream    *)
(* until the WAIT of that transfer has been answered.                      *)
PayloadIntact ==
    \A s \in M2PSlots :
        (stream[s] # 0 /\ stream[s] = xfer[s]
           /\ (disp[s] # "no" \/ upc[s] \in {"kick", "wait"}))
            => ram[s] = Payload(xfer[s])

(* What a successful read copies out is what the stream wrote during the   *)
(* transfer whose TC was consumed, not a cached copy of an earlier one.    *)
ReadFresh ==
    \A s \in Slots \ M2PSlots :
        (ret[s].code = "OK" /\ ret[s].by = ret[s].for)
            => got[s] = Payload(ret[s].for)

(* A completion can be mistaken only for that of the next transfer: OK is  *)
(* never given on a TC flag older than the preceding transfer's.           *)
AtMostOneLate ==
    \A s \in Slots :
        ret[s].code = "OK" => ret[s].by + 1 >= ret[s].for

(* And it is mistaken only in the wake of a time-out: a WAIT that joined   *)
(* its own transfer is never followed by an OK that joined a foreign one.  *)
MixupNeedsTimeout ==
    [][\A s \in Slots :
          (/\ ret[s].code = "OK" /\ ret[s].by = ret[s].for
           /\ ret'[s].code = "OK")
            => ret'[s].by = ret'[s].for]_vars

(* server.c: "WAIT joins that TC": every OK stands for the completion of   *)
(* the transfer that was armed last.                                       *)
WaitJoinsItsTC ==
    \A s \in Slots : ret[s].code = "OK" => ret[s].by = ret[s].for

-----------------------------------------------------------------------------
(* The inductive strengthening of the safety properties, by topic.         *)

AtRest(s) == upc[s] \in {"ready", "open", "close", "load"}
                \/ (upc[s] = "arm" /\ disp[s] = "no")
Joinable(s) == wpc[s] = "finish" \/ "DONE" \in done[s]
Preparing(s) == job[s] \/ wpc[s] \in {"clear", "program"}

(* A transfer being prepared is still within the bound, and a LOAD still   *)
(* within its payload.                                                     *)
Budget(s) ==
    /\ upc[s] = "load" \/ (upc[s] = "arm" /\ disp[s] = "no") => xfer[s] < MaxXfers
    /\ upc[s] = "load" => chunk[s] < Chunks

(* Where the job is, for a dispatcher blocked in do_arm.                   *)
ArmStage(s) ==
    \/ job[s] /\ wpc[s] = "idle" /\ done[s] = {}
    \/ ~job[s] /\ wpc[s] \in {"clear", "program", "armed"} /\ done[s] = {}
    \/ ~job[s] /\ wpc[s] \in {"poll", "finish"} /\ done[s] = {"ARMED"}
    \/ ~job[s] /\ wpc[s] = "idle" /\ done[s] = {"ARMED", "DONE"}

(* Where it is once the user knows the stream is live.                     *)
WaitStage(s) ==
    \/ ~job[s] /\ wpc[s] \in {"poll", "finish"} /\ done[s] = {}
    \/ ~job[s] /\ wpc[s] = "idle" /\ done[s] = {"DONE"}

Handshake(s) ==
    /\ disp[s] = "arm" => upc[s] = "arm" /\ ArmStage(s)
    /\ disp[s] = "wait" => upc[s] = "wait"
    /\ upc[s] \in {"kick", "wait"} => WaitStage(s)
    /\ disp[s] = "arm" \/ upc[s] \in {"kick", "wait"} => open[s]
    /\ AtRest(s) => ~job[s] /\ wpc[s] = "idle" /\ done[s] = {}

(* Which transfers the stream and the TC flag can still belong to.         *)
Numbering(s) ==
    /\ stream[s] = 0 \/ stream[s] = xfer[s]
          \/ (Preparing(s) /\ stream[s] + 1 = xfer[s])
    /\ Preparing(s) => stream[s] # xfer[s] /\ xfer[s] # 0
    /\ wpc[s] \in {"program", "armed", "poll"} =>
          tcif[s] \in {0, xfer[s]} \/ tcif[s] + 1 = xfer[s]
    /\ wpc[s] = "program" => tcif[s] # xfer[s]
    /\ Joinable(s) =>
          /\ result[s].for = xfer[s]
          /\ result[s].code = "OK" =>
                result[s].by = xfer[s] \/ result[s].by + 1 = xfer[s]
    /\ ret[s].code = "OK" => ret[s].by + 1 >= ret[s].for

(* After a WAIT that joined its own transfer no stream is left running.    *)
JoinedOwn(s) == ret[s].code = "OK" /\ ret[s].by = ret[s].for
CleanSlate(s) ==
    /\ wpc[s] \in {"armed", "poll"} /\ tcif[s] = xfer[s] => stream[s] = 0
    /\ Joinable(s) /\ result[s].code = "OK" /\ result[s].by = xfer[s]
          => stream[s] = 0
    /\ JoinedOwn(s) =>
          /\ AtRest(s) \/ Preparing(s) => stream[s] = 0
          /\ wpc[s] = "program" => tcif[s] = 0
          /\ wpc[s] \in {"armed", "poll"} => tcif[s] \in {0, xfer[s]}
          /\ Joinable(s) /\ result[s].code = "OK" => result[s].by = xfer[s]

(* What a stream that reads finds: the cached copy fills up chunk by       *)
(* chunk, and from the moment the worker took the job memory agrees.       *)
Loaded(s) ==
    /\ ~dirty[s] => cpu[s] = ram[s]
    /\ upc[s] = "load" => \A c \in 1 .. chunk[s] : cpu[s][c] = xfer[s] + 1
    /\ upc[s] = "arm" /\ disp[s] = "no" => cpu[s] = Payload(xfer[s] + 1)
    /\ disp[s] = "arm" \/ upc[s] \in {"kick", "wait"} =>
          /\ cpu[s] = Payload(xfer[s])
          /\ ~job[s] => ~dirty[s]

(* What a stream that writes leaves: memory holds the transfer whose TC    *)
(* flag is up, and from the invalidation on the CPU sees it too.           *)
Fetched(s) ==
    /\ ~dirty[s] /\ upc[s] # "load"
    /\ wpc[s] \in {"armed", "poll"} /\ tcif[s] = xfer[s]
          => ram[s] = Payload(xfer[s])
    /\ Joinable(s) /\ result[s].code = "OK" /\ result[s].by = xfer[s] =>
          /\ ram[s] = Payload(xfer[s])
          /\ "DONE" \in done[s] => cpu[s] = ram[s]
    /\ JoinedOwn(s) => got[s] = Payload(ret[s].for)

Memory(s) == IF s \in M2PSlots THEN Loaded(s) ELSE Fetched(s)

IInv ==
    /\ TypeOK
    /\ \A s \in Slots : /\ Budget(s) /\ Handshake(s) /\ Numbering(s)
                        /\ CleanSlate(s) /\ Memory(s)

-----------------------------------------------------------------------------
(* Liveness: every request is answered, although one thread serves all     *)
(* slots and blocks inside ARM and WAIT, and the peripheral may never run. *)
Served ==
    \A s \in Slots :
        upc[s] \in {"open", "close", "load", "arm", "wait"}
            ~> upc[s] \in {"ready", "kick"}

-----------------------------------------------------------------------------
(* The pool implements the channel abstraction of dma.h.                   *)

PhaseOf(s) ==
    IF job[s] \/ wpc[s] \in {"clear", "program", "armed", "poll"} THEN "armed"
    ELSE IF wpc[s] = "finish" \/ "DONE" \in done[s] THEN "done"
    ELSE IF open[s] THEN "idle" ELSE "closed"

Channel == INSTANCE DmaChannel WITH
    Verdicts <- {"OK", "ETIMEOUT"},
    phase <- [s \in Slots |-> PhaseOf(s)],
    verdict <- [s \in Slots |-> result[s].code],
    answer <- [s \in Slots |-> [code |-> ret[s].code, for |-> ret[s].for]]

(* Every behaviour of dispatcher, workers and streams is one in which each *)
(* WAIT hands its caller the verdict on the transfer armed last.           *)
ImplementsChannel == Channel!Spec
=============================================================================
