----------------------------- MODULE TcConsole ------------------------------
(***************************************************************************)
(* The console of the TC275 board: clients of board_console.c, the console *)
(* server, the ASCLIN server it forwards every byte to                     *)
(* (tc275_lite/drivers/asclin), the transmit FIFO and its interrupt.       *)
(*                                                                         *)
(* The clients may run on three cores.  A line travels in WRITE messages   *)
(* of ChunkMax bytes; a single character (board_console_putc) is a line    *)
(* of one.  A byte is named by its client, its line and its place.         *)
(*                                                                         *)
(* Modelled from how the drivers use them: the FIFO requests an interrupt  *)
(* when a byte leaves it while TFL is enabled; the kernel masks the        *)
(* interrupt until ulmk_irq_ack, which with AckDrops also drops a request  *)
(* pending in the service request node.                                    *)
(***************************************************************************)
EXTENDS Naturals, Sequences, FiniteSets

CONSTANTS
    Clients,    (* threads that print                                       *)
    Nobody,     (* no client                                                *)
    LineLens,   (* lengths of the lines they print, at most WRITE_MAX       *)
    ChunkMax,   (* CONSOLE_CHUNK_MAX                                        *)
    LogSize,    (* CONSOLE_LOG_SIZE                                         *)
    FifoSize,   (* entries of the transmit FIFO, 16                         *)
    AckDrops,   (* ulmk_irq_ack drops a pending request                     *)
    Prompt,     (* arming TFL takes less time than sending a full FIFO      *)
    MaxLines    (* bound: lines a client prints                             *)

ASSUME ConsoleConstants ==
    /\ Nobody \notin Clients
    /\ LineLens \subseteq Nat \ {0} /\ LineLens # {}
    /\ ChunkMax \in Nat \ {0} /\ LogSize \in Nat \ {0}
    /\ FifoSize \in Nat \ {0} /\ MaxLines \in Nat
    /\ AckDrops \in BOOLEAN /\ Prompt \in BOOLEAN

VARIABLES
    line,     (* lines a client has begun                                    *)
    len,      (* length of its current line                                  *)
    sent,     (* bytes of it in answered WRITEs; = len between lines         *)
    cur,      (* whose WRITE the console server executes, or Nobody          *)
    i,        (* console_emit_buf: i                                         *)
    log,      (* g_ulmk_console_log                                          *)
    apc,      (* where the ASCLIN server is                                  *)
    hand,     (* the byte of the TX_BYTE call it executes                    *)
    fifo,     (* the transmit FIFO                                           *)
    wire,     (* what left it                                                *)
    enabled,  (* FLAGSENABLE.TFLE                                            *)
    srr,      (* the transmit interrupt is requested                         *)
    masked,   (* and masked until ulmk_irq_ack                               *)
    bit       (* ASCLIN_NOTIF_TX is pending                                  *)

vars == <<line, len, sent, cur, i, log, apc, hand, fifo, wire, enabled, srr,
          masked, bit>>

clientVars == <<line, len, sent>>
serverVars == <<cur, i, log>>
fifoVars   == <<fifo, wire>>
irqVars    == <<enabled, srr, masked, bit>>

Byte(c, n) == [by |-> c, line |-> line[c], n |-> n, of |-> len[c]]
Least(a, b) == IF a < b THEN a ELSE b

Init ==
    /\ line = [c \in Clients |-> 0]
    /\ len = [c \in Clients |-> 0]
    /\ sent = [c \in Clients |-> 0]
    /\ cur = Nobody /\ i = 0 /\ log = <<>>
    /\ apc = "recv" /\ hand = <<>>
    /\ fifo = <<>> /\ wire = <<>>
    /\ enabled = FALSE /\ srr = FALSE /\ masked = FALSE /\ bit = FALSE

-----------------------------------------------------------------------------
(* Clients.  A client with sent[c] < len[c] is inside console_write,       *)
(* blocked in the ep_call for its next chunk.                              *)

Puts(c) ==
    /\ sent[c] = len[c]
    /\ line[c] < MaxLines
    /\ line' = [line EXCEPT ![c] = @ + 1]
    /\ \E n \in LineLens : len' = [len EXCEPT ![c] = n]
    /\ sent' = [sent EXCEPT ![c] = 0]
    /\ UNCHANGED <<serverVars, apc, hand, fifoVars, irqVars>>

Chunk(c) == Least(ChunkMax, len[c] - sent[c])

-----------------------------------------------------------------------------
(* The console server.                                                     *)

(* Faulty variant: the index is not reset for the next message.            *)
ReceiveAtOldIndex(c) ==
    /\ cur = Nobody
    /\ sent[c] < len[c]
    /\ cur' = c
    /\ UNCHANGED <<clientVars, i, log, apc, hand, fifoVars, irqVars>>

Receive(c) ==
    /\ cur = Nobody
    /\ sent[c] < len[c]
    /\ cur' = c /\ i' = 0
    /\ UNCHANGED <<clientVars, log, apc, hand, fifoVars, irqVars>>

(* Faulty variants: the log is not bounded; the log drops its oldest byte. *)
EmitByteUnbounded ==
    /\ cur # Nobody /\ apc = "recv"
    /\ i < Chunk(cur)
    /\ LET b == Byte(cur, sent[cur] + i + 1)
       IN  log' = Append(log, b) /\ hand' = <<b>>
    /\ i' = i + 1
    /\ apc' = "test"
    /\ UNCHANGED <<clientVars, cur, fifoVars, irqVars>>

EmitByteRing ==
    /\ cur # Nobody /\ apc = "recv"
    /\ i < Chunk(cur)
    /\ LET b == Byte(cur, sent[cur] + i + 1)
       IN  /\ log' = Append(IF Len(log) >= LogSize - 1 THEN Tail(log) ELSE log, b)
           /\ hand' = <<b>>
    /\ i' = i + 1
    /\ apc' = "test"
    /\ UNCHANGED <<clientVars, cur, fifoVars, irqVars>>

(* console_emit_byte: the RAM log first, until it is full, then TX_BYTE.   *)
EmitByte ==
    /\ cur # Nobody /\ apc = "recv"
    /\ i < Chunk(cur)
    /\ LET b == Byte(cur, sent[cur] + i + 1)
       IN  /\ log' = IF Len(log) >= LogSize - 1 THEN log ELSE Append(log, b)
           /\ hand' = <<b>>
    /\ i' = i + 1
    /\ apc' = "test"
    /\ UNCHANGED <<clientVars, cur, fifoVars, irqVars>>

Answer ==
    /\ cur # Nobody /\ apc = "recv"
    /\ i = Chunk(cur)
    /\ sent' = [sent EXCEPT ![cur] = @ + Chunk(cur)]
    /\ cur' = Nobody
    /\ UNCHANGED <<line, len, i, log, apc, hand, fifoVars, irqVars>>

-----------------------------------------------------------------------------
(* The ASCLIN server: wait_space and hw_tx.                                *)

Go(from, to) == apc = from /\ apc' = to

IrqAck ==
    /\ masked' = FALSE
    /\ srr' = (srr /\ ~AckDrops)

TestSpace ==
    /\ Go("test", IF Len(fifo) < FifoSize THEN "write" ELSE "ack")
    /\ UNCHANGED <<clientVars, serverVars, hand, fifoVars, irqVars>>

AckStale ==
    /\ Go("ack", "enable")
    /\ IrqAck
    /\ UNCHANGED <<clientVars, serverVars, hand, fifoVars, enabled, bit>>

(* Faulty variant: the server waits without enabling TFL.                  *)
EnableNothing ==
    /\ Go("enable", "wait")
    /\ UNCHANGED <<clientVars, serverVars, hand, fifoVars, irqVars>>

EnableTfl ==
    /\ Go("enable", "wait")
    /\ enabled' = TRUE
    /\ UNCHANGED <<clientVars, serverVars, hand, fifoVars, srr, masked, bit>>

Wake ==
    /\ bit
    /\ Go("wait", "disable")
    /\ bit' = FALSE
    /\ UNCHANGED <<clientVars, serverVars, hand, fifoVars, enabled, srr,
                   masked>>

DisableTfl ==
    /\ Go("disable", "ack2")
    /\ enabled' = FALSE
    /\ UNCHANGED <<clientVars, serverVars, hand, fifoVars, srr, masked, bit>>

AckTaken ==
    /\ Go("ack2", "write")
    /\ IrqAck
    /\ UNCHANGED <<clientVars, serverVars, hand, fifoVars, enabled, bit>>

(* The level is not read again; a full FIFO drops the byte.                *)
WriteTxData ==
    /\ Go("write", "recv")
    /\ fifo' = IF Len(fifo) < FifoSize THEN fifo \o hand ELSE fifo
    /\ hand' = <<>>
    /\ UNCHANGED <<clientVars, serverVars, wire, irqVars>>

-----------------------------------------------------------------------------
(* The shift register and the kernel's interrupt dispatch.                 *)

Arming == apc \in {"ack", "enable"}

Drain ==
    /\ fifo # <<>>
    /\ Prompt /\ Arming => Len(fifo) > 1
    /\ wire' = Append(wire, Head(fifo))
    /\ fifo' = Tail(fifo)
    /\ srr' = (srr \/ enabled)
    /\ UNCHANGED <<clientVars, serverVars, apc, hand, enabled, masked, bit>>

Interrupt ==
    /\ srr /\ ~masked
    /\ srr' = FALSE /\ masked' = TRUE /\ bit' = TRUE
    /\ UNCHANGED <<clientVars, serverVars, apc, hand, fifoVars, enabled>>

(* Every line within the bound is printed and sent.                        *)
BoundReached ==
    /\ \A c \in Clients : line[c] = MaxLines /\ sent[c] = len[c]
    /\ cur = Nobody /\ fifo = <<>> /\ ~srr
    /\ UNCHANGED vars

-----------------------------------------------------------------------------
Console == EmitByte \/ Answer \/ \E c \in Clients : Receive(c)
Asclin ==
    \/ TestSpace \/ AckStale \/ EnableTfl \/ Wake \/ DisableTfl \/ AckTaken
    \/ WriteTxData

Next ==
    \/ \E c \in Clients : Puts(c)
    \/ Console \/ Asclin \/ Drain \/ Interrupt \/ BoundReached

(* Every server runs, the endpoint queue starves no client, the shift      *)
(* register always shifts, and an interrupt that is due is taken.          *)
Fairness ==
    /\ \A c \in Clients : SF_vars(Receive(c))
    /\ WF_vars(Console) /\ WF_vars(Asclin)
    /\ WF_vars(Drain) /\ WF_vars(Interrupt)

Spec == Init /\ [][Next]_vars
FairSpec == Spec /\ Fairness

-----------------------------------------------------------------------------
Bytes == [by : Clients, line : Nat, n : Nat, of : Nat]

(* The variables keep their types, FIFO and log within their memory.       *)
TypeOK ==
    /\ line \in [Clients -> 0 .. MaxLines]
    /\ len \in [Clients -> Nat] /\ sent \in [Clients -> Nat]
    /\ cur \in Clients \union {Nobody} /\ i \in 0 .. ChunkMax
    /\ log \in Seq(Bytes) /\ Len(log) <= LogSize - 1
    /\ apc \in {"recv", "test", "ack", "enable", "wait", "disable", "ack2",
               "write"}
    /\ hand \in Seq(Bytes) /\ Len(hand) <= 1
    /\ fifo \in Seq(Bytes) /\ Len(fifo) <= FifoSize
    /\ wire \in Seq(Bytes)
    /\ enabled \in BOOLEAN /\ srr \in BOOLEAN /\ masked \in BOOLEAN
    /\ bit \in BOOLEAN

(* Everything emitted so far, in order.                                    *)
Stream == wire \o fifo \o hand

(* What client c has handed to the console so far is in the stream, every  *)
(* byte once and in the order it was printed: neither the chunks nor the   *)
(* FIFO nor the waits for space lose, repeat or reorder one.               *)
Emitted(c) == sent[c] + (IF cur = c THEN i ELSE 0)
Of(c, s) == {k \in 1 .. Len(s) : s[k].by = c}
Follows(a, b) ==
    IF a.n < a.of THEN b.line = a.line /\ b.n = a.n + 1
    ELSE b.line = a.line + 1 /\ b.n = 1

(* Every byte of c in s follows the one of c before it.                    *)
InOrder(c, s) ==
    \A k \in Of(c, s) :
        /\ (\A m \in Of(c, s) : k <= m) => s[k].line = 1 /\ s[k].n = 1
        /\ \A j \in 1 .. k - 1 :
              j \in Of(c, s) /\ (\A m \in Of(c, s) : m <= j \/ k <= m)
                  => Follows(s[j], s[k])

(* The last byte of c in s is the last one it has handed over.             *)
UpToDate(c, s) ==
    /\ Of(c, s) = {} => Emitted(c) = 0
    /\ \A k \in Of(c, s) :
          (\A m \in Of(c, s) : m <= k) =>
              IF Emitted(c) > 0 THEN s[k] = Byte(c, Emitted(c))
              ELSE s[k].n = s[k].of /\ s[k].line + 1 = line[c]

Delivered == \A c \in Clients : InOrder(c, Stream) /\ UpToDate(c, Stream)

(* wait_space does not read the level again after it was woken: the        *)
(* notification alone must mean that there is room.                        *)
RoomWhenWoken == apc \in {"disable", "ack2", "write"} => Len(fifo) < FifoSize

(* The log a debugger reads is what went out, up to the size it has.       *)
LogIsStream ==
    log = SubSeq(Stream, 1, Least(Len(Stream), LogSize - 1))

(* board_console.c: "SMP lines stay atomic".  The bytes of a line stand    *)
(* together on the wire.                                                   *)
LinesAtomic ==
    \A j \in 1 .. Len(wire) : \A k \in j .. Len(wire) :
        wire[j].by = wire[k].by /\ wire[j].line = wire[k].line
            => \A m \in j .. k : wire[m].by = wire[j].by

(* A server that waits although there is room will be told so, now or when *)
(* a later byte leaves the FIFO.  The test of the level precedes the       *)
(* enabling of the interrupt, so this rests on Prompt.                     *)
ToldOfSpace ==
    apc = "wait" /\ Len(fifo) < FifoSize => fifo # <<>> \/ srr \/ bit

-----------------------------------------------------------------------------
(* The inductive strengthening of RoomWhenWoken and ToldOfSpace: an        *)
(* interrupt and a notification exist only for the wait they belong to,    *)
(* and only when a byte has left the FIFO since.                           *)
Waiting == apc \in {"wait", "disable"}
Signals ==
    /\ enabled <=> Waiting
    /\ Arming => fifo # <<>> \/ ~Prompt
    /\ AckDrops =>
          /\ srr => (Waiting \/ apc = "ack2") /\ Len(fifo) < FifoSize
          /\ bit => apc = "wait" /\ masked /\ Len(fifo) < FifoSize
          /\ apc \in {"disable", "ack2"} => masked
          /\ RoomWhenWoken
    /\ Prompt => ToldOfSpace

(* The byte in hand and the requests, as the strengthening of Delivered    *)
(* and LogIsStream, where RoomWhenWoken holds.                             *)
Handed ==
    /\ hand = <<>> <=> apc = "recv"
    /\ \A c \in Clients :
          /\ sent[c] <= len[c]
          /\ line[c] = 0 <=> len[c] = 0
          /\ cur = c => sent[c] < len[c] /\ i <= Chunk(c)
          /\ Of(c, Stream) = {} => line[c] <= 1

IInv ==
    /\ TypeOK /\ Signals
    /\ AckDrops => Handed /\ Delivered /\ LogIsStream

-----------------------------------------------------------------------------
(* Every line is printed to its end, whatever the other clients print.     *)
Printed == \A c \in Clients : sent[c] < len[c] ~> sent[c] = len[c]
=============================================================================
