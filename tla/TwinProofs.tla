----------------------------- MODULE TwinProofs -----------------------------
(***************************************************************************)
(* Proofs about the two servers that Servers has twice: EspGdma, for any   *)
(* users, whatever their roles, and any number of requests; and UartServer,*)
(* for any users, depth of the transmitter, length of a call and number of *)
(* bytes received.                                                         *)
(***************************************************************************)
EXTENDS EspGdma, TLAPS

CONSTANTS
    UartUsers, UartRuns,   (* Users and MaxRuns of the UART server           *)
    Depth, Receives, AcksAgain, Batch, MaxBytes

Uart == INSTANCE UartServer WITH Users <- UartUsers, MaxRuns <- UartRuns

GdmaConstants == Users # {} /\ MaxRuns \in Nat

Lines   == LineType(Both)
Servers == ServerType(Places, Both, 0)

-----------------------------------------------------------------------------
(* The inductive invariant.                                                *)

Arms   == {"arm rx", "arm tx"}
Waited == {"wait", "waiting", "close", "read", "verdict"}

Serves(c) == srv.at # "recv" /\ c = Chan

(* The channel has been armed for the request its user has under way, and  *)
(* no wait has been answered since.                                        *)
Armed(c) ==
    \/ c[2] = "rx" /\ usr[c[1]].at \in {"arm tx", "start", "wait tx",
                                        "wait rx"}
    \/ c[2] = "rx" /\ usr[c[1]].at = "copy" /\ srv.user = c[1]
                   /\ srv.at \in Waited
    \/ c[2] = "tx" /\ usr[c[1]].at \in {"start", "wait tx"}
                   /\ Role[c[1]] = "spi"

(* It then transfers for this request or has latched how that ended.       *)
Transfers(c) ==
    Armed(c) =>
        /\ hw[c].run # 0 => hw[c].run = usr[c[1]].n /\ hw[c].line.raw = {}
        /\ "eof" \in hw[c].line.raw => hw[c].by = usr[c[1]].n
        /\ usr[c[1]].at # "copy" => hw[c].buf = usr[c[1]].n

(* A channel on which no wait has timed out is idle when it is not armed,  *)
(* and is notified for an event only, while a wait for it is open.         *)
OnTime(c) ==
    c \notin hist =>
        /\ hw[c].run # 0 => Armed(c)
        /\ hw[c].line.bit =>
              /\ Serves(c) /\ srv.at = "waiting"
              /\ hw[c].line.raw # {} /\ hw[c].line.masked
        /\ hw[c].line.ena # {} => Serves(c) /\ srv.at \in {"waiting", "close"}
        /\ Serves(c) /\ srv.at = "close" => hw[c].line.masked
        /\ Serves(c) /\ srv.at \in {"close", "read"} => hw[c].line.raw # {}

(* The server at its places: what it serves, and what it has read.         *)
Serving ==
    /\ srv.at # "recv" => Call \in Calls
    /\ srv.at \in {"reset", "start"} => Call \notin Waits
    /\ srv.at \in Waited => Call \in Waits \cup {"copy"}
    /\ srv.late => srv.at = "close" /\ Chan \in hist
    /\ srv.at = "verdict" =>
          /\ srv.raw # {} => hw[Chan].run = 0
          /\ "eof" \in srv.raw => hw[Chan].by = Own
          /\ srv.raw = {} => Chan \in hist

(* The users: who transmits, and the answers they hold.                    *)
Holding(u) ==
    /\ usr[u].at \in {"arm tx", "wait tx"} => Role[u] = "spi"
    /\ usr[u].rx = "ok" =>
          /\ usr[u].at \in {"stop", "idle"}
          /\ hw[Rx(u)].by = usr[u].n /\ hw[Rx(u)].run = 0
    /\ usr[u].tx = "ok" =>
          /\ usr[u].at \in {"wait rx", "stop", "idle"}
          /\ hw[Tx(u)].by = usr[u].n /\ hw[Tx(u)].run = 0

IInv ==
    /\ TypeOK /\ Serving
    /\ \A c \in Chans : Transfers(c) /\ OnTime(c)
    /\ \A u \in Users : Holding(u)

-----------------------------------------------------------------------------
(* The types as the steps use them.                                        *)
LEMMA Parts ==
    ASSUME GdmaConstants, TypeOK
    PROVE  /\ usr \in [Users -> UsersType] /\ usr[srv.user] \in UsersType
           /\ srv \in Servers /\ srv.user \in Users
           /\ hw \in [Chans -> ChanType] /\ hist \subseteq Chans
           /\ 0 \in Ids /\ Own \in Ids /\ Chan \in Chans
<1>1. /\ usr \in [Users -> UsersType] /\ srv \in Servers
      /\ hw \in [Chans -> ChanType] /\ hist \subseteq Chans
  BY DEF TypeOK, Servers
<1>2. srv.user \in Users
  BY <1>1 DEF Servers, ServerType
<1>3. 0 \in Ids
  BY DEF GdmaConstants, Ids
<1>4. usr[srv.user] \in UsersType
  BY <1>1, <1>2
<1>5. Own \in Ids
  BY <1>4 DEF UsersType, Own
<1>6. Chan \in Chans
  BY <1>2 DEF Chan, Side, Chans
<1> QED  BY <1>1, <1>2, <1>3, <1>4, <1>5, <1>6

LEMMA ChanParts ==
    ASSUME NEW c \in Chans
    PROVE  /\ c[1] \in Users /\ c[2] \in {"rx", "tx"}
           /\ c = Rx(c[1]) \/ c = Tx(c[1])
           /\ c[2] = "rx" => c = Rx(c[1])
           /\ c[2] = "tx" => c = Tx(c[1])
BY DEF Chans, Rx, Tx

LEMMA UserChans ==
    ASSUME NEW u \in Users
    PROVE  /\ Rx(u) \in Chans /\ Tx(u) \in Chans
           /\ Rx(u)[1] = u /\ Tx(u)[1] = u /\ Rx(u)[2] = "rx"
           /\ Tx(u)[2] = "tx"
BY DEF Chans, Rx, Tx

LEMMA HwParts ==
    ASSUME hw \in [Chans -> ChanType], NEW c \in Chans
    PROVE  /\ hw[c] \in ChanType /\ hw[c].line \in Lines
           /\ hw[c].run \in Ids /\ hw[c].by \in Ids /\ hw[c].buf \in Ids
           /\ hw[c].line.raw \subseteq Both
<1>1. hw[c] \in ChanType
  OBVIOUS
<1>2. hw[c].line \in Lines
  BY <1>1 DEF ChanType, Lines
<1>3. hw[c].line.raw \subseteq Both
  BY <1>2 DEF Lines, LineType
<1> QED  BY <1>1, <1>2, <1>3 DEF ChanType

(* The channel of the call being served.                                   *)
LEMMA ChanOfCall ==
    ASSUME GdmaConstants, IInv, srv.at # "recv"
    PROVE  /\ Chan \in Chans /\ Chan[1] = srv.user
           /\ Call \in {"arm tx", "wait tx"} => Chan = Tx(srv.user)
           /\ Call \notin {"arm tx", "wait tx"} => Chan = Rx(srv.user)
           /\ Call \in {"arm rx", "arm tx", "copy", "wait rx", "wait tx"}
           /\ srv.at \in Waited => Armed(Chan)
           /\ srv.at \in {"reset", "start"} => ~Armed(Chan)
<1>1. Call \in {"arm rx", "arm tx", "copy", "wait rx", "wait tx"}
  BY DEF IInv, Serving, Calls, Waits
<1>2. Chan \in Chans /\ srv.user \in Users /\ Chan[1] = srv.user
  BY Parts DEF IInv, Chan
<1>3. /\ Call \in {"arm tx", "wait tx"} => Chan = Tx(srv.user)
      /\ Call \notin {"arm tx", "wait tx"} => Chan = Rx(srv.user)
  BY DEF Chan, Side, Rx, Tx
<1>4. srv.at \in Waited => Armed(Chan)
  <2>1. SUFFICES ASSUME srv.at \in Waited PROVE Armed(Chan)
    OBVIOUS
  <2>2. Call \in {"wait rx", "wait tx", "copy"}
    BY <2>1 DEF IInv, Serving, Waits
  <2>3. Call = "wait tx" => Role[srv.user] = "spi"
    BY <1>2 DEF IInv, Holding, Call
  <2> QED  BY <1>2, <1>3, <2>1, <2>2, <2>3, UserChans DEF Armed, Call
<1>5. srv.at \in {"reset", "start"} => ~Armed(Chan)
  <2>1. SUFFICES ASSUME srv.at \in {"reset", "start"} PROVE ~Armed(Chan)
    OBVIOUS
  <2>2. Call \in {"arm rx", "arm tx", "copy"}
    BY <1>1, <2>1 DEF IInv, Serving, Waits
  <2> QED
    BY <1>2, <1>3, <2>1, <2>2, UserChans DEF Armed, Call, Waited
<1> QED  BY <1>1, <1>2, <1>3, <1>4, <1>5

(* A user whose answer is OK is past the call of that channel.             *)
LEMMA Elsewhere ==
    ASSUME GdmaConstants, IInv, srv.at # "recv", NEW u \in Users
    PROVE  /\ usr[u].rx = "ok" => Rx(u) # Chan
           /\ usr[u].tx = "ok" => Tx(u) # Chan
<1>1. /\ usr[u].rx = "ok" => usr[u].at \in {"stop", "idle"}
      /\ usr[u].tx = "ok" => usr[u].at \in {"wait rx", "stop", "idle"}
  BY DEF IInv, Holding
<1>2. /\ Chan[1] = srv.user /\ srv.user \in Users
      /\ Call \in {"arm tx", "wait tx"} => Chan = Tx(srv.user)
      /\ Call \notin {"arm tx", "wait tx"} => Chan = Rx(srv.user)
      /\ Call \in {"arm rx", "arm tx", "copy", "wait rx", "wait tx"}
  BY ChanOfCall, Parts DEF IInv
<1>3. Rx(u) = Chan => u = srv.user /\ Call \in {"arm rx", "copy", "wait rx"}
  <2>1. Rx(u)[1] = u /\ Rx(u)[2] = "rx" /\ Tx(srv.user)[2] = "tx"
    BY <1>2, UserChans
  <2> QED  BY <1>2, <2>1
<1>4. Tx(u) = Chan => u = srv.user /\ Call \in {"arm tx", "wait tx"}
  <2>1. Tx(u)[1] = u /\ Tx(u)[2] = "tx" /\ Rx(srv.user)[2] = "rx"
    BY <1>2, UserChans
  <2> QED  BY <1>2, <2>1
<1> QED  BY <1>1, <1>3, <1>4 DEF Call

-----------------------------------------------------------------------------
LEMMA InitIInv == ASSUME GdmaConstants, Init PROVE IInv
<1>1. 0 \in Ids /\ 0 \in 0 .. 0
  BY DEF GdmaConstants, Ids
<1>2. usr \in [Users -> UsersType]
  <2>1. [at |-> "idle", n |-> 0, rx |-> "", tx |-> ""] \in UsersType
    BY <1>1 DEF UsersType, Answers
  <2> QED  BY <2>1 DEF Init
<1>3. (CHOOSE u \in Users : TRUE) \in Users
  BY DEF GdmaConstants
<1>4. srv \in Servers /\ srv.at = "recv" /\ ~srv.late
  BY <1>1, <1>3 DEF Init, Resting, Servers, ServerType
<1>5. Line({}) \in Lines /\ ~Line({}).bit /\ Line({}).ena = {}
  BY DEF Line, Lines, LineType
<1>6. ASSUME NEW c \in Chans
      PROVE  /\ hw[c] \in ChanType /\ hw[c].run = 0
             /\ ~hw[c].line.bit /\ hw[c].line.ena = {}
  <2>1. hw[c] = [line |-> Line({}), run |-> 0, buf |-> 0, by |-> 0,
                 fed |-> Role[c[1]] = "mem"]
    BY DEF Init, None
  <2> QED  BY <1>1, <1>5, <2>1 DEF ChanType, Lines
<1>7. hw \in [Chans -> ChanType]
  BY <1>6 DEF Init
<1>8. TypeOK /\ hist = {}
  BY <1>2, <1>4, <1>7 DEF TypeOK, Servers, Init
<1>9. Serving
  BY <1>4 DEF Serving, Waited
<1>10. ASSUME NEW u \in Users
       PROVE  usr[u].at = "idle" /\ usr[u].rx = "" /\ usr[u].tx = ""
  BY DEF Init
<1>11. ASSUME NEW c \in Chans PROVE Transfers(c) /\ OnTime(c)
  <2>1. ~Armed(c)
    BY <1>4, <1>10, ChanParts DEF Armed, Waited
  <2> QED  BY <1>4, <1>6, <2>1 DEF Transfers, OnTime, Serves
<1>12. ASSUME NEW u \in Users PROVE Holding(u)
  BY <1>10 DEF Holding
<1> QED  BY <1>8, <1>9, <1>11, <1>12 DEF IInv

-----------------------------------------------------------------------------
(* A step of the server within a request touches the channel of the call.  *)
LEMMA Within ==
    ASSUME GdmaConstants, IInv, UNCHANGED usr, srv.at # "recv",
           srv' \in Servers, srv'.user = srv.user, srv'.at # "recv",
           NEW c, c = Chan, NEW h \in ChanType, hw' = [hw EXCEPT ![c] = h],
           hist' \subseteq Chans, hist \subseteq hist',
           Serving', Transfers(c)', OnTime(c)'
    PROVE  IInv'
<1>1. /\ hw \in [Chans -> ChanType] /\ c \in Chans /\ TypeOK
      /\ usr \in [Users -> UsersType]
  BY Parts DEF IInv
<1>2. /\ hw' \in [Chans -> ChanType]
      /\ \A d \in Chans : d # c => hw'[d] = hw[d]
  BY <1>1
<1>3. TypeOK'
  BY <1>1, <1>2 DEF TypeOK, Servers
<1>4. Chan' = Chan
  BY DEF Chan, Call
<1>5. /\ Chan[1] = srv.user
      /\ Call \in {"arm tx", "wait tx"} => Chan = Tx(srv.user)
      /\ Call \notin {"arm tx", "wait tx"} => Chan = Rx(srv.user)
      /\ Call \in {"arm rx", "arm tx", "copy", "wait rx", "wait tx"}
  BY ChanOfCall
<1>6. ASSUME NEW d \in Chans PROVE Transfers(d)' /\ OnTime(d)'
  <2>1. CASE d = c
    BY <2>1
  <2>2. CASE d # c
    <3>1. ~Serves(d) /\ ~Serves(d)'
      BY <1>4, <2>2 DEF Serves
    <3>2. Armed(d)' <=> Armed(d)
      <4>1. d[2] = "rx" /\ usr[d[1]].at = "copy" => d[1] # srv.user
        BY <1>5, <2>2, ChanParts DEF Call
      <4> QED  BY <4>1 DEF Armed
    <3>3. hw'[d] = hw[d]
      BY <1>2, <2>2
    <3> QED  BY <3>1, <3>2, <3>3 DEF IInv, Transfers, OnTime
  <2> QED  BY <2>1, <2>2
<1>7. ASSUME NEW u \in Users PROVE Holding(u)'
  <2>1. Holding(u) /\ Rx(u) \in Chans /\ Tx(u) \in Chans
    BY UserChans DEF IInv
  <2>2. /\ usr[u].rx = "ok" => hw'[Rx(u)] = hw[Rx(u)]
        /\ usr[u].tx = "ok" => hw'[Tx(u)] = hw[Tx(u)]
    BY <1>2, <2>1, Elsewhere
  <2> QED  BY <2>1, <2>2 DEF Holding
<1> QED  BY <1>3, <1>6, <1>7 DEF IInv

(* A step of a channel.                                                    *)
LEMMA Outside ==
    ASSUME GdmaConstants, IInv, UNCHANGED <<usr, srv, hist>>,
           NEW c \in Chans, NEW h \in ChanType, hw' = [hw EXCEPT ![c] = h],
           (h.run = hw[c].run /\ h.by = hw[c].by) \/ hw[c].run # 0,
           Transfers(c)', OnTime(c)'
    PROVE  IInv'
<1>1. hw \in [Chans -> ChanType] /\ TypeOK
  BY Parts DEF IInv
<1>2. /\ hw' \in [Chans -> ChanType] /\ hw'[c] = h
      /\ \A d \in Chans : d # c => hw'[d] = hw[d]
  BY <1>1
<1>3. TypeOK'
  BY <1>1, <1>2 DEF TypeOK
<1>4. Chan' = Chan /\ Call' = Call /\ Own' = Own
  BY DEF Chan, Call, Own
<1>5. ASSUME NEW d \in Chans PROVE Transfers(d)' /\ OnTime(d)'
  <2>1. CASE d = c
    BY <2>1
  <2>2. CASE d # c
    <3>1. (Serves(d)' <=> Serves(d)) /\ (Armed(d)' <=> Armed(d))
      BY <1>4 DEF Serves, Armed
    <3>2. hw'[d] = hw[d]
      BY <1>2, <2>2
    <3> QED  BY <3>1, <3>2 DEF IInv, Transfers, OnTime
  <2> QED  BY <2>1, <2>2
<1>6. ASSUME NEW d \in Chans, hw[d].run = 0
      PROVE  hw'[d].run = 0 /\ hw'[d].by = hw[d].by
  BY <1>2, <1>6
<1>7. ASSUME NEW u \in Users PROVE Holding(u)'
  <2>1. Holding(u) /\ Rx(u) \in Chans /\ Tx(u) \in Chans
    BY UserChans DEF IInv
  <2>2. usr[u].rx = "ok" => /\ hw'[Rx(u)].run = 0
                            /\ hw'[Rx(u)].by = hw[Rx(u)].by
    BY <1>6, <2>1 DEF Holding
  <2>3. usr[u].tx = "ok" => /\ hw'[Tx(u)].run = 0
                            /\ hw'[Tx(u)].by = hw[Tx(u)].by
    BY <1>6, <2>1 DEF Holding
  <2> QED  BY <2>1, <2>2, <2>3 DEF Holding
<1>8. Serving'
  <2>1. srv.at = "verdict" /\ srv.raw # {} => hw[Chan].run = 0
    BY DEF IInv, Serving
  <2>2. srv.at = "verdict" /\ srv.raw # {} =>
           hw'[Chan].run = 0 /\ hw'[Chan].by = hw[Chan].by
    BY <1>1, <1>6, <2>1, Parts
  <2>3. "eof" \in srv.raw => srv.raw # {}
    OBVIOUS
  <2> QED  BY <1>4, <2>2, <2>3 DEF IInv, Serving
<1> QED  BY <1>3, <1>5, <1>7, <1>8 DEF IInv

-----------------------------------------------------------------------------
(* What the steps do to a line, and to the server's record.                *)
LEMMA LineOps ==
    ASSUME NEW l \in Lines
    PROVE  /\ Acked(l) \in Lines /\ Acked(l).raw = l.raw
           /\ (Acked(l).bit <=> l.bit)
           /\ Taken(l) \in Lines /\ Taken(l).raw = l.raw
           /\ Taken(l).ena = l.ena /\ ~Taken(l).bit
           /\ (Taken(l).masked <=> l.masked)
           /\ Delivered(l) \in Lines /\ Delivered(l).raw = l.raw
           /\ Delivered(l).ena = l.ena /\ Delivered(l).masked
<1>1. /\ Acked(l) \in Lines /\ Acked(l).raw = l.raw
      /\ (Acked(l).bit <=> l.bit)
  BY DEF Acked, Lines, LineType
<1>2. /\ Taken(l) \in Lines /\ Taken(l).raw = l.raw
      /\ Taken(l).ena = l.ena /\ ~Taken(l).bit
      /\ (Taken(l).masked <=> l.masked)
  BY DEF Taken, Lines, LineType
<1>3. /\ Delivered(l) \in Lines /\ Delivered(l).raw = l.raw
      /\ Delivered(l).ena = l.ena /\ Delivered(l).masked
  BY DEF Delivered, Lines, LineType
<1> QED  BY <1>1, <1>2, <1>3

LEMMA EnabledLine ==
    ASSUME NEW l \in Lines, NEW on \in SUBSET Both
    PROVE  /\ Enabled(l, on) \in Lines
           /\ Enabled(l, on).raw = l.raw /\ Enabled(l, on).ena = on
           /\ (Enabled(l, on).bit <=> l.bit)
           /\ (Enabled(l, on).masked <=> l.masked)
BY DEF Enabled, Lines, LineType

LEMMA ClearedLine ==
    ASSUME NEW l \in Lines
    PROVE  /\ Cleared(l, Both) \in Lines
           /\ Cleared(l, Both).raw = {} /\ Cleared(l, Both).ena = l.ena
           /\ (Cleared(l, Both).bit <=> l.bit)
BY DEF Cleared, Lines, LineType

LEMMA LatchedLine ==
    ASSUME NEW l \in Lines, NEW e \in Both
    PROVE  /\ Latched(l, e) \in Lines
           /\ Latched(l, e).raw = l.raw \cup {e} /\ Latched(l, e).ena = l.ena
           /\ (Latched(l, e).bit <=> l.bit)
           /\ (Latched(l, e).masked <=> l.masked)
BY DEF Latched, Lines, LineType

LEMMA GoesTyped ==
    ASSUME srv \in Servers, NEW next \in Places,
           srv' = [srv EXCEPT !.at = next]
    PROVE  /\ srv' \in Servers /\ srv'.at = next /\ srv'.user = srv.user
           /\ srv'.raw = srv.raw /\ (srv'.late <=> srv.late)
BY DEF Servers, ServerType

(* A channel whose line is set, and whose server has gone to next.         *)
LEMMA LineStep ==
    ASSUME GdmaConstants, IInv, srv.at \in Waited, UNCHANGED <<usr, hist>>,
           NEW l \in Lines, l.raw = hw[Chan].line.raw,
           hw' = [hw EXCEPT ![Chan].line = l],
           NEW next \in {"waiting", "close", "read"},
           srv' = [srv EXCEPT !.at = next],
           ~srv.late,
           Chan \notin hist =>
              /\ l.bit => next = "waiting" /\ l.raw # {} /\ l.masked
              /\ l.ena # {} => next \in {"waiting", "close"}
              /\ next = "close" => l.masked
              /\ next \in {"close", "read"} => l.raw # {}
    PROVE  IInv'
<1>0. Chan \in Chans
  BY Parts DEF IInv
<1>c. PICK c \in Chans : c = Chan
  BY <1>0
<1> DEFINE h == [hw[c] EXCEPT !.line = l]
<1>1. /\ hw \in [Chans -> ChanType] /\ c = Chan /\ hist \subseteq Chans
      /\ hw[c] \in ChanType /\ srv \in Servers
  BY <1>c, Parts, HwParts DEF IInv
<1>2. /\ h \in ChanType /\ h.line = l /\ h.run = hw[c].run
      /\ h.by = hw[c].by /\ h.buf = hw[c].buf
  BY <1>1 DEF ChanType, Lines
<1>3. hw' = [hw EXCEPT ![c] = h] /\ hw'[c] = h
  BY <1>1
<1>4. next \in Places
  BY DEF Places
<1>5. /\ srv' \in Servers /\ srv'.at = next /\ srv'.user = srv.user
      /\ (srv'.late <=> srv.late)
  BY <1>1, <1>4, GoesTyped
<1>6. Chan' = Chan /\ Call' = Call
  BY <1>5 DEF Chan, Call
<1>7. srv.at # "recv" /\ srv'.at # "recv" /\ srv'.at \in Waited
  BY <1>5 DEF Waited
<1>8. Call \in Calls /\ Call \in Waits \cup {"copy"}
  BY <1>7 DEF IInv, Serving
<1>9. Serving'
  BY <1>5, <1>6, <1>7, <1>8 DEF Serving
<1>10. Armed(c) /\ Armed(c)'
  BY <1>1, <1>5, <1>7, ChanOfCall DEF Armed
<1>11. Transfers(c) /\ OnTime(c)
  BY <1>1 DEF IInv
<1> HIDE DEF h
<1>12. Transfers(c)'
  BY <1>2, <1>3, <1>10, <1>11 DEF Transfers
<1>13. OnTime(c)'
  <2>1. Serves(c)'
    BY <1>1, <1>6, <1>7 DEF Serves
  <2> QED  BY <1>1, <1>2, <1>3, <1>5, <1>10, <2>1 DEF OnTime
<1> QED
  BY <1>1, <1>2, <1>3, <1>5, <1>7, <1>9, <1>12, <1>13, Within

(* Off its wait a channel without a time-out is neither notified nor       *)
(* enabled.                                                                *)
LEMMA Calm ==
    ASSUME GdmaConstants, IInv, srv.at # "recv",
           srv.at \notin {"waiting", "close"}, Chan \notin hist
    PROVE  ~hw[Chan].line.bit /\ hw[Chan].line.ena = {}
<1>1. Chan \in Chans
  BY Parts DEF IInv
<1> QED  BY <1>1 DEF IInv, OnTime

LEMMA WaitOpenStep == ASSUME GdmaConstants, IInv, WaitOpen PROVE IInv'
<1> DEFINE k == Acked(hw[Chan].line)
           l == Enabled(k, Both)
<1>1. /\ srv.at = "wait" /\ UNCHANGED <<usr, hist>>
      /\ srv' = [srv EXCEPT !.at = "waiting"]
      /\ hw' = [hw EXCEPT ![Chan].line = l]
  BY DEF WaitOpen, Goto
<1>2. hw[Chan].line \in Lines /\ srv.at \in Waited
  BY <1>1, Parts, HwParts DEF IInv, Waited
<1>3. /\ k \in Lines /\ k.raw = hw[Chan].line.raw
      /\ (k.bit <=> hw[Chan].line.bit)
  BY <1>2, LineOps
<1> HIDE DEF k
<1>4. /\ l \in Lines /\ l.raw = hw[Chan].line.raw
      /\ (l.bit <=> hw[Chan].line.bit)
  BY <1>3, EnabledLine
<1> HIDE DEF l
<1>5. Chan \notin hist => ~hw[Chan].line.bit
  BY <1>1, Calm
<1>6. ~srv.late
  BY <1>1 DEF IInv, Serving
<1> QED  BY <1>1, <1>2, <1>4, <1>5, <1>6, LineStep

LEMMA WokenStep == ASSUME GdmaConstants, IInv, Woken PROVE IInv'
<1> DEFINE l == Taken(hw[Chan].line)
<1>1. /\ srv.at = "waiting" /\ hw[Chan].line.bit /\ UNCHANGED <<usr, hist>>
      /\ srv' = [srv EXCEPT !.at = "close"]
      /\ hw' = [hw EXCEPT ![Chan].line = l]
  BY DEF Woken, Goto
<1>2. /\ hw[Chan].line \in Lines /\ srv.at \in Waited /\ Chan \in Chans
  BY <1>1, Parts, HwParts DEF IInv, Waited
<1>3. /\ l \in Lines /\ l.raw = hw[Chan].line.raw /\ ~l.bit
      /\ (l.masked <=> hw[Chan].line.masked)
  BY <1>2, LineOps
<1> HIDE DEF l
<1>4. Chan \notin hist => hw[Chan].line.raw # {} /\ hw[Chan].line.masked
  BY <1>1, <1>2 DEF IInv, OnTime
<1>5. ~srv.late
  BY <1>1 DEF IInv, Serving
<1> QED  BY <1>1, <1>2, <1>3, <1>4, <1>5, LineStep

LEMMA WaitCloseStep == ASSUME GdmaConstants, IInv, WaitClose PROVE IInv'
<1> DEFINE l == Enabled(hw[Chan].line, {})
<1>1. /\ srv.at = "close" /\ UNCHANGED <<usr, hist>>
      /\ srv' = [srv EXCEPT !.at = "read"]
      /\ hw' = [hw EXCEPT ![Chan].line = l]
  BY DEF WaitClose, Goto
<1>2. /\ hw[Chan].line \in Lines /\ srv.at \in Waited /\ Chan \in Chans
  BY <1>1, Parts, HwParts DEF IInv, Waited
<1>3. /\ l \in Lines /\ l.raw = hw[Chan].line.raw /\ l.ena = {}
      /\ (l.bit <=> hw[Chan].line.bit)
  BY <1>2, EnabledLine
<1> HIDE DEF l
<1>4. Chan \notin hist => hw[Chan].line.raw # {} /\ ~hw[Chan].line.bit
  <2>1. Serves(Chan)
    BY <1>1 DEF Serves
  <2> QED  BY <1>1, <1>2, <2>1 DEF IInv, OnTime
<1>5. ~srv.late
  BY DEF WaitClose
<1> QED  BY <1>1, <1>2, <1>3, <1>4, <1>5, LineStep

-----------------------------------------------------------------------------
(* Arming, and the end of a wait.                                          *)
LEMMA ArmResetStep == ASSUME GdmaConstants, IInv, ArmReset PROVE IInv'
<1>0. Chan \in Chans
  BY Parts DEF IInv
<1>c. PICK c \in Chans : c = Chan
  BY <1>0
<1> DEFINE h == [hw[c] EXCEPT !.run = 0]
<1>1. /\ srv.at = "reset" /\ UNCHANGED <<usr, hist>>
      /\ srv' = [srv EXCEPT !.at = "start"]
      /\ hw' = [hw EXCEPT ![c] = h]
  BY <1>c DEF ArmReset, Goto, None
<1>2. /\ hw \in [Chans -> ChanType] /\ c = Chan /\ hist \subseteq Chans
      /\ hw[c] \in ChanType /\ srv \in Servers /\ 0 \in Ids
  BY <1>c, Parts, HwParts DEF IInv
<1>3. h \in ChanType /\ h.line = hw[c].line /\ h.run = 0
  BY <1>2 DEF ChanType
<1> HIDE DEF h
<1>4. /\ srv' \in Servers /\ srv'.at = "start" /\ srv'.user = srv.user
      /\ (srv'.late <=> srv.late)
  BY <1>1, <1>2, GoesTyped DEF Places
<1>5. Chan' = Chan /\ Call' = Call
  BY <1>1, <1>4 DEF Chan, Call
<1>6. Serving'
  BY <1>1, <1>4, <1>5 DEF IInv, Serving, Waited
<1>7. ~Armed(c)'
  <2>1. ~Armed(c)
    BY <1>1, <1>2, ChanOfCall
  <2> QED  BY <1>1, <1>4, <2>1 DEF Armed, Waited
<1>8. c \notin hist => ~hw[c].line.bit /\ hw[c].line.ena = {}
  BY <1>1, <1>2, Calm
<1>9. hw'[c] = h
  BY <1>1, <1>2
<1>10. Transfers(c)' /\ OnTime(c)'
  BY <1>1, <1>3, <1>4, <1>7, <1>8, <1>9 DEF Transfers, OnTime
<1> QED  BY <1>1, <1>2, <1>3, <1>4, <1>6, <1>10, Within

LEMMA CopyStartStep ==
    ASSUME GdmaConstants, IInv, ArmStart, Call = "copy" PROVE IInv'
<1>0. Chan \in Chans
  BY Parts DEF IInv
<1>c. PICK c \in Chans : c = Chan
  BY <1>0
<1> DEFINE k == Cleared(hw[c].line, Both)
           h == [hw[c] EXCEPT !.line = k, !.run = Own]
<1>1. /\ srv.at = "start" /\ UNCHANGED <<usr, hist>>
      /\ srv' = [srv EXCEPT !.at = "wait"]
      /\ hw' = [hw EXCEPT ![c].line = k, ![c].run = Own,
                          ![c].buf = hw[c].buf]
  BY <1>c DEF ArmStart, Goto
<1>2. /\ hw \in [Chans -> ChanType] /\ c = Chan /\ hist \subseteq Chans
      /\ hw[c] \in ChanType /\ srv \in Servers /\ Own \in Ids
      /\ hw[c].line \in Lines
  BY <1>c, Parts, HwParts DEF IInv
<1>3. /\ k \in Lines /\ k.raw = {} /\ k.ena = hw[c].line.ena
      /\ (k.bit <=> hw[c].line.bit)
  BY <1>2, ClearedLine
<1>4. hw' = [hw EXCEPT ![c] = h]
  BY <1>1, <1>2 DEF ChanType
<1> HIDE DEF k
<1>5. h \in ChanType /\ h.line = k /\ h.run = Own
  BY <1>2, <1>3 DEF ChanType, Lines
<1> HIDE DEF h
<1>6. /\ srv' \in Servers /\ srv'.at = "wait" /\ srv'.user = srv.user
      /\ (srv'.late <=> srv.late)
  BY <1>1, <1>2, GoesTyped DEF Places
<1>7. Chan' = Chan /\ Call' = Call
  BY <1>1, <1>6 DEF Chan, Call
<1>8. Serving'
  BY <1>1, <1>6, <1>7 DEF IInv, Serving, Waited, Calls, Waits
<1>9. Armed(c)'
  <2>1. c[1] = srv.user /\ c[2] = "rx"
    BY <1>1, <1>2, ChanOfCall, Parts, UserChans DEF IInv
  <2> QED  BY <1>1, <1>6, <2>1 DEF Armed, Waited, Call
<1>10. c \notin hist => ~hw[c].line.bit /\ hw[c].line.ena = {}
  BY <1>1, <1>2, Calm
<1>11. hw'[c] = h /\ c[1] = srv.user /\ usr[c[1]].at = "copy"
  BY <1>1, <1>2, <1>4, ChanOfCall DEF Call
<1>12. Transfers(c)' /\ OnTime(c)'
  BY <1>1, <1>3, <1>5, <1>6, <1>9, <1>10, <1>11
     DEF Transfers, OnTime, Own
<1> QED  BY <1>1, <1>2, <1>4, <1>5, <1>6, <1>8, <1>12, Within

LEMMA TimesOutStep == ASSUME GdmaConstants, IInv, TimesOut PROVE IInv'
<1>0. Chan \in Chans
  BY Parts DEF IInv
<1>c. PICK c \in Chans : c = Chan
  BY <1>0
<1>1. /\ srv.at = "waiting" /\ UNCHANGED <<usr, hw>>
      /\ srv' = [srv EXCEPT !.at = "close", !.late = TRUE]
      /\ hist' = hist \cup {c}
  BY <1>c DEF TimesOut
<1>2. /\ hw \in [Chans -> ChanType] /\ c = Chan /\ hist \subseteq Chans
      /\ hw[c] \in ChanType /\ srv \in Servers
  BY <1>c, Parts, HwParts DEF IInv
<1>3. hw' = [hw EXCEPT ![c] = hw[c]]
  BY <1>1, <1>2
<1>4. /\ srv' \in Servers /\ srv'.at = "close" /\ srv'.user = srv.user
  BY <1>1, <1>2 DEF Servers, ServerType, Places
<1>5. Chan' = Chan /\ Call' = Call
  BY <1>1, <1>4 DEF Chan, Call
<1>6. Serving'
  BY <1>1, <1>2, <1>4, <1>5 DEF IInv, Serving, Waited
<1>7. Armed(c)' /\ Armed(c)
  BY <1>1, <1>2, <1>4, ChanOfCall DEF Armed, Waited
<1>8. Transfers(c)' /\ OnTime(c)'
  BY <1>1, <1>7 DEF IInv, Transfers, OnTime
<1>9. hist' \subseteq Chans /\ hist \subseteq hist'
  BY <1>1, <1>2
<1> QED  BY <1>1, <1>2, <1>3, <1>4, <1>6, <1>8, <1>9, Within

LEMMA ReadRawStep == ASSUME GdmaConstants, IInv, ReadRaw PROVE IInv'
<1>0. Chan \in Chans
  BY Parts DEF IInv
<1>c. PICK c \in Chans : c = Chan
  BY <1>0
<1>1. /\ srv.at = "read" /\ UNCHANGED <<usr, hw, hist>>
      /\ srv' = [srv EXCEPT !.at = "verdict", !.raw = hw[c].line.raw]
  BY <1>c DEF ReadRaw
<1>2. /\ hw \in [Chans -> ChanType] /\ c = Chan /\ hist \subseteq Chans
      /\ hw[c] \in ChanType /\ srv \in Servers
      /\ hw[c].line.raw \subseteq Both
  BY <1>c, Parts, HwParts DEF IInv
<1>3. hw' = [hw EXCEPT ![c] = hw[c]]
  BY <1>1, <1>2
<1>4. /\ srv' \in Servers /\ srv'.at = "verdict" /\ srv'.user = srv.user
      /\ srv'.raw = hw[c].line.raw /\ (srv'.late <=> srv.late)
  BY <1>1, <1>2 DEF Servers, ServerType, Places
<1>5. Chan' = Chan /\ Call' = Call /\ Own' = Own
  BY <1>1, <1>4 DEF Chan, Call, Own
<1>6. Armed(c)' /\ Armed(c) /\ c[1] = srv.user /\ Serves(c)
  BY <1>1, <1>2, <1>4, ChanOfCall DEF Armed, Waited, Serves
<1>7. Transfers(c) /\ OnTime(c)
  BY <1>2 DEF IInv
<1>8. Serving'
  <2>1. hw[c].line.raw # {} => hw[c].run = 0
    BY <1>6, <1>7 DEF Transfers
  <2>2. "eof" \in hw[c].line.raw => hw[c].by = Own
    BY <1>6, <1>7 DEF Transfers, Own
  <2>3. hw[c].line.raw = {} => c \in hist
    BY <1>1, <1>6, <1>7 DEF OnTime
  <2>4. ~srv.late /\ Call \in Calls /\ Call \in Waits \cup {"copy"}
    BY <1>1 DEF IInv, Serving, Waited
  <2> QED
    BY <1>1, <1>2, <1>4, <1>5, <2>1, <2>2, <2>3, <2>4 DEF Serving, Waited
<1>9. c \notin hist => ~hw[c].line.bit /\ hw[c].line.ena = {}
  BY <1>1, <1>2, Calm
<1>10. Transfers(c)' /\ OnTime(c)'
  BY <1>1, <1>4, <1>6, <1>7, <1>9 DEF Transfers, OnTime
<1> QED  BY <1>1, <1>2, <1>3, <1>4, <1>8, <1>10, Within

(* The record of the user who is answered.                                 *)
LEMMA AnswerRec ==
    ASSUME GdmaConstants, IInv, srv.at # "recv", NEW rc \in Answers,
           Answer(rc)
    PROVE  LET u == srv.user IN
           /\ usr' \in [Users -> UsersType]
           /\ usr'[u].at = After(u) /\ usr'[u].n = usr[u].n
           /\ usr'[u].rx = IF Call \in {"wait rx", "copy"} THEN rc
                           ELSE usr[u].rx
           /\ usr'[u].tx = IF Call = "wait tx" THEN rc ELSE usr[u].tx
           /\ \A v \in Users : v # u => usr'[v] = usr[v]
<1> DEFINE u == srv.user
           X == IF Call \in {"wait rx", "copy"} THEN rc ELSE usr[u].rx
           Y == IF Call = "wait tx" THEN rc ELSE usr[u].tx
           a == [usr[u] EXCEPT !.at = After(u)]
           b == [a EXCEPT !.rx = X]
           x == [b EXCEPT !.tx = Y]
<1>1. /\ usr \in [Users -> UsersType] /\ u \in Users
      /\ usr[u] \in UsersType
  BY Parts DEF IInv
<1>2. usr' = [usr EXCEPT ![u].at = After(u), ![u].rx = X, ![u].tx = Y]
  BY DEF Answer
<1>3. usr' = [usr EXCEPT ![u] = x]
  BY <1>2
<1>4. X \in Answers /\ Y \in Answers
  BY <1>1 DEF UsersType
<1>5. After(u) \in {"arm tx", "start", "wait rx", "stop"}
  BY DEF After
<1>6. After(u) \in {"idle", "start", "stop"} \cup Calls
  BY <1>5 DEF Calls, Waits
<1> HIDE DEF X, Y
<1>7. /\ a \in UsersType /\ a.at = After(u) /\ a.n = usr[u].n
  BY <1>1, <1>6 DEF UsersType
<1> HIDE DEF a
<1>8. /\ b \in UsersType /\ b.at = After(u) /\ b.n = usr[u].n
      /\ b.rx = X
  BY <1>4, <1>7 DEF UsersType
<1> HIDE DEF b
<1>9. /\ x \in UsersType /\ x.at = After(u) /\ x.n = usr[u].n
      /\ x.rx = X /\ x.tx = Y
  BY <1>4, <1>8 DEF UsersType
<1> HIDE DEF x
<1>10. /\ usr' \in [Users -> UsersType] /\ usr'[u] = x
       /\ \A v \in Users : v # u => usr'[v] = usr[v]
  BY <1>1, <1>3, <1>9
<1> QED  BY <1>9, <1>10 DEF X, Y

(* The answer to an arming leaves the channel armed, the answer to a wait  *)
(* leaves it idle unless a wait on it has timed out.                       *)
LEMMA Answered ==
    ASSUME GdmaConstants, IInv, srv.at # "recv", UNCHANGED hist,
           NEW rc \in Answers, Answer(rc),
           NEW c, c = Chan, NEW h \in ChanType, hw' = [hw EXCEPT ![c] = h],
           c \notin hist => ~h.line.bit /\ h.line.ena = {},
           Call \in Arms =>
              h.run = Own /\ h.line.raw = {} /\ h.buf = Own,
           Call \notin Arms =>
              /\ c \notin hist => h.run = 0
              /\ rc = "ok" => h.run = 0 /\ h.by = Own
    PROVE  IInv'
<1> DEFINE u == srv.user
<1>1. /\ hw \in [Chans -> ChanType] /\ c \in Chans /\ TypeOK
      /\ usr \in [Users -> UsersType] /\ u \in Users
      /\ hist \subseteq Chans /\ 0 \in Ids
  BY Parts DEF IInv
<1>2. /\ hw' \in [Chans -> ChanType] /\ hw'[c] = h
      /\ \A d \in Chans : d # c => hw'[d] = hw[d]
  BY <1>1
<1>3. /\ usr' \in [Users -> UsersType]
      /\ usr'[u].at = After(u) /\ usr'[u].n = usr[u].n
      /\ usr'[u].rx = IF Call \in {"wait rx", "copy"} THEN rc
                      ELSE usr[u].rx
      /\ usr'[u].tx = IF Call = "wait tx" THEN rc ELSE usr[u].tx
      /\ \A v \in Users : v # u => usr'[v] = usr[v]
  BY AnswerRec
<1>z. 0 \in 0 .. 0
  OBVIOUS
<1>4. /\ srv' \in Servers /\ srv'.at = "recv" /\ ~srv'.late
  BY <1>1, <1>z DEF Answer, Resting, Servers, ServerType
<1>5. TypeOK'
  BY <1>1, <1>2, <1>3, <1>4 DEF TypeOK, Servers
<1>6. Serving'
  BY <1>4 DEF Serving, Waited
<1>7. /\ c[1] = u
      /\ Call \in {"arm tx", "wait tx"} => c = Tx(u)
      /\ Call \notin {"arm tx", "wait tx"} => c = Rx(u)
      /\ Call \in {"arm rx", "arm tx", "copy", "wait rx", "wait tx"}
      /\ Call = usr[u].at
  BY ChanOfCall DEF Call
<1>8. /\ Call = "arm rx" => usr'[u].at = IF Role[u] = "spi" THEN "arm tx"
                                         ELSE "start"
      /\ Call = "arm tx" => usr'[u].at = "start" /\ Role[u] = "spi"
      /\ Call = "wait tx" => usr'[u].at = "wait rx" /\ Role[u] = "spi"
      /\ Call \in {"wait rx", "copy"} => usr'[u].at = "stop"
  BY <1>1, <1>3, <1>7 DEF After, IInv, Holding
<1>9. /\ Rx(u) \in Chans /\ Tx(u) \in Chans /\ Rx(u)[1] = u
      /\ Tx(u)[1] = u /\ Rx(u)[2] = "rx" /\ Tx(u)[2] = "tx"
  BY <1>1, UserChans
<1>10. Armed(c)' <=> Call \in Arms
  <2>1. CASE c = Rx(u)
    BY <1>4, <1>7, <1>8, <1>9, <2>1 DEF Armed, Waited, Arms
  <2>2. CASE c = Tx(u)
    BY <1>4, <1>7, <1>8, <1>9, <2>2 DEF Armed, Waited, Arms
  <2> QED  BY <1>7, <2>1, <2>2
<1>11. ASSUME NEW d \in Chans PROVE Transfers(d)' /\ OnTime(d)'
  <2>0. srv'.at \notin {"waiting", "close", "read"} /\ ~Serves(d)'
    BY <1>4 DEF Serves
  <2>1. CASE d = c
    <3>1. Transfers(c)'
      BY <1>2, <1>3, <1>7, <1>10 DEF Transfers, Own
    <3>2. OnTime(c)'
      BY <1>2, <1>4, <1>10, <2>0, <2>1 DEF OnTime
    <3> QED  BY <2>1, <3>1, <3>2
  <2>2. CASE d # c /\ d[1] # u
    <3>1. usr'[d[1]] = usr[d[1]] /\ hw'[d] = hw[d] /\ ~Serves(d)
      BY <1>2, <1>3, <1>7, <2>2, ChanParts DEF Serves
    <3>2. Armed(d)' <=> Armed(d)
      BY <1>4, <2>2, <3>1 DEF Armed, Waited
    <3> QED
      BY <1>11, <2>0, <3>1, <3>2 DEF IInv, Transfers, OnTime
  <2>3. CASE d # c /\ d[1] = u
    <3>1. hw'[d] = hw[d] /\ ~Serves(d) /\ usr'[d[1]].n = usr[d[1]].n
      BY <1>2, <1>3, <2>3 DEF Serves
    <3>2. d = Rx(u) \/ d = Tx(u)
      BY <2>3, ChanParts
    <3>3. Armed(d)' <=> Armed(d)
      BY <1>4, <1>7, <1>8, <1>9, <2>3, <3>2 DEF Armed, Waited
    <3>4. usr[u].at = "copy" => ~Armed(d)
      BY <1>7, <1>9, <2>3, <3>2 DEF Armed
    <3> QED
      BY <1>11, <2>0, <2>3, <3>1, <3>3, <3>4
         DEF IInv, Transfers, OnTime, Call
  <2> QED  BY <2>1, <2>2, <2>3
<1>12. ASSUME NEW v \in Users PROVE Holding(v)'
  <2>0. Holding(v) /\ Rx(v) \in Chans /\ Tx(v) \in Chans
    BY UserChans DEF IInv
  <2>1. /\ usr[v].rx = "ok" => hw'[Rx(v)] = hw[Rx(v)]
        /\ usr[v].tx = "ok" => hw'[Tx(v)] = hw[Tx(v)]
    BY <1>2, <2>0, Elsewhere
  <2>2. CASE v # u
    BY <1>3, <2>0, <2>1, <2>2 DEF Holding
  <2>3. CASE v = u
    <3>1. usr'[u].at \in {"arm tx", "wait tx"} => Role[u] = "spi"
      BY <1>7, <1>8
    <3>2. usr'[u].rx = "ok" =>
             /\ usr'[u].at \in {"stop", "idle"}
             /\ hw'[Rx(u)].by = usr'[u].n /\ hw'[Rx(u)].run = 0
      <4>1. CASE Call \in {"wait rx", "copy"}
        BY <1>2, <1>3, <1>7, <1>8, <4>1 DEF Own, Arms
      <4>2. CASE Call \notin {"wait rx", "copy"}
        BY <1>3, <1>7, <2>0, <2>3, <4>2 DEF Holding
      <4> QED  BY <4>1, <4>2
    <3>3. usr'[u].tx = "ok" =>
             /\ usr'[u].at \in {"wait rx", "stop", "idle"}
             /\ hw'[Tx(u)].by = usr'[u].n /\ hw'[Tx(u)].run = 0
      <4>1. CASE Call = "wait tx"
        BY <1>2, <1>3, <1>7, <1>8, <4>1 DEF Own, Arms
      <4>2. CASE Call # "wait tx"
        BY <1>3, <1>7, <1>8, <2>0, <2>1, <2>3, <4>2 DEF Holding
      <4> QED  BY <4>1, <4>2
    <3> QED  BY <2>3, <3>1, <3>2, <3>3 DEF Holding
  <2> QED  BY <2>2, <2>3
<1> QED  BY <1>5, <1>6, <1>11, <1>12 DEF IInv

LEMMA ArmStartStep ==
    ASSUME GdmaConstants, IInv, ArmStart, Call # "copy" PROVE IInv'
<1>0. Chan \in Chans
  BY Parts DEF IInv
<1>c. PICK c \in Chans : c = Chan
  BY <1>0
<1> DEFINE k == Cleared(hw[c].line, Both)
           h == [hw[c] EXCEPT !.line = k, !.run = Own, !.buf = Own]
<1>1. /\ srv.at = "start" /\ UNCHANGED hist /\ Answer("ok")
      /\ hw' = [hw EXCEPT ![c].line = k, ![c].run = Own, ![c].buf = Own]
  BY <1>c DEF ArmStart
<1>2. /\ hw \in [Chans -> ChanType] /\ c = Chan
      /\ hw[c] \in ChanType /\ Own \in Ids /\ hw[c].line \in Lines
  BY <1>c, Parts, HwParts DEF IInv
<1>3. /\ k \in Lines /\ k.raw = {} /\ k.ena = hw[c].line.ena
      /\ (k.bit <=> hw[c].line.bit)
  BY <1>2, ClearedLine
<1>4. hw' = [hw EXCEPT ![c] = h]
  BY <1>1, <1>2
<1> HIDE DEF k
<1>5. h \in ChanType /\ h.line = k /\ h.run = Own /\ h.buf = Own
  BY <1>2, <1>3 DEF ChanType, Lines
<1> HIDE DEF h
<1>6. c \notin hist => ~hw[c].line.bit /\ hw[c].line.ena = {}
  BY <1>1, <1>2, Calm
<1>7. Call \in Arms
  BY <1>1, ChanOfCall DEF IInv, Serving, Waits, Arms
<1>8. "ok" \in Answers
  BY DEF Answers
<1>9. /\ srv.at # "recv" /\ UNCHANGED hist /\ Answer("ok")
      /\ (c \notin hist => ~h.line.bit /\ h.line.ena = {})
      /\ Call \in Arms =>
            h.run = Own /\ h.line.raw = {} /\ h.buf = Own
      /\ Call \notin Arms =>
            /\ c \notin hist => h.run = 0
            /\ h.run = 0 /\ h.by = Own
  BY <1>1, <1>3, <1>5, <1>6, <1>7
<1> QED  BY <1>2, <1>4, <1>5, <1>8, <1>9, Answered

LEMMA GiveUpStep == ASSUME GdmaConstants, IInv, GiveUp PROVE IInv'
<1>0. Chan \in Chans
  BY Parts DEF IInv
<1>c. PICK c \in Chans : c = Chan
  BY <1>0
<1> DEFINE rc == "etimeout"
           j == Enabled(hw[c].line, {})
           k == Cleared(j, Both)
           h == [hw[c] EXCEPT !.line = k, !.buf = 0]
<1>1. /\ srv.at = "close" /\ srv.late /\ UNCHANGED hist
      /\ Answer(rc)
      /\ hw' = [hw EXCEPT ![c].line = k, ![c].buf = 0]
  BY <1>c DEF GiveUp, None
<1>2. /\ hw \in [Chans -> ChanType] /\ c = Chan
      /\ hw[c] \in ChanType /\ 0 \in Ids /\ hw[c].line \in Lines
  BY <1>c, Parts, HwParts DEF IInv
<1>3. {} \in SUBSET Both /\ j \in Lines
  BY <1>2, EnabledLine
<1> HIDE DEF j
<1>4. k \in Lines
  BY <1>3, ClearedLine
<1>5. hw' = [hw EXCEPT ![c] = h]
  BY <1>1, <1>2
<1> HIDE DEF k
<1>6. h \in ChanType
  BY <1>2, <1>4 DEF ChanType, Lines
<1> HIDE DEF h
<1>7. Call \notin Arms /\ c \in hist
  BY <1>1, <1>2 DEF IInv, Serving, Waits, Waited, Arms
<1>8. rc \in Answers /\ rc # "ok"
  BY DEF Answers
<1> HIDE DEF rc
<1>9. /\ srv.at # "recv" /\ UNCHANGED hist /\ Answer(rc)
      /\ (c \notin hist => ~h.line.bit /\ h.line.ena = {})
      /\ Call \in Arms =>
            h.run = Own /\ h.line.raw = {} /\ h.buf = Own
      /\ Call \notin Arms =>
            /\ c \notin hist => h.run = 0
            /\ rc = "ok" => h.run = 0 /\ h.by = Own
  BY <1>1, <1>7, <1>8
<1> QED  BY <1>2, <1>5, <1>6, <1>8, <1>9, Answered

LEMMA VerdictStep == ASSUME GdmaConstants, IInv, Verdict PROVE IInv'
<1>0. Chan \in Chans
  BY Parts DEF IInv
<1>c. PICK c \in Chans : c = Chan
  BY <1>0
<1> DEFINE k  == Cleared(hw[c].line, Both)
           h  == [hw[c] EXCEPT !.line = k, !.buf = 0]
           rc == IF "err" \in srv.raw THEN "einval"
                 ELSE IF "eof" \in srv.raw THEN "ok" ELSE "etimeout"
<1>1. /\ srv.at = "verdict" /\ UNCHANGED hist /\ Answer(rc)
      /\ hw' = [hw EXCEPT ![c].line = k, ![c].buf = 0]
  BY <1>c DEF Verdict, Forget, None
<1>2. /\ hw \in [Chans -> ChanType] /\ c = Chan
      /\ hw[c] \in ChanType /\ 0 \in Ids /\ hw[c].line \in Lines
  BY <1>c, Parts, HwParts DEF IInv
<1>3. /\ k \in Lines /\ k.ena = hw[c].line.ena
      /\ (k.bit <=> hw[c].line.bit)
  BY <1>2, ClearedLine
<1>4. hw' = [hw EXCEPT ![c] = h]
  BY <1>1, <1>2
<1> HIDE DEF k
<1>5. /\ h \in ChanType /\ h.line = k /\ h.run = hw[c].run
      /\ h.by = hw[c].by
  BY <1>2, <1>3 DEF ChanType, Lines
<1> HIDE DEF h
<1>6. c \notin hist => ~hw[c].line.bit /\ hw[c].line.ena = {}
  BY <1>1, <1>2, Calm
<1>7. /\ Call \notin Arms
      /\ srv.raw # {} => hw[c].run = 0
      /\ "eof" \in srv.raw => hw[c].by = Own
      /\ srv.raw = {} => c \in hist
  BY <1>1, <1>2 DEF IInv, Serving, Waits, Waited, Arms
<1>8. /\ c \notin hist => h.run = 0
      /\ rc = "ok" => h.run = 0 /\ h.by = Own
  BY <1>5, <1>7
<1>9. rc \in Answers
  BY DEF Answers
<1> HIDE DEF rc
<1>10. /\ srv.at # "recv" /\ UNCHANGED hist /\ Answer(rc)
       /\ (c \notin hist => ~h.line.bit /\ h.line.ena = {})
       /\ Call \in Arms =>
             h.run = Own /\ h.line.raw = {} /\ h.buf = Own
       /\ Call \notin Arms =>
             /\ c \notin hist => h.run = 0
             /\ rc = "ok" => h.run = 0 /\ h.by = Own
  BY <1>1, <1>3, <1>5, <1>6, <1>7, <1>8
<1> QED  BY <1>2, <1>4, <1>5, <1>9, <1>10, Answered

-----------------------------------------------------------------------------
(* The users.                                                              *)
LEMMA FeedKeeps ==
    ASSUME NEW u \in Users, NEW on \in BOOLEAN, Feed(u, on),
           hw \in [Chans -> ChanType]
    PROVE  /\ hw' \in [Chans -> ChanType]
           /\ \A c \in Chans :
                 /\ hw'[c].line = hw[c].line /\ hw'[c].run = hw[c].run
                 /\ hw'[c].by = hw[c].by /\ hw'[c].buf = hw[c].buf
<1>1. ASSUME NEW c \in Chans
      PROVE  /\ hw'[c] \in ChanType
             /\ hw'[c].line = hw[c].line /\ hw'[c].run = hw[c].run
             /\ hw'[c].by = hw[c].by /\ hw'[c].buf = hw[c].buf
  <2> DEFINE h == [hw[c] EXCEPT !.fed = on]
  <2>1. hw[c] \in ChanType
    OBVIOUS
  <2>2. /\ h \in ChanType /\ h.line = hw[c].line /\ h.run = hw[c].run
        /\ h.by = hw[c].by /\ h.buf = hw[c].buf
    BY <2>1 DEF ChanType
  <2>3. hw'[c] = h \/ hw'[c] = hw[c]
    BY DEF Feed
  <2> QED  BY <2>1, <2>2, <2>3
<1>2. hw' = [c \in Chans |-> hw'[c]]
  BY DEF Feed
<1> QED  BY <1>1, <1>2

LEMMA UserStep ==
    ASSUME GdmaConstants, IInv, UNCHANGED <<srv, hist>>,
           NEW u \in Users, usr[u].at \notin Calls,
           NEW on \in BOOLEAN, Feed(u, on),
           NEW x \in UsersType, usr' = [usr EXCEPT ![u] = x],
           \A c \in Chans : c[1] = u =>
              /\ Armed(c)' <=> Armed(c)
              /\ Armed(c) => x.n = usr[u].n,
           x.at \in {"arm tx", "wait tx"} => Role[u] = "spi",
           x.rx = "ok" => x.at = "idle",
           x.tx = "ok" => x.at = "idle",
           "ok" \in {x.rx, x.tx} =>
              x.rx = usr[u].rx /\ x.tx = usr[u].tx /\ x.n = usr[u].n
    PROVE  IInv'
<1>1. /\ hw \in [Chans -> ChanType] /\ TypeOK /\ srv.user \in Users
      /\ usr \in [Users -> UsersType] /\ srv \in Servers
  BY Parts DEF IInv
<1>2. /\ usr' \in [Users -> UsersType] /\ usr'[u] = x
      /\ \A v \in Users : v # u => usr'[v] = usr[v]
  BY <1>1
<1>3. /\ hw' \in [Chans -> ChanType]
      /\ \A c \in Chans :
            /\ hw'[c].line = hw[c].line /\ hw'[c].run = hw[c].run
            /\ hw'[c].by = hw[c].by /\ hw'[c].buf = hw[c].buf
  BY <1>1, FeedKeeps
<1>4. TypeOK'
  BY <1>1, <1>2, <1>3 DEF TypeOK
<1>5. srv.at # "recv" => srv.user # u
  BY DEF IInv, Serving, Call
<1>6. srv.at # "recv" =>
         Call' = Call /\ Own' = Own /\ Chan' = Chan /\ Chan \in Chans
  <2>1. srv.at # "recv" => usr'[srv.user] = usr[srv.user] /\ srv' = srv
    BY <1>1, <1>2, <1>5
  <2> QED  BY <2>1, Parts DEF IInv, Call, Own, Chan
<1>7. Serving'
  <2>1. srv.at = "verdict" =>
           hw'[Chan].run = hw[Chan].run /\ hw'[Chan].by = hw[Chan].by
    BY <1>3, <1>6
  <2>2. srv' = srv /\ hist' = hist
    OBVIOUS
  <2>3. srv.at = "recv" \/ srv.at # "recv"
    OBVIOUS
  <2>4. CASE srv.at = "recv"
    <3>1. ~srv.late
      BY <2>4 DEF IInv, Serving
    <3> QED  BY <2>2, <2>4, <3>1 DEF Serving, Waited
  <2>5. CASE srv.at # "recv"
    BY <1>6, <2>1, <2>2, <2>5 DEF IInv, Serving
  <2> QED  BY <2>4, <2>5
<1>8. ASSUME NEW c \in Chans PROVE Transfers(c)' /\ OnTime(c)'
  <2>1. Transfers(c) /\ OnTime(c) /\ srv' = srv /\ hist' = hist
    BY DEF IInv
  <2>2. /\ hw'[c].line = hw[c].line /\ hw'[c].run = hw[c].run
        /\ hw'[c].by = hw[c].by /\ hw'[c].buf = hw[c].buf
    BY <1>3
  <2>3. Serves(c)' <=> Serves(c)
    BY <1>6, <2>1 DEF Serves
  <2>4. Armed(c)' <=> Armed(c)
    <3>1. CASE c[1] = u
      BY <3>1
    <3>2. CASE c[1] # u
      <4>1. usr'[c[1]] = usr[c[1]]
        BY <1>2, <3>2, ChanParts
      <4> QED  BY <2>1, <4>1 DEF Armed
    <3> QED  BY <3>1, <3>2
  <2>5. Armed(c) => /\ usr'[c[1]].n = usr[c[1]].n
                    /\ usr'[c[1]].at # "copy" => usr[c[1]].at # "copy"
    <3>1. CASE c[1] = u
      BY <1>2, <3>1 DEF Calls
    <3>2. CASE c[1] # u
      BY <1>2, <3>2, ChanParts
    <3> QED  BY <3>1, <3>2
  <2> QED  BY <2>1, <2>2, <2>3, <2>4, <2>5 DEF Transfers, OnTime
<1>9. ASSUME NEW v \in Users PROVE Holding(v)'
  <2>1. /\ hw'[Rx(v)].run = hw[Rx(v)].run /\ hw'[Rx(v)].by = hw[Rx(v)].by
        /\ hw'[Tx(v)].run = hw[Tx(v)].run /\ hw'[Tx(v)].by = hw[Tx(v)].by
    BY <1>3, UserChans
  <2>2. Holding(v)
    BY DEF IInv
  <2>3. CASE v = u
    BY <1>2, <2>1, <2>2, <2>3 DEF Holding
  <2>4. CASE v # u
    BY <1>2, <2>1, <2>2, <2>4 DEF Holding
  <2> QED  BY <2>3, <2>4
<1> QED  BY <1>4, <1>7, <1>8, <1>9 DEF IInv

LEMMA BeginStep ==
    ASSUME GdmaConstants, IInv, NEW u \in Users, Begin(u) PROVE IInv'
<1>1. PICK n \in 1 .. MaxRuns :
         usr' = [usr EXCEPT ![u] =
                    [at |-> IF Role[u] = "mem" THEN "copy" ELSE "arm rx",
                     n |-> n, rx |-> "", tx |-> ""]]
  BY DEF Begin
<1> DEFINE x == [at |-> IF Role[u] = "mem" THEN "copy" ELSE "arm rx",
                 n |-> n, rx |-> "", tx |-> ""]
<1>2. /\ usr[u].at = "idle" /\ Feed(u, FALSE) /\ UNCHANGED <<srv, hist>>
      /\ usr' = [usr EXCEPT ![u] = x]
  BY <1>1 DEF Begin
<1>3. n \in Ids
  BY DEF GdmaConstants, Ids
<1>4. /\ x \in UsersType /\ x.at \in {"copy", "arm rx"} /\ x.rx = ""
      /\ x.tx = ""
  BY <1>3 DEF UsersType, Calls, Answers
<1> HIDE DEF x
<1>5. usr'[u].at = x.at
  BY <1>2, Parts DEF IInv
<1>6. ASSUME NEW c \in Chans, c[1] = u PROVE ~Armed(c) /\ ~Armed(c)'
  <2>1. ~Armed(c)
    BY <1>2, <1>6 DEF Armed
  <2>2. srv.user = u => srv.at = "recv"
    BY <1>2 DEF IInv, Serving, Call, Calls, Waits
  <2>3. ~Armed(c)'
    BY <1>2, <1>4, <1>5, <1>6, <2>2 DEF Armed, Waited
  <2> QED  BY <2>1, <2>3
<1>7. usr[u].at \notin Calls
  BY <1>2 DEF Calls, Waits
<1> QED  BY <1>2, <1>4, <1>6, <1>7, UserStep

LEMMA StartStep ==
    ASSUME GdmaConstants, IInv, NEW u \in Users, Start(u) PROVE IInv'
<1> DEFINE at == IF Role[u] = "spi" THEN "wait tx" ELSE "wait rx"
           x  == [usr[u] EXCEPT !.at = at]
<1>1. /\ usr[u].at = "start" /\ Feed(u, TRUE) /\ UNCHANGED <<srv, hist>>
      /\ usr' = [usr EXCEPT ![u] = x]
  BY DEF Start
<1>2. usr \in [Users -> UsersType]
  BY Parts DEF IInv
<1>3. /\ at \in {"wait tx", "wait rx"}
      /\ at = "wait tx" <=> Role[u] = "spi"
  OBVIOUS
<1> HIDE DEF at
<1>4. at \in {"idle", "start", "stop"} \cup Calls
  BY <1>3 DEF Calls, Waits
<1>5. /\ x \in UsersType /\ x.at = at /\ x.rx = usr[u].rx
      /\ x.tx = usr[u].tx /\ x.n = usr[u].n
  BY <1>2, <1>4 DEF UsersType
<1> HIDE DEF x
<1>6. usr'[u].at = at
  BY <1>1, <1>2, <1>5
<1>7. ASSUME NEW c \in Chans, c[1] = u PROVE Armed(c)' <=> Armed(c)
  BY <1>1, <1>3, <1>6, <1>7, ChanParts DEF Armed
<1>8. usr[u].rx # "ok" /\ usr[u].tx # "ok"
  BY <1>1 DEF IInv, Holding
<1>9. usr[u].at \notin Calls
  BY <1>1 DEF Calls, Waits
<1> QED  BY <1>1, <1>3, <1>5, <1>7, <1>8, <1>9, UserStep

LEMMA StopStep ==
    ASSUME GdmaConstants, IInv, NEW u \in Users, Stop(u) PROVE IInv'
<1> DEFINE x == [usr[u] EXCEPT !.at = "idle"]
<1>1. /\ usr[u].at = "stop" /\ Feed(u, FALSE) /\ UNCHANGED <<srv, hist>>
      /\ usr' = [usr EXCEPT ![u] = x]
  BY DEF Stop
<1>2. usr \in [Users -> UsersType]
  BY Parts DEF IInv
<1>3. /\ x \in UsersType /\ x.at = "idle" /\ x.rx = usr[u].rx
      /\ x.tx = usr[u].tx /\ x.n = usr[u].n
  BY <1>2 DEF UsersType
<1> HIDE DEF x
<1>4. usr'[u].at = "idle"
  BY <1>1, <1>2, <1>3
<1>5. ASSUME NEW c \in Chans, c[1] = u PROVE Armed(c)' <=> Armed(c)
  BY <1>1, <1>4, <1>5 DEF Armed
<1>6. usr[u].at \notin Calls
  BY <1>1 DEF Calls, Waits
<1> QED  BY <1>1, <1>3, <1>5, <1>6, UserStep

LEMMA ReceiveStep ==
    ASSUME GdmaConstants, IInv, NEW u \in Users, Receive(u) PROVE IInv'
<1>1. PICK next \in {"wait", "reset"} :
         /\ srv.at = "recv" /\ UNCHANGED <<usr, hw, hist>>
         /\ srv' = [Resting(u) EXCEPT !.at = next]
         /\ next = "wait" => usr[u].at \in Waits
         /\ next = "reset" => usr[u].at \in Calls /\ usr[u].at \notin Waits
  BY DEF Receive, Recv
<1>2. 0 \in 0 .. 0 /\ next \in Places
  BY DEF Places
<1>3. /\ srv' \in Servers /\ srv'.at = next /\ srv'.user = u
      /\ ~srv'.late
  BY <1>1, <1>2 DEF Servers, ServerType, Resting
<1>4. TypeOK'
  BY <1>1, <1>3 DEF IInv, TypeOK, Servers
<1>5. Call' = usr[u].at
  BY <1>1, <1>3 DEF Call
<1>6. Serving'
  BY <1>1, <1>3, <1>5 DEF Serving, Waited, Calls
<1>7. ASSUME NEW c \in Chans PROVE Transfers(c)' /\ OnTime(c)'
  <2>1. Armed(c)' <=> Armed(c)
    BY <1>1, <1>3 DEF Armed, Waited, Waits
  <2>2. ~Serves(c) /\ srv'.at \notin {"waiting", "close", "read"}
    BY <1>1, <1>3 DEF Serves
  <2> QED  BY <1>1, <2>1, <2>2 DEF IInv, Transfers, OnTime
<1>8. ASSUME NEW v \in Users PROVE Holding(v)'
  BY <1>1 DEF IInv, Holding
<1> QED  BY <1>4, <1>6, <1>7, <1>8 DEF IInv

-----------------------------------------------------------------------------
(* The controller.                                                         *)
LEMMA CompleteStep ==
    ASSUME GdmaConstants, IInv, NEW c \in Chans, Complete(c) PROVE IInv'
<1> DEFINE l == Latched(hw[c].line, "eof")
           h == [hw[c] EXCEPT !.run = 0, !.by = hw[c].run, !.line = l]
<1>1. /\ hw[c].run # 0 /\ UNCHANGED <<usr, srv, hist>>
      /\ hw' = [hw EXCEPT ![c].run = 0, ![c].by = hw[c].run,
                          ![c].line = l]
  BY DEF Complete, None
<1>2. /\ hw \in [Chans -> ChanType] /\ hw[c] \in ChanType
      /\ hw[c].line \in Lines /\ 0 \in Ids /\ hw[c].run \in Ids
  BY Parts, HwParts DEF IInv
<1>3. "eof" \in Both
  BY DEF Both
<1>4. /\ l \in Lines /\ l.raw # {} /\ l.ena = hw[c].line.ena
      /\ (l.bit <=> hw[c].line.bit) /\ (l.masked <=> hw[c].line.masked)
  BY <1>2, <1>3, LatchedLine
<1>5. hw' = [hw EXCEPT ![c] = h]
  BY <1>1, <1>2
<1> HIDE DEF l
<1>6. /\ h \in ChanType /\ h.line = l /\ h.run = 0 /\ h.by = hw[c].run
      /\ h.buf = hw[c].buf
  BY <1>2, <1>4 DEF ChanType, Lines
<1> HIDE DEF h
<1>7. hw'[c] = h /\ (Armed(c)' <=> Armed(c)) /\ (Serves(c)' <=> Serves(c))
  BY <1>1, <1>2, <1>5 DEF Armed, Serves, Chan, Call
<1>8. Transfers(c)' /\ OnTime(c)'
  BY <1>1, <1>4, <1>6, <1>7 DEF IInv, Transfers, OnTime
<1> QED  BY <1>1, <1>5, <1>6, <1>8, Outside

LEMMA ErrorStep ==
    ASSUME GdmaConstants, IInv, NEW c \in Chans, DescriptorError(c)
    PROVE  IInv'
<1> DEFINE l == Latched(hw[c].line, "err")
           h == [hw[c] EXCEPT !.run = 0, !.line = l]
<1>1. /\ hw[c].run # 0 /\ UNCHANGED <<usr, srv, hist>>
      /\ hw' = [hw EXCEPT ![c].run = 0, ![c].line = l]
  BY DEF DescriptorError, None
<1>2. /\ hw \in [Chans -> ChanType] /\ hw[c] \in ChanType
      /\ hw[c].line \in Lines /\ 0 \in Ids
  BY Parts, HwParts DEF IInv
<1>3. "err" \in Both
  BY DEF Both
<1>4. /\ l \in Lines /\ l.raw = hw[c].line.raw \cup {"err"}
      /\ l.ena = hw[c].line.ena
      /\ (l.bit <=> hw[c].line.bit) /\ (l.masked <=> hw[c].line.masked)
  BY <1>2, <1>3, LatchedLine
<1>5. hw' = [hw EXCEPT ![c] = h]
  BY <1>1, <1>2
<1> HIDE DEF l
<1>6. /\ h \in ChanType /\ h.line = l /\ h.run = 0 /\ h.by = hw[c].by
      /\ h.buf = hw[c].buf
  BY <1>2, <1>4 DEF ChanType, Lines
<1> HIDE DEF h
<1>7. hw'[c] = h /\ (Armed(c)' <=> Armed(c)) /\ (Serves(c)' <=> Serves(c))
  BY <1>1, <1>2, <1>5 DEF Armed, Serves, Chan, Call
<1>8. l.raw # {} /\ ("eof" \in l.raw => "eof" \in hw[c].line.raw)
  BY <1>4
<1>9. Transfers(c)' /\ OnTime(c)'
  BY <1>1, <1>4, <1>6, <1>7, <1>8 DEF IInv, Transfers, OnTime
<1> QED  BY <1>1, <1>5, <1>6, <1>9, Outside

LEMMA InterruptStep ==
    ASSUME GdmaConstants, IInv, NEW c \in Chans, Interrupt(c) PROVE IInv'
<1> DEFINE l == Delivered(hw[c].line)
           h == [hw[c] EXCEPT !.line = l]
<1>1. /\ UNCHANGED <<usr, srv, hist>> /\ hw' = [hw EXCEPT ![c].line = l]
      /\ hw[c].line.raw # {} /\ hw[c].line.ena # {} /\ ~hw[c].line.masked
  BY DEF Interrupt, Due
<1>2. /\ hw \in [Chans -> ChanType] /\ hw[c] \in ChanType
      /\ hw[c].line \in Lines
  BY Parts, HwParts DEF IInv
<1>3. /\ l \in Lines /\ l.raw = hw[c].line.raw
      /\ l.ena = hw[c].line.ena /\ l.masked
  BY <1>2, LineOps
<1>4. hw' = [hw EXCEPT ![c] = h]
  BY <1>1, <1>2
<1> HIDE DEF l
<1>5. /\ h \in ChanType /\ h.line = l /\ h.run = hw[c].run
      /\ h.by = hw[c].by /\ h.buf = hw[c].buf
  BY <1>2, <1>3 DEF ChanType, Lines
<1> HIDE DEF h
<1>6. hw'[c] = h /\ (Armed(c)' <=> Armed(c)) /\ (Serves(c)' <=> Serves(c))
  BY <1>1, <1>2, <1>4 DEF Armed, Serves, Chan, Call
<1>7. Transfers(c)' /\ OnTime(c)'
  BY <1>1, <1>3, <1>5, <1>6 DEF IInv, Transfers, OnTime
<1> QED  BY <1>1, <1>4, <1>5, <1>7, Outside

-----------------------------------------------------------------------------
LEMMA NextIInv == ASSUME GdmaConstants, IInv, Next PROVE IInv'
<1>1. ASSUME NEW u \in Users, Start(u) \/ Stop(u) \/ Receive(u) \/ Begin(u)
      PROVE  IInv'
  BY <1>1, StartStep, StopStep, ReceiveStep, BeginStep
<1>2. ASSUME ArmStart PROVE IInv'
  BY <1>2, CopyStartStep, ArmStartStep
<1>3. ASSUME NEW c \in Chans,
             Interrupt(c) \/ Complete(c) \/ DescriptorError(c)
      PROVE  IInv'
  BY <1>3, InterruptStep, CompleteStep, ErrorStep
<1> QED
  BY <1>1, <1>2, <1>3, ArmResetStep, WaitOpenStep, WokenStep, TimesOutStep,
     WaitCloseStep, GiveUpStep, ReadRawStep, VerdictStep
     DEF Next, Proceed

LEMMA StutterIInv == ASSUME IInv, UNCHANGED vars PROVE IInv'
<1>1. UNCHANGED <<usr, srv, hw, hist>>
  BY DEF vars
<1>2. Call' = Call /\ Own' = Own /\ Chan' = Chan
  BY <1>1 DEF Call, Own, Chan
<1>3. TypeOK'
  BY <1>1 DEF IInv, TypeOK
<1>4. Serving'
  BY <1>1, <1>2 DEF IInv, Serving
<1>5. ASSUME NEW c \in Chans PROVE Transfers(c)' /\ OnTime(c)'
  <2>1. (Armed(c)' <=> Armed(c)) /\ (Serves(c)' <=> Serves(c))
    BY <1>1, <1>2 DEF Armed, Serves
  <2> QED  BY <1>1, <2>1 DEF IInv, Transfers, OnTime
<1>6. ASSUME NEW u \in Users PROVE Holding(u)'
  BY <1>1 DEF IInv, Holding
<1> QED  BY <1>3, <1>4, <1>5, <1>6 DEF IInv

(* The invariant says all that the runs check.                             *)
LEMMA Safe ==
    ASSUME GdmaConstants, IInv PROVE TypeOK /\ OkIsTrue /\ Traced
<1>1. TypeOK
  BY DEF IInv
<1>2. ASSUME NEW u \in Users
      PROVE  /\ usr[u].rx = "ok" =>
                    hw[Rx(u)].by = usr[u].n /\ hw[Rx(u)].run = None
             /\ usr[u].tx = "ok" =>
                    hw[Tx(u)].by = usr[u].n /\ hw[Tx(u)].run = None
  BY DEF IInv, Holding, None
<1>3. srv.at = "wait" /\ Call \in Waits => hw[Chan].buf = Own
  <2>1. SUFFICES ASSUME srv.at = "wait", Call \in Waits
                 PROVE  hw[Chan].buf = Own
    OBVIOUS
  <2>2. Armed(Chan) /\ Chan \in Chans /\ Chan[1] = srv.user
    BY <2>1, ChanOfCall DEF Waited
  <2>3. Transfers(Chan)
    BY <2>2 DEF IInv
  <2>4. usr[srv.user].at # "copy"
    BY <2>1 DEF Call, Waits
  <2> QED  BY <2>2, <2>3, <2>4 DEF Transfers, Own
<1>4. ASSUME NEW c \in Chans, usr[c[1]].at = "idle", hw[c].run # None
      PROVE  c \in hist
  BY <1>4 DEF IInv, OnTime, Armed, None
<1>5. srv.at = "verdict" /\ srv.raw = {} => Chan \in hist
  BY DEF IInv, Serving
<1> QED  BY <1>1, <1>2, <1>3, <1>4, <1>5 DEF OkIsTrue, Traced

(* The variables keep their types; a wait answered OK is true, and is made *)
(* only for a channel whose buffer the server remembers; a channel that    *)
(* transfers after its user has its answers, or an event that is missing   *)
(* when the server is woken, is traced to a wait that timed out.           *)
THEOREM GdmaSafe ==
    ASSUME GdmaConstants PROVE Spec => [](TypeOK /\ OkIsTrue /\ Traced)
<1>1. Init => IInv
  BY InitIInv
<1>2. IInv /\ [Next]_vars => IInv'
  BY NextIInv, StutterIInv
<1>3. IInv => TypeOK /\ OkIsTrue /\ Traced
  BY Safe
<1> QED  BY <1>1, <1>2, <1>3, PTL DEF Spec

-----------------------------------------------------------------------------
(* Lemmas about the operators of ServerKit, for any calls, answers, places,*)
(* events and steps.                                                       *)

(* The record of one user.                                                 *)
UserRec(calls, rcs) ==
    [at : {"idle"} \cup calls, n : Uart!Ids, rc : {""} \cup rcs,
     val : Uart!Ids]

LEMMA UserTypeIs ==
    ASSUME NEW calls, NEW rcs
    PROVE  Uart!UserType(calls, rcs) = [UartUsers -> UserRec(calls, rcs)]
BY DEF Uart!UserType, UserRec

(* A request changes the record of its user only.                          *)
LEMMA AskTyped ==
    ASSUME NEW calls, NEW rcs, usr \in Uart!UserType(calls, rcs),
           NEW u \in UartUsers, NEW call \in calls, UartRuns \in Nat,
           Uart!Ask(u, call)
    PROVE  /\ usr' \in Uart!UserType(calls, rcs)
           /\ usr'[u].at = call /\ usr'[u].rc = ""
<1>1. usr \in [UartUsers -> UserRec(calls, rcs)]
  BY UserTypeIs
<1>2. PICK n \in 1 .. UartRuns :
         usr' = [usr EXCEPT ![u] = [at |-> call, n |-> n, rc |-> "",
                                    val |-> Uart!None]]
  BY DEF Uart!Ask
<1>3. [at |-> call, n |-> n, rc |-> "", val |-> Uart!None] \in
         UserRec(calls, rcs)
  BY DEF UserRec, Uart!Ids, Uart!None
<1>4. usr' \in [UartUsers -> UserRec(calls, rcs)]
  BY <1>1, <1>2, <1>3
<1> QED  BY <1>1, <1>2, <1>4, UserTypeIs

(* An answer changes the record of the user served only, and leaves the    *)
(* number of its request alone.                                            *)
LEMMA ReplyTyped ==
    ASSUME NEW calls, NEW rcs, usr \in Uart!UserType(calls, rcs),
           srv.user \in UartUsers, NEW rc \in rcs, NEW v \in Uart!Ids,
           Uart!Reply(rc, v)
    PROVE  /\ usr' \in Uart!UserType(calls, rcs)
           /\ usr'[srv.user].at = "idle" /\ usr'[srv.user].rc = rc
           /\ usr'[srv.user].val = v
           /\ usr'[srv.user].n = usr[srv.user].n
           /\ \A u \in UartUsers : u # srv.user => usr'[u] = usr[u]
<1> DEFINE x == srv.user
           R == UserRec(calls, rcs)
           usr1 == [usr EXCEPT ![x].at = "idle"]
           usr2 == [usr1 EXCEPT ![x].rc = rc]
           usr3 == [usr2 EXCEPT ![x].val = v]
<1>1. usr \in [UartUsers -> R]
  BY UserTypeIs
<1>2. /\ usr1 \in [UartUsers -> R]
      /\ usr1[x].at = "idle" /\ usr1[x].n = usr[x].n
      /\ \A u \in UartUsers : u # x => usr1[u] = usr[u]
  <2>1. [usr[x] EXCEPT !.at = "idle"] \in R
    BY <1>1 DEF UserRec
  <2>2. usr[x] \in R
    BY <1>1
  <2>3. usr1[x] = [usr[x] EXCEPT !.at = "idle"]
    BY <1>1
  <2>4. usr1[x].at = "idle" /\ usr1[x].n = usr[x].n
    BY <2>2, <2>3 DEF UserRec
  <2> QED  BY <1>1, <2>1, <2>4
<1>3. /\ usr2 \in [UartUsers -> R]
      /\ usr2[x].at = "idle" /\ usr2[x].rc = rc /\ usr2[x].n = usr[x].n
      /\ \A u \in UartUsers : u # x => usr2[u] = usr[u]
  <2> HIDE DEF usr1
  <2>1. usr1[x] \in R
    BY <1>2
  <2>2. [usr1[x] EXCEPT !.rc = rc] \in R
    BY <2>1 DEF UserRec
  <2>3. usr2[x] = [usr1[x] EXCEPT !.rc = rc]
    BY <1>2
  <2>4. usr2[x].at = "idle" /\ usr2[x].rc = rc /\ usr2[x].n = usr[x].n
    BY <1>2, <2>1, <2>3 DEF UserRec
  <2> QED  BY <1>2, <2>2, <2>4
<1>4. /\ usr3 \in [UartUsers -> R]
      /\ usr3[x].at = "idle" /\ usr3[x].rc = rc /\ usr3[x].n = usr[x].n
      /\ usr3[x].val = v
      /\ \A u \in UartUsers : u # x => usr3[u] = usr[u]
  <2> HIDE DEF usr2
  <2>1. usr2[x] \in R
    BY <1>3
  <2>2. [usr2[x] EXCEPT !.val = v] \in R
    BY <2>1 DEF UserRec
  <2>3. usr3[x] = [usr2[x] EXCEPT !.val = v]
    BY <1>3
  <2>4. /\ usr3[x].at = "idle" /\ usr3[x].rc = rc /\ usr3[x].n = usr[x].n
        /\ usr3[x].val = v
    BY <1>3, <2>1, <2>3 DEF UserRec
  <2> QED  BY <1>3, <2>2, <2>4
<1>5. usr' = usr3
  BY DEF Uart!Reply
<1> QED  BY <1>4, <1>5, UserTypeIs

-----------------------------------------------------------------------------
(* The server at rest, at the start of a request and at its next place.    *)
LEMMA RestingTyped ==
    ASSUME NEW places, NEW events, NEW steps \in Nat, NEW u \in UartUsers
    PROVE  /\ Uart!Resting(u) \in Uart!ServerType(places, events, steps)
           /\ Uart!Resting(u).at = "recv" /\ Uart!Resting(u).user = u
           /\ Uart!Resting(u).late = FALSE
BY DEF Uart!Resting, Uart!ServerType

LEMMA RecvTyped ==
    ASSUME NEW places, NEW events, NEW steps \in Nat, NEW u \in UartUsers,
           NEW calls, NEW next \in places, Uart!Recv(u, calls, next)
    PROVE  /\ srv' \in Uart!ServerType(places, events, steps)
           /\ srv'.at = next /\ srv'.user = u /\ srv'.late = FALSE
<1>1. srv' = [at |-> next, user |-> u, late |-> FALSE, raw |-> {},
              left |-> 0]
  BY DEF Uart!Recv, Uart!Resting
<1> QED  BY <1>1 DEF Uart!ServerType

LEMMA GotoTyped ==
    ASSUME NEW places, NEW events, NEW steps, NEW next \in places,
           srv \in Uart!ServerType(places, events, steps),
           srv' = [srv EXCEPT !.at = next]
    PROVE  /\ srv' \in Uart!ServerType(places, events, steps)
           /\ srv'.at = next /\ srv'.user = srv.user
           /\ srv'.late = srv.late /\ srv'.left = srv.left
BY DEF Uart!ServerType

-----------------------------------------------------------------------------
(* What each operation does to an interrupt line.                          *)
LEMMA AckedLine ==
    ASSUME NEW events, NEW l \in Uart!LineType(events)
    PROVE  /\ Uart!Acked(l) \in Uart!LineType(events)
           /\ Uart!Acked(l).raw = l.raw /\ Uart!Acked(l).ena = l.ena
           /\ ~Uart!Acked(l).masked /\ (Uart!Acked(l).bit <=> l.bit)
BY DEF Uart!Acked, Uart!LineType

LEMMA UartEnabledLine ==
    ASSUME NEW events, NEW l \in Uart!LineType(events),
           NEW on \in SUBSET events
    PROVE  /\ Uart!Enabled(l, on) \in Uart!LineType(events)
           /\ Uart!Enabled(l, on).raw = l.raw /\ Uart!Enabled(l, on).ena = on
           /\ (Uart!Enabled(l, on).masked <=> l.masked)
           /\ (Uart!Enabled(l, on).bit <=> l.bit)
BY DEF Uart!Enabled, Uart!LineType

LEMMA UartLatchedLine ==
    ASSUME NEW events, NEW l \in Uart!LineType(events), NEW event \in events
    PROVE  /\ Uart!Latched(l, event) \in Uart!LineType(events)
           /\ Uart!Latched(l, event).raw = l.raw \cup {event}
           /\ Uart!Latched(l, event).ena = l.ena
           /\ (Uart!Latched(l, event).masked <=> l.masked)
           /\ (Uart!Latched(l, event).bit <=> l.bit)
BY DEF Uart!Latched, Uart!LineType

LEMMA UartClearedLine ==
    ASSUME NEW events, NEW l \in Uart!LineType(events), NEW off
    PROVE  /\ Uart!Cleared(l, off) \in Uart!LineType(events)
           /\ Uart!Cleared(l, off).raw = l.raw \ off
           /\ Uart!Cleared(l, off).ena = l.ena
           /\ (Uart!Cleared(l, off).masked <=> l.masked)
           /\ (Uart!Cleared(l, off).bit <=> l.bit)
BY DEF Uart!Cleared, Uart!LineType

LEMMA TakenLine ==
    ASSUME NEW events, NEW l \in Uart!LineType(events)
    PROVE  /\ Uart!Taken(l) \in Uart!LineType(events)
           /\ Uart!Taken(l).raw = l.raw /\ Uart!Taken(l).ena = l.ena
           /\ (Uart!Taken(l).masked <=> l.masked) /\ ~Uart!Taken(l).bit
BY DEF Uart!Taken, Uart!LineType

LEMMA DeliveredLine ==
    ASSUME NEW events, NEW l \in Uart!LineType(events)
    PROVE  /\ Uart!Delivered(l) \in Uart!LineType(events)
           /\ Uart!Delivered(l).raw = l.raw /\ Uart!Delivered(l).ena = l.ena
           /\ Uart!Delivered(l).masked /\ Uart!Delivered(l).bit
BY DEF Uart!Delivered, Uart!LineType

-----------------------------------------------------------------------------
(* What the two boards have in common.                                     *)
UartConstants ==
    /\ UartUsers # {}
    /\ UartRuns \in Nat /\ Depth \in Nat \ {0} /\ Batch \in Nat
    /\ MaxBytes \in Nat
    /\ AcksAgain \in BOOLEAN
    /\ Receives \subseteq {"rx", "rx nb"}

UartCalls   == {"tx"} \cup Receives
UartAnswers == {"ok", "etimeout"}
Uarts   == [line : Uart!LineType(Uart!Events), used : 0 .. Depth,
            full : BOOLEAN, over : BOOLEAN,
            rest : 0 .. MaxBytes]

-----------------------------------------------------------------------------
(* The inductive invariant.                                                *)

(* The receiver raises its interrupt: for a byte, or for one it lost.      *)
Received == hw.full \/ hw.over

(* The two events show what the registers show.                            *)
Shown ==
    /\ "space" \in hw.line.raw <=> hw.used < Depth
    /\ "byte" \in hw.line.raw <=> Received

(* An interrupt is enabled for the wait it belongs to and for no other.    *)
Sleeping ==
    /\ srv.at \in {"wait tx", "disable tx"} => hw.line.ena = {"space"}
    /\ srv.at \in {"wait rx", "disable rx"} => hw.line.ena = {"byte"}
    /\ srv.at \notin {"wait tx", "disable tx", "wait rx", "disable rx"} =>
         hw.line.ena = {}

(* A notification exists in a wait only; it and the wake-up that took it   *)
(* leave the interrupt masked, with what was waited for still there.       *)
Notified ==
    /\ hw.line.bit =>
         srv.at \in {"wait tx", "wait rx"} /\ hw.line.masked
    /\ srv.at = "wait tx" /\ hw.line.bit => hw.used < Depth
    /\ srv.at = "wait rx" /\ hw.line.bit => Received
    /\ srv.at \in {"disable tx", "disable rx"} => hw.line.masked
    /\ srv.at \in {"disable tx", "write"} => hw.used < Depth
    /\ srv.at \in {"disable rx", "take"} => Received

(* A transmit call in progress has bytes left.                             *)
Sending ==
    srv.at \in {"room?", "ack tx", "enable tx", "wait tx", "disable tx",
                "write"} => srv.left > 0

UartIInv == Uart!TypeOK /\ Shown /\ Sleeping /\ Notified /\ Sending /\ hist = 0

-----------------------------------------------------------------------------
(* Another line leaves the rest of the peripheral alone ...                *)
LEMMA LineSet ==
    ASSUME hw \in Uarts, NEW l \in Uart!LineType(Uart!Events),
           hw' = [hw EXCEPT !.line = l]
    PROVE  /\ hw' \in Uarts /\ hw'.line = l
           /\ hw'.used = hw.used /\ (hw'.full <=> hw.full)
           /\ (hw'.over <=> hw.over)
BY DEF Uarts

(* ... and Levels shows the two registers and changes nothing else.        *)
LEMMA LevelsTyped ==
    ASSUME NEW h \in Uarts
    PROVE  /\ Uart!Levels(h) \in Uarts
           /\ Uart!Levels(h).used = h.used /\ (Uart!Levels(h).full <=> h.full)
           /\ (Uart!Levels(h).over <=> h.over)
           /\ Uart!Levels(h).line.ena = h.line.ena
           /\ (Uart!Levels(h).line.masked <=> h.line.masked)
           /\ (Uart!Levels(h).line.bit <=> h.line.bit)
           /\ ("space" \in Uart!Levels(h).line.raw) <=> h.used < Depth
           /\ ("byte" \in Uart!Levels(h).line.raw) <=> h.full \/ h.over
<1>1. Uart!Levels(h) =
        [line |-> [raw |-> (IF h.used < Depth THEN {"space"} ELSE {})
                           \cup (IF h.full \/ h.over THEN {"byte"} ELSE {}),
                   ena |-> h.line.ena, masked |-> h.line.masked,
                   bit |-> h.line.bit],
         used |-> h.used, full |-> h.full, over |-> h.over,
         rest |-> h.rest]
  BY DEF Uart!Levels, Uarts, Uart!LineType
<1> QED  BY <1>1 DEF Uarts, Uart!LineType, Uart!Events

(* The constants alone.                                                    *)
LEMMA Numbers ==
    ASSUME UartConstants
    PROVE  /\ UartRuns \in Nat /\ Depth \in Nat \ {0}
           /\ Batch \in Nat /\ MaxBytes \in Nat
BY DEF UartConstants

LEMMA UartInitIInv == ASSUME UartConstants, Uart!Init PROVE UartIInv
<1> DEFINE h == [line |-> Uart!Line({}), used |-> 0, full |-> FALSE,
                 over |-> FALSE, rest |-> MaxBytes]
<1>1. h \in Uarts
  <2>1. Uart!Line({}) \in Uart!LineType(Uart!Events)
    BY DEF Uart!Line, Uart!LineType
  <2>2. 0 \in 0 .. Depth /\ MaxBytes \in 0 .. MaxBytes
    BY Numbers
  <2> QED  BY <2>1, <2>2 DEF Uarts
<1>2. /\ hw = Uart!Levels(h) /\ hist = 0
      /\ srv = Uart!Resting(CHOOSE u \in UartUsers : TRUE)
  BY DEF Uart!Init
<1>3. (CHOOSE u \in UartUsers : TRUE) \in UartUsers
  BY DEF UartConstants
<1>4. /\ srv \in Uart!ServerType(Uart!Places, {}, Batch)
      /\ srv.at = "recv"
  BY <1>2, <1>3, RestingTyped DEF UartConstants
<1>5. usr \in Uart!UserType(UartCalls, UartAnswers)
  <2>1. [at |-> "idle", n |-> 0, rc |-> "", val |-> Uart!None] \in
          UserRec(UartCalls, UartAnswers)
    <3>1. 0 \in Uart!Ids /\ Uart!None \in Uart!Ids
      BY Numbers DEF Uart!Ids, Uart!None
    <3> QED  BY <3>1 DEF UserRec
  <2> QED  BY <2>1, UserTypeIs DEF Uart!Init, Uart!IdleUsers
<1>6. /\ h.line.ena = {} /\ ~h.line.bit
  BY DEF Uart!Line
<1>7. Uart!TypeOK /\ Shown /\ hw.line.ena = {} /\ ~hw.line.bit
  <2> HIDE DEF h
  <2> QED  BY <1>1, <1>2, <1>4, <1>5, <1>6, LevelsTyped
           DEF Uart!TypeOK, Shown, Received, UartCalls, UartAnswers, Uarts
<1> QED  BY <1>2, <1>4, <1>7 DEF UartIInv, Sleeping, Notified, Sending

(* The parts of the invariant as the steps use them.                       *)
LEMMA UartParts ==
    ASSUME UartConstants, UartIInv
    PROVE  /\ usr \in Uart!UserType(UartCalls, UartAnswers) /\ UartRuns \in Nat
           /\ srv \in Uart!ServerType(Uart!Places, {}, Batch) /\ Batch \in Nat
           /\ srv.user \in UartUsers /\ srv.left \in 0 .. Batch
           /\ hw \in Uarts /\ hw.line \in Uart!LineType(Uart!Events)
           /\ hw.used \in 0 .. Depth /\ Depth \in Nat \ {0}
BY DEF UartConstants, UartIInv, Uart!TypeOK, UartCalls, UartAnswers, Uarts,
       Uart!ServerType

-----------------------------------------------------------------------------
(* Calls and answers.                                                      *)
LEMMA RequestStep ==
    ASSUME UartConstants, UartIInv, NEW u \in UartUsers, Uart!Request(u)
    PROVE  UartIInv'
<1>1. PICK call \in UartCalls : Uart!Ask(u, call)
  BY DEF Uart!Request, UartCalls
<1>2. usr' \in Uart!UserType(UartCalls, UartAnswers)
  BY <1>1, UartParts, AskTyped
<1>3. UNCHANGED <<srv, hw, hist>>
  BY <1>1 DEF Uart!Ask
<1> QED
  BY <1>2, <1>3 DEF UartIInv, Uart!TypeOK, Shown, Received,
       Sleeping, Notified, Sending,
       UartCalls,
                    UartAnswers

(* A step of the server that leaves the peripheral alone keeps IInv if it  *)
(* leaves no wait, and comes to no place that promises anything.           *)
LEMMA QuietStep ==
    ASSUME UartConstants, UartIInv,
           usr' \in Uart!UserType(UartCalls, UartAnswers),
           srv' \in Uart!ServerType(Uart!Places, {}, Batch),
           UNCHANGED <<hw, hist>>,
           srv.at \in {"recv", "room?", "byte?"},
           \/ srv'.at \in {"recv", "byte?", "ack rx"}
           \/ srv'.at \in {"room?", "ack tx"} /\ srv'.left > 0
           \/ srv'.at = "write" /\ srv'.left > 0 /\ hw.used < Depth
           \/ srv'.at = "take" /\ Received
    PROVE  UartIInv'
BY DEF UartIInv, Uart!TypeOK, Shown, Received,
       Sleeping, Notified, Sending,
       UartCalls, UartAnswers

LEMMA UartReceiveStep ==
    ASSUME UartConstants, UartIInv, NEW u \in UartUsers, Uart!Receive(u)
    PROVE  UartIInv'
<1> USE UartParts
<1>1. UNCHANGED <<usr, hw, hist>> /\ srv.at = "recv"
  BY DEF Uart!Receive, Uart!Recv
<1>2. CASE Uart!Recv(u, Receives, "byte?")
  <2>1. srv' \in Uart!ServerType(Uart!Places, {}, Batch) /\ srv'.at = "byte?"
    BY <1>2, RecvTyped DEF Uart!Places
  <2> QED  BY <1>1, <2>1, QuietStep
<1>3. CASE \E n \in 1 .. Batch :
              srv' = [Uart!Resting(u) EXCEPT !.at = "room?", !.left = n]
  <2>1. PICK n \in 1 .. Batch :
           srv' = [Uart!Resting(u) EXCEPT !.at = "room?", !.left = n]
    BY <1>3
  <2>2. srv' = [at |-> "room?", user |-> u, late |-> FALSE, raw |-> {},
                left |-> n]
    BY <2>1 DEF Uart!Resting
  <2>3. /\ srv' \in Uart!ServerType(Uart!Places, {}, Batch)
        /\ srv'.at = "room?" /\ srv'.left > 0
    <3>1. n \in 1 .. Batch
      BY <2>1
    <3>2. n \in 0 .. Batch /\ n > 0
      BY <3>1
    <3>3. "room?" \in Uart!Places
      BY DEF Uart!Places
    <3> QED  BY <2>2, <3>2, <3>3 DEF Uart!ServerType
  <2> QED  BY <1>1, <2>3, QuietStep
<1> QED  BY <1>2, <1>3 DEF Uart!Receive

(* An answer, and the server at rest again.                                *)
LEMMA UartAnswered ==
    ASSUME UartConstants, UartIInv, NEW rc \in UartAnswers,
           Uart!Reply(rc, Uart!None)
    PROVE  /\ usr' \in Uart!UserType(UartCalls, UartAnswers)
           /\ srv' \in Uart!ServerType(Uart!Places, {}, Batch)
           /\ srv'.at = "recv"
<1> USE UartParts
<1>1. usr' \in Uart!UserType(UartCalls, UartAnswers)
  <2>1. Uart!None \in Uart!Ids
    BY DEF Uart!None, Uart!Ids
  <2> QED  BY <2>1, ReplyTyped
<1>2. srv' = Uart!Resting(srv.user)
  BY DEF Uart!Reply
<1> QED  BY <1>1, <1>2, RestingTyped

LEMMA RoomStep == ASSUME UartConstants, UartIInv, Uart!Room PROVE UartIInv'
<1> USE UartParts
<1> DEFINE next == IF hw.used < Depth THEN "write" ELSE "ack tx"
<1>1. srv' = [srv EXCEPT !.at = next] /\ UNCHANGED <<usr, hw, hist>>
  BY DEF Uart!Room, Uart!Goto
<1>2. next \in Uart!Places
  BY DEF Uart!Places
<1>3. /\ srv' \in Uart!ServerType(Uart!Places, {}, Batch) /\ srv'.at = next
      /\ srv'.left = srv.left
  <2> HIDE DEF next
  <2> QED  BY <1>1, <1>2, GotoTyped
<1>4. srv.at = "room?" /\ srv.left > 0
  BY DEF Uart!Room, UartIInv, Sending
<1> QED  BY <1>1, <1>3, <1>4, QuietStep

LEMMA ByteStep == ASSUME UartConstants, UartIInv, Uart!Byte PROVE UartIInv'
<1> USE UartParts
<1>1. UNCHANGED <<hw, hist>> /\ srv.at = "byte?"
  BY DEF Uart!Byte
<1>2. CASE Uart!Reply("etimeout", Uart!None)
  BY <1>1, <1>2, UartAnswered, QuietStep DEF UartAnswers
<1>3. ASSUME NEW next \in {"take", "ack rx"}, Uart!Goto(next),
             next = "take" => Received
      PROVE  UartIInv'
  <2>1. srv' \in Uart!ServerType(Uart!Places, {}, Batch) /\ srv'.at = next
    BY <1>3, GotoTyped DEF Uart!Goto, Uart!Places
  <2> QED  BY <1>1, <1>3, <2>1, QuietStep DEF Uart!Goto
<1> QED  BY <1>2, <1>3 DEF Uart!Byte, Received

-----------------------------------------------------------------------------
(* The wait.                                                               *)

(* The line changes, and with it the place of the server.                  *)
LEMMA UartLineStep ==
    ASSUME UartConstants, UartIInv, NEW l \in Uart!LineType(Uart!Events),
           hw' = [hw EXCEPT !.line = l], l.raw = hw.line.raw,
           srv' \in Uart!ServerType(Uart!Places, {}, Batch),
           srv'.left = srv.left,
           UNCHANGED <<usr, hist>>,
           \/ srv.at = "ack tx" /\ srv'.at = "enable tx"
           \/ srv.at = "ack rx" /\ srv'.at = "enable rx"
           \/ srv.at = "enable tx" /\ srv'.at = "wait tx"
           \/ srv.at = "enable rx" /\ srv'.at = "wait rx"
           \/ srv.at = "wait tx" /\ srv'.at = "disable tx"
           \/ srv.at = "wait rx" /\ srv'.at = "disable rx"
           \/ srv.at = "disable tx" /\ srv'.at = "write"
           \/ srv.at = "disable rx" /\ srv'.at = "take",
           ~l.bit,
           srv'.at \in {"wait tx", "disable tx"} => l.ena = {"space"},
           srv'.at \in {"wait rx", "disable rx"} => l.ena = {"byte"},
           srv'.at \notin {"wait tx", "disable tx", "wait rx", "disable rx"}
               => l.ena = {},
           srv'.at \in {"disable tx", "disable rx"} =>
               l.masked /\ hw.line.bit
    PROVE  UartIInv'
<1>1. /\ hw' \in Uarts /\ hw'.line = l
      /\ hw'.used = hw.used /\ (hw'.full <=> hw.full)
      /\ (hw'.over <=> hw.over)
  BY UartParts, LineSet
<1>2. Uart!TypeOK'
  BY <1>1 DEF UartIInv, Uart!TypeOK, Uarts
<1>3. Shown' /\ hist' = 0
  BY <1>1 DEF UartIInv, Shown, Received
<1>4. Sleeping'
  BY <1>1 DEF Sleeping
<1>5. Notified'
  BY <1>1 DEF UartIInv, Notified, Received
<1>6. Sending'
  BY DEF UartIInv, Sending
<1> QED  BY <1>2, <1>3, <1>4, <1>5, <1>6 DEF UartIInv

LEMMA AckStep == ASSUME UartConstants, UartIInv, Uart!Ack PROVE UartIInv'
<1> USE UartParts
<1> DEFINE next == IF srv.at = "ack tx" THEN "enable tx" ELSE "enable rx"
<1>1. /\ srv' = [srv EXCEPT !.at = next] /\ UNCHANGED <<usr, hist>>
      /\ hw' = [hw EXCEPT !.line = Uart!Acked(hw.line)]
  BY DEF Uart!Ack, Uart!Goto
<1>2. /\ srv' \in Uart!ServerType(Uart!Places, {}, Batch) /\ srv'.at = next
      /\ srv'.left = srv.left
  <2>1. next \in Uart!Places
    BY DEF Uart!Places
  <2> HIDE DEF next
  <2> QED  BY <1>1, <2>1, GotoTyped
<1>3. /\ srv.at \in {"ack tx", "ack rx"}
      /\ hw.line.ena = {} /\ ~hw.line.bit
  BY DEF Uart!Ack, UartIInv, Sleeping, Notified
<1> DEFINE l == Uart!Acked(hw.line)
<1>4. /\ l \in Uart!LineType(Uart!Events) /\ l.raw = hw.line.raw
      /\ l.ena = {} /\ ~l.bit
  BY <1>3, AckedLine
<1>5. hw' = [hw EXCEPT !.line = l]
  BY <1>1
<1> HIDE DEF l
<1>6. CASE srv.at = "ack tx"
  <2>1. srv'.at = "enable tx"
    BY <1>2, <1>6
  <2> HIDE DEF next
  <2> QED  BY <1>1, <1>2, <1>4, <1>5, <1>6, <2>1, UartLineStep
<1>7. CASE srv.at = "ack rx"
  <2>1. srv'.at = "enable rx"
    BY <1>2, <1>7
  <2> HIDE DEF next
  <2> QED  BY <1>1, <1>2, <1>4, <1>5, <1>7, <2>1, UartLineStep
<1> QED  BY <1>3, <1>6, <1>7

LEMMA EnableStep ==
    ASSUME UartConstants, UartIInv, Uart!EnableTx \/ Uart!EnableRx
    PROVE  UartIInv'
<1> USE UartParts
<1>1. ASSUME NEW event \in Uart!Events, NEW to \in Uart!Places,
             srv' = [srv EXCEPT !.at = to], UNCHANGED <<usr, hist>>,
             hw' = [hw EXCEPT !.line = Uart!Enabled(hw.line, {event})],
             \/ srv.at = "enable tx" /\ event = "space" /\ to = "wait tx"
             \/ srv.at = "enable rx" /\ event = "byte" /\ to = "wait rx"
      PROVE  UartIInv'
  <2>1. /\ srv' \in Uart!ServerType(Uart!Places, {}, Batch) /\ srv'.at = to
        /\ srv'.left = srv.left
    BY <1>1, GotoTyped
  <2>2. ~hw.line.bit
    BY <1>1 DEF UartIInv, Notified
  <2>3. /\ hw.line \in Uart!LineType(Uart!Events)
        /\ {event} \in SUBSET Uart!Events
    OBVIOUS
  <2> DEFINE l == Uart!Enabled(hw.line, {event})
  <2>4. /\ l \in Uart!LineType(Uart!Events) /\ l.raw = hw.line.raw
        /\ l.ena = {event} /\ (l.bit <=> hw.line.bit)
    BY <2>3, UartEnabledLine
  <2>5. hw' = [hw EXCEPT !.line = l]
    BY <1>1
  <2> HIDE DEF l
  <2> QED  BY <1>1, <2>1, <2>2, <2>4, <2>5, UartLineStep
<1>2. CASE Uart!EnableTx
  BY <1>1, <1>2 DEF Uart!EnableTx, Uart!Enable, Uart!Goto,
                    Uart!Events, Uart!Places
<1>3. CASE Uart!EnableRx
  BY <1>1, <1>3 DEF Uart!EnableRx, Uart!Enable, Uart!Goto,
                    Uart!Events, Uart!Places
<1> QED  BY <1>2, <1>3

LEMMA UartWokenStep ==
    ASSUME UartConstants, UartIInv, Uart!Woken
    PROVE  UartIInv'
<1> USE UartParts
<1> DEFINE next == IF srv.at = "wait tx" THEN "disable tx" ELSE "disable rx"
<1>1. /\ srv' = [srv EXCEPT !.at = next] /\ UNCHANGED <<usr, hist>>
      /\ hw' = [hw EXCEPT !.line = Uart!Taken(hw.line)]
  BY DEF Uart!Woken, Uart!Goto
<1>2. /\ srv' \in Uart!ServerType(Uart!Places, {}, Batch) /\ srv'.at = next
      /\ srv'.left = srv.left
  <2>1. next \in Uart!Places
    BY DEF Uart!Places
  <2> HIDE DEF next
  <2> QED  BY <1>1, <2>1, GotoTyped
<1> DEFINE l == Uart!Taken(hw.line)
<1>3. /\ l \in Uart!LineType(Uart!Events) /\ l.raw = hw.line.raw
      /\ l.ena = hw.line.ena /\ (l.masked <=> hw.line.masked) /\ ~l.bit
  BY TakenLine
<1>4. srv.at \in {"wait tx", "wait rx"} /\ hw.line.bit
  BY DEF Uart!Woken
<1>5. hw.line.masked
  BY <1>4 DEF UartIInv, Notified
<1>6. l.masked
  BY <1>3, <1>5
<1>7. hw' = [hw EXCEPT !.line = l]
  BY <1>1
<1> HIDE DEF l
<1>8. CASE srv.at = "wait tx"
  <2>1. hw.line.ena = {"space"}
    BY <1>8 DEF UartIInv, Sleeping
  <2>2. srv'.at = "disable tx"
    BY <1>2, <1>8
  <2> HIDE DEF next
  <2> QED
    BY <1>1, <1>2, <1>3, <1>4, <1>6, <1>7, <1>8, <2>1, <2>2, UartLineStep
<1>9. CASE srv.at = "wait rx"
  <2>1. hw.line.ena = {"byte"}
    BY <1>9 DEF UartIInv, Sleeping
  <2>2. srv'.at = "disable rx"
    BY <1>2, <1>9
  <2> HIDE DEF next
  <2> QED
    BY <1>1, <1>2, <1>3, <1>4, <1>6, <1>7, <1>9, <2>1, <2>2, UartLineStep
<1> QED  BY <1>4, <1>8, <1>9

LEMMA DisableStep ==
    ASSUME UartConstants, UartIInv, Uart!Disable
    PROVE  UartIInv'
<1> USE UartParts
<1> DEFINE next == IF srv.at = "disable tx" THEN "write" ELSE "take"
           off  == Uart!Enabled(hw.line, {})
           line == IF AcksAgain THEN Uart!Acked(off) ELSE off
<1>1. /\ srv' = [srv EXCEPT !.at = next] /\ UNCHANGED <<usr, hist>>
      /\ hw' = [hw EXCEPT !.line = line]
  BY DEF Uart!Disable, Uart!Goto
<1>2. /\ srv' \in Uart!ServerType(Uart!Places, {}, Batch) /\ srv'.at = next
      /\ srv'.left = srv.left
  <2>1. next \in Uart!Places
    BY DEF Uart!Places
  <2> HIDE DEF next
  <2> QED  BY <1>1, <2>1, GotoTyped
<1>3. /\ off \in Uart!LineType(Uart!Events) /\ off.raw = hw.line.raw
      /\ off.ena = {} /\ (off.bit <=> hw.line.bit)
  BY UartEnabledLine
<1>4. /\ line \in Uart!LineType(Uart!Events) /\ line.raw = hw.line.raw
      /\ line.ena = {} /\ (line.bit <=> hw.line.bit)
  <2> HIDE DEF off
  <2> QED  BY <1>3, AckedLine
<1>5. srv.at \in {"disable tx", "disable rx"} /\ ~hw.line.bit
  BY DEF Uart!Disable, UartIInv, Notified
<1> HIDE DEF line
<1>6. CASE srv.at = "disable tx"
  <2>1. srv'.at = "write"
    BY <1>2, <1>6
  <2> HIDE DEF next
  <2> QED  BY <1>1, <1>2, <1>4, <1>5, <1>6, <2>1, UartLineStep
<1>7. CASE srv.at = "disable rx"
  <2>1. srv'.at = "take"
    BY <1>2, <1>7
  <2> HIDE DEF next
  <2> QED  BY <1>1, <1>2, <1>4, <1>5, <1>7, <2>1, UartLineStep
<1> QED  BY <1>5, <1>6, <1>7

-----------------------------------------------------------------------------
(* The transmitter and the receiver.                                       *)

(* A register changes; in a wait nothing that was waited for goes.         *)
LEMMA RegisterStep ==
    ASSUME UartConstants, UartIInv, NEW h \in Uarts, hw' = Uart!Levels(h),
           h.line = hw.line, UNCHANGED hist,
           usr' \in Uart!UserType(UartCalls, UartAnswers),
           srv' \in Uart!ServerType(Uart!Places, {}, Batch),
           \/ /\ UNCHANGED srv
              /\ hw.used < Depth => h.used < Depth
              /\ Received => h.full \/ h.over
           \/ srv.at \in {"write", "take"} /\ srv'.at = "recv"
           \/ srv.at = "write" /\ srv'.at = "room?" /\ srv'.left > 0
    PROVE  UartIInv'
<1>1. /\ hw' \in Uarts
      /\ hw'.used = h.used /\ (hw'.full <=> h.full) /\ (hw'.over <=> h.over)
      /\ hw'.line.ena = hw.line.ena
      /\ (hw'.line.masked <=> hw.line.masked)
      /\ (hw'.line.bit <=> hw.line.bit)
      /\ "space" \in hw'.line.raw <=> h.used < Depth
      /\ "byte" \in hw'.line.raw <=> h.full \/ h.over
  BY LevelsTyped
<1> QED
  BY <1>1 DEF UartIInv, Uart!TypeOK, Shown, Received,
       Sleeping, Notified, Sending,
       Uarts, UartCalls,
              UartAnswers

LEMMA WriteStep == ASSUME UartConstants, UartIInv, Uart!Write PROVE UartIInv'
<1> USE UartParts
<1> DEFINE h == [hw EXCEPT !.used = @ + 1]
<1>1. srv.at = "write" /\ hw.used < Depth /\ srv.left > 0
  BY DEF Uart!Write, UartIInv, Notified, Sending
<1>2. hw' = Uart!Levels(h) /\ UNCHANGED hist
  BY <1>1 DEF Uart!Write
<1>3. h \in Uarts /\ h.line = hw.line
  BY <1>1 DEF Uarts
<1>4. /\ usr' \in Uart!UserType(UartCalls, UartAnswers)
      /\ srv' \in Uart!ServerType(Uart!Places, {}, Batch)
      /\ \/ srv'.at = "recv"
         \/ srv'.at = "room?" /\ srv'.left > 0
  <2>1. CASE srv.left = 1
    <3>1. Uart!Reply("ok", Uart!None)
      BY <2>1 DEF Uart!Write
    <3>2. "ok" \in UartAnswers
      BY DEF UartAnswers
    <3>3. /\ usr' \in Uart!UserType(UartCalls, UartAnswers)
          /\ srv' \in Uart!ServerType(Uart!Places, {}, Batch) /\ srv'.at = "recv"
      BY <3>1, <3>2, UartAnswered
    <3> QED  BY <3>3
  <2>2. CASE srv.left # 1
    <3>1. /\ srv' = [srv EXCEPT !.at = "room?", !.left = @ - 1]
          /\ UNCHANGED usr
      BY <2>2 DEF Uart!Write
    <3>2. srv.left - 1 \in 0 .. Batch /\ srv.left - 1 > 0
      BY <1>1, <2>2
    <3> QED  BY <3>1, <3>2 DEF Uart!ServerType, Uart!Places
  <2> QED  BY <2>1, <2>2
<1> QED
  <2> HIDE DEF h
  <2> QED  BY <1>1, <1>2, <1>3, <1>4, RegisterStep

LEMMA TakeStep == ASSUME UartConstants, UartIInv, Uart!Take PROVE UartIInv'
<1> USE UartParts
<1> DEFINE h == [hw EXCEPT !.full = FALSE]
<1>1. srv.at = "take"
  BY DEF Uart!Take
<1>2. PICK rc \in UartAnswers :
         /\ hw' = Uart!Levels(h) /\ UNCHANGED hist
         /\ Uart!Reply(rc, Uart!None)
  BY DEF Uart!Take, UartAnswers
<1>3. h \in Uarts /\ h.line = hw.line
  BY DEF Uarts
<1>4. /\ usr' \in Uart!UserType(UartCalls, UartAnswers)
      /\ srv' \in Uart!ServerType(Uart!Places, {}, Batch) /\ srv'.at = "recv"
  BY <1>2, UartAnswered
<1> QED
  <2> HIDE DEF h
  <2> QED  BY <1>1, <1>2, <1>3, <1>4, RegisterStep

LEMMA TransmitStep ==
    ASSUME UartConstants, UartIInv, Uart!Transmit
    PROVE  UartIInv'
<1> USE UartParts
<1> DEFINE h == [hw EXCEPT !.used = @ - 1]
<1>1. hw' = Uart!Levels(h) /\ UNCHANGED <<usr, srv, hist>> /\ hw.used > 0
  BY DEF Uart!Transmit
<1>2. h \in Uarts /\ h.line = hw.line /\ h.used < Depth
      /\ (h.full <=> hw.full) /\ (h.over <=> hw.over)
  BY <1>1 DEF Uarts
<1> QED
  <2> HIDE DEF h
  <2> QED  BY <1>1, <1>2, RegisterStep DEF Received

LEMMA ArriveStep == ASSUME UartConstants, UartIInv, Uart!Arrive PROVE UartIInv'
<1> USE UartParts
<1> DEFINE h == [hw EXCEPT !.full = TRUE, !.over = @ \/ hw.full,
                           !.rest = @ - 1]
<1>1. hw' = Uart!Levels(h) /\ UNCHANGED <<usr, srv, hist>> /\ hw.rest > 0
  BY DEF Uart!Arrive
<1>2. h \in Uarts /\ h.line = hw.line /\ h.full /\ h.used = hw.used
  <2>1. hw.rest \in 0 .. MaxBytes /\ MaxBytes \in Nat
    BY DEF Uarts, UartConstants
  <2>2. hw.rest - 1 \in 0 .. MaxBytes
    BY <1>1, <2>1
  <2> QED  BY <2>2 DEF Uarts
<1> QED
  <2> HIDE DEF h
  <2> QED  BY <1>1, <1>2, RegisterStep

LEMMA UartInterruptStep ==
    ASSUME UartConstants, UartIInv, Uart!Interrupt
    PROVE  UartIInv'
<1> USE UartParts
<1>1. /\ hw' = [hw EXCEPT !.line = Uart!Delivered(hw.line)]
      /\ UNCHANGED <<usr, srv, hist>>
      /\ hw.line.raw \cap hw.line.ena # {} /\ ~hw.line.masked
  BY DEF Uart!Interrupt, Uart!Due
<1>2. /\ hw' \in Uarts /\ hw'.line = Uart!Delivered(hw.line)
      /\ hw'.used = hw.used /\ (hw'.full <=> hw.full)
      /\ (hw'.over <=> hw.over)
  BY <1>1, LineSet, DeliveredLine
<1> QED
  BY <1>1, <1>2, DeliveredLine
  DEF UartIInv, Uart!TypeOK, Shown, Received,
       Sleeping, Notified, Sending,
       Uarts, UartCalls, UartAnswers

LEMMA UartNextIInv == ASSUME UartConstants, UartIInv, Uart!Next PROVE UartIInv'
BY RequestStep, UartReceiveStep, RoomStep, ByteStep, AckStep, EnableStep,
   UartWokenStep, DisableStep, WriteStep, TakeStep, TransmitStep, ArriveStep,
   UartInterruptStep DEF Uart!Next, Uart!Proceed

LEMMA UartStutterIInv == ASSUME UartIInv, UNCHANGED Uart!vars PROVE UartIInv'
BY DEF Uart!vars, UartIInv, Uart!TypeOK, Shown, Received,
       Sleeping, Notified, Sending

LEMMA UartSafe == UartIInv => Uart!TypeOK /\ Uart!OkIsTrue /\ Uart!Traced
BY DEF UartIInv, Uart!OkIsTrue, Uart!Traced, Sleeping, Notified, Received

LEMMA UartInvariance == ASSUME UartConstants PROVE Uart!Spec => []UartIInv
<1>1. Uart!Init => UartIInv
  BY UartInitIInv
<1>2. UartIInv /\ [Uart!Next]_(Uart!vars) => UartIInv'
  BY UartNextIInv, UartStutterIInv
<1> QED  BY <1>1, <1>2, PTL DEF Uart!Spec

-----------------------------------------------------------------------------
(* UartTyped.  The variables of the UART servers keep their types.         *)
THEOREM UartTyped == ASSUME UartConstants PROVE Uart!Spec => []Uart!TypeOK
<1>1. UartIInv => Uart!TypeOK
  BY DEF UartIInv
<1> QED  BY <1>1, UartInvariance, PTL

(* NoOverrun.  No byte is written into a full transmitter: a server woken  *)
(* by the one notification it has for both directions was waiting for      *)
(* space (wait_txe, tx_wait_space), although it does not look again.       *)
THEOREM NoOverrun == ASSUME UartConstants PROVE Uart!Spec => []Uart!OkIsTrue
<1>1. UartIInv => Uart!OkIsTrue
  BY DEF UartIInv, Uart!OkIsTrue
<1> QED  BY <1>1, UartInvariance, PTL

(* NothingOutlives.  No notification and no enabled interrupt outlives the *)
(* wait it was for, and a blocking receive that wakes finds its byte,      *)
(* unless an overrun has lost one; whether or not the board acknowledges   *)
(* again after the wait.                                                   *)
THEOREM NothingOutlives ==
    ASSUME UartConstants
    PROVE  Uart!Spec => []Uart!Traced
<1>1. UartIInv => Uart!Traced
  BY DEF UartIInv, Uart!Traced, Sleeping, Notified, Received
<1> QED  BY <1>1, UartInvariance, PTL
=============================================================================
