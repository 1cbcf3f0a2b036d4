---------------------------- MODULE ServersProofs ----------------------------
(***************************************************************************)
(* Proofs about the servers of Servers, for any threads and any bound on   *)
(* the requests.  Every server has a section of its own:                   *)
(*   <S>Typed    its types; a user who waits has a number, and a server at *)
(*               work serves one who waits                                 *)
(*   <S>Work     what holds of the peripheral at each place of the server  *)
(*   <S>Answers  what holds of the answers given                           *)
(* which together are inductive.                                           *)
(***************************************************************************)
EXTENDS Servers, SequenceTheorems, FiniteSetTheorems, TLAPS

(* The record of a user, when it asks and when it is answered.             *)
UserRec(calls, rcs, runs) ==
    [at : {"idle"} \cup calls, n : 0 .. runs, rc : {""} \cup rcs,
     val : 0 .. runs]

LEMMA AskRec ==
    ASSUME NEW calls, NEW rcs, NEW runs \in Nat, NEW call \in calls,
           NEW n \in 1 .. runs
    PROVE  [at |-> call, n |-> n, rc |-> "", val |-> 0]
              \in UserRec(calls, rcs, runs)
BY DEF UserRec

(* A function whose record at one place is changed in three fields.        *)
LEMMA Thrice ==
    ASSUME NEW U, NEW R, NEW f \in [U -> R], NEW u \in U, NEW a, NEW b,
           NEW c, NEW x, NEW g,
           x = [[[f[u] EXCEPT !.at = a] EXCEPT !.rc = b] EXCEPT !.val = c],
           x \in R, g = [f EXCEPT ![u].at = a, ![u].rc = b, ![u].val = c]
    PROVE  /\ g \in [U -> R] /\ g[u] = x
           /\ \A v \in U : v # u => g[v] = f[v]
<1>1. g = [f EXCEPT ![u] = x]
  OBVIOUS
<1> QED  BY <1>1

(* Of the requests numbered so far k have been answered and counted: their *)
(* numbers are behind the last one and not those of the users who wait.    *)
Tally(f, U, N, k) ==
    /\ \A u, v \in U : u # v /\ f[u].n # 0 => f[u].n # f[v].n
    /\ \E D \in SUBSET (1 .. N) :
          /\ Cardinality(D) = k
          /\ \A d \in D : \E u \in U : d <= f[u].n
          /\ \A u \in U : f[u].at # "idle" => f[u].n \notin D

LEMMA TallyZero ==
    ASSUME NEW U, NEW N \in Nat, NEW f, \A u \in U : f[u].n = 0
    PROVE  Tally(f, U, N, 0)
<1>1. {} \in SUBSET (1 .. N) /\ Cardinality({}) = 0
  BY FS_EmptySet
<1> QED  BY <1>1 DEF Tally

LEMMA TallyAsk ==
    ASSUME NEW U, NEW N \in Nat, NEW k, NEW f, NEW g, NEW u \in U,
           NEW n \in 1 .. N, Tally(f, U, N, k),
           \A v \in U : f[v].n \in 0 .. N /\ f[v].n < n,
           g[u].n = n, \A v \in U : v # u => g[v] = f[v]
    PROVE  Tally(g, U, N, k)
<1>1. PICK D \in SUBSET (1 .. N) :
         /\ Cardinality(D) = k
         /\ \A d \in D : \E w \in U : d <= f[w].n
         /\ \A w \in U : f[w].at # "idle" => f[w].n \notin D
  BY DEF Tally
<1>2. \A d \in D : \E w \in U : d <= g[w].n
  <2>1. SUFFICES ASSUME NEW d \in D PROVE \E w \in U : d <= g[w].n
    OBVIOUS
  <2>2. PICK w \in U : d <= f[w].n
    BY <1>1
  <2>3. d <= g[w].n
    <3>1. CASE w = u
      <4>1. d \in 1 .. N /\ f[u].n \in 0 .. N /\ f[u].n < n /\ g[w].n = n
        BY <3>1
      <4> QED  BY <2>2, <3>1, <4>1
    <3>2. CASE w # u
      BY <2>2, <3>2
    <3> QED  BY <3>1, <3>2
  <2> QED  BY <2>3
<1>3. n \notin D
  <2>1. SUFFICES ASSUME n \in D PROVE FALSE
    OBVIOUS
  <2>2. PICK w \in U : n <= f[w].n
    BY <1>1, <2>1
  <2> QED  BY <2>2
<1>4. \A w \in U : g[w].at # "idle" => g[w].n \notin D
  BY <1>1, <1>3
<1>5. \A v, w \in U : v # w /\ g[v].n # 0 => g[v].n # g[w].n
  <2>1. \A v, w \in U : v # w /\ f[v].n # 0 => f[v].n # f[w].n
    BY DEF Tally
  <2>2. \A v \in U : v # u => g[v].n # n
    OBVIOUS
  <2> QED  BY <2>1, <2>2
<1> QED  BY <1>1, <1>2, <1>4, <1>5 DEF Tally

LEMMA TallyReply ==
    ASSUME NEW U, NEW N \in Nat, NEW k \in Nat, NEW f, NEW g, NEW w \in U,
           Tally(f, U, N, k), f[w].at # "idle", f[w].n \in 1 .. N,
           g[w].at = "idle", g[w].n = f[w].n,
           \A v \in U : v # w => g[v] = f[v]
    PROVE  Tally(g, U, N, k) /\ Tally(g, U, N, k + 1)
<1>1. PICK D \in SUBSET (1 .. N) :
         /\ Cardinality(D) = k
         /\ \A d \in D : \E u \in U : d <= f[u].n
         /\ \A u \in U : f[u].at # "idle" => f[u].n \notin D
  BY DEF Tally
<1>2. \A v \in U : g[v].n = f[v].n /\ (g[v].at # "idle" => f[v].at # "idle")
  OBVIOUS
<1>3. \A u, v \in U : u # v /\ g[u].n # 0 => g[u].n # g[v].n
  BY <1>2 DEF Tally
<1>4. Tally(g, U, N, k)
  BY <1>1, <1>2, <1>3 DEF Tally
<1> DEFINE E == D \cup {f[w].n}
<1>5. E \in SUBSET (1 .. N) /\ Cardinality(E) = k + 1
  <2>1. IsFiniteSet(1 .. N)
    <3>1. 1 \in Int /\ N \in Int
      OBVIOUS
    <3> QED  BY <3>1, FS_Interval
  <2>2. IsFiniteSet(D)
    BY <2>1, FS_Subset
  <2> QED  BY <1>1, <2>2, FS_AddElement
<1>6. \A d \in E : \E u \in U : d <= g[u].n
  BY <1>1, <1>2
<1>7. \A u \in U : g[u].at # "idle" => g[u].n \notin E
  <2>1. \A u \in U : g[u].at # "idle" => u # w
    OBVIOUS
  <2>2. \A u \in U : u # w => f[w].n # f[u].n
    BY DEF Tally
  <2> QED  BY <1>1, <1>2, <2>1, <2>2
<1> HIDE DEF E
<1> QED  BY <1>3, <1>4, <1>5, <1>6, <1>7 DEF Tally

LEMMA TallyBound ==
    ASSUME NEW U, NEW N \in Nat, NEW k, NEW f, Tally(f, U, N, k)
    PROVE  k \in 0 .. N
<1>1. PICK D \in SUBSET (1 .. N) : Cardinality(D) = k
  BY DEF Tally
<1>2. 1 \in Int /\ N \in Int
  OBVIOUS
<1>3. IsFiniteSet(1 .. N) /\ Cardinality(1 .. N) = N
  BY <1>2, FS_Interval
<1>4. IsFiniteSet(D) /\ Cardinality(D) <= N
  BY <1>3, FS_Subset
<1>5. Cardinality(D) \in Nat
  BY <1>4, FS_CardinalityType
<1> QED  BY <1>1, <1>4, <1>5

-----------------------------------------------------------------------------
(* The I2C server of the ESP32-P4 board.                                   *)

USE DEF EspI2c!None, EspI2c!Ids, EspI2c!Own, EspI2c!Call, EspI2c!Goto,
        EspI2c!Resting, EspI2c!ServerType, EspI2c!Acked, EspI2c!Taken,
        EspI2c!Delivered, EspI2c!Latched, EspI2c!Cleared, EspI2c!Due

EspI2cCalls  == {"write", "read"}
EspI2cRcs    == {"ok", "esrch", "einval", "etimeout"}
EspI2cUser   == UserRec(EspI2cCalls, EspI2cRcs, Few)
EspI2cUsers  == [Several -> EspI2cUser]
EspI2cServer == EspI2c!ServerType(EspI2c!Places, EspI2c!Events, 0)
EspI2cLines  == EspI2c!LineType(EspI2c!Events)
EspI2cUnit   == [line : EspI2cLines, run : 0 .. Few, refused : BOOLEAN,
                 good : 0 .. Few]
EspI2cHist   == SUBSET (0 .. Few)

EspI2cTyped ==
    /\ usr \in EspI2cUsers /\ srv \in EspI2cServer
    /\ hw \in EspI2cUnit /\ hist \in EspI2cHist
    /\ \A u \in Several : usr[u].at # "idle" => usr[u].n # 0
    /\ srv.at # "recv" => EspI2c!Call \in EspI2cCalls

(* What holds of a request that found the one before it finished: until it *)
(* starts nothing is on the wire, then what is there is its own.           *)
EspI2cEnding ==
    /\ hw.refused => "nack" \in hw.line.raw
    /\ "done" \in hw.line.raw /\ "nack" \notin hw.line.raw =>
          hw.good = EspI2c!Own
    /\ hw.run # 0 =>
          /\ hw.run = EspI2c!Own
          /\ "done" \notin hw.line.raw /\ "fault" \notin hw.line.raw

EspI2cFinished ==
    /\ srv.at \in {"clear", "reset", "start"} =>
          hw.run = 0 /\ ~hw.line.bit
    /\ srv.at = "clear" => hw.line.raw = {} \/ hw.line.masked
    /\ srv.at \in {"reset", "start"} => hw.line.raw = {}
    /\ srv.at \in {"open", "wait", "late", "read", "finish"} => EspI2cEnding
    /\ srv.at \in {"open", "wait"} /\ hw.line.bit => hw.line.raw # {}
    /\ srv.at = "read" /\ ~srv.late => hw.line.raw # {}
    /\ srv.at = "finish" =>
          /\ ~srv.late => srv.raw # {}
          /\ srv.raw \subseteq hw.line.raw
          /\ "done" \in srv.raw /\ "nack" \notin srv.raw =>
                hw.good = EspI2c!Own

EspI2cWork ==
    /\ hw.line.ena = EspI2c!Events
    /\ EspI2c!Own \notin hist => EspI2cFinished

EspI2cAnswers == EspI2c!OkIsTrue

EspI2cIInv == EspI2cTyped /\ EspI2cWork /\ EspI2cAnswers

LEMMA EspI2cServes ==
    ASSUME EspI2cTyped
    PROVE  /\ srv.user \in Several /\ EspI2c!Own \in 0 .. Few
           /\ srv.at # "recv" => EspI2c!Own # 0
<1>1. srv.user \in Several /\ usr \in [Several -> EspI2cUser]
  BY DEF EspI2cTyped, EspI2cServer, EspI2cUsers
<1>2. EspI2c!Own \in 0 .. Few
  BY <1>1 DEF EspI2cUser, UserRec
<1>3. srv.at # "recv" => EspI2c!Call # "idle"
  BY DEF EspI2cTyped, EspI2cCalls
<1> QED  BY <1>1, <1>2, <1>3 DEF EspI2cTyped

LEMMA EspI2cBegins ==
    ASSUME usr = EspI2c!IdleUsers,
           srv = EspI2c!Resting(CHOOSE u \in Several : TRUE)
    PROVE  /\ usr \in EspI2cUsers /\ srv \in EspI2cServer /\ srv.at = "recv"
           /\ \A u \in Several : usr[u].at = "idle" /\ usr[u].rc = ""
<1>1. [at |-> "idle", n |-> 0, rc |-> "", val |-> 0] \in EspI2cUser
  BY ServersAssumption DEF EspI2cUser, UserRec
<1>2. /\ usr \in EspI2cUsers
      /\ \A u \in Several : usr[u].at = "idle" /\ usr[u].rc = ""
  BY <1>1 DEF EspI2c!IdleUsers, EspI2cUsers
<1>3. (CHOOSE u \in Several : TRUE) \in Several
  BY ServersAssumption
<1>4. srv \in EspI2cServer /\ srv.at = "recv"
  BY <1>3, ServersAssumption DEF EspI2cServer
<1> QED  BY <1>2, <1>4

LEMMA EspI2cAsked ==
    ASSUME EspI2cTyped, NEW u \in Several, NEW call \in EspI2cCalls,
           EspI2c!Ask(u, call)
    PROVE  /\ EspI2cTyped' /\ UNCHANGED <<srv, hw, hist>>
           /\ usr'[u].rc = "" /\ usr'[u].at = call
           /\ \A v \in Several : v # u => usr'[v] = usr[v]
           /\ srv.at # "recv" =>
                 EspI2c!Own' = EspI2c!Own /\ EspI2c!Call' = EspI2c!Call
<1>1. PICK n \in 1 .. Few :
         usr' = [usr EXCEPT ![u] = [at |-> call, n |-> n, rc |-> "",
                                    val |-> 0]]
  BY DEF EspI2c!Ask
<1>2. usr[u].at = "idle" /\ UNCHANGED <<srv, hw, hist>>
  BY DEF EspI2c!Ask
<1>3. [at |-> call, n |-> n, rc |-> "", val |-> 0] \in EspI2cUser
  BY AskRec, ServersAssumption DEF EspI2cUser
<1>4. /\ usr' \in EspI2cUsers
      /\ usr'[u].at = call /\ usr'[u].n = n /\ usr'[u].rc = ""
      /\ \A v \in Several : v # u => usr'[v] = usr[v]
  BY <1>1, <1>3 DEF EspI2cTyped, EspI2cUsers
<1>5. srv.at # "recv" => srv.user # u /\ srv.user \in Several
  BY <1>2, EspI2cServes DEF EspI2cTyped, EspI2cCalls
<1>6. n # 0
  OBVIOUS
<1>7. \A v \in Several : usr'[v].at # "idle" => usr'[v].n # 0
  BY <1>4, <1>6 DEF EspI2cTyped
<1>8. srv.at # "recv" => EspI2c!Own' = EspI2c!Own /\ EspI2c!Call' = EspI2c!Call
  BY <1>2, <1>4, <1>5
<1> QED  BY <1>2, <1>4, <1>7, <1>8 DEF EspI2cTyped

LEMMA EspI2cReceived ==
    ASSUME EspI2cTyped, NEW u \in Several, usr[u].at \in EspI2cCalls,
           NEW next \in EspI2c!Places, NEW left \in 0 .. 0,
           srv' = [at |-> next, user |-> u, late |-> FALSE, raw |-> {},
                   left |-> left],
           UNCHANGED <<usr, hw, hist>>
    PROVE  /\ EspI2cTyped' /\ srv'.at = next /\ srv'.user = u
           /\ srv'.late = FALSE /\ srv'.raw = {} /\ srv'.left = left
<1>1. srv' \in EspI2cServer /\ srv'.at = next /\ srv'.user = u
  BY DEF EspI2cServer
<1> QED  BY <1>1 DEF EspI2cTyped

LEMMA EspI2cGoes ==
    ASSUME EspI2cTyped, NEW next \in EspI2c!Places,
           srv' = [srv EXCEPT !.at = next]
    PROVE  /\ srv' \in EspI2cServer /\ srv'.at = next
           /\ UNCHANGED <<srv.user, srv.raw, srv.left>>
           /\ (srv'.late <=> srv.late)
BY DEF EspI2cTyped, EspI2cServer

LEMMA EspI2cReplied ==
    ASSUME EspI2cTyped, NEW rc \in EspI2cRcs, NEW val \in 0 .. Few,
           EspI2c!Reply(rc, val), hw' \in EspI2cUnit, hist' \in EspI2cHist
    PROVE  /\ EspI2cTyped' /\ srv'.at = "recv" /\ srv'.user = srv.user
           /\ usr'[srv.user].at = "idle" /\ usr'[srv.user].rc = rc
           /\ usr'[srv.user].n = usr[srv.user].n /\ usr'[srv.user].val = val
           /\ \A v \in Several : v # srv.user => usr'[v] = usr[v]
<1> DEFINE x == [[[usr[srv.user] EXCEPT !.at = "idle"] EXCEPT !.rc = rc]
                    EXCEPT !.val = val]
<1>1. srv.user \in Several /\ usr \in [Several -> EspI2cUser]
  BY EspI2cServes DEF EspI2cTyped, EspI2cUsers
<1>2. /\ x \in EspI2cUser
      /\ x.at = "idle" /\ x.n = usr[srv.user].n /\ x.rc = rc /\ x.val = val
  <2>1. usr[srv.user] \in EspI2cUser
    BY <1>1
  <2> QED  BY <2>1, ServersAssumption DEF EspI2cUser, UserRec
<1>3. /\ usr' \in EspI2cUsers /\ usr'[srv.user] = x
      /\ \A v \in Several : v # srv.user => usr'[v] = usr[v]
  BY <1>1, <1>2, Thrice DEF EspI2c!Reply, EspI2cUsers
<1>4. srv' \in EspI2cServer /\ srv'.at = "recv" /\ srv'.user = srv.user
  BY <1>1 DEF EspI2c!Reply, EspI2cServer
<1> HIDE DEF x
<1>5. \A v \in Several : usr'[v].at # "idle" => usr'[v].n # 0
  BY <1>2, <1>3 DEF EspI2cTyped
<1> QED  BY <1>2, <1>3, <1>4, <1>5 DEF EspI2cTyped

(* A step that leaves the users alone.                                     *)
LEMMA EspI2cQuiet ==
    ASSUME EspI2cIInv, UNCHANGED usr, srv' \in EspI2cServer, srv'.at # "recv",
           srv'.user = srv.user, srv.at # "recv",
           hw' \in EspI2cUnit, hist' \in EspI2cHist, EspI2cWork',
           UNCHANGED hist \/ EspI2cAnswers'
    PROVE  EspI2cIInv'
BY DEF EspI2cIInv, EspI2cTyped, EspI2cAnswers, EspI2c!OkIsTrue

(* A step of the peripheral.                                               *)
LEMMA EspI2cOutside ==
    ASSUME EspI2cIInv, UNCHANGED <<usr, srv, hist>>, hw' \in EspI2cUnit,
           EspI2cWork'
    PROVE  EspI2cIInv'
BY DEF EspI2cIInv, EspI2cTyped, EspI2cAnswers, EspI2c!OkIsTrue

LEMMA EspI2cInit == ASSUME EspI2c!Init PROVE EspI2cIInv
<1>1. /\ usr = EspI2c!IdleUsers /\ hist = {}
      /\ srv = EspI2c!Resting(CHOOSE u \in Several : TRUE)
  BY DEF EspI2c!Init
<1>2. hw \in EspI2cUnit /\ hw.line.ena = EspI2c!Events
  BY ServersAssumption
     DEF EspI2c!Init, EspI2c!Line, EspI2cUnit, EspI2cLines, EspI2c!LineType
<1>3. hist \in EspI2cHist
  BY <1>1 DEF EspI2cHist
<1> QED
  BY <1>1, <1>2, <1>3, EspI2cBegins
     DEF EspI2cIInv, EspI2cTyped, EspI2cWork, EspI2cFinished, EspI2cAnswers,
         EspI2c!OkIsTrue

LEMMA EspI2cRequest ==
    ASSUME EspI2cIInv, NEW u \in Several, EspI2c!Request(u)
    PROVE  EspI2cIInv'
<1>1. PICK call \in EspI2cCalls : EspI2c!Ask(u, call)
  BY DEF EspI2c!Request, EspI2cCalls
<1>2. EspI2cTyped
  BY DEF EspI2cIInv
<1> QED
  BY <1>1, <1>2, EspI2cAsked
     DEF EspI2cIInv, EspI2cWork, EspI2cFinished, EspI2cEnding, EspI2cAnswers,
         EspI2c!OkIsTrue

LEMMA EspI2cReceive ==
    ASSUME EspI2cIInv, NEW u \in Several, EspI2c!Receive(u)
    PROVE  EspI2cIInv'
<1>1. /\ srv.at = "recv" /\ usr[u].at \in EspI2cCalls
      /\ UNCHANGED <<usr, hw, hist>>
      /\ srv' = [at |-> "drain", user |-> u, late |-> FALSE, raw |-> {},
                 left |-> 0]
  BY DEF EspI2c!Receive, EspI2c!Recv, EspI2cCalls
<1>2. "drain" \in EspI2c!Places /\ 0 \in 0 .. 0
  BY DEF EspI2c!Places
<1>3. EspI2cTyped' /\ srv'.at = "drain"
  BY <1>1, <1>2, EspI2cReceived DEF EspI2cIInv
<1> QED
  BY <1>1, <1>3 DEF EspI2cIInv, EspI2cWork, EspI2cFinished, EspI2cAnswers,
     EspI2c!OkIsTrue

(* The line set to another.                                                *)
LEMMA EspI2cLine ==
    ASSUME EspI2cTyped, NEW l \in EspI2cLines, hw' = [hw EXCEPT !.line = l]
    PROVE  /\ hw' \in EspI2cUnit /\ hw'.line = l
           /\ UNCHANGED <<hw.run, hw.good>> /\ (hw'.refused <=> hw.refused)
BY DEF EspI2cTyped, EspI2cUnit

LEMMA EspI2cLineIs ==
    ASSUME EspI2cTyped
    PROVE  hw.line \in EspI2cLines /\ hw.line.raw \subseteq EspI2c!Events
BY DEF EspI2cTyped, EspI2cUnit, EspI2cLines, EspI2c!LineType

LEMMA EspI2cDrainNotif ==
    ASSUME EspI2cIInv, EspI2c!DrainNotif PROVE EspI2cIInv'
<1> DEFINE l == EspI2c!Taken(hw.line)
<1>0. EspI2cTyped
  BY DEF EspI2cIInv
<1>1. /\ srv.at = "drain" /\ srv' = [srv EXCEPT !.at = "clear"]
      /\ UNCHANGED usr /\ hw' = [hw EXCEPT !.line = l]
      /\ hist' = IF EspI2c!Unfinished THEN hist \cup {EspI2c!Own} ELSE hist
  BY DEF EspI2c!DrainNotif
<1>2. /\ l \in EspI2cLines /\ ~l.bit /\ l.raw = hw.line.raw
      /\ l.ena = hw.line.ena /\ (l.masked <=> hw.line.masked)
  BY <1>0, EspI2cLineIs DEF EspI2cLines, EspI2c!LineType
<1> HIDE DEF l
<1>3. /\ hw' \in EspI2cUnit /\ hw'.line = l /\ hw'.run = hw.run
  BY <1>0, <1>1, <1>2, EspI2cLine
<1>4. /\ srv' \in EspI2cServer /\ srv'.at = "clear" /\ srv'.user = srv.user
  BY <1>0, <1>1, EspI2cGoes DEF EspI2c!Places
<1>5. hist' \in EspI2cHist /\ hist \subseteq hist'
  BY <1>0, <1>1, EspI2cServes DEF EspI2cTyped, EspI2cHist
<1>6. EspI2cWork'
  <2>1. CASE EspI2c!Unfinished
    BY <1>1, <1>2, <1>3, <1>4, <2>1 DEF EspI2cIInv, EspI2cWork
  <2>2. CASE ~EspI2c!Unfinished
    <3>1. hw.run = 0 /\ (hw.line.raw = {} \/ hw.line.masked)
      BY <2>2, EspI2cLineIs DEF EspI2c!Unfinished, EspI2cIInv, EspI2cWork
    <3> QED
      BY <1>2, <1>3, <1>4, <3>1
         DEF EspI2cIInv, EspI2cWork, EspI2cFinished
  <2> QED  BY <2>1, <2>2
<1>7. EspI2cAnswers'
  BY <1>1, <1>5 DEF EspI2cIInv, EspI2cAnswers, EspI2c!OkIsTrue
<1> QED  BY <1>1, <1>3, <1>4, <1>5, <1>6, <1>7, EspI2cQuiet

LEMMA EspI2cClearEvents ==
    ASSUME EspI2cIInv, EspI2c!ClearEvents PROVE EspI2cIInv'
<1> DEFINE l == EspI2c!Cleared(hw.line, EspI2c!Events)
<1>0. EspI2cTyped
  BY DEF EspI2cIInv
<1>1. /\ srv.at = "clear" /\ srv' = [srv EXCEPT !.at = "reset"]
      /\ UNCHANGED <<usr, hist>> /\ hw' = [hw EXCEPT !.line = l]
  BY DEF EspI2c!ClearEvents
<1>2. /\ l \in EspI2cLines /\ (l.bit <=> hw.line.bit) /\ l.raw = {}
      /\ l.ena = hw.line.ena
  BY <1>0, EspI2cLineIs DEF EspI2cLines, EspI2c!LineType
<1> HIDE DEF l
<1>3. /\ hw' \in EspI2cUnit /\ hw'.line = l /\ hw'.run = hw.run
  BY <1>0, <1>1, <1>2, EspI2cLine
<1>4. /\ srv' \in EspI2cServer /\ srv'.at = "reset" /\ srv'.user = srv.user
  BY <1>0, <1>1, EspI2cGoes DEF EspI2c!Places
<1>5. EspI2cWork'
  BY <1>1, <1>2, <1>3, <1>4 DEF EspI2cIInv, EspI2cWork, EspI2cFinished
<1> QED  BY <1>0, <1>1, <1>3, <1>4, <1>5, EspI2cQuiet DEF EspI2cTyped

LEMMA EspI2cResetBusy == ASSUME EspI2cIInv, EspI2c!ResetBusy PROVE EspI2cIInv'
<1>1. /\ srv.at = "reset" /\ srv' = [srv EXCEPT !.at = "start"]
      /\ UNCHANGED <<usr, hist>> /\ hw' = [hw EXCEPT !.run = 0]
  BY DEF EspI2c!ResetBusy
<1>2. hw' \in EspI2cUnit /\ hw'.run = 0 /\ UNCHANGED <<hw.line, hw.good>>
  BY <1>1, ServersAssumption DEF EspI2cIInv, EspI2cTyped, EspI2cUnit
<1>3. /\ srv' \in EspI2cServer /\ srv'.at = "start"
      /\ UNCHANGED <<srv.user, srv.raw, srv.left>>
      /\ (srv'.late <=> srv.late)
  BY <1>1, EspI2cGoes DEF EspI2cIInv, EspI2c!Places
<1> QED
  BY <1>1, <1>2, <1>3, EspI2cQuiet
     DEF EspI2cIInv, EspI2cTyped, EspI2cWork, EspI2cFinished, EspI2cEnding

LEMMA EspI2cStart == ASSUME EspI2cIInv, EspI2c!Start PROVE EspI2cIInv'
<1>1. /\ srv.at = "start" /\ srv' = [srv EXCEPT !.at = "open"]
      /\ UNCHANGED <<usr, hist>>
      /\ hw' = [[hw EXCEPT !.run = EspI2c!Own] EXCEPT !.refused = FALSE]
  BY DEF EspI2c!Start
<1>2. /\ hw' \in EspI2cUnit /\ hw'.run = EspI2c!Own /\ ~hw'.refused
      /\ UNCHANGED <<hw.line, hw.good>>
  BY <1>1, EspI2cServes DEF EspI2cIInv, EspI2cTyped, EspI2cUnit
<1>3. /\ srv' \in EspI2cServer /\ srv'.at = "open"
      /\ UNCHANGED <<srv.user, srv.raw, srv.left>>
      /\ (srv'.late <=> srv.late)
  BY <1>1, EspI2cGoes DEF EspI2cIInv, EspI2c!Places
<1> QED
  BY <1>1, <1>2, <1>3, EspI2cQuiet
     DEF EspI2cIInv, EspI2cTyped, EspI2cWork, EspI2cFinished, EspI2cEnding

LEMMA EspI2cOpen == ASSUME EspI2cIInv, EspI2c!Open PROVE EspI2cIInv'
<1> DEFINE l == EspI2c!Acked(hw.line)
<1>0. EspI2cTyped
  BY DEF EspI2cIInv
<1>1. /\ srv.at = "open" /\ srv' = [srv EXCEPT !.at = "wait"]
      /\ UNCHANGED <<usr, hist>> /\ hw' = [hw EXCEPT !.line = l]
  BY DEF EspI2c!Open
<1>2. /\ l \in EspI2cLines /\ (l.bit <=> hw.line.bit)
      /\ l.raw = hw.line.raw /\ l.ena = hw.line.ena
  BY <1>0, EspI2cLineIs DEF EspI2cLines, EspI2c!LineType
<1>3. /\ srv' \in EspI2cServer /\ srv'.at = "wait"
      /\ UNCHANGED <<srv.user, srv.raw, srv.left>>
      /\ (srv'.late <=> srv.late)
  BY <1>1, EspI2cGoes DEF EspI2cIInv, EspI2c!Places
<1> HIDE DEF l
<1>4. /\ hw' \in EspI2cUnit /\ hw'.line = l
      /\ UNCHANGED <<hw.run, hw.good>> /\ (hw'.refused <=> hw.refused)
  BY <1>0, <1>1, <1>2, EspI2cLine
<1> QED
  BY <1>1, <1>2, <1>3, EspI2cQuiet, <1>4
     DEF EspI2cIInv, EspI2cTyped, EspI2cWork, EspI2cFinished, EspI2cEnding

LEMMA EspI2cWoken == ASSUME EspI2cIInv, EspI2c!Woken PROVE EspI2cIInv'
<1> DEFINE l == EspI2c!Acked(EspI2c!Taken(hw.line))
<1>0. EspI2cTyped
  BY DEF EspI2cIInv
<1>1. /\ srv.at = "wait" /\ hw.line.bit /\ srv' = [srv EXCEPT !.at = "read"]
      /\ UNCHANGED <<usr, hist>> /\ hw' = [hw EXCEPT !.line = l]
  BY DEF EspI2c!Woken
<1>2. /\ l \in EspI2cLines /\ ~l.bit
      /\ l.raw = hw.line.raw /\ l.ena = hw.line.ena
  BY <1>0, EspI2cLineIs DEF EspI2cLines, EspI2c!LineType
<1>3. /\ srv' \in EspI2cServer /\ srv'.at = "read"
      /\ UNCHANGED <<srv.user, srv.raw, srv.left>>
      /\ (srv'.late <=> srv.late)
  BY <1>1, EspI2cGoes DEF EspI2cIInv, EspI2c!Places
<1> HIDE DEF l
<1>4. /\ hw' \in EspI2cUnit /\ hw'.line = l
      /\ UNCHANGED <<hw.run, hw.good>> /\ (hw'.refused <=> hw.refused)
  BY <1>0, <1>1, <1>2, EspI2cLine
<1> QED
  BY <1>1, <1>2, <1>3, EspI2cQuiet, <1>4
     DEF EspI2cIInv, EspI2cTyped, EspI2cWork, EspI2cFinished, EspI2cEnding

LEMMA EspI2cTimesOut == ASSUME EspI2cIInv, EspI2c!TimesOut PROVE EspI2cIInv'
<1>1. /\ srv.at = "wait" /\ srv' = [srv EXCEPT !.at = "late"]
      /\ UNCHANGED <<usr, hw, hist>>
  BY DEF EspI2c!TimesOut
<1>2. /\ srv' \in EspI2cServer /\ srv'.at = "late"
      /\ UNCHANGED <<srv.user, srv.raw, srv.left>>
      /\ (srv'.late <=> srv.late)
  BY <1>1, EspI2cGoes DEF EspI2cIInv, EspI2c!Places
<1> QED
  BY <1>1, <1>2, EspI2cQuiet
     DEF EspI2cIInv, EspI2cTyped, EspI2cWork, EspI2cFinished, EspI2cEnding

LEMMA EspI2cTooLate == ASSUME EspI2cIInv, EspI2c!TooLate PROVE EspI2cIInv'
<1> DEFINE l == EspI2c!Acked(hw.line)
           b == hw.line.raw = {}
<1>0. EspI2cTyped
  BY DEF EspI2cIInv
<1>1. /\ srv.at = "late" /\ UNCHANGED <<usr, hist>>
      /\ srv' = [[srv EXCEPT !.at = "read"] EXCEPT !.late = b]
      /\ hw' = [hw EXCEPT !.line = l]
  BY DEF EspI2c!TooLate
<1>2. /\ l \in EspI2cLines /\ l.raw = hw.line.raw /\ l.ena = hw.line.ena
      /\ b \in BOOLEAN /\ (~b => hw.line.raw # {})
  BY <1>0, EspI2cLineIs DEF EspI2cLines, EspI2c!LineType
<1> HIDE DEF l, b
<1>3. /\ hw' \in EspI2cUnit /\ hw'.line = l
      /\ UNCHANGED <<hw.run, hw.good>> /\ (hw'.refused <=> hw.refused)
  BY <1>0, <1>1, <1>2, EspI2cLine
<1>4. /\ srv' \in EspI2cServer /\ srv'.at = "read" /\ (srv'.late <=> b)
      /\ srv'.user = srv.user
  BY <1>0, <1>1, <1>2 DEF EspI2cTyped, EspI2cServer, EspI2c!Places
<1> QED
  BY <1>0, <1>1, <1>2, <1>3, <1>4, EspI2cQuiet
     DEF EspI2cIInv, EspI2cTyped, EspI2cWork, EspI2cFinished, EspI2cEnding

LEMMA EspI2cReadRaw == ASSUME EspI2cIInv, EspI2c!ReadRaw PROVE EspI2cIInv'
<1>0. EspI2cTyped
  BY DEF EspI2cIInv
<1>1. /\ srv.at = "read" /\ UNCHANGED <<usr, hw, hist>>
      /\ srv' = [[srv EXCEPT !.at = "finish"] EXCEPT !.raw = hw.line.raw]
  BY DEF EspI2c!ReadRaw
<1>2. /\ srv' \in EspI2cServer /\ srv'.at = "finish"
      /\ (srv'.late <=> srv.late)
      /\ srv'.raw = hw.line.raw /\ srv'.user = srv.user
  BY <1>0, <1>1, EspI2cLineIs DEF EspI2cTyped, EspI2cServer, EspI2c!Places
<1> QED
  BY <1>0, <1>1, <1>2, EspI2cQuiet
     DEF EspI2cIInv, EspI2cTyped, EspI2cWork, EspI2cFinished, EspI2cEnding

LEMMA EspI2cFinish == ASSUME EspI2cIInv, EspI2c!Finish PROVE EspI2cIInv'
<1> DEFINE l == EspI2c!Cleared(hw.line, EspI2c!Events)
           rc == IF EspI2c!Call = "read" /\ EspI2c!Verdict # "ok"
                 THEN "einval" ELSE EspI2c!Verdict
<1>0. EspI2cTyped
  BY DEF EspI2cIInv
<1>1. /\ srv.at = "finish" /\ UNCHANGED hist
      /\ hw' = [hw EXCEPT !.line = l] /\ EspI2c!Reply(rc, hw.good)
  BY DEF EspI2c!Finish
<1>2. l \in EspI2cLines /\ l.ena = hw.line.ena
  BY <1>0, EspI2cLineIs DEF EspI2cLines, EspI2c!LineType
<1>3. EspI2c!Verdict \in EspI2cRcs
  BY DEF EspI2c!Verdict, EspI2cRcs
<1>4. rc \in EspI2cRcs
  BY <1>3 DEF EspI2cRcs
<1>5. rc = "ok" => "done" \in srv.raw /\ "nack" \notin srv.raw
  BY DEF EspI2c!Verdict
<1> HIDE DEF l, rc
<1>6. /\ hw' \in EspI2cUnit /\ hw'.line = l
  BY <1>0, <1>1, <1>2, EspI2cLine
<1>7. hw.good \in 0 .. Few /\ hist' \in EspI2cHist
  BY <1>0, <1>1 DEF EspI2cTyped, EspI2cUnit
<1>8. /\ EspI2cTyped' /\ srv'.at = "recv"
      /\ usr'[srv.user].rc = rc
      /\ usr'[srv.user].n = EspI2c!Own /\ usr'[srv.user].val = hw.good
      /\ \A v \in Several : v # srv.user => usr'[v] = usr[v]
  BY <1>0, <1>1, <1>4, <1>6, <1>7, EspI2cReplied
<1>9. EspI2cWork'
  BY <1>2, <1>6, <1>8 DEF EspI2cIInv, EspI2cWork, EspI2cFinished
<1>10. rc = "ok" => hw.good = EspI2c!Own \/ EspI2c!Own \in hist
  BY <1>1, <1>5 DEF EspI2cIInv, EspI2cWork, EspI2cFinished
<1>11. EspI2cAnswers'
  BY <1>1, <1>8, <1>10 DEF EspI2cIInv, EspI2cAnswers, EspI2c!OkIsTrue
<1> QED  BY <1>8, <1>9, <1>11 DEF EspI2cIInv

(* An event is latched.                                                    *)
LEMMA EspI2cLatches ==
    ASSUME EspI2cTyped, NEW e \in EspI2c!Events
    PROVE  LET l == EspI2c!Latched(hw.line, e) IN
           /\ l \in EspI2cLines /\ l.raw = hw.line.raw \cup {e}
           /\ l.ena = hw.line.ena /\ (l.bit <=> hw.line.bit)
           /\ (l.masked <=> hw.line.masked)
BY EspI2cLineIs DEF EspI2cLines, EspI2c!LineType, EspI2c!Latched

LEMMA EspI2cNack == ASSUME EspI2cIInv, EspI2c!Nack PROVE EspI2cIInv'
<1> DEFINE l == EspI2c!Latched(hw.line, "nack")
           h == [hw EXCEPT !.line = l]
<1>0. EspI2cTyped
  BY DEF EspI2cIInv
<1>1. /\ UNCHANGED <<usr, srv, hist>> /\ hw.run # 0
      /\ hw' = [h EXCEPT !.refused = TRUE]
  BY DEF EspI2c!Nack
<1>2. /\ l \in EspI2cLines /\ l.raw = hw.line.raw \cup {"nack"}
      /\ l.ena = hw.line.ena /\ (l.bit <=> hw.line.bit)
      /\ (l.masked <=> hw.line.masked)
  BY <1>0, EspI2cLatches DEF EspI2c!Events
<1> HIDE DEF l
<1>3. /\ h \in EspI2cUnit /\ h.line = l /\ h.run = hw.run
      /\ h.good = hw.good /\ (h.refused <=> hw.refused)
  BY <1>0, <1>2 DEF EspI2cTyped, EspI2cUnit
<1> HIDE DEF h
<1>4. /\ hw' \in EspI2cUnit /\ hw'.line = l /\ hw'.refused
      /\ hw'.run = hw.run /\ hw'.good = hw.good
  BY <1>1, <1>3 DEF EspI2cUnit
<1> QED
  BY <1>0, <1>1, <1>2, <1>3, <1>4, EspI2cOutside, EspI2cServes
     DEF EspI2cIInv, EspI2cTyped, EspI2cWork, EspI2cFinished, EspI2cEnding

LEMMA EspI2cBusFault == ASSUME EspI2cIInv, EspI2c!BusFault PROVE EspI2cIInv'
<1> DEFINE l == EspI2c!Latched(hw.line, "fault")
           h == [hw EXCEPT !.line = l]
<1>0. EspI2cTyped
  BY DEF EspI2cIInv
<1>1. /\ UNCHANGED <<usr, srv, hist>> /\ hw.run # 0
      /\ hw' = [h EXCEPT !.run = 0]
  BY DEF EspI2c!BusFault
<1>2. /\ l \in EspI2cLines /\ l.raw = hw.line.raw \cup {"fault"}
      /\ l.ena = hw.line.ena /\ (l.bit <=> hw.line.bit)
      /\ (l.masked <=> hw.line.masked)
  BY <1>0, EspI2cLatches DEF EspI2c!Events
<1> HIDE DEF l
<1>3. /\ h \in EspI2cUnit /\ h.line = l /\ h.run = hw.run
      /\ h.good = hw.good /\ (h.refused <=> hw.refused)
  BY <1>0, <1>2 DEF EspI2cTyped, EspI2cUnit
<1> HIDE DEF h
<1>4. /\ hw' \in EspI2cUnit /\ hw'.line = l /\ hw'.run = 0
      /\ (hw'.refused <=> hw.refused) /\ hw'.good = hw.good
  BY <1>1, <1>3, ServersAssumption DEF EspI2cUnit
<1> QED
  BY <1>0, <1>1, <1>2, <1>3, <1>4, EspI2cOutside, EspI2cServes
     DEF EspI2cIInv, EspI2cTyped, EspI2cWork, EspI2cFinished, EspI2cEnding

LEMMA EspI2cTransComplete ==
    ASSUME EspI2cIInv, EspI2c!TransComplete PROVE EspI2cIInv'
<1> DEFINE l == EspI2c!Latched(hw.line, "done")
           h == [hw EXCEPT !.line = l]
           g == [h EXCEPT !.run = 0]
           good == IF hw.refused THEN hw.good ELSE hw.run
<1>0. EspI2cTyped
  BY DEF EspI2cIInv
<1>1. /\ UNCHANGED <<usr, srv, hist>> /\ hw.run # 0
      /\ hw' = [g EXCEPT !.good = good]
  BY DEF EspI2c!TransComplete
<1>2. /\ l \in EspI2cLines /\ l.raw = hw.line.raw \cup {"done"}
      /\ l.ena = hw.line.ena /\ (l.bit <=> hw.line.bit)
      /\ (l.masked <=> hw.line.masked)
  BY <1>0, EspI2cLatches DEF EspI2c!Events
<1> HIDE DEF l
<1>3. /\ h \in EspI2cUnit /\ h.line = l /\ h.run = hw.run
      /\ h.good = hw.good /\ (h.refused <=> hw.refused)
  BY <1>0, <1>2 DEF EspI2cTyped, EspI2cUnit
<1> HIDE DEF h
<1>5. /\ g \in EspI2cUnit /\ g.line = l /\ g.run = 0
      /\ (g.refused <=> hw.refused)
  BY <1>3, ServersAssumption DEF EspI2cUnit
<1> HIDE DEF g
<1>6. /\ good \in 0 .. Few
      /\ ~hw.refused => good = hw.run
  BY <1>0 DEF EspI2cTyped, EspI2cUnit
<1> HIDE DEF good
<1>4. /\ hw' \in EspI2cUnit /\ hw'.line = l /\ hw'.run = 0
      /\ (hw'.refused <=> hw.refused) /\ hw'.good = good
  BY <1>1, <1>5, <1>6 DEF EspI2cUnit
<1> QED
  BY <1>0, <1>1, <1>2, <1>3, <1>4, EspI2cOutside, EspI2cServes, <1>6
     DEF EspI2cIInv, EspI2cTyped, EspI2cWork, EspI2cFinished, EspI2cEnding

LEMMA EspI2cInterrupt == ASSUME EspI2cIInv, EspI2c!Interrupt PROVE EspI2cIInv'
<1> DEFINE l == EspI2c!Delivered(hw.line)
<1>0. EspI2cTyped
  BY DEF EspI2cIInv
<1>1. /\ UNCHANGED <<usr, srv, hist>> /\ hw' = [hw EXCEPT !.line = l]
      /\ hw.line.raw # {} /\ ~hw.line.masked
  BY DEF EspI2c!Interrupt
<1>2. /\ l \in EspI2cLines /\ l.raw = hw.line.raw /\ l.ena = hw.line.ena
      /\ l.masked
  BY <1>0, EspI2cLineIs DEF EspI2cLines, EspI2c!LineType
<1> HIDE DEF l
<1>3. /\ hw' \in EspI2cUnit /\ hw'.line = l
      /\ UNCHANGED <<hw.run, hw.good>> /\ (hw'.refused <=> hw.refused)
  BY <1>0, <1>1, <1>2, EspI2cLine
<1> QED
  BY <1>0, <1>1, <1>2, <1>3, EspI2cOutside
     DEF EspI2cIInv, EspI2cTyped, EspI2cWork, EspI2cFinished, EspI2cEnding

LEMMA EspI2cNext == ASSUME EspI2cIInv, EspI2c!Next PROVE EspI2cIInv'
BY EspI2cRequest, EspI2cReceive, EspI2cDrainNotif, EspI2cClearEvents,
   EspI2cResetBusy, EspI2cStart, EspI2cOpen, EspI2cWoken, EspI2cTimesOut,
   EspI2cTooLate, EspI2cReadRaw, EspI2cFinish, EspI2cNack,
   EspI2cTransComplete, EspI2cBusFault, EspI2cInterrupt
   DEF EspI2c!Next, EspI2c!Proceed

LEMMA EspI2cStutter ==
    ASSUME EspI2cIInv, UNCHANGED <<usr, srv, hw, hist>> PROVE EspI2cIInv'
BY DEF EspI2cIInv, EspI2cTyped, EspI2c!Call, EspI2cWork, EspI2c!Own,
       EspI2cFinished, EspI2cEnding, EspI2cAnswers, EspI2c!OkIsTrue

LEMMA EspI2cSafe ==
    EspI2cIInv => EspI2c!TypeOK /\ EspI2c!OkIsTrue /\ EspI2c!Traced
<1>1. EspI2cUsers = EspI2c!UserType({"write", "read"},
                        {"ok", "esrch", "einval", "etimeout"})
  BY DEF EspI2cUsers, EspI2cUser, UserRec, EspI2cRcs, EspI2cCalls,
     EspI2c!UserType
<1>2. EspI2cIInv => EspI2c!TypeOK
  BY <1>1 DEF EspI2cIInv, EspI2cTyped, EspI2cServer, EspI2cUnit, EspI2cHist,
     EspI2cLines, EspI2c!TypeOK
<1> QED
  BY <1>2 DEF EspI2cIInv, EspI2cTyped, EspI2cWork, EspI2cFinished,
     EspI2cAnswers, EspI2c!Traced

(* EspI2cKeeps.  The I2C server of the ESP32-P4 board: a transfer answered *)
(* OK is one the slave acknowledged to its end, and the server is woken by *)
(* events only, unless the transfer before was unfinished when this one    *)
(* began.                                                                  *)
THEOREM EspI2cKeeps ==
    EspI2c!Spec => [](EspI2c!TypeOK /\ EspI2c!OkIsTrue /\ EspI2c!Traced)
<1>1. EspI2c!Init => EspI2cIInv
  BY EspI2cInit
<1>2. EspI2cIInv /\ [EspI2c!Next]_EspI2c!vars => EspI2cIInv'
  BY EspI2cNext, EspI2cStutter DEF EspI2c!vars
<1>3. EspI2cIInv => EspI2c!TypeOK /\ EspI2c!OkIsTrue /\ EspI2c!Traced
  BY EspI2cSafe
<1> QED  BY <1>1, <1>2, <1>3, PTL DEF EspI2c!Spec

HIDE DEF EspI2c!None, EspI2c!Ids, EspI2c!Own, EspI2c!Call, EspI2c!Goto,
         EspI2c!Resting, EspI2c!ServerType, EspI2c!Acked, EspI2c!Taken,
         EspI2c!Delivered, EspI2c!Latched, EspI2c!Cleared, EspI2c!Due

-----------------------------------------------------------------------------
(* The CAN (TWAI) server of the ESP32-P4 board.                            *)

USE DEF EspTwai!None, EspTwai!Ids, EspTwai!Own, EspTwai!Call, EspTwai!Goto,
        EspTwai!Resting, EspTwai!ServerType, EspTwai!Acked, EspTwai!Taken,
        EspTwai!Delivered, EspTwai!Latched, EspTwai!Cleared,
        EspTwai!Enabled, EspTwai!Due, EspTwai!Read

EspTwaiCalls  == {"send", "recv"}
EspTwaiRcs    == {"ok", "etimeout"}
EspTwaiUser   == UserRec(EspTwaiCalls, EspTwaiRcs, Many)
EspTwaiUsers  == [Several -> EspTwaiUser]
EspTwaiServer == EspTwai!ServerType(EspTwai!Places, {}, 0)
EspTwaiLines  == EspTwai!LineType(EspTwai!Twai)
EspTwaiFrames == Seq(0 .. Many)
EspTwaiUnit   == [line : EspTwaiLines, wire : 0 .. Many,
                  fifo : EspTwaiFrames, last : 0 .. Many]
EspTwaiHist   == BOOLEAN

EspTwaiTyped ==
    /\ usr \in EspTwaiUsers /\ srv \in EspTwaiServer
    /\ hw \in EspTwaiUnit /\ hist \in EspTwaiHist
    /\ \A u \in Several : usr[u].at # "idle" => usr[u].n # 0
    /\ srv.at # "recv" => EspTwai!Call \in EspTwaiCalls

(* Until the server gives up a wait, a frame is in the controller only     *)
(* while the SEND it belongs to is served: on the wire or in the FIFO.     *)
EspTwaiClean ==
    /\ "rx" \in hw.line.raw => hw.fifo # <<>>
    /\ srv.at \in {"recv", "last", "tx?", "load"} =>
          hw.fifo = <<>> /\ hw.wire = 0 /\ ~hw.line.bit /\ hw.line.ena = {}
    /\ srv.at \notin {"open tx", "wait tx", "close tx"}
    /\ srv.at \in {"rx?", "open rx", "wait rx", "close rx", "drain"} =>
          \/ hw.wire = EspTwai!Own /\ hw.fifo = <<>>
          \/ hw.wire = 0 /\ hw.fifo = <<EspTwai!Own>>
    /\ srv.at \in {"rx?", "open rx", "drain"} =>
          ~hw.line.bit /\ hw.line.ena = {}
    /\ srv.at = "wait rx" =>
          /\ hw.line.ena = {"rx"} /\ ~srv.late
          /\ hw.line.bit => hw.line.masked /\ hw.fifo # <<>>
    /\ srv.at = "close rx" =>
          hw.line.masked /\ ~hw.line.bit /\ ~srv.late /\ hw.fifo # <<>>
    /\ srv.at = "drain" => hw.fifo # <<>>

EspTwaiWork == ~hist => EspTwaiClean

EspTwaiIInv == EspTwaiTyped /\ EspTwaiWork

LEMMA EspTwaiServes ==
    ASSUME EspTwaiTyped
    PROVE  /\ srv.user \in Several /\ EspTwai!Own \in 0 .. Many
           /\ srv.at # "recv" => EspTwai!Own # 0
<1>1. srv.user \in Several /\ usr \in [Several -> EspTwaiUser]
  BY DEF EspTwaiTyped, EspTwaiServer, EspTwaiUsers
<1>2. EspTwai!Own \in 0 .. Many
  BY <1>1 DEF EspTwaiUser, UserRec
<1>3. srv.at # "recv" => EspTwai!Call # "idle"
  BY DEF EspTwaiTyped, EspTwaiCalls
<1> QED  BY <1>1, <1>2, <1>3 DEF EspTwaiTyped

LEMMA EspTwaiBegins ==
    ASSUME usr = EspTwai!IdleUsers,
           srv = EspTwai!Resting(CHOOSE u \in Several : TRUE)
    PROVE  /\ usr \in EspTwaiUsers /\ srv \in EspTwaiServer /\ srv.at = "recv"
           /\ \A u \in Several : usr[u].at = "idle" /\ usr[u].rc = ""
<1>1. [at |-> "idle", n |-> 0, rc |-> "", val |-> 0] \in EspTwaiUser
  BY ServersAssumption DEF EspTwaiUser, UserRec
<1>2. /\ usr \in EspTwaiUsers
      /\ \A u \in Several : usr[u].at = "idle" /\ usr[u].rc = ""
  BY <1>1 DEF EspTwai!IdleUsers, EspTwaiUsers
<1>3. (CHOOSE u \in Several : TRUE) \in Several
  BY ServersAssumption
<1>4. srv \in EspTwaiServer /\ srv.at = "recv"
  BY <1>3, ServersAssumption DEF EspTwaiServer
<1> QED  BY <1>2, <1>4

LEMMA EspTwaiAsked ==
    ASSUME EspTwaiTyped, NEW u \in Several, NEW call \in EspTwaiCalls,
           EspTwai!Ask(u, call)
    PROVE  /\ EspTwaiTyped' /\ UNCHANGED <<srv, hw, hist>>
           /\ usr'[u].rc = "" /\ usr'[u].at = call
           /\ \A v \in Several : v # u => usr'[v] = usr[v]
           /\ srv.at # "recv" =>
                 EspTwai!Own' = EspTwai!Own /\ EspTwai!Call' = EspTwai!Call
<1>1. PICK n \in 1 .. Many :
         usr' = [usr EXCEPT ![u] = [at |-> call, n |-> n, rc |-> "",
                                    val |-> 0]]
  BY DEF EspTwai!Ask
<1>2. usr[u].at = "idle" /\ UNCHANGED <<srv, hw, hist>>
  BY DEF EspTwai!Ask
<1>3. [at |-> call, n |-> n, rc |-> "", val |-> 0] \in EspTwaiUser
  BY AskRec, ServersAssumption DEF EspTwaiUser
<1>4. /\ usr' \in EspTwaiUsers
      /\ usr'[u].at = call /\ usr'[u].n = n /\ usr'[u].rc = ""
      /\ \A v \in Several : v # u => usr'[v] = usr[v]
  BY <1>1, <1>3 DEF EspTwaiTyped, EspTwaiUsers
<1>5. srv.at # "recv" => srv.user # u /\ srv.user \in Several
  BY <1>2, EspTwaiServes DEF EspTwaiTyped, EspTwaiCalls
<1>6. n # 0
  OBVIOUS
<1>7. \A v \in Several : usr'[v].at # "idle" => usr'[v].n # 0
  BY <1>4, <1>6 DEF EspTwaiTyped
<1>8. srv.at # "recv" =>
         EspTwai!Own' = EspTwai!Own /\ EspTwai!Call' = EspTwai!Call
  BY <1>2, <1>4, <1>5
<1> QED  BY <1>2, <1>4, <1>7, <1>8 DEF EspTwaiTyped

LEMMA EspTwaiReceived ==
    ASSUME EspTwaiTyped, NEW u \in Several, usr[u].at \in EspTwaiCalls,
           NEW next \in EspTwai!Places, NEW left \in 0 .. 0,
           srv' = [at |-> next, user |-> u, late |-> FALSE, raw |-> {},
                   left |-> left],
           UNCHANGED <<usr, hw, hist>>
    PROVE  /\ EspTwaiTyped' /\ srv'.at = next /\ srv'.user = u
           /\ srv'.late = FALSE /\ srv'.raw = {} /\ srv'.left = left
<1>1. srv' \in EspTwaiServer /\ srv'.at = next /\ srv'.user = u
  BY DEF EspTwaiServer
<1> QED  BY <1>1 DEF EspTwaiTyped

LEMMA EspTwaiGoes ==
    ASSUME EspTwaiTyped, NEW next \in EspTwai!Places,
           srv' = [srv EXCEPT !.at = next]
    PROVE  /\ srv' \in EspTwaiServer /\ srv'.at = next
           /\ UNCHANGED <<srv.user, srv.raw, srv.left>>
           /\ (srv'.late <=> srv.late)
BY DEF EspTwaiTyped, EspTwaiServer

LEMMA EspTwaiReplied ==
    ASSUME EspTwaiTyped, NEW rc \in EspTwaiRcs, NEW val \in 0 .. Many,
           EspTwai!Reply(rc, val), hw' \in EspTwaiUnit, hist' \in EspTwaiHist
    PROVE  /\ EspTwaiTyped' /\ srv'.at = "recv" /\ srv'.user = srv.user
           /\ usr'[srv.user].at = "idle" /\ usr'[srv.user].rc = rc
           /\ usr'[srv.user].n = usr[srv.user].n /\ usr'[srv.user].val = val
           /\ \A v \in Several : v # srv.user => usr'[v] = usr[v]
<1> DEFINE x == [[[usr[srv.user] EXCEPT !.at = "idle"] EXCEPT !.rc = rc]
                    EXCEPT !.val = val]
<1>1. srv.user \in Several /\ usr \in [Several -> EspTwaiUser]
  BY EspTwaiServes DEF EspTwaiTyped, EspTwaiUsers
<1>2. /\ x \in EspTwaiUser
      /\ x.at = "idle" /\ x.n = usr[srv.user].n /\ x.rc = rc /\ x.val = val
  <2>1. usr[srv.user] \in EspTwaiUser
    BY <1>1
  <2> QED  BY <2>1, ServersAssumption DEF EspTwaiUser, UserRec
<1>3. /\ usr' \in EspTwaiUsers /\ usr'[srv.user] = x
      /\ \A v \in Several : v # srv.user => usr'[v] = usr[v]
  BY <1>1, <1>2, Thrice DEF EspTwai!Reply, EspTwaiUsers
<1>4. srv' \in EspTwaiServer /\ srv'.at = "recv" /\ srv'.user = srv.user
  BY <1>1 DEF EspTwai!Reply, EspTwaiServer
<1> HIDE DEF x
<1>5. \A v \in Several : usr'[v].at # "idle" => usr'[v].n # 0
  BY <1>2, <1>3 DEF EspTwaiTyped
<1> QED  BY <1>2, <1>3, <1>4, <1>5 DEF EspTwaiTyped

(* A step that leaves the users alone.                                     *)
LEMMA EspTwaiQuiet ==
    ASSUME EspTwaiIInv, UNCHANGED usr, srv' \in EspTwaiServer,
           srv'.at # "recv",
           srv'.user = srv.user, srv.at # "recv",
           hw' \in EspTwaiUnit, hist' \in EspTwaiHist, EspTwaiWork'
    PROVE  EspTwaiIInv'
BY DEF EspTwaiIInv, EspTwaiTyped

(* A step of the peripheral.                                               *)
LEMMA EspTwaiOutside ==
    ASSUME EspTwaiIInv, UNCHANGED <<usr, srv, hist>>, hw' \in EspTwaiUnit,
           EspTwaiWork'
    PROVE  EspTwaiIInv'
BY DEF EspTwaiIInv, EspTwaiTyped

LEMMA EspTwaiQueue ==
    ASSUME NEW x, NEW s, s = <<>>
    PROVE  /\ Append(s, x) = <<x>> /\ <<x>> # <<>> /\ Head(<<x>>) = x
           /\ Tail(<<x>>) = <<>>
OBVIOUS

LEMMA EspTwaiInit == ASSUME EspTwai!Init PROVE EspTwaiIInv
<1>1. /\ usr = EspTwai!IdleUsers /\ hist = FALSE
      /\ srv = EspTwai!Resting(CHOOSE u \in Several : TRUE)
      /\ hw = [line |-> EspTwai!Line({}), wire |-> 0, fifo |-> <<>>,
               last |-> 0]
  BY DEF EspTwai!Init
<1>2. /\ EspTwai!Line({}) \in EspTwaiLines /\ ~EspTwai!Line({}).bit
      /\ EspTwai!Line({}).ena = {} /\ EspTwai!Line({}).raw = {}
  BY DEF EspTwai!Line, EspTwaiLines, EspTwai!LineType
<1>3. <<>> \in EspTwaiFrames
  BY DEF EspTwaiFrames
<1>4. hw \in EspTwaiUnit
  BY <1>1, <1>2, <1>3, ServersAssumption DEF EspTwaiUnit
<1>5. EspTwaiClean
  BY <1>1, <1>2, EspTwaiBegins DEF EspTwaiClean
<1> QED
  BY <1>1, <1>4, <1>5, EspTwaiBegins
     DEF EspTwaiIInv, EspTwaiTyped, EspTwaiHist, EspTwaiWork

LEMMA EspTwaiRequest ==
    ASSUME EspTwaiIInv, NEW u \in Several, EspTwai!Request(u)
    PROVE  EspTwaiIInv'
<1>1. PICK call \in EspTwaiCalls : EspTwai!Ask(u, call)
  BY DEF EspTwai!Request, EspTwaiCalls
<1> QED
  BY <1>1, EspTwaiAsked DEF EspTwaiIInv, EspTwaiWork, EspTwaiClean

LEMMA EspTwaiReceive ==
    ASSUME EspTwaiIInv, NEW u \in Several, EspTwai!Receive(u)
    PROVE  EspTwaiIInv'
<1>1. PICK next \in {"tx?", "last"} :
         /\ srv.at = "recv" /\ usr[u].at \in EspTwaiCalls
         /\ UNCHANGED <<usr, hw, hist>>
         /\ srv' = [at |-> next, user |-> u, late |-> FALSE, raw |-> {},
                    left |-> 0]
  BY DEF EspTwai!Receive, EspTwai!Recv, EspTwaiCalls
<1>2. next \in EspTwai!Places
  BY <1>1 DEF EspTwai!Places
<1>4. 0 \in 0 .. 0
  OBVIOUS
<1>3. EspTwaiTyped' /\ srv'.at = next
  BY <1>1, <1>2, <1>4, EspTwaiReceived DEF EspTwaiIInv
<1> QED  BY <1>1, <1>3 DEF EspTwaiIInv, EspTwaiWork, EspTwaiClean

(* The line set to another.                                                *)
LEMMA EspTwaiLine ==
    ASSUME EspTwaiTyped, NEW l \in EspTwaiLines, hw' = [hw EXCEPT !.line = l]
    PROVE  /\ hw' \in EspTwaiUnit /\ hw'.line = l
           /\ UNCHANGED <<hw.wire, hw.fifo, hw.last>>
BY DEF EspTwaiTyped, EspTwaiUnit

LEMMA EspTwaiLineIs ==
    ASSUME EspTwaiTyped
    PROVE  hw.line \in EspTwaiLines /\ hw.line.raw \subseteq EspTwai!Twai
BY DEF EspTwaiTyped, EspTwaiUnit, EspTwaiLines, EspTwai!LineType

LEMMA EspTwaiAnswerLast ==
    ASSUME EspTwaiIInv, EspTwai!AnswerLast PROVE EspTwaiIInv'
<1>0. EspTwaiTyped
  BY DEF EspTwaiIInv
<1>1. /\ srv.at = "last" /\ UNCHANGED <<hw, hist>>
      /\ EspTwai!Reply("ok", hw.last)
  BY DEF EspTwai!AnswerLast
<1>2. "ok" \in EspTwaiRcs /\ hw.last \in 0 .. Many
  BY <1>0 DEF EspTwaiRcs, EspTwaiTyped, EspTwaiUnit
<1>3. EspTwaiTyped' /\ srv'.at = "recv"
  BY <1>0, <1>1, <1>2, EspTwaiReplied DEF EspTwaiTyped
<1> QED  BY <1>1, <1>3 DEF EspTwaiIInv, EspTwaiWork, EspTwaiClean

(* From one place to the next, with another line.                          *)
LEMMA EspTwaiStep ==
    ASSUME EspTwaiIInv, NEW next \in EspTwai!Places, srv.at # "recv",
           srv' = [srv EXCEPT !.at = next], UNCHANGED <<usr, hist>>,
           NEW l \in EspTwaiLines, hw' = [hw EXCEPT !.line = l],
           srv'.at = next /\ srv'.user = srv.user /\ (srv'.late <=> srv.late)
              /\ hw'.line = l /\ UNCHANGED <<hw.wire, hw.fifo>>
              => EspTwaiWork'
    PROVE  EspTwaiIInv'
<1>1. /\ hw' \in EspTwaiUnit /\ hw'.line = l
      /\ UNCHANGED <<hw.wire, hw.fifo, hw.last>>
  BY EspTwaiLine DEF EspTwaiIInv
<1>2. /\ srv' \in EspTwaiServer /\ srv'.at = next /\ srv'.user = srv.user
      /\ (srv'.late <=> srv.late) /\ next # "recv"
  BY EspTwaiGoes DEF EspTwaiIInv, EspTwai!Places
<1> QED  BY <1>1, <1>2, EspTwaiQuiet DEF EspTwaiIInv, EspTwaiTyped

LEMMA EspTwaiCheckTx == ASSUME EspTwaiIInv, EspTwai!CheckTx PROVE EspTwaiIInv'
<1> DEFINE next == IF hw.wire = 0 THEN "load" ELSE "open tx"
<1>0. EspTwaiTyped
  BY DEF EspTwaiIInv
<1>1. /\ srv.at = "tx?" /\ srv' = [srv EXCEPT !.at = next]
      /\ UNCHANGED <<usr, hw, hist>>
  BY DEF EspTwai!CheckTx
<1>2. next \in EspTwai!Places
  BY DEF EspTwai!Places
<1>3. ~hist => next = "load"
  BY <1>1 DEF EspTwaiIInv, EspTwaiWork, EspTwaiClean
<1> HIDE DEF next
<1>4. /\ srv' \in EspTwaiServer /\ srv'.at = next /\ srv'.user = srv.user
      /\ next # "recv"
  BY <1>0, <1>1, <1>2, EspTwaiGoes DEF EspTwai!Places
<1> QED
  BY <1>0, <1>1, <1>3, <1>4, EspTwaiQuiet
     DEF EspTwaiIInv, EspTwaiTyped, EspTwaiWork, EspTwaiClean

LEMMA EspTwaiCheckRx == ASSUME EspTwaiIInv, EspTwai!CheckRx PROVE EspTwaiIInv'
<1> DEFINE next == IF hw.fifo = <<>> THEN "open rx" ELSE "drain"
<1>0. EspTwaiTyped
  BY DEF EspTwaiIInv
<1>1. /\ srv.at = "rx?" /\ srv' = [srv EXCEPT !.at = next]
      /\ UNCHANGED <<usr, hw, hist>>
  BY DEF EspTwai!CheckRx
<1>2. next \in EspTwai!Places
  BY DEF EspTwai!Places
<1>3. /\ next \in {"open rx", "drain"}
      /\ next = "drain" => hw.fifo # <<>>
  BY <1>1 DEF EspTwaiIInv, EspTwaiWork, EspTwaiClean
<1> HIDE DEF next
<1>4. /\ srv' \in EspTwaiServer /\ srv'.at = next /\ srv'.user = srv.user
      /\ next # "recv"
  BY <1>0, <1>1, <1>2, EspTwaiGoes DEF EspTwai!Places
<1> QED
  BY <1>0, <1>1, <1>3, <1>4, EspTwaiQuiet
     DEF EspTwaiIInv, EspTwaiTyped, EspTwaiWork, EspTwaiClean

LEMMA EspTwaiOpen ==
    ASSUME EspTwaiIInv, NEW from, NEW events \in SUBSET EspTwai!Twai,
           NEW to \in EspTwai!Places, EspTwai!Open(from, events, to),
           \/ from = "open tx" /\ to = "wait tx"
           \/ from = "open rx" /\ to = "wait rx" /\ events = {"rx"}
    PROVE  EspTwaiIInv'
<1> DEFINE l == EspTwai!Enabled(EspTwai!Acked(EspTwai!Read(hw.line, hw.fifo)),
                                events)
<1>0. EspTwaiTyped
  BY DEF EspTwaiIInv
<1>1. /\ srv.at = from /\ srv' = [[srv EXCEPT !.at = to] EXCEPT !.late = FALSE]
      /\ UNCHANGED <<usr, hist>> /\ hw' = [hw EXCEPT !.line = l]
  BY DEF EspTwai!Open
<1>2. /\ l \in EspTwaiLines /\ l.ena = events /\ (l.bit <=> hw.line.bit)
      /\ "rx" \in l.raw => hw.fifo # <<>>
  BY <1>0, EspTwaiLineIs
     DEF EspTwaiLines, EspTwai!LineType, EspTwai!Twai
<1> HIDE DEF l
<1>3. /\ hw' \in EspTwaiUnit /\ hw'.line = l
      /\ UNCHANGED <<hw.wire, hw.fifo>>
  BY <1>0, <1>1, <1>2, EspTwaiLine
<1>4. /\ srv' \in EspTwaiServer /\ srv'.at = to /\ srv'.user = srv.user
      /\ ~srv'.late
  BY <1>0, <1>1 DEF EspTwaiTyped, EspTwaiServer
<1> QED
  BY <1>0, <1>1, <1>2, <1>3, <1>4, EspTwaiQuiet
     DEF EspTwaiIInv, EspTwaiTyped, EspTwaiWork, EspTwaiClean

LEMMA EspTwaiOpens ==
    ASSUME EspTwaiIInv, EspTwai!OpenTx \/ EspTwai!OpenRx PROVE EspTwaiIInv'
<1>1. /\ "wait tx" \in EspTwai!Places /\ "wait rx" \in EspTwai!Places
      /\ {"tx"} \in SUBSET EspTwai!Twai /\ {"rx"} \in SUBSET EspTwai!Twai
  BY DEF EspTwai!Places, EspTwai!Twai
<1>2. CASE EspTwai!OpenTx
  BY <1>1, <1>2, EspTwaiOpen DEF EspTwai!OpenTx
<1>3. CASE EspTwai!OpenRx
  BY <1>1, <1>3, EspTwaiOpen DEF EspTwai!OpenRx
<1> QED  BY <1>2, <1>3

LEMMA EspTwaiWoken == ASSUME EspTwaiIInv, EspTwai!Woken PROVE EspTwaiIInv'
<1> DEFINE l == EspTwai!Taken(hw.line)
<1>0. EspTwaiTyped
  BY DEF EspTwaiIInv
<1>1. /\ srv.at \in {"wait tx", "wait rx"} /\ hw.line.bit
      /\ srv' = [srv EXCEPT !.at = EspTwai!Closing]
      /\ UNCHANGED <<usr, hist>> /\ hw' = [hw EXCEPT !.line = l]
  BY DEF EspTwai!Woken, EspTwai!Waiting
<1>2. /\ l \in EspTwaiLines /\ ~l.bit /\ l.raw = hw.line.raw
      /\ (l.masked <=> hw.line.masked)
  BY <1>0, EspTwaiLineIs DEF EspTwaiLines, EspTwai!LineType
<1>3. /\ EspTwai!Closing \in EspTwai!Places
      /\ ~hist =>
            EspTwai!Closing = "close rx" /\ srv.at = "wait rx" /\ ~srv.late
  BY <1>1 DEF EspTwai!Closing, EspTwai!Places, EspTwaiIInv, EspTwaiWork,
     EspTwaiClean
<1> HIDE DEF l
<1> QED
  BY <1>1, <1>2, <1>3, EspTwaiStep
     DEF EspTwaiIInv, EspTwaiWork, EspTwaiClean

LEMMA EspTwaiTimesOut ==
    ASSUME EspTwaiIInv, EspTwai!TimesOut PROVE EspTwaiIInv'
<1>0. EspTwaiTyped
  BY DEF EspTwaiIInv
<1>1. /\ srv.at \in {"wait tx", "wait rx"} /\ hist' = TRUE
      /\ srv' = [[srv EXCEPT !.at = EspTwai!Closing] EXCEPT !.late = TRUE]
      /\ UNCHANGED <<usr, hw>>
  BY DEF EspTwai!TimesOut, EspTwai!Waiting
<1>2. EspTwai!Closing \in EspTwai!Places /\ EspTwai!Closing # "recv"
  BY DEF EspTwai!Closing, EspTwai!Places
<1>3. /\ srv' \in EspTwaiServer /\ srv'.at # "recv" /\ srv'.user = srv.user
  BY <1>0, <1>1, <1>2 DEF EspTwaiTyped, EspTwaiServer
<1> QED
  BY <1>0, <1>1, <1>3, EspTwaiQuiet
     DEF EspTwaiTyped, EspTwaiHist, EspTwaiWork

LEMMA EspTwaiCloseTx == ASSUME EspTwaiIInv, EspTwai!CloseTx PROVE EspTwaiIInv'
<1> DEFINE l == EspTwai!Enabled(EspTwai!Read(hw.line, hw.fifo), {})
<1>0. EspTwaiTyped
  BY DEF EspTwaiIInv
<1>1. /\ srv.at = "close tx" /\ UNCHANGED hist
      /\ hw' = [hw EXCEPT !.line = l]
      /\ \/ EspTwai!Reply("etimeout", 0)
         \/ srv' = [srv EXCEPT !.at = "load"] /\ UNCHANGED usr
  BY DEF EspTwai!CloseTx
<1>2. l \in EspTwaiLines
  BY <1>0, EspTwaiLineIs
     DEF EspTwaiLines, EspTwai!LineType, EspTwai!Twai
<1> HIDE DEF l
<1>3. hw' \in EspTwaiUnit
  BY <1>0, <1>1, <1>2, EspTwaiLine
<1>4. hist
  BY <1>1 DEF EspTwaiIInv, EspTwaiWork, EspTwaiClean
<1>5. "etimeout" \in EspTwaiRcs /\ 0 \in 0 .. Many /\ hist' \in EspTwaiHist
  <2>1. 0 \in 0 .. Many
    BY ServersAssumption
  <2> QED  BY <1>0, <1>1, <2>1 DEF EspTwaiRcs, EspTwaiTyped
<1>6. CASE EspTwai!Reply("etimeout", 0)
  BY <1>0, <1>1, <1>3, <1>4, <1>5, <1>6, EspTwaiReplied
     DEF EspTwaiIInv, EspTwaiWork
<1>7. CASE srv' = [srv EXCEPT !.at = "load"] /\ UNCHANGED usr
  <2>1. /\ srv' \in EspTwaiServer /\ srv'.at = "load"
        /\ srv'.user = srv.user
    BY <1>0, <1>7, EspTwaiGoes DEF EspTwai!Places
  <2> QED
    BY <1>1, <1>3, <1>4, <1>5, <1>7, <2>1, EspTwaiQuiet DEF EspTwaiWork
<1> QED  BY <1>1, <1>6, <1>7

LEMMA EspTwaiLoad == ASSUME EspTwaiIInv, EspTwai!Load PROVE EspTwaiIInv'
<1>0. EspTwaiTyped
  BY DEF EspTwaiIInv
<1>1. /\ srv.at = "load" /\ srv' = [srv EXCEPT !.at = "rx?"]
      /\ UNCHANGED <<usr, hist>> /\ hw' = [hw EXCEPT !.wire = EspTwai!Own]
  BY DEF EspTwai!Load
<1>2. /\ hw' \in EspTwaiUnit /\ hw'.wire = EspTwai!Own
      /\ UNCHANGED <<hw.line, hw.fifo>>
  BY <1>0, <1>1, EspTwaiServes DEF EspTwaiTyped, EspTwaiUnit
<1>3. /\ srv' \in EspTwaiServer /\ srv'.at = "rx?" /\ srv'.user = srv.user
  BY <1>0, <1>1, EspTwaiGoes DEF EspTwai!Places
<1> QED
  BY <1>0, <1>1, <1>2, <1>3, EspTwaiQuiet
     DEF EspTwaiIInv, EspTwaiTyped, EspTwaiWork, EspTwaiClean

LEMMA EspTwaiCloseRx == ASSUME EspTwaiIInv, EspTwai!CloseRx PROVE EspTwaiIInv'
<1> DEFINE l == EspTwai!Enabled(EspTwai!Read(hw.line, hw.fifo), {})
           h == [hw EXCEPT !.line = l]
<1>0. EspTwaiTyped
  BY DEF EspTwaiIInv
<1>1. PICK wire \in IF srv.late THEN {0, hw.wire} ELSE {hw.wire} :
         hw' = [h EXCEPT !.wire = wire]
  BY DEF EspTwai!CloseRx
<1>2. /\ srv.at = "close rx" /\ UNCHANGED hist
      /\ srv.late => EspTwai!Reply("etimeout", 0)
      /\ ~srv.late => srv' = [srv EXCEPT !.at = "drain"] /\ UNCHANGED usr
  BY DEF EspTwai!CloseRx
<1>3. /\ l \in EspTwaiLines /\ l.ena = {} /\ (l.bit <=> hw.line.bit)
  BY <1>0, EspTwaiLineIs
     DEF EspTwaiLines, EspTwai!LineType, EspTwai!Twai
<1> HIDE DEF l
<1>4. h \in EspTwaiUnit /\ h.line = l /\ h.fifo = hw.fifo
  BY <1>0, <1>3 DEF EspTwaiTyped, EspTwaiUnit
<1>5. wire \in 0 .. Many /\ (~srv.late => wire = hw.wire)
  BY <1>0, <1>1, ServersAssumption DEF EspTwaiTyped, EspTwaiUnit
<1> HIDE DEF h
<1>6. /\ hw' \in EspTwaiUnit /\ hw'.line = l /\ hw'.fifo = hw.fifo
      /\ hw'.wire = wire
  BY <1>1, <1>4, <1>5 DEF EspTwaiUnit
<1>7. "etimeout" \in EspTwaiRcs /\ 0 \in 0 .. Many /\ hist' \in EspTwaiHist
  <2>1. 0 \in 0 .. Many
    BY ServersAssumption
  <2> QED  BY <1>0, <1>2, <2>1 DEF EspTwaiRcs, EspTwaiTyped
<1>8. CASE srv.late
  <2>1. hist
    BY <1>2, <1>8 DEF EspTwaiIInv, EspTwaiWork, EspTwaiClean
  <2> QED
    BY <1>0, <1>2, <1>6, <1>7, <1>8, <2>1, EspTwaiReplied
       DEF EspTwaiIInv, EspTwaiWork
<1>9. CASE ~srv.late
  <2>1. /\ srv' \in EspTwaiServer /\ srv'.at = "drain"
        /\ srv'.user = srv.user
    BY <1>0, <1>2, <1>9, EspTwaiGoes DEF EspTwai!Places
  <2>2. EspTwaiWork'
    BY <1>2, <1>3, <1>5, <1>6, <1>9, <2>1
       DEF EspTwaiIInv, EspTwaiWork, EspTwaiClean, EspTwaiLines,
           EspTwai!LineType
  <2> QED
    BY <1>2, <1>6, <1>7, <1>9, <2>1, <2>2, EspTwaiQuiet
<1> QED  BY <1>8, <1>9

LEMMA EspTwaiDrain == ASSUME EspTwaiIInv, EspTwai!Drain PROVE EspTwaiIInv'
<1> DEFINE some == hw.fifo # <<>>
           last == IF some THEN Head(hw.fifo) ELSE hw.last
           rest == IF some THEN Tail(hw.fifo) ELSE <<>>
           l == IF rest = <<>> THEN EspTwai!Cleared(hw.line, {"rx"})
                ELSE hw.line
           h == [hw EXCEPT !.fifo = rest]
           g == [h EXCEPT !.last = last]
<1>0. EspTwaiTyped
  BY DEF EspTwaiIInv
<1>1. /\ srv.at = "drain" /\ UNCHANGED hist
      /\ hw' = [g EXCEPT !.line = l]
      /\ EspTwai!Reply("ok", last)
  BY DEF EspTwai!Drain
<1>2. /\ l \in EspTwaiLines /\ (l.bit <=> hw.line.bit)
      /\ l.ena = hw.line.ena
      /\ rest = <<>> => "rx" \notin l.raw
  BY <1>0, EspTwaiLineIs DEF EspTwaiLines, EspTwai!LineType
<1>3. last \in 0 .. Many /\ rest \in EspTwaiFrames
  <2>1. hw.fifo \in Seq(0 .. Many) /\ hw.last \in 0 .. Many
    BY <1>0 DEF EspTwaiTyped, EspTwaiUnit, EspTwaiFrames
  <2>2. some => /\ Head(hw.fifo) \in 0 .. Many
                /\ Tail(hw.fifo) \in Seq(0 .. Many)
    BY <2>1, HeadTailProperties
  <2>3. <<>> \in Seq(0 .. Many)
    OBVIOUS
  <2> HIDE DEF some
  <2> QED  BY <2>1, <2>2, <2>3 DEF EspTwaiFrames
<1>4. ~hist => rest = <<>> /\ hw.wire = 0
  BY <1>1, EspTwaiQueue DEF EspTwaiIInv, EspTwaiWork, EspTwaiClean
<1> HIDE DEF l, last, rest
<1>5. h \in EspTwaiUnit /\ h.fifo = rest /\ h.wire = hw.wire
  BY <1>0, <1>3 DEF EspTwaiTyped, EspTwaiUnit
<1> HIDE DEF h
<1>6. g \in EspTwaiUnit /\ g.fifo = rest /\ g.wire = hw.wire
  BY <1>3, <1>5 DEF EspTwaiUnit
<1> HIDE DEF g
<1>7. /\ hw' \in EspTwaiUnit /\ hw'.fifo = rest /\ hw'.wire = hw.wire
      /\ hw'.line = l
  BY <1>1, <1>2, <1>6 DEF EspTwaiUnit
<1>8. "ok" \in EspTwaiRcs /\ hist' \in EspTwaiHist
  BY <1>0, <1>1 DEF EspTwaiRcs, EspTwaiTyped
<1>9. EspTwaiTyped' /\ srv'.at = "recv"
  BY <1>0, <1>1, <1>3, <1>7, <1>8, EspTwaiReplied
<1> QED
  BY <1>1, <1>2, <1>4, <1>7, <1>9
     DEF EspTwaiIInv, EspTwaiWork, EspTwaiClean

LEMMA EspTwaiSelfReceive ==
    ASSUME EspTwaiIInv, EspTwai!SelfReceive PROVE EspTwaiIInv'
<1> DEFINE l == EspTwai!Latched(EspTwai!Latched(hw.line, "tx"), "rx")
           fifo == Append(hw.fifo, hw.wire)
           h == [hw EXCEPT !.wire = 0]
           g == [h EXCEPT !.fifo = fifo]
<1>0. EspTwaiTyped
  BY DEF EspTwaiIInv
<1>1. /\ hw.wire # 0 /\ UNCHANGED <<usr, srv, hist>>
      /\ hw' = [g EXCEPT !.line = l]
  BY DEF EspTwai!SelfReceive
<1>2. /\ l \in EspTwaiLines /\ (l.bit <=> hw.line.bit)
      /\ l.ena = hw.line.ena /\ (l.masked <=> hw.line.masked)
  BY <1>0, EspTwaiLineIs
     DEF EspTwaiLines, EspTwai!LineType, EspTwai!Twai
<1>3. /\ fifo \in EspTwaiFrames /\ fifo # <<>>
      /\ hw.fifo = <<>> => fifo = <<hw.wire>>
  <2>1. hw.fifo \in Seq(0 .. Many) /\ hw.wire \in 0 .. Many
    BY <1>0 DEF EspTwaiTyped, EspTwaiUnit, EspTwaiFrames
  <2> QED  BY <2>1, EspTwaiQueue DEF EspTwaiFrames
<1> HIDE DEF l, fifo
<1>5. h \in EspTwaiUnit /\ h.wire = 0
  BY <1>0, ServersAssumption DEF EspTwaiTyped, EspTwaiUnit
<1> HIDE DEF h
<1>6. g \in EspTwaiUnit /\ g.fifo = fifo /\ g.wire = 0
  BY <1>3, <1>5 DEF EspTwaiUnit
<1> HIDE DEF g
<1>7. /\ hw' \in EspTwaiUnit /\ hw'.fifo = fifo /\ hw'.wire = 0
      /\ hw'.line = l
  BY <1>1, <1>2, <1>6 DEF EspTwaiUnit
<1>8. EspTwaiWork'
  BY <1>1, <1>2, <1>3, <1>7 DEF EspTwaiIInv, EspTwaiWork, EspTwaiClean
<1> QED  BY <1>1, <1>7, <1>8, EspTwaiOutside

LEMMA EspTwaiInterrupt ==
    ASSUME EspTwaiIInv, EspTwai!Interrupt PROVE EspTwaiIInv'
<1> DEFINE l == EspTwai!Delivered(hw.line)
<1>0. EspTwaiTyped
  BY DEF EspTwaiIInv
<1>1. /\ UNCHANGED <<usr, srv, hist>> /\ hw' = [hw EXCEPT !.line = l]
      /\ hw.line.raw \cap hw.line.ena # {} /\ ~hw.line.masked
  BY DEF EspTwai!Interrupt
<1>2. /\ l \in EspTwaiLines /\ l.raw = hw.line.raw /\ l.ena = hw.line.ena
      /\ l.masked
  BY <1>0, EspTwaiLineIs DEF EspTwaiLines, EspTwai!LineType
<1> HIDE DEF l
<1>3. /\ hw' \in EspTwaiUnit /\ hw'.line = l
      /\ UNCHANGED <<hw.wire, hw.fifo>>
  BY <1>0, <1>1, <1>2, EspTwaiLine
<1>4. EspTwaiWork'
  BY <1>1, <1>2, <1>3 DEF EspTwaiIInv, EspTwaiWork, EspTwaiClean
<1> QED  BY <1>1, <1>3, <1>4, EspTwaiOutside

LEMMA EspTwaiNext == ASSUME EspTwaiIInv, EspTwai!Next PROVE EspTwaiIInv'
BY EspTwaiRequest, EspTwaiReceive, EspTwaiAnswerLast, EspTwaiCheckTx,
   EspTwaiOpens, EspTwaiWoken, EspTwaiTimesOut, EspTwaiCloseTx, EspTwaiLoad,
   EspTwaiCheckRx, EspTwaiCloseRx, EspTwaiDrain, EspTwaiSelfReceive,
   EspTwaiInterrupt
   DEF EspTwai!Next, EspTwai!Proceed

LEMMA EspTwaiStutter ==
    ASSUME EspTwaiIInv, UNCHANGED <<usr, srv, hw, hist>> PROVE EspTwaiIInv'
BY DEF EspTwaiIInv, EspTwaiTyped, EspTwai!Call, EspTwaiWork, EspTwaiClean,
       EspTwai!Own

LEMMA EspTwaiSafe ==
    EspTwaiIInv => EspTwai!TypeOK /\ EspTwai!OkIsTrue /\ EspTwai!Traced
<1>1. EspTwaiUsers = EspTwai!UserType({"send", "recv"}, {"ok", "etimeout"})
  BY DEF EspTwaiUsers, EspTwaiUser, UserRec, EspTwaiRcs, EspTwaiCalls,
     EspTwai!UserType
<1>2. EspTwaiIInv => EspTwai!TypeOK
  BY <1>1 DEF EspTwaiIInv, EspTwaiTyped, EspTwaiServer, EspTwaiUnit,
     EspTwaiHist, EspTwaiLines, EspTwaiFrames, EspTwai!TypeOK
<1>3. EspTwaiIInv => EspTwai!OkIsTrue
  BY EspTwaiQueue
     DEF EspTwaiIInv, EspTwaiWork, EspTwaiClean, EspTwai!OkIsTrue
<1>4. EspTwaiIInv => EspTwai!Traced
  BY DEF EspTwaiIInv, EspTwaiWork, EspTwaiClean, EspTwai!Traced
<1> QED  BY <1>2, <1>3, <1>4

(* EspTwaiKeeps.  The CAN server of the ESP32-P4 board: a SEND answered OK *)
(* has got its own frame back, and a request leaves no frame and no        *)
(* notification behind, as long as no wait was given up.                   *)
THEOREM EspTwaiKeeps ==
    EspTwai!Spec => [](EspTwai!TypeOK /\ EspTwai!OkIsTrue /\ EspTwai!Traced)
<1>1. EspTwai!Init => EspTwaiIInv
  BY EspTwaiInit
<1>2. EspTwaiIInv /\ [EspTwai!Next]_EspTwai!vars => EspTwaiIInv'
  BY EspTwaiNext, EspTwaiStutter DEF EspTwai!vars
<1>3. EspTwaiIInv => EspTwai!TypeOK /\ EspTwai!OkIsTrue /\ EspTwai!Traced
  BY EspTwaiSafe
<1> QED  BY <1>1, <1>2, <1>3, PTL DEF EspTwai!Spec

HIDE DEF EspTwai!None, EspTwai!Ids, EspTwai!Own, EspTwai!Call, EspTwai!Goto,
         EspTwai!Resting, EspTwai!ServerType, EspTwai!Acked, EspTwai!Taken,
         EspTwai!Delivered, EspTwai!Latched, EspTwai!Cleared,
         EspTwai!Enabled, EspTwai!Due, EspTwai!Read

-----------------------------------------------------------------------------
(* The I2C server of the Linum board.                                      *)

USE DEF LinumI2c!None, LinumI2c!Ids, LinumI2c!Own, LinumI2c!Call,
        LinumI2c!Goto, LinumI2c!Resting, LinumI2c!ServerType,
        LinumI2c!Calls

LinumI2cCalls  == LinumI2c!Calls
LinumI2cRcs    == {"ok", "esrch", "einval", "etimeout"}
LinumI2cUser   == UserRec(LinumI2cCalls, LinumI2cRcs, Few)
LinumI2cUsers  == [Several -> LinumI2cUser]
LinumI2cServer == LinumI2c!ServerType(LinumI2c!Places, {"stale"}, 1)
LinumI2cLines  == LinumI2c!LineType(LinumI2c!Events)
LinumI2cUnit   == [line : LinumI2cLines, run : 0 .. Few, moved : BOOLEAN,
                   refused : BOOLEAN, armed : 0 .. Few, good : 0 .. Few,
                   stuck : BOOLEAN]
LinumI2cHist   == SUBSET (0 .. Few)

LinumI2cTyped ==
    /\ usr \in LinumI2cUsers /\ srv \in LinumI2cServer
    /\ hw \in LinumI2cUnit /\ hist \in LinumI2cHist
    /\ \A u \in Several : usr[u].at # "idle" => usr[u].n # 0
    /\ srv.at # "recv" => LinumI2c!Call \in LinumI2cCalls

(* Where a transfer may be on the bus, and where its end is awaited.       *)
LinumI2cAwaiting == {"dma", "test", "open", "wait"}
LinumI2cOnBus    == LinumI2cAwaiting \cup {"recover", "stopping", "stopped"}

(* The bus carries nothing but the request being served, and the flags are *)
(* clear when it starts.                                                   *)
LinumI2cOneTransfer ==
    /\ hw.run # 0 => hw.run = LinumI2c!Own /\ srv.at \in LinumI2cOnBus
    /\ srv.at \in {"arm", "start"} => hw.line.raw = {}
    /\ srv.at \in {"arm", "dma"} => LinumI2c!Call # "probe"

(* While the end of a transfer is awaited, NACKF tells one refused, and    *)
(* STOPF without it the one acknowledged.                                  *)
LinumI2cEnding ==
    srv.at \in LinumI2cAwaiting =>
        /\ hw.run # 0 /\ hw.refused => "nack" \in hw.line.raw
        /\ "stop" \in hw.line.raw =>
             /\ hw.run = 0
             /\ "nack" \in hw.line.raw \/ hw.good = LinumI2c!Own

(* The stream is armed for the transfer in progress or for one given up.   *)
LinumI2cArmed ==
    /\ hw.armed # 0 =>
         \/ hw.armed \in hist
         \/ /\ hw.armed = LinumI2c!Own /\ LinumI2c!Call # "probe"
            /\ srv.at \in {"start", "dma"}
    /\ LinumI2c!Call # "probe" /\ srv.at \in {"start"} \cup LinumI2cOnBus =>
         hw.armed \in {0, LinumI2c!Own}

(* A completion left over has been read for a request that is on record.   *)
LinumI2cStale ==
    srv.at # "recv" /\ srv.raw # {} => LinumI2c!Own \in hist

LinumI2cWork ==
    LinumI2cOneTransfer /\ LinumI2cEnding /\ LinumI2cArmed /\ LinumI2cStale

LinumI2cAnswers == LinumI2c!OkIsTrue

LinumI2cIInv == LinumI2cTyped /\ LinumI2cWork /\ LinumI2cAnswers

LEMMA LinumI2cServes ==
    ASSUME LinumI2cTyped
    PROVE  /\ srv.user \in Several /\ LinumI2c!Own \in 0 .. Few
           /\ srv.at # "recv" => LinumI2c!Own # 0
<1>1. srv.user \in Several /\ usr \in [Several -> LinumI2cUser]
  BY DEF LinumI2cTyped, LinumI2cServer, LinumI2cUsers
<1>2. LinumI2c!Own \in 0 .. Few
  BY <1>1 DEF LinumI2cUser, UserRec
<1>3. srv.at # "recv" => LinumI2c!Call # "idle"
  BY DEF LinumI2cTyped, LinumI2cCalls
<1> QED  BY <1>1, <1>2, <1>3 DEF LinumI2cTyped

LEMMA LinumI2cBegins ==
    ASSUME usr = LinumI2c!IdleUsers,
           srv = LinumI2c!Resting(CHOOSE u \in Several : TRUE)
    PROVE  /\ usr \in LinumI2cUsers /\ srv \in LinumI2cServer
           /\ srv.at = "recv"
           /\ \A u \in Several : usr[u].at = "idle" /\ usr[u].rc = ""
<1>1. [at |-> "idle", n |-> 0, rc |-> "", val |-> 0] \in LinumI2cUser
  BY ServersAssumption DEF LinumI2cUser, UserRec
<1>2. /\ usr \in LinumI2cUsers
      /\ \A u \in Several : usr[u].at = "idle" /\ usr[u].rc = ""
  BY <1>1 DEF LinumI2c!IdleUsers, LinumI2cUsers
<1>3. (CHOOSE u \in Several : TRUE) \in Several
  BY ServersAssumption
<1>4. srv \in LinumI2cServer /\ srv.at = "recv"
  BY <1>3, ServersAssumption DEF LinumI2cServer
<1> QED  BY <1>2, <1>4

LEMMA LinumI2cAsked ==
    ASSUME LinumI2cTyped, NEW u \in Several, NEW call \in LinumI2cCalls,
           LinumI2c!Ask(u, call)
    PROVE  /\ LinumI2cTyped' /\ UNCHANGED <<srv, hw, hist>>
           /\ usr'[u].rc = "" /\ usr'[u].at = call
           /\ \A v \in Several : v # u => usr'[v] = usr[v]
           /\ srv.at # "recv" =>
                 LinumI2c!Own' = LinumI2c!Own /\ LinumI2c!Call' = LinumI2c!Call
<1>1. PICK n \in 1 .. Few :
         usr' = [usr EXCEPT ![u] = [at |-> call, n |-> n, rc |-> "",
                                    val |-> 0]]
  BY DEF LinumI2c!Ask
<1>2. usr[u].at = "idle" /\ UNCHANGED <<srv, hw, hist>>
  BY DEF LinumI2c!Ask
<1>3. [at |-> call, n |-> n, rc |-> "", val |-> 0] \in LinumI2cUser
  BY AskRec, ServersAssumption DEF LinumI2cUser
<1>4. /\ usr' \in LinumI2cUsers
      /\ usr'[u].at = call /\ usr'[u].n = n /\ usr'[u].rc = ""
      /\ \A v \in Several : v # u => usr'[v] = usr[v]
  BY <1>1, <1>3 DEF LinumI2cTyped, LinumI2cUsers
<1>5. srv.at # "recv" => srv.user # u /\ srv.user \in Several
  BY <1>2, LinumI2cServes DEF LinumI2cTyped, LinumI2cCalls
<1>6. n # 0
  OBVIOUS
<1>7. \A v \in Several : usr'[v].at # "idle" => usr'[v].n # 0
  BY <1>4, <1>6 DEF LinumI2cTyped
<1>8. srv.at # "recv" =>
         LinumI2c!Own' = LinumI2c!Own /\ LinumI2c!Call' = LinumI2c!Call
  BY <1>2, <1>4, <1>5
<1> QED  BY <1>2, <1>4, <1>7, <1>8 DEF LinumI2cTyped

LEMMA LinumI2cReceived ==
    ASSUME LinumI2cTyped, NEW u \in Several, usr[u].at \in LinumI2cCalls,
           NEW next \in LinumI2c!Places, NEW left \in 0 .. 1,
           srv' = [at |-> next, user |-> u, late |-> FALSE, raw |-> {},
                   left |-> left],
           UNCHANGED <<usr, hw, hist>>
    PROVE  /\ LinumI2cTyped' /\ srv'.at = next /\ srv'.user = u
           /\ srv'.late = FALSE /\ srv'.raw = {} /\ srv'.left = left
<1>1. srv' \in LinumI2cServer /\ srv'.at = next /\ srv'.user = u
  BY DEF LinumI2cServer
<1> QED  BY <1>1 DEF LinumI2cTyped

LEMMA LinumI2cGoes ==
    ASSUME LinumI2cTyped, NEW next \in LinumI2c!Places,
           srv' = [srv EXCEPT !.at = next]
    PROVE  /\ srv' \in LinumI2cServer /\ srv'.at = next
           /\ UNCHANGED <<srv.user, srv.raw, srv.left>>
           /\ (srv'.late <=> srv.late)
BY DEF LinumI2cTyped, LinumI2cServer

LEMMA LinumI2cReplied ==
    ASSUME LinumI2cTyped, NEW rc \in LinumI2cRcs, NEW val \in 0 .. Few,
           LinumI2c!Reply(rc, val), hw' \in LinumI2cUnit,
           hist' \in LinumI2cHist
    PROVE  /\ LinumI2cTyped' /\ srv'.at = "recv" /\ srv'.user = srv.user
           /\ usr'[srv.user].at = "idle" /\ usr'[srv.user].rc = rc
           /\ usr'[srv.user].n = usr[srv.user].n /\ usr'[srv.user].val = val
           /\ \A v \in Several : v # srv.user => usr'[v] = usr[v]
<1> DEFINE x == [[[usr[srv.user] EXCEPT !.at = "idle"] EXCEPT !.rc = rc]
                    EXCEPT !.val = val]
<1>1. srv.user \in Several /\ usr \in [Several -> LinumI2cUser]
  BY LinumI2cServes DEF LinumI2cTyped, LinumI2cUsers
<1>2. /\ x \in LinumI2cUser
      /\ x.at = "idle" /\ x.n = usr[srv.user].n /\ x.rc = rc /\ x.val = val
  <2>1. usr[srv.user] \in LinumI2cUser
    BY <1>1
  <2> QED  BY <2>1, ServersAssumption DEF LinumI2cUser, UserRec
<1>3. /\ usr' \in LinumI2cUsers /\ usr'[srv.user] = x
      /\ \A v \in Several : v # srv.user => usr'[v] = usr[v]
  BY <1>1, <1>2, Thrice DEF LinumI2c!Reply, LinumI2cUsers
<1>4. /\ srv' \in LinumI2cServer /\ srv'.at = "recv"
      /\ srv'.user = srv.user /\ srv'.raw \subseteq srv.raw
  BY <1>1 DEF LinumI2c!Reply, LinumI2cServer
<1> HIDE DEF x
<1>5. \A v \in Several : usr'[v].at # "idle" => usr'[v].n # 0
  BY <1>2, <1>3 DEF LinumI2cTyped
<1> QED  BY <1>2, <1>3, <1>4, <1>5 DEF LinumI2cTyped

(* A step that leaves the users alone.                                     *)
LEMMA LinumI2cQuiet ==
    ASSUME LinumI2cIInv, UNCHANGED usr, srv' \in LinumI2cServer,
           srv'.at # "recv",
           srv'.user = srv.user, srv.at # "recv",
           hw' \in LinumI2cUnit, hist' \in LinumI2cHist, LinumI2cWork',
           UNCHANGED hist \/ LinumI2cAnswers'
    PROVE  LinumI2cIInv'
BY DEF LinumI2cIInv, LinumI2cTyped, LinumI2cAnswers, LinumI2c!OkIsTrue

(* A step of the peripheral.                                               *)
LEMMA LinumI2cOutside ==
    ASSUME LinumI2cIInv, UNCHANGED <<usr, srv, hist>>, hw' \in LinumI2cUnit,
           LinumI2cWork'
    PROVE  LinumI2cIInv'
BY DEF LinumI2cIInv, LinumI2cTyped, LinumI2cAnswers, LinumI2c!OkIsTrue

(* The types as the steps use them.                                        *)
LEMMA LinumI2cParts ==
    ASSUME LinumI2cIInv
    PROVE  /\ srv \in LinumI2cServer /\ srv.user \in Several
           /\ hw \in LinumI2cUnit /\ hw.line \in LinumI2cLines
           /\ hist \in LinumI2cHist /\ LinumI2cTyped
           /\ 0 \in 0 .. Few /\ LinumI2c!Own \in 0 .. Few
<1>1. LinumI2cTyped /\ srv \in LinumI2cServer /\ hw \in LinumI2cUnit
  BY DEF LinumI2cIInv, LinumI2cTyped
<1>2. srv.user \in Several /\ LinumI2c!Own \in 0 .. Few
  BY <1>1, LinumI2cServes
<1>3. hw.line \in LinumI2cLines
  BY <1>1 DEF LinumI2cUnit
<1>4. hist \in LinumI2cHist /\ 0 \in 0 .. Few
  BY <1>1, ServersAssumption DEF LinumI2cTyped
<1> QED  BY <1>1, <1>2, <1>3, <1>4

(* What each operation does to the interrupt line.                         *)
LEMMA LinumI2cLineOps ==
    ASSUME NEW l \in LinumI2cLines
    PROVE  /\ LinumI2c!Acked(l) \in LinumI2cLines
           /\ LinumI2c!Acked(l).raw = l.raw
           /\ LinumI2c!Taken(l) \in LinumI2cLines
           /\ LinumI2c!Taken(l).raw = l.raw
           /\ LinumI2c!Delivered(l) \in LinumI2cLines
           /\ LinumI2c!Delivered(l).raw = l.raw
<1>1. /\ LinumI2c!Acked(l) \in LinumI2cLines
      /\ LinumI2c!Acked(l).raw = l.raw
  BY DEF LinumI2c!Acked, LinumI2cLines, LinumI2c!LineType
<1>2. /\ LinumI2c!Taken(l) \in LinumI2cLines
      /\ LinumI2c!Taken(l).raw = l.raw
  BY DEF LinumI2c!Taken, LinumI2cLines, LinumI2c!LineType
<1>3. /\ LinumI2c!Delivered(l) \in LinumI2cLines
      /\ LinumI2c!Delivered(l).raw = l.raw
  BY DEF LinumI2c!Delivered, LinumI2cLines, LinumI2c!LineType
<1> QED  BY <1>1, <1>2, <1>3

LEMMA LinumI2cClearedLine ==
    ASSUME NEW l \in LinumI2cLines, NEW off
    PROVE  /\ LinumI2c!Cleared(l, off) \in LinumI2cLines
           /\ LinumI2c!Cleared(l, off).raw = l.raw \ off
BY DEF LinumI2c!Cleared, LinumI2cLines, LinumI2c!LineType

LEMMA LinumI2cLatchedLine ==
    ASSUME NEW l \in LinumI2cLines, NEW event \in LinumI2c!Events
    PROVE  /\ LinumI2c!Latched(l, event) \in LinumI2cLines
           /\ LinumI2c!Latched(l, event).raw = l.raw \cup {event}
BY DEF LinumI2c!Latched, LinumI2cLines, LinumI2c!LineType

LEMMA LinumI2cInit == ASSUME LinumI2c!Init PROVE LinumI2cIInv
<1>1. /\ usr = LinumI2c!IdleUsers /\ hist = {}
      /\ srv = LinumI2c!Resting(CHOOSE u \in Several : TRUE)
  BY DEF LinumI2c!Init
<1>2. LinumI2c!Line(LinumI2c!Events) \in LinumI2cLines
  BY DEF LinumI2c!Line, LinumI2cLines, LinumI2c!LineType
<1>3. hw \in LinumI2cUnit /\ hw.run = 0 /\ hw.armed = 0
  BY <1>2, ServersAssumption DEF LinumI2c!Init, LinumI2cUnit
<1>4. hist \in LinumI2cHist
  BY <1>1 DEF LinumI2cHist
<1> QED
  BY <1>1, <1>3, <1>4, LinumI2cBegins
     DEF LinumI2cIInv, LinumI2cTyped, LinumI2cWork, LinumI2cOneTransfer,
         LinumI2cEnding, LinumI2cArmed, LinumI2cStale, LinumI2cAwaiting,
         LinumI2cOnBus, LinumI2cAnswers, LinumI2c!OkIsTrue

LEMMA LinumI2cRequest ==
    ASSUME LinumI2cIInv, NEW u \in Several, LinumI2c!Request(u)
    PROVE  LinumI2cIInv'
<1>1. PICK call \in LinumI2cCalls : LinumI2c!Ask(u, call)
  BY DEF LinumI2c!Request, LinumI2cCalls
<1>2. /\ LinumI2cTyped' /\ UNCHANGED <<srv, hw, hist>>
      /\ usr'[u].rc = "" /\ \A v \in Several : v # u => usr'[v] = usr[v]
      /\ srv.at # "recv" =>
            /\ LinumI2c!Own' = LinumI2c!Own
            /\ LinumI2c!Call' = LinumI2c!Call
  BY <1>1, LinumI2cAsked DEF LinumI2cIInv
<1>3. LinumI2cWork'
  BY <1>2
     DEF LinumI2cIInv, LinumI2cWork, LinumI2cOneTransfer, LinumI2cEnding,
         LinumI2cArmed, LinumI2cStale, LinumI2cAwaiting, LinumI2cOnBus
<1>4. LinumI2cAnswers'
  BY <1>2 DEF LinumI2cIInv, LinumI2cAnswers, LinumI2c!OkIsTrue
<1> QED  BY <1>2, <1>3, <1>4 DEF LinumI2cIInv

LEMMA LinumI2cReceive ==
    ASSUME LinumI2cIInv, NEW u \in Several, LinumI2c!Receive(u)
    PROVE  LinumI2cIInv'
<1>1. PICK left \in 0 .. 1 :
         srv' = [at |-> "clear", user |-> u, late |-> FALSE, raw |-> {},
                 left |-> left]
  <2>1. 0 \in 0 .. 1 /\ 1 \in 0 .. 1
    OBVIOUS
  <2> QED  BY <2>1 DEF LinumI2c!Receive, LinumI2c!Recv
<1>2. /\ srv.at = "recv" /\ usr[u].at \in LinumI2cCalls
      /\ UNCHANGED <<usr, hw, hist>>
  BY DEF LinumI2c!Receive, LinumI2c!Recv, LinumI2cCalls
<1>3. "clear" \in LinumI2c!Places
  BY DEF LinumI2c!Places
<1>4. /\ LinumI2cTyped' /\ srv'.at = "clear" /\ srv'.user = u
      /\ srv'.raw = {}
  BY <1>1, <1>2, <1>3, LinumI2cReceived DEF LinumI2cIInv
<1>5. hw.run = 0 /\ (hw.armed # 0 => hw.armed \in hist)
  BY <1>2
     DEF LinumI2cIInv, LinumI2cWork, LinumI2cOneTransfer, LinumI2cArmed,
         LinumI2cAwaiting, LinumI2cOnBus
<1>6. LinumI2cWork'
  BY <1>2, <1>4, <1>5
     DEF LinumI2cWork, LinumI2cOneTransfer, LinumI2cEnding,
         LinumI2cArmed, LinumI2cStale, LinumI2cAwaiting, LinumI2cOnBus
<1>7. LinumI2cAnswers'
  BY <1>2 DEF LinumI2cIInv, LinumI2cAnswers, LinumI2c!OkIsTrue
<1> QED  BY <1>4, <1>6, <1>7 DEF LinumI2cIInv

(* A step within a request keeps the invariant if it keeps what it says of *)
(* the place the server comes to.                                          *)
LEMMA LinumI2cWithinStep ==
    ASSUME LinumI2cIInv, UNCHANGED usr, srv.at # "recv",
           srv' \in LinumI2cServer, srv'.user = srv.user, srv'.at # "recv",
           srv'.raw \subseteq srv.raw \/ LinumI2c!Own \in hist',
           hw' \in LinumI2cUnit, hist' \in LinumI2cHist, hist \subseteq hist',
           srv'.at \in {"arm", "dma"} => LinumI2c!Call # "probe",
           hw'.run # 0 =>
             hw'.run = LinumI2c!Own /\ srv'.at \in LinumI2cOnBus,
           srv'.at \in {"arm", "start"} => hw'.line.raw = {},
           srv'.at \in LinumI2cAwaiting =>
             /\ hw'.run # 0 /\ hw'.refused => "nack" \in hw'.line.raw
             /\ "stop" \in hw'.line.raw =>
                  /\ hw'.run = 0
                  /\ "nack" \in hw'.line.raw \/ hw'.good = LinumI2c!Own,
           hw'.armed # 0 =>
             \/ hw'.armed \in hist'
             \/ /\ hw'.armed = LinumI2c!Own /\ LinumI2c!Call # "probe"
                /\ srv'.at \in {"start", "dma"},
           LinumI2c!Call # "probe" /\ srv'.at \in {"start"} \cup LinumI2cOnBus
             => hw'.armed \in {0, LinumI2c!Own}
    PROVE  LinumI2cIInv'
<1>1. LinumI2c!Own' = LinumI2c!Own /\ LinumI2c!Call' = LinumI2c!Call
  OBVIOUS
<1>2. LinumI2cAnswers'
  BY DEF LinumI2cIInv, LinumI2cAnswers, LinumI2c!OkIsTrue
<1> HIDE DEF LinumI2c!Own, LinumI2c!Call
<1>3. LinumI2cOneTransfer'
  BY <1>1 DEF LinumI2cOneTransfer
<1>4. LinumI2cEnding'
  BY <1>1 DEF LinumI2cEnding
<1>5. LinumI2cArmed'
  BY <1>1 DEF LinumI2cArmed
<1>6. LinumI2cStale'
  BY <1>1 DEF LinumI2cIInv, LinumI2cWork, LinumI2cStale
<1> QED
  BY <1>2, <1>3, <1>4, <1>5, <1>6, LinumI2cQuiet DEF LinumI2cWork

(* The end of a request keeps it if the bus is free and an answer OK is    *)
(* that of this transfer, or of one on record.                             *)
LEMMA LinumI2cRestStep ==
    ASSUME LinumI2cIInv, NEW rc \in LinumI2cRcs, NEW v \in 0 .. Few,
           LinumI2c!Reply(rc, v),
           rc = "ok" => \/ v = LinumI2c!Own
                        \/ v = 0 /\ LinumI2c!Own \in hist,
           hw' \in LinumI2cUnit, hw'.run = 0, UNCHANGED hist,
           hw'.armed # 0 => hw'.armed \in hist
    PROVE  LinumI2cIInv'
<1>1. /\ LinumI2cTyped' /\ srv'.at = "recv"
      /\ usr'[srv.user].rc = rc
      /\ usr'[srv.user].n = LinumI2c!Own /\ usr'[srv.user].val = v
      /\ \A w \in Several : w # srv.user => usr'[w] = usr[w]
  BY LinumI2cParts, LinumI2cReplied
<1>2. LinumI2cWork'
  BY <1>1
     DEF LinumI2cWork, LinumI2cOneTransfer, LinumI2cEnding, LinumI2cArmed,
         LinumI2cStale, LinumI2cAwaiting, LinumI2cOnBus
<1>3. LinumI2cAnswers'
  BY <1>1 DEF LinumI2cIInv, LinumI2cAnswers, LinumI2c!OkIsTrue
<1> QED  BY <1>1, <1>2, <1>3 DEF LinumI2cIInv

(* What the steps do to the peripheral.                                    *)
LEMMA LinumI2cLineSet ==
    ASSUME hw \in LinumI2cUnit, NEW l \in LinumI2cLines,
           hw' = [hw EXCEPT !.line = l]
    PROVE  /\ hw' \in LinumI2cUnit /\ hw'.line = l
           /\ hw'.run = hw.run /\ (hw'.refused <=> hw.refused)
           /\ hw'.armed = hw.armed /\ hw'.good = hw.good
BY DEF LinumI2cUnit

LEMMA LinumI2cArmedSet ==
    ASSUME hw \in LinumI2cUnit, NEW n \in 0 .. Few,
           hw' = [hw EXCEPT !.armed = n]
    PROVE  /\ hw' \in LinumI2cUnit /\ hw'.line = hw.line
           /\ hw'.run = hw.run /\ (hw'.refused <=> hw.refused)
           /\ hw'.armed = n /\ hw'.good = hw.good
BY DEF LinumI2cUnit

LEMMA LinumI2cClearFlags ==
    ASSUME LinumI2cIInv, LinumI2c!ClearFlags PROVE LinumI2cIInv'
<1> USE LinumI2cParts
<1> DEFINE next == IF LinumI2c!Call = "probe" THEN "start" ELSE "arm"
           l == LinumI2c!Cleared(hw.line, LinumI2c!Events)
<1>1. /\ srv.at = "clear" /\ UNCHANGED <<usr, hist>>
      /\ srv' = [srv EXCEPT !.at = next]
      /\ hw' = [hw EXCEPT !.line = l]
  BY DEF LinumI2c!ClearFlags
<1>2. next \in {"start", "arm"} /\ (next = "arm" => LinumI2c!Call # "probe")
  BY <1>1 DEF LinumI2cIInv, LinumI2cWork, LinumI2cOneTransfer, LinumI2cCalls
<1> HIDE DEF next
<1>3. /\ srv' \in LinumI2cServer /\ srv'.at = next
      /\ srv'.user = srv.user /\ srv'.raw \subseteq srv.raw
  BY <1>1, <1>2, LinumI2cGoes DEF LinumI2c!Places
<1>4. l \in LinumI2cLines /\ l.raw = {}
  <2>1. l \in LinumI2cLines /\ l.raw = hw.line.raw \ LinumI2c!Events
    BY LinumI2cClearedLine
  <2>2. hw.line.raw \subseteq LinumI2c!Events
    BY DEF LinumI2cLines, LinumI2c!LineType
  <2> QED  BY <2>1, <2>2
<1> HIDE DEF l
<1>5. /\ hw' \in LinumI2cUnit /\ hw'.line = l /\ hw'.run = hw.run
      /\ hw'.armed = hw.armed
  BY <1>1, <1>4, LinumI2cLineSet
<1>6. hw.run = 0 /\ (hw.armed # 0 => hw.armed \in hist)
  BY <1>1
     DEF LinumI2cIInv, LinumI2cWork, LinumI2cOneTransfer, LinumI2cArmed,
         LinumI2cOnBus, LinumI2cAwaiting
<1>7. LinumI2c!Call # "probe" => next = "arm"
  BY DEF next
<1> QED
  BY <1>1, <1>2, <1>3, <1>4, <1>5, <1>6, <1>7, LinumI2cWithinStep
  DEF LinumI2cOnBus, LinumI2cAwaiting

LEMMA LinumI2cArmDma ==
    ASSUME LinumI2cIInv, LinumI2c!ArmDma PROVE LinumI2cIInv'
<1> USE LinumI2cParts
<1>1. /\ srv.at = "arm" /\ UNCHANGED <<usr, hist>>
      /\ srv' = [srv EXCEPT !.at = "start"]
      /\ hw' = [hw EXCEPT !.armed = LinumI2c!Own]
  BY DEF LinumI2c!ArmDma
<1>2. /\ srv' \in LinumI2cServer /\ srv'.at = "start"
      /\ srv'.user = srv.user /\ srv'.raw \subseteq srv.raw
  BY <1>1, LinumI2cGoes DEF LinumI2c!Places
<1>3. /\ hw' \in LinumI2cUnit /\ hw'.line = hw.line /\ hw'.run = hw.run
      /\ hw'.armed = LinumI2c!Own
  BY <1>1, LinumI2cArmedSet
<1>4. hw.run = 0 /\ hw.line.raw = {} /\ LinumI2c!Call # "probe"
  BY <1>1
     DEF LinumI2cIInv, LinumI2cWork, LinumI2cOneTransfer, LinumI2cOnBus,
         LinumI2cAwaiting
<1> QED
  BY <1>1, <1>2, <1>3, <1>4, LinumI2cWithinStep DEF LinumI2cAwaiting

LEMMA LinumI2cArmFails ==
    ASSUME LinumI2cIInv, LinumI2c!ArmFails PROVE LinumI2cIInv'
<1> USE LinumI2cParts
<1>1. /\ srv.at = "arm" /\ UNCHANGED <<hw, hist>>
      /\ LinumI2c!Reply("einval", 0)
  BY DEF LinumI2c!ArmFails
<1>2. hw.run = 0 /\ (hw.armed # 0 => hw.armed \in hist)
  BY <1>1
     DEF LinumI2cIInv, LinumI2cWork, LinumI2cOneTransfer, LinumI2cArmed,
         LinumI2cOnBus, LinumI2cAwaiting
<1>3. "einval" \in LinumI2cRcs
  BY DEF LinumI2cRcs
<1> QED  BY <1>1, <1>2, <1>3, LinumI2cRestStep

LEMMA LinumI2cStart == ASSUME LinumI2cIInv, LinumI2c!Start PROVE LinumI2cIInv'
<1> USE LinumI2cParts
<1> DEFINE next == IF LinumI2c!Call = "probe" THEN "test" ELSE "dma"
<1>1. /\ srv.at = "start" /\ UNCHANGED <<usr, hist>>
      /\ srv' = [srv EXCEPT !.at = next]
      /\ hw' = [hw EXCEPT !.run = LinumI2c!Own,
                          !.moved = LinumI2c!Call = "probe",
                          !.refused = FALSE, !.good = 0]
  BY DEF LinumI2c!Start
<1>2. next \in {"test", "dma"} /\ (next = "dma" => LinumI2c!Call # "probe")
      /\ (LinumI2c!Call # "probe" => next = "dma")
  BY <1>1 DEF LinumI2cIInv, LinumI2cWork, LinumI2cOneTransfer, LinumI2cCalls
<1> HIDE DEF next
<1>3. /\ srv' \in LinumI2cServer /\ srv'.at = next
      /\ srv'.user = srv.user /\ srv'.raw \subseteq srv.raw
  BY <1>1, <1>2, LinumI2cGoes DEF LinumI2c!Places
<1>4. /\ hw' \in LinumI2cUnit /\ hw'.line = hw.line /\ hw'.run = LinumI2c!Own
      /\ ~hw'.refused /\ hw'.armed = hw.armed
  BY <1>1 DEF LinumI2cUnit
<1>5. /\ hw.line.raw = {}
      /\ LinumI2c!Call # "probe" => hw.armed \in {0, LinumI2c!Own}
      /\ hw.armed # 0 =>
            \/ hw.armed \in hist
            \/ hw.armed = LinumI2c!Own /\ LinumI2c!Call # "probe"
  BY <1>1 DEF LinumI2cIInv, LinumI2cWork, LinumI2cOneTransfer, LinumI2cArmed
<1> QED
  BY <1>1, <1>2, <1>3, <1>4, <1>5, LinumI2cWithinStep
     DEF LinumI2cOnBus, LinumI2cAwaiting

(* The bytes, and the end of the transfer.                                 *)
LEMMA LinumI2cDmaDone ==
    ASSUME LinumI2cIInv, LinumI2c!DmaDone PROVE LinumI2cIInv'
<1> USE LinumI2cParts
<1>1. /\ srv.at = "dma" /\ UNCHANGED <<usr, hist>>
      /\ srv' = [srv EXCEPT !.at = "test"]
      /\ hw' = [hw EXCEPT !.armed = 0]
  BY DEF LinumI2c!DmaDone
<1>2. /\ srv' \in LinumI2cServer /\ srv'.at = "test"
      /\ srv'.user = srv.user /\ srv'.raw \subseteq srv.raw
  BY <1>1, LinumI2cGoes DEF LinumI2c!Places
<1>3. /\ hw' \in LinumI2cUnit /\ hw'.line = hw.line /\ hw'.run = hw.run
      /\ (hw'.refused <=> hw.refused) /\ hw'.armed = 0
      /\ hw'.good = hw.good
  BY <1>1, LinumI2cArmedSet
<1>4. /\ hw.run # 0 => hw.run = LinumI2c!Own
      /\ hw.run # 0 /\ hw.refused => "nack" \in hw.line.raw
      /\ "stop" \in hw.line.raw =>
           hw.run = 0 /\ ("nack" \in hw.line.raw \/ hw.good = LinumI2c!Own)
  BY <1>1
     DEF LinumI2cIInv, LinumI2cWork, LinumI2cOneTransfer, LinumI2cEnding,
         LinumI2cAwaiting
<1> QED
  BY <1>1, <1>2, <1>3, <1>4, LinumI2cWithinStep
     DEF LinumI2cOnBus, LinumI2cAwaiting

LEMMA LinumI2cDmaStale ==
    ASSUME LinumI2cIInv, LinumI2c!DmaStale PROVE LinumI2cIInv'
<1> USE LinumI2cParts
<1>1. /\ srv.at = "dma" /\ UNCHANGED <<usr, hw>>
      /\ srv' = [srv EXCEPT !.at = "test", !.raw = {"stale"}]
      /\ hist' = hist \cup {LinumI2c!Own}
  BY DEF LinumI2c!DmaStale
<1>2. srv' \in LinumI2cServer /\ srv'.at = "test" /\ srv'.user = srv.user
  <2>1. "test" \in LinumI2c!Places
    BY DEF LinumI2c!Places
  <2> QED  BY <1>1, <2>1 DEF LinumI2cServer
<1>3. /\ hw.run # 0 => hw.run = LinumI2c!Own
      /\ hw.run # 0 /\ hw.refused => "nack" \in hw.line.raw
      /\ "stop" \in hw.line.raw =>
           hw.run = 0 /\ ("nack" \in hw.line.raw \/ hw.good = LinumI2c!Own)
  BY <1>1
     DEF LinumI2cIInv, LinumI2cWork, LinumI2cOneTransfer, LinumI2cEnding,
         LinumI2cAwaiting
<1>4. /\ LinumI2c!Call # "probe" => hw.armed \in {0, LinumI2c!Own}
      /\ hw.armed # 0 => hw.armed \in hist \/ hw.armed = LinumI2c!Own
  BY <1>1
     DEF LinumI2cIInv, LinumI2cWork, LinumI2cArmed, LinumI2cOnBus,
         LinumI2cAwaiting
<1>5. /\ hist' \in LinumI2cHist /\ hist \subseteq hist'
      /\ LinumI2c!Own \in hist'
  BY <1>1 DEF LinumI2cHist
<1> QED
  BY <1>1, <1>2, <1>3, <1>4, <1>5, LinumI2cWithinStep
     DEF LinumI2cOnBus, LinumI2cAwaiting

LEMMA LinumI2cDmaTimesOut ==
    ASSUME LinumI2cIInv, LinumI2c!DmaTimesOut PROVE LinumI2cIInv'
<1> USE LinumI2cParts
<1>1. /\ srv.at = "dma" /\ UNCHANGED <<usr, hw>>
      /\ srv' = [srv EXCEPT !.at = "recover", !.late = TRUE]
      /\ hist' = hist \cup {LinumI2c!Own}
  BY DEF LinumI2c!DmaTimesOut
<1>2. /\ srv' \in LinumI2cServer /\ srv'.at = "recover"
      /\ srv'.user = srv.user /\ srv'.raw \subseteq srv.raw
  BY <1>1 DEF LinumI2cServer, LinumI2c!Places
<1>3. /\ hw.run # 0 => hw.run = LinumI2c!Own
      /\ LinumI2c!Call # "probe" => hw.armed \in {0, LinumI2c!Own}
      /\ hw.armed # 0 => hw.armed \in hist \/ hw.armed = LinumI2c!Own
  BY <1>1
     DEF LinumI2cIInv, LinumI2cWork, LinumI2cOneTransfer, LinumI2cArmed,
         LinumI2cOnBus, LinumI2cAwaiting
<1>4. hist' \in LinumI2cHist /\ hist \subseteq hist'
  BY <1>1 DEF LinumI2cHist
<1> QED
  BY <1>1, <1>2, <1>3, <1>4, LinumI2cWithinStep
     DEF LinumI2cOnBus, LinumI2cAwaiting

LEMMA LinumI2cTestNack ==
    ASSUME LinumI2cIInv, LinumI2c!TestNack PROVE LinumI2cIInv'
<1> USE LinumI2cParts
<1> DEFINE l == LinumI2c!Cleared(hw.line, LinumI2c!Events)
<1>1. /\ srv.at = "test" /\ UNCHANGED <<usr, hist>>
      /\ srv' = [srv EXCEPT !.at = "recover"]
      /\ hw' = [hw EXCEPT !.line = l]
  BY DEF LinumI2c!TestNack
<1>2. /\ srv' \in LinumI2cServer /\ srv'.at = "recover"
      /\ srv'.user = srv.user /\ srv'.raw \subseteq srv.raw
  BY <1>1, LinumI2cGoes DEF LinumI2c!Places
<1>3. l \in LinumI2cLines
  BY LinumI2cClearedLine
<1> HIDE DEF l
<1>4. /\ hw' \in LinumI2cUnit /\ hw'.run = hw.run /\ hw'.armed = hw.armed
  BY <1>1, <1>3, LinumI2cLineSet
<1>5. /\ hw.run # 0 => hw.run = LinumI2c!Own
      /\ LinumI2c!Call # "probe" => hw.armed \in {0, LinumI2c!Own}
      /\ hw.armed # 0 => hw.armed \in hist
  BY <1>1
     DEF LinumI2cIInv, LinumI2cWork, LinumI2cOneTransfer, LinumI2cArmed,
         LinumI2cOnBus, LinumI2cAwaiting
<1> QED
  BY <1>1, <1>2, <1>4, <1>5, LinumI2cWithinStep
     DEF LinumI2cOnBus, LinumI2cAwaiting

(* The answer OK: STOPF without NACKF.                                     *)
LEMMA LinumI2cTestStop ==
    ASSUME LinumI2cIInv, LinumI2c!TestStop PROVE LinumI2cIInv'
<1> USE LinumI2cParts
<1> DEFINE l == LinumI2c!Cleared(hw.line, {"stop"})
           v == IF LinumI2c!Reading /\ srv.raw # {} THEN 0 ELSE hw.good
<1>1. /\ srv.at = "test" /\ hw.line.raw = {"stop"} /\ UNCHANGED hist
      /\ hw' = [hw EXCEPT !.line = l] /\ LinumI2c!Reply("ok", v)
  BY DEF LinumI2c!TestStop
<1>2. l \in LinumI2cLines
  BY LinumI2cClearedLine
<1> HIDE DEF l
<1>3. /\ hw' \in LinumI2cUnit /\ hw'.run = hw.run /\ hw'.armed = hw.armed
  BY <1>1, <1>2, LinumI2cLineSet
<1>4. hw.run = 0 /\ hw.good = LinumI2c!Own
  BY <1>1 DEF LinumI2cIInv, LinumI2cWork, LinumI2cEnding, LinumI2cAwaiting
<1>5. hw.armed # 0 => hw.armed \in hist
  BY <1>1 DEF LinumI2cIInv, LinumI2cWork, LinumI2cArmed
<1>6. srv.raw # {} => LinumI2c!Own \in hist
  BY <1>1 DEF LinumI2cIInv, LinumI2cWork, LinumI2cStale
<1>7. /\ v \in 0 .. Few
      /\ v = LinumI2c!Own \/ (v = 0 /\ LinumI2c!Own \in hist)
  BY <1>4, <1>6
<1>8. "ok" \in LinumI2cRcs
  BY DEF LinumI2cRcs
<1> HIDE DEF v
<1> QED  BY <1>1, <1>3, <1>4, <1>5, <1>7, <1>8, LinumI2cRestStep

(* The write of an i2c_writeread has ended: its read begins.               *)
LEMMA LinumI2cWriteDone ==
    ASSUME LinumI2cIInv, LinumI2c!WriteDone PROVE LinumI2cIInv'
<1> USE LinumI2cParts
<1> DEFINE l == LinumI2c!Cleared(hw.line, {"stop"})
<1>1. /\ srv.at = "test" /\ hw.line.raw = {"stop"}
      /\ UNCHANGED <<usr, hist>>
      /\ srv' = [srv EXCEPT !.at = "clear", !.left = 0, !.raw = {}]
      /\ hw' = [hw EXCEPT !.line = l]
  BY DEF LinumI2c!WriteDone
<1>2. /\ srv' \in LinumI2cServer /\ srv'.at = "clear"
      /\ srv'.user = srv.user /\ srv'.raw \subseteq srv.raw
  <2>1. "clear" \in LinumI2c!Places /\ 0 \in 0 .. 1
    BY DEF LinumI2c!Places
  <2> QED  BY <1>1, <2>1 DEF LinumI2cServer
<1>3. l \in LinumI2cLines
  BY LinumI2cClearedLine
<1> HIDE DEF l
<1>4. /\ hw' \in LinumI2cUnit /\ hw'.run = hw.run /\ hw'.armed = hw.armed
  BY <1>1, <1>3, LinumI2cLineSet
<1>5. hw.run = 0 /\ (hw.armed # 0 => hw.armed \in hist)
  BY <1>1
     DEF LinumI2cIInv, LinumI2cWork, LinumI2cEnding, LinumI2cArmed,
         LinumI2cAwaiting
<1> QED
  BY <1>1, <1>2, <1>4, <1>5, LinumI2cWithinStep
     DEF LinumI2cOnBus, LinumI2cAwaiting

(* A step among the places where the end is awaited that touches neither   *)
(* the flags nor the transfer.                                             *)
LEMMA LinumI2cAwaitStep ==
    ASSUME LinumI2cIInv, NEW l \in LinumI2cLines,
           l.raw = hw.line.raw, hw' = [hw EXCEPT !.line = l] \/ UNCHANGED hw,
           NEW next \in {"test", "open", "wait"},
           srv' = [srv EXCEPT !.at = next],
           srv.at \in {"test", "open", "wait"}, UNCHANGED <<usr, hist>>
    PROVE  LinumI2cIInv'
<1> USE LinumI2cParts
<1>1. /\ srv' \in LinumI2cServer /\ srv'.at = next
      /\ srv'.user = srv.user /\ srv'.raw \subseteq srv.raw
  BY LinumI2cGoes DEF LinumI2c!Places
<1>2. /\ hw' \in LinumI2cUnit /\ hw'.line.raw = hw.line.raw /\ hw'.run = hw.run
      /\ (hw'.refused <=> hw.refused) /\ hw'.armed = hw.armed
      /\ hw'.good = hw.good
  BY LinumI2cLineSet
<1>3. /\ hw.run # 0 => hw.run = LinumI2c!Own
      /\ hw.run # 0 /\ hw.refused => "nack" \in hw.line.raw
      /\ "stop" \in hw.line.raw =>
           hw.run = 0 /\ ("nack" \in hw.line.raw \/ hw.good = LinumI2c!Own)
  BY DEF LinumI2cIInv, LinumI2cWork, LinumI2cOneTransfer, LinumI2cEnding,
         LinumI2cAwaiting
<1>4. /\ LinumI2c!Call # "probe" => hw.armed \in {0, LinumI2c!Own}
      /\ hw.armed # 0 => hw.armed \in hist
  BY DEF LinumI2cIInv, LinumI2cWork, LinumI2cArmed, LinumI2cOnBus,
         LinumI2cAwaiting
<1> QED
  BY <1>1, <1>2, <1>3, <1>4, LinumI2cWithinStep
     DEF LinumI2cOnBus, LinumI2cAwaiting

LEMMA LinumI2cWaitingSteps ==
    ASSUME LinumI2cIInv,
           LinumI2c!TestNeither \/ LinumI2c!Open \/ LinumI2c!Woken
    PROVE  LinumI2cIInv'
<1> USE LinumI2cParts
<1>1. CASE LinumI2c!TestNeither
  BY <1>1, LinumI2cAwaitStep DEF LinumI2c!TestNeither
<1>2. CASE LinumI2c!Open
  <2> DEFINE l == LinumI2c!Acked(hw.line)
  <2>1. l \in LinumI2cLines /\ l.raw = hw.line.raw
    BY LinumI2cLineOps
  <2>2. hw' = [hw EXCEPT !.line = l]
    BY <1>2 DEF LinumI2c!Open
  <2> HIDE DEF l
  <2> QED  BY <1>2, <2>1, <2>2, LinumI2cAwaitStep DEF LinumI2c!Open
<1>3. CASE LinumI2c!Woken
  <2> DEFINE k == LinumI2c!Taken(hw.line)
             l == LinumI2c!Acked(k)
  <2>1. k \in LinumI2cLines /\ k.raw = hw.line.raw
    BY LinumI2cLineOps
  <2>2. hw' = [hw EXCEPT !.line = l]
    BY <1>3 DEF LinumI2c!Woken
  <2> HIDE DEF k
  <2>3. l \in LinumI2cLines /\ l.raw = hw.line.raw
    BY <2>1, LinumI2cLineOps
  <2> HIDE DEF l
  <2> QED  BY <1>3, <2>2, <2>3, LinumI2cAwaitStep DEF LinumI2c!Woken
<1> QED  BY <1>1, <1>2, <1>3

(* The recovery of the bus.                                                *)
LEMMA LinumI2cRecovering ==
    ASSUME LinumI2cIInv, srv.at \in {"recover", "stopping", "stopped"}
    PROVE  /\ hw.run # 0 => hw.run = LinumI2c!Own
           /\ LinumI2c!Call # "probe" => hw.armed \in {0, LinumI2c!Own}
           /\ hw.armed # 0 => hw.armed \in hist
BY DEF LinumI2cIInv, LinumI2cWork, LinumI2cOneTransfer, LinumI2cArmed,
       LinumI2cOnBus, LinumI2cAwaiting

LEMMA LinumI2cRecoverFree ==
    ASSUME LinumI2cIInv, LinumI2c!RecoverFree PROVE LinumI2cIInv'
<1> USE LinumI2cParts
<1> DEFINE l == LinumI2c!Cleared(hw.line, LinumI2c!Events)
<1>1. /\ srv.at = "recover" /\ hw.run = 0 /\ UNCHANGED hist
      /\ hw' = [hw EXCEPT !.line = l] /\ LinumI2c!Reply(LinumI2c!Verdict, 0)
  BY DEF LinumI2c!RecoverFree
<1>2. l \in LinumI2cLines
  BY LinumI2cClearedLine
<1> HIDE DEF l
<1>3. /\ hw' \in LinumI2cUnit /\ hw'.run = hw.run /\ hw'.armed = hw.armed
  BY <1>1, <1>2, LinumI2cLineSet
<1>4. LinumI2c!Verdict \in LinumI2cRcs /\ LinumI2c!Verdict # "ok"
  BY DEF LinumI2c!Verdict, LinumI2cRcs
<1> QED  BY <1>1, <1>3, <1>4, LinumI2cRecovering, LinumI2cRestStep

LEMMA LinumI2cRecoverStop ==
    ASSUME LinumI2cIInv, LinumI2c!RecoverStop PROVE LinumI2cIInv'
<1> USE LinumI2cParts
<1>1. /\ srv.at = "recover" /\ UNCHANGED <<usr, hist>>
      /\ srv' = [srv EXCEPT !.at = "stopping"]
      /\ hw' = [hw EXCEPT !.refused = TRUE]
  BY DEF LinumI2c!RecoverStop
<1>2. /\ srv' \in LinumI2cServer /\ srv'.at = "stopping"
      /\ srv'.user = srv.user /\ srv'.raw \subseteq srv.raw
  BY <1>1, LinumI2cGoes DEF LinumI2c!Places
<1>3. /\ hw' \in LinumI2cUnit /\ hw'.run = hw.run /\ hw'.armed = hw.armed
  BY <1>1 DEF LinumI2cUnit
<1> QED
  BY <1>1, <1>2, <1>3, LinumI2cRecovering, LinumI2cWithinStep
     DEF LinumI2cOnBus, LinumI2cAwaiting

LEMMA LinumI2cStopped ==
    ASSUME LinumI2cIInv, LinumI2c!Stopped PROVE LinumI2cIInv'
<1> USE LinumI2cParts
<1> DEFINE l == LinumI2c!Cleared(hw.line, LinumI2c!Events)
<1>1. /\ srv.at = "stopping" /\ UNCHANGED <<usr, hist>>
      /\ srv' = [srv EXCEPT !.at = "stopped"]
      /\ hw' = [hw EXCEPT !.line = l]
  BY DEF LinumI2c!Stopped
<1>2. /\ srv' \in LinumI2cServer /\ srv'.at = "stopped"
      /\ srv'.user = srv.user /\ srv'.raw \subseteq srv.raw
  BY <1>1, LinumI2cGoes DEF LinumI2c!Places
<1>3. l \in LinumI2cLines
  BY LinumI2cClearedLine
<1> HIDE DEF l
<1>4. /\ hw' \in LinumI2cUnit /\ hw'.run = hw.run /\ hw'.armed = hw.armed
  BY <1>1, <1>3, LinumI2cLineSet
<1> QED
  BY <1>1, <1>2, <1>4, LinumI2cRecovering, LinumI2cWithinStep
     DEF LinumI2cOnBus, LinumI2cAwaiting

LEMMA LinumI2cRestart ==
    ASSUME LinumI2cIInv, LinumI2c!Restart PROVE LinumI2cIInv'
<1> USE LinumI2cParts
<1> DEFINE l == LinumI2c!Cleared(hw.line, LinumI2c!Events)
<1>1. /\ srv.at = "stopped" /\ UNCHANGED hist
      /\ LinumI2c!Reply(LinumI2c!Verdict, 0)
      /\ hw' = IF hw.run = 0 THEN hw
               ELSE [hw EXCEPT !.run = 0, !.line = l, !.stuck = FALSE]
  BY DEF LinumI2c!Restart
<1>2. l \in LinumI2cLines
  BY LinumI2cClearedLine
<1> HIDE DEF l
<1>3. /\ hw' \in LinumI2cUnit /\ hw'.run = 0 /\ hw'.armed = hw.armed
  BY <1>1, <1>2 DEF LinumI2cUnit
<1>4. LinumI2c!Verdict \in LinumI2cRcs /\ LinumI2c!Verdict # "ok"
  BY DEF LinumI2c!Verdict, LinumI2cRcs
<1> QED  BY <1>1, <1>3, <1>4, LinumI2cRecovering, LinumI2cRestStep

(* The bus, the stream and the interrupt: the server stays where it is.    *)
LEMMA LinumI2cBusStep ==
    ASSUME LinumI2cIInv, UNCHANGED <<usr, srv, hist>>, hw.run # 0,
           hw' \in LinumI2cUnit, hw'.run \in {0, hw.run}, hw'.armed = hw.armed,
           srv.at \in LinumI2cAwaiting =>
             /\ hw'.run # 0 /\ hw'.refused => "nack" \in hw'.line.raw
             /\ "stop" \in hw'.line.raw =>
                  /\ hw'.run = 0
                  /\ "nack" \in hw'.line.raw \/ hw'.good = hw.run
    PROVE  LinumI2cIInv'
<1>1. hw.run = LinumI2c!Own /\ srv.at \in LinumI2cOnBus
  BY DEF LinumI2cIInv, LinumI2cWork, LinumI2cOneTransfer
<1>2. srv.at \notin {"recv", "arm", "start"}
  BY <1>1 DEF LinumI2cOnBus, LinumI2cAwaiting
<1>3. srv.at \in {"arm", "dma"} => LinumI2c!Call # "probe"
  BY DEF LinumI2cIInv, LinumI2cWork, LinumI2cOneTransfer
<1>4. /\ hw.armed # 0 =>
           \/ hw.armed \in hist
           \/ /\ hw.armed = LinumI2c!Own /\ LinumI2c!Call # "probe"
              /\ srv.at \in {"start", "dma"}
      /\ LinumI2c!Call # "probe" => hw.armed \in {0, LinumI2c!Own}
  BY <1>1 DEF LinumI2cIInv, LinumI2cWork, LinumI2cArmed
<1> QED  BY <1>1, <1>2, <1>3, <1>4, LinumI2cParts, LinumI2cWithinStep

LEMMA LinumI2cMoveBytes ==
    ASSUME LinumI2cIInv, LinumI2c!MoveBytes PROVE LinumI2cIInv'
<1> USE LinumI2cParts
<1>1. /\ hw' = [hw EXCEPT !.moved = TRUE] /\ hw.run # 0
      /\ UNCHANGED <<usr, srv, hist>>
  BY DEF LinumI2c!MoveBytes, LinumI2c!Active
<1>2. /\ hw' \in LinumI2cUnit /\ hw'.line = hw.line /\ hw'.run = hw.run
      /\ (hw'.refused <=> hw.refused) /\ hw'.armed = hw.armed
  BY <1>1 DEF LinumI2cUnit
<1>3. srv.at \in LinumI2cAwaiting =>
        /\ hw.refused => "nack" \in hw.line.raw
        /\ "stop" \notin hw.line.raw
  BY <1>1 DEF LinumI2cIInv, LinumI2cWork, LinumI2cEnding
<1> QED  BY <1>1, <1>2, <1>3, LinumI2cBusStep

LEMMA LinumI2cNack == ASSUME LinumI2cIInv, LinumI2c!Nack PROVE LinumI2cIInv'
<1> USE LinumI2cParts
<1> DEFINE l == LinumI2c!Latched(hw.line, "nack")
<1>1. /\ hw' = [hw EXCEPT !.refused = TRUE, !.line = l] /\ hw.run # 0
      /\ UNCHANGED <<usr, srv, hist>>
  BY DEF LinumI2c!Nack, LinumI2c!Active
<1>2. l \in LinumI2cLines /\ l.raw = hw.line.raw \cup {"nack"}
  <2>1. "nack" \in LinumI2c!Events
    BY DEF LinumI2c!Events
  <2> QED  BY <2>1, LinumI2cLatchedLine
<1> HIDE DEF l
<1>3. /\ hw' \in LinumI2cUnit /\ hw'.line = l /\ hw'.run = hw.run
      /\ hw'.armed = hw.armed
  BY <1>1, <1>2 DEF LinumI2cUnit
<1>4. srv.at \in LinumI2cAwaiting => "stop" \notin hw.line.raw
  BY <1>1 DEF LinumI2cIInv, LinumI2cWork, LinumI2cEnding
<1> QED  BY <1>1, <1>2, <1>3, <1>4, LinumI2cBusStep

LEMMA LinumI2cStop == ASSUME LinumI2cIInv, LinumI2c!Stop PROVE LinumI2cIInv'
<1> USE LinumI2cParts
<1> DEFINE l == LinumI2c!Latched(hw.line, "stop")
           good == IF hw.refused THEN hw.good ELSE hw.run
<1>1. /\ hw' = [hw EXCEPT !.run = 0, !.line = l, !.good = good]
      /\ hw.run # 0 /\ UNCHANGED <<usr, srv, hist>>
  BY DEF LinumI2c!Stop, LinumI2c!Active
<1>2. l \in LinumI2cLines /\ l.raw = hw.line.raw \cup {"stop"}
  <2>1. "stop" \in LinumI2c!Events
    BY DEF LinumI2c!Events
  <2> QED  BY <2>1, LinumI2cLatchedLine
<1>3. good \in 0 .. Few /\ (~hw.refused => good = hw.run)
  BY DEF LinumI2cUnit
<1> HIDE DEF l, good
<1>4. /\ hw' \in LinumI2cUnit /\ hw'.line = l /\ hw'.run = 0
      /\ hw'.armed = hw.armed /\ hw'.good = good
  BY <1>1, <1>2, <1>3 DEF LinumI2cUnit
<1>5. srv.at \in LinumI2cAwaiting => (hw.refused => "nack" \in hw.line.raw)
  BY <1>1 DEF LinumI2cIInv, LinumI2cWork, LinumI2cEnding
<1> QED  BY <1>1, <1>2, <1>3, <1>4, <1>5, LinumI2cBusStep

LEMMA LinumI2cStick == ASSUME LinumI2cIInv, LinumI2c!Stick PROVE LinumI2cIInv'
<1> USE LinumI2cParts
<1>1. /\ hw' = [hw EXCEPT !.stuck = TRUE] /\ hw.run # 0
      /\ UNCHANGED <<usr, srv, hist>>
  BY DEF LinumI2c!Stick, LinumI2c!Active
<1>2. /\ hw' \in LinumI2cUnit /\ hw'.line = hw.line /\ hw'.run = hw.run
      /\ (hw'.refused <=> hw.refused) /\ hw'.armed = hw.armed
  BY <1>1 DEF LinumI2cUnit
<1>3. srv.at \in LinumI2cAwaiting =>
        /\ hw.refused => "nack" \in hw.line.raw
        /\ "stop" \notin hw.line.raw
  BY <1>1 DEF LinumI2cIInv, LinumI2cWork, LinumI2cEnding
<1> QED  BY <1>1, <1>2, <1>3, LinumI2cBusStep

LEMMA LinumI2cInterrupt ==
    ASSUME LinumI2cIInv, LinumI2c!Interrupt PROVE LinumI2cIInv'
<1> USE LinumI2cParts
<1> DEFINE l == LinumI2c!Delivered(hw.line)
<1>1. hw' = [hw EXCEPT !.line = l] /\ UNCHANGED <<usr, srv, hist>>
  BY DEF LinumI2c!Interrupt
<1>2. l \in LinumI2cLines /\ l.raw = hw.line.raw
  BY LinumI2cLineOps
<1> HIDE DEF l
<1>3. /\ hw' \in LinumI2cUnit /\ hw'.line.raw = hw.line.raw /\ hw'.run = hw.run
      /\ (hw'.refused <=> hw.refused) /\ hw'.armed = hw.armed
      /\ hw'.good = hw.good
  BY <1>1, <1>2, LinumI2cLineSet
<1>4. LinumI2c!Own' = LinumI2c!Own /\ LinumI2c!Call' = LinumI2c!Call
  BY <1>1 DEF LinumI2c!Own, LinumI2c!Call
<1>6. LinumI2cOneTransfer' /\ LinumI2cArmed' /\ LinumI2cStale'
  BY <1>1, <1>3, <1>4
     DEF LinumI2cIInv, LinumI2cWork, LinumI2cOneTransfer, LinumI2cArmed,
         LinumI2cStale
<1>7. LinumI2cEnding'
  BY <1>1, <1>3, <1>4 DEF LinumI2cIInv, LinumI2cWork, LinumI2cEnding
<1> QED  BY <1>1, <1>3, <1>6, <1>7, LinumI2cOutside DEF LinumI2cWork


LEMMA LinumI2cNext == ASSUME LinumI2cIInv, LinumI2c!Next PROVE LinumI2cIInv'
BY LinumI2cRequest, LinumI2cReceive, LinumI2cClearFlags, LinumI2cArmDma,
   LinumI2cArmFails, LinumI2cStart, LinumI2cDmaDone, LinumI2cDmaStale,
   LinumI2cDmaTimesOut,
   LinumI2cTestNack, LinumI2cTestStop, LinumI2cWriteDone,
   LinumI2cWaitingSteps, LinumI2cRecoverFree, LinumI2cRecoverStop,
   LinumI2cStopped, LinumI2cRestart, LinumI2cMoveBytes, LinumI2cNack,
   LinumI2cStop, LinumI2cStick, LinumI2cInterrupt
   DEF LinumI2c!Next, LinumI2c!Proceed

LEMMA LinumI2cStutter ==
    ASSUME LinumI2cIInv, UNCHANGED <<usr, srv, hw, hist>> PROVE LinumI2cIInv'
BY DEF LinumI2cIInv, LinumI2cTyped, LinumI2c!Call, LinumI2cWork,
       LinumI2cOneTransfer, LinumI2c!Own, LinumI2cEnding, LinumI2cArmed,
       LinumI2cStale, LinumI2cAnswers, LinumI2c!OkIsTrue

LEMMA LinumI2cSafe ==
    LinumI2cIInv => LinumI2c!TypeOK /\ LinumI2c!OkIsTrue /\ LinumI2c!Traced
<1>1. LinumI2cUsers = LinumI2c!UserType(LinumI2c!Calls,
                        {"ok", "esrch", "einval", "etimeout"})
  BY DEF LinumI2cUsers, LinumI2cUser, UserRec, LinumI2cRcs, LinumI2cCalls,
     LinumI2c!UserType
<1>2. LinumI2cIInv => LinumI2c!TypeOK
  BY <1>1 DEF LinumI2cIInv, LinumI2cTyped, LinumI2cServer, LinumI2cUnit,
     LinumI2cHist, LinumI2cLines, LinumI2c!TypeOK
<1>3. ASSUME LinumI2cIInv PROVE LinumI2c!Traced
  <2>1. /\ srv.at = "recv" => hw.run = 0
        /\ hw.run # 0 => hw.run = LinumI2c!Own /\ srv.at \in LinumI2cOnBus
    BY <1>3
       DEF LinumI2cIInv, LinumI2cWork, LinumI2cOneTransfer, LinumI2cOnBus,
           LinumI2cAwaiting
  <2>2. srv.at = "recv" => (hw.armed # 0 => hw.armed \in hist)
    BY <1>3 DEF LinumI2cIInv, LinumI2cWork, LinumI2cArmed
  <2>3. hw.run # 0 /\ LinumI2c!Call # "probe" =>
           hw.armed \in {0, LinumI2c!Own}
    BY <1>3, <2>1 DEF LinumI2cIInv, LinumI2cWork, LinumI2cArmed
  <2> QED  BY <2>1, <2>2, <2>3 DEF LinumI2c!Traced
<1> QED  BY <1>2, <1>3 DEF LinumI2cIInv, LinumI2cAnswers

(* LinumI2cKeeps.  The I2C server of the Linum board: an answer OK is that *)
(* of a transfer the slave acknowledged to its end, whatever flags,        *)
(* notifications and completions earlier ones have left (but the bytes of  *)
(* a read may not be there behind a completion left over); and whatever    *)
(* the answer, the bus is free when it is given.                           *)
THEOREM LinumI2cKeeps ==
    LinumI2c!Spec =>
       [](LinumI2c!TypeOK /\ LinumI2c!OkIsTrue /\ LinumI2c!Traced)
<1>1. LinumI2c!Init => LinumI2cIInv
  BY LinumI2cInit
<1>2. LinumI2cIInv /\ [LinumI2c!Next]_LinumI2c!vars => LinumI2cIInv'
  BY LinumI2cNext, LinumI2cStutter DEF LinumI2c!vars
<1>3. LinumI2cIInv => LinumI2c!TypeOK /\ LinumI2c!OkIsTrue /\ LinumI2c!Traced
  BY LinumI2cSafe
<1> QED  BY <1>1, <1>2, <1>3, PTL DEF LinumI2c!Spec

HIDE DEF LinumI2c!None, LinumI2c!Ids, LinumI2c!Own, LinumI2c!Call,
         LinumI2c!Goto, LinumI2c!Resting, LinumI2c!ServerType,
         LinumI2c!Calls

-----------------------------------------------------------------------------
(* The FDCAN server of the Linum board.                                    *)

USE DEF LinumCan!None, LinumCan!Ids, LinumCan!Own, LinumCan!Call,
        LinumCan!Goto, LinumCan!Resting, LinumCan!ServerType,
        LinumCan!Acked, LinumCan!Taken, LinumCan!Delivered,
        LinumCan!Latched, LinumCan!Cleared, LinumCan!Due

LinumCanCalls  == {"send", "recv"}
LinumCanRcs    == {"ok", "etimeout"}
LinumCanUser   == UserRec(LinumCanCalls, LinumCanRcs, Many)
LinumCanUsers  == [Several -> LinumCanUser]
LinumCanServer == LinumCan!ServerType(LinumCan!Places, {}, 0)
LinumCanLines  == LinumCan!LineType({"new"})
LinumCanUnit   == [line : LinumCanLines, tx : 0 .. Many, fifo : Nat,
                   sent : Nat, bus : 0 .. MaxFrames]
LinumCanHist   == [took : Nat, eager : BOOLEAN, twice : BOOLEAN]

LinumCanTyped ==
    /\ usr \in LinumCanUsers /\ srv \in LinumCanServer
    /\ hw \in LinumCanUnit /\ hist \in LinumCanHist
    /\ \A u \in Several : usr[u].at # "idle" => usr[u].n # 0
    /\ srv.at # "recv" => LinumCan!Call \in LinumCanCalls

(* Frames are numbered as they are stored: the one in the FIFO is younger  *)
(* than the one delivered last until it is taken, and its flag is latched  *)
(* while a RECV waits.                                                     *)
LinumCanOrder ==
    /\ hw.line.ena = {"new"} /\ ~hist.twice
    /\ hist.took <= hw.sent /\ hw.fifo <= hw.sent
    /\ srv.at # "release" /\ hw.fifo # 0 => hist.took < hw.fifo
    /\ srv.at = "release" => hw.fifo = hist.took
    /\ srv.at \in {"take", "release"} => hw.fifo # 0
    /\ srv.at \in {"open", "wait"} /\ hw.fifo # 0 => "new" \in hw.line.raw
    /\ srv.at = "wait" /\ ~hw.line.bit => ~hw.line.masked

(* As long as no RECV has found its frame before it waited, flag and       *)
(* notification are those of the frame in the FIFO.                        *)
LinumCanPrompt ==
    /\ hw.line.bit => hw.line.masked /\ hw.fifo # 0
    /\ srv.at \notin {"release", "clear"} /\ "new" \in hw.line.raw =>
          hw.fifo # 0
    /\ srv.at \in {"level2", "release", "clear"} =>
          hw.line.masked /\ ~hw.line.bit
    /\ srv.at = "level2" => hw.fifo # 0

(* Every frame stored is one of the other node or of a SEND answered OK.   *)
LinumCanCounted ==
    \E k \in Nat :
        /\ Tally(usr, Several, Many, k)
        /\ hw.sent + hw.bus + (IF hw.tx = 0 THEN 0 ELSE 1) <= MaxFrames + k

LinumCanWork ==
    LinumCanOrder /\ (~hist.eager => LinumCanPrompt) /\ LinumCanCounted

LinumCanIInv == LinumCanTyped /\ LinumCanWork

LEMMA LinumCanServes ==
    ASSUME LinumCanTyped
    PROVE  /\ srv.user \in Several /\ LinumCan!Own \in 0 .. Many
           /\ srv.at # "recv" => LinumCan!Own # 0
<1>1. srv.user \in Several /\ usr \in [Several -> LinumCanUser]
  BY DEF LinumCanTyped, LinumCanServer, LinumCanUsers
<1>2. LinumCan!Own \in 0 .. Many
  BY <1>1 DEF LinumCanUser, UserRec
<1>3. srv.at # "recv" => LinumCan!Call # "idle"
  BY DEF LinumCanTyped, LinumCanCalls
<1> QED  BY <1>1, <1>2, <1>3 DEF LinumCanTyped

LEMMA LinumCanBegins ==
    ASSUME usr = LinumCan!IdleUsers,
           srv = LinumCan!Resting(CHOOSE u \in Several : TRUE)
    PROVE  /\ usr \in LinumCanUsers /\ srv \in LinumCanServer
           /\ srv.at = "recv"
           /\ \A u \in Several : usr[u].at = "idle" /\ usr[u].rc = ""
<1>1. [at |-> "idle", n |-> 0, rc |-> "", val |-> 0] \in LinumCanUser
  BY ServersAssumption DEF LinumCanUser, UserRec
<1>2. /\ usr \in LinumCanUsers
      /\ \A u \in Several : usr[u].at = "idle" /\ usr[u].rc = ""
  BY <1>1 DEF LinumCan!IdleUsers, LinumCanUsers
<1>3. (CHOOSE u \in Several : TRUE) \in Several
  BY ServersAssumption
<1>4. srv \in LinumCanServer /\ srv.at = "recv"
  BY <1>3, ServersAssumption DEF LinumCanServer
<1> QED  BY <1>2, <1>4

LEMMA LinumCanAsked ==
    ASSUME LinumCanTyped, NEW u \in Several, NEW call \in LinumCanCalls,
           LinumCan!Ask(u, call)
    PROVE  /\ LinumCanTyped' /\ UNCHANGED <<srv, hw, hist>>
           /\ usr'[u].rc = "" /\ usr'[u].at = call
           /\ \A v \in Several : v # u => usr'[v] = usr[v]
           /\ srv.at # "recv" =>
                 LinumCan!Own' = LinumCan!Own /\ LinumCan!Call' = LinumCan!Call
<1>1. PICK n \in 1 .. Many :
         usr' = [usr EXCEPT ![u] = [at |-> call, n |-> n, rc |-> "",
                                    val |-> 0]]
  BY DEF LinumCan!Ask
<1>2. usr[u].at = "idle" /\ UNCHANGED <<srv, hw, hist>>
  BY DEF LinumCan!Ask
<1>3. [at |-> call, n |-> n, rc |-> "", val |-> 0] \in LinumCanUser
  BY AskRec, ServersAssumption DEF LinumCanUser
<1>4. /\ usr' \in LinumCanUsers
      /\ usr'[u].at = call /\ usr'[u].n = n /\ usr'[u].rc = ""
      /\ \A v \in Several : v # u => usr'[v] = usr[v]
  BY <1>1, <1>3 DEF LinumCanTyped, LinumCanUsers
<1>5. srv.at # "recv" => srv.user # u /\ srv.user \in Several
  BY <1>2, LinumCanServes DEF LinumCanTyped, LinumCanCalls
<1>6. n # 0
  OBVIOUS
<1>7. \A v \in Several : usr'[v].at # "idle" => usr'[v].n # 0
  BY <1>4, <1>6 DEF LinumCanTyped
<1>8. srv.at # "recv" =>
         LinumCan!Own' = LinumCan!Own /\ LinumCan!Call' = LinumCan!Call
  BY <1>2, <1>4, <1>5
<1> QED  BY <1>2, <1>4, <1>7, <1>8 DEF LinumCanTyped

LEMMA LinumCanReceived ==
    ASSUME LinumCanTyped, NEW u \in Several, usr[u].at \in LinumCanCalls,
           NEW next \in LinumCan!Places, NEW left \in 0 .. 0,
           srv' = [at |-> next, user |-> u, late |-> FALSE, raw |-> {},
                   left |-> left],
           UNCHANGED <<usr, hw, hist>>
    PROVE  /\ LinumCanTyped' /\ srv'.at = next /\ srv'.user = u
           /\ srv'.late = FALSE /\ srv'.raw = {} /\ srv'.left = left
<1>1. srv' \in LinumCanServer /\ srv'.at = next /\ srv'.user = u
  BY DEF LinumCanServer
<1> QED  BY <1>1 DEF LinumCanTyped

LEMMA LinumCanGoes ==
    ASSUME LinumCanTyped, NEW next \in LinumCan!Places,
           srv' = [srv EXCEPT !.at = next]
    PROVE  /\ srv' \in LinumCanServer /\ srv'.at = next
           /\ UNCHANGED <<srv.user, srv.raw, srv.left>>
           /\ (srv'.late <=> srv.late)
BY DEF LinumCanTyped, LinumCanServer

LEMMA LinumCanReplied ==
    ASSUME LinumCanTyped, NEW rc \in LinumCanRcs, NEW val \in 0 .. Many,
           LinumCan!Reply(rc, val), hw' \in LinumCanUnit,
           hist' \in LinumCanHist
    PROVE  /\ LinumCanTyped' /\ srv'.at = "recv" /\ srv'.user = srv.user
           /\ usr'[srv.user].at = "idle" /\ usr'[srv.user].rc = rc
           /\ usr'[srv.user].n = usr[srv.user].n /\ usr'[srv.user].val = val
           /\ \A v \in Several : v # srv.user => usr'[v] = usr[v]
<1> DEFINE x == [[[usr[srv.user] EXCEPT !.at = "idle"] EXCEPT !.rc = rc]
                    EXCEPT !.val = val]
<1>1. srv.user \in Several /\ usr \in [Several -> LinumCanUser]
  BY LinumCanServes DEF LinumCanTyped, LinumCanUsers
<1>2. /\ x \in LinumCanUser
      /\ x.at = "idle" /\ x.n = usr[srv.user].n /\ x.rc = rc /\ x.val = val
  <2>1. usr[srv.user] \in LinumCanUser
    BY <1>1
  <2> QED  BY <2>1, ServersAssumption DEF LinumCanUser, UserRec
<1>3. /\ usr' \in LinumCanUsers /\ usr'[srv.user] = x
      /\ \A v \in Several : v # srv.user => usr'[v] = usr[v]
  BY <1>1, <1>2, Thrice DEF LinumCan!Reply, LinumCanUsers
<1>4. srv' \in LinumCanServer /\ srv'.at = "recv" /\ srv'.user = srv.user
  BY <1>1 DEF LinumCan!Reply, LinumCanServer
<1> HIDE DEF x
<1>5. \A v \in Several : usr'[v].at # "idle" => usr'[v].n # 0
  BY <1>2, <1>3 DEF LinumCanTyped
<1> QED  BY <1>2, <1>3, <1>4, <1>5 DEF LinumCanTyped

(* A step that leaves the users alone.                                     *)
LEMMA LinumCanQuiet ==
    ASSUME LinumCanIInv, UNCHANGED usr, srv' \in LinumCanServer,
           srv'.at # "recv",
           srv'.user = srv.user, srv.at # "recv",
           hw' \in LinumCanUnit, hist' \in LinumCanHist, LinumCanWork'
    PROVE  LinumCanIInv'
BY DEF LinumCanIInv, LinumCanTyped

(* A step of the peripheral.                                               *)
LEMMA LinumCanOutside ==
    ASSUME LinumCanIInv, UNCHANGED <<usr, srv, hist>>, hw' \in LinumCanUnit,
           LinumCanWork'
    PROVE  LinumCanIInv'
BY DEF LinumCanIInv, LinumCanTyped

LEMMA LinumCanTallyAsk ==
    ASSUME LinumCanTyped, NEW u \in Several, NEW call, LinumCan!Ask(u, call),
           NEW k,
           Tally(usr, Several, Many, k)
    PROVE  Tally(usr', Several, Many, k)
<1>1. PICK n \in 1 .. Many :
         /\ \A v \in Several : usr[v].n < n
         /\ usr' = [usr EXCEPT ![u] = [at |-> call, n |-> n, rc |-> "",
                                    val |-> 0]]
  BY DEF LinumCan!Ask, LinumCan!Fresh
<1>2. /\ usr \in [Several -> LinumCanUser]
      /\ \A v \in Several : usr[v].n \in 0 .. Many
  BY DEF LinumCanTyped, LinumCanUsers, LinumCanUser, UserRec
<1>3. usr'[u].n = n /\ \A v \in Several : v # u => usr'[v] = usr[v]
  BY <1>1, <1>2
<1> QED  BY <1>1, <1>2, <1>3, ServersAssumption, TallyAsk

LEMMA LinumCanTallyReply ==
    ASSUME LinumCanTyped, srv.at # "recv", NEW k \in Nat,
           Tally(usr, Several, Many, k),
           usr'[srv.user].at = "idle", usr'[srv.user].n = usr[srv.user].n,
           \A v \in Several : v # srv.user => usr'[v] = usr[v]
    PROVE  Tally(usr', Several, Many, k) /\ Tally(usr', Several, Many, k + 1)
<1>1. /\ LinumCan!Call # "idle" /\ LinumCan!Own \in 1 .. Many
      /\ srv.user \in Several
  <2>1. /\ srv.user \in Several /\ LinumCan!Own \in 0 .. Many
        /\ LinumCan!Own # 0
    BY LinumCanServes
  <2>2. LinumCan!Call # "idle"
    BY DEF LinumCanTyped, LinumCanCalls
  <2> QED  BY <2>1, <2>2, ServersAssumption
<1> HIDE DEF LinumCan!Own, LinumCan!Call
<1> QED  BY <1>1, ServersAssumption, TallyReply DEF LinumCan!Own, LinumCan!Call

LEMMA LinumCanInit == ASSUME LinumCan!Init PROVE LinumCanIInv
<1>1. /\ usr = LinumCan!IdleUsers
      /\ srv = LinumCan!Resting(CHOOSE u \in Several : TRUE)
      /\ hw = [line |-> LinumCan!Line({"new"}), tx |-> 0, fifo |-> 0,
               sent |-> 0, bus |-> MaxFrames]
      /\ hist = [took |-> 0, eager |-> FALSE, twice |-> FALSE]
  BY DEF LinumCan!Init
<1>2. /\ LinumCan!Line({"new"}) \in LinumCanLines
      /\ LinumCan!Line({"new"}) = [raw |-> {}, ena |-> {"new"},
                                   masked |-> FALSE, bit |-> FALSE]
  BY DEF LinumCan!Line, LinumCanLines, LinumCan!LineType
<1>3. hw \in LinumCanUnit /\ hist \in LinumCanHist
  <2>1. 0 \in 0 .. Many /\ MaxFrames \in 0 .. MaxFrames
    BY ServersAssumption
  <2> QED  BY <1>1, <1>2, <2>1 DEF LinumCanUnit, LinumCanHist
<1>4. LinumCanOrder /\ LinumCanPrompt
  <2>1. /\ hw.line.raw = {} /\ hw.line.ena = {"new"} /\ ~hw.line.bit
        /\ ~hw.line.masked /\ hw.fifo = 0 /\ hw.sent = 0
    BY <1>1, <1>2
  <2>2. hist.took = 0 /\ ~hist.twice
    BY <1>1
  <2>3. srv.at = "recv"
    BY <1>1, LinumCanBegins
  <2> QED  BY <2>1, <2>2, <2>3 DEF LinumCanOrder, LinumCanPrompt
<1>5. LinumCanCounted
  <2>1. \A u \in Several : usr[u].n = 0
    BY <1>1 DEF LinumCan!IdleUsers
  <2>2. Tally(usr, Several, Many, 0)
    BY <2>1, TallyZero, ServersAssumption
  <2>3. hw.sent + hw.bus + (IF hw.tx = 0 THEN 0 ELSE 1) <= MaxFrames + 0
    BY <1>1, ServersAssumption
  <2> QED  BY <2>2, <2>3 DEF LinumCanCounted
<1> QED
  BY <1>1, <1>3, <1>4, <1>5, LinumCanBegins
     DEF LinumCanIInv, LinumCanTyped, LinumCanWork

LEMMA LinumCanRequest ==
    ASSUME LinumCanIInv, NEW u \in Several, LinumCan!Request(u)
    PROVE  LinumCanIInv'
<1>1. PICK call \in LinumCanCalls : LinumCan!Ask(u, call)
  BY DEF LinumCan!Request, LinumCanCalls
<1>2. LinumCanTyped' /\ UNCHANGED <<srv, hw, hist>>
  BY <1>1, LinumCanAsked DEF LinumCanIInv
<1>3. LinumCanOrder' /\ (~hist.eager => LinumCanPrompt)'
  BY <1>2 DEF LinumCanIInv, LinumCanWork, LinumCanOrder, LinumCanPrompt
<1>4. LinumCanCounted'
  BY <1>1, <1>2, LinumCanTallyAsk
     DEF LinumCanIInv, LinumCanWork, LinumCanCounted
<1> QED  BY <1>2, <1>3, <1>4 DEF LinumCanIInv, LinumCanWork

LEMMA LinumCanReceive ==
    ASSUME LinumCanIInv, NEW u \in Several, LinumCan!Receive(u)
    PROVE  LinumCanIInv'
<1>1. PICK next \in {"send", "level"} :
         /\ srv.at = "recv" /\ usr[u].at \in LinumCanCalls
         /\ UNCHANGED <<usr, hw, hist>>
         /\ srv' = [at |-> next, user |-> u, late |-> FALSE, raw |-> {},
                    left |-> 0]
  BY DEF LinumCan!Receive, LinumCan!Recv, LinumCanCalls
<1>2. next \in LinumCan!Places
  BY <1>1 DEF LinumCan!Places
<1>4. 0 \in 0 .. 0
  OBVIOUS
<1>3. LinumCanTyped' /\ srv'.at = next
  BY <1>1, <1>2, <1>4, LinumCanReceived DEF LinumCanIInv
<1>5. LinumCanCounted'
  BY <1>1 DEF LinumCanIInv, LinumCanWork, LinumCanCounted
<1> QED
  BY <1>1, <1>3, <1>5
     DEF LinumCanIInv, LinumCanWork, LinumCanOrder, LinumCanPrompt

(* The line set to another.                                                *)
LEMMA LinumCanLine ==
    ASSUME LinumCanTyped, NEW l \in LinumCanLines, hw' = [hw EXCEPT !.line = l]
    PROVE  /\ hw' \in LinumCanUnit /\ hw'.line = l
           /\ UNCHANGED <<hw.tx, hw.fifo, hw.sent, hw.bus>>
BY DEF LinumCanTyped, LinumCanUnit

LEMMA LinumCanLineIs ==
    ASSUME LinumCanTyped
    PROVE  hw.line \in LinumCanLines /\ hw.line.raw \subseteq {"new"}
BY DEF LinumCanTyped, LinumCanUnit, LinumCanLines, LinumCan!LineType

(* What is counted does not change when nobody is answered, ...            *)
LEMMA LinumCanSameCount ==
    ASSUME LinumCanIInv, UNCHANGED <<usr, hw.sent, hw.bus, hw.tx>>
    PROVE  LinumCanCounted'
BY DEF LinumCanIInv, LinumCanWork, LinumCanCounted

(* ... when an answer is not counted, ...                                  *)
LEMMA LinumCanAnswer ==
    ASSUME LinumCanIInv, srv.at # "recv", NEW rc \in LinumCanRcs,
           NEW val \in 0 .. Many, LinumCan!Reply(rc, val),
           hw' \in LinumCanUnit, UNCHANGED <<hist, hw.sent, hw.bus, hw.tx>>
    PROVE  LinumCanTyped' /\ srv'.at = "recv" /\ LinumCanCounted'
<1>1. /\ LinumCanTyped' /\ srv'.at = "recv"
      /\ usr'[srv.user].at = "idle" /\ usr'[srv.user].n = usr[srv.user].n
      /\ \A v \in Several : v # srv.user => usr'[v] = usr[v]
  BY LinumCanReplied DEF LinumCanIInv, LinumCanTyped
<1>2. PICK k \in Nat :
         /\ Tally(usr, Several, Many, k)
         /\ hw.sent + hw.bus + (IF hw.tx = 0 THEN 0 ELSE 1) <= MaxFrames + k
  BY DEF LinumCanIInv, LinumCanWork, LinumCanCounted
<1>3. Tally(usr', Several, Many, k)
  BY <1>1, <1>2, LinumCanTallyReply DEF LinumCanIInv
<1> QED  BY <1>1, <1>2, <1>3 DEF LinumCanCounted

LEMMA LinumCanSendBusy ==
    ASSUME LinumCanIInv, LinumCan!SendBusy PROVE LinumCanIInv'
<1>1. /\ srv.at = "send" /\ LinumCan!Reply("etimeout", 0)
      /\ UNCHANGED <<hw, hist>>
  BY DEF LinumCan!SendBusy
<1>2. "etimeout" \in LinumCanRcs /\ hw' \in LinumCanUnit
  BY <1>1 DEF LinumCanRcs, LinumCanIInv, LinumCanTyped
<1>3. 0 \in 0 .. Many
  BY ServersAssumption
<1>4. LinumCanTyped' /\ srv'.at = "recv" /\ LinumCanCounted'
  BY <1>1, <1>2, <1>3, LinumCanAnswer
<1> QED
  BY <1>1, <1>4
     DEF LinumCanIInv, LinumCanWork, LinumCanOrder, LinumCanPrompt

(* ... and counts one more when a SEND is answered OK.                     *)
LEMMA LinumCanSend == ASSUME LinumCanIInv, LinumCan!Send PROVE LinumCanIInv'
<1>0. LinumCanTyped
  BY DEF LinumCanIInv
<1>1. /\ srv.at = "send" /\ LinumCan!Reply("ok", LinumCan!Own)
      /\ UNCHANGED hist /\ hw.tx = 0
      /\ hw' = [hw EXCEPT !.tx = LinumCan!Own]
  BY DEF LinumCan!Send
<1>2. /\ LinumCan!Own \in 0 .. Many /\ "ok" \in LinumCanRcs
      /\ hist' \in LinumCanHist
  BY <1>0, <1>1, LinumCanServes DEF LinumCanRcs, LinumCanTyped
<1>3. /\ hw' \in LinumCanUnit
      /\ UNCHANGED <<hw.line, hw.fifo, hw.sent, hw.bus>>
  BY <1>0, <1>1, <1>2 DEF LinumCanTyped, LinumCanUnit
<1>4. /\ LinumCanTyped' /\ srv'.at = "recv"
      /\ usr'[srv.user].at = "idle" /\ usr'[srv.user].n = usr[srv.user].n
      /\ \A v \in Several : v # srv.user => usr'[v] = usr[v]
  BY <1>0, <1>1, <1>2, <1>3, LinumCanReplied
<1>5. LinumCanCounted'
  <2>1. PICK k \in Nat :
           /\ Tally(usr, Several, Many, k)
           /\ hw.sent + hw.bus <= MaxFrames + k
    <3>1. hw.sent \in Nat /\ hw.bus \in Nat
      BY <1>0, ServersAssumption DEF LinumCanTyped, LinumCanUnit
    <3> QED
      BY <1>1, <3>1 DEF LinumCanIInv, LinumCanWork, LinumCanCounted
  <2>2. Tally(usr', Several, Many, k + 1)
    BY <1>0, <1>1, <1>4, <2>1, LinumCanTallyReply
  <2>3. hw.sent \in Nat /\ hw.bus \in Nat
    BY <1>0, ServersAssumption DEF LinumCanTyped, LinumCanUnit
  <2>4. hw'.sent + hw'.bus + (IF hw'.tx = 0 THEN 0 ELSE 1)
           <= MaxFrames + (k + 1)
    BY <1>3, <2>1, <2>3, ServersAssumption
  <2> QED  BY <2>2, <2>4 DEF LinumCanCounted
<1> QED
  BY <1>1, <1>3, <1>4, <1>5
     DEF LinumCanIInv, LinumCanWork, LinumCanOrder, LinumCanPrompt

LEMMA LinumCanLevel == ASSUME LinumCanIInv, LinumCan!Level PROVE LinumCanIInv'
<1> DEFINE next == IF hw.fifo = 0 THEN "open" ELSE "take"
<1>0. LinumCanTyped
  BY DEF LinumCanIInv
<1>1. /\ srv.at = "level" /\ srv' = [srv EXCEPT !.at = next]
      /\ UNCHANGED <<usr, hw, hist>>
  BY DEF LinumCan!Level
<1>2. /\ next \in LinumCan!Places /\ next \in {"open", "take"}
      /\ next = "open" <=> hw.fifo = 0
  BY DEF LinumCan!Places
<1> HIDE DEF next
<1>3. srv' \in LinumCanServer /\ srv'.at = next /\ srv'.user = srv.user
  BY <1>0, <1>1, <1>2, LinumCanGoes
<1>4. LinumCanCounted'
  BY <1>1, LinumCanSameCount
<1>5. LinumCanOrder' /\ (~hist.eager => LinumCanPrompt)'
  BY <1>1, <1>2, <1>3
     DEF LinumCanIInv, LinumCanWork, LinumCanOrder, LinumCanPrompt
<1> QED
  BY <1>0, <1>1, <1>2, <1>3, <1>4, <1>5, LinumCanQuiet
     DEF LinumCanTyped, LinumCanWork

LEMMA LinumCanOpen == ASSUME LinumCanIInv, LinumCan!Open PROVE LinumCanIInv'
<1> DEFINE l == LinumCan!Acked(hw.line)
           b == hist.eager \/ hw.fifo # 0
<1>0. LinumCanTyped
  BY DEF LinumCanIInv
<1>1. /\ srv.at = "open" /\ srv' = [srv EXCEPT !.at = "wait"]
      /\ UNCHANGED usr /\ hw' = [hw EXCEPT !.line = l]
      /\ hist' = [hist EXCEPT !.eager = b]
  BY DEF LinumCan!Open
<1>2. /\ l \in LinumCanLines /\ l.raw = hw.line.raw /\ l.ena = hw.line.ena
      /\ ~l.masked /\ (l.bit <=> hw.line.bit)
  BY <1>0, LinumCanLineIs DEF LinumCanLines, LinumCan!LineType
<1>3. b \in BOOLEAN /\ (~b => ~hist.eager /\ hw.fifo = 0)
  BY <1>0 DEF LinumCanTyped, LinumCanHist
<1> HIDE DEF l, b
<1>4. /\ hist' \in LinumCanHist /\ hist'.took = hist.took
      /\ (hist'.eager <=> b) /\ (hist'.twice <=> hist.twice)
  BY <1>0, <1>1, <1>3 DEF LinumCanTyped, LinumCanHist
<1>5. /\ hw' \in LinumCanUnit /\ hw'.line = l
      /\ UNCHANGED <<hw.tx, hw.fifo, hw.sent, hw.bus>>
  BY <1>0, <1>1, <1>2, LinumCanLine
<1>6. srv' \in LinumCanServer /\ srv'.at = "wait" /\ srv'.user = srv.user
  BY <1>0, <1>1, LinumCanGoes DEF LinumCan!Places
<1>7. LinumCanCounted'
  BY <1>1, <1>5, LinumCanSameCount
<1>8. LinumCanOrder'
  BY <1>1, <1>2, <1>4, <1>5, <1>6
     DEF LinumCanIInv, LinumCanWork, LinumCanOrder
<1>9. (~hist.eager => LinumCanPrompt)'
  BY <1>1, <1>2, <1>3, <1>4, <1>5, <1>6
     DEF LinumCanIInv, LinumCanWork, LinumCanPrompt
<1> QED
  BY <1>0, <1>1, <1>4, <1>5, <1>6, <1>7, <1>8, <1>9, LinumCanQuiet
     DEF LinumCanWork

LEMMA LinumCanWoken == ASSUME LinumCanIInv, LinumCan!Woken PROVE LinumCanIInv'
<1> DEFINE l == LinumCan!Taken(hw.line)
<1>0. LinumCanTyped
  BY DEF LinumCanIInv
<1>1. /\ srv.at = "wait" /\ hw.line.bit
      /\ srv' = [srv EXCEPT !.at = "level2"]
      /\ UNCHANGED <<usr, hist>> /\ hw' = [hw EXCEPT !.line = l]
  BY DEF LinumCan!Woken
<1>2. /\ l \in LinumCanLines /\ l.raw = hw.line.raw /\ l.ena = hw.line.ena
      /\ ~l.bit /\ (l.masked <=> hw.line.masked)
  BY <1>0, LinumCanLineIs DEF LinumCanLines, LinumCan!LineType
<1> HIDE DEF l
<1>5. /\ hw' \in LinumCanUnit /\ hw'.line = l
      /\ UNCHANGED <<hw.tx, hw.fifo, hw.sent, hw.bus>>
  BY <1>0, <1>1, <1>2, LinumCanLine
<1>6. srv' \in LinumCanServer /\ srv'.at = "level2" /\ srv'.user = srv.user
  BY <1>0, <1>1, LinumCanGoes DEF LinumCan!Places
<1>7. LinumCanCounted'
  BY <1>1, <1>5, LinumCanSameCount
<1>8. LinumCanOrder' /\ (~hist.eager => LinumCanPrompt)'
  BY <1>1, <1>2, <1>5, <1>6
     DEF LinumCanIInv, LinumCanWork, LinumCanOrder, LinumCanPrompt
<1> QED
  BY <1>0, <1>1, <1>5, <1>6, <1>7, <1>8, LinumCanQuiet
     DEF LinumCanTyped, LinumCanWork

LEMMA LinumCanEmpty == ASSUME LinumCanIInv, LinumCan!Empty PROVE LinumCanIInv'
<1>1. /\ srv.at = "level2" /\ hw.fifo = 0
      /\ LinumCan!Reply("etimeout", 0) /\ UNCHANGED <<hw, hist>>
  BY DEF LinumCan!Empty
<1>2. "etimeout" \in LinumCanRcs /\ hw' \in LinumCanUnit
  BY <1>1 DEF LinumCanRcs, LinumCanIInv, LinumCanTyped
<1>3. 0 \in 0 .. Many
  BY ServersAssumption
<1>4. LinumCanTyped' /\ srv'.at = "recv" /\ LinumCanCounted'
  BY <1>1, <1>2, <1>3, LinumCanAnswer
<1> QED
  BY <1>1, <1>4
     DEF LinumCanIInv, LinumCanWork, LinumCanOrder, LinumCanPrompt

LEMMA LinumCanTake == ASSUME LinumCanIInv, LinumCan!Take PROVE LinumCanIInv'
<1> DEFINE b == hist.eager \/ srv.at = "take"
           c == hist.twice \/ hw.fifo <= hist.took
<1>0. LinumCanTyped
  BY DEF LinumCanIInv
<1>1. /\ srv.at \in {"take", "level2"} /\ hw.fifo # 0
      /\ srv' = [srv EXCEPT !.at = "release"] /\ UNCHANGED <<usr, hw>>
      /\ hist' = [took |-> hw.fifo, eager |-> b, twice |-> c]
  BY DEF LinumCan!Take, LinumCanIInv, LinumCanWork, LinumCanOrder
<1>2. /\ hw.fifo \in Nat /\ hist.took \in Nat
      /\ hist.took < hw.fifo
  BY <1>0, <1>1
     DEF LinumCanIInv, LinumCanTyped, LinumCanUnit, LinumCanHist,
         LinumCanWork, LinumCanOrder
<1>3. /\ b \in BOOLEAN /\ c \in BOOLEAN /\ ~c
      /\ (~b => ~hist.eager /\ srv.at = "level2")
  <2>1. ~(hw.fifo <= hist.took)
    BY <1>2
  <2> QED
    BY <1>0, <1>1, <2>1
       DEF LinumCanIInv, LinumCanTyped, LinumCanHist, LinumCanWork,
           LinumCanOrder
<1> HIDE DEF b, c
<1>4. /\ hist' \in LinumCanHist /\ hist'.took = hw.fifo
      /\ (hist'.eager <=> b) /\ ~hist'.twice
  BY <1>1, <1>2, <1>3 DEF LinumCanHist
<1>6. srv' \in LinumCanServer /\ srv'.at = "release" /\ srv'.user = srv.user
  BY <1>0, <1>1, LinumCanGoes DEF LinumCan!Places
<1>7. LinumCanCounted'
  BY <1>1, LinumCanSameCount
<1>8. LinumCanOrder'
  BY <1>1, <1>4, <1>6 DEF LinumCanIInv, LinumCanWork, LinumCanOrder
<1>9. (~hist.eager => LinumCanPrompt)'
  BY <1>1, <1>3, <1>4, <1>6 DEF LinumCanIInv, LinumCanWork, LinumCanPrompt
<1> QED
  BY <1>0, <1>1, <1>4, <1>6, <1>7, <1>8, <1>9, LinumCanQuiet
     DEF LinumCanTyped, LinumCanWork

LEMMA LinumCanRelease ==
    ASSUME LinumCanIInv, LinumCan!Release PROVE LinumCanIInv'
<1>0. LinumCanTyped
  BY DEF LinumCanIInv
<1>1. /\ srv.at = "release" /\ srv' = [srv EXCEPT !.at = "clear"]
      /\ UNCHANGED <<usr, hist>> /\ hw' = [hw EXCEPT !.fifo = 0]
  BY DEF LinumCan!Release
<1>5. /\ hw' \in LinumCanUnit /\ hw'.fifo = 0
      /\ UNCHANGED <<hw.line, hw.tx, hw.sent, hw.bus>>
  BY <1>0, <1>1 DEF LinumCanTyped, LinumCanUnit
<1>6. srv' \in LinumCanServer /\ srv'.at = "clear" /\ srv'.user = srv.user
  BY <1>0, <1>1, LinumCanGoes DEF LinumCan!Places
<1>7. LinumCanCounted'
  BY <1>1, <1>5, LinumCanSameCount
<1>2. hw.sent \in Nat
  BY <1>0 DEF LinumCanTyped, LinumCanUnit
<1>8. LinumCanOrder' /\ (~hist.eager => LinumCanPrompt)'
  BY <1>1, <1>2, <1>5, <1>6
     DEF LinumCanIInv, LinumCanWork, LinumCanOrder, LinumCanPrompt
<1> QED
  BY <1>0, <1>1, <1>5, <1>6, <1>7, <1>8, LinumCanQuiet
     DEF LinumCanTyped, LinumCanWork

LEMMA LinumCanClear == ASSUME LinumCanIInv, LinumCan!Clear PROVE LinumCanIInv'
<1> DEFINE l == LinumCan!Acked(LinumCan!Cleared(hw.line, {"new"}))
<1>0. LinumCanTyped
  BY DEF LinumCanIInv
<1>1. /\ srv.at = "clear" /\ UNCHANGED hist
      /\ hw' = [hw EXCEPT !.line = l]
      /\ LinumCan!Reply("ok", LinumCan!Own)
  BY DEF LinumCan!Clear
<1>2. /\ l \in LinumCanLines /\ l.raw = {} /\ l.ena = hw.line.ena
      /\ (l.bit <=> hw.line.bit)
  BY <1>0, LinumCanLineIs DEF LinumCanLines, LinumCan!LineType
<1> HIDE DEF l
<1>3. /\ hw' \in LinumCanUnit /\ hw'.line = l
      /\ UNCHANGED <<hw.tx, hw.fifo, hw.sent, hw.bus>>
  BY <1>0, <1>1, <1>2, LinumCanLine
<1>4. "ok" \in LinumCanRcs /\ LinumCan!Own \in 0 .. Many
  BY <1>0, LinumCanServes DEF LinumCanRcs
<1>5. LinumCanTyped' /\ srv'.at = "recv" /\ LinumCanCounted'
  BY <1>1, <1>3, <1>4, LinumCanAnswer
<1> QED
  BY <1>1, <1>2, <1>3, <1>5
     DEF LinumCanIInv, LinumCanWork, LinumCanOrder, LinumCanPrompt

(* A frame on the bus is stored when there is room.                        *)
LEMMA LinumCanStore ==
    ASSUME LinumCanIInv, UNCHANGED <<usr, srv, hist>>,
           NEW h \in LinumCanUnit, hw' = LinumCan!Store(h),
           h.line = hw.line, h.fifo = hw.fifo, h.sent = hw.sent,
           h.bus + (IF h.tx = 0 THEN 0 ELSE 1)
              < hw.bus + (IF hw.tx = 0 THEN 0 ELSE 1)
    PROVE  LinumCanIInv'
<1> DEFINE l == LinumCan!Latched(h.line, "new")
           n == h.sent + 1
           h1 == [h EXCEPT !.fifo = n]
           h2 == [h1 EXCEPT !.sent = n]
<1>0. LinumCanTyped
  BY DEF LinumCanIInv
<1>1. /\ l \in LinumCanLines /\ l.raw = {"new"}
      /\ l.ena = hw.line.ena /\ (l.masked <=> hw.line.masked)
      /\ (l.bit <=> hw.line.bit)
  BY <1>0, LinumCanLineIs DEF LinumCanLines, LinumCan!LineType
<1>2. n \in Nat /\ n = hw.sent + 1 /\ n # 0 /\ hw.sent \in Nat
  BY DEF LinumCanUnit
<1>3. /\ hw.fifo = 0 => hw' = [h2 EXCEPT !.line = l]
      /\ hw.fifo # 0 => hw' = h
  BY DEF LinumCan!Store
<1> HIDE DEF l, n
<1>4. /\ h1 \in LinumCanUnit /\ h1.fifo = n
      /\ h1.tx = h.tx /\ h1.bus = h.bus
  BY <1>2 DEF LinumCanUnit
<1> HIDE DEF h1
<1>5. /\ h2 \in LinumCanUnit /\ h2.fifo = n /\ h2.sent = n
      /\ h2.tx = h.tx /\ h2.bus = h.bus
  BY <1>2, <1>4 DEF LinumCanUnit
<1> HIDE DEF h2
<1>6. hw.fifo = 0 =>
         /\ hw' \in LinumCanUnit /\ hw'.fifo = n /\ hw'.sent = n
         /\ hw'.line = l /\ hw'.tx = h.tx /\ hw'.bus = h.bus
  BY <1>1, <1>3, <1>5 DEF LinumCanUnit
<1>7. /\ hw' \in LinumCanUnit /\ hw'.tx = h.tx /\ hw'.bus = h.bus
      /\ hw'.sent \in {hw.sent, hw.sent + 1}
  BY <1>2, <1>3, <1>6
<1>8. LinumCanCounted'
  <2>1. PICK k \in Nat :
         /\ Tally(usr, Several, Many, k)
         /\ hw.sent + hw.bus + (IF hw.tx = 0 THEN 0 ELSE 1) <= MaxFrames + k
    BY DEF LinumCanIInv, LinumCanWork, LinumCanCounted
  <2>2. Tally(usr', Several, Many, k)
    BY <2>1
  <2>3. /\ hw.bus \in Nat /\ h.bus \in Nat /\ MaxFrames \in Nat
    BY <1>0, ServersAssumption DEF LinumCanTyped, LinumCanUnit
  <2> DEFINE t == IF hw.tx = 0 THEN 0 ELSE 1
             s == IF h.tx = 0 THEN 0 ELSE 1
  <2>4. /\ hw.sent + hw.bus + t <= MaxFrames + k /\ h.bus + s < hw.bus + t
        /\ t \in Nat /\ s \in Nat
    BY <2>1
  <2>5. s = IF hw'.tx = 0 THEN 0 ELSE 1
    BY <1>7
  <2> HIDE DEF t, s
  <2>6. hw'.sent + hw'.bus + s <= MaxFrames + k
    BY <1>2, <1>7, <2>3, <2>4
  <2> QED  BY <2>2, <2>5, <2>6 DEF LinumCanCounted
<1>9. LinumCanOrder' /\ (~hist.eager => LinumCanPrompt)'
  <2>1. CASE hw.fifo = 0
    <3>1. hist.took \in Nat
      BY <1>0 DEF LinumCanTyped, LinumCanHist
    <3> QED
      BY <1>1, <1>2, <1>6, <2>1, <3>1
         DEF LinumCanIInv, LinumCanWork, LinumCanOrder, LinumCanPrompt
  <2>2. CASE hw.fifo # 0
    BY <1>3, <2>2
       DEF LinumCanIInv, LinumCanWork, LinumCanOrder, LinumCanPrompt
  <2> QED  BY <2>1, <2>2
<1> QED  BY <1>7, <1>8, <1>9, LinumCanOutside DEF LinumCanWork

LEMMA LinumCanLoopBack ==
    ASSUME LinumCanIInv, LinumCan!LoopBack PROVE LinumCanIInv'
<1> DEFINE h == [hw EXCEPT !.tx = 0]
<1>0. LinumCanTyped
  BY DEF LinumCanIInv
<1>1. /\ UNCHANGED <<usr, srv, hist>> /\ hw' = LinumCan!Store(h)
      /\ hw.tx # 0
  BY DEF LinumCan!LoopBack
<1>2. /\ h \in LinumCanUnit /\ h.line = hw.line /\ h.fifo = hw.fifo
      /\ h.sent = hw.sent /\ h.bus = hw.bus /\ h.tx = 0
  BY <1>0, ServersAssumption DEF LinumCanTyped, LinumCanUnit
<1>3. hw.bus \in Nat
  BY <1>0, ServersAssumption DEF LinumCanTyped, LinumCanUnit
<1> HIDE DEF h
<1> QED  BY <1>1, <1>2, <1>3, LinumCanStore

LEMMA LinumCanOtherNode ==
    ASSUME LinumCanIInv, LinumCan!OtherNode PROVE LinumCanIInv'
<1> DEFINE n == hw.bus - 1
           h == [hw EXCEPT !.bus = n]
<1>0. LinumCanTyped
  BY DEF LinumCanIInv
<1>1. /\ UNCHANGED <<usr, srv, hist>> /\ hw' = LinumCan!Store(h)
      /\ hw.bus # 0
  BY DEF LinumCan!OtherNode
<1>2. hw.bus \in 0 .. MaxFrames
  BY <1>0 DEF LinumCanTyped, LinumCanUnit
<1>3. n \in 0 .. MaxFrames /\ n < hw.bus
  BY <1>1, <1>2, ServersAssumption
<1> HIDE DEF n
<1>4. /\ h \in LinumCanUnit /\ h.line = hw.line /\ h.fifo = hw.fifo
      /\ h.sent = hw.sent /\ h.bus = n /\ h.tx = hw.tx
  BY <1>0, <1>3 DEF LinumCanTyped, LinumCanUnit
<1> HIDE DEF h
<1>5. h.bus + (IF h.tx = 0 THEN 0 ELSE 1)
         < hw.bus + (IF hw.tx = 0 THEN 0 ELSE 1)
  BY <1>2, <1>3, <1>4, ServersAssumption
<1> QED  BY <1>1, <1>4, <1>5, LinumCanStore

LEMMA LinumCanInterrupt ==
    ASSUME LinumCanIInv, LinumCan!Interrupt PROVE LinumCanIInv'
<1> DEFINE l == LinumCan!Delivered(hw.line)
<1>0. LinumCanTyped
  BY DEF LinumCanIInv
<1>1. /\ UNCHANGED <<usr, srv, hist>> /\ hw' = [hw EXCEPT !.line = l]
      /\ hw.line.raw # {} /\ ~hw.line.masked
  BY DEF LinumCan!Interrupt
<1>2. /\ l \in LinumCanLines /\ l.raw = hw.line.raw /\ l.ena = hw.line.ena
      /\ l.masked /\ "new" \in hw.line.raw
  BY <1>0, <1>1, LinumCanLineIs DEF LinumCanLines, LinumCan!LineType
<1>3. l.bit
  OBVIOUS
<1> HIDE DEF l
<1>5. /\ hw' \in LinumCanUnit /\ hw'.line = l
      /\ UNCHANGED <<hw.tx, hw.fifo, hw.sent, hw.bus>>
  BY <1>0, <1>1, <1>2, LinumCanLine
<1>7. LinumCanCounted'
  BY <1>1, <1>5, LinumCanSameCount
<1>8. LinumCanOrder' /\ (~hist.eager => LinumCanPrompt)'
  BY <1>1, <1>2, <1>3, <1>5
     DEF LinumCanIInv, LinumCanWork, LinumCanOrder, LinumCanPrompt
<1> QED  BY <1>1, <1>5, <1>7, <1>8, LinumCanOutside DEF LinumCanWork

LEMMA LinumCanNext == ASSUME LinumCanIInv, LinumCan!Next PROVE LinumCanIInv'
BY LinumCanRequest, LinumCanReceive, LinumCanSendBusy, LinumCanSend,
   LinumCanLevel, LinumCanOpen, LinumCanWoken, LinumCanEmpty, LinumCanTake,
   LinumCanRelease, LinumCanClear, LinumCanLoopBack, LinumCanOtherNode,
   LinumCanInterrupt
   DEF LinumCan!Next, LinumCan!Proceed

LEMMA LinumCanStutter ==
    ASSUME LinumCanIInv, UNCHANGED <<usr, srv, hw, hist>> PROVE LinumCanIInv'
BY DEF LinumCanIInv, LinumCanTyped, LinumCan!Call, LinumCanWork,
       LinumCanOrder, LinumCanPrompt, LinumCanCounted

LEMMA LinumCanSafe ==
    LinumCanIInv => LinumCan!TypeOK /\ LinumCan!OkIsTrue /\ LinumCan!Traced
<1> SUFFICES ASSUME LinumCanIInv
             PROVE  LinumCan!TypeOK /\ LinumCan!OkIsTrue /\ LinumCan!Traced
  OBVIOUS
<1>0. LinumCanTyped
  BY DEF LinumCanIInv
<1>1. LinumCanUsers = LinumCan!UserType({"send", "recv"}, {"ok", "etimeout"})
  BY DEF LinumCanUsers, LinumCanUser, UserRec, LinumCanRcs, LinumCanCalls,
     LinumCan!UserType
<1>2. /\ hw.sent \in LinumCan!Frames /\ hw.fifo \in LinumCan!Frames
      /\ hist.took \in LinumCan!Frames
  <2>1. /\ hw.sent \in Nat /\ hw.fifo \in Nat /\ hist.took \in Nat
        /\ hw.bus \in Nat /\ Many \in Nat /\ MaxFrames \in Nat
    BY <1>0, ServersAssumption DEF LinumCanTyped, LinumCanUnit, LinumCanHist
  <2>2. PICK k \in Nat :
         /\ Tally(usr, Several, Many, k)
         /\ hw.sent + hw.bus + (IF hw.tx = 0 THEN 0 ELSE 1) <= MaxFrames + k
    BY DEF LinumCanIInv, LinumCanWork, LinumCanCounted
  <2>3. k <= Many
    BY <2>1, <2>2, TallyBound
  <2>4. hw.sent <= Many + MaxFrames
    BY <2>1, <2>2, <2>3
  <2> QED
    BY <2>1, <2>4
       DEF LinumCanIInv, LinumCanWork, LinumCanOrder, LinumCan!Frames
<1>3. hw \in [line : LinumCanLines, tx : 0 .. Many, fifo : LinumCan!Frames,
              sent : LinumCan!Frames, bus : 0 .. MaxFrames]
  BY <1>0, <1>2 DEF LinumCanTyped, LinumCanUnit
<1>4. hist \in [took : LinumCan!Frames, eager : BOOLEAN, twice : BOOLEAN]
  BY <1>0, <1>2 DEF LinumCanTyped, LinumCanHist
<1>5. LinumCan!TypeOK
  BY <1>0, <1>1, <1>3, <1>4
     DEF LinumCanTyped, LinumCanServer, LinumCanLines, LinumCan!TypeOK
<1>6. LinumCan!OkIsTrue
  BY DEF LinumCanIInv, LinumCanWork, LinumCanOrder, LinumCan!OkIsTrue
<1>7. LinumCan!Traced
  <2>1. srv.at = "wait" /\ hw.fifo # 0 => hw.line.bit \/ LinumCan!Due(hw.line)
    BY DEF LinumCanIInv, LinumCanWork, LinumCanOrder
  <2>2. srv.at = "level2" /\ hw.fifo = 0 => hist.eager
    BY DEF LinumCanIInv, LinumCanWork, LinumCanPrompt
  <2> QED  BY <2>1, <2>2 DEF LinumCan!Traced
<1> QED  BY <1>5, <1>6, <1>7

(* LinumCanKeeps.  The FDCAN server of the Linum board: frames are         *)
(* received in the order stored and none twice, a RECV that blocks while a *)
(* frame is stored is about to be woken, and one fails only after another  *)
(* found its frame before it waited.                                       *)
THEOREM LinumCanKeeps ==
    LinumCan!Spec =>
       [](LinumCan!TypeOK /\ LinumCan!OkIsTrue /\ LinumCan!Traced)
<1>1. LinumCan!Init => LinumCanIInv
  BY LinumCanInit
<1>2. LinumCanIInv /\ [LinumCan!Next]_LinumCan!vars => LinumCanIInv'
  BY LinumCanNext, LinumCanStutter DEF LinumCan!vars
<1>3. LinumCanIInv => LinumCan!TypeOK /\ LinumCan!OkIsTrue /\ LinumCan!Traced
  BY LinumCanSafe
<1> QED  BY <1>1, <1>2, <1>3, PTL DEF LinumCan!Spec

HIDE DEF LinumCan!None, LinumCan!Ids, LinumCan!Own, LinumCan!Call,
         LinumCan!Goto, LinumCan!Resting, LinumCan!ServerType,
         LinumCan!Acked, LinumCan!Taken, LinumCan!Delivered,
         LinumCan!Latched, LinumCan!Cleared, LinumCan!Due

-----------------------------------------------------------------------------
(* The QSPI flash server of the Linum board.                               *)

USE DEF LinumQspi!None, LinumQspi!Ids, LinumQspi!Own, LinumQspi!Call,
        LinumQspi!Goto, LinumQspi!Resting, LinumQspi!ServerType,
        LinumQspi!Acked, LinumQspi!Taken, LinumQspi!Delivered,
        LinumQspi!Latched, LinumQspi!Cleared, LinumQspi!Due,
        LinumQspi!Complete, LinumQspi!Prefix

LinumQspiCalls  == LinumQspi!Commands \cup LinumQspi!Reads
LinumQspiRcs    == {"ok", "etimeout"}
LinumQspiUser   == UserRec(LinumQspiCalls, LinumQspiRcs, Many)
LinumQspiUsers  == [Several -> LinumQspiUser]
LinumQspiServer == LinumQspi!ServerType(LinumQspi!Places, {}, LinumQspi!Prefix)
LinumQspiLines  == LinumQspi!LineType({"tc", "te"})
LinumQspiUnit   == [line : LinumQspiLines, run : 0 .. Many,
                    data : 0 .. Many, cmd : {"bare", "data", "address"}]
LinumQspiHist   == [early : BOOLEAN, long : SUBSET (0 .. Many),
                    failed : SUBSET (0 .. Many)]

LinumQspiTyped ==
    /\ usr \in LinumQspiUsers /\ srv \in LinumQspiServer
    /\ hw \in LinumQspiUnit /\ hist \in LinumQspiHist
    /\ \A u \in Several : usr[u].at # "idle" => usr[u].n # 0
    /\ srv.at # "recv" => LinumQspi!Call \in LinumQspiCalls

(* The bytes have come, or TEF and the record say why they have not.       *)
LinumQspiThere ==
    \/ hw.data = LinumQspi!Own
    \/ "te" \in hw.line.raw /\ LinumQspi!Own \in hist.failed

(* From its start a command is under way and TCF is clear, or it has       *)
(* completed.                                                              *)
LinumQspiWork ==
    /\ srv.at \in {"clear", "command"} => hw.run = 0 /\ hw.data = 0
    /\ srv.at = "command" => hw.line.raw = {}
    /\ srv.at \in {"open", "wait", "test"} =>
          /\ hw.run \in {0, LinumQspi!Own} /\ hw.data \in {0, LinumQspi!Own}
          /\ hw.cmd = "bare" <=> srv.left # 0
          /\ "tc" \in hw.line.raw =>
                hw.run = 0 /\ (srv.left = 0 => LinumQspiThere)
    /\ srv.at = "drain" =>
          hw.run = 0 /\ hw.data \in {0, LinumQspi!Own} /\ LinumQspiThere

(* Requests have numbers of their own, and the record of the long ones     *)
(* runs behind the calls received.                                         *)
LinumQspiNumbered ==
    /\ \A u \in Several : usr[u].at # "idle" => usr[u].rc = ""
    /\ \A u, v \in Several :
          u # v /\ usr[u].n = usr[v].n => usr[u].n = 0
    /\ \A m \in hist.long : \E u \in Several : m <= usr[u].n
    /\ \A u \in Several :
          usr[u].at # "idle" /\ (srv.at = "recv" \/ u # srv.user) =>
             usr[u].n \notin hist.long
    /\ srv.at # "recv" =>
          (LinumQspi!Own \in hist.long <=> LinumQspi!Call \in LinumQspi!Longs)

LinumQspiExcused ==
    \A u \in Several :
       usr[u].rc = "etimeout" => hist.early \/ usr[u].n \in hist.failed

LinumQspiAnswers == LinumQspi!OkIsTrue /\ LinumQspiExcused

LinumQspiIInv ==
    LinumQspiTyped /\ LinumQspiWork /\ LinumQspiNumbered /\ LinumQspiAnswers

LEMMA LinumQspiServes ==
    ASSUME LinumQspiTyped
    PROVE  /\ srv.user \in Several /\ LinumQspi!Own \in 0 .. Many
           /\ srv.at # "recv" => LinumQspi!Own # 0
<1>1. srv.user \in Several /\ usr \in [Several -> LinumQspiUser]
  BY DEF LinumQspiTyped, LinumQspiServer, LinumQspiUsers
<1>2. LinumQspi!Own \in 0 .. Many
  BY <1>1 DEF LinumQspiUser, UserRec
<1>3. srv.at # "recv" => LinumQspi!Call # "idle"
  BY DEF LinumQspiTyped, LinumQspiCalls, LinumQspi!Commands,
         LinumQspi!Jedec, LinumQspi!Reads
<1> QED  BY <1>1, <1>2, <1>3 DEF LinumQspiTyped

LEMMA LinumQspiBegins ==
    ASSUME usr = LinumQspi!IdleUsers,
           srv = LinumQspi!Resting(CHOOSE u \in Several : TRUE)
    PROVE  /\ usr \in LinumQspiUsers /\ srv \in LinumQspiServer
           /\ srv.at = "recv"
           /\ \A u \in Several : usr[u].at = "idle" /\ usr[u].rc = ""
<1>1. [at |-> "idle", n |-> 0, rc |-> "", val |-> 0] \in LinumQspiUser
  BY ServersAssumption DEF LinumQspiUser, UserRec
<1>2. /\ usr \in LinumQspiUsers
      /\ \A u \in Several : usr[u].at = "idle" /\ usr[u].rc = ""
  BY <1>1 DEF LinumQspi!IdleUsers, LinumQspiUsers
<1>3. (CHOOSE u \in Several : TRUE) \in Several
  BY ServersAssumption
<1>4. srv \in LinumQspiServer /\ srv.at = "recv"
  BY <1>3, ServersAssumption DEF LinumQspiServer
<1> QED  BY <1>2, <1>4

LEMMA LinumQspiAsked ==
    ASSUME LinumQspiTyped, NEW u \in Several, NEW call \in LinumQspiCalls,
           LinumQspi!Ask(u, call)
    PROVE  /\ LinumQspiTyped' /\ UNCHANGED <<srv, hw, hist>>
           /\ usr'[u].rc = "" /\ usr'[u].at = call
           /\ usr'[u].n \in 1 .. Many
           /\ \A v \in Several : usr[v].n < usr'[u].n
           /\ \A v \in Several : v # u => usr'[v] = usr[v]
           /\ srv.at # "recv" => srv.user # u
           /\ srv.at # "recv" =>
                 /\ LinumQspi!Own' = LinumQspi!Own
                 /\ LinumQspi!Call' = LinumQspi!Call
<1>1. PICK n \in 1 .. Many :
         /\ usr' = [usr EXCEPT ![u] = [at |-> call, n |-> n, rc |-> "",
                                       val |-> 0]]
         /\ \A v \in Several : usr[v].n < n
  BY DEF LinumQspi!Ask, LinumQspi!Fresh
<1>2. usr[u].at = "idle" /\ UNCHANGED <<srv, hw, hist>>
  BY DEF LinumQspi!Ask
<1>3. [at |-> call, n |-> n, rc |-> "", val |-> 0] \in LinumQspiUser
  BY AskRec, ServersAssumption DEF LinumQspiUser
<1>4. /\ usr' \in LinumQspiUsers
      /\ usr'[u].at = call /\ usr'[u].n = n /\ usr'[u].rc = ""
      /\ \A v \in Several : v # u => usr'[v] = usr[v]
  BY <1>1, <1>3 DEF LinumQspiTyped, LinumQspiUsers
<1>5. srv.at # "recv" => srv.user # u /\ srv.user \in Several
  BY <1>2, LinumQspiServes
     DEF LinumQspiTyped, LinumQspiCalls, LinumQspi!Commands,
         LinumQspi!Jedec, LinumQspi!Reads
<1>6. n # 0
  OBVIOUS
<1>7. \A v \in Several : usr'[v].at # "idle" => usr'[v].n # 0
  BY <1>4, <1>6 DEF LinumQspiTyped
<1>8. srv.at # "recv" =>
         LinumQspi!Own' = LinumQspi!Own /\ LinumQspi!Call' = LinumQspi!Call
  BY <1>2, <1>4, <1>5
<1> QED  BY <1>1, <1>2, <1>4, <1>5, <1>7, <1>8 DEF LinumQspiTyped

LEMMA LinumQspiReceived ==
    ASSUME LinumQspiTyped, NEW u \in Several, usr[u].at \in LinumQspiCalls,
           NEW next \in LinumQspi!Places, NEW left \in 0 .. LinumQspi!Prefix,
           srv' = [at |-> next, user |-> u, late |-> FALSE, raw |-> {},
                   left |-> left],
           UNCHANGED <<usr, hw>>, hist' \in LinumQspiHist
    PROVE  /\ LinumQspiTyped' /\ srv'.at = next /\ srv'.user = u
           /\ srv'.late = FALSE /\ srv'.raw = {} /\ srv'.left = left
<1>1. srv' \in LinumQspiServer /\ srv'.at = next /\ srv'.user = u
  BY DEF LinumQspiServer
<1> QED  BY <1>1 DEF LinumQspiTyped

LEMMA LinumQspiGoes ==
    ASSUME LinumQspiTyped, NEW next \in LinumQspi!Places,
           srv' = [srv EXCEPT !.at = next]
    PROVE  /\ srv' \in LinumQspiServer /\ srv'.at = next
           /\ UNCHANGED <<srv.user, srv.raw, srv.left>>
           /\ (srv'.late <=> srv.late)
BY DEF LinumQspiTyped, LinumQspiServer

LEMMA LinumQspiReplied ==
    ASSUME LinumQspiTyped, NEW rc \in LinumQspiRcs, NEW val \in 0 .. Many,
           LinumQspi!Reply(rc, val), hw' \in LinumQspiUnit,
           hist' \in LinumQspiHist
    PROVE  /\ LinumQspiTyped' /\ srv'.at = "recv" /\ srv'.user = srv.user
           /\ usr'[srv.user].at = "idle" /\ usr'[srv.user].rc = rc
           /\ usr'[srv.user].n = usr[srv.user].n /\ usr'[srv.user].val = val
           /\ \A v \in Several : v # srv.user => usr'[v] = usr[v]
<1> DEFINE x == [[[usr[srv.user] EXCEPT !.at = "idle"] EXCEPT !.rc = rc]
                    EXCEPT !.val = val]
<1>1. srv.user \in Several /\ usr \in [Several -> LinumQspiUser]
  BY LinumQspiServes DEF LinumQspiTyped, LinumQspiUsers
<1>2. /\ x \in LinumQspiUser
      /\ x.at = "idle" /\ x.n = usr[srv.user].n /\ x.rc = rc /\ x.val = val
  <2>1. usr[srv.user] \in LinumQspiUser
    BY <1>1
  <2> QED  BY <2>1, ServersAssumption DEF LinumQspiUser, UserRec
<1>3. /\ usr' \in LinumQspiUsers /\ usr'[srv.user] = x
      /\ \A v \in Several : v # srv.user => usr'[v] = usr[v]
  BY <1>1, <1>2, Thrice DEF LinumQspi!Reply, LinumQspiUsers
<1>4. srv' \in LinumQspiServer /\ srv'.at = "recv" /\ srv'.user = srv.user
  BY <1>1 DEF LinumQspi!Reply, LinumQspiServer
<1> HIDE DEF x
<1>5. \A v \in Several : usr'[v].at # "idle" => usr'[v].n # 0
  BY <1>2, <1>3 DEF LinumQspiTyped
<1> QED  BY <1>2, <1>3, <1>4, <1>5 DEF LinumQspiTyped

(* A step that leaves the users alone.                                     *)
LEMMA LinumQspiQuiet ==
    ASSUME LinumQspiIInv, UNCHANGED usr, srv' \in LinumQspiServer,
           srv'.at # "recv", srv'.user = srv.user, srv.at # "recv",
           hw' \in LinumQspiUnit, hist' \in LinumQspiHist,
           hist'.long = hist.long, hist.early => hist'.early,
           hist'.failed = hist.failed, LinumQspiWork'
    PROVE  LinumQspiIInv'
<1>1. LinumQspiTyped'
  BY DEF LinumQspiIInv, LinumQspiTyped
<1>2. LinumQspiNumbered'
  BY DEF LinumQspiIInv, LinumQspiNumbered
<1>3. LinumQspiAnswers'
  BY DEF LinumQspiIInv, LinumQspiAnswers, LinumQspi!OkIsTrue,
         LinumQspiExcused
<1> QED  BY <1>1, <1>2, <1>3 DEF LinumQspiIInv

(* A step of the peripheral.                                               *)
LEMMA LinumQspiOutside ==
    ASSUME LinumQspiIInv, UNCHANGED <<usr, srv>>, hw' \in LinumQspiUnit,
           hist' \in LinumQspiHist, hist'.long = hist.long,
           hist'.early <=> hist.early, hist.failed \subseteq hist'.failed,
           LinumQspiWork'
    PROVE  LinumQspiIInv'
<1>1. LinumQspiTyped'
  BY DEF LinumQspiIInv, LinumQspiTyped
<1>2. LinumQspiNumbered'
  BY DEF LinumQspiIInv, LinumQspiNumbered
<1>3. LinumQspiAnswers'
  BY DEF LinumQspiIInv, LinumQspiAnswers, LinumQspi!OkIsTrue,
         LinumQspiExcused
<1> QED  BY <1>1, <1>2, <1>3 DEF LinumQspiIInv

LEMMA LinumQspiInit == ASSUME LinumQspi!Init PROVE LinumQspiIInv
<1>1. /\ usr = LinumQspi!IdleUsers
      /\ hist = [early |-> FALSE, long |-> {}, failed |-> {}]
      /\ srv = LinumQspi!Resting(CHOOSE u \in Several : TRUE)
      /\ hw = [line |-> LinumQspi!Line({"tc"}), run |-> 0, data |-> 0,
               cmd |-> "bare"]
  BY DEF LinumQspi!Init
<1>2. LinumQspi!Line({"tc"}) \in LinumQspiLines
  BY DEF LinumQspi!Line, LinumQspiLines, LinumQspi!LineType
<1>3. hw \in LinumQspiUnit /\ hist \in LinumQspiHist /\ hist.long = {}
  BY <1>1, <1>2, ServersAssumption DEF LinumQspiUnit, LinumQspiHist
<1>4. \A u \in Several : usr[u].n = 0
  BY <1>1 DEF LinumQspi!IdleUsers
<1>5. /\ usr \in LinumQspiUsers /\ srv \in LinumQspiServer
      /\ srv.at = "recv"
      /\ \A u \in Several : usr[u].at = "idle" /\ usr[u].rc = ""
  BY <1>1, LinumQspiBegins
<1> QED
  BY <1>3, <1>4, <1>5
     DEF LinumQspiIInv, LinumQspiTyped, LinumQspiWork, LinumQspiNumbered,
         LinumQspiAnswers, LinumQspiExcused, LinumQspi!OkIsTrue

LEMMA Climbs ==
    ASSUME NEW top \in Nat, NEW m \in 0 .. top, NEW n \in 0 .. top,
           NEW k \in 1 .. top, m <= n, n < k
    PROVE  m < k /\ m # k /\ n # k /\ m <= k
OBVIOUS

LEMMA LinumQspiRequest ==
    ASSUME LinumQspiIInv, NEW u \in Several, LinumQspi!Request(u)
    PROVE  LinumQspiIInv'
<1>1. PICK call \in LinumQspiCalls : LinumQspi!Ask(u, call)
  BY DEF LinumQspi!Request, LinumQspiCalls
<1>2. /\ LinumQspiTyped' /\ UNCHANGED <<srv, hw, hist>>
      /\ usr'[u].rc = "" /\ usr'[u].n \in 1 .. Many
      /\ \A v \in Several : usr[v].n < usr'[u].n
      /\ \A v \in Several : v # u => usr'[v] = usr[v]
      /\ srv.at # "recv" =>
            /\ srv.user # u
            /\ LinumQspi!Own' = LinumQspi!Own
            /\ LinumQspi!Call' = LinumQspi!Call
  BY <1>1, LinumQspiAsked DEF LinumQspiIInv
<1>3. LinumQspiWork'
  BY <1>2 DEF LinumQspiIInv, LinumQspiWork, LinumQspiThere
<1>4. \A v \in Several : usr[v].n \in 0 .. Many
  BY DEF LinumQspiIInv, LinumQspiTyped, LinumQspiUsers, LinumQspiUser,
         UserRec
<1> DEFINE k == usr'[u].n
<1>k. k \in 1 .. Many /\ Many \in Nat /\ \A v \in Several : usr[v].n < k
  BY <1>2, ServersAssumption
<1> HIDE DEF k
<1>5. \A m \in hist.long : m # k /\ m <= k
  <2>1. SUFFICES ASSUME NEW m \in hist.long
                 PROVE  m # k /\ m <= k
    OBVIOUS
  <2>2. m \in 0 .. Many
    BY DEF LinumQspiIInv, LinumQspiTyped, LinumQspiHist
  <2>3. PICK v \in Several : m <= usr[v].n
    BY DEF LinumQspiIInv, LinumQspiNumbered
  <2>4. usr[v].n \in 0 .. Many /\ usr[v].n < k
    BY <1>4, <1>k
  <2> QED  BY <1>k, <2>2, <2>3, <2>4, Climbs
<1>6. LinumQspiNumbered'
  <2>1. \A v \in Several : usr'[v].at # "idle" => usr'[v].rc = ""
    BY <1>2 DEF LinumQspiIInv, LinumQspiNumbered
  <2>2. \A v, w \in Several :
           v # w /\ usr'[v].n = usr'[w].n => usr'[v].n = 0
    <3>1. \A v \in Several : usr[v].n # k
      BY <1>4, <1>k
    <3>2. \A v \in Several : v # u => usr'[v].n # usr'[u].n
      BY <1>2, <3>1 DEF k
    <3> QED  BY <1>2, <3>2 DEF LinumQspiIInv, LinumQspiNumbered
  <2>3. \A m \in hist.long : \E v \in Several : m <= usr'[v].n
    BY <1>5 DEF k
  <2>4. \A v \in Several :
           usr'[v].at # "idle" /\ (srv.at = "recv" \/ v # srv.user) =>
              usr'[v].n \notin hist.long
    <3>1. usr'[u].n \notin hist.long
      BY <1>5 DEF k
    <3> QED  BY <1>2, <3>1 DEF LinumQspiIInv, LinumQspiNumbered
  <2>5. srv.at # "recv" =>
          (LinumQspi!Own' \in hist.long
             <=> LinumQspi!Call' \in LinumQspi!Longs)
    BY <1>2 DEF LinumQspiIInv, LinumQspiNumbered
  <2> QED
    BY <1>2, <2>1, <2>2, <2>3, <2>4, <2>5
       DEF LinumQspiNumbered, LinumQspi!Longs
<1>7. LinumQspiAnswers'
  BY <1>2 DEF LinumQspiIInv, LinumQspiAnswers, LinumQspi!OkIsTrue,
              LinumQspiExcused
<1> QED  BY <1>2, <1>3, <1>6, <1>7 DEF LinumQspiIInv

(* A long request goes on record when it is received.                      *)
LEMMA LinumQspiReceive ==
    ASSUME LinumQspiIInv, NEW u \in Several, LinumQspi!Receive(u)
    PROVE  LinumQspiIInv'
<1> DEFINE left == IF usr[u].at \in LinumQspi!Jedec THEN 4 ELSE 0
           is   == usr[u].at \in LinumQspi!Longs
           long == IF is THEN hist.long \cup {usr[u].n} ELSE hist.long
<1>1. /\ srv.at = "recv" /\ usr[u].at \in LinumQspiCalls
      /\ UNCHANGED <<usr, hw>>
      /\ srv' = [at |-> "abort", user |-> u, late |-> FALSE, raw |-> {},
                 left |-> left]
  BY DEF LinumQspi!Receive, LinumQspiCalls
<1>2. left \in 0 .. LinumQspi!Prefix /\ "abort" \in LinumQspi!Places
  BY DEF LinumQspi!Places
<1> HIDE DEF left
<1>3. usr[u].at # "idle" /\ usr[u].n \in 0 .. Many /\ usr[u].n # 0
  BY <1>1 DEF LinumQspiIInv, LinumQspiTyped, LinumQspiUsers, LinumQspiUser,
     UserRec, LinumQspiCalls, LinumQspi!Commands, LinumQspi!Jedec,
     LinumQspi!Reads
<1>4. /\ hist' \in LinumQspiHist /\ hist'.long = long
      /\ (hist'.early <=> hist.early) /\ hist'.failed = hist.failed
  <2>1. hist \in LinumQspiHist
    BY DEF LinumQspiIInv, LinumQspiTyped
  <2>2. CASE is
    BY <1>3, <2>1, <2>2 DEF LinumQspi!Receive, LinumQspiHist
  <2>3. CASE ~is
    BY <2>1, <2>3 DEF LinumQspi!Receive, LinumQspiHist
  <2> QED  BY <2>2, <2>3
<1>5. LinumQspiTyped' /\ srv'.at = "abort" /\ srv'.user = u
  BY <1>1, <1>2, <1>4, LinumQspiReceived DEF LinumQspiIInv
<1>6. usr[u].n \notin hist.long /\ usr[u].rc = ""
  BY <1>1, <1>3 DEF LinumQspiIInv, LinumQspiNumbered
<1>7. /\ \A v \in Several : v # u => usr[v].n # usr[u].n
      /\ \A v \in Several : v # u =>
            (usr[v].n \in long <=> usr[v].n \in hist.long)
  BY <1>3 DEF LinumQspiIInv, LinumQspiNumbered
<1>8. usr[u].n \in long <=> is
  BY <1>6
<1>9. \A m \in long : \E v \in Several : m <= usr[v].n
  <2>1. usr[u].n <= usr[u].n
    BY <1>3, ServersAssumption
  <2> QED  BY <2>1 DEF LinumQspiIInv, LinumQspiNumbered
<1> HIDE DEF is, long
<1>10. LinumQspiNumbered'
  BY <1>1, <1>4, <1>5, <1>7, <1>8, <1>9
     DEF is, LinumQspiIInv, LinumQspiNumbered
<1>11. LinumQspi!OkIsTrue'
  BY <1>1, <1>4, <1>6, <1>7 DEF LinumQspiIInv, LinumQspiAnswers,
                                LinumQspi!OkIsTrue
<1>12. LinumQspiExcused'
  BY <1>1, <1>4 DEF LinumQspiIInv, LinumQspiAnswers, LinumQspiExcused
<1> QED
  BY <1>5, <1>10, <1>11, <1>12
     DEF LinumQspiIInv, LinumQspiWork, LinumQspiAnswers

(* The line set to another.                                                *)
LEMMA LinumQspiLine ==
    ASSUME LinumQspiTyped, NEW l \in LinumQspiLines,
           hw' = [hw EXCEPT !.line = l]
    PROVE  /\ hw' \in LinumQspiUnit /\ hw'.line = l
           /\ UNCHANGED <<hw.run, hw.data, hw.cmd>>
BY DEF LinumQspiTyped, LinumQspiUnit

LEMMA LinumQspiLineIs ==
    ASSUME LinumQspiTyped
    PROVE  hw.line \in LinumQspiLines /\ hw.line.raw \subseteq {"tc", "te"}
BY DEF LinumQspiTyped, LinumQspiUnit, LinumQspiLines, LinumQspi!LineType

LEMMA LinumQspiAbort ==
    ASSUME LinumQspiIInv, LinumQspi!Abort PROVE LinumQspiIInv'
<1>0. LinumQspiTyped
  BY DEF LinumQspiIInv
<1>1. PICK event \in SUBSET {"tc"} :
         /\ srv.at = "abort" /\ srv' = [srv EXCEPT !.at = "clear"]
         /\ UNCHANGED <<usr, hist>>
         /\ hw' = [hw EXCEPT !.run = 0, !.data = 0,
                             !.line.raw = @ \cup event]
  BY DEF LinumQspi!Abort
<1> DEFINE l == [hw.line EXCEPT !.raw = @ \cup event]
           h == [hw EXCEPT !.run = 0]
           g == [h EXCEPT !.data = 0]
<1>2. l \in LinumQspiLines
  BY <1>0, LinumQspiLineIs DEF LinumQspiLines, LinumQspi!LineType
<1>3. h \in LinumQspiUnit /\ h.run = 0 /\ h.line = hw.line
  BY <1>0, ServersAssumption DEF LinumQspiTyped, LinumQspiUnit
<1>4. hw' = [g EXCEPT !.line = l]
  BY <1>0, <1>1 DEF LinumQspiTyped, LinumQspiUnit
<1> HIDE DEF h, l
<1>5. g \in LinumQspiUnit /\ g.run = 0 /\ g.data = 0
  BY <1>3, ServersAssumption DEF LinumQspiUnit
<1> HIDE DEF g
<1>6. hw' \in LinumQspiUnit /\ hw'.run = 0 /\ hw'.data = 0
  BY <1>2, <1>4, <1>5 DEF LinumQspiUnit
<1>7. /\ srv' \in LinumQspiServer /\ srv'.at = "clear"
      /\ srv'.user = srv.user
  BY <1>0, <1>1, LinumQspiGoes DEF LinumQspi!Places
<1> QED
  BY <1>0, <1>1, <1>6, <1>7, LinumQspiQuiet
     DEF LinumQspiTyped, LinumQspiWork

(* From one place to the next, with another line.                          *)
LEMMA LinumQspiStep ==
    ASSUME LinumQspiIInv, NEW next \in LinumQspi!Places, srv.at # "recv",
           srv' = [srv EXCEPT !.at = next], UNCHANGED <<usr, hist>>,
           NEW l \in LinumQspiLines, hw' = [hw EXCEPT !.line = l],
           srv'.at = next /\ srv'.user = srv.user /\ srv'.left = srv.left
              /\ hw'.line = l /\ UNCHANGED <<hw.run, hw.data, hw.cmd>>
              => LinumQspiWork'
    PROVE  LinumQspiIInv'
<1>1. /\ hw' \in LinumQspiUnit /\ hw'.line = l
      /\ UNCHANGED <<hw.run, hw.data, hw.cmd>>
  BY LinumQspiLine DEF LinumQspiIInv
<1>2. /\ srv' \in LinumQspiServer /\ srv'.at = next
      /\ srv'.user = srv.user /\ srv'.left = srv.left /\ next # "recv"
  BY LinumQspiGoes DEF LinumQspiIInv, LinumQspi!Places
<1> QED  BY <1>1, <1>2, LinumQspiQuiet DEF LinumQspiIInv, LinumQspiTyped

LEMMA LinumQspiAbortClear ==
    ASSUME LinumQspiIInv, LinumQspi!AbortClear PROVE LinumQspiIInv'
<1> DEFINE l == LinumQspi!Cleared(hw.line, {"tc", "te"})
<1>1. /\ srv.at = "clear" /\ srv' = [srv EXCEPT !.at = "command"]
      /\ UNCHANGED <<usr, hist>> /\ hw' = [hw EXCEPT !.line = l]
  BY DEF LinumQspi!AbortClear
<1>2. l \in LinumQspiLines /\ l.raw = {}
  BY LinumQspiLineIs
     DEF LinumQspiIInv, LinumQspiLines, LinumQspi!LineType
<1>3. "command" \in LinumQspi!Places
  BY DEF LinumQspi!Places
<1> HIDE DEF l
<1> QED
  BY <1>1, <1>2, <1>3, LinumQspiStep
  DEF LinumQspiIInv, LinumQspiWork, LinumQspiThere

LEMMA LinumQspiCommand ==
    ASSUME LinumQspiIInv, LinumQspi!Command PROVE LinumQspiIInv'
<1> DEFINE l == IF LinumQspi!Call \in LinumQspi!Reads THEN hw.line
                ELSE LinumQspi!Acked(hw.line)
           c == IF srv.left # 0 THEN "bare"
                ELSE IF LinumQspi!Call \in LinumQspi!Reads THEN "address"
                ELSE "data"
           h == [hw EXCEPT !.run = LinumQspi!Own]
           g == [h EXCEPT !.cmd = c]
<1>0. LinumQspiTyped
  BY DEF LinumQspiIInv
<1>1. /\ srv.at = "command" /\ srv' = [srv EXCEPT !.at = "open"]
      /\ UNCHANGED <<usr, hist>> /\ hw' = [g EXCEPT !.line = l]
  BY DEF LinumQspi!Command
<1>2. l \in LinumQspiLines /\ l.raw = hw.line.raw
  BY <1>0, LinumQspiLineIs DEF LinumQspiLines, LinumQspi!LineType
<1>3. h \in LinumQspiUnit /\ h.run = LinumQspi!Own /\ h.data = hw.data
  BY <1>0, LinumQspiServes DEF LinumQspiTyped, LinumQspiUnit
<1>4. c \in {"bare", "data", "address"} /\ (c = "bare" <=> srv.left # 0)
  OBVIOUS
<1> HIDE DEF h, l, c
<1>5. /\ g \in LinumQspiUnit /\ g.run = LinumQspi!Own /\ g.cmd = c
      /\ g.data = hw.data
  BY <1>3, <1>4 DEF LinumQspiUnit
<1> HIDE DEF g
<1>6. /\ hw' \in LinumQspiUnit /\ hw'.run = LinumQspi!Own
      /\ hw'.line = l /\ hw'.cmd = c /\ hw'.data = hw.data
  BY <1>1, <1>2, <1>5 DEF LinumQspiUnit
<1>7. /\ srv' \in LinumQspiServer /\ srv'.at = "open"
      /\ srv'.user = srv.user /\ srv'.left = srv.left
  BY <1>0, <1>1, LinumQspiGoes DEF LinumQspi!Places
<1>8. hw'.line.raw = {} /\ hw'.data = 0
  BY <1>1, <1>2, <1>6 DEF LinumQspiIInv, LinumQspiWork
<1> QED
  BY <1>0, <1>1, <1>4, <1>6, <1>7, <1>8, LinumQspiQuiet
     DEF LinumQspiIInv, LinumQspiTyped, LinumQspiWork

LEMMA LinumQspiOpen ==
    ASSUME LinumQspiIInv, LinumQspi!Open PROVE LinumQspiIInv'
<1> DEFINE l == LinumQspi!Acked(hw.line)
<1>1. /\ srv.at = "open" /\ srv' = [srv EXCEPT !.at = "wait"]
      /\ UNCHANGED <<usr, hist>> /\ hw' = [hw EXCEPT !.line = l]
  BY DEF LinumQspi!Open
<1>2. l \in LinumQspiLines /\ l.raw = hw.line.raw
  BY LinumQspiLineIs
     DEF LinumQspiIInv, LinumQspiLines, LinumQspi!LineType
<1>3. "wait" \in LinumQspi!Places
  BY DEF LinumQspi!Places
<1> HIDE DEF l
<1> QED
  BY <1>1, <1>2, <1>3, LinumQspiStep
  DEF LinumQspiIInv, LinumQspiWork, LinumQspiThere

LEMMA LinumQspiWoken ==
    ASSUME LinumQspiIInv, LinumQspi!Woken PROVE LinumQspiIInv'
<1> DEFINE l == LinumQspi!Acked(LinumQspi!Taken(hw.line))
<1>1. /\ srv.at = "wait" /\ srv' = [srv EXCEPT !.at = "test"]
      /\ UNCHANGED <<usr, hist>> /\ hw' = [hw EXCEPT !.line = l]
  BY DEF LinumQspi!Woken
<1>2. l \in LinumQspiLines /\ l.raw = hw.line.raw
  BY LinumQspiLineIs
     DEF LinumQspiIInv, LinumQspiLines, LinumQspi!LineType
<1>3. "test" \in LinumQspi!Places
  BY DEF LinumQspi!Places
<1> HIDE DEF l
<1> QED
  BY <1>1, <1>2, <1>3, LinumQspiStep
  DEF LinumQspiIInv, LinumQspiWork, LinumQspiThere

LEMMA LinumQspiTestPrefix ==
    ASSUME LinumQspiIInv, LinumQspi!TestPrefix PROVE LinumQspiIInv'
<1> DEFINE n == srv.left - 1
<1>0. LinumQspiTyped
  BY DEF LinumQspiIInv
<1>1. /\ srv.at = "test" /\ srv.left # 0 /\ UNCHANGED <<usr, hw>>
      /\ srv' = [[srv EXCEPT !.at = "abort"] EXCEPT !.left = n]
      /\ hist' = [hist EXCEPT !.early = @ \/ ~LinumQspi!Complete]
  BY DEF LinumQspi!TestPrefix
<1>2. n \in 0 .. 4
  BY <1>0, <1>1 DEF LinumQspiTyped, LinumQspiServer
<1> HIDE DEF n
<1>3. /\ srv' \in LinumQspiServer /\ srv'.at = "abort"
      /\ srv'.user = srv.user
  BY <1>0, <1>1, <1>2 DEF LinumQspiTyped, LinumQspiServer, LinumQspi!Places
<1>4. /\ hist' \in LinumQspiHist /\ hist'.long = hist.long
      /\ hist'.failed = hist.failed /\ (hist.early => hist'.early)
  BY <1>0, <1>1 DEF LinumQspiTyped, LinumQspiHist
<1> QED
  BY <1>0, <1>1, <1>3, <1>4, LinumQspiQuiet
     DEF LinumQspiTyped, LinumQspiWork

(* An answer: OK with the data of a request that is not a long one, or a   *)
(* time-out that the record explains.                                      *)
LEMMA LinumQspiEnds ==
    ASSUME LinumQspiIInv, NEW rc \in LinumQspiRcs, NEW val \in 0 .. Many,
           srv.at # "recv",
           LinumQspi!Reply(rc, val), hw' \in LinumQspiUnit,
           hist' \in LinumQspiHist, hist'.long = hist.long,
           hist.early => hist'.early, hist'.failed = hist.failed,
           rc = "ok" =>
              val = IF LinumQspi!Call \in LinumQspi!Longs THEN 0
                    ELSE LinumQspi!Own,
           rc = "etimeout" =>
              hist'.early \/ LinumQspi!Own \in hist.failed
    PROVE  LinumQspiIInv'
<1>1. /\ LinumQspiTyped' /\ srv'.at = "recv" /\ srv'.user = srv.user
      /\ usr'[srv.user].at = "idle" /\ usr'[srv.user].rc = rc
      /\ usr'[srv.user].n = usr[srv.user].n /\ usr'[srv.user].val = val
      /\ \A v \in Several : v # srv.user => usr'[v] = usr[v]
  BY LinumQspiReplied DEF LinumQspiIInv
<1>2. \A v \in Several : usr'[v].n = usr[v].n
  BY <1>1
<1>3. LinumQspiNumbered'
  <2>1. \A v \in Several : usr'[v].at # "idle" => usr'[v].rc = ""
    BY <1>1 DEF LinumQspiIInv, LinumQspiNumbered
  <2>2. \A v \in Several :
           usr'[v].at # "idle" => usr'[v].n \notin hist.long
    BY <1>1 DEF LinumQspiIInv, LinumQspiNumbered
  <2>3. /\ \A v, w \in Several :
              v # w /\ usr'[v].n = usr'[w].n => usr'[v].n = 0
        /\ \A m \in hist.long : \E v \in Several : m <= usr'[v].n
    BY <1>2 DEF LinumQspiIInv, LinumQspiNumbered
  <2> QED  BY <1>1, <2>1, <2>2, <2>3 DEF LinumQspiNumbered
<1>4. LinumQspi!Own \in hist.long <=> LinumQspi!Call \in LinumQspi!Longs
  BY DEF LinumQspiIInv, LinumQspiNumbered
<1>5. LinumQspi!OkIsTrue'
  BY <1>1, <1>4 DEF LinumQspiIInv, LinumQspiAnswers, LinumQspi!OkIsTrue
<1>6. LinumQspiExcused'
  BY <1>1 DEF LinumQspiIInv, LinumQspiAnswers, LinumQspiExcused
<1> QED
  BY <1>1, <1>3, <1>5, <1>6
     DEF LinumQspiIInv, LinumQspiWork, LinumQspiAnswers

LEMMA LinumQspiTestLate ==
    ASSUME LinumQspiIInv, LinumQspi!TestLate PROVE LinumQspiIInv'
<1>1. /\ LinumQspi!Reply("etimeout", 0) /\ UNCHANGED hw /\ srv.at = "test"
      /\ hist' = [hist EXCEPT !.early = TRUE]
  BY DEF LinumQspi!TestLate
<1>2. "etimeout" \in LinumQspiRcs /\ hw' \in LinumQspiUnit
  BY <1>1 DEF LinumQspiRcs, LinumQspiIInv, LinumQspiTyped
<1>3. 0 \in 0 .. Many
  BY ServersAssumption
<1>4. /\ hist' \in LinumQspiHist /\ hist'.long = hist.long
      /\ hist'.failed = hist.failed /\ hist'.early
  BY <1>1 DEF LinumQspiIInv, LinumQspiTyped, LinumQspiHist
<1> QED  BY <1>1, <1>2, <1>3, <1>4, LinumQspiEnds

LEMMA LinumQspiTestDone ==
    ASSUME LinumQspiIInv, LinumQspi!TestDone PROVE LinumQspiIInv'
<1>0. LinumQspiTyped
  BY DEF LinumQspiIInv
<1>1. /\ srv.at = "test" /\ srv' = [srv EXCEPT !.at = "drain"]
      /\ UNCHANGED <<usr, hw, hist>>
      /\ LinumQspiThere /\ hw.run = 0 /\ hw.data \in {0, LinumQspi!Own}
  BY DEF LinumQspi!TestDone, LinumQspiIInv, LinumQspiWork
<1>2. /\ srv' \in LinumQspiServer /\ srv'.at = "drain"
      /\ srv'.user = srv.user
  BY <1>0, <1>1, LinumQspiGoes DEF LinumQspi!Places
<1>3. LinumQspiWork'
  BY <1>1, <1>2 DEF LinumQspiWork, LinumQspiThere
<1> QED
  BY <1>0, <1>1, <1>2, <1>3, LinumQspiQuiet DEF LinumQspiTyped

(* The answer behind the wait.                                             *)
LEMMA LinumQspiReadOut ==
    ASSUME LinumQspiIInv, srv.at = "drain", UNCHANGED hist,
           hw' \in LinumQspiUnit,
           hw.data = 0 => LinumQspi!Reply("etimeout", 0),
           hw.data # 0 => LinumQspi!Reply("ok", LinumQspi!Carried)
    PROVE  LinumQspiIInv'
<1>0. LinumQspiTyped
  BY DEF LinumQspiIInv
<1>1. /\ hist' \in LinumQspiHist /\ hist'.long = hist.long
      /\ (hist.early => hist'.early) /\ hist'.failed = hist.failed
  BY <1>0 DEF LinumQspiTyped
<1>2. /\ LinumQspiThere /\ hw.data \in {0, LinumQspi!Own}
      /\ LinumQspi!Own # 0 /\ LinumQspi!Own \in 0 .. Many /\ 0 \in 0 .. Many
  BY <1>0, LinumQspiServes, ServersAssumption DEF LinumQspiIInv, LinumQspiWork
<1>3. "ok" \in LinumQspiRcs /\ "etimeout" \in LinumQspiRcs
  BY DEF LinumQspiRcs
<1>4. CASE hw.data = 0
  <2>1. LinumQspi!Own \in hist.failed
    BY <1>2, <1>4 DEF LinumQspiThere
  <2> QED  BY <1>1, <1>2, <1>3, <1>4, <2>1, LinumQspiEnds
<1>5. CASE hw.data # 0
  <2> DEFINE v == LinumQspi!Carried
  <2>1. v = IF LinumQspi!Call \in LinumQspi!Longs THEN 0
            ELSE LinumQspi!Own
    BY <1>2, <1>5 DEF LinumQspi!Carried
  <2>2. LinumQspi!Reply("ok", v)
    BY <1>5
  <2> HIDE DEF v
  <2> QED  BY <1>1, <1>2, <1>3, <2>1, <2>2, LinumQspiEnds
<1> QED  BY <1>4, <1>5

LEMMA LinumQspiPop == ASSUME LinumQspiIInv, LinumQspi!Pop PROVE LinumQspiIInv'
<1> DEFINE l == LinumQspi!Cleared(hw.line, {"tc", "te"})
           g == [hw EXCEPT !.data = 0]
<1>0. LinumQspiTyped
  BY DEF LinumQspiIInv
<1>1. l \in LinumQspiLines
  BY <1>0, LinumQspiLineIs DEF LinumQspiLines, LinumQspi!LineType
<1>2. UNCHANGED hw \/ hw' = [g EXCEPT !.line = l]
  BY DEF LinumQspi!Pop
<1> HIDE DEF l
<1>3. g \in LinumQspiUnit
  BY <1>0, ServersAssumption DEF LinumQspiTyped, LinumQspiUnit
<1> HIDE DEF g
<1>4. hw' \in LinumQspiUnit
  BY <1>0, <1>1, <1>2, <1>3 DEF LinumQspiTyped, LinumQspiUnit
<1> QED  BY <1>4, LinumQspiReadOut DEF LinumQspi!Pop

LEMMA LinumQspiDrain ==
    ASSUME LinumQspiIInv, LinumQspi!Drain PROVE LinumQspiIInv'
<1> DEFINE l == LinumQspi!Cleared(hw.line, {"te"})
<1>0. LinumQspiTyped
  BY DEF LinumQspiIInv
<1>1. l \in LinumQspiLines
  BY <1>0, LinumQspiLineIs DEF LinumQspiLines, LinumQspi!LineType
<1>2. hw' = [hw EXCEPT !.line = l] \/ hw' = [hw EXCEPT !.data = 0]
  BY DEF LinumQspi!Drain
<1> HIDE DEF l
<1>3. hw' \in LinumQspiUnit
  BY <1>0, <1>1, <1>2, ServersAssumption DEF LinumQspiTyped, LinumQspiUnit
<1> QED  BY <1>3, LinumQspiReadOut DEF LinumQspi!Drain

LEMMA LinumQspiTransfer ==
    ASSUME LinumQspiIInv, LinumQspi!Transfer PROVE LinumQspiIInv'
<1> DEFINE l == LinumQspi!Latched(hw.line, "tc")
           data == IF hw.cmd = "bare" THEN hw.data ELSE hw.run
           h == [hw EXCEPT !.run = 0]
           g == [h EXCEPT !.line = l]
<1>0. LinumQspiTyped
  BY DEF LinumQspiIInv
<1>1. /\ hw.run # 0 /\ UNCHANGED <<usr, srv, hist>>
      /\ hw' = [g EXCEPT !.data = data]
  BY DEF LinumQspi!Transfer
<1>2. l \in LinumQspiLines
  BY <1>0, LinumQspiLineIs DEF LinumQspiLines, LinumQspi!LineType
<1>3. /\ data \in 0 .. Many /\ data \in {hw.data, hw.run}
      /\ hw.cmd # "bare" => data = hw.run
  BY <1>0 DEF LinumQspiTyped, LinumQspiUnit
<1>4. h \in LinumQspiUnit /\ h.run = 0 /\ h.cmd = hw.cmd
  BY <1>0, ServersAssumption DEF LinumQspiTyped, LinumQspiUnit
<1> HIDE DEF l, h, data
<1>5. g \in LinumQspiUnit /\ g.run = 0 /\ g.cmd = hw.cmd
  BY <1>2, <1>4 DEF LinumQspiUnit
<1> HIDE DEF g
<1>6. /\ hw' \in LinumQspiUnit /\ hw'.run = 0 /\ hw'.data = data
      /\ hw'.cmd = hw.cmd
  BY <1>1, <1>3, <1>5 DEF LinumQspiUnit
<1>7. LinumQspiWork'
  BY <1>0, <1>1, <1>3, <1>6, LinumQspiServes
     DEF LinumQspiIInv, LinumQspiWork, LinumQspiThere
<1> QED
  BY <1>0, <1>1, <1>6, <1>7, LinumQspiOutside DEF LinumQspiTyped

LEMMA LinumQspiTransferError ==
    ASSUME LinumQspiIInv, LinumQspi!TransferError PROVE LinumQspiIInv'
<1>0. LinumQspiTyped
  BY DEF LinumQspiIInv
<1>1. PICK event \in SUBSET {"tc"} :
         hw' = [hw EXCEPT !.run = 0,
                          !.line.raw = @ \cup event \cup {"te"}]
  BY DEF LinumQspi!TransferError
<1>2. /\ hw.run # 0 /\ UNCHANGED <<usr, srv>>
      /\ hist' = [hist EXCEPT !.failed = @ \cup {hw.run}]
  BY DEF LinumQspi!TransferError
<1> DEFINE l == [hw.line EXCEPT !.raw = @ \cup event \cup {"te"}]
           h == [hw EXCEPT !.run = 0]
<1>3. l \in LinumQspiLines /\ "te" \in l.raw
  BY <1>0, LinumQspiLineIs DEF LinumQspiLines, LinumQspi!LineType
<1>4. h \in LinumQspiUnit /\ h.run = 0 /\ h.data = hw.data /\ h.cmd = hw.cmd
  BY <1>0, ServersAssumption DEF LinumQspiTyped, LinumQspiUnit
<1>5. hw' = [h EXCEPT !.line = l]
  BY <1>0, <1>1 DEF LinumQspiTyped, LinumQspiUnit
<1> HIDE DEF h, l
<1>6. /\ hw' \in LinumQspiUnit /\ hw'.run = 0 /\ hw'.data = hw.data
      /\ hw'.cmd = hw.cmd /\ "te" \in hw'.line.raw
  BY <1>3, <1>4, <1>5 DEF LinumQspiUnit
<1>7. /\ hist' \in LinumQspiHist /\ hist'.long = hist.long
      /\ (hist'.early <=> hist.early) /\ hist.failed \subseteq hist'.failed
      /\ hw.run \in hist'.failed
  BY <1>0, <1>2 DEF LinumQspiTyped, LinumQspiHist, LinumQspiUnit
<1>8. LinumQspiWork'
  BY <1>2, <1>6, <1>7 DEF LinumQspiIInv, LinumQspiWork, LinumQspiThere
<1> QED  BY <1>2, <1>6, <1>7, <1>8, LinumQspiOutside

LEMMA LinumQspiInterrupt ==
    ASSUME LinumQspiIInv, LinumQspi!Interrupt PROVE LinumQspiIInv'
<1> DEFINE l == LinumQspi!Delivered(hw.line)
<1>0. LinumQspiTyped
  BY DEF LinumQspiIInv
<1>1. /\ UNCHANGED <<usr, srv, hist>> /\ hw' = [hw EXCEPT !.line = l]
  BY DEF LinumQspi!Interrupt
<1>2. l \in LinumQspiLines /\ l.raw = hw.line.raw
  BY <1>0, LinumQspiLineIs DEF LinumQspiLines, LinumQspi!LineType
<1> HIDE DEF l
<1>3. /\ hw' \in LinumQspiUnit /\ hw'.line = l
      /\ UNCHANGED <<hw.run, hw.data, hw.cmd>>
  BY <1>0, <1>1, <1>2, LinumQspiLine
<1>4. LinumQspiWork'
  BY <1>1, <1>2, <1>3 DEF LinumQspiIInv, LinumQspiWork, LinumQspiThere
<1> QED
  BY <1>0, <1>1, <1>3, <1>4, LinumQspiOutside DEF LinumQspiTyped

LEMMA LinumQspiNext ==
    ASSUME LinumQspiIInv, LinumQspi!Next PROVE LinumQspiIInv'
BY LinumQspiRequest, LinumQspiReceive, LinumQspiAbort, LinumQspiAbortClear,
   LinumQspiCommand, LinumQspiOpen, LinumQspiWoken, LinumQspiTestPrefix,
   LinumQspiTestLate, LinumQspiTestDone, LinumQspiPop, LinumQspiDrain,
   LinumQspiTransfer, LinumQspiTransferError, LinumQspiInterrupt
   DEF LinumQspi!Next, LinumQspi!Proceed

LEMMA LinumQspiStutter ==
    ASSUME LinumQspiIInv, UNCHANGED <<usr, srv, hw, hist>> PROVE LinumQspiIInv'
BY DEF LinumQspiIInv, LinumQspiTyped, LinumQspi!Call, LinumQspiWork,
       LinumQspiThere, LinumQspiNumbered, LinumQspi!Own, LinumQspiAnswers,
       LinumQspiExcused, LinumQspi!OkIsTrue

LEMMA LinumQspiSafe ==
    LinumQspiIInv =>
        LinumQspi!TypeOK /\ LinumQspi!OkIsTrue /\ LinumQspi!Traced
<1>1. LinumQspiUsers = LinumQspi!UserType(
                         LinumQspi!Commands \cup LinumQspi!Reads,
                         {"ok", "etimeout"})
  BY DEF LinumQspiUsers, LinumQspiUser, UserRec, LinumQspiRcs,
     LinumQspiCalls, LinumQspi!UserType
<1>2. LinumQspiIInv => LinumQspi!TypeOK
  BY <1>1 DEF LinumQspiIInv, LinumQspiTyped, LinumQspiServer, LinumQspiUnit,
     LinumQspiHist, LinumQspiLines, LinumQspi!TypeOK
<1> QED
  BY <1>2 DEF LinumQspiIInv, LinumQspiWork, LinumQspiThere,
     LinumQspiAnswers, LinumQspiExcused, LinumQspi!Traced

(* LinumQspiKeeps.  The QSPI flash server of the Linum board: an answer OK *)
(* carries the data of its own command and never another's, except that    *)
(* those of a long request (13 to 16 bytes) are never whole, the control   *)
(* register standing in the place of the last; and a request fails only    *)
(* when its own transfer has, or after a wait woken by an interrupt left   *)
(* over.                                                                   *)
THEOREM LinumQspiKeeps ==
    LinumQspi!Spec =>
       [](LinumQspi!TypeOK /\ LinumQspi!OkIsTrue /\ LinumQspi!Traced)
<1>1. LinumQspi!Init => LinumQspiIInv
  BY LinumQspiInit
<1>2. LinumQspiIInv /\ [LinumQspi!Next]_LinumQspi!vars => LinumQspiIInv'
  BY LinumQspiNext, LinumQspiStutter DEF LinumQspi!vars
<1>3. LinumQspiIInv =>
         LinumQspi!TypeOK /\ LinumQspi!OkIsTrue /\ LinumQspi!Traced
  BY LinumQspiSafe
<1> QED  BY <1>1, <1>2, <1>3, PTL DEF LinumQspi!Spec

HIDE DEF LinumQspi!None, LinumQspi!Ids, LinumQspi!Own, LinumQspi!Call,
         LinumQspi!Goto, LinumQspi!Resting, LinumQspi!ServerType,
         LinumQspi!Acked, LinumQspi!Taken, LinumQspi!Delivered,
         LinumQspi!Latched, LinumQspi!Cleared, LinumQspi!Due,
         LinumQspi!Complete, LinumQspi!Prefix

-----------------------------------------------------------------------------
(* The touch server of the Linum board.                                    *)

USE DEF LinumTouch!None, LinumTouch!Ids, LinumTouch!Own, LinumTouch!Call,
        LinumTouch!Goto, LinumTouch!Resting, LinumTouch!ServerType,
        LinumTouch!Acked, LinumTouch!Taken, LinumTouch!Delivered,
        LinumTouch!Latched, LinumTouch!Cleared, LinumTouch!Due,
        LinumTouch!ExtiAck, LinumTouch!Raises

LinumTouchCalls  == {"wait", "wait for ever", "read", "poll"}
LinumTouchRcs    == {"ok", "etimeout", "i2c", "esrch", "released", "pressed"}
LinumTouchUser   == UserRec(LinumTouchCalls, LinumTouchRcs, Few)
LinumTouchUsers  == [Several -> LinumTouchUser]
LinumTouchServer == LinumTouch!ServerType(LinumTouch!Places, {}, 0)
LinumTouchLines  == LinumTouch!LineType({"edge"})
LinumTouchUnit   == [line : LinumTouchLines, open : BOOLEAN, low : BOOLEAN,
                     touches : 0 .. MaxTouches]
LinumTouchHist   == [woken : Nat]

LinumTouchTyped ==
    /\ usr \in LinumTouchUsers /\ srv \in LinumTouchServer
    /\ hw \in LinumTouchUnit /\ hist \in LinumTouchHist
    /\ \A u \in Several : usr[u].at # "idle" => usr[u].n # 0
    /\ srv.at # "recv" => LinumTouch!Call \in LinumTouchCalls

(* A touch is reported, or its notification is there, or its edge will     *)
(* still be notified, or the WAIT it woke is about to be answered.         *)
LinumTouchSpent ==
    /\ hist.woken + (IF hw.line.bit THEN 1 ELSE 0)
         + (IF "edge" \in hw.line.raw /\ ~hw.line.masked THEN 1 ELSE 0)
         + (IF srv.at \in {"done", "mask"} /\ ~srv.late THEN 1 ELSE 0)
         <= hw.touches

LinumTouchAwake ==
    /\ hw.line.ena = {"edge"}
    /\ srv.at \in {"unmask", "wait"} /\ hw.line.masked => hw.line.bit
    /\ srv.at = "wait" => hw.open

LinumTouchWork ==
    /\ LinumTouchSpent /\ LinumTouchAwake
    /\ Tally(usr, Several, Few, hist.woken)

LinumTouchIInv == LinumTouchTyped /\ LinumTouchWork

LEMMA LinumTouchServes ==
    ASSUME LinumTouchTyped
    PROVE  /\ srv.user \in Several /\ LinumTouch!Own \in 0 .. Few
           /\ srv.at # "recv" => LinumTouch!Own # 0
<1>1. srv.user \in Several /\ usr \in [Several -> LinumTouchUser]
  BY DEF LinumTouchTyped, LinumTouchServer, LinumTouchUsers
<1>2. LinumTouch!Own \in 0 .. Few
  BY <1>1 DEF LinumTouchUser, UserRec
<1>3. srv.at # "recv" => LinumTouch!Call # "idle"
  BY DEF LinumTouchTyped, LinumTouchCalls
<1> QED  BY <1>1, <1>2, <1>3 DEF LinumTouchTyped

LEMMA LinumTouchBegins ==
    ASSUME usr = LinumTouch!IdleUsers,
           srv = LinumTouch!Resting(CHOOSE u \in Several : TRUE)
    PROVE  /\ usr \in LinumTouchUsers /\ srv \in LinumTouchServer
           /\ srv.at = "recv"
           /\ \A u \in Several : usr[u].at = "idle" /\ usr[u].rc = ""
<1>1. [at |-> "idle", n |-> 0, rc |-> "", val |-> 0] \in LinumTouchUser
  BY ServersAssumption DEF LinumTouchUser, UserRec
<1>2. /\ usr \in LinumTouchUsers
      /\ \A u \in Several : usr[u].at = "idle" /\ usr[u].rc = ""
  BY <1>1 DEF LinumTouch!IdleUsers, LinumTouchUsers
<1>3. (CHOOSE u \in Several : TRUE) \in Several
  BY ServersAssumption
<1>4. srv \in LinumTouchServer /\ srv.at = "recv"
  BY <1>3, ServersAssumption DEF LinumTouchServer
<1> QED  BY <1>2, <1>4

LEMMA LinumTouchAsked ==
    ASSUME LinumTouchTyped, NEW u \in Several, NEW call \in LinumTouchCalls,
           LinumTouch!Ask(u, call)
    PROVE  /\ LinumTouchTyped' /\ UNCHANGED <<srv, hw, hist>>
           /\ usr'[u].rc = "" /\ usr'[u].at = call
           /\ \A v \in Several : v # u => usr'[v] = usr[v]
           /\ srv.at # "recv" =>
                 /\ LinumTouch!Own' = LinumTouch!Own
                 /\ LinumTouch!Call' = LinumTouch!Call
<1>1. PICK n \in 1 .. Few :
         usr' = [usr EXCEPT ![u] = [at |-> call, n |-> n, rc |-> "",
                                    val |-> 0]]
  BY DEF LinumTouch!Ask
<1>2. usr[u].at = "idle" /\ UNCHANGED <<srv, hw, hist>>
  BY DEF LinumTouch!Ask
<1>3. [at |-> call, n |-> n, rc |-> "", val |-> 0] \in LinumTouchUser
  BY AskRec, ServersAssumption DEF LinumTouchUser
<1>4. /\ usr' \in LinumTouchUsers
      /\ usr'[u].at = call /\ usr'[u].n = n /\ usr'[u].rc = ""
      /\ \A v \in Several : v # u => usr'[v] = usr[v]
  BY <1>1, <1>3 DEF LinumTouchTyped, LinumTouchUsers
<1>5. srv.at # "recv" => srv.user # u /\ srv.user \in Several
  BY <1>2, LinumTouchServes DEF LinumTouchTyped, LinumTouchCalls
<1>6. n # 0
  OBVIOUS
<1>7. \A v \in Several : usr'[v].at # "idle" => usr'[v].n # 0
  BY <1>4, <1>6 DEF LinumTouchTyped
<1>8. srv.at # "recv" =>
         LinumTouch!Own' = LinumTouch!Own /\ LinumTouch!Call' = LinumTouch!Call
  BY <1>2, <1>4, <1>5
<1> QED  BY <1>2, <1>4, <1>7, <1>8 DEF LinumTouchTyped

LEMMA LinumTouchReceived ==
    ASSUME LinumTouchTyped, NEW u \in Several, usr[u].at \in LinumTouchCalls,
           NEW next \in LinumTouch!Places, NEW left \in 0 .. 0,
           srv' = [at |-> next, user |-> u, late |-> FALSE, raw |-> {},
                   left |-> left],
           UNCHANGED <<usr, hw, hist>>
    PROVE  /\ LinumTouchTyped' /\ srv'.at = next /\ srv'.user = u
           /\ srv'.late = FALSE /\ srv'.raw = {} /\ srv'.left = left
<1>1. srv' \in LinumTouchServer /\ srv'.at = next /\ srv'.user = u
  BY DEF LinumTouchServer
<1> QED  BY <1>1 DEF LinumTouchTyped

LEMMA LinumTouchGoes ==
    ASSUME LinumTouchTyped, NEW next \in LinumTouch!Places,
           srv' = [srv EXCEPT !.at = next]
    PROVE  /\ srv' \in LinumTouchServer /\ srv'.at = next
           /\ UNCHANGED <<srv.user, srv.raw, srv.left>>
           /\ (srv'.late <=> srv.late)
BY DEF LinumTouchTyped, LinumTouchServer

LEMMA LinumTouchReplied ==
    ASSUME LinumTouchTyped, NEW rc \in LinumTouchRcs, NEW val \in 0 .. Few,
           LinumTouch!Reply(rc, val), hw' \in LinumTouchUnit,
           hist' \in LinumTouchHist
    PROVE  /\ LinumTouchTyped' /\ srv'.at = "recv" /\ srv'.user = srv.user
           /\ usr'[srv.user].at = "idle" /\ usr'[srv.user].rc = rc
           /\ usr'[srv.user].n = usr[srv.user].n /\ usr'[srv.user].val = val
           /\ \A v \in Several : v # srv.user => usr'[v] = usr[v]
<1> DEFINE x == [[[usr[srv.user] EXCEPT !.at = "idle"] EXCEPT !.rc = rc]
                    EXCEPT !.val = val]
<1>1. srv.user \in Several /\ usr \in [Several -> LinumTouchUser]
  BY LinumTouchServes DEF LinumTouchTyped, LinumTouchUsers
<1>2. /\ x \in LinumTouchUser
      /\ x.at = "idle" /\ x.n = usr[srv.user].n /\ x.rc = rc /\ x.val = val
  <2>1. usr[srv.user] \in LinumTouchUser
    BY <1>1
  <2> QED  BY <2>1, ServersAssumption DEF LinumTouchUser, UserRec
<1>3. /\ usr' \in LinumTouchUsers /\ usr'[srv.user] = x
      /\ \A v \in Several : v # srv.user => usr'[v] = usr[v]
  BY <1>1, <1>2, Thrice DEF LinumTouch!Reply, LinumTouchUsers
<1>4. srv' \in LinumTouchServer /\ srv'.at = "recv" /\ srv'.user = srv.user
  BY <1>1 DEF LinumTouch!Reply, LinumTouchServer
<1> HIDE DEF x
<1>5. \A v \in Several : usr'[v].at # "idle" => usr'[v].n # 0
  BY <1>2, <1>3 DEF LinumTouchTyped
<1> QED  BY <1>2, <1>3, <1>4, <1>5 DEF LinumTouchTyped

(* A step that leaves the users alone.                                     *)
LEMMA LinumTouchQuiet ==
    ASSUME LinumTouchIInv, UNCHANGED usr, srv' \in LinumTouchServer,
           srv'.at # "recv",
           srv'.user = srv.user, srv.at # "recv",
           hw' \in LinumTouchUnit, hist' \in LinumTouchHist, LinumTouchWork'
    PROVE  LinumTouchIInv'
BY DEF LinumTouchIInv, LinumTouchTyped

(* A step of the peripheral.                                               *)
LEMMA LinumTouchOutside ==
    ASSUME LinumTouchIInv, UNCHANGED <<usr, srv, hist>>,
           hw' \in LinumTouchUnit,
           LinumTouchWork'
    PROVE  LinumTouchIInv'
BY DEF LinumTouchIInv, LinumTouchTyped

LEMMA LinumTouchTallyAsk ==
    ASSUME LinumTouchTyped, NEW u \in Several, NEW call,
           LinumTouch!Ask(u, call), NEW k,
           Tally(usr, Several, Few, k)
    PROVE  Tally(usr', Several, Few, k)
<1>1. PICK n \in 1 .. Few :
         /\ \A v \in Several : usr[v].n < n
         /\ usr' = [usr EXCEPT ![u] = [at |-> call, n |-> n, rc |-> "",
                                    val |-> 0]]
  BY DEF LinumTouch!Ask, LinumTouch!Fresh
<1>2. /\ usr \in [Several -> LinumTouchUser]
      /\ \A v \in Several : usr[v].n \in 0 .. Few
  BY DEF LinumTouchTyped, LinumTouchUsers, LinumTouchUser, UserRec
<1>3. usr'[u].n = n /\ \A v \in Several : v # u => usr'[v] = usr[v]
  BY <1>1, <1>2
<1> QED  BY <1>1, <1>2, <1>3, ServersAssumption, TallyAsk

LEMMA LinumTouchTallyReply ==
    ASSUME LinumTouchTyped, srv.at # "recv", NEW k \in Nat,
           Tally(usr, Several, Few, k),
           usr'[srv.user].at = "idle", usr'[srv.user].n = usr[srv.user].n,
           \A v \in Several : v # srv.user => usr'[v] = usr[v]
    PROVE  Tally(usr', Several, Few, k) /\ Tally(usr', Several, Few, k + 1)
<1>1. /\ LinumTouch!Call # "idle" /\ LinumTouch!Own \in 1 .. Few
      /\ srv.user \in Several
  <2>1. /\ srv.user \in Several /\ LinumTouch!Own \in 0 .. Few
        /\ LinumTouch!Own # 0
    BY LinumTouchServes
  <2>2. LinumTouch!Call # "idle"
    BY DEF LinumTouchTyped, LinumTouchCalls
  <2> QED  BY <2>1, <2>2, ServersAssumption
<1> HIDE DEF LinumTouch!Own, LinumTouch!Call
<1> QED
  BY <1>1, ServersAssumption, TallyReply
     DEF LinumTouch!Own, LinumTouch!Call

LEMMA LinumTouchInit == ASSUME LinumTouch!Init PROVE LinumTouchIInv
<1>1. /\ usr = LinumTouch!IdleUsers
      /\ srv = LinumTouch!Resting(CHOOSE u \in Several : TRUE)
      /\ hw = [line |-> LinumTouch!Line({"edge"}), open |-> TRUE,
               low |-> FALSE, touches |-> 0]
      /\ hist = [woken |-> 0]
  BY DEF LinumTouch!Init
<1>2. /\ LinumTouch!Line({"edge"}) \in LinumTouchLines
      /\ LinumTouch!Line({"edge"}) = [raw |-> {}, ena |-> {"edge"},
                                      masked |-> FALSE, bit |-> FALSE]
  BY DEF LinumTouch!Line, LinumTouchLines, LinumTouch!LineType
<1>3. hw \in LinumTouchUnit /\ hist \in LinumTouchHist
  BY <1>1, <1>2, ServersAssumption DEF LinumTouchUnit, LinumTouchHist
<1>4. LinumTouchSpent /\ LinumTouchAwake
  <2>1. /\ hw.line.raw = {} /\ hw.line.ena = {"edge"} /\ ~hw.line.bit
        /\ hw.touches = 0 /\ hist.woken = 0
    BY <1>1, <1>2
  <2>2. srv.at = "recv"
    BY <1>1, LinumTouchBegins
  <2> QED  BY <2>1, <2>2 DEF LinumTouchSpent, LinumTouchAwake
<1>5. Tally(usr, Several, Few, hist.woken)
  <2>1. (\A u \in Several : usr[u].n = 0) /\ hist.woken = 0
    BY <1>1 DEF LinumTouch!IdleUsers
  <2> QED  BY <2>1, TallyZero, ServersAssumption
<1> QED
  BY <1>1, <1>3, <1>4, <1>5, LinumTouchBegins
     DEF LinumTouchIInv, LinumTouchTyped, LinumTouchWork

LEMMA LinumTouchRequest ==
    ASSUME LinumTouchIInv, NEW u \in Several, LinumTouch!Request(u)
    PROVE  LinumTouchIInv'
<1>1. PICK call \in LinumTouchCalls : LinumTouch!Ask(u, call)
  BY DEF LinumTouch!Request, LinumTouchCalls
<1>2. LinumTouchTyped' /\ UNCHANGED <<srv, hw, hist>>
  BY <1>1, LinumTouchAsked DEF LinumTouchIInv
<1>3. LinumTouchSpent' /\ LinumTouchAwake'
  BY <1>2
     DEF LinumTouchIInv, LinumTouchWork, LinumTouchSpent, LinumTouchAwake
<1>4. Tally(usr', Several, Few, hist.woken)
  BY <1>1, LinumTouchTallyAsk DEF LinumTouchIInv, LinumTouchWork
<1> QED  BY <1>2, <1>3, <1>4 DEF LinumTouchIInv, LinumTouchWork

LEMMA LinumTouchReceive ==
    ASSUME LinumTouchIInv, NEW u \in Several, LinumTouch!Receive(u)
    PROVE  LinumTouchIInv'
<1>1. PICK next \in {"ack", "i2c", "pin"} :
         /\ srv.at = "recv" /\ usr[u].at \in LinumTouchCalls
         /\ UNCHANGED <<usr, hw, hist>>
         /\ srv' = [at |-> next, user |-> u, late |-> FALSE, raw |-> {},
                    left |-> 0]
  BY DEF LinumTouch!Receive, LinumTouch!Recv, LinumTouchCalls
<1>2. next \in LinumTouch!Places
  BY <1>1 DEF LinumTouch!Places
<1>4. 0 \in 0 .. 0
  OBVIOUS
<1>3. LinumTouchTyped' /\ srv'.at = next
  BY <1>1, <1>2, <1>4, LinumTouchReceived DEF LinumTouchIInv
<1>5. Tally(usr', Several, Few, hist'.woken)
  BY <1>1 DEF LinumTouchIInv, LinumTouchWork
<1>6. LinumTouchSpent' /\ LinumTouchAwake'
  BY <1>1, <1>3
     DEF LinumTouchIInv, LinumTouchWork, LinumTouchSpent, LinumTouchAwake
<1> QED  BY <1>3, <1>5, <1>6 DEF LinumTouchIInv, LinumTouchWork

(* The line set to another.                                                *)
LEMMA LinumTouchLine ==
    ASSUME LinumTouchTyped, NEW l \in LinumTouchLines,
           hw' = [hw EXCEPT !.line = l]
    PROVE  /\ hw' \in LinumTouchUnit /\ hw'.line = l
           /\ hw'.touches = hw.touches /\ (hw'.open <=> hw.open)
BY DEF LinumTouchTyped, LinumTouchUnit

LEMMA LinumTouchLineIs ==
    ASSUME LinumTouchTyped
    PROVE  /\ hw.line \in LinumTouchLines /\ hw.line.raw \subseteq {"edge"}
           /\ hw.touches \in Nat /\ hist.woken \in Nat
BY ServersAssumption
   DEF LinumTouchTyped, LinumTouchUnit, LinumTouchLines, LinumTouchHist,
       LinumTouch!LineType

LEMMA LinumTouchAcks ==
    ASSUME LinumTouchTyped
    PROVE  LET l == LinumTouch!ExtiAck(hw.line) IN
           /\ l \in LinumTouchLines /\ l.raw = {} /\ l.ena = hw.line.ena
           /\ ~l.masked /\ (l.bit <=> hw.line.bit)
BY LinumTouchLineIs DEF LinumTouchLines, LinumTouch!LineType

(* The server goes on and no touch is spent.                               *)
LEMMA LinumTouchStep ==
    ASSUME LinumTouchIInv, srv.at # "recv", UNCHANGED <<usr, hist>>,
           srv' \in LinumTouchServer, srv'.at # "recv",
           srv'.user = srv.user, hw' \in LinumTouchUnit,
           LinumTouchSpent', LinumTouchAwake'
    PROVE  LinumTouchIInv'
<1>1. LinumTouchWork'
  BY DEF LinumTouchIInv, LinumTouchWork
<1> QED  BY <1>1, LinumTouchQuiet DEF LinumTouchIInv, LinumTouchTyped

LEMMA LinumTouchWaitAck ==
    ASSUME LinumTouchIInv, LinumTouch!WaitAck PROVE LinumTouchIInv'
<1> DEFINE l == LinumTouch!ExtiAck(hw.line)
<1>0. LinumTouchTyped
  BY DEF LinumTouchIInv
<1>1. /\ srv.at = "ack" /\ srv' = [srv EXCEPT !.at = "unmask"]
      /\ UNCHANGED <<usr, hist>> /\ hw' = [hw EXCEPT !.line = l]
  BY DEF LinumTouch!WaitAck
<1>2. /\ l \in LinumTouchLines /\ l.raw = {} /\ l.ena = hw.line.ena
      /\ ~l.masked /\ (l.bit <=> hw.line.bit)
  BY <1>0, LinumTouchAcks
<1> HIDE DEF l
<1>3. /\ hw' \in LinumTouchUnit /\ hw'.line = l
      /\ hw'.touches = hw.touches /\ (hw'.open <=> hw.open)
  BY <1>0, <1>1, <1>2, LinumTouchLine
<1>4. /\ srv' \in LinumTouchServer /\ srv'.at = "unmask"
      /\ srv'.user = srv.user /\ (srv'.late <=> srv.late)
  BY <1>0, <1>1, LinumTouchGoes DEF LinumTouch!Places
<1>5. LinumTouchSpent' /\ LinumTouchAwake'
  BY <1>0, <1>1, <1>2, <1>3, <1>4, LinumTouchLineIs
     DEF LinumTouchIInv, LinumTouchWork, LinumTouchSpent, LinumTouchAwake
<1> QED  BY <1>1, <1>3, <1>4, <1>5, LinumTouchStep

LEMMA LinumTouchWaitUnmask ==
    ASSUME LinumTouchIInv, LinumTouch!WaitUnmask PROVE LinumTouchIInv'
<1>0. LinumTouchTyped
  BY DEF LinumTouchIInv
<1>1. /\ srv.at = "unmask" /\ srv' = [srv EXCEPT !.at = "wait"]
      /\ UNCHANGED <<usr, hist>> /\ hw' = [hw EXCEPT !.open = TRUE]
  BY DEF LinumTouch!WaitUnmask
<1>3. /\ hw' \in LinumTouchUnit /\ hw'.line = hw.line
      /\ hw'.touches = hw.touches /\ hw'.open
  BY <1>0, <1>1 DEF LinumTouchTyped, LinumTouchUnit
<1>4. /\ srv' \in LinumTouchServer /\ srv'.at = "wait"
      /\ srv'.user = srv.user /\ (srv'.late <=> srv.late)
  BY <1>0, <1>1, LinumTouchGoes DEF LinumTouch!Places
<1>5. LinumTouchSpent' /\ LinumTouchAwake'
  BY <1>0, <1>1, <1>3, <1>4, LinumTouchLineIs
     DEF LinumTouchIInv, LinumTouchWork, LinumTouchSpent, LinumTouchAwake
<1> QED  BY <1>1, <1>3, <1>4, <1>5, LinumTouchStep

LEMMA LinumTouchWoken ==
    ASSUME LinumTouchIInv, LinumTouch!Woken PROVE LinumTouchIInv'
<1> DEFINE l == LinumTouch!Taken(hw.line)
<1>0. LinumTouchTyped
  BY DEF LinumTouchIInv
<1>1. /\ srv.at = "wait" /\ hw.line.bit /\ srv' = [srv EXCEPT !.at = "done"]
      /\ UNCHANGED <<usr, hist>> /\ hw' = [hw EXCEPT !.line = l]
  BY DEF LinumTouch!Woken
<1>2. /\ l \in LinumTouchLines /\ l.raw = hw.line.raw /\ l.ena = hw.line.ena
      /\ (l.masked <=> hw.line.masked) /\ ~l.bit
  BY <1>0, LinumTouchLineIs DEF LinumTouchLines, LinumTouch!LineType
<1> HIDE DEF l
<1>3. /\ hw' \in LinumTouchUnit /\ hw'.line = l
      /\ hw'.touches = hw.touches /\ (hw'.open <=> hw.open)
  BY <1>0, <1>1, <1>2, LinumTouchLine
<1>4. /\ srv' \in LinumTouchServer /\ srv'.at = "done"
      /\ srv'.user = srv.user /\ (srv'.late <=> srv.late)
  BY <1>0, <1>1, LinumTouchGoes DEF LinumTouch!Places
<1>5. LinumTouchSpent' /\ LinumTouchAwake'
  BY <1>0, <1>1, <1>2, <1>3, <1>4, LinumTouchLineIs
     DEF LinumTouchIInv, LinumTouchWork, LinumTouchSpent, LinumTouchAwake
<1> QED  BY <1>1, <1>3, <1>4, <1>5, LinumTouchStep

LEMMA LinumTouchTimesOut ==
    ASSUME LinumTouchIInv, LinumTouch!TimesOut PROVE LinumTouchIInv'
<1>0. LinumTouchTyped
  BY DEF LinumTouchIInv
<1>1. /\ srv.at = "wait" /\ UNCHANGED <<usr, hw, hist>>
      /\ srv' = [[srv EXCEPT !.at = "done"] EXCEPT !.late = TRUE]
  BY DEF LinumTouch!TimesOut
<1>2. /\ srv' \in LinumTouchServer /\ srv'.at = "done"
      /\ srv'.user = srv.user /\ srv'.late
  BY <1>0, <1>1 DEF LinumTouchTyped, LinumTouchServer, LinumTouch!Places
<1>3. hw' \in LinumTouchUnit
  BY <1>0, <1>1 DEF LinumTouchTyped
<1>4. LinumTouchSpent' /\ LinumTouchAwake'
  BY <1>0, <1>1, <1>2, LinumTouchLineIs
     DEF LinumTouchIInv, LinumTouchWork, LinumTouchSpent, LinumTouchAwake
<1> QED  BY <1>1, <1>2, <1>3, <1>4, LinumTouchStep

LEMMA LinumTouchWaitEndAck ==
    ASSUME LinumTouchIInv, LinumTouch!WaitEndAck PROVE LinumTouchIInv'
<1> DEFINE l == LinumTouch!ExtiAck(hw.line)
<1>0. LinumTouchTyped
  BY DEF LinumTouchIInv
<1>1. /\ srv.at = "done" /\ srv' = [srv EXCEPT !.at = "mask"]
      /\ UNCHANGED <<usr, hist>> /\ hw' = [hw EXCEPT !.line = l]
  BY DEF LinumTouch!WaitEndAck
<1>2. /\ l \in LinumTouchLines /\ l.raw = {} /\ l.ena = hw.line.ena
      /\ ~l.masked /\ (l.bit <=> hw.line.bit)
  BY <1>0, LinumTouchAcks
<1> HIDE DEF l
<1>3. /\ hw' \in LinumTouchUnit /\ hw'.line = l
      /\ hw'.touches = hw.touches /\ (hw'.open <=> hw.open)
  BY <1>0, <1>1, <1>2, LinumTouchLine
<1>4. /\ srv' \in LinumTouchServer /\ srv'.at = "mask"
      /\ srv'.user = srv.user /\ (srv'.late <=> srv.late)
  BY <1>0, <1>1, LinumTouchGoes DEF LinumTouch!Places
<1>5. LinumTouchSpent' /\ LinumTouchAwake'
  BY <1>0, <1>1, <1>2, <1>3, <1>4, LinumTouchLineIs
     DEF LinumTouchIInv, LinumTouchWork, LinumTouchSpent, LinumTouchAwake
<1> QED  BY <1>1, <1>3, <1>4, <1>5, LinumTouchStep

(* A WAIT that was woken is answered OK and counted.                       *)
LEMMA LinumTouchWaitEndMask ==
    ASSUME LinumTouchIInv, LinumTouch!WaitEndMask PROVE LinumTouchIInv'
<1> DEFINE rc == IF srv.late THEN "etimeout" ELSE "ok"
           n  == IF srv.late THEN hist.woken ELSE hist.woken + 1
<1>0. LinumTouchTyped
  BY DEF LinumTouchIInv
<1>1. /\ srv.at = "mask" /\ hw' = [hw EXCEPT !.open = FALSE]
      /\ LinumTouch!Reply(rc, 0)
      /\ hist' = [hist EXCEPT !.woken = n]
  BY <1>0 DEF LinumTouch!WaitEndMask, LinumTouchTyped, LinumTouchHist
<1>2. rc \in LinumTouchRcs /\ n \in {hist.woken, hist.woken + 1}
  BY DEF LinumTouchRcs
<1>3. /\ hw' \in LinumTouchUnit /\ hw'.line = hw.line
      /\ hw'.touches = hw.touches
  BY <1>0, <1>1 DEF LinumTouchTyped, LinumTouchUnit
<1>4. hist' \in LinumTouchHist /\ hist'.woken = n
  BY <1>0, <1>1, <1>2 DEF LinumTouchTyped, LinumTouchHist
<1>5. 0 \in 0 .. Few
  BY ServersAssumption
<1>6. /\ LinumTouchTyped' /\ srv'.at = "recv"
      /\ usr'[srv.user].at = "idle" /\ usr'[srv.user].n = usr[srv.user].n
      /\ \A v \in Several : v # srv.user => usr'[v] = usr[v]
  <2> HIDE DEF rc
  <2> QED  BY <1>0, <1>1, <1>2, <1>3, <1>4, <1>5, LinumTouchReplied
<1>7. Tally(usr', Several, Few, hist'.woken)
  <2>1. Tally(usr, Several, Few, hist.woken) /\ hist.woken \in Nat
    BY <1>0, LinumTouchLineIs DEF LinumTouchIInv, LinumTouchWork
  <2>2. /\ Tally(usr', Several, Few, hist.woken)
        /\ Tally(usr', Several, Few, hist.woken + 1)
    BY <1>0, <1>1, <1>6, <2>1, LinumTouchTallyReply
  <2> HIDE DEF n
  <2> QED  BY <1>2, <1>4, <2>2
<1>8. LinumTouchSpent' /\ LinumTouchAwake'
  BY <1>0, <1>1, <1>3, <1>4, <1>6, LinumTouchLineIs
     DEF LinumTouchIInv, LinumTouchWork, LinumTouchSpent, LinumTouchAwake
<1> QED  BY <1>6, <1>7, <1>8 DEF LinumTouchIInv, LinumTouchWork

(* Any other answer.                                                       *)
LEMMA LinumTouchAnswer ==
    ASSUME LinumTouchIInv, srv.at \notin {"recv", "done", "mask"},
           NEW rc \in LinumTouchRcs, LinumTouch!Reply(rc, 0),
           UNCHANGED hist,
           hw' = hw \/ hw' = [hw EXCEPT !.line = LinumTouch!ExtiAck(hw.line)]
    PROVE  LinumTouchIInv'
<1> DEFINE l == LinumTouch!ExtiAck(hw.line)
<1>0. LinumTouchTyped
  BY DEF LinumTouchIInv
<1>1. /\ l \in LinumTouchLines /\ l.raw = {} /\ l.ena = hw.line.ena
      /\ ~l.masked /\ (l.bit <=> hw.line.bit)
  BY <1>0, LinumTouchAcks
<1>2. hw' = hw \/ hw' = [hw EXCEPT !.line = l]
  OBVIOUS
<1> HIDE DEF l
<1>3. /\ hw' \in LinumTouchUnit /\ hw'.line \in {hw.line, l}
      /\ hw'.touches = hw.touches
  BY <1>0, <1>1, <1>2, LinumTouchLine DEF LinumTouchTyped
<1>4. 0 \in 0 .. Few /\ hist' \in LinumTouchHist
  BY <1>0, ServersAssumption DEF LinumTouchTyped
<1>5. /\ LinumTouchTyped' /\ srv'.at = "recv"
      /\ usr'[srv.user].at = "idle" /\ usr'[srv.user].n = usr[srv.user].n
      /\ \A v \in Several : v # srv.user => usr'[v] = usr[v]
  BY <1>0, <1>3, <1>4, LinumTouchReplied
<1>6. Tally(usr', Several, Few, hist'.woken)
  <2>1. Tally(usr, Several, Few, hist.woken) /\ hist.woken \in Nat
    BY <1>0, LinumTouchLineIs DEF LinumTouchIInv, LinumTouchWork
  <2> QED  BY <1>0, <1>5, <2>1, LinumTouchTallyReply
<1>7. LinumTouchSpent' /\ LinumTouchAwake'
  BY <1>0, <1>1, <1>3, <1>5, LinumTouchLineIs
     DEF LinumTouchIInv, LinumTouchWork, LinumTouchSpent, LinumTouchAwake
<1> QED  BY <1>5, <1>6, <1>7 DEF LinumTouchIInv, LinumTouchWork

(* The server goes on, nothing else changes.                               *)
LEMMA LinumTouchWalks ==
    ASSUME LinumTouchIInv, srv.at \in {"i2c", "pin"},
           NEW next \in {"release", "poll"}, srv' = [srv EXCEPT !.at = next],
           UNCHANGED <<usr, hw, hist>>
    PROVE  LinumTouchIInv'
<1>0. LinumTouchTyped
  BY DEF LinumTouchIInv
<1>1. next \in LinumTouch!Places
  BY DEF LinumTouch!Places
<1>2. /\ srv' \in LinumTouchServer /\ srv'.at = next
      /\ srv'.user = srv.user
  BY <1>0, <1>1, LinumTouchGoes
<1>3. hw' \in LinumTouchUnit
  BY <1>0 DEF LinumTouchTyped
<1>4. LinumTouchSpent' /\ LinumTouchAwake'
  BY <1>0, <1>2, LinumTouchLineIs
     DEF LinumTouchIInv, LinumTouchWork, LinumTouchSpent, LinumTouchAwake
<1> QED  BY <1>2, <1>3, <1>4, LinumTouchStep

LEMMA LinumTouchAnswered ==
    ASSUME LinumTouchIInv,
           \/ LinumTouch!ReadPanel \/ LinumTouch!ReadEnd
           \/ LinumTouch!PollHigh \/ LinumTouch!PollLow
           \/ LinumTouch!PollPanel
    PROVE  LinumTouchIInv'
<1>1. CASE LinumTouch!ReadPanel
  <2>1. CASE LinumTouch!Goto("release")
    BY <1>1, <2>1, LinumTouchWalks DEF LinumTouch!ReadPanel
  <2>2. ASSUME NEW rc \in {"i2c", "esrch"}, LinumTouch!Reply(rc, 0)
        PROVE  LinumTouchIInv'
    <3>1. rc \in LinumTouchRcs
      BY DEF LinumTouchRcs
    <3> QED  BY <1>1, <2>2, <3>1, LinumTouchAnswer DEF LinumTouch!ReadPanel
  <2> QED  BY <1>1, <2>1, <2>2 DEF LinumTouch!ReadPanel
<1>2. CASE LinumTouch!ReadEnd
  <2>1. "ok" \in LinumTouchRcs
    BY DEF LinumTouchRcs
  <2> QED  BY <1>2, <2>1, LinumTouchAnswer DEF LinumTouch!ReadEnd
<1>3. CASE LinumTouch!PollHigh
  <2>1. "released" \in LinumTouchRcs
    BY DEF LinumTouchRcs
  <2> QED  BY <1>3, <2>1, LinumTouchAnswer DEF LinumTouch!PollHigh
<1>4. CASE LinumTouch!PollLow
  BY <1>4, LinumTouchWalks DEF LinumTouch!PollLow
<1>5. CASE LinumTouch!PollPanel
  <2>1. PICK rc \in LinumTouchRcs :
           /\ LinumTouch!Reply(rc, 0)
           /\ \/ hw' = hw
              \/ hw' = [hw EXCEPT !.line = LinumTouch!ExtiAck(hw.line)]
    BY <1>5 DEF LinumTouch!PollPanel, LinumTouchRcs
  <2> QED  BY <1>5, <2>1, LinumTouchAnswer DEF LinumTouch!PollPanel
<1> QED  BY <1>1, <1>2, <1>3, <1>4, <1>5

(* The panel: a step of the outside that spends no more than it brings.    *)
LEMMA LinumTouchPanel ==
    ASSUME LinumTouchIInv, UNCHANGED <<usr, srv, hist>>,
           hw' \in LinumTouchUnit, LinumTouchSpent', LinumTouchAwake'
    PROVE  LinumTouchIInv'
<1>1. LinumTouchWork'
  BY DEF LinumTouchIInv, LinumTouchWork
<1> QED  BY <1>1, LinumTouchOutside

LEMMA LinumTouchTouch ==
    ASSUME LinumTouchIInv, LinumTouch!Touch PROVE LinumTouchIInv'
<1>0. LinumTouchTyped
  BY DEF LinumTouchIInv
<1>1. PICK latches \in BOOLEAN :
         /\ UNCHANGED <<usr, srv, hist>> /\ hw.touches < MaxTouches
         /\ hw' = [hw EXCEPT !.low = TRUE, !.touches = @ + 1,
                        !.line = IF latches
                                 THEN LinumTouch!Latched(@, "edge") ELSE @]
  BY DEF LinumTouch!Touch
<1> DEFINE l == IF latches THEN LinumTouch!Latched(hw.line, "edge")
                ELSE hw.line
           n == hw.touches + 1
           h == [hw EXCEPT !.low = TRUE]
           g == [h EXCEPT !.touches = n]
<1>2. hw' = [g EXCEPT !.line = l]
  BY <1>1
<1>3. /\ l \in LinumTouchLines /\ l.ena = hw.line.ena
      /\ (l.masked <=> hw.line.masked) /\ (l.bit <=> hw.line.bit)
  BY <1>0, LinumTouchLineIs DEF LinumTouchLines, LinumTouch!LineType
<1>4. n \in 0 .. MaxTouches
  BY <1>0, <1>1, ServersAssumption DEF LinumTouchTyped, LinumTouchUnit
<1>5. h \in LinumTouchUnit /\ (h.open <=> hw.open)
  BY <1>0 DEF LinumTouchTyped, LinumTouchUnit
<1> HIDE DEF l, h
<1>6. g \in LinumTouchUnit /\ g.touches = n /\ (g.open <=> hw.open)
  <2> HIDE DEF n
  <2> QED  BY <1>4, <1>5 DEF LinumTouchUnit
<1> HIDE DEF g
<1>7. /\ hw' \in LinumTouchUnit /\ hw'.touches = n /\ hw'.line = l
      /\ (hw'.open <=> hw.open)
  BY <1>2, <1>3, <1>6 DEF LinumTouchUnit
<1>8. LinumTouchSpent' /\ LinumTouchAwake'
  BY <1>0, <1>1, <1>3, <1>7, LinumTouchLineIs
     DEF LinumTouchIInv, LinumTouchWork, LinumTouchSpent, LinumTouchAwake
<1> QED  BY <1>1, <1>7, <1>8, LinumTouchPanel

LEMMA LinumTouchUntouch ==
    ASSUME LinumTouchIInv, LinumTouch!Untouch PROVE LinumTouchIInv'
<1>0. LinumTouchTyped
  BY DEF LinumTouchIInv
<1>1. UNCHANGED <<usr, srv, hist>> /\ hw' = [hw EXCEPT !.low = FALSE]
  BY DEF LinumTouch!Untouch
<1>2. /\ hw' \in LinumTouchUnit /\ hw'.touches = hw.touches
      /\ hw'.line = hw.line /\ (hw'.open <=> hw.open)
  BY <1>0, <1>1 DEF LinumTouchTyped, LinumTouchUnit
<1>3. LinumTouchSpent' /\ LinumTouchAwake'
  BY <1>0, <1>1, <1>2, LinumTouchLineIs
     DEF LinumTouchIInv, LinumTouchWork, LinumTouchSpent, LinumTouchAwake
<1> QED  BY <1>1, <1>2, <1>3, LinumTouchPanel

LEMMA LinumTouchInterrupt ==
    ASSUME LinumTouchIInv, LinumTouch!Interrupt PROVE LinumTouchIInv'
<1> DEFINE l == LinumTouch!Delivered(hw.line)
<1>0. LinumTouchTyped
  BY DEF LinumTouchIInv
<1>1. /\ UNCHANGED <<usr, srv, hist>> /\ hw' = [hw EXCEPT !.line = l]
      /\ hw.line.raw # {} /\ ~hw.line.masked
  BY DEF LinumTouch!Interrupt
<1>2. /\ l \in LinumTouchLines /\ l.ena = hw.line.ena /\ l.masked /\ l.bit
      /\ "edge" \in hw.line.raw
  BY <1>0, <1>1, LinumTouchLineIs
     DEF LinumTouchLines, LinumTouch!LineType
<1> HIDE DEF l
<1>3. /\ hw' \in LinumTouchUnit /\ hw'.line = l
      /\ hw'.touches = hw.touches /\ (hw'.open <=> hw.open)
  BY <1>0, <1>1, <1>2, LinumTouchLine
<1>4. LinumTouchSpent' /\ LinumTouchAwake'
  BY <1>0, <1>1, <1>2, <1>3, LinumTouchLineIs
     DEF LinumTouchIInv, LinumTouchWork, LinumTouchSpent, LinumTouchAwake
<1> QED  BY <1>1, <1>3, <1>4, LinumTouchPanel

LEMMA LinumTouchNext ==
    ASSUME LinumTouchIInv, LinumTouch!Next PROVE LinumTouchIInv'
BY LinumTouchRequest, LinumTouchReceive, LinumTouchWaitAck,
   LinumTouchWaitUnmask, LinumTouchWoken, LinumTouchTimesOut,
   LinumTouchWaitEndAck, LinumTouchWaitEndMask, LinumTouchAnswered,
   LinumTouchTouch, LinumTouchUntouch, LinumTouchInterrupt
   DEF LinumTouch!Next, LinumTouch!Proceed

LEMMA LinumTouchStutter ==
    ASSUME LinumTouchIInv, UNCHANGED <<usr, srv, hw, hist>>
    PROVE  LinumTouchIInv'
BY DEF LinumTouchIInv, LinumTouchTyped, LinumTouch!Call, LinumTouchWork,
       LinumTouchSpent, LinumTouchAwake

LEMMA LinumTouchSafe ==
    LinumTouchIInv =>
        LinumTouch!TypeOK /\ LinumTouch!OkIsTrue /\ LinumTouch!Traced
<1> SUFFICES ASSUME LinumTouchIInv
             PROVE  /\ LinumTouch!TypeOK /\ LinumTouch!OkIsTrue
                    /\ LinumTouch!Traced
  OBVIOUS
<1>0. LinumTouchTyped
  BY DEF LinumTouchIInv
<1>1. LinumTouchUsers =
         LinumTouch!UserType({"wait", "wait for ever", "read", "poll"},
                             {"ok", "etimeout", "i2c", "esrch", "released",
                              "pressed"})
  BY DEF LinumTouchUsers, LinumTouchUser, UserRec, LinumTouchRcs,
     LinumTouchCalls, LinumTouch!UserType
<1>2. hist \in [woken : 0 .. Few]
  <2>1. hist.woken \in 0 .. Few
    BY TallyBound, ServersAssumption DEF LinumTouchIInv, LinumTouchWork
  <2> QED  BY <1>0, <2>1 DEF LinumTouchTyped, LinumTouchHist
<1>3. LinumTouch!TypeOK
  BY <1>0, <1>1, <1>2
     DEF LinumTouchTyped, LinumTouchServer, LinumTouchUnit,
         LinumTouchLines, LinumTouch!TypeOK
<1>4. LinumTouch!OkIsTrue
  BY <1>0, LinumTouchLineIs
     DEF LinumTouchIInv, LinumTouchWork, LinumTouchSpent,
         LinumTouch!OkIsTrue
<1>5. LinumTouch!Traced
  BY DEF LinumTouchIInv, LinumTouchWork, LinumTouchAwake, LinumTouch!Traced
<1> QED  BY <1>3, <1>4, <1>5

(* LinumTouchKeeps.  The touch server of the Linum board: no touch is      *)
(* reported twice, and the interrupt is not left masked under a server     *)
(* that sleeps.                                                            *)
THEOREM LinumTouchKeeps ==
    LinumTouch!Spec =>
       [](LinumTouch!TypeOK /\ LinumTouch!OkIsTrue /\ LinumTouch!Traced)
<1>1. LinumTouch!Init => LinumTouchIInv
  BY LinumTouchInit
<1>2. LinumTouchIInv /\ [LinumTouch!Next]_LinumTouch!vars => LinumTouchIInv'
  BY LinumTouchNext, LinumTouchStutter DEF LinumTouch!vars
<1>3. LinumTouchIInv =>
         LinumTouch!TypeOK /\ LinumTouch!OkIsTrue /\ LinumTouch!Traced
  BY LinumTouchSafe
<1> QED  BY <1>1, <1>2, <1>3, PTL DEF LinumTouch!Spec

HIDE DEF LinumTouch!None, LinumTouch!Ids, LinumTouch!Own, LinumTouch!Call,
         LinumTouch!Goto, LinumTouch!Resting, LinumTouch!ServerType,
         LinumTouch!Acked, LinumTouch!Taken, LinumTouch!Delivered,
         LinumTouch!Latched, LinumTouch!Cleared, LinumTouch!Due,
         LinumTouch!ExtiAck, LinumTouch!Raises

-----------------------------------------------------------------------------
(* The I2C server of the TC275 board.                                      *)

USE DEF TcI2c!None, TcI2c!Ids, TcI2c!Own, TcI2c!Call, TcI2c!Goto, TcI2c!Enter,
        TcI2c!Resting, TcI2c!ServerType, TcI2c!Acked, TcI2c!Taken,
        TcI2c!Delivered, TcI2c!Latched, TcI2c!Cleared

TcI2cCalls  == {"probe", "write", "read"}
TcI2cRcs    == {"ok", "esrch", "eperm", "edeadlk"}
TcI2cUser   == UserRec(TcI2cCalls, TcI2cRcs, Few)
TcI2cUsers  == [Single -> TcI2cUser]
TcI2cServer == TcI2c!ServerType(TcI2c!Places, TcI2c!Events, 3)
TcI2cLines  == TcI2c!LineType(TcI2c!Events)
TcI2cUnit   == [line : TcI2cLines, srr : BOOLEAN, drops : BOOLEAN,
                run : 0 .. Few, final : BOOLEAN, busy : BOOLEAN,
                ending : BOOLEAN, good : 0 .. Few]
TcI2cHist   == [polled : BOOLEAN, early : SUBSET (0 .. Few),
                lost : SUBSET (0 .. Few)]

TcI2cTyped ==
    /\ usr \in TcI2cUsers /\ srv \in TcI2cServer
    /\ hw \in TcI2cUnit /\ hist \in TcI2cHist
    /\ \A u \in Single : usr[u].at # "idle" => usr[u].n # 0
    /\ srv.at # "recv" => TcI2c!Call \in TcI2cCalls

(* A packet or a requested end keeps the bus busy; a request goes on only  *)
(* when the bus is free.                                                   *)
TcI2cBus ==
    /\ hw.run # 0 \/ hw.ending => hw.busy
    /\ srv.at = "bus?" => srv.left = 3
    /\ srv.at = "idle?" => srv.left \in {0, 3}
    /\ srv.at = "clear" => ~hw.busy
    /\ srv.at = "put" =>
          /\ srv.left \in {1, 2}
          /\ srv.left = 2 => ~hw.busy /\ hw.line.raw = {}

TcI2cWaits == {"poll", "open", "wait"}
TcI2cLast  == TcI2c!Call # "write" \/ srv.left = 1

(* A request none of whose waits was woken early: the events are those of  *)
(* the packet that it waits for.                                           *)
TcI2cPacket ==
    /\ srv.at = "put" /\ srv.left = 1 =>
          /\ hw.run = 0 /\ ~hw.ending /\ hw.line.raw = {}
          /\ TcI2c!Call # "probe"
    /\ srv.at \in TcI2cWaits \cup {"test"} /\ srv.left \in {1, 2} =>
          /\ ~hw.ending /\ (srv.left = 1 => TcI2c!Call # "probe")
          /\ hw.run # 0 =>
                /\ hw.run = TcI2c!Own /\ hw.line.raw = {}
                /\ hw.final <=> TcI2cLast
          /\ "end" \in hw.line.raw /\ TcI2cLast
                /\ "nack" \notin hw.line.raw /\ "lost" \notin hw.line.raw =>
                hw.good = TcI2c!Own
    /\ srv.at = "test" /\ srv.left \in {1, 2} => hw.line.raw # {}
    /\ srv.at \in TcI2cWaits \cup {"test", "idle?"} /\ srv.left = 0 =>
          /\ hw.run = 0
          /\ "nack" \notin srv.raw /\ "lost" \notin srv.raw /\ ~srv.late =>
                hw.good = TcI2c!Own

(* Until a wait finds its event by polling, every notification has its     *)
(* event, and a wait takes it.                                             *)
TcI2cClean ==
    /\ hist.early = {}
    /\ hw.line.bit \/ hw.srr =>
          /\ srv.at \in TcI2cWaits /\ hw.line.raw # {}
          /\ hw.run = 0 /\ ~hw.ending
    /\ ~(hw.line.bit /\ hw.srr)
    /\ srv.at \notin TcI2cWaits => hw.run = 0 /\ ~hw.ending
    /\ srv.at \in {"recv", "bus?", "bus??"}
          \/ (srv.at = "idle?" /\ srv.left = 3) =>
          (hw.busy => hw.line.raw = {})
    /\ srv.at = "test" => hw.line.raw # {}

TcI2cWork ==
    /\ TcI2cBus
    /\ TcI2c!Own \notin hist.early \cup hist.lost => TcI2cPacket
    /\ ~hist.polled => TcI2cClean

TcI2cAnswers == TcI2c!OkIsTrue

TcI2cIInv == TcI2cTyped /\ TcI2cWork /\ TcI2cAnswers

LEMMA TcI2cServes ==
    ASSUME TcI2cTyped
    PROVE  /\ srv.user \in Single /\ TcI2c!Own \in 0 .. Few
           /\ srv.at # "recv" => TcI2c!Own # 0
<1>1. srv.user \in Single /\ usr \in [Single -> TcI2cUser]
  BY DEF TcI2cTyped, TcI2cServer, TcI2cUsers
<1>2. TcI2c!Own \in 0 .. Few
  BY <1>1 DEF TcI2cUser, UserRec
<1>3. srv.at # "recv" => TcI2c!Call # "idle"
  BY DEF TcI2cTyped, TcI2cCalls
<1> QED  BY <1>1, <1>2, <1>3 DEF TcI2cTyped

LEMMA TcI2cBegins ==
    ASSUME usr = TcI2c!IdleUsers,
           srv = TcI2c!Resting(CHOOSE u \in Single : TRUE)
    PROVE  /\ usr \in TcI2cUsers /\ srv \in TcI2cServer /\ srv.at = "recv"
           /\ \A u \in Single : usr[u].at = "idle" /\ usr[u].rc = ""
<1>1. [at |-> "idle", n |-> 0, rc |-> "", val |-> 0] \in TcI2cUser
  BY ServersAssumption DEF TcI2cUser, UserRec
<1>2. /\ usr \in TcI2cUsers
      /\ \A u \in Single : usr[u].at = "idle" /\ usr[u].rc = ""
  BY <1>1 DEF TcI2c!IdleUsers, TcI2cUsers
<1>3. (CHOOSE u \in Single : TRUE) \in Single
  BY ServersAssumption
<1>4. srv \in TcI2cServer /\ srv.at = "recv"
  BY <1>3, ServersAssumption DEF TcI2cServer
<1> QED  BY <1>2, <1>4

LEMMA TcI2cAsked ==
    ASSUME TcI2cTyped, NEW u \in Single, NEW call \in TcI2cCalls,
           TcI2c!Ask(u, call)
    PROVE  /\ TcI2cTyped' /\ UNCHANGED <<srv, hw, hist>>
           /\ usr'[u].rc = "" /\ usr'[u].at = call
           /\ \A v \in Single : v # u => usr'[v] = usr[v]
           /\ srv.at # "recv" =>
                 TcI2c!Own' = TcI2c!Own /\ TcI2c!Call' = TcI2c!Call
<1>1. PICK n \in 1 .. Few :
         usr' = [usr EXCEPT ![u] = [at |-> call, n |-> n, rc |-> "",
                                    val |-> 0]]
  BY DEF TcI2c!Ask
<1>2. usr[u].at = "idle" /\ UNCHANGED <<srv, hw, hist>>
  BY DEF TcI2c!Ask
<1>3. [at |-> call, n |-> n, rc |-> "", val |-> 0] \in TcI2cUser
  BY AskRec, ServersAssumption DEF TcI2cUser
<1>4. /\ usr' \in TcI2cUsers
      /\ usr'[u].at = call /\ usr'[u].n = n /\ usr'[u].rc = ""
      /\ \A v \in Single : v # u => usr'[v] = usr[v]
  BY <1>1, <1>3 DEF TcI2cTyped, TcI2cUsers
<1>5. srv.at # "recv" => srv.user # u /\ srv.user \in Single
  BY <1>2, TcI2cServes DEF TcI2cTyped, TcI2cCalls
<1>6. n # 0
  OBVIOUS
<1>7. \A v \in Single : usr'[v].at # "idle" => usr'[v].n # 0
  BY <1>4, <1>6 DEF TcI2cTyped
<1>8. srv.at # "recv" => TcI2c!Own' = TcI2c!Own /\ TcI2c!Call' = TcI2c!Call
  BY <1>2, <1>4, <1>5
<1> QED  BY <1>2, <1>4, <1>7, <1>8 DEF TcI2cTyped

LEMMA TcI2cReceived ==
    ASSUME TcI2cTyped, NEW u \in Single, usr[u].at \in TcI2cCalls,
           NEW next \in TcI2c!Places, NEW left \in 0 .. 3,
           srv' = [at |-> next, user |-> u, late |-> FALSE, raw |-> {},
                   left |-> left],
           UNCHANGED <<usr, hw, hist>>
    PROVE  /\ TcI2cTyped' /\ srv'.at = next /\ srv'.user = u
           /\ srv'.late = FALSE /\ srv'.raw = {} /\ srv'.left = left
<1>1. srv' \in TcI2cServer /\ srv'.at = next /\ srv'.user = u
  BY DEF TcI2cServer
<1> QED  BY <1>1 DEF TcI2cTyped

LEMMA TcI2cGoes ==
    ASSUME TcI2cTyped, NEW next \in TcI2c!Places,
           srv' = [srv EXCEPT !.at = next]
    PROVE  /\ srv' \in TcI2cServer /\ srv'.at = next
           /\ UNCHANGED <<srv.user, srv.raw, srv.left>>
           /\ (srv'.late <=> srv.late)
BY DEF TcI2cTyped, TcI2cServer

LEMMA TcI2cReplied ==
    ASSUME TcI2cTyped, NEW rc \in TcI2cRcs, NEW val \in 0 .. Few,
           TcI2c!Reply(rc, val), hw' \in TcI2cUnit, hist' \in TcI2cHist
    PROVE  /\ TcI2cTyped' /\ srv'.at = "recv" /\ srv'.user = srv.user
           /\ usr'[srv.user].at = "idle" /\ usr'[srv.user].rc = rc
           /\ usr'[srv.user].n = usr[srv.user].n /\ usr'[srv.user].val = val
           /\ \A v \in Single : v # srv.user => usr'[v] = usr[v]
<1> DEFINE x == [[[usr[srv.user] EXCEPT !.at = "idle"] EXCEPT !.rc = rc]
                    EXCEPT !.val = val]
<1>1. srv.user \in Single /\ usr \in [Single -> TcI2cUser]
  BY TcI2cServes DEF TcI2cTyped, TcI2cUsers
<1>2. /\ x \in TcI2cUser
      /\ x.at = "idle" /\ x.n = usr[srv.user].n /\ x.rc = rc /\ x.val = val
  <2>1. usr[srv.user] \in TcI2cUser
    BY <1>1
  <2> QED  BY <2>1, ServersAssumption DEF TcI2cUser, UserRec
<1>3. /\ usr' \in TcI2cUsers /\ usr'[srv.user] = x
      /\ \A v \in Single : v # srv.user => usr'[v] = usr[v]
  BY <1>1, <1>2, Thrice DEF TcI2c!Reply, TcI2cUsers
<1>4. srv' \in TcI2cServer /\ srv'.at = "recv" /\ srv'.user = srv.user
  BY <1>1 DEF TcI2c!Reply, TcI2cServer
<1> HIDE DEF x
<1>5. \A v \in Single : usr'[v].at # "idle" => usr'[v].n # 0
  BY <1>2, <1>3 DEF TcI2cTyped
<1> QED  BY <1>2, <1>3, <1>4, <1>5 DEF TcI2cTyped

(* A step that leaves the users alone.                                     *)
LEMMA TcI2cQuiet ==
    ASSUME TcI2cIInv, UNCHANGED usr, srv' \in TcI2cServer, srv'.at # "recv",
           srv'.user = srv.user, srv.at # "recv",
           hw' \in TcI2cUnit, hist' \in TcI2cHist, TcI2cWork',
           UNCHANGED hist \/ TcI2cAnswers'
    PROVE  TcI2cIInv'
BY DEF TcI2cIInv, TcI2cTyped, TcI2cAnswers, TcI2c!OkIsTrue

(* A step of the peripheral.                                               *)
LEMMA TcI2cOutside ==
    ASSUME TcI2cIInv, UNCHANGED <<usr, srv, hist>>, hw' \in TcI2cUnit,
           TcI2cWork'
    PROVE  TcI2cIInv'
BY DEF TcI2cIInv, TcI2cTyped, TcI2cAnswers, TcI2c!OkIsTrue

LEMMA TcI2cInit == ASSUME TcI2c!Init PROVE TcI2cIInv
<1>1. /\ usr = TcI2c!IdleUsers
      /\ hist = [polled |-> FALSE, early |-> {}, lost |-> {}]
      /\ srv = TcI2c!Resting(CHOOSE u \in Single : TRUE)
  BY DEF TcI2c!Init
<1>2. PICK drops \in BOOLEAN :
         hw = [line |-> TcI2c!Line({}), srr |-> FALSE, drops |-> drops,
               run |-> 0, final |-> FALSE, busy |-> FALSE,
               ending |-> FALSE, good |-> 0]
  BY DEF TcI2c!Init
<1>3. /\ TcI2c!Line({}) \in TcI2cLines /\ ~TcI2c!Line({}).bit
      /\ TcI2c!Line({}).raw = {}
  BY DEF TcI2c!Line, TcI2cLines, TcI2c!LineType
<1>4. /\ hw \in TcI2cUnit /\ hw.run = 0 /\ ~hw.ending /\ ~hw.srr /\ ~hw.busy
      /\ ~hw.line.bit
  BY <1>2, <1>3, ServersAssumption DEF TcI2cUnit
<1>5. hist \in TcI2cHist /\ hist.early = {}
  BY <1>1 DEF TcI2cHist
<1>6. /\ usr \in TcI2cUsers /\ srv \in TcI2cServer /\ srv.at = "recv"
      /\ \A u \in Single : usr[u].at = "idle" /\ usr[u].rc = ""
  BY <1>1, TcI2cBegins
<1>7. TcI2cWork
  BY <1>4, <1>5, <1>6
     DEF TcI2cWork, TcI2cBus, TcI2cPacket, TcI2cClean, TcI2cWaits
<1> QED
  BY <1>4, <1>5, <1>6, <1>7
     DEF TcI2cIInv, TcI2cTyped, TcI2cAnswers, TcI2c!OkIsTrue

LEMMA TcI2cRequest ==
    ASSUME TcI2cIInv, NEW u \in Single, TcI2c!Request(u) PROVE TcI2cIInv'
<1>1. PICK call \in TcI2cCalls : TcI2c!Ask(u, call)
  BY DEF TcI2c!Request, TcI2cCalls
<1>2. /\ TcI2cTyped' /\ UNCHANGED <<srv, hw, hist>>
      /\ usr'[u].rc = "" /\ \A v \in Single : v # u => usr'[v] = usr[v]
      /\ srv.at # "recv" =>
            TcI2c!Own' = TcI2c!Own /\ TcI2c!Call' = TcI2c!Call
  BY <1>1, TcI2cAsked DEF TcI2cIInv
<1>3. TcI2cWork'
  <2>1. CASE srv.at = "recv"
    BY <1>2, <2>1
       DEF TcI2cIInv, TcI2cWork, TcI2cBus, TcI2cPacket, TcI2cClean, TcI2cWaits
  <2>2. CASE srv.at # "recv"
    <3>1. TcI2cBus' /\ (~hist.polled => TcI2cClean')
      BY <1>2 DEF TcI2cIInv, TcI2cWork, TcI2cBus, TcI2cClean, TcI2cWaits
    <3>2. /\ (TcI2cLast <=> TcI2cLast') /\ TcI2c!Own' = TcI2c!Own
          /\ TcI2c!Call' = TcI2c!Call
      BY <1>2, <2>2 DEF TcI2cLast
    <3> HIDE DEF TcI2c!Own, TcI2c!Call
    <3>3. TcI2c!Own \notin hist.early \cup hist.lost => TcI2cPacket'
      BY <1>2, <3>2 DEF TcI2cIInv, TcI2cWork, TcI2cPacket, TcI2cWaits
    <3> QED  BY <1>2, <3>1, <3>2, <3>3 DEF TcI2cWork
  <2> QED  BY <2>1, <2>2
<1>4. TcI2cAnswers'
  BY <1>2 DEF TcI2cIInv, TcI2cAnswers, TcI2c!OkIsTrue
<1> QED  BY <1>2, <1>3, <1>4 DEF TcI2cIInv

LEMMA TcI2cReceive ==
    ASSUME TcI2cIInv, NEW u \in Single, TcI2c!Receive(u) PROVE TcI2cIInv'
<1>1. /\ srv.at = "recv" /\ usr[u].at \in TcI2cCalls
      /\ UNCHANGED <<usr, hw, hist>>
  BY DEF TcI2c!Receive, TcI2cCalls
<1>2. srv' = [at |-> "bus?", user |-> u, late |-> FALSE, raw |-> {},
              left |-> 3]
  BY DEF TcI2c!Receive
<1>3. "bus?" \in TcI2c!Places /\ 3 \in 0 .. 3
  BY DEF TcI2c!Places
<1>4. TcI2cTyped' /\ srv'.at = "bus?" /\ srv'.left = 3
  BY <1>1, <1>2, <1>3, TcI2cReceived DEF TcI2cIInv
<1>5. TcI2cWork'
  BY <1>1, <1>4
     DEF TcI2cIInv, TcI2cWork, TcI2cBus, TcI2cPacket, TcI2cClean, TcI2cWaits
<1>6. TcI2cAnswers'
  BY <1>1 DEF TcI2cIInv, TcI2cAnswers, TcI2c!OkIsTrue
<1> QED  BY <1>4, <1>5, <1>6 DEF TcI2cIInv

LEMMA TcI2cLineIs ==
    ASSUME TcI2cTyped
    PROVE  hw.line \in TcI2cLines /\ hw.line.raw \subseteq TcI2c!Events
BY DEF TcI2cTyped, TcI2cUnit, TcI2cLines, TcI2c!LineType

(* The line set to another.                                                *)
LEMMA TcI2cLine ==
    ASSUME TcI2cTyped, NEW l \in TcI2cLines, hw' = [hw EXCEPT !.line = l]
    PROVE  /\ hw' \in TcI2cUnit /\ hw'.line = l
           /\ UNCHANGED <<hw.run, hw.good>>
           /\ (hw'.srr <=> hw.srr) /\ (hw'.final <=> hw.final)
           /\ (hw'.busy <=> hw.busy) /\ (hw'.ending <=> hw.ending)
BY DEF TcI2cTyped, TcI2cUnit

(* The acknowledgement drops the service request, or does not.             *)
LEMMA TcI2cAcks ==
    ASSUME TcI2cTyped, NEW l \in TcI2cLines,
           hw' = TcI2c!AckRequest([hw EXCEPT !.line = l])
    PROVE  /\ hw' \in TcI2cUnit /\ hw'.line.raw = l.raw
           /\ (hw'.line.bit <=> l.bit) /\ (hw'.srr => hw.srr)
           /\ UNCHANGED <<hw.run, hw.good>>
           /\ (hw'.final <=> hw.final)
           /\ (hw'.busy <=> hw.busy) /\ (hw'.ending <=> hw.ending)
<1> DEFINE k == TcI2c!Acked(l)
           h == [hw EXCEPT !.line = k]
           s == hw.srr /\ ~hw.drops
<1>1. k \in TcI2cLines /\ k.raw = l.raw /\ (k.bit <=> l.bit)
  BY DEF TcI2cLines, TcI2c!LineType
<1>2. hw' = [h EXCEPT !.srr = s]
  BY DEF TcI2c!AckRequest, TcI2cTyped, TcI2cUnit
<1> HIDE DEF k
<1>3. /\ h \in TcI2cUnit /\ h.line = k /\ h.run = hw.run /\ h.good = hw.good
      /\ (h.final <=> hw.final)
      /\ (h.busy <=> hw.busy) /\ (h.ending <=> hw.ending)
  BY <1>1 DEF TcI2cTyped, TcI2cUnit
<1>4. s \in BOOLEAN /\ (s => hw.srr)
  OBVIOUS
<1> HIDE DEF h, s
<1> QED  BY <1>1, <1>2, <1>3, <1>4 DEF TcI2cUnit

LEMMA TcI2cAcksOnly ==
    ASSUME TcI2cTyped, hw' = TcI2c!AckRequest(hw)
    PROVE  /\ hw' \in TcI2cUnit /\ hw'.line.raw = hw.line.raw
           /\ (hw'.line.bit <=> hw.line.bit) /\ (hw'.srr => hw.srr)
           /\ UNCHANGED <<hw.run, hw.good>>
           /\ (hw'.final <=> hw.final)
           /\ (hw'.busy <=> hw.busy) /\ (hw'.ending <=> hw.ending)
<1>1. hw = [hw EXCEPT !.line = hw.line]
  BY DEF TcI2cTyped, TcI2cUnit
<1>2. hw' = TcI2c!AckRequest([hw EXCEPT !.line = hw.line])
  BY <1>1
<1>3. hw.line \in TcI2cLines
  BY TcI2cLineIs
<1> QED  BY <1>2, <1>3, TcI2cAcks

(* An event is latched and requests service.                               *)
LEMMA TcI2cRaises ==
    ASSUME TcI2cTyped, NEW h \in TcI2cUnit, h.line = hw.line,
           NEW e \in TcI2c!Events, hw' = TcI2c!Raised(h, e)
    PROVE  /\ hw' \in TcI2cUnit /\ hw'.line.raw = hw.line.raw \cup {e}
           /\ (hw'.line.bit <=> hw.line.bit) /\ hw'.srr
           /\ hw'.run = h.run /\ hw'.good = h.good
           /\ (hw'.final <=> h.final)
           /\ (hw'.busy <=> h.busy) /\ (hw'.ending <=> h.ending)
<1> DEFINE k == TcI2c!Latched(hw.line, e)
           g == [h EXCEPT !.line = k]
<1>1. /\ k \in TcI2cLines /\ k.raw = hw.line.raw \cup {e}
      /\ (k.bit <=> hw.line.bit)
  BY TcI2cLineIs DEF TcI2cLines, TcI2c!LineType
<1>2. hw' = [g EXCEPT !.srr = TRUE]
  BY DEF TcI2c!Raised, TcI2cUnit
<1> HIDE DEF k
<1>3. /\ g \in TcI2cUnit /\ g.line = k /\ g.run = h.run /\ g.good = h.good
      /\ (g.final <=> h.final)
      /\ (g.busy <=> h.busy) /\ (g.ending <=> h.ending)
  BY <1>1 DEF TcI2cUnit
<1> HIDE DEF g
<1> QED  BY <1>1, <1>2, <1>3 DEF TcI2cUnit

LEMMA TcI2cClears ==
    ASSUME TcI2cTyped, NEW E \in SUBSET TcI2c!Events,
           hw' = [hw EXCEPT !.line = TcI2c!Cleared(hw.line, E)]
    PROVE  /\ hw' \in TcI2cUnit /\ hw'.line.raw = hw.line.raw \ E
           /\ (hw'.line.bit <=> hw.line.bit)
           /\ UNCHANGED <<hw.run, hw.good>>
           /\ (hw'.srr <=> hw.srr) /\ (hw'.final <=> hw.final)
           /\ (hw'.busy <=> hw.busy) /\ (hw'.ending <=> hw.ending)
<1> DEFINE k == TcI2c!Cleared(hw.line, E)
<1>1. /\ k \in TcI2cLines /\ k.raw = hw.line.raw \ E
      /\ (k.bit <=> hw.line.bit)
  BY TcI2cLineIs DEF TcI2cLines, TcI2c!LineType
<1>2. hw' = [hw EXCEPT !.line = k]
  OBVIOUS
<1> HIDE DEF k
<1> QED  BY <1>1, <1>2, TcI2cLine

(* The server enters a packet, or what follows the last one.               *)
LEMMA TcI2cEnters ==
    ASSUME TcI2cTyped, NEW next \in TcI2c!Places, NEW left \in 0 .. 3,
           TcI2c!Enter(next, left)
    PROVE  /\ srv' \in TcI2cServer /\ srv'.at = next /\ srv'.left = left
           /\ UNCHANGED <<usr, srv.user, srv.raw>>
           /\ (srv'.late <=> srv.late)
<1>1. srv' = [[srv EXCEPT !.at = next] EXCEPT !.left = left]
  OBVIOUS
<1> QED  BY <1>1 DEF TcI2cTyped, TcI2cServer

LEMMA TcI2cBusFree == ASSUME TcI2cIInv, TcI2c!BusFree PROVE TcI2cIInv'
<1>0. TcI2cTyped
  BY DEF TcI2cIInv
<1>1. /\ srv.at = "bus?" /\ ~hw.busy /\ srv' = [srv EXCEPT !.at = "clear"]
      /\ UNCHANGED <<usr, hw, hist>>
  BY DEF TcI2c!BusFree
<1>2. /\ srv' \in TcI2cServer /\ srv'.at = "clear"
      /\ UNCHANGED <<srv.user, srv.raw, srv.left>>
      /\ (srv'.late <=> srv.late)
  BY <1>0, <1>1, TcI2cGoes DEF TcI2c!Places
<1>3. TcI2cWork'
  BY <1>0, <1>1, <1>2
     DEF TcI2cIInv, TcI2cTyped, TcI2cWork, TcI2cBus, TcI2cPacket, TcI2cClean,
         TcI2cWaits, TcI2cLast
<1> QED  BY <1>0, <1>1, <1>2, <1>3, TcI2cQuiet DEF TcI2cTyped

LEMMA TcI2cBusBusy == ASSUME TcI2cIInv, TcI2c!BusBusy PROVE TcI2cIInv'
<1>0. TcI2cTyped
  BY DEF TcI2cIInv
<1>1. /\ srv.at = "bus?" /\ hw.busy /\ srv' = [srv EXCEPT !.at = "idle?"]
      /\ UNCHANGED <<usr, hw, hist>>
  BY DEF TcI2c!BusBusy
<1>2. /\ srv' \in TcI2cServer /\ srv'.at = "idle?"
      /\ UNCHANGED <<srv.user, srv.raw, srv.left>>
      /\ (srv'.late <=> srv.late)
  BY <1>0, <1>1, TcI2cGoes DEF TcI2c!Places
<1>3. TcI2cWork'
  BY <1>0, <1>1, <1>2
     DEF TcI2cIInv, TcI2cTyped, TcI2cWork, TcI2cBus, TcI2cPacket, TcI2cClean,
         TcI2cWaits, TcI2cLast
<1> QED  BY <1>0, <1>1, <1>2, <1>3, TcI2cQuiet DEF TcI2cTyped

LEMMA TcI2cPollsNothing ==
    ASSUME TcI2cIInv, TcI2c!PollsNothing PROVE TcI2cIInv'
<1>0. TcI2cTyped
  BY DEF TcI2cIInv
<1>1. /\ srv.at = "poll" /\ hw.line.raw = {}
      /\ srv' = [srv EXCEPT !.at = "open"]
      /\ UNCHANGED <<usr, hw, hist>>
  BY DEF TcI2c!PollsNothing
<1>2. /\ srv' \in TcI2cServer /\ srv'.at = "open"
      /\ UNCHANGED <<srv.user, srv.raw, srv.left>>
      /\ (srv'.late <=> srv.late)
  BY <1>0, <1>1, TcI2cGoes DEF TcI2c!Places
<1>3. TcI2cWork'
  BY <1>0, <1>1, <1>2
     DEF TcI2cIInv, TcI2cTyped, TcI2cWork, TcI2cBus, TcI2cPacket, TcI2cClean,
         TcI2cWaits, TcI2cLast
<1> QED  BY <1>0, <1>1, <1>2, <1>3, TcI2cQuiet DEF TcI2cTyped

(* The answer.                                                             *)
LEMMA TcI2cReplies ==
    ASSUME TcI2cIInv, srv.at # "recv", NEW rc \in TcI2cRcs,
           TcI2c!Reply(rc, IF rc = "edeadlk" THEN 0 ELSE hw.good),
           UNCHANGED hist, hw' \in TcI2cUnit,
           UNCHANGED hw.run, (hw'.busy <=> hw.busy),
           (hw'.ending <=> hw.ending),
           rc = "ok" => \/ hw.good = TcI2c!Own
                        \/ TcI2c!Own \in hist.early \cup hist.lost,
           ~hist.polled =>
              /\ ~hw'.line.bit /\ ~hw'.srr /\ hw.run = 0 /\ ~hw.ending
              /\ hw'.busy => hw'.line.raw = {}
    PROVE  TcI2cIInv'
<1> DEFINE val == IF rc = "edeadlk" THEN 0 ELSE hw.good
<1>1. val \in 0 .. Few
  <2>1. hw.good \in 0 .. Few
    BY DEF TcI2cIInv, TcI2cTyped, TcI2cUnit
  <2>2. 0 \in 0 .. Few
    BY ServersAssumption
  <2> QED  BY <2>1, <2>2
<1>2. rc = "ok" => val = hw.good
  OBVIOUS
<1>3. hist' \in TcI2cHist
  BY DEF TcI2cIInv, TcI2cTyped
<1> HIDE DEF val
<1>4. /\ TcI2cTyped' /\ srv'.at = "recv"
      /\ usr'[srv.user].rc = rc
      /\ usr'[srv.user].n = TcI2c!Own /\ usr'[srv.user].val = val
      /\ \A v \in Single : v # srv.user => usr'[v] = usr[v]
  BY <1>1, <1>3, TcI2cReplied DEF TcI2cIInv, val
<1>5. TcI2cWork'
  BY <1>4
     DEF TcI2cIInv, TcI2cWork, TcI2cBus, TcI2cPacket, TcI2cClean, TcI2cWaits
<1>6. TcI2cAnswers'
  BY <1>2, <1>4 DEF TcI2cIInv, TcI2cAnswers, TcI2c!OkIsTrue
<1> QED  BY <1>4, <1>5, <1>6 DEF TcI2cIInv

LEMMA TcI2cStillBusy == ASSUME TcI2cIInv, TcI2c!StillBusy PROVE TcI2cIInv'
<1>0. TcI2cTyped
  BY DEF TcI2cIInv
<1>1. srv.at = "bus??" /\ UNCHANGED <<hw, hist>>
  BY DEF TcI2c!StillBusy
<1>2. CASE hw.busy
  <2>1. TcI2c!Reply("edeadlk", 0) /\ "edeadlk" \in TcI2cRcs
    BY <1>2 DEF TcI2c!StillBusy, TcI2cRcs
  <2>2. /\ hw' \in TcI2cUnit
        /\ ~hist.polled =>
              /\ ~hw'.line.bit /\ ~hw'.srr /\ hw.run = 0 /\ ~hw.ending
              /\ hw'.busy => hw'.line.raw = {}
    BY <1>0, <1>1
       DEF TcI2cIInv, TcI2cTyped, TcI2cWork, TcI2cClean, TcI2cWaits
  <2> QED  BY <1>1, <2>1, <2>2, TcI2cReplies
<1>3. CASE ~hw.busy
  <2>1. srv' = [srv EXCEPT !.at = "clear"] /\ UNCHANGED usr
    BY <1>3 DEF TcI2c!StillBusy
  <2>2. /\ srv' \in TcI2cServer /\ srv'.at = "clear"
        /\ UNCHANGED <<srv.user, srv.raw, srv.left>>
    BY <1>0, <2>1, TcI2cGoes DEF TcI2c!Places
  <2>3. TcI2cWork'
    BY <1>1, <1>3, <2>1, <2>2
       DEF TcI2cIInv, TcI2cWork, TcI2cBus, TcI2cPacket, TcI2cClean, TcI2cWaits
  <2> QED  BY <1>0, <1>1, <2>1, <2>2, <2>3, TcI2cQuiet DEF TcI2cTyped
<1> QED  BY <1>2, <1>3

(* The bus has been released, before the request or behind it.             *)
LEMMA TcI2cReturns ==
    ASSUME TcI2cIInv, TcI2c!Return, UNCHANGED hist, hw' \in TcI2cUnit,
           srv.at \in {"idle?", "test"}, srv.left \in {0, 3},
           UNCHANGED hw.run, (hw'.busy <=> hw.busy),
           (hw'.ending <=> hw.ending),
           ~hist.polled =>
              /\ ~hw'.line.bit /\ ~hw'.srr /\ hw.run = 0 /\ ~hw.ending
              /\ hw'.busy => hw'.line.raw = {}
    PROVE  TcI2cIInv'
<1>0. TcI2cTyped
  BY DEF TcI2cIInv
<1>1. CASE srv.left = 3
  <2>1. srv' = [srv EXCEPT !.at = "bus??"] /\ UNCHANGED usr
    BY <1>1 DEF TcI2c!Return
  <2>2. /\ srv' \in TcI2cServer /\ srv'.at = "bus??"
        /\ UNCHANGED <<srv.user, srv.raw, srv.left>>
    BY <1>0, <2>1, TcI2cGoes DEF TcI2c!Places
  <2>3. TcI2cWork'
    BY <2>1, <2>2
       DEF TcI2cIInv, TcI2cWork, TcI2cBus, TcI2cPacket, TcI2cClean, TcI2cWaits
  <2> QED  BY <1>0, <2>1, <2>2, <2>3, TcI2cQuiet DEF TcI2cTyped
<1>2. CASE srv.left = 0
  <2> DEFINE rc == TcI2c!Verdict
  <2>1. TcI2c!Reply(rc, hw.good)
    BY <1>2 DEF TcI2c!Return
  <2>2. /\ rc \in TcI2cRcs /\ rc # "edeadlk"
        /\ rc = "ok" => "nack" \notin srv.raw /\ "lost" \notin srv.raw
                        /\ ~srv.late
    BY DEF TcI2c!Verdict, TcI2cRcs
  <2>3. rc = "ok" => \/ hw.good = TcI2c!Own
                     \/ TcI2c!Own \in hist.early \cup hist.lost
    BY <1>2, <2>2 DEF TcI2cIInv, TcI2cWork, TcI2cPacket
  <2> HIDE DEF rc
  <2>4. hw.good = IF rc = "edeadlk" THEN 0 ELSE hw.good
    BY <2>2
  <2>5. TcI2c!Reply(rc, IF rc = "edeadlk" THEN 0 ELSE hw.good)
    BY <2>1, <2>4
  <2> QED  BY <2>2, <2>3, <2>5, TcI2cReplies
<1> QED  BY <1>1, <1>2

LEMMA TcI2cIdle == ASSUME TcI2cIInv, TcI2c!Idle PROVE TcI2cIInv'
<1>1. /\ srv.at = "idle?" /\ ~hw.busy /\ TcI2c!Return
      /\ UNCHANGED <<hw, hist>>
  BY DEF TcI2c!Idle
<1>2. hw' \in TcI2cUnit /\ srv.left \in {0, 3}
  BY <1>1 DEF TcI2cIInv, TcI2cTyped, TcI2cWork, TcI2cBus
<1>3. ~hist.polled =>
         /\ ~hw'.line.bit /\ ~hw'.srr /\ hw.run = 0 /\ ~hw.ending
         /\ hw'.busy => hw'.line.raw = {}
  BY <1>1 DEF TcI2cIInv, TcI2cWork, TcI2cClean, TcI2cWaits
<1> QED  BY <1>1, <1>2, <1>3, TcI2cReturns

LEMMA TcI2cReleased == ASSUME TcI2cIInv, TcI2c!Released PROVE TcI2cIInv'
<1>1. /\ srv.at = "test" /\ srv.left \in {0, 3} /\ TcI2c!Return
      /\ UNCHANGED hist
      /\ hw' = [hw EXCEPT !.line = TcI2c!Cleared(hw.line, TcI2c!Events)]
  BY DEF TcI2c!Released
<1>2. /\ hw' \in TcI2cUnit /\ hw'.line.raw = {}
      /\ (hw'.line.bit <=> hw.line.bit) /\ (hw'.srr <=> hw.srr)
      /\ UNCHANGED <<hw.run, hw.good>>
      /\ (hw'.busy <=> hw.busy) /\ (hw'.ending <=> hw.ending)
  BY <1>1, TcI2cClears, TcI2cLineIs DEF TcI2cIInv
<1>3. ~hist.polled =>
         /\ ~hw'.line.bit /\ ~hw'.srr /\ hw.run = 0 /\ ~hw.ending
         /\ hw'.busy => hw'.line.raw = {}
  BY <1>1, <1>2 DEF TcI2cIInv, TcI2cWork, TcI2cClean, TcI2cWaits
<1> QED  BY <1>1, <1>2, <1>3, TcI2cReturns

LEMMA TcI2cClearAll == ASSUME TcI2cIInv, TcI2c!ClearAll PROVE TcI2cIInv'
<1>0. TcI2cTyped
  BY DEF TcI2cIInv
<1>1. /\ srv.at = "clear" /\ UNCHANGED hist /\ TcI2c!Enter("put", 2)
      /\ hw' = [hw EXCEPT !.line = TcI2c!Cleared(hw.line, TcI2c!Events)]
  BY DEF TcI2c!ClearAll
<1>2. /\ hw' \in TcI2cUnit /\ hw'.line.raw = {}
      /\ (hw'.line.bit <=> hw.line.bit) /\ (hw'.srr <=> hw.srr)
      /\ UNCHANGED <<hw.run, hw.good>>
      /\ (hw'.busy <=> hw.busy) /\ (hw'.ending <=> hw.ending)
  BY <1>0, <1>1, TcI2cClears, TcI2cLineIs
<1>3. "put" \in TcI2c!Places /\ 2 \in 0 .. 3
  BY DEF TcI2c!Places
<1>4. /\ srv' \in TcI2cServer /\ srv'.at = "put" /\ srv'.left = 2
      /\ UNCHANGED <<usr, srv.user>>
  BY <1>0, <1>1, <1>3, TcI2cEnters
<1>5. TcI2cWork'
  BY <1>1, <1>2, <1>4
     DEF TcI2cIInv, TcI2cWork, TcI2cBus, TcI2cPacket, TcI2cClean, TcI2cWaits
<1> QED  BY <1>0, <1>1, <1>2, <1>4, <1>5, TcI2cQuiet DEF TcI2cTyped

LEMMA TcI2cPut == ASSUME TcI2cIInv, TcI2c!Put PROVE TcI2cIInv'
<1> DEFINE own == TcI2c!Own
           last == TcI2cLast
           h == [hw EXCEPT !.run = own]
           g == [h EXCEPT !.busy = TRUE]
<1>0. TcI2cTyped
  BY DEF TcI2cIInv
<1>1. /\ srv.at = "put" /\ UNCHANGED <<usr, hist>>
      /\ srv' = [srv EXCEPT !.at = "poll"]
      /\ hw' = [g EXCEPT !.final = last]
  BY DEF TcI2c!Put, TcI2cLast
<1>2. own \in 0 .. Few /\ last \in BOOLEAN
  BY <1>0, TcI2cServes DEF TcI2cLast
<1> HIDE DEF own, last
<1>3. /\ h \in TcI2cUnit /\ h.line = hw.line /\ h.run = own
      /\ (h.ending <=> hw.ending) /\ (h.srr <=> hw.srr)
  BY <1>0, <1>2 DEF TcI2cTyped, TcI2cUnit
<1> HIDE DEF h
<1>4. /\ g \in TcI2cUnit /\ g.line = hw.line /\ g.run = own /\ g.busy
      /\ (g.ending <=> hw.ending) /\ (g.srr <=> hw.srr)
  BY <1>3 DEF TcI2cUnit
<1> HIDE DEF g
<1>5. /\ hw' \in TcI2cUnit /\ hw'.line = hw.line /\ hw'.run = own
      /\ hw'.busy /\ (hw'.final <=> last)
      /\ (hw'.ending <=> hw.ending) /\ (hw'.srr <=> hw.srr)
  BY <1>1, <1>2, <1>4 DEF TcI2cUnit
<1>6. /\ srv' \in TcI2cServer /\ srv'.at = "poll"
      /\ UNCHANGED <<srv.user, srv.raw, srv.left>>
  BY <1>0, <1>1, TcI2cGoes DEF TcI2c!Places
<1>7. srv.left \in {1, 2}
  BY <1>1 DEF TcI2cIInv, TcI2cWork, TcI2cBus
<1>8. TcI2cBus' /\ (~hist.polled => TcI2cClean')
  BY <1>1, <1>5, <1>6, <1>7
     DEF TcI2cIInv, TcI2cWork, TcI2cBus, TcI2cClean, TcI2cWaits
<1>9. own = TcI2c!Own' /\ (last <=> TcI2cLast')
  BY <1>1, <1>6 DEF own, last, TcI2cLast
<1>10. TcI2c!Own \notin hist.early \cup hist.lost => TcI2cPacket'
  <2>1. SUFFICES ASSUME TcI2c!Own \notin hist.early \cup hist.lost
                 PROVE  TcI2cPacket'
    OBVIOUS
  <2>2. /\ hw.line.raw = {} /\ ~hw.ending
        /\ srv.left = 1 => TcI2c!Call # "probe"
    BY <1>1, <1>7, <2>1 DEF TcI2cIInv, TcI2cWork, TcI2cBus, TcI2cPacket
  <2> QED  BY <1>1, <1>5, <1>6, <1>7, <1>9, <2>2 DEF TcI2cPacket, TcI2cWaits
<1>11. TcI2cWork'
  BY <1>1, <1>6, <1>8, <1>10 DEF TcI2cWork
<1> QED  BY <1>0, <1>1, <1>5, <1>6, <1>11, TcI2cQuiet DEF TcI2cTyped

LEMMA TcI2cPolled == ASSUME TcI2cIInv, TcI2c!Polled PROVE TcI2cIInv'
<1>0. TcI2cTyped
  BY DEF TcI2cIInv
<1>1. /\ srv.at = "poll" /\ hw.line.raw # {} /\ UNCHANGED usr
      /\ srv' = [srv EXCEPT !.at = "test"] /\ hw' = TcI2c!AckRequest(hw)
      /\ hist' = [hist EXCEPT !.polled = TRUE]
  BY DEF TcI2c!Polled
<1>2. /\ hw' \in TcI2cUnit /\ hw'.line.raw = hw.line.raw
      /\ UNCHANGED <<hw.run, hw.good>>
      /\ (hw'.final <=> hw.final)
      /\ (hw'.busy <=> hw.busy) /\ (hw'.ending <=> hw.ending)
  BY <1>0, <1>1, TcI2cAcksOnly
<1>3. /\ srv' \in TcI2cServer /\ srv'.at = "test"
      /\ UNCHANGED <<srv.user, srv.raw, srv.left>>
      /\ (srv'.late <=> srv.late)
  BY <1>0, <1>1, TcI2cGoes DEF TcI2c!Places
<1>4. /\ hist' \in TcI2cHist /\ hist'.polled
      /\ UNCHANGED <<hist.early, hist.lost>>
  BY <1>0, <1>1 DEF TcI2cTyped, TcI2cHist
<1>5. TcI2cBus' /\ (TcI2c!Own \notin hist.early \cup hist.lost => TcI2cPacket')
  BY <1>0, <1>1, <1>2, <1>3
     DEF TcI2cIInv, TcI2cTyped, TcI2cWork, TcI2cBus, TcI2cPacket, TcI2cWaits,
         TcI2cLast
<1>6. TcI2cWork'
  BY <1>1, <1>3, <1>4, <1>5 DEF TcI2cWork
<1>7. TcI2cAnswers'
  BY <1>1, <1>4 DEF TcI2cIInv, TcI2cAnswers, TcI2c!OkIsTrue
<1> QED  BY <1>0, <1>1, <1>2, <1>3, <1>4, <1>6, <1>7, TcI2cQuiet

LEMMA TcI2cOpen == ASSUME TcI2cIInv, TcI2c!Open PROVE TcI2cIInv'
<1>0. TcI2cTyped
  BY DEF TcI2cIInv
<1>1. /\ srv.at = "open" /\ UNCHANGED <<usr, hist>>
      /\ srv' = [srv EXCEPT !.at = "wait"] /\ hw' = TcI2c!AckRequest(hw)
  BY DEF TcI2c!Open
<1>2. /\ hw' \in TcI2cUnit /\ hw'.line.raw = hw.line.raw
      /\ (hw'.line.bit <=> hw.line.bit) /\ (hw'.srr => hw.srr)
      /\ UNCHANGED <<hw.run, hw.good>>
      /\ (hw'.final <=> hw.final)
      /\ (hw'.busy <=> hw.busy) /\ (hw'.ending <=> hw.ending)
  BY <1>0, <1>1, TcI2cAcksOnly
<1>3. /\ srv' \in TcI2cServer /\ srv'.at = "wait"
      /\ UNCHANGED <<srv.user, srv.raw, srv.left>>
      /\ (srv'.late <=> srv.late)
  BY <1>0, <1>1, TcI2cGoes DEF TcI2c!Places
<1>4. TcI2cWork'
  BY <1>0, <1>1, <1>2, <1>3
     DEF TcI2cIInv, TcI2cTyped, TcI2cWork, TcI2cBus, TcI2cPacket, TcI2cClean,
         TcI2cWaits, TcI2cLast
<1> QED  BY <1>0, <1>1, <1>2, <1>3, <1>4, TcI2cQuiet DEF TcI2cTyped

LEMMA TcI2cWoken == ASSUME TcI2cIInv, TcI2c!Woken PROVE TcI2cIInv'
<1> DEFINE l == TcI2c!Taken(hw.line)
           early == hist.early \cup {TcI2c!Own}
<1>0. TcI2cTyped
  BY DEF TcI2cIInv
<1>1. /\ srv.at = "wait" /\ hw.line.bit /\ UNCHANGED usr
      /\ srv' = [srv EXCEPT !.at = "test"]
      /\ hw' = TcI2c!AckRequest([hw EXCEPT !.line = l])
      /\ hist' = IF hw.line.raw # {} THEN hist
                 ELSE [hist EXCEPT !.early = early]
  BY DEF TcI2c!Woken
<1>2. l \in TcI2cLines /\ l.raw = hw.line.raw /\ ~l.bit
  BY <1>0, TcI2cLineIs DEF TcI2cLines, TcI2c!LineType
<1>3. early \in SUBSET (0 .. Few)
  BY <1>0, TcI2cServes DEF TcI2cTyped, TcI2cHist
<1> HIDE DEF l
<1>4. /\ hw' \in TcI2cUnit /\ hw'.line.raw = hw.line.raw
      /\ ~hw'.line.bit /\ (hw'.srr => hw.srr)
      /\ UNCHANGED <<hw.run, hw.good>>
      /\ (hw'.final <=> hw.final)
      /\ (hw'.busy <=> hw.busy) /\ (hw'.ending <=> hw.ending)
  BY <1>0, <1>1, <1>2, TcI2cAcks
<1>5. /\ srv' \in TcI2cServer /\ srv'.at = "test"
      /\ UNCHANGED <<srv.user, srv.raw, srv.left>>
      /\ (srv'.late <=> srv.late)
  BY <1>0, <1>1, TcI2cGoes DEF TcI2c!Places
<1>6. /\ hist' \in TcI2cHist /\ (hist'.polled <=> hist.polled)
      /\ hist'.lost = hist.lost /\ hist.early \subseteq hist'.early
      /\ hw.line.raw = {} => TcI2c!Own \in hist'.early
      /\ hw.line.raw # {} => hist'.early = hist.early
  <2>1. CASE hw.line.raw # {}
    BY <1>0, <1>1, <2>1 DEF TcI2cTyped
  <2>2. CASE hw.line.raw = {}
    <3>1. hist' = [hist EXCEPT !.early = early]
      BY <1>1, <2>2
    <3>2. TcI2c!Own \in early /\ hist.early \subseteq early
      OBVIOUS
    <3> HIDE DEF early
    <3> QED  BY <1>0, <1>3, <2>2, <3>1, <3>2 DEF TcI2cTyped, TcI2cHist
  <2> QED  BY <2>1, <2>2
<1> HIDE DEF early
<1>7. TcI2cBus'
  BY <1>1, <1>4, <1>5 DEF TcI2cIInv, TcI2cWork, TcI2cBus
<1>8. ~hist.polled => TcI2cClean'
  <2>1. SUFFICES ASSUME ~hist.polled PROVE TcI2cClean'
    OBVIOUS
  <2>2. TcI2cClean /\ hw.line.raw # {}
    BY <1>1, <2>1 DEF TcI2cIInv, TcI2cWork, TcI2cClean
  <2>3. ~hw.srr /\ hw.run = 0 /\ ~hw.ending /\ hist.early = {}
    BY <1>1, <2>2 DEF TcI2cClean
  <2> QED
    BY <1>4, <1>5, <1>6, <2>2, <2>3 DEF TcI2cClean, TcI2cWaits
<1>9. hw.line.raw # {} /\ TcI2c!Own \notin hist.early \cup hist.lost =>
         TcI2cPacket'
  BY <1>0, <1>1, <1>4, <1>5
     DEF TcI2cIInv, TcI2cTyped, TcI2cWork, TcI2cPacket, TcI2cWaits, TcI2cLast
<1>10. TcI2cWork'
  BY <1>1, <1>5, <1>6, <1>7, <1>8, <1>9 DEF TcI2cWork
<1>11. TcI2cAnswers'
  BY <1>1, <1>6 DEF TcI2cIInv, TcI2cAnswers, TcI2c!OkIsTrue
<1> QED  BY <1>0, <1>1, <1>4, <1>5, <1>6, <1>10, <1>11, TcI2cQuiet

LEMMA TcI2cSetEnd == ASSUME TcI2cIInv, TcI2c!SetEnd PROVE TcI2cIInv'
<1>0. TcI2cTyped
  BY DEF TcI2cIInv
<1>1. /\ srv.at = "idle?" /\ hw.busy /\ UNCHANGED <<usr, hist>>
      /\ srv' = [srv EXCEPT !.at = "poll"]
      /\ hw' = [hw EXCEPT !.ending = TRUE]
  BY DEF TcI2c!SetEnd
<1>2. /\ hw' \in TcI2cUnit /\ hw'.ending
      /\ UNCHANGED <<hw.line, hw.run, hw.good>>
      /\ (hw'.srr <=> hw.srr) /\ (hw'.busy <=> hw.busy)
  BY <1>0, <1>1 DEF TcI2cTyped, TcI2cUnit
<1>3. /\ srv' \in TcI2cServer /\ srv'.at = "poll"
      /\ UNCHANGED <<srv.user, srv.raw, srv.left>>
      /\ (srv'.late <=> srv.late)
  BY <1>0, <1>1, TcI2cGoes DEF TcI2c!Places
<1>4. srv.left \in {0, 3}
  BY <1>1 DEF TcI2cIInv, TcI2cWork, TcI2cBus
<1>5. TcI2cWork'
  BY <1>0, <1>1, <1>2, <1>3, <1>4
     DEF TcI2cIInv, TcI2cTyped, TcI2cWork, TcI2cBus, TcI2cPacket, TcI2cClean,
         TcI2cWaits
<1> QED  BY <1>0, <1>1, <1>2, <1>3, <1>5, TcI2cQuiet DEF TcI2cTyped

LEMMA TcI2cRefused == ASSUME TcI2cIInv, TcI2c!Refused PROVE TcI2cIInv'
<1>0. TcI2cTyped
  BY DEF TcI2cIInv
<1>1. /\ srv.at = "test" /\ UNCHANGED <<usr, hist>> /\ srv.left \in {1, 2}
      /\ srv' = [[[srv EXCEPT !.at = "idle?"] EXCEPT !.left = 0]
                    EXCEPT !.raw = hw.line.raw]
      /\ hw' = [hw EXCEPT !.line = TcI2c!Cleared(hw.line, TcI2c!Events)]
  BY DEF TcI2c!Refused
<1>2. "nack" \in hw.line.raw \/ "lost" \in hw.line.raw
  BY DEF TcI2c!Refused, TcI2c!Bad
<1>3. /\ hw' \in TcI2cUnit /\ hw'.line.raw = {}
      /\ (hw'.line.bit <=> hw.line.bit) /\ (hw'.srr <=> hw.srr)
      /\ UNCHANGED <<hw.run, hw.good>>
      /\ (hw'.busy <=> hw.busy) /\ (hw'.ending <=> hw.ending)
  BY <1>0, <1>1, TcI2cClears, TcI2cLineIs
<1>4. /\ srv' \in TcI2cServer /\ srv'.at = "idle?" /\ srv'.left = 0
      /\ srv'.raw = hw.line.raw /\ srv'.user = srv.user
  <2> DEFINE s == [[srv EXCEPT !.at = "idle?"] EXCEPT !.left = 0]
  <2>1. 0 \in 0 .. 3 /\ "idle?" \in TcI2c!Places
    BY DEF TcI2c!Places
  <2>2. /\ s \in TcI2cServer /\ s.at = "idle?" /\ s.left = 0
        /\ s.user = srv.user
    BY <1>0, <2>1 DEF TcI2cTyped, TcI2cServer
  <2>3. srv' = [s EXCEPT !.raw = hw.line.raw]
    BY <1>1
  <2> HIDE DEF s
  <2> QED  BY <1>0, <2>2, <2>3, TcI2cLineIs DEF TcI2cServer
<1>5. TcI2cWork'
  BY <1>1, <1>2, <1>3, <1>4
     DEF TcI2cIInv, TcI2cWork, TcI2cBus, TcI2cPacket, TcI2cClean, TcI2cWaits
<1> QED  BY <1>0, <1>1, <1>3, <1>4, <1>5, TcI2cQuiet DEF TcI2cTyped

LEMMA TcI2cAddressed == ASSUME TcI2cIInv, TcI2c!Addressed PROVE TcI2cIInv'
<1> DEFINE E == IF TcI2c!Call = "read" THEN {} ELSE {"end"}
           next == IF TcI2c!Call = "probe" THEN "idle?"
                   ELSE IF TcI2c!Call = "write" THEN "put" ELSE "poll"
           left == IF TcI2c!Call = "probe" THEN 0 ELSE 1
<1>0. TcI2cTyped
  BY DEF TcI2cIInv
<1>1. /\ srv.at = "test" /\ UNCHANGED hist /\ srv.left = 2
      /\ hw' = [hw EXCEPT !.line = TcI2c!Cleared(hw.line, E)]
      /\ "nack" \notin hw.line.raw /\ "lost" \notin hw.line.raw
  BY DEF TcI2c!Addressed, TcI2c!Bad
<1>2. TcI2c!Call \in {"probe", "write", "read"}
  BY <1>0, <1>1 DEF TcI2cTyped, TcI2cCalls
<1>3. TcI2c!Enter(next, left)
  <2>1. CASE TcI2c!Call = "probe"
    BY <2>1 DEF TcI2c!Addressed
  <2>2. CASE TcI2c!Call = "write"
    BY <2>2 DEF TcI2c!Addressed
  <2>3. CASE TcI2c!Call = "read"
    BY <2>3 DEF TcI2c!Addressed
  <2> QED  BY <1>2, <2>1, <2>2, <2>3
<1>4. /\ E \in SUBSET TcI2c!Events /\ left \in 0 .. 3
      /\ next \in TcI2c!Places
  BY DEF TcI2c!Events, TcI2c!Places
<1>5. hw.line.raw \subseteq {"end"}
  BY <1>0, <1>1, TcI2cLineIs DEF TcI2c!Events
<1>6. /\ next = "put" => hw.line.raw \ E = {} /\ left = 1
                          /\ TcI2c!Call # "probe"
      /\ next = "idle?" => hw.line.raw \ E = {} /\ left = 0
                           /\ TcI2c!Call = "probe"
      /\ next = "poll" => hw.line.raw \ E = hw.line.raw /\ left = 1
                          /\ TcI2c!Call = "read"
      /\ next \in {"put", "idle?", "poll"}
  BY <1>2, <1>5
<1> HIDE DEF E, next, left
<1>7. /\ hw' \in TcI2cUnit /\ hw'.line.raw = hw.line.raw \ E
      /\ (hw'.line.bit <=> hw.line.bit) /\ (hw'.srr <=> hw.srr)
      /\ UNCHANGED <<hw.run, hw.good>>
      /\ (hw'.final <=> hw.final)
      /\ (hw'.busy <=> hw.busy) /\ (hw'.ending <=> hw.ending)
  BY <1>0, <1>1, <1>4, TcI2cClears
<1>8. /\ srv' \in TcI2cServer /\ srv'.at = next /\ srv'.left = left
      /\ UNCHANGED <<usr, srv.user, srv.raw>>
      /\ (srv'.late <=> srv.late)
  BY <1>0, <1>3, <1>4, TcI2cEnters
<1>9. TcI2cBus' /\ (~hist.polled => TcI2cClean')
  BY <1>1, <1>6, <1>7, <1>8
     DEF TcI2cIInv, TcI2cWork, TcI2cBus, TcI2cClean, TcI2cWaits
<1>10. TcI2c!Own \notin hist.early \cup hist.lost => TcI2cPacket'
  <2>1. SUFFICES ASSUME TcI2c!Own \notin hist.early \cup hist.lost
                 PROVE  TcI2cPacket'
    OBVIOUS
  <2>2. hw.line.raw # {} /\ hw.run = 0 /\ ~hw.ending
    BY <1>1, <2>1 DEF TcI2cIInv, TcI2cWork, TcI2cPacket
  <2>3. TcI2c!Call # "write" => hw.good = TcI2c!Own
    BY <1>1, <1>5, <2>1, <2>2
       DEF TcI2cIInv, TcI2cWork, TcI2cPacket, TcI2cLast
  <2>4. TcI2c!Own' = TcI2c!Own /\ TcI2c!Call' = TcI2c!Call
    BY <1>8
  <2> HIDE DEF TcI2c!Own, TcI2c!Call
  <2>5. CASE next = "poll"
    BY <1>1, <1>6, <1>7, <1>8, <2>2, <2>3, <2>4, <2>5
       DEF TcI2cPacket, TcI2cWaits
  <2>6. CASE next # "poll"
    BY <1>1, <1>6, <1>7, <1>8, <2>2, <2>3, <2>4, <2>6
       DEF TcI2cPacket, TcI2cWaits
  <2> QED  BY <2>5, <2>6
<1>11. TcI2cWork'
  BY <1>1, <1>8, <1>9, <1>10 DEF TcI2cWork
<1> QED  BY <1>0, <1>1, <1>6, <1>7, <1>8, <1>11, TcI2cQuiet DEF TcI2cTyped

LEMMA TcI2cMoved == ASSUME TcI2cIInv, TcI2c!Moved PROVE TcI2cIInv'
<1> DEFINE late == TcI2c!Call = "read" /\ hw.good # TcI2c!Own
           lost == hist.lost \cup {TcI2c!Own}
           bad  == TcI2c!Call = "write" /\ "lost" \in hw.line.raw
           E == {"end"}
<1>0. TcI2cTyped
  BY DEF TcI2cIInv
<1>1. /\ srv.at = "test" /\ UNCHANGED usr /\ srv.left = 1
      /\ srv' = [[[srv EXCEPT !.at = "idle?"] EXCEPT !.left = 0]
                    EXCEPT !.late = late]
      /\ hw' = [hw EXCEPT !.line = TcI2c!Cleared(hw.line, E)]
      /\ hist' = IF bad THEN [hist EXCEPT !.lost = lost] ELSE hist
      /\ TcI2c!Call = "write" => "nack" \notin hw.line.raw
  BY DEF TcI2c!Moved
<1>2. /\ E \in SUBSET TcI2c!Events /\ late \in BOOLEAN
      /\ lost \in SUBSET (0 .. Few)
  BY <1>0, TcI2cServes DEF TcI2c!Events, TcI2cTyped, TcI2cHist
<1>3. TcI2c!Own \in lost /\ hist.lost \subseteq lost
  OBVIOUS
<1>4. TcI2c!Own \notin hist.early \cup hist.lost /\ ~bad /\ ~late =>
         hw.run = 0 /\ hw.good = TcI2c!Own
  <2>1. SUFFICES ASSUME TcI2c!Own \notin hist.early \cup hist.lost, ~bad,
                        ~late
                 PROVE  hw.run = 0 /\ hw.good = TcI2c!Own
    OBVIOUS
  <2>2. TcI2cPacket /\ hw.line.raw # {} /\ hw.run = 0
    BY <1>1, <2>1 DEF TcI2cIInv, TcI2cWork, TcI2cPacket
  <2>3. CASE TcI2c!Call = "read"
    BY <2>1, <2>2, <2>3
  <2>4. CASE TcI2c!Call = "write"
    <3>1. "end" \in hw.line.raw
      BY <1>0, <1>1, <2>1, <2>2, <2>4, TcI2cLineIs DEF TcI2c!Events
    <3> QED
      BY <1>1, <2>1, <2>2, <2>4, <3>1 DEF TcI2cPacket, TcI2cLast
  <2>5. TcI2c!Call # "probe"
    BY <1>1, <2>2 DEF TcI2cPacket
  <2> QED  BY <1>0, <1>1, <2>3, <2>4, <2>5 DEF TcI2cTyped, TcI2cCalls
<1>5. TcI2c!Own \notin hist.early \cup hist.lost => hw.run = 0
  BY <1>1 DEF TcI2cIInv, TcI2cWork, TcI2cPacket
<1> HIDE DEF late, lost, bad, E
<1>6. /\ hw' \in TcI2cUnit /\ hw'.line.raw = hw.line.raw \ E
      /\ (hw'.line.bit <=> hw.line.bit) /\ (hw'.srr <=> hw.srr)
      /\ UNCHANGED <<hw.run, hw.good>>
      /\ (hw'.busy <=> hw.busy) /\ (hw'.ending <=> hw.ending)
  BY <1>0, <1>1, <1>2, TcI2cClears
<1>7. /\ srv' \in TcI2cServer /\ srv'.at = "idle?" /\ srv'.left = 0
      /\ srv'.user = srv.user /\ srv'.raw = srv.raw /\ (srv'.late <=> late)
  <2> DEFINE s == [[srv EXCEPT !.at = "idle?"] EXCEPT !.left = 0]
  <2>1. 0 \in 0 .. 3 /\ "idle?" \in TcI2c!Places
    BY DEF TcI2c!Places
  <2>2. /\ s \in TcI2cServer /\ s.at = "idle?" /\ s.left = 0
        /\ s.user = srv.user /\ s.raw = srv.raw
    BY <1>0, <2>1 DEF TcI2cTyped, TcI2cServer
  <2>3. srv' = [s EXCEPT !.late = late]
    BY <1>1
  <2> HIDE DEF s
  <2> QED  BY <1>2, <2>2, <2>3 DEF TcI2cServer
<1>8. /\ hist' \in TcI2cHist /\ (hist'.polled <=> hist.polled)
      /\ hist'.early = hist.early /\ hist.lost \subseteq hist'.lost
      /\ bad => TcI2c!Own \in hist'.lost
  BY <1>0, <1>1, <1>2, <1>3 DEF TcI2cTyped, TcI2cHist
<1>9. TcI2cBus' /\ (~hist.polled => TcI2cClean')
  BY <1>1, <1>6, <1>7, <1>8
     DEF TcI2cIInv, TcI2cWork, TcI2cBus, TcI2cClean, TcI2cWaits
<1>10. ~bad /\ TcI2c!Own \notin hist.early \cup hist.lost => TcI2cPacket'
  BY <1>1, <1>4, <1>5, <1>6, <1>7 DEF TcI2cPacket, TcI2cWaits
<1>11. TcI2cWork'
  BY <1>1, <1>7, <1>8, <1>9, <1>10 DEF TcI2cWork
<1>12. TcI2cAnswers'
  BY <1>1, <1>8 DEF TcI2cIInv, TcI2cAnswers, TcI2c!OkIsTrue
<1> QED  BY <1>0, <1>1, <1>6, <1>7, <1>8, <1>11, <1>12, TcI2cQuiet

LEMMA TcI2cPacketOver ==
    ASSUME TcI2cIInv, NEW e \in TcI2c!Events, TcI2c!PacketOver(e)
    PROVE  TcI2cIInv'
<1> DEFINE good == IF e = "end" /\ hw.final THEN hw.run ELSE hw.good
           g == [hw EXCEPT !.run = 0]
           k == [g EXCEPT !.ending = FALSE]
           h == [k EXCEPT !.good = good]
<1>0. TcI2cTyped
  BY DEF TcI2cIInv
<1>1. /\ hw.run # 0 /\ UNCHANGED <<usr, srv, hist>>
      /\ hw' = TcI2c!Raised(h, e)
  BY DEF TcI2c!PacketOver
<1>2. /\ good \in 0 .. Few /\ 0 \in 0 .. Few
      /\ e = "end" /\ hw.final => good = hw.run
  BY <1>0, ServersAssumption DEF TcI2cTyped, TcI2cUnit
<1> HIDE DEF good
<1>3. /\ g \in TcI2cUnit /\ g.line = hw.line /\ g.run = 0
      /\ (g.busy <=> hw.busy)
  BY <1>0, <1>2 DEF TcI2cTyped, TcI2cUnit
<1> HIDE DEF g
<1>4. /\ k \in TcI2cUnit /\ k.line = hw.line /\ k.run = 0 /\ ~k.ending
      /\ (k.busy <=> hw.busy)
  BY <1>3 DEF TcI2cUnit
<1> HIDE DEF k
<1>5. /\ h \in TcI2cUnit /\ h.line = hw.line /\ h.run = 0 /\ ~h.ending
      /\ (h.busy <=> hw.busy) /\ h.good = good
  BY <1>2, <1>4 DEF TcI2cUnit
<1> HIDE DEF h
<1>6. /\ hw' \in TcI2cUnit /\ hw'.line.raw = hw.line.raw \cup {e}
      /\ (hw'.line.bit <=> hw.line.bit) /\ hw'.srr
      /\ hw'.run = 0 /\ hw'.good = good
      /\ (hw'.busy <=> hw.busy) /\ ~hw'.ending
  BY <1>0, <1>1, <1>5, TcI2cRaises
<1>7. TcI2cBus' /\ (~hist.polled => TcI2cClean')
  BY <1>1, <1>6 DEF TcI2cIInv, TcI2cWork, TcI2cBus, TcI2cClean, TcI2cWaits
<1>8. TcI2c!Own \notin hist.early \cup hist.lost => TcI2cPacket'
  <2>1. e \in {"end", "nack", "lost"}
    BY DEF TcI2c!Events
  <2> QED
    BY <1>1, <1>2, <1>6, <2>1
       DEF TcI2cIInv, TcI2cWork, TcI2cPacket, TcI2cWaits, TcI2cLast
<1>9. TcI2cWork'
  BY <1>1, <1>7, <1>8 DEF TcI2cWork
<1> QED  BY <1>1, <1>6, <1>9, TcI2cOutside

LEMMA TcI2cEnded == ASSUME TcI2cIInv, TcI2c!Ended PROVE TcI2cIInv'
<1>0. TcI2cTyped
  BY DEF TcI2cIInv
<1>1. /\ hw.run = 0 /\ hw.ending /\ UNCHANGED <<usr, srv, hist>>
  BY DEF TcI2c!Ended
<1>2. PICK busy \in BOOLEAN :
         hw' = TcI2c!Raised([[hw EXCEPT !.ending = FALSE]
                                EXCEPT !.busy = busy], "end")
  BY DEF TcI2c!Ended
<1> DEFINE k == [hw EXCEPT !.ending = FALSE]
           h == [k EXCEPT !.busy = busy]
<1>3. hw' = TcI2c!Raised(h, "end") /\ "end" \in TcI2c!Events
  BY <1>2 DEF TcI2c!Events
<1>4. /\ k \in TcI2cUnit /\ k.line = hw.line /\ k.run = 0 /\ ~k.ending
      /\ k.good = hw.good
  BY <1>0, <1>1 DEF TcI2cTyped, TcI2cUnit
<1> HIDE DEF k
<1>5. /\ h \in TcI2cUnit /\ h.line = hw.line /\ h.run = 0 /\ ~h.ending
      /\ h.good = hw.good
  BY <1>2, <1>4 DEF TcI2cUnit
<1> HIDE DEF h
<1>6. /\ hw' \in TcI2cUnit /\ hw'.line.raw = hw.line.raw \cup {"end"}
      /\ (hw'.line.bit <=> hw.line.bit) /\ hw'.srr
      /\ hw'.run = 0 /\ hw'.good = hw.good /\ ~hw'.ending
  BY <1>0, <1>3, <1>5, TcI2cRaises
<1>7. TcI2cBus' /\ (~hist.polled => TcI2cClean')
  BY <1>1, <1>6 DEF TcI2cIInv, TcI2cWork, TcI2cBus, TcI2cClean, TcI2cWaits
<1>8. TcI2c!Own \notin hist.early \cup hist.lost => TcI2cPacket'
  BY <1>1, <1>6 DEF TcI2cIInv, TcI2cWork, TcI2cPacket, TcI2cWaits
<1>9. TcI2cWork'
  BY <1>1, <1>7, <1>8 DEF TcI2cWork
<1> QED  BY <1>1, <1>6, <1>9, TcI2cOutside

LEMMA TcI2cBusGetsFree == ASSUME TcI2cIInv, TcI2c!BusGetsFree PROVE TcI2cIInv'
<1>0. TcI2cTyped
  BY DEF TcI2cIInv
<1>1. /\ hw.run = 0 /\ ~hw.ending /\ UNCHANGED <<usr, srv, hist>>
      /\ hw' = [hw EXCEPT !.busy = FALSE]
  BY DEF TcI2c!BusGetsFree
<1>2. /\ hw' \in TcI2cUnit /\ hw'.line = hw.line
      /\ hw'.run = hw.run /\ hw'.good = hw.good
      /\ (hw'.srr <=> hw.srr) /\ (hw'.final <=> hw.final)
      /\ ~hw'.busy /\ (hw'.ending <=> hw.ending)
  BY <1>0, <1>1 DEF TcI2cTyped, TcI2cUnit
<1>3. TcI2cBus' /\ (~hist.polled => TcI2cClean')
  BY <1>1, <1>2 DEF TcI2cIInv, TcI2cWork, TcI2cBus, TcI2cClean, TcI2cWaits
<1>4. TcI2c!Own \notin hist.early \cup hist.lost => TcI2cPacket'
  BY <1>1, <1>2
     DEF TcI2cIInv, TcI2cWork, TcI2cPacket, TcI2cWaits, TcI2cLast
<1>5. TcI2cWork'
  BY <1>1, <1>3, <1>4 DEF TcI2cWork
<1> QED  BY <1>1, <1>2, <1>5, TcI2cOutside

LEMMA TcI2cInterrupt == ASSUME TcI2cIInv, TcI2c!Interrupt PROVE TcI2cIInv'
<1> DEFINE l == TcI2c!Delivered(hw.line)
           h == [hw EXCEPT !.line = l]
<1>0. TcI2cTyped
  BY DEF TcI2cIInv
<1>1. /\ hw.srr /\ UNCHANGED <<usr, srv, hist>>
      /\ hw' = [h EXCEPT !.srr = FALSE]
  BY DEF TcI2c!Interrupt
<1>2. l \in TcI2cLines /\ l.raw = hw.line.raw /\ l.bit
  BY <1>0, TcI2cLineIs DEF TcI2cLines, TcI2c!LineType
<1> HIDE DEF l
<1>3. /\ h \in TcI2cUnit /\ h.line = l
      /\ h.run = hw.run /\ h.good = hw.good
      /\ (h.final <=> hw.final)
      /\ (h.busy <=> hw.busy) /\ (h.ending <=> hw.ending)
  BY <1>0, <1>2 DEF TcI2cTyped, TcI2cUnit
<1> HIDE DEF h
<1>4. /\ hw' \in TcI2cUnit /\ hw'.line = l /\ ~hw'.srr
      /\ hw'.run = hw.run /\ hw'.good = hw.good
      /\ (hw'.final <=> hw.final)
      /\ (hw'.busy <=> hw.busy) /\ (hw'.ending <=> hw.ending)
  BY <1>1, <1>3 DEF TcI2cUnit
<1>5. TcI2cBus' /\ (~hist.polled => TcI2cClean')
  BY <1>1, <1>2, <1>4
     DEF TcI2cIInv, TcI2cWork, TcI2cBus, TcI2cClean, TcI2cWaits
<1>6. TcI2c!Own \notin hist.early \cup hist.lost => TcI2cPacket'
  BY <1>1, <1>2, <1>4
     DEF TcI2cIInv, TcI2cWork, TcI2cPacket, TcI2cWaits, TcI2cLast
<1>7. TcI2cWork'
  BY <1>1, <1>5, <1>6 DEF TcI2cWork
<1> QED  BY <1>1, <1>4, <1>7, TcI2cOutside

LEMMA TcI2cNext == ASSUME TcI2cIInv, TcI2c!Next PROVE TcI2cIInv'
BY TcI2cRequest, TcI2cReceive, TcI2cBusFree, TcI2cBusBusy, TcI2cStillBusy,
   TcI2cClearAll, TcI2cPut, TcI2cPolled, TcI2cPollsNothing, TcI2cOpen,
   TcI2cWoken, TcI2cRefused, TcI2cAddressed, TcI2cMoved, TcI2cIdle,
   TcI2cSetEnd, TcI2cReleased, TcI2cPacketOver, TcI2cEnded,
   TcI2cBusGetsFree, TcI2cInterrupt
   DEF TcI2c!Next, TcI2c!Proceed

LEMMA TcI2cStutter ==
    ASSUME TcI2cIInv, UNCHANGED <<usr, srv, hw, hist>> PROVE TcI2cIInv'
BY DEF TcI2cIInv, TcI2cTyped, TcI2c!Call, TcI2cWork, TcI2cBus, TcI2c!Own,
       TcI2cPacket, TcI2cLast, TcI2cClean, TcI2cAnswers, TcI2c!OkIsTrue

LEMMA TcI2cSafe == TcI2cIInv => TcI2c!TypeOK /\ TcI2c!OkIsTrue /\ TcI2c!Traced
<1>1. TcI2cUsers = TcI2c!UserType({"probe", "write", "read"},
                        {"ok", "esrch", "eperm", "edeadlk"})
  BY DEF TcI2cUsers, TcI2cUser, UserRec, TcI2cRcs, TcI2cCalls,
     TcI2c!UserType
<1>2. TcI2cIInv => TcI2c!TypeOK
  BY <1>1 DEF TcI2cIInv, TcI2cTyped, TcI2cServer, TcI2cUnit, TcI2cHist,
     TcI2cLines, TcI2c!TypeOK
<1> QED
  BY <1>2 DEF TcI2cIInv, TcI2cWork, TcI2cClean, TcI2cAnswers, TcI2c!Traced

(* TcI2cKeeps.  The I2C server of the TC275: a request answered OK was     *)
(* acknowledged to its end, unless it lost the bus in its data or was      *)
(* woken without an event, which only happens after a wait that found its  *)
(* event by polling.                                                       *)
THEOREM TcI2cKeeps ==
    TcI2c!Spec => [](TcI2c!TypeOK /\ TcI2c!OkIsTrue /\ TcI2c!Traced)
<1>1. TcI2c!Init => TcI2cIInv
  BY TcI2cInit
<1>2. TcI2cIInv /\ [TcI2c!Next]_TcI2c!vars => TcI2cIInv'
  BY TcI2cNext, TcI2cStutter DEF TcI2c!vars
<1>3. TcI2cIInv => TcI2c!TypeOK /\ TcI2c!OkIsTrue /\ TcI2c!Traced
  BY TcI2cSafe
<1> QED  BY <1>1, <1>2, <1>3, PTL DEF TcI2c!Spec

HIDE DEF TcI2c!None, TcI2c!Ids, TcI2c!Own, TcI2c!Call, TcI2c!Goto, TcI2c!Enter,
         TcI2c!Resting, TcI2c!ServerType, TcI2c!Acked, TcI2c!Taken,
         TcI2c!Delivered, TcI2c!Latched, TcI2c!Cleared

-----------------------------------------------------------------------------
(* The ADC server of the TC275 board.                                      *)

USE DEF TcAdc!None, TcAdc!Ids, TcAdc!Own, TcAdc!Call, TcAdc!Goto,
        TcAdc!Resting, TcAdc!ServerType, TcAdc!Acked, TcAdc!Taken,
        TcAdc!Delivered

TcAdcCalls  == {"config 0", "config 1", "read 0", "read 1"}
TcAdcRcs    == {"ok", "etimeout"}
TcAdcUser   == UserRec(TcAdcCalls, TcAdcRcs, Many)
TcAdcUsers  == [Several -> TcAdcUser]
TcAdcServer == TcAdc!ServerType(TcAdc!Places, {}, 0)
TcAdcLines  == TcAdc!LineType({})
TcAdcUnit   == [line : TcAdcLines, srr : BOOLEAN, drops : BOOLEAN,
                ready : BOOLEAN, served : SUBSET TcAdc!Channels,
                conv : 0 .. Many, vf : 0 .. Many]
TcAdcHist   == {FALSE}

TcAdcTyped ==
    /\ usr \in TcAdcUsers /\ srv \in TcAdcServer
    /\ hw \in TcAdcUnit /\ hist \in TcAdcHist
    /\ \A u \in Several : usr[u].at # "idle" => usr[u].n # 0
    /\ srv.at # "recv" => TcAdc!Call \in TcAdcCalls

(* Nothing is under way before the conversion is armed; while its result   *)
(* is awaited it is under way, or its result is valid and at most one of   *)
(* service request and notification tells of it.                           *)
TcAdcWork ==
    /\ srv.at \in {"recv", "channel", "drop", "arm"} =>
          ~hw.line.bit /\ ~hw.srr /\ hw.conv = 0
    /\ srv.at = "arm" => hw.vf = 0
    /\ srv.at = "wait" =>
          \/ /\ hw.conv = 0 /\ hw.vf = TcAdc!Own
             /\ hw.line.bit => ~hw.srr
          \/ /\ hw.conv = TcAdc!Own /\ hw.vf = 0
             /\ ~hw.line.bit /\ ~hw.srr
    /\ srv.at = "get" =>
          /\ hw.conv = 0 /\ hw.vf = TcAdc!Own
          /\ ~hw.line.bit /\ ~hw.srr

TcAdcAnswers == TcAdc!OkIsTrue

TcAdcIInv == TcAdcTyped /\ TcAdcWork /\ TcAdcAnswers

LEMMA TcAdcServes ==
    ASSUME TcAdcTyped
    PROVE  /\ srv.user \in Several /\ TcAdc!Own \in 0 .. Many
           /\ srv.at # "recv" => TcAdc!Own # 0
<1>1. srv.user \in Several /\ usr \in [Several -> TcAdcUser]
  BY DEF TcAdcTyped, TcAdcServer, TcAdcUsers
<1>2. TcAdc!Own \in 0 .. Many
  BY <1>1 DEF TcAdcUser, UserRec
<1>3. srv.at # "recv" => TcAdc!Call # "idle"
  BY DEF TcAdcTyped, TcAdcCalls
<1> QED  BY <1>1, <1>2, <1>3 DEF TcAdcTyped

LEMMA TcAdcBegins ==
    ASSUME usr = TcAdc!IdleUsers,
           srv = TcAdc!Resting(CHOOSE u \in Several : TRUE)
    PROVE  /\ usr \in TcAdcUsers /\ srv \in TcAdcServer /\ srv.at = "recv"
           /\ \A u \in Several : usr[u].at = "idle" /\ usr[u].rc = ""
<1>1. [at |-> "idle", n |-> 0, rc |-> "", val |-> 0] \in TcAdcUser
  BY ServersAssumption DEF TcAdcUser, UserRec
<1>2. /\ usr \in TcAdcUsers
      /\ \A u \in Several : usr[u].at = "idle" /\ usr[u].rc = ""
  BY <1>1 DEF TcAdc!IdleUsers, TcAdcUsers
<1>3. (CHOOSE u \in Several : TRUE) \in Several
  BY ServersAssumption
<1>4. srv \in TcAdcServer /\ srv.at = "recv"
  BY <1>3, ServersAssumption DEF TcAdcServer
<1> QED  BY <1>2, <1>4

LEMMA TcAdcAsked ==
    ASSUME TcAdcTyped, NEW u \in Several, NEW call \in TcAdcCalls,
           TcAdc!Ask(u, call)
    PROVE  /\ TcAdcTyped' /\ UNCHANGED <<srv, hw, hist>>
           /\ usr'[u].rc = "" /\ usr'[u].at = call
           /\ \A v \in Several : v # u => usr'[v] = usr[v]
           /\ srv.at # "recv" =>
                 TcAdc!Own' = TcAdc!Own /\ TcAdc!Call' = TcAdc!Call
<1>1. PICK n \in 1 .. Many :
         usr' = [usr EXCEPT ![u] = [at |-> call, n |-> n, rc |-> "",
                                    val |-> 0]]
  BY DEF TcAdc!Ask
<1>2. usr[u].at = "idle" /\ UNCHANGED <<srv, hw, hist>>
  BY DEF TcAdc!Ask
<1>3. [at |-> call, n |-> n, rc |-> "", val |-> 0] \in TcAdcUser
  BY AskRec, ServersAssumption DEF TcAdcUser
<1>4. /\ usr' \in TcAdcUsers
      /\ usr'[u].at = call /\ usr'[u].n = n /\ usr'[u].rc = ""
      /\ \A v \in Several : v # u => usr'[v] = usr[v]
  BY <1>1, <1>3 DEF TcAdcTyped, TcAdcUsers
<1>5. srv.at # "recv" => srv.user # u /\ srv.user \in Several
  BY <1>2, TcAdcServes DEF TcAdcTyped, TcAdcCalls
<1>6. n # 0
  OBVIOUS
<1>7. \A v \in Several : usr'[v].at # "idle" => usr'[v].n # 0
  BY <1>4, <1>6 DEF TcAdcTyped
<1>8. srv.at # "recv" => TcAdc!Own' = TcAdc!Own /\ TcAdc!Call' = TcAdc!Call
  BY <1>2, <1>4, <1>5
<1> QED  BY <1>2, <1>4, <1>7, <1>8 DEF TcAdcTyped

LEMMA TcAdcReceived ==
    ASSUME TcAdcTyped, NEW u \in Several, usr[u].at \in TcAdcCalls,
           NEW next \in TcAdc!Places, NEW left \in 0 .. 0,
           srv' = [at |-> next, user |-> u, late |-> FALSE, raw |-> {},
                   left |-> left],
           UNCHANGED <<usr, hw, hist>>
    PROVE  /\ TcAdcTyped' /\ srv'.at = next /\ srv'.user = u
           /\ srv'.late = FALSE /\ srv'.raw = {} /\ srv'.left = left
<1>1. srv' \in TcAdcServer /\ srv'.at = next /\ srv'.user = u
  BY DEF TcAdcServer
<1> QED  BY <1>1 DEF TcAdcTyped

LEMMA TcAdcGoes ==
    ASSUME TcAdcTyped, NEW next \in TcAdc!Places,
           srv' = [srv EXCEPT !.at = next]
    PROVE  /\ srv' \in TcAdcServer /\ srv'.at = next
           /\ UNCHANGED <<srv.user, srv.raw, srv.left>>
           /\ (srv'.late <=> srv.late)
BY DEF TcAdcTyped, TcAdcServer

LEMMA TcAdcReplied ==
    ASSUME TcAdcTyped, NEW rc \in TcAdcRcs, NEW val \in 0 .. Many,
           TcAdc!Reply(rc, val), hw' \in TcAdcUnit, hist' \in TcAdcHist
    PROVE  /\ TcAdcTyped' /\ srv'.at = "recv" /\ srv'.user = srv.user
           /\ usr'[srv.user].at = "idle" /\ usr'[srv.user].rc = rc
           /\ usr'[srv.user].n = usr[srv.user].n /\ usr'[srv.user].val = val
           /\ \A v \in Several : v # srv.user => usr'[v] = usr[v]
<1> DEFINE x == [[[usr[srv.user] EXCEPT !.at = "idle"] EXCEPT !.rc = rc]
                    EXCEPT !.val = val]
<1>1. srv.user \in Several /\ usr \in [Several -> TcAdcUser]
  BY TcAdcServes DEF TcAdcTyped, TcAdcUsers
<1>2. /\ x \in TcAdcUser
      /\ x.at = "idle" /\ x.n = usr[srv.user].n /\ x.rc = rc /\ x.val = val
  <2>1. usr[srv.user] \in TcAdcUser
    BY <1>1
  <2> QED  BY <2>1, ServersAssumption DEF TcAdcUser, UserRec
<1>3. /\ usr' \in TcAdcUsers /\ usr'[srv.user] = x
      /\ \A v \in Several : v # srv.user => usr'[v] = usr[v]
  BY <1>1, <1>2, Thrice DEF TcAdc!Reply, TcAdcUsers
<1>4. srv' \in TcAdcServer /\ srv'.at = "recv" /\ srv'.user = srv.user
  BY <1>1 DEF TcAdc!Reply, TcAdcServer
<1> HIDE DEF x
<1>5. \A v \in Several : usr'[v].at # "idle" => usr'[v].n # 0
  BY <1>2, <1>3 DEF TcAdcTyped
<1> QED  BY <1>2, <1>3, <1>4, <1>5 DEF TcAdcTyped

(* A step that leaves the users alone.                                     *)
LEMMA TcAdcQuiet ==
    ASSUME TcAdcIInv, UNCHANGED usr, srv' \in TcAdcServer, srv'.at # "recv",
           srv'.user = srv.user, srv.at # "recv",
           hw' \in TcAdcUnit, hist' \in TcAdcHist, TcAdcWork',
           UNCHANGED hist \/ TcAdcAnswers'
    PROVE  TcAdcIInv'
BY DEF TcAdcIInv, TcAdcTyped, TcAdcAnswers, TcAdc!OkIsTrue

(* A step of the peripheral.                                               *)
LEMMA TcAdcOutside ==
    ASSUME TcAdcIInv, UNCHANGED <<usr, srv, hist>>, hw' \in TcAdcUnit,
           TcAdcWork'
    PROVE  TcAdcIInv'
BY DEF TcAdcIInv, TcAdcTyped, TcAdcAnswers, TcAdc!OkIsTrue

LEMMA TcAdcCallsAre == TcAdc!Calls = TcAdcCalls
BY DEF TcAdc!Calls, TcAdc!Configs, TcAdc!Reads, TcAdc!Channels, TcAdcCalls

LEMMA TcAdcInit == ASSUME TcAdc!Init PROVE TcAdcIInv
<1>1. Several # {} /\ Many \in Nat
  BY ServersAssumption
<1>2. /\ usr \in TcAdcUsers
      /\ \A u \in Several : usr[u].rc = "" /\ usr[u].at = "idle"
  <2>1. [at |-> "idle", n |-> 0, rc |-> "", val |-> 0] \in TcAdcUser
    BY <1>1 DEF TcAdcUser, UserRec
  <2> QED  BY <2>1 DEF TcAdc!Init, TcAdc!IdleUsers, TcAdcUsers
<1>3. srv \in TcAdcServer /\ srv.at = "recv"
  BY <1>1 DEF TcAdc!Init, TcAdcServer
<1>4. /\ hw \in TcAdcUnit
      /\ ~hw.line.bit /\ ~hw.srr /\ hw.conv = 0 /\ hist = FALSE
  BY <1>1 DEF TcAdc!Init, TcAdc!Line, TcAdcUnit, TcAdcLines, TcAdc!LineType
<1>5. TcAdcWork
  BY <1>3, <1>4 DEF TcAdcWork
<1> QED
  BY <1>2, <1>3, <1>4, <1>5
     DEF TcAdcIInv, TcAdcTyped, TcAdcHist, TcAdcAnswers, TcAdc!OkIsTrue

LEMMA TcAdcRequest ==
    ASSUME TcAdcIInv, NEW u \in Several, TcAdc!Request(u)
    PROVE  TcAdcIInv'
<1>1. PICK call \in TcAdcCalls : TcAdc!Ask(u, call)
  BY TcAdcCallsAre DEF TcAdc!Request
<1> QED
  BY <1>1, TcAdcAsked
     DEF TcAdcIInv, TcAdcWork, TcAdcAnswers, TcAdc!OkIsTrue

LEMMA TcAdcReceive ==
    ASSUME TcAdcIInv, NEW u \in Several, TcAdc!Receive(u)
    PROVE  TcAdcIInv'
<1>1. /\ srv.at = "recv" /\ usr[u].at \in TcAdcCalls
      /\ UNCHANGED <<usr, hw, hist>>
      /\ srv' = [at |-> "channel", user |-> u, late |-> FALSE, raw |-> {},
                 left |-> 0]
  BY TcAdcCallsAre DEF TcAdc!Receive, TcAdc!Recv
<1>2. srv' \in TcAdcServer /\ srv'.at = "channel" /\ srv'.user = u
  BY <1>1 DEF TcAdcServer, TcAdc!Places
<1> QED
  BY <1>1, <1>2
     DEF TcAdcIInv, TcAdcTyped, TcAdcWork, TcAdcAnswers, TcAdc!OkIsTrue

(* The acknowledgement of the service request.                             *)
LEMMA TcAdcAck ==
    ASSUME NEW h \in TcAdcUnit
    PROVE  LET g == TcAdc!AckRequest(h) IN
           /\ g \in TcAdcUnit /\ (g.line.bit <=> h.line.bit)
           /\ (g.srr => h.srr) /\ g.conv = h.conv /\ g.vf = h.vf
<1> DEFINE l == TcAdc!Acked(h.line)
           b == h.srr /\ ~h.drops
           h1 == [h EXCEPT !.line = l]
<1>1. l \in TcAdcLines /\ (l.bit <=> h.line.bit) /\ b \in BOOLEAN
  BY DEF TcAdcUnit, TcAdcLines, TcAdc!LineType
<1> HIDE DEF l
<1>2. h1 \in TcAdcUnit /\ h1.line = l /\ h1.conv = h.conv /\ h1.vf = h.vf
  BY <1>1 DEF TcAdcUnit
<1> HIDE DEF h1, b
<1>3. LET g == [h1 EXCEPT !.srr = b] IN
      /\ g \in TcAdcUnit /\ g.line = l /\ g.srr = b /\ g.conv = h1.conv
      /\ g.vf = h1.vf
  BY <1>1, <1>2 DEF TcAdcUnit
<1> QED  BY <1>1, <1>2, <1>3 DEF h1, b, l, TcAdc!AckRequest

(* The server has answered and nothing is under way.                       *)
LEMMA TcAdcRests ==
    ASSUME TcAdcIInv, NEW rc \in TcAdcRcs, NEW val \in 0 .. Many,
           TcAdc!Reply(rc, val), UNCHANGED hist, hw' \in TcAdcUnit,
           ~hw'.line.bit, ~hw'.srr, hw'.conv = 0, val \in {0, TcAdc!Own}
    PROVE  TcAdcIInv'
<1>1. hist' \in TcAdcHist
  BY DEF TcAdcIInv, TcAdcTyped
<1> QED
  BY <1>1, TcAdcReplied DEF TcAdcIInv, TcAdcWork, TcAdcAnswers, TcAdc!OkIsTrue

LEMMA TcAdcPrepared ==
    ASSUME TcAdcIInv, srv.at # "recv"
    PROVE  LET g == TcAdc!Prepared IN
           /\ g \in TcAdcUnit /\ g.line = hw.line /\ (g.srr <=> hw.srr)
           /\ g.conv = hw.conv
<1>1. TcAdc!Channel \in TcAdc!Channels
  <2>1. \E ch \in TcAdc!Channels :
           TcAdc!Call \in {TcAdc!Configs[ch], TcAdc!Reads[ch]}
    <3>1. /\ TcAdc!Configs[0] = "config 0" /\ TcAdc!Configs[1] = "config 1"
          /\ TcAdc!Reads[0] = "read 0" /\ TcAdc!Reads[1] = "read 1"
      BY DEF TcAdc!Channels, TcAdc!Configs, TcAdc!Reads
    <3>2. TcAdc!Call \in TcAdcCalls
      BY DEF TcAdcIInv, TcAdcTyped
    <3> QED  BY <3>1, <3>2 DEF TcAdcCalls, TcAdc!Channels
  <2> QED  BY <2>1 DEF TcAdc!Channel
<1> QED  BY <1>1 DEF TcAdcIInv, TcAdcTyped, TcAdcUnit, TcAdc!Prepared

LEMMA TcAdcConfig == ASSUME TcAdcIInv, TcAdc!Config PROVE TcAdcIInv'
<1>1. /\ srv.at = "channel" /\ TcAdc!Reply("ok", 0) /\ UNCHANGED hist
      /\ hw' = TcAdc!Prepared
  BY DEF TcAdc!Config
<1>2. hw' \in TcAdcUnit /\ hw'.line = hw.line /\ (hw'.srr <=> hw.srr)
      /\ hw'.conv = hw.conv
  BY <1>1, TcAdcPrepared
<1>3. "ok" \in TcAdcRcs /\ 0 \in 0 .. Many
  BY ServersAssumption DEF TcAdcRcs
<1> QED  BY <1>1, <1>2, <1>3, TcAdcRests DEF TcAdcIInv, TcAdcWork

LEMMA TcAdcRead == ASSUME TcAdcIInv, TcAdc!Read PROVE TcAdcIInv'
<1>1. /\ srv.at = "channel" /\ srv' = [srv EXCEPT !.at = "drop"]
      /\ UNCHANGED <<usr, hist>> /\ hw' \in {hw, TcAdc!Prepared}
  BY DEF TcAdc!Read
<1>2. hw' \in TcAdcUnit /\ hw'.line = hw.line /\ (hw'.srr <=> hw.srr)
      /\ hw'.conv = hw.conv
  BY <1>1, TcAdcPrepared DEF TcAdcIInv, TcAdcTyped
<1>3. srv' \in TcAdcServer /\ srv'.at = "drop" /\ srv'.user = srv.user
  BY <1>1 DEF TcAdcIInv, TcAdcTyped, TcAdcServer, TcAdc!Places
<1> QED
  BY <1>1, <1>2, <1>3, TcAdcQuiet DEF TcAdcIInv, TcAdcTyped, TcAdcWork

LEMMA TcAdcDropStale == ASSUME TcAdcIInv, TcAdc!DropStale PROVE TcAdcIInv'
<1> DEFINE h == [hw EXCEPT !.vf = 0]
<1>1. /\ srv.at = "drop" /\ srv' = [srv EXCEPT !.at = "arm"]
      /\ UNCHANGED <<usr, hist>> /\ hw' = TcAdc!AckRequest(h)
  BY DEF TcAdc!DropStale
<1>2. h \in TcAdcUnit /\ h.vf = 0 /\ h.line = hw.line /\ (h.srr <=> hw.srr)
      /\ h.conv = hw.conv
  BY ServersAssumption DEF TcAdcIInv, TcAdcTyped, TcAdcUnit
<1> HIDE DEF h
<1>3. /\ hw' \in TcAdcUnit /\ (hw'.line.bit <=> h.line.bit)
      /\ (hw'.srr => h.srr) /\ hw'.conv = h.conv /\ hw'.vf = h.vf
  BY <1>1, <1>2, TcAdcAck
<1>4. srv' \in TcAdcServer /\ srv'.at = "arm" /\ srv'.user = srv.user
  BY <1>1 DEF TcAdcIInv, TcAdcTyped, TcAdcServer, TcAdc!Places
<1> QED
  BY <1>1, <1>2, <1>3, <1>4, TcAdcQuiet
     DEF TcAdcIInv, TcAdcTyped, TcAdcWork

LEMMA TcAdcArm == ASSUME TcAdcIInv, TcAdc!Arm PROVE TcAdcIInv'
<1>1. /\ srv.at = "arm" /\ srv' = [srv EXCEPT !.at = "wait"]
      /\ UNCHANGED <<usr, hist>> /\ hw' = [hw EXCEPT !.conv = TcAdc!Own]
  BY DEF TcAdc!Arm
<1>2. /\ hw' \in TcAdcUnit /\ hw'.conv = TcAdc!Own
      /\ UNCHANGED <<hw.line, hw.srr, hw.vf>>
  BY <1>1, TcAdcServes DEF TcAdcIInv, TcAdcTyped, TcAdcUnit
<1>3. srv' \in TcAdcServer /\ srv'.at = "wait" /\ srv'.user = srv.user
  BY <1>1 DEF TcAdcIInv, TcAdcTyped, TcAdcServer, TcAdc!Places
<1> QED
  BY <1>1, <1>2, <1>3, TcAdcQuiet DEF TcAdcIInv, TcAdcTyped, TcAdcWork

LEMMA TcAdcWoken == ASSUME TcAdcIInv, TcAdc!Woken PROVE TcAdcIInv'
<1> DEFINE l == TcAdc!Taken(hw.line)
<1>1. /\ srv.at = "wait" /\ hw.line.bit
      /\ srv' = [srv EXCEPT !.at = "get"]
      /\ UNCHANGED <<usr, hist>> /\ hw' = [hw EXCEPT !.line = l]
  BY DEF TcAdc!Woken
<1>2. l \in TcAdcLines /\ ~l.bit
  BY DEF TcAdcIInv, TcAdcTyped, TcAdcUnit, TcAdcLines, TcAdc!LineType
<1> HIDE DEF l
<1>3. /\ hw' \in TcAdcUnit /\ ~hw'.line.bit
      /\ UNCHANGED <<hw.conv, hw.srr, hw.vf>>
  BY <1>1, <1>2 DEF TcAdcIInv, TcAdcTyped, TcAdcUnit
<1>4. srv' \in TcAdcServer /\ srv'.at = "get" /\ srv'.user = srv.user
  BY <1>1 DEF TcAdcIInv, TcAdcTyped, TcAdcServer, TcAdc!Places
<1> QED
  BY <1>1, <1>3, <1>4, TcAdcQuiet DEF TcAdcIInv, TcAdcTyped, TcAdcWork

(* The server is never woken without the result of its own conversion.     *)
LEMMA TcAdcGet == ASSUME TcAdcIInv, TcAdc!Get PROVE TcAdcIInv'
<1> DEFINE h == [hw EXCEPT !.vf = 0]
<1>1. srv.at = "get" /\ hw.vf = TcAdc!Own /\ TcAdc!Own # 0
      /\ ~hw.line.bit /\ ~hw.srr /\ hw.conv = 0
  BY TcAdcServes DEF TcAdc!Get, TcAdcIInv, TcAdcWork
<1>2. /\ TcAdc!Reply("ok", TcAdc!Own) /\ UNCHANGED hist
      /\ hw' = TcAdc!AckRequest(h)
  BY <1>1 DEF TcAdc!Get, TcAdcIInv, TcAdcTyped, TcAdcHist
<1>3. h \in TcAdcUnit /\ h.line = hw.line /\ (h.srr <=> hw.srr)
      /\ h.conv = hw.conv
  BY ServersAssumption DEF TcAdcIInv, TcAdcTyped, TcAdcUnit
<1> HIDE DEF h
<1>4. /\ hw' \in TcAdcUnit /\ ~hw'.line.bit /\ ~hw'.srr /\ hw'.conv = 0
  BY <1>1, <1>2, <1>3, TcAdcAck
<1>5. "ok" \in TcAdcRcs /\ TcAdc!Own \in 0 .. Many
  BY TcAdcServes DEF TcAdcRcs, TcAdcIInv
<1> QED  BY <1>1, <1>2, <1>4, <1>5, TcAdcRests

LEMMA TcAdcConverted == ASSUME TcAdcIInv, TcAdc!Converted PROVE TcAdcIInv'
<1> DEFINE b == hw.srr \/ TcAdc!Channel \in hw.served
           g == [hw EXCEPT !.conv = 0]
           h == [g EXCEPT !.vf = hw.conv]
<1>1. /\ UNCHANGED <<usr, srv, hist>> /\ hw.conv # 0
      /\ hw' = [h EXCEPT !.srr = b]
  BY DEF TcAdc!Converted
<1>0. g \in TcAdcUnit /\ g.conv = 0 /\ g.line = hw.line
  BY ServersAssumption DEF TcAdcIInv, TcAdcTyped, TcAdcUnit
<1> HIDE DEF g
<1>2. h \in TcAdcUnit /\ h.conv = 0 /\ h.vf = hw.conv /\ h.line = hw.line
  BY <1>0 DEF TcAdcIInv, TcAdcTyped, TcAdcUnit
<1>3. b \in BOOLEAN
  BY DEF TcAdcIInv, TcAdcTyped, TcAdcUnit
<1> HIDE DEF h, b
<1>4. /\ hw' \in TcAdcUnit /\ hw'.line = hw.line /\ hw'.conv = 0
      /\ hw'.vf = hw.conv
  BY <1>1, <1>2, <1>3 DEF TcAdcUnit
<1> QED
  BY <1>1, <1>4, TcAdcOutside, TcAdcServes DEF TcAdcIInv, TcAdcTyped, TcAdcWork

LEMMA TcAdcInterrupt == ASSUME TcAdcIInv, TcAdc!Interrupt PROVE TcAdcIInv'
<1> DEFINE l == TcAdc!Delivered(hw.line)
           h == [hw EXCEPT !.line = l]
<1>1. /\ UNCHANGED <<usr, srv, hist>> /\ hw.srr
      /\ hw' = [h EXCEPT !.srr = FALSE]
  BY DEF TcAdc!Interrupt
<1>2. l \in TcAdcLines
  BY DEF TcAdcIInv, TcAdcTyped, TcAdcUnit, TcAdcLines, TcAdc!LineType
<1> HIDE DEF l
<1>3. h \in TcAdcUnit /\ h.conv = hw.conv /\ h.vf = hw.vf
  BY <1>2 DEF TcAdcIInv, TcAdcTyped, TcAdcUnit
<1> HIDE DEF h
<1>4. /\ hw' \in TcAdcUnit /\ ~hw'.srr /\ hw'.conv = hw.conv
      /\ hw'.vf = hw.vf
  BY <1>1, <1>3 DEF TcAdcUnit
<1> QED
  BY <1>1, <1>4, TcAdcOutside DEF TcAdcIInv, TcAdcTyped, TcAdcWork

LEMMA TcAdcNext == ASSUME TcAdcIInv, TcAdc!Next PROVE TcAdcIInv'
BY TcAdcRequest, TcAdcReceive, TcAdcConfig, TcAdcRead, TcAdcDropStale,
   TcAdcArm, TcAdcWoken, TcAdcGet, TcAdcConverted, TcAdcInterrupt
   DEF TcAdc!Next, TcAdc!Proceed

LEMMA TcAdcStutter ==
    ASSUME TcAdcIInv, UNCHANGED <<usr, srv, hw, hist>> PROVE TcAdcIInv'
BY DEF TcAdcIInv, TcAdcTyped, TcAdc!Call, TcAdcWork, TcAdc!Own, TcAdcAnswers,
       TcAdc!OkIsTrue

LEMMA TcAdcSafe ==
    TcAdcIInv => TcAdc!TypeOK /\ TcAdc!OkIsTrue /\ TcAdc!Traced
<1>1. TcAdcUsers = TcAdc!UserType(TcAdc!Calls, {"ok", "etimeout"})
  BY TcAdcCallsAre DEF TcAdcUsers, TcAdcUser, UserRec, TcAdcRcs, TcAdc!UserType
<1>2. TcAdcIInv => TcAdc!TypeOK
  BY <1>1 DEF TcAdcIInv, TcAdcTyped, TcAdcServer, TcAdcUnit, TcAdcHist,
     TcAdcLines, TcAdc!TypeOK
<1> QED
  BY <1>2
     DEF TcAdcIInv, TcAdcTyped, TcAdcWork, TcAdcAnswers, TcAdcHist,
         TcAdc!Traced

(* TcAdcKeeps.  The ADC server of the TC275: a READ answered OK carries    *)
(* the result of its own conversion, and leaves neither a notification nor *)
(* a conversion behind.                                                    *)
THEOREM TcAdcKeeps ==
    TcAdc!Spec => [](TcAdc!TypeOK /\ TcAdc!OkIsTrue /\ TcAdc!Traced)
<1>1. TcAdc!Init => TcAdcIInv
  BY TcAdcInit
<1>2. TcAdcIInv /\ [TcAdc!Next]_TcAdc!vars => TcAdcIInv'
  BY TcAdcNext, TcAdcStutter DEF TcAdc!vars
<1>3. TcAdcIInv => TcAdc!TypeOK /\ TcAdc!OkIsTrue /\ TcAdc!Traced
  BY TcAdcSafe
<1> QED  BY <1>1, <1>2, <1>3, PTL DEF TcAdc!Spec

HIDE DEF TcAdc!None, TcAdc!Ids, TcAdc!Own, TcAdc!Call, TcAdc!Goto,
         TcAdc!Resting, TcAdc!ServerType, TcAdc!Acked, TcAdc!Taken,
         TcAdc!Delivered

-----------------------------------------------------------------------------
(* The servers with two instances are proved in a module of their own,     *)
(* whose definitions are those of the instances of Servers: TwinA is the   *)
(* AHB controller and the UART of the Linum board, TwinB the AXI controller*)
(* and the UART of the ESP32-P4 board.                                     *)
TwinA == INSTANCE TwinProofs
    WITH Users <- Several, MaxRuns <- Few, Role <- AhbRole,
         UartUsers <- Several, UartRuns <- Many, Depth <- 1,
         Receives <- {"rx", "rx nb"}, AcksAgain <- TRUE, Batch <- 1
TwinB == INSTANCE TwinProofs
    WITH Users <- Single, MaxRuns <- Many, Role <- AxiRole,
         UartUsers <- Several, UartRuns <- Many, Depth <- Fifo,
         Receives <- {"rx nb"}, AcksAgain <- FALSE, Batch <- Burst

LEMMA AhbSame ==
    /\ Ahb!Init <=> TwinA!Init
    /\ Ahb!Next <=> TwinA!Next
    /\ Ahb!TypeOK <=> TwinA!TypeOK
    /\ Ahb!OkIsTrue <=> TwinA!OkIsTrue
    /\ Ahb!Traced <=> TwinA!Traced
BY DEF Ahb!vars, TwinA!vars, Ahb!None, TwinA!None, Ahb!Ids, TwinA!Ids, Ahb!Own,
       TwinA!Own, Ahb!Call, TwinA!Call, Ahb!Fresh, TwinA!Fresh, Ahb!IdleUsers,
       TwinA!IdleUsers, Ahb!Resting, TwinA!Resting, Ahb!Ask, TwinA!Ask,
       Ahb!Recv, TwinA!Recv, Ahb!Reply, TwinA!Reply, Ahb!Goto, TwinA!Goto,
       Ahb!UserType, TwinA!UserType, Ahb!ServerType, TwinA!ServerType,
       Ahb!Line, TwinA!Line, Ahb!LineType, TwinA!LineType, Ahb!Acked,
       TwinA!Acked, Ahb!Enabled, TwinA!Enabled, Ahb!Latched, TwinA!Latched,
       Ahb!Cleared, TwinA!Cleared, Ahb!Taken, TwinA!Taken, Ahb!Due, TwinA!Due,
       Ahb!Delivered, TwinA!Delivered, Ahb!Rx, TwinA!Rx, Ahb!Tx, TwinA!Tx,
       Ahb!Chans, TwinA!Chans, Ahb!Waits, TwinA!Waits, Ahb!Calls, TwinA!Calls,
       Ahb!Side, TwinA!Side, Ahb!Chan, TwinA!Chan, Ahb!Both, TwinA!Both,
       Ahb!Feed, TwinA!Feed, Ahb!Begin, TwinA!Begin, Ahb!Start, TwinA!Start,
       Ahb!Stop, TwinA!Stop, Ahb!After, TwinA!After, Ahb!Answer, TwinA!Answer,
       Ahb!Receive, TwinA!Receive, Ahb!ArmReset, TwinA!ArmReset, Ahb!ArmStart,
       TwinA!ArmStart, Ahb!WaitOpen, TwinA!WaitOpen, Ahb!Woken, TwinA!Woken,
       Ahb!TimesOut, TwinA!TimesOut, Ahb!WaitClose, TwinA!WaitClose,
       Ahb!GiveUp, TwinA!GiveUp, Ahb!ReadRaw, TwinA!ReadRaw, Ahb!Forget,
       TwinA!Forget, Ahb!Verdict, TwinA!Verdict, Ahb!Complete, TwinA!Complete,
       Ahb!DescriptorError, TwinA!DescriptorError, Ahb!Interrupt,
       TwinA!Interrupt, Ahb!Init, TwinA!Init, Ahb!Proceed, TwinA!Proceed,
       Ahb!Next, TwinA!Next, Ahb!Spec, TwinA!Spec, Ahb!Answers, TwinA!Answers,
       Ahb!UsersType, TwinA!UsersType, Ahb!Places, TwinA!Places, Ahb!ChanType,
       TwinA!ChanType, Ahb!TypeOK, TwinA!TypeOK, Ahb!OkIsTrue, TwinA!OkIsTrue,
       Ahb!Traced, TwinA!Traced

LEMMA AxiSame ==
    /\ Axi!Init <=> TwinB!Init
    /\ Axi!Next <=> TwinB!Next
    /\ Axi!TypeOK <=> TwinB!TypeOK
    /\ Axi!OkIsTrue <=> TwinB!OkIsTrue
    /\ Axi!Traced <=> TwinB!Traced
BY DEF Axi!vars, TwinB!vars, Axi!None, TwinB!None, Axi!Ids, TwinB!Ids, Axi!Own,
       TwinB!Own, Axi!Call, TwinB!Call, Axi!Fresh, TwinB!Fresh, Axi!IdleUsers,
       TwinB!IdleUsers, Axi!Resting, TwinB!Resting, Axi!Ask, TwinB!Ask,
       Axi!Recv, TwinB!Recv, Axi!Reply, TwinB!Reply, Axi!Goto, TwinB!Goto,
       Axi!UserType, TwinB!UserType, Axi!ServerType, TwinB!ServerType,
       Axi!Line, TwinB!Line, Axi!LineType, TwinB!LineType, Axi!Acked,
       TwinB!Acked, Axi!Enabled, TwinB!Enabled, Axi!Latched, TwinB!Latched,
       Axi!Cleared, TwinB!Cleared, Axi!Taken, TwinB!Taken, Axi!Due, TwinB!Due,
       Axi!Delivered, TwinB!Delivered, Axi!Rx, TwinB!Rx, Axi!Tx, TwinB!Tx,
       Axi!Chans, TwinB!Chans, Axi!Waits, TwinB!Waits, Axi!Calls, TwinB!Calls,
       Axi!Side, TwinB!Side, Axi!Chan, TwinB!Chan, Axi!Both, TwinB!Both,
       Axi!Feed, TwinB!Feed, Axi!Begin, TwinB!Begin, Axi!Start, TwinB!Start,
       Axi!Stop, TwinB!Stop, Axi!After, TwinB!After, Axi!Answer, TwinB!Answer,
       Axi!Receive, TwinB!Receive, Axi!ArmReset, TwinB!ArmReset, Axi!ArmStart,
       TwinB!ArmStart, Axi!WaitOpen, TwinB!WaitOpen, Axi!Woken, TwinB!Woken,
       Axi!TimesOut, TwinB!TimesOut, Axi!WaitClose, TwinB!WaitClose,
       Axi!GiveUp, TwinB!GiveUp, Axi!ReadRaw, TwinB!ReadRaw, Axi!Forget,
       TwinB!Forget, Axi!Verdict, TwinB!Verdict, Axi!Complete, TwinB!Complete,
       Axi!DescriptorError, TwinB!DescriptorError, Axi!Interrupt,
       TwinB!Interrupt, Axi!Init, TwinB!Init, Axi!Proceed, TwinB!Proceed,
       Axi!Next, TwinB!Next, Axi!Spec, TwinB!Spec, Axi!Answers, TwinB!Answers,
       Axi!UsersType, TwinB!UsersType, Axi!Places, TwinB!Places, Axi!ChanType,
       TwinB!ChanType, Axi!TypeOK, TwinB!TypeOK, Axi!OkIsTrue, TwinB!OkIsTrue,
       Axi!Traced, TwinB!Traced

LEMMA LinumUartSame ==
    /\ LinumUart!Init <=> TwinA!Uart!Init
    /\ LinumUart!Next <=> TwinA!Uart!Next
    /\ LinumUart!TypeOK <=> TwinA!Uart!TypeOK
    /\ LinumUart!OkIsTrue <=> TwinA!Uart!OkIsTrue
    /\ LinumUart!Traced <=> TwinA!Uart!Traced
BY DEF LinumUart!vars, TwinA!Uart!vars, LinumUart!None, TwinA!Uart!None,
       LinumUart!Ids, TwinA!Uart!Ids, LinumUart!Own, TwinA!Uart!Own,
       LinumUart!Call, TwinA!Uart!Call, LinumUart!Fresh, TwinA!Uart!Fresh,
       LinumUart!IdleUsers, TwinA!Uart!IdleUsers, LinumUart!Resting,
       TwinA!Uart!Resting, LinumUart!Ask, TwinA!Uart!Ask, LinumUart!Recv,
       TwinA!Uart!Recv, LinumUart!Reply, TwinA!Uart!Reply, LinumUart!Goto,
       TwinA!Uart!Goto, LinumUart!UserType, TwinA!Uart!UserType,
       LinumUart!ServerType, TwinA!Uart!ServerType, LinumUart!Line,
       TwinA!Uart!Line, LinumUart!LineType, TwinA!Uart!LineType,
       LinumUart!Acked, TwinA!Uart!Acked, LinumUart!Enabled,
       TwinA!Uart!Enabled, LinumUart!Latched, TwinA!Uart!Latched,
       LinumUart!Cleared, TwinA!Uart!Cleared, LinumUart!Taken,
       TwinA!Uart!Taken, LinumUart!Due, TwinA!Uart!Due, LinumUart!Delivered,
       TwinA!Uart!Delivered, LinumUart!Events, TwinA!Uart!Events,
       LinumUart!Levels, TwinA!Uart!Levels, LinumUart!Init, TwinA!Uart!Init,
       LinumUart!Request, TwinA!Uart!Request, LinumUart!Receive,
       TwinA!Uart!Receive, LinumUart!Room, TwinA!Uart!Room, LinumUart!Byte,
       TwinA!Uart!Byte, LinumUart!Ack, TwinA!Uart!Ack, LinumUart!Enable,
       TwinA!Uart!Enable, LinumUart!EnableTx, TwinA!Uart!EnableTx,
       LinumUart!EnableRx, TwinA!Uart!EnableRx, LinumUart!Woken,
       TwinA!Uart!Woken, LinumUart!DisableLate, TwinA!Uart!DisableLate,
       LinumUart!Disable, TwinA!Uart!Disable, LinumUart!Write,
       TwinA!Uart!Write, LinumUart!Take, TwinA!Uart!Take, LinumUart!Transmit,
       TwinA!Uart!Transmit, LinumUart!Arrive, TwinA!Uart!Arrive,
       LinumUart!Interrupt, TwinA!Uart!Interrupt, LinumUart!Proceed,
       TwinA!Uart!Proceed, LinumUart!Next, TwinA!Uart!Next, LinumUart!Spec,
       TwinA!Uart!Spec, LinumUart!Places, TwinA!Uart!Places,
       LinumUart!TypeOK, TwinA!Uart!TypeOK, LinumUart!OkIsTrue,
       TwinA!Uart!OkIsTrue, LinumUart!Traced, TwinA!Uart!Traced,
       LinumUart!Stalled, TwinA!Uart!Stalled

LEMMA EspUartSame ==
    /\ EspUart!Init <=> TwinB!Uart!Init
    /\ EspUart!Next <=> TwinB!Uart!Next
    /\ EspUart!TypeOK <=> TwinB!Uart!TypeOK
    /\ EspUart!OkIsTrue <=> TwinB!Uart!OkIsTrue
    /\ EspUart!Traced <=> TwinB!Uart!Traced
BY DEF EspUart!vars, TwinB!Uart!vars, EspUart!None, TwinB!Uart!None, EspUart!Ids,
       TwinB!Uart!Ids, EspUart!Own, TwinB!Uart!Own, EspUart!Call, TwinB!Uart!Call,
       EspUart!Fresh, TwinB!Uart!Fresh, EspUart!IdleUsers, TwinB!Uart!IdleUsers,
       EspUart!Resting, TwinB!Uart!Resting, EspUart!Ask, TwinB!Uart!Ask,
       EspUart!Recv, TwinB!Uart!Recv, EspUart!Reply, TwinB!Uart!Reply,
       EspUart!Goto, TwinB!Uart!Goto, EspUart!UserType, TwinB!Uart!UserType,
       EspUart!ServerType, TwinB!Uart!ServerType, EspUart!Line, TwinB!Uart!Line,
       EspUart!LineType, TwinB!Uart!LineType, EspUart!Acked, TwinB!Uart!Acked,
       EspUart!Enabled, TwinB!Uart!Enabled, EspUart!Latched, TwinB!Uart!Latched,
       EspUart!Cleared, TwinB!Uart!Cleared, EspUart!Taken, TwinB!Uart!Taken,
       EspUart!Due, TwinB!Uart!Due, EspUart!Delivered, TwinB!Uart!Delivered,
       EspUart!Events, TwinB!Uart!Events, EspUart!Levels, TwinB!Uart!Levels,
       EspUart!Init, TwinB!Uart!Init, EspUart!Request, TwinB!Uart!Request,
       EspUart!Receive, TwinB!Uart!Receive, EspUart!Room, TwinB!Uart!Room,
       EspUart!Byte, TwinB!Uart!Byte, EspUart!Ack, TwinB!Uart!Ack,
       EspUart!Enable, TwinB!Uart!Enable, EspUart!EnableTx, TwinB!Uart!EnableTx,
       EspUart!EnableRx, TwinB!Uart!EnableRx, EspUart!Woken, TwinB!Uart!Woken,
       EspUart!DisableLate, TwinB!Uart!DisableLate, EspUart!Disable,
       TwinB!Uart!Disable, EspUart!Write, TwinB!Uart!Write, EspUart!Take,
       TwinB!Uart!Take, EspUart!Transmit, TwinB!Uart!Transmit, EspUart!Arrive,
       TwinB!Uart!Arrive, EspUart!Interrupt, TwinB!Uart!Interrupt,
       EspUart!Proceed, TwinB!Uart!Proceed, EspUart!Next, TwinB!Uart!Next,
       EspUart!Spec, TwinB!Uart!Spec, EspUart!Places, TwinB!Uart!Places,
       EspUart!TypeOK, TwinB!Uart!TypeOK, EspUart!OkIsTrue, TwinB!Uart!OkIsTrue,
       EspUart!Traced, TwinB!Uart!Traced, EspUart!Stalled, TwinB!Uart!Stalled

LEMMA AhbConstants == TwinA!GdmaConstants
BY ServersAssumption DEF TwinA!GdmaConstants

LEMMA AhbInit == ASSUME Ahb!Init PROVE TwinA!IInv
BY AhbConstants, AhbSame, TwinA!InitIInv

LEMMA AhbNext == ASSUME TwinA!IInv, Ahb!Next PROVE TwinA!IInv'
<1>1. TwinA!Next
  BY AhbSame
<1> QED  BY <1>1, AhbConstants, TwinA!NextIInv

LEMMA AhbStutter ==
    ASSUME TwinA!IInv, UNCHANGED <<usr, srv, hw, hist>> PROVE TwinA!IInv'
BY TwinA!StutterIInv DEF TwinA!vars

LEMMA AhbSafe == TwinA!IInv => Ahb!TypeOK /\ Ahb!OkIsTrue /\ Ahb!Traced
BY AhbConstants, AhbSame, TwinA!Safe

LEMMA AxiConstants == TwinB!GdmaConstants
BY ServersAssumption DEF TwinB!GdmaConstants

LEMMA AxiInit == ASSUME Axi!Init PROVE TwinB!IInv
BY AxiConstants, AxiSame, TwinB!InitIInv

LEMMA AxiNext == ASSUME TwinB!IInv, Axi!Next PROVE TwinB!IInv'
<1>1. TwinB!Next
  BY AxiSame
<1> QED  BY <1>1, AxiConstants, TwinB!NextIInv

LEMMA AxiStutter ==
    ASSUME TwinB!IInv, UNCHANGED <<usr, srv, hw, hist>> PROVE TwinB!IInv'
BY TwinB!StutterIInv DEF TwinB!vars

LEMMA AxiSafe == TwinB!IInv => Axi!TypeOK /\ Axi!OkIsTrue /\ Axi!Traced
BY AxiConstants, AxiSame, TwinB!Safe

LEMMA EspUartConstants == TwinB!UartConstants
BY ServersAssumption DEF TwinB!UartConstants

LEMMA EspUartInit == ASSUME EspUart!Init PROVE TwinB!UartIInv
BY EspUartConstants, EspUartSame, TwinB!UartInitIInv

LEMMA EspUartNext == ASSUME TwinB!UartIInv, EspUart!Next PROVE TwinB!UartIInv'
<1>1. TwinB!Uart!Next
  BY EspUartSame
<1> QED  BY <1>1, EspUartConstants, TwinB!UartNextIInv

LEMMA EspUartStutter ==
    ASSUME TwinB!UartIInv, UNCHANGED <<usr, srv, hw, hist>> PROVE TwinB!UartIInv'
BY TwinB!UartStutterIInv DEF TwinB!Uart!vars

LEMMA EspUartSafe ==
    TwinB!UartIInv =>
       EspUart!TypeOK /\ EspUart!OkIsTrue /\ EspUart!Traced
BY EspUartConstants, EspUartSame, TwinB!UartSafe

LEMMA LinumUartConstants == TwinA!UartConstants
BY ServersAssumption DEF TwinA!UartConstants

LEMMA LinumUartInit == ASSUME LinumUart!Init PROVE TwinA!UartIInv
BY LinumUartConstants, LinumUartSame, TwinA!UartInitIInv

LEMMA LinumUartNext ==
    ASSUME TwinA!UartIInv, LinumUart!Next PROVE TwinA!UartIInv'
<1>1. TwinA!Uart!Next
  BY LinumUartSame
<1> QED  BY <1>1, LinumUartConstants, TwinA!UartNextIInv

LEMMA LinumUartStutter ==
    ASSUME TwinA!UartIInv, UNCHANGED <<usr, srv, hw, hist>>
    PROVE  TwinA!UartIInv'
BY TwinA!UartStutterIInv DEF TwinA!Uart!vars

LEMMA LinumUartSafe ==
    TwinA!UartIInv =>
       LinumUart!TypeOK /\ LinumUart!OkIsTrue /\ LinumUart!Traced
BY LinumUartConstants, LinumUartSame, TwinA!UartSafe

-----------------------------------------------------------------------------
(* The server of a behaviour keeps its own invariant.                      *)
ServersIInv ==
    /\ unit \in Units
    /\ unit = "esp dma" => TwinA!IInv
    /\ unit = "esp axi" => TwinB!IInv
    /\ unit = "esp i2c" => EspI2cIInv
    /\ unit = "esp twai" => EspTwaiIInv
    /\ unit = "esp uart" => TwinB!UartIInv
    /\ unit = "linum i2c" => LinumI2cIInv
    /\ unit = "linum can" => LinumCanIInv
    /\ unit = "linum qspi" => LinumQspiIInv
    /\ unit = "linum touch" => LinumTouchIInv
    /\ unit = "linum uart" => TwinA!UartIInv
    /\ unit = "tc i2c" => TcI2cIInv
    /\ unit = "tc adc" => TcAdcIInv

LEMMA ServersInit == ASSUME Init PROVE ServersIInv
<1>1. CASE unit = "esp dma" /\ Ahb!Init
  BY <1>1, AhbInit DEF ServersIInv, Units
<1>2. CASE unit = "esp axi" /\ Axi!Init
  BY <1>2, AxiInit DEF ServersIInv, Units
<1>3. CASE unit = "esp i2c" /\ EspI2c!Init
  BY <1>3, EspI2cInit DEF ServersIInv, Units
<1>4. CASE unit = "esp twai" /\ EspTwai!Init
  BY <1>4, EspTwaiInit DEF ServersIInv, Units
<1>5. CASE unit = "esp uart" /\ EspUart!Init
  BY <1>5, EspUartInit DEF ServersIInv, Units
<1>6. CASE unit = "linum i2c" /\ LinumI2c!Init
  BY <1>6, LinumI2cInit DEF ServersIInv, Units
<1>7. CASE unit = "linum can" /\ LinumCan!Init
  BY <1>7, LinumCanInit DEF ServersIInv, Units
<1>8. CASE unit = "linum qspi" /\ LinumQspi!Init
  BY <1>8, LinumQspiInit DEF ServersIInv, Units
<1>9. CASE unit = "linum touch" /\ LinumTouch!Init
  BY <1>9, LinumTouchInit DEF ServersIInv, Units
<1>10. CASE unit = "linum uart" /\ LinumUart!Init
  BY <1>10, LinumUartInit DEF ServersIInv, Units
<1>11. CASE unit = "tc i2c" /\ TcI2c!Init
  BY <1>11, TcI2cInit DEF ServersIInv, Units
<1>12. CASE unit = "tc adc" /\ TcAdc!Init
  BY <1>12, TcAdcInit DEF ServersIInv, Units
<1> QED
  BY <1>1, <1>2, <1>3, <1>4, <1>5, <1>6, <1>7, <1>8, <1>9, <1>10, <1>11, <1>12
     DEF Init

LEMMA ServersNext == ASSUME ServersIInv, Next PROVE ServersIInv'
<1>1. CASE On("esp dma") /\ Ahb!Next
  BY <1>1, AhbNext DEF ServersIInv, On
<1>2. CASE On("esp axi") /\ Axi!Next
  BY <1>2, AxiNext DEF ServersIInv, On
<1>3. CASE On("esp i2c") /\ EspI2c!Next
  BY <1>3, EspI2cNext DEF ServersIInv, On
<1>4. CASE On("esp twai") /\ EspTwai!Next
  BY <1>4, EspTwaiNext DEF ServersIInv, On
<1>5. CASE On("esp uart") /\ EspUart!Next
  BY <1>5, EspUartNext DEF ServersIInv, On
<1>6. CASE On("linum i2c") /\ LinumI2c!Next
  BY <1>6, LinumI2cNext DEF ServersIInv, On
<1>7. CASE On("linum can") /\ LinumCan!Next
  BY <1>7, LinumCanNext DEF ServersIInv, On
<1>8. CASE On("linum qspi") /\ LinumQspi!Next
  BY <1>8, LinumQspiNext DEF ServersIInv, On
<1>9. CASE On("linum touch") /\ LinumTouch!Next
  BY <1>9, LinumTouchNext DEF ServersIInv, On
<1>10. CASE On("linum uart") /\ LinumUart!Next
  BY <1>10, LinumUartNext DEF ServersIInv, On
<1>11. CASE On("tc i2c") /\ TcI2c!Next
  BY <1>11, TcI2cNext DEF ServersIInv, On
<1>12. CASE On("tc adc") /\ TcAdc!Next
  BY <1>12, TcAdcNext DEF ServersIInv, On
<1> QED
  BY <1>1, <1>2, <1>3, <1>4, <1>5, <1>6, <1>7, <1>8, <1>9, <1>10, <1>11, <1>12
     DEF Next

LEMMA ServersStutter == ASSUME ServersIInv, UNCHANGED vars PROVE ServersIInv'
<1>1. unit' = unit /\ UNCHANGED <<usr, srv, hw, hist>>
  BY DEF vars
<1>2. CASE unit = "esp dma"
  BY <1>1, <1>2, AhbStutter DEF ServersIInv
<1>3. CASE unit = "esp axi"
  BY <1>1, <1>3, AxiStutter DEF ServersIInv
<1>4. CASE unit = "esp i2c"
  BY <1>1, <1>4, EspI2cStutter DEF ServersIInv
<1>5. CASE unit = "esp twai"
  BY <1>1, <1>5, EspTwaiStutter DEF ServersIInv
<1>6. CASE unit = "esp uart"
  BY <1>1, <1>6, EspUartStutter DEF ServersIInv
<1>7. CASE unit = "linum i2c"
  BY <1>1, <1>7, LinumI2cStutter DEF ServersIInv
<1>8. CASE unit = "linum can"
  BY <1>1, <1>8, LinumCanStutter DEF ServersIInv
<1>9. CASE unit = "linum qspi"
  BY <1>1, <1>9, LinumQspiStutter DEF ServersIInv
<1>10. CASE unit = "linum touch"
  BY <1>1, <1>10, LinumTouchStutter DEF ServersIInv
<1>11. CASE unit = "linum uart"
  BY <1>1, <1>11, LinumUartStutter DEF ServersIInv
<1>12. CASE unit = "tc i2c"
  BY <1>1, <1>12, TcI2cStutter DEF ServersIInv
<1>13. CASE unit = "tc adc"
  BY <1>1, <1>13, TcAdcStutter DEF ServersIInv
<1> QED
  BY <1>2, <1>3, <1>4, <1>5, <1>6, <1>7, <1>8, <1>9, <1>10, <1>11, <1>12, <1>13
     DEF ServersIInv, Units

LEMMA ServersSafe == ServersIInv => TypeOK /\ OkIsTrue /\ Traced
<1> SUFFICES ASSUME ServersIInv PROVE TypeOK /\ OkIsTrue /\ Traced
  OBVIOUS
<1>1. CASE unit = "esp dma"
  <2>1. Ahb!TypeOK /\ Ahb!OkIsTrue /\ Ahb!Traced
    BY <1>1, AhbSafe DEF ServersIInv
  <2> QED  BY <1>1, <2>1 DEF TypeOK, OkIsTrue, Traced
<1>2. CASE unit = "esp axi"
  <2>1. Axi!TypeOK /\ Axi!OkIsTrue /\ Axi!Traced
    BY <1>2, AxiSafe DEF ServersIInv
  <2> QED  BY <1>2, <2>1 DEF TypeOK, OkIsTrue, Traced
<1>3. CASE unit = "esp i2c"
  <2>1. EspI2c!TypeOK /\ EspI2c!OkIsTrue /\ EspI2c!Traced
    BY <1>3, EspI2cSafe DEF ServersIInv
  <2> QED  BY <1>3, <2>1 DEF TypeOK, OkIsTrue, Traced
<1>4. CASE unit = "esp twai"
  <2>1. EspTwai!TypeOK /\ EspTwai!OkIsTrue /\ EspTwai!Traced
    BY <1>4, EspTwaiSafe DEF ServersIInv
  <2> QED  BY <1>4, <2>1 DEF TypeOK, OkIsTrue, Traced
<1>5. CASE unit = "esp uart"
  <2>1. EspUart!TypeOK /\ EspUart!OkIsTrue /\ EspUart!Traced
    BY <1>5, EspUartSafe DEF ServersIInv
  <2> QED  BY <1>5, <2>1 DEF TypeOK, OkIsTrue, Traced
<1>6. CASE unit = "linum i2c"
  <2>1. LinumI2c!TypeOK /\ LinumI2c!OkIsTrue /\ LinumI2c!Traced
    BY <1>6, LinumI2cSafe DEF ServersIInv
  <2> QED  BY <1>6, <2>1 DEF TypeOK, OkIsTrue, Traced
<1>7. CASE unit = "linum can"
  <2>1. LinumCan!TypeOK /\ LinumCan!OkIsTrue /\ LinumCan!Traced
    BY <1>7, LinumCanSafe DEF ServersIInv
  <2> QED  BY <1>7, <2>1 DEF TypeOK, OkIsTrue, Traced
<1>8. CASE unit = "linum qspi"
  <2>1. LinumQspi!TypeOK /\ LinumQspi!OkIsTrue /\ LinumQspi!Traced
    BY <1>8, LinumQspiSafe DEF ServersIInv
  <2> QED  BY <1>8, <2>1 DEF TypeOK, OkIsTrue, Traced
<1>9. CASE unit = "linum touch"
  <2>1. LinumTouch!TypeOK /\ LinumTouch!OkIsTrue /\ LinumTouch!Traced
    BY <1>9, LinumTouchSafe DEF ServersIInv
  <2> QED  BY <1>9, <2>1 DEF TypeOK, OkIsTrue, Traced
<1>10. CASE unit = "linum uart"
  <2>1. LinumUart!TypeOK /\ LinumUart!OkIsTrue /\ LinumUart!Traced
    BY <1>10, LinumUartSafe DEF ServersIInv
  <2> QED  BY <1>10, <2>1 DEF TypeOK, OkIsTrue, Traced
<1>11. CASE unit = "tc i2c"
  <2>1. TcI2c!TypeOK /\ TcI2c!OkIsTrue /\ TcI2c!Traced
    BY <1>11, TcI2cSafe DEF ServersIInv
  <2> QED  BY <1>11, <2>1 DEF TypeOK, OkIsTrue, Traced
<1>12. CASE unit = "tc adc"
  <2>1. TcAdc!TypeOK /\ TcAdc!OkIsTrue /\ TcAdc!Traced
    BY <1>12, TcAdcSafe DEF ServersIInv
  <2> QED  BY <1>12, <2>1 DEF TypeOK, OkIsTrue, Traced
<1> QED
  BY <1>1, <1>2, <1>3, <1>4, <1>5, <1>6, <1>7, <1>8, <1>9, <1>10, <1>11, <1>12
     DEF ServersIInv, Units

LEMMA ServersInvariance == Spec => []ServersIInv
<1>1. Init => ServersIInv
  BY ServersInit
<1>2. ServersIInv /\ [Next]_vars => ServersIInv'
  BY ServersNext, ServersStutter
<1> QED  BY <1>1, <1>2, PTL DEF Spec

-----------------------------------------------------------------------------
(* ServersTyped.  The variables of all the servers keep their types.       *)
THEOREM ServersTyped == Spec => []TypeOK
<1>1. ServersIInv => TypeOK
  BY ServersSafe
<1> QED  BY <1>1, ServersInvariance, PTL

(* AnswersAreTrue.  Whatever the threads ask for and however late or early *)
(* the interrupts are: an answer OK is true of the request it answers, in  *)
(* the sense the module of each server states.                             *)
THEOREM AnswersAreTrue == Spec => []OkIsTrue
<1>1. ServersIInv => OkIsTrue
  BY ServersSafe
<1> QED  BY <1>1, ServersInvariance, PTL

(* NothingLeftBehind.  What a request leaves behind for the next one, and  *)
(* an interrupt left masked under a server that sleeps, is traced to a     *)
(* wait that was given up or to an event found early.                      *)
THEOREM NothingLeftBehind == Spec => []Traced
<1>1. ServersIInv => Traced
  BY ServersSafe
<1> QED  BY <1>1, ServersInvariance, PTL
=============================================================================
