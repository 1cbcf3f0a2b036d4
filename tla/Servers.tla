------------------------------ MODULE Servers ------------------------------
(***************************************************************************)
(* The servers that follow ServerKit side by side: a behaviour is one of   *)
(* one server and the threads that call it.  The variables are those of    *)
(* ServerKit; only the constants of the modules differ.                    *)
(***************************************************************************)
EXTENDS Integers

CONSTANTS
    Single, Several,    (* the threads that call a server: two sets, as some *)
    Few, Many,          (*   servers are checked with fewer than others, and *)
                        (*   two bounds on the requests made to one          *)
    AhbRole, AxiRole,       (* thread -> "spi", "adc" or "mem": see EspGdma  *)
    MaxFrames,  (* bound on the frames of the other CAN node                 *)
    MaxTouches, (* bound on the touches of the panel                         *)
    Fifo,       (* bytes the ESP32-P4 transmitter holds                      *)
    Burst,      (* bytes of one of its transmit calls, at most               *)
    MaxBytes    (* bound on the bytes a UART receives                        *)

Units == {"esp dma", "esp axi", "esp i2c", "esp twai", "esp uart",
          "linum i2c", "linum can", "linum qspi", "linum touch",
          "linum uart", "tc i2c", "tc adc"}

ASSUME ServersAssumption ==
    /\ Single # {} /\ Several # {} /\ Few \in Nat /\ Many \in Nat
    /\ MaxFrames \in Nat /\ MaxTouches \in Nat /\ MaxBytes \in Nat
    /\ Fifo \in Nat \ {0} /\ Burst \in Nat

VARIABLES unit,                     (* the server: never changes             *)
          usr, srv, hw, hist

vars == <<unit, usr, srv, hw, hist>>

Ahb == INSTANCE EspGdma WITH Users <- Several, MaxRuns <- Few, Role <- AhbRole
Axi == INSTANCE EspGdma WITH Users <- Single, MaxRuns <- Many, Role <- AxiRole
EspI2c  == INSTANCE EspI2c WITH Users <- Several, MaxRuns <- Few
EspTwai == INSTANCE EspTwai WITH Users <- Several, MaxRuns <- Many
LinumI2c == INSTANCE LinumI2c WITH Users <- Several, MaxRuns <- Few
LinumCan == INSTANCE LinumCan WITH Users <- Several, MaxRuns <- Many
LinumQspi == INSTANCE LinumQspi WITH Users <- Several, MaxRuns <- Many
LinumTouch == INSTANCE LinumTouch WITH Users <- Several, MaxRuns <- Few
TcI2c == INSTANCE TcI2c WITH Users <- Single, MaxRuns <- Few
TcAdc == INSTANCE TcAdc WITH Users <- Several, MaxRuns <- Many

(* The transmit register of the Linum board, the FIFO of the other.        *)
LinumUart == INSTANCE UartServer
    WITH Users <- Several, MaxRuns <- Many, Depth <- 1,
         Receives <- {"rx", "rx nb"}, AcksAgain <- TRUE, Batch <- 1
EspUart   == INSTANCE UartServer
    WITH Users <- Several, MaxRuns <- Many, Depth <- Fifo,
         Receives <- {"rx nb"}, AcksAgain <- FALSE, Batch <- Burst

On(name) == unit = name /\ UNCHANGED unit

Init ==
    \/ unit = "esp dma"     /\ Ahb!Init
    \/ unit = "esp axi"     /\ Axi!Init
    \/ unit = "esp i2c"     /\ EspI2c!Init
    \/ unit = "esp twai"    /\ EspTwai!Init
    \/ unit = "esp uart"    /\ EspUart!Init
    \/ unit = "linum i2c"   /\ LinumI2c!Init
    \/ unit = "linum can"   /\ LinumCan!Init
    \/ unit = "linum qspi"  /\ LinumQspi!Init
    \/ unit = "linum touch" /\ LinumTouch!Init
    \/ unit = "linum uart"  /\ LinumUart!Init
    \/ unit = "tc i2c"      /\ TcI2c!Init
    \/ unit = "tc adc"      /\ TcAdc!Init

Next ==
    \/ On("esp dma")     /\ Ahb!Next
    \/ On("esp axi")     /\ Axi!Next
    \/ On("esp i2c")     /\ EspI2c!Next
    \/ On("esp twai")    /\ EspTwai!Next
    \/ On("esp uart")    /\ EspUart!Next
    \/ On("linum i2c")   /\ LinumI2c!Next
    \/ On("linum can")   /\ LinumCan!Next
    \/ On("linum qspi")  /\ LinumQspi!Next
    \/ On("linum touch") /\ LinumTouch!Next
    \/ On("linum uart")  /\ LinumUart!Next
    \/ On("tc i2c")      /\ TcI2c!Next
    \/ On("tc adc")      /\ TcAdc!Next

(* What the servers, their interrupts and, where a module says so, the     *)
(* hardware do by themselves.                                              *)
Proceed ==
    \/ On("esp dma")     /\ Ahb!Proceed
    \/ On("esp axi")     /\ Axi!Proceed
    \/ On("esp i2c")     /\ EspI2c!Proceed
    \/ On("esp twai")    /\ EspTwai!Proceed
    \/ On("esp uart")    /\ EspUart!Proceed
    \/ On("linum i2c")   /\ LinumI2c!Proceed
    \/ On("linum can")   /\ LinumCan!Proceed
    \/ On("linum qspi")  /\ LinumQspi!Proceed
    \/ On("linum touch") /\ LinumTouch!Proceed
    \/ On("linum uart")  /\ LinumUart!Proceed
    \/ On("tc i2c")      /\ TcI2c!Proceed
    \/ On("tc adc")      /\ TcAdc!Proceed

Spec == Init /\ [][Next]_vars

FairSpec == Spec /\ WF_vars(Proceed)

-----------------------------------------------------------------------------
(* The variables keep their types.                                         *)
TypeOK ==
    CASE unit = "esp dma"     -> Ahb!TypeOK
      [] unit = "esp axi"     -> Axi!TypeOK
      [] unit = "esp i2c"     -> EspI2c!TypeOK
      [] unit = "esp twai"    -> EspTwai!TypeOK
      [] unit = "esp uart"    -> EspUart!TypeOK
      [] unit = "linum i2c"   -> LinumI2c!TypeOK
      [] unit = "linum can"   -> LinumCan!TypeOK
      [] unit = "linum qspi"  -> LinumQspi!TypeOK
      [] unit = "linum touch" -> LinumTouch!TypeOK
      [] unit = "linum uart"  -> LinumUart!TypeOK
      [] unit = "tc i2c"      -> TcI2c!TypeOK
      [] unit = "tc adc"      -> TcAdc!TypeOK

(* An answer OK is true of the request it answers: the bytes were moved,   *)
(* the slave acknowledged, the frame came back, in spite of events of the  *)
(* requests before it.  Each module names the cases in which it is not.    *)
OkIsTrue ==
    CASE unit = "esp dma"     -> Ahb!OkIsTrue
      [] unit = "esp axi"     -> Axi!OkIsTrue
      [] unit = "esp i2c"     -> EspI2c!OkIsTrue
      [] unit = "esp twai"    -> EspTwai!OkIsTrue
      [] unit = "esp uart"    -> EspUart!OkIsTrue
      [] unit = "linum i2c"   -> LinumI2c!OkIsTrue
      [] unit = "linum can"   -> LinumCan!OkIsTrue
      [] unit = "linum qspi"  -> LinumQspi!OkIsTrue
      [] unit = "linum touch" -> LinumTouch!OkIsTrue
      [] unit = "linum uart"  -> LinumUart!OkIsTrue
      [] unit = "tc i2c"      -> TcI2c!OkIsTrue
      [] unit = "tc adc"      -> TcAdc!OkIsTrue

(* A request leaves nothing behind for the next (a transfer, a latched     *)
(* event, a notification) and no interrupt is left masked under a server   *)
(* that sleeps, except where a wait was given up or found its event early. *)
Traced ==
    CASE unit = "esp dma"     -> Ahb!Traced
      [] unit = "esp axi"     -> Axi!Traced
      [] unit = "esp i2c"     -> EspI2c!Traced
      [] unit = "esp twai"    -> EspTwai!Traced
      [] unit = "esp uart"    -> EspUart!Traced
      [] unit = "linum i2c"   -> LinumI2c!Traced
      [] unit = "linum can"   -> LinumCan!Traced
      [] unit = "linum qspi"  -> LinumQspi!Traced
      [] unit = "linum touch" -> LinumTouch!Traced
      [] unit = "linum uart"  -> LinumUart!Traced
      [] unit = "tc i2c"      -> TcI2c!Traced
      [] unit = "tc adc"      -> TcAdc!Traced

(* The waits without bound that nothing may end.                           *)
Stalled ==
    CASE unit = "esp uart"    -> EspUart!Stalled
      [] unit = "linum i2c"   -> LinumI2c!Stalled
      [] unit = "linum can"   -> LinumCan!Stalled
      [] unit = "linum qspi"  -> LinumQspi!Stalled
      [] unit = "linum touch" -> LinumTouch!Stalled
      [] unit = "linum uart"  -> LinumUart!Stalled
      [] unit = "tc i2c"      -> TcI2c!Stalled
      [] unit = "tc adc"      -> TcAdc!Stalled
      [] OTHER                -> FALSE

(* Every request is answered, unless the server waits for ever for what    *)
(* nobody sends: a lost wake-up leaves it asleep although something came.  *)
Answered ==
    <>[]Stalled \/ \A u \in Single \cup Several :
        []<>(u \in DOMAIN usr => usr[u].at = "idle")
=============================================================================
