------------------------------ MODULE TcStart -------------------------------
(***************************************************************************)
(* Start-up of the TC275 board: ulmk_board_init, board_services_init and   *)
(* the *_init functions of the drivers and device-manager adapters, as     *)
(* plans (StartKit).                                                       *)
(***************************************************************************)
EXTENDS StartKit

-----------------------------------------------------------------------------
(* Drivers.  ASCLIN, CAN and I2C map their module before the first receive *)
(* and spin or stop when that fails; ADC and PWM, whose comments name the  *)
(* race, map after the first message; the others map on demand.            *)

AsclinServer  == Server("asclin", "maps", "own")
CanServer     == Server("can", "maps", "own")
I2cServer     == Server("i2c", "maps", "own")
AdcServer     == Server("adc", "receives", "handle")
PwmServer     == Server("pwm", "receives", "handle")
PinmuxServer  == Server("pinmux", "receives", "own")
GpioIrqServer == Server("gpio_irq", "receives", "none")
GpioIpcServer == Server("gpio_ipc", "receives", "own")
ConsoleServer == Server("bcon", "receives", "handle")
AdcDmServer   == Server("adc_dm", "receives", "handle")
CanDmServer   == Server("can_dm", "receives", "handle")
GpioDmServer  == Server("gpio_dm", "receives", "handle")
PwmDmServer   == Server("pwm_dm", "receives", "handle")

AsclinInit == Plan("asclin",
    << Leave("asclin", "fail"), NewEp, TryOr("notif", {"ep"}),
       Try("bind tx"), Try("bind rx"), Try("enable tx"), Try("enable rx"),
       Thread(AsclinServer, {"ep"}), Grant, Bind >>)

CanInit == Plan("can",
    << Leave("can", "fail"), NewEp, TryOr("notif", {"ep"}), Try("bind"),
       Try("enable"), Thread(CanServer, {"ep"}), Grant, Bind >>)

I2cInit == Plan("i2c",
    << Leave("i2c", "fail"), NewEp, TryOr("notif", {"ep"}), Try("bind"),
       Try("enable"), Thread(I2cServer, {"ep"}), Grant, Bind >>)

AdcInit == Plan("adc",
    << Leave("adc", "fail"), NewBoundEp, TryOr("notif", {"ep", "handle"}),
       Try("bind"), Try("enable"),
       Thread(AdcServer, {"ep", "handle"}), Grant >>)

(* Faulty variant: the channels are configured before there is a thread.   *)
PwmInitConfigures == Plan("pwm",
    << Leave("pwm", "fail"), NewBoundEp, Ask("pwm"),
       Thread(PwmServer, {"ep", "handle"}), Grant >>)

PwmInit == Plan("pwm",
    << Leave("pwm", "fail"), NewBoundEp,
       Thread(PwmServer, {"ep", "handle"}), Grant >>)

(* Faulty variant: a port that cannot be mapped leaves the endpoint.       *)
PinmuxInitLeaky == Plan("pinmux",
    << Leave("pinmux", "fail"), NewEp, Try("map ports"),
       Thread(PinmuxServer, {"ep"}), Grant, Bind >>)

PinmuxInit == Plan("pinmux",
    << Leave("pinmux", "fail"), NewEp, TryOr("map ports", {"ep"}),
       Thread(PinmuxServer, {"ep"}), Grant, Bind >>)

(* The ERU is mapped and its interrupt server started once, whatever the   *)
(* outcome of the rest.                                                    *)
GpioInit == Plan("gpio",
    << Leave("gpio", "fail"), NewEp,
       Unless("gpio.scu", 2), TryOr("map eru", {"ep"}), Mark("gpio.scu"),
       Unless("gpio.eru", 6),
           TryOr("notif", {"ep"}), Try("bind"), Try("enable"),
           Thread(GpioIrqServer, {"ep"}), Grant, Mark("gpio.eru"),
       Thread(GpioIpcServer, {"ep"}), Grant, Bind >>)

-----------------------------------------------------------------------------
(* Board services.                                                         *)

(* The handle is reset first and, on the last failure, again; the endpoint *)
(* stays.                                                                  *)
ConsoleStart == Plan("bcon",
    << Unbind, Must("asclin_init"), NewBoundEp,
       Thread(ConsoleServer, {"handle"}) >>)

TimerStart == Plan("timer", << Try("map stm0"), Mark("tick") >>)

(* Every pin is configured and set by calls of the GPIO server.            *)
LedsInit == Plan("leds", << Ask("gpio") >>)

ServicesInit == Plan("services",
    << Also("pinmux_init"), Also("console_start"), Also("timer_start"),
       Also("gpio_init"), IfOk(1), Also("leds_init") >>)

-----------------------------------------------------------------------------
(* Device-manager adapters: the adapter is started before the driver it    *)
(* stands for; *.opened is g_ctx.opened, without which open is refused.    *)

(* Faulty variant: the adapter is never told that its driver runs.         *)
AdcDmInitClosed == Plan("adc_dm",
    << Leave("adc_dm", "ok"), NewBoundEp, Clear("adc_dm.opened"),
       Thread(AdcDmServer, {"ep", "handle"}), Must("adc_init") >>)

AdcDmInit == Plan("adc_dm",
    << Leave("adc_dm", "ok"), NewBoundEp, Clear("adc_dm.opened"),
       Thread(AdcDmServer, {"ep", "handle"}),
       Must("adc_init"), Mark("adc_dm.opened") >>)

CanDmInit == Plan("can_dm",
    << Leave("can_dm", "ok"), NewEp, Clear("can_dm.opened"), Bind,
       Thread(CanDmServer, {"ep", "handle"}),
       Must("can_init"), Mark("can_dm.opened") >>)

GpioDmInit == Plan("gpio_dm",
    << Leave("gpio_dm", "ok"), NewEp, Mark("gpio_dm.opened"), Bind,
       Thread(GpioDmServer, {"ep", "handle"}), Also("gpio_init") >>)

PwmDmInit == Plan("pwm_dm",
    << Leave("pwm_dm", "ok"), NewBoundEp, Mark("pwm_dm.opened"),
       Thread(PwmDmServer, {"ep", "handle"}) >>)

PwmDmBindHw == Plan("pwm_dm_hw", << Must("pwm_init") >>)

MgrInit == Plan("mgr",
    << Leave("manager", "ok"), Try("manager"), Mark("manager") >>)

(* board_devices_register_*: refused without a handle of the adapter.      *)
RegisterDevice(adapter, device) == Plan("register",
    << Require(adapter), Must("mgr_init"), Try("register"), Mark(device) >>)

-----------------------------------------------------------------------------
(* ulmk_board_init.  "cpu" and "safety" hold while the ENDINIT window of   *)
(* that watchdog is open: only then do protected registers take a write.   *)

Open(window)  == Write({}, {window})
Close(window) == Drop({window}, {window})

WdtDisableCpu0 == Plan("wdt",
    << Open("cpu"), Write({"cpu"}, {"cpu wdt off"}), Close("cpu") >>)

WdtDisableSafety == Plan("wdt",
    << Open("safety"), Write({"safety"}, {"safety wdt off"}),
       Close("safety") >>)

(* The oscillator is polled a bounded number of times; the caller closes   *)
(* its window and gives up, with the SMU trap still disabled.              *)
OscWaitStable == << AwaitOrDrop("osc", "safety") >>

(* Trap off, back to the back-up clock, oscillator, VCO lock, PLL at a low *)
(* frequency, wait states, then the ramp: K2 may only change when ready    *)
(* and, above the back-up frequency, with the wait states in place.        *)
SlowPll ==
    << Open("cpu"), Write({"cpu"}, {"trap off"}), Close("cpu"),
       Open("safety"), Await("mux"), Drop({"safety", "mux"}, {"pll clock"}),
       Await("insel"), Write({"safety", "insel"}, {"xtal"}) >>
    \o OscWaitStable \o
    << Close("safety"), Open("safety"), Await("k2"),
       Drop({"safety", "k2"}, {"k2"}), Write({"safety", "osc"}, {"pll on"}),
       Await("vco"), Drop({"safety", "vco"}, {"bypass"}),
       Await("mux"), Write({"safety", "mux", "vco"}, {"pll clock"}),
       Await("insel"), Write({"safety", "insel"}, {"dividers"}),
       Close("safety") >>

WaitStates ==
    << Open("cpu"), Write({"cpu"}, {"wait states"}), Close("cpu") >>

RampK2 ==
    << Open("safety"), Await("k2"),
       Drop({"safety", "k2", "pll clock", "wait states"}, {"k2"}),
       Close("safety") >>

PllInit == Plan("pll",
    SlowPll \o WaitStates \o RampK2 \o RampK2 \o RampK2 \o
    << Open("safety"), Write({"safety"}, {"osc watched"}), Close("safety"),
       Open("cpu"), Drop({"cpu"}, {"trap off"}), Close("cpu") >>)

(* Clocks of modules are enabled under both windows and waited for a       *)
(* bounded time, with no consequence.                                      *)
Under(needs, sets) ==
    << Open("cpu"), Open("safety"), Write({"cpu", "safety"} \cup needs, sets),
       Close("safety"), Close("cpu") >>

ConsoleClocks == Plan("clc",
    Under({}, {}) \o << AwaitOrGoOn("asclin clk"), AwaitOrGoOn("stm clk") >>)

ExtraPeriphs == Plan("clc",
    Under({}, {})
    \o << AwaitOrGoOn("i2c clk"), AwaitOrGoOn("vadc clk"),
          AwaitOrGoOn("can clk"), AwaitOrGoOn("gtm clk") >>
    \o Under({"can clk"}, {"can fdr"})
    \o << Must("i2c0_hw_init") >>)

I2c0HwInit == Plan("i2c0",
    << Open("cpu"), Open("safety"), Await("i2c rmc"), Await("i2c clk"),
       Write({"cpu", "safety", "i2c clk"}, {"i2c0 on"}),
       Close("safety"), Close("cpu") >>)

BoardInit == Plan("boot",
    << Must("wdt_cpu0"), Must("wdt_safety"),
       Open("safety"), Write({"safety"}, {"esr0"}), Close("safety"),
       Also("pll_init"), Also("console_clocks"), Also("extra_periphs") >>)

(* A secondary core: halted, given its entry and set running; it then      *)
(* disables its own watchdog under its own window.                         *)
CpuStart == Plan("core1",
    << AwaitOrGoOn("halted"), Write({"halted"}, {"pc"}),
       Open("safety"), Write({"safety"}, {"awake"}), Close("safety"),
       Drop({"pc", "awake"}, {"halted"}) >>)

CpuEndinitClear == << Open("cpu1") >>
CpuEndinitSet   == << Close("cpu1") >>

CpuWdtDisableSelf == Plan("core1",
    << Leave("cpu1 wdt off", "ok") >> \o CpuEndinitClear
    \o << Write({"cpu1"}, {"cpu1 wdt off"}) >> \o CpuEndinitSet)

-----------------------------------------------------------------------------
(* The demonstrations of the adapters (components/*_dm).                   *)

AdcPotDm == Plan("root",
    << Also("services"), Must("adc_dm_init"), Must("register_adc") >>)
CanLoopbackDm == Plan("root",
    << Also("services"), Must("can_dm_init"), Must("register_can") >>)
GpioLedNotifyDm == Plan("root",
    << Also("services"), Must("gpio_dm_init"), Must("register_gpio") >>)
PwmLedDm == Plan("root",
    << Also("services"), Must("pwm_dm_init"), Must("register_pwm"),
       Must("pwm_dm_bind_hw") >>)

(* The demonstrations that use the drivers directly.                       *)
Demo(steps) == Plan("root", << Also("services") >> \o steps)

AdcPot      == Demo(<< Must("adc_init"), Ask("adc") >>)
CanLoopback == Demo(<< Must("can_init"), Ask("can") >>)
PwmLed      == Demo(<< Must("pwm_init"), Ask("pwm"), Ask("pwm") >>)
GpioLed     == Demo(<< Probe("gpio"), Ask("gpio") >>)
I2cScanner  == Demo(<< Must("i2c_init"), Try("notif"), Try("worker"),
                       Ask("i2c") >>)
SmpTpsPwm   == Demo(<< Must("adc_init"), Ask("adc"), Must("pwm_init"),
                       Ask("pwm"), Try("endpoint"), Try("server"),
                       Try("clients") >>)

TcPlans ==
    [asclin_init |-> AsclinInit, can_init |-> CanInit, i2c_init |-> I2cInit,
     adc_init |-> AdcInit, pwm_init |-> PwmInit, pinmux_init |-> PinmuxInit,
     gpio_init |-> GpioInit, console_start |-> ConsoleStart,
     timer_start |-> TimerStart, leds_init |-> LedsInit,
     services |-> ServicesInit, adc_dm_init |-> AdcDmInit,
     can_dm_init |-> CanDmInit, gpio_dm_init |-> GpioDmInit,
     pwm_dm_init |-> PwmDmInit, pwm_dm_bind_hw |-> PwmDmBindHw,
     mgr_init |-> MgrInit,
     register_adc |-> RegisterDevice("adc_dm", "/dev/adc0"),
     register_can |-> RegisterDevice("can_dm", "/dev/can0"),
     register_gpio |-> RegisterDevice("gpio_dm", "/dev/gpio0"),
     register_pwm |-> RegisterDevice("pwm_dm", "/dev/pwm0"),
     adc_pot_dm |-> AdcPotDm, can_loopback_dm |-> CanLoopbackDm,
     gpio_led_notify_dm |-> GpioLedNotifyDm, pwm_led_dm |-> PwmLedDm,
     adc_pot |-> AdcPot, can_loopback |-> CanLoopback, pwm_led |-> PwmLed,
     gpio_led |-> GpioLed, i2c_scanner |-> I2cScanner,
     smp_tps_pwm |-> SmpTpsPwm,
     wdt_cpu0 |-> WdtDisableCpu0, wdt_safety |-> WdtDisableSafety,
     pll_init |-> PllInit, console_clocks |-> ConsoleClocks,
     extra_periphs |-> ExtraPeriphs, i2c0_hw_init |-> I2c0HwInit,
     board_init |-> BoardInit, cpu_start |-> CpuStart,
     cpu_wdt_disable_self |-> CpuWdtDisableSelf]
=============================================================================
