----------------------------- MODULE LinumStart -----------------------------
(***************************************************************************)
(* Start-up of the Witte Linum board: ulmk_board_init, board_services_init,*)
(* board_devices_register and the *_init functions of its drivers, as      *)
(* plans (StartKit).                                                       *)
(***************************************************************************)
EXTENDS StartKit

-----------------------------------------------------------------------------
(* Servers.  Most map their registers before the first receive and return  *)
(* when that fails; the display's server also creates its notification,    *)
(* binds and enables its interrupt and maps the SDRAM first.               *)

DmaWorker     == Server("dmaw", "maps", "none")
DmaDispatcher == Server("dma", "receives", "handle")
I2cServer     == Server("i2c", "maps", "handle")
AdcServer     == Server("adc", "maps", "handle")
TouchServer   == Server("touch", "maps", "handle")
QspiServer    == Server("qspi", "maps", "handle")
CanServer(can) == Server(can, "maps", "own")
UartServer    == Server("uart", "maps", "own")
PwmServer     == Server("pwm", "maps", "handle")
DisplayServer == Server("display", "maps", "handle")
GpioServer    == Server("gpio", "receives", "handle")
PinmuxServer  == Server("pinmux", "receives", "handle")
ConsoleServer == Server("console", "receives", "handle")
DisplayDmServer == Server("disp_dm", "receives", "handle")
TouchDmServer   == Server("touch_dm", "receives", "handle")

-----------------------------------------------------------------------------
(* Drivers.                                                                *)

(* A worker serves no endpoint, so OneServer does not count it.  When      *)
(* dma_init fails half-way and is called again it creates another worker   *)
(* for each slot.  One of the failed call that has run by then stays       *)
(* blocked on the notification of that call, whose handle has been         *)
(* replaced; one that has not would wait for the jobs of its successor.    *)
(*                                                                         *)
(* Faulty variant: the worker is never granted its capabilities.           *)
DmaSlotUngranted == << Try("notifs"), Try("bind"), Try("enable"),
                       Thread(DmaWorker, {}) >>

DmaSlot == << Try("notifs"), Try("bind"), Try("enable"),
              Thread(DmaWorker, {}), Grant >>

DmaInit == Plan("dma",
    << Leave("dma.ready", "ok"), NewBoundEp >>
    \o DmaSlot \o DmaSlot \o DmaSlot \o
    << Thread(DmaDispatcher, {}), Grant, Mark("dma.ready") >>)

I2cInit == Plan("i2c",
    << Leave("i2c", "fail"), Must("dma_init"), Ask("dma"), Ask("dma"),
       NewBoundEp, Try("notif"), Try("bind"), Try("enable"),
       Thread(I2cServer, {}), Grant >>)

AdcInit == Plan("adc",
    << Leave("adc", "fail"), Must("dma_init"), Ask("dma"),
       NewBoundEp, Thread(AdcServer, {}), Grant >>)

TouchInit == Plan("touch",
    << Leave("touch", "fail"), NewBoundEp, Try("notif"), Try("bind"),
       Try("enable"), Thread(TouchServer, {}), Grant >>)

QspiInit == Plan("qspi",
    << Leave("qspi", "fail"), NewBoundEp, Try("notif"), Try("bind"),
       Try("enable"), Thread(QspiServer, {}), Grant >>)

CanInit(can) == Plan(can,
    << Leave(can, "fail"), NewEp, Try("notif"), Try("bind"),
       Try("enable"), Thread(CanServer(can), {}), Grant, Bind >>)

UartInit == Plan("uart",
    << Leave("uart", "fail"), NewEp, TryOr("notif", {"ep"}), Try("bind"),
       Try("enable"), Thread(UartServer, {"ep"}), Grant, Bind >>)

PwmInit == Plan("pwm",
    << Leave("pwm", "fail"), NewBoundEp, Thread(PwmServer, {}), Grant >>)

DisplayInit == Plan("display",
    << Leave("display", "fail"), NewBoundEp,
       Thread(DisplayServer, {}), Grant >>)

GpioInit == Plan("gpio",
    << Leave("gpio", "fail"), NewEp, Thread(GpioServer, {"ep"}), Grant,
       Bind >>)

PinmuxInit == Plan("pinmux",
    << Leave("pinmux", "fail"), NewEp, Thread(PinmuxServer, {"ep"}), Grant,
       Bind >>)

(* The adapters start the driver they stand for when nobody has.           *)
DisplayDmInit == Plan("display_dm",
    << Unless("display", 1), Must("display_init"),
       Leave("display_dm", "fail"), NewBoundEp,
       Thread(DisplayDmServer, {}), Grant >>)

TouchDmInit == Plan("touch_dm",
    << Unless("touch", 1), Must("touch_init"),
       Leave("touch_dm", "fail"), NewBoundEp, Thread(TouchDmServer, {}) >>)

-----------------------------------------------------------------------------
(* Board services and devices.                                             *)

ConsoleStart == Plan("console", << NewBoundEp, Thread(ConsoleServer, {}) >>)

TimerStart == Plan("timer", << Try("map timer"), Mark("timer on") >>)

LedsInit == Plan("leds", << Ask("gpio") >>)

ServicesInit == Plan("services",
    << Also("pinmux_init"), Also("console_start"), Also("timer_start"),
       Also("gpio_init"), IfOk(1), Also("leds_init") >>)

Backlight == Plan("backlight", << Ask("pwm"), Ask("pwm") >>)

DevicesRegister == Plan("devices",
    << Try("manager"), Must("display_init"), Try("map sdram"),
       Must("display_dm_init"), Try("register"), Mark("/dev/disp0"),
       Also("pwm_init"), IfOk(1), Also("backlight"),
       Also("i2c_init"),
       Must("touch_init"), Must("touch_dm_init"),
       Try("register"), Mark("/dev/input0") >>)

MapFb == Plan("map_fb", << Try("map sdram") >>)

-----------------------------------------------------------------------------
(* ulmk_board_init.  Every poll is bounded and its failure ignored.        *)

(* Faulty variant: the wait states follow the switch to the PLL.           *)
ClockInitLateLatency == Plan("clocks",
    << Mark("syscfg"), Mark("ldo"), AwaitOrGoOn("actvos"),
       Write({"actvos"}, {"vos1 asked"}), AwaitOrGoOn("vos1"),
       Write({"syscfg", "vos1"}, {"overdrive"}), AwaitOrGoOn("vos0"),
       AwaitOrGoOn("hse"),
       Write({"hse"}, {"pll on"}), AwaitOrGoOn("pll lock"),
       Mark("dividers"),
       Write({"pll lock", "vos0", "wait states", "dividers"}, {"480 MHz"}),
       AwaitOrGoOn("wait states"), AwaitOrGoOn("switched") >>)

(* Supply, voltage, wait states, HSE, PLL, dividers, switch.               *)
ClockInit == Plan("clocks",
    << Mark("syscfg"), Mark("ldo"), AwaitOrGoOn("actvos"),
       Write({"actvos"}, {"vos1 asked"}), AwaitOrGoOn("vos1"),
       Write({"syscfg", "vos1"}, {"overdrive"}), AwaitOrGoOn("vos0"),
       AwaitOrGoOn("wait states"),
       AwaitOrGoOn("hse"),
       Write({"hse"}, {"pll on"}), AwaitOrGoOn("pll lock"),
       Mark("dividers"),
       Write({"pll lock", "vos0", "wait states", "dividers"}, {"480 MHz"}),
       AwaitOrGoOn("switched") >>)

PeriphClocks == << Mark("gpio clk"), Mark("fmc clk"), Mark("usart clk") >>

EarlyUsart1 == << Write({"gpio clk", "usart clk"}, {"usart"}) >>
EarlyLeds   == << Write({"gpio clk"}, {"leds on"}) >>
FmcPinmux   == << Write({"gpio clk"}, {"fmc pins"}) >>

(* A command to the SDRAM is followed by a bounded wait.                   *)
SdramCmd(needs, done) == << Write(needs, {}), AwaitOrGoOn(done) >>

FmcSdramInit == Plan("sdram",
    FmcPinmux \o
    << Write({"fmc clk", "fmc pins"}, {"fmc on"}) >>
    \o SdramCmd({"fmc on"}, "sdclk")
    \o SdramCmd({"sdclk"}, "precharged")
    \o SdramCmd({"precharged"}, "refreshed")
    \o SdramCmd({"refreshed"}, "mode")
    \o << Write({"mode"}, {"refresh"}) >>)

(* The privileged probe leaves a marker, SDOK or SDFA, which               *)
(* board_sdram_ready tests before it probes again.                         *)
SdramMark == << Check({"mode", "refresh"}, "SDOK") >>

SdramReady == Plan("sdram_ready",
    << Require("SDOK"), Check({"SDOK"}, "sdram works"),
       Require("sdram works") >>)

BoardInit == Plan("boot",
    << Must("clock_init") >> \o PeriphClocks \o EarlyUsart1 \o EarlyLeds
    \o << Must("sdram_init") >> \o SdramMark \o << Also("sdram_ready") >>)

-----------------------------------------------------------------------------
(* The demonstrations.                                                     *)

Demo(steps) == Plan("root", << Also("services") >> \o steps)

AdcScan      == Demo(<< Must("adc_init"), Ask("adc") >>)
CanLoopback  == Demo(<< Must("can0_init"), Must("can1_init"), Ask("can0"),
                        Ask("can1") >>)
PwmBacklight == Demo(<< Must("pwm_init"), Ask("pwm"), Ask("pwm") >>)
QspiJedec    == Demo(<< Must("qspi_init"), Ask("qspi") >>)
TouchXy      == Demo(<< Must("devices_register"), Probe("i2c"),
                        Probe("touch") >>)
SdramSmoke   == Demo(<< Require("SDOK"), Try("map sdram"),
                        Must("sdram_ready") >>)

LinumPlans ==
    [dma_init |-> DmaInit, i2c_init |-> I2cInit, adc_init |-> AdcInit,
     touch_init |-> TouchInit, qspi_init |-> QspiInit,
     can0_init |-> CanInit("can0"), can1_init |-> CanInit("can1"),
     uart_init |-> UartInit, pwm_init |-> PwmInit,
     display_init |-> DisplayInit, gpio_init |-> GpioInit,
     pinmux_init |-> PinmuxInit, display_dm_init |-> DisplayDmInit,
     touch_dm_init |-> TouchDmInit, console_start |-> ConsoleStart,
     timer_start |-> TimerStart, leds_init |-> LedsInit,
     services |-> ServicesInit, backlight |-> Backlight,
     devices_register |-> DevicesRegister, map_fb |-> MapFb,
     clock_init |-> ClockInit, sdram_init |-> FmcSdramInit,
     sdram_ready |-> SdramReady, board_init |-> BoardInit,
     adc_scan |-> AdcScan, can_loopback |-> CanLoopback,
     pwm_backlight |-> PwmBacklight, qspi_jedec |-> QspiJedec,
     touch_xy |-> TouchXy, sdram_smoke |-> SdramSmoke]
=============================================================================
