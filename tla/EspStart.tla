------------------------------ MODULE EspStart ------------------------------
(***************************************************************************)
(* Start-up of the ESP32-P4 board: ulmk_board_init, board_services_init,   *)
(* board_devices_register, the *_init functions of its drivers, the PSRAM  *)
(* and DSI bring-up and the demonstrations, as plans (StartKit).           *)
(***************************************************************************)
EXTENDS StartKit

-----------------------------------------------------------------------------
(* Servers.  The registers of this board are not mapped, so every server   *)
(* can receive at once.  GPIO takes its endpoint from the table when it    *)
(* starts, which is why the table is filled before it is created.          *)

Serving(name) == Server(name, "receives", "handle")
Owning(name)  == Server(name, "receives", "own")

-----------------------------------------------------------------------------
(* Drivers.                                                                *)

AdcInit == Plan("adc", << NewBoundEp, Thread(Serving("adc"), {}), Grant >>)

(* A driver ready to take its interrupt says so before it has its thread.  *)
ReadyInit(driver, ready) == Plan(driver,
    << Leave(ready, "fail"), NewBoundEp, Try("notif"), Try("bind"),
       Try("enable"), Mark(ready), Thread(Owning(driver), {}), Grant >>)

CanInit  == ReadyInit("can", "can.ready")
UartInit == ReadyInit("uart", "uart.ready")

(* Faulty variant: the guard on the handle is missing.                     *)
DmaInitUnguarded == Plan("dma",
    << NewBoundEp, Try("hw"), Try("notif"), Try("bind"),
       Try("enable"), Thread(Owning("dma"), {}), Grant >>)

DmaInit == Plan("dma",
    << Leave("dma", "fail"), NewBoundEp, Try("hw"), Try("notif"),
       Try("bind"), Try("enable"), Thread(Owning("dma"), {}), Grant >>)

GdmaAxiInit == Plan("gdma_axi",
    << Leave("gdma_axi", "fail"), NewBoundEp, Try("hw"), Try("notif"),
       Try("bind"), Try("enable"), Thread(Owning("gdma_axi"), {}), Grant >>)

(* The second call answers the thread of the first: valid or not.          *)
I2cInit == Plan("i2c",
    << Leave("i2c", "i2c.tid"), NewBoundEp, Try("notif"), Try("bind"),
       Try("enable"), Thread(Serving("i2c"), {}), Mark("i2c.tid"), Grant >>)

GpioInit == Plan("gpio",
    << Leave("gpio", "fail"), NewEp, Bind,
       Thread(Owning("gpio"), {"ep", "handle"}), Grant >>)

PinmuxInit == Plan("pinmux",
    << Leave("pinmux", "fail"), NewEp, Thread(Owning("pinmux"), {"ep"}),
       Grant, Bind >>)

PwmInit == Plan("pwm",
    << Leave("pwm", "fail"), NewBoundEp, Thread(Serving("pwm"), {}),
       Grant >>)

(* Both DMA slots are opened by calls of the GDMA-AXI server.              *)
SpiInit(spi) == Plan(spi,
    << Leave(spi, "fail"), Ask("gdma_axi"), Ask("gdma_axi"), NewEp, Bind,
       Thread(Owning(spi), {"ep", "handle"}), Grant >>)

(* The panel's controller is looked for at two addresses.                  *)
TouchInit == Plan("touch",
    << Must("i2c_init"), Probe("i2c"), Probe("i2c"),
       NewBoundEp, Thread(Owning("touch"), {}) >>)

(* The frame buffers are in the PSRAM if it is ready.                      *)
DisplayBuffers == Plan("display",
    << Require("axi"),
       Write({"window", "refined", "read back"}, {"psram fb"}) >>)

DisplayInit == Plan("display",
    << Must("dsi_init"), Also("display_buffers"), NewBoundEp,
       Thread(Owning("display"), {}), Grant >>)

DisplayDmInit == Plan("display_dm",
    << Unless("display", 1), Must("display_init"),
       Leave("display_dm", "fail"), NewBoundEp,
       Thread(Serving("display_dm"), {}) >>)

TouchDmInit == Plan("touch_dm",
    << Unless("touch", 1), Must("touch_init"),
       Leave("touch_dm", "fail"), NewBoundEp,
       Thread(Serving("touch_dm"), {}) >>)

-----------------------------------------------------------------------------
(* Board services and devices.  The PSRAM comes after pinmux and GPIO; the *)
(* error responses it masks are armed again whatever its outcome.          *)

TimerStart == Plan("timer", << Mark("tick") >>)

(* Nobody asks whether the endpoint of the services could be created.      *)
(* Without it their server ends, as it cannot receive, and the rest of     *)
(* the board starts all the same.                                          *)
BsvcEp == Plan("bsvc", << NewBoundEp >>)

ServicesInit == Plan("bsvc",
    << Also("bsvc_ep"), Thread(Serving("bsvc"), {}),
       Also("timer_start"), Also("pinmux_init"), Also("gpio_init"),
       Also("psram_init"), Clear("err off"), Mark("bus timeouts"),
       Also("uart_init") >>)

DevicesRegister == Plan("devices",
    << Try("manager"), Must("display_init"), Must("display_dm_init"),
       Try("register"), Mark("/dev/disp0"),
       Must("touch_init"), Must("touch_dm_init"),
       Try("register"), Mark("/dev/input0") >>)

-----------------------------------------------------------------------------
(* ulmk_board_init: watchdogs off, then the core to 400 MHz.  While its PLL*)
(* is configured the core runs from the crystal; when the calibration does *)
(* not end it stays there.  The dividers change before the clock does.     *)

CpuSetDividers ==
    << Mark("apb div"), Await("bus"), Mark("sys div"), Await("bus"),
       Mark("mem div"), Await("bus"), Mark("cpu div"), Await("bus") >>

CpuClkSet400m == Plan("cpu_clk",
    << Mark("cpll on"), Clear("cpll clock"), Await("bus"),
       Write({"cpll on"}, {"cpll set"}), AwaitOrFail("cpll") >>
    \o CpuSetDividers
    \o << Write({"cpll", "apb div", "sys div", "mem div", "cpu div"},
                {"cpll clock"}) >>)

WdtDisable ==
    << Mark("lp key"), Write({"lp key"}, {"lp wdt off"}), Clear("lp key"),
       Mark("timg key"), Write({"timg key"}, {"timg wdt off"}),
       Clear("timg key") >>

BoardInit == Plan("boot",
    WdtDisable \o << Mark("u console"), Also("cpu_clk_set_400m") >>)

-----------------------------------------------------------------------------
(* PSRAM.  The PLL is calibrated in three attempts, the chip probed by     *)
(* commands, then the window behind the caches opened; without the window  *)
(* the bring-up still succeeds, and it is not tried again.                 *)

MpllCalOnce == Plan("mpll",
    << Write({"psram rail"}, {"mpll set"}), AwaitOrFail("mpll ok") >>)

MpllEnable400m == Plan("mpll",
    << Leave("mpll ok", "ok"), Mark("psram rail"),
       Also("mpll_cal_once"), Leave("mpll ok", "ok"),
       Also("mpll_cal_once"), Leave("mpll ok", "ok"),
       Also("mpll_cal_once"), Require("mpll ok") >>)

ClocksAndPins == << Write({"mpll ok"}, {"psram clk"}) >>
InitModeRegs  == << Write({"psram clk"}, {"psram mode"}) >>
ProbeChip     == << AwaitOrFail("psram chip") >>

PsramInit == Plan("psram",
    << Leave("psram ok", "ok"), Must("mpll_enable_400m") >>
    \o ClocksAndPins \o InitModeRegs \o ProbeChip
    \o << Mark("psram ok"), Also("psram_enable_axi") >>)

(* Sweeps at the tuned speed, verified at the end.                         *)
TimingTune ==
    << Drop({"psram mode"}, {"tuned"}), Mark("slow bus"), Clear("slow bus"),
       AwaitOrFail("tuned") >>

TimingApply == << Write({"tuned"}, {"timing"}) >>
TimingRefineAxi ==
    << Write({"window", "timing"}, {}), AwaitOrFail("refined") >>

(* The interface is configured, the timing found and applied, and only     *)
(* then is the window mapped, refined, tested and declared ready.          *)
PsramEnableAxi == Plan("psram",
    << Require("psram ok"), Leave("axi", "ok"), Mark("err off"),
       Write({}, {"axi config", "var dummy"}), Clear("var dummy") >>
    \o TimingTune \o << Mark("var dummy") >> \o TimingApply
    \o << Try("map window"),
          Write({"err off", "axi config", "var dummy", "timing"},
                {"window"}) >>
    \o TimingRefineAxi
    \o << AwaitOrFail("read back"), Mark("axi") >>)

-----------------------------------------------------------------------------
(* The DSI link: rail, clocks, reset, PHY; the panel is sent its commands  *)
(* with polls that go on, and the link is left in command mode.            *)

LdoVo3Mipi       == << Mark("mipi rail") >>
DsiClocksEnable  == << Mark("dsi clk") >>
LcdReset         == << Mark("lcd reset") >>
PhyPll1000m      == << Write({"mipi rail", "dsi clk", "phy up"},
                             {"phy pll"}) >>
WaitPhyReady     == << AwaitOrFail("phy lock"), AwaitOrFail("phy lanes") >>
BridgeTiming     == << Write({"dsi clk"}, {"bridge"}) >>
HostTiming       == << Write({"host"}, {"video timing"}) >>

Ek79007InitCmds ==
    << AwaitOrGoOn("command room"), Write({"host", "command room"}, {"panel"}),
       AwaitOrGoOn("commands sent") >>

DsiInit == Plan("dsi",
    << Leave("dsi ok", "ok") >>
    \o LdoVo3Mipi \o DsiClocksEnable \o LcdReset
    \o << Write({"dsi clk"}, {"phy up"}) >>
    \o BridgeTiming \o PhyPll1000m \o WaitPhyReady
    \o << Write({"phy lock", "phy lanes"}, {"host"}) >>
    \o Ek79007InitCmds \o HostTiming
    \o << Write({"video timing"}, {"command mode"}), Mark("dsi ok") >>)

-----------------------------------------------------------------------------
(* The demonstrations.                                                     *)

Demo(steps) == Plan("root", << Also("services") >> \o steps)

AdcScan      == Demo(<< Must("dma_init"), Must("adc_init"), Ask("adc"),
                        Ask("dma") >>)
CanLoopback  == Demo(<< Also("can_init"), Ask("can") >>)
DmaMemcpy    == Demo(<< Must("dma_init"), Ask("dma") >>)
GdmaMemcpy   == Demo(<< Must("gdma_axi_init"), Ask("gdma_axi") >>)
PwmBacklight == Demo(<< Must("pwm_init"), Ask("pwm") >>)
SpiLoopback  == Demo(<< Must("gdma_axi_init"), Must("spi0_init"),
                        Must("spi1_init"), Ask("spi0"), Ask("spi1") >>)
SmpSpiCan    == Demo(<< Must("gdma_axi_init"), Must("spi0_init"),
                        Must("can_init"), Ask("spi0"), Ask("can") >>)
DisplayTouch == Demo(<< Must("devices_register"), Ask("touch_dm") >>)

EspPlans ==
    [adc_init |-> AdcInit, can_init |-> CanInit, uart_init |-> UartInit,
     dma_init |-> DmaInit, gdma_axi_init |-> GdmaAxiInit,
     i2c_init |-> I2cInit, gpio_init |-> GpioInit,
     pinmux_init |-> PinmuxInit, pwm_init |-> PwmInit,
     spi0_init |-> SpiInit("spi0"), spi1_init |-> SpiInit("spi1"),
     touch_init |-> TouchInit, display_buffers |-> DisplayBuffers,
     display_init |-> DisplayInit,
     display_dm_init |-> DisplayDmInit, touch_dm_init |-> TouchDmInit,
     timer_start |-> TimerStart, bsvc_ep |-> BsvcEp,
     services |-> ServicesInit,
     devices_register |-> DevicesRegister,
     cpu_clk_set_400m |-> CpuClkSet400m, board_init |-> BoardInit,
     mpll_cal_once |-> MpllCalOnce, mpll_enable_400m |-> MpllEnable400m,
     psram_init |-> PsramInit, psram_enable_axi |-> PsramEnableAxi,
     dsi_init |-> DsiInit, adc_scan |-> AdcScan,
     can_loopback |-> CanLoopback, dma_memcpy |-> DmaMemcpy,
     gdma_memcpy |-> GdmaMemcpy, pwm_backlight |-> PwmBacklight,
     spi_loopback |-> SpiLoopback, smp_spi_can |-> SmpSpiCan,
     display_touch |-> DisplayTouch]
=============================================================================
