# Formal models of the TR5 D8M/HDMI designs

The repository holds FPGA designs for the Terasic TR5 board. Two of them carry
logic of their own, and this directory models it in TLA+, checks the models with
TLC and proves the properties that matter most with TLAPS.

* `src/TR5_HDMI_FMC` is an HDMI loop-through: an ADV7619 receiver, an SII9136
  transmitter, and a Nios II processor that configures both over I2C.
* `src/TR5_D8M_FMC_RTL` shows the picture of the D8M camera on HDMI: state
  machines in Verilog configure the MIPI bridge, the camera, its lens motor and
  an ADV7513 encoder over I2C, and a frame buffer carries the picture across.

## 1. Inventory

The paths below are relative to the directory of each design.

### TR5_HDMI_FMC

| component | state | operations | interacts with |
|---|---|---|---|
| EDID provisioning (`main.c:259`, `HDMI_RX.c:49-88`) | loop indices, the table read back; two EEPROMs that survive power loss | verify, write, verify again, print | the I2C master, on buses of their own |
| port selection (`main.c:333-383`) and measurement (`main.c:117`) | `bClkDetected`, `bPreClkDetected`, `PortSelValue`, `PrePortSelValue`; register 0x00 of the HDMI map of the chip | poll the TMDS clocks, select a port, measure it | `hdmi_isr`, through the chip and through the bus |
| `hdmi_isr`, `hdmi_interrupt_init` (`HDMI_RX.c:137-203`) | none of its own; the statuses of the chip | read the cables, select a port, clear the statuses, clear the edge capture | preempts everything above |
| I2C master (`terasic_lib/I2C.c`) | the SCL and SDA PIOs | `I2C_Write`, `I2C_Read` by `i2c_start`, `i2c_write`, `i2c_read`, `i2c_stop` | called by the main loop and by the handler, without a lock |
| interrupt PIO (`TR5_QSYS_adv7619_int.v`) | edge capture, mask | capture of the falling edge of INT | `hdmi_isr` |
| debug output (`altera_avalon_jtag_uart_write.c`, `altera_avalon_jtag_uart_init.c`) | two ring buffers, `irq_enable`, `host_inactive` | `write()`, the interrupt handler, the callback of an alarm | every `printf`, through `alt_write`; the device, and a host behind it |
| tick and alarm (`alt_tick.c`, `alt_alarm_start.c`, `altera_avalon_timer_sc.c`) | tick counter, time and rollover flag of the alarm | `alt_tick` at the timer interrupt | calls the driver's callback once a second |
| transmitter driver (`HDMI_TX.c`) | registers of the SII9136 | a list of writes | I2C master |
| video path (`TR5_FMC_HDMI.v`, `fifo.v`) | a dual-clock FIFO, 32 deep | write every cycle, read from 8 words up | none |

What is hard here is preemption. `hdmi_isr` runs five I2C transactions at any
PIO access of the main loop, on the same two pins; both write the same register
of the chip; and the interrupt is edge-captured from a line that is a level.
Power may fail while an EEPROM is being rewritten, and any transaction may be
answered by a NACK. The debug output is interrupted too: `write()` and its
handler share a ring buffer and `irq_enable`, and `write()` may wait for a host
that is not there, with a count of seconds as its only way out.

What makes each part correct:

* provisioning: what is printed of an EEPROM is true; a boot without NACKs
  leaves every EEPROM good, whatever earlier boots left; a good EEPROM is not
  rewritten; the boot ends;
* port selection: every cable change reaches the handler; the chip is on the
  port that was chosen, and in the end on a port with a clock;
* I2C master: the result of a call is true; what was acknowledged is stored and
  nothing else is; the bus is free between calls;
* debug output: what `write()` took reaches the host in order, once; no wake-up
  of the handler is lost; `write()` returns with or without a host; the host is
  given up only when it was silent, and the alarm that finds that out survives
  the rollover of the tick counter.

### TR5_D8M_FMC_RTL

| component | state | operations | interacts with |
|---|---|---|---|
| bridge and camera configuration (`V_D8M/MIPI_BRIDGE_CONFIG.v`, `MIPI_CAMERA_CONFIG.v`, `MIPI_BRIDGE_CAMERA_Config.v`, `V/I2C_*.v`) | place in the table, delays, three I2C engines each, the release flag | set a pointer (polling for an ACK), read the chip's ID, write the table | engines through GO and END; the camera waits for the bridge; the lens motor takes over the camera's bus |
| encoder configuration (`V_HDMI_TX_Reconfig/I2C_HDMI_Config.v`, `I2C_Controller.v`) | `LUT_INDEX`, `mSetup_ST`, `SD_COUNTER`, END, ACK | send a table entry by entry, again on a hot plug | the two machines through GO, END and ACK; the encoder's interrupt |
| autofocus (`V_Auto/*.v`) | coarse and fine step, the count of the last frames, its peak and the step of it, the delays of `AUTO_FOC` and of `READY` | sweep, find the peak, search again finely around it | lens motor over I2C, the picture, video timing, `AUTO_FOC`; the configuration, which releases the bus |
| frame buffer and timing (`V_D8M/ON_CHIP_FRAM.v`, `RAW2RGB_J.v`, `Line_Buffer_J.v`, `VGA_Controller/`) | addresses, H and V counters, Bayer phase | write at the camera clock, read at the video clock | each other |
| audio tone, gamma, Bezier, binning | none that matters | data path | none |

What is hard here is that all hand-shakes are between registered machines, so
that each sees the other a clock late; that tables of hundreds of entries are
walked with delays, refusals and resets in between; and that a level (the hot
plug interrupt, a busy device) may change at any clock. The autofocus acts on
counts that are some frames late, and notes with them the step of now; and it
begins by a clock of its own (2.0 s), half a second before the lens is told
anything (150 frames).

What makes each part correct: the table moves on only when its entry has been
sent; when a part reports that it has finished, the device holds the table; two
engines never drive a bus at once; and a configuration does finish. A focus
search ends, and ends near the sharpest step.

Other generated and vendored code (the rest of the board support package, the
Qsys system, PLLs, `db/`, `output_files/`, simulation models) is not modelled.

## 2. Modules

| module | what it is |
|---|---|
| `EdidProvision` | abstract specification of the provisioning |
| `RxEdid`, `MCRxEdid`, `RxEdidProofs` | `WriteRxEDID` and what it calls; implements `EdidProvision` |
| `RxPort`, `MCRxPort`, `RxPortProofs` | the main loop, `Meaurement`, `hdmi_isr`, the interrupt PIO and the chip |
| `I2CMaster`, `MCI2CMaster`, `I2CMasterProofs` | `I2C.c`, one PIO access per step, with its two callers |
| `HdmiTxConfig`, `MCHdmiTxConfig`, `HdmiTxConfigProofs` | the encoder configuration of the camera design |
| `MipiConfig`, `MCMipiConfig`, `MipiConfigProofs` | the bridge and the camera configuration, with their I2C engines |
| `ByteChannel` | abstract specification of the debug output: a channel of bounded capacity |
| `JtagUart`, `JtagUartProofs` | `write()`, the handler, the tick and its alarm, the device and the host; implements `ByteChannel` |
| `Autofocus`, `AutofocusProofs` | the coarse and the fine search for the sharpest step |

Each component has one module with its constants and their assumptions, its
variables, its actions and its properties. The `MC` module, where constants need
more than a `.cfg` can say, extends it with the values TLC needs, and the
`Proofs` module with the theorems. `PROJECT.json` gives the source lines of
every definition.

A definition preceded by a comment that begins with `Mutant:` is the definition
that follows it with a plausible bug; it is used by no behaviour, and shows that
a property would notice the bug.

### RxEdid

A step is one I2C transaction. `phase` says which of the three calls of
`WriteRxEDID` (`main.c:259-283`) is running: `verify`, `write` or `recheck`;
`port` and `i` are its loop indices, and `match` is the comparison that
`HDMIRX_VerifyEeprom` makes at its end, kept as it goes. `ReadByte`, `ReadNack`
and `Compare` are that function, `WriteByte`, `WriteNack` and `WriteEnd` are
`HDMIRX_WriteEeprom`, and `VerifyReturns` and `Finish` are what `WriteRxEDID`
does with the result. A byte is abstracted to whether it equals the byte of
`szDefaultEDID` at its place, so the EEPROMs start with any contents. A NACK may
answer any transaction; a write whose acknowledge alone was lost is stored all
the same. `PowerLoss` comes at any step, and may spoil the byte whose write
cycle is running. `EdidProvision` is the promise without the loops: an EEPROM is
programmed in one step and its verdict never flatters it. The refinement mapping
takes `good` to the EEPROMs whose bytes are all right, and `up` to `phase #
"off"`.

### RxPort

A step is one I2C transaction of either party, since a transaction is the
smallest thing that changes the chip or reads it. `pc` is the place of the main
loop: `initClear` and `initUnmask` are `hdmi_interrupt_init`; `scan`, `choose`,
`setPort` and `sleep` are `main.c:333-383`; `meas*` and `poll*` are
`Meaurement`. `isr` is the place of `hdmi_isr`. `At` says that the main loop
takes no step while the handler runs or is due: it is a processor with one
interrupt level. The handler may be entered before any step of the loop, which
stands for an interrupt before that transaction or inside it; `torn` remembers
it, and a torn transaction may not reach the chip, or give any result.
`I2CMaster` shows, bit by bit, that this is what happens to it. The chip latches
a status for each cable, asserts INT while one is latched, and the PIO captures
the falling edge of INT: a change that finds INT asserted makes no edge. The
variables of `history` change nothing; they say what is owed to the handler, and
whether INT was lost.

### I2CMaster

A step is one write or read of the SCL or the SDA PIO. The segments of `I2C.c`
are sequences of accesses, in the order of the source: `i2c_start`, `i2c_stop`,
`i2c_write` and `i2c_read`; `After` is the control flow of `I2C_Write` and
`I2C_Read`, with the repeated START that `I2C_Read` sends even after a NACK.
`MainAccess` and `HandlerAccess` execute the frames of the two callers; the
handler may start one at any access of the main loop, and the loop stands still
until it returns. A byte is a function from its bits, the first first, to 0 and
1, and `i` is the loop counter of `i2c_write` and `i2c_read`: a frame is at a
step of a pass of a segment, and `Onward` takes it to the next one, through
`After` when the last pass is over. The device follows the two lines alone:
START, STOP and the edges of SCL. It is external, and may have an address nobody
calls, refuse any byte, and store a byte at its last bit or at the ACK.

### HdmiTxConfig

A step is a rising edge of `mI2C_CTRL_CLK`, at which both machines move:
`Config` is the walk of `I2C_HDMI_Config.v:72-105` over the table, and
`Controller` the frame of `I2C_Controller.v`, whose counter is kept value by
value so that `END` and `ACK` change exactly when they do in the code. The
levels of SDA and SCL between those values are left out. `PllReset` and
`HotPlug` come between any two edges.

### MipiConfig

A step is a rising edge of `CLK_400K`, at which the walker, the register behind
the table and the three engines all move on what they saw before it. The states
have the numbers of the source. `Camera` chooses between the two walkers: the
camera asks for its ID until it is right and has no wait at its end, and its
writes are one byte shorter. The bytes are abstracted to the entry of the table
they were fetched from, fetched as late as the engine does it (`WriteByte`), so
that loading the next entry too soon would show. The table of the camera is a
case statement with gaps and duplicates: `NoEntry` is a label that is missing,
at which the table register keeps what it has. The chip is external: it may
sleep through polls of its address, and refuse other bytes within a budget; the
reset of the machines is also its reset (`MIPI_RESET_n` and `CAMERA_PWDN_n`,
`D8M_FMC.v:140-141`). `Engines` says what the bus does when at most one engine
is busy; `OneEngine` shows that this is always so.

### JtagUart

A step of the processor is an access to something the handler, the tick or the
device also accesses. The interrupts are taken in the order of
`alt_irq_handler.c`, which takes the lowest first and does not nest: the tick
(0), the device (3), then the main program; `Processor` is that choice. `Load`,
`Copy`, `Advance`, `Kick`, `WaitOut`, `WaitHost` and `Test` are the loops of
`write()` access by access, and `Room` the characters that fit without wrapping.
`Turn` reads the control register once, for RI, WI and the room of the FIFO, and
`ReadChar`, `ReadFull`, `WriteChar` and `WriteEnd` act on what it read. `Tick`
is `alt_tick` up to the first access of the callback, `TimeoutCallback` the
rest: in between the host may poll and set the activity bit that is then
cleared. The characters are named by the order in which they were taken, so that
a loss, a copy or a swap shows in what the host gets; `fifo` and `rxFifo` are
the FIFOs of the device. The host polls and types at any step, as often or as
seldom as it likes. `got` and `idle` change nothing: the last character the host
received, and the ticks since it polled. The refinement mapping takes what has
been put into the channel to `Accepted`, the characters behind `tx_in`.

### Autofocus

A step is a rising edge of VS, at which `F_VCM` moves (`Coarse`, `Fine`), then
`VCM_CTRL_P` on the new values (`Peak`), `I2C_DELAY` counts its frames (`Delay`),
and `VCM_I2C` tells the lens a step (`Tell`), unless `READY` is low and holds it
in reset: then the lens stays where it is. Between any two edges the
configuration releases the bus (`Configured`, which stands for all of
`MipiConfig`) or is started over (`Lose`), which resets both delays and
`AUTO_FOC`; `AUTO_FOC` rises some frames behind the release or with the button
(`Rise`) and falls with it (`Drop`); or the scene moves (`Scene`). The fall of
`AUTO_FOC` resets `F_VCM` without waiting for the edge (`Stop`). The widths are
those of the source: `STEP_f` has eleven bits, of which `STEP` keeps ten
(`Cut`). What is outside is a lens that follows, a picture that shows it `Lag`
frames later, and a sharpness that falls off evenly on both sides of the best
step. Two variables are history, read by the properties only: `calm` says for
how many frames `AUTO_FOC` was low, with this scene and the lens at step 0,
before the search; `from` is the first step of the search that the lens was
told, or 0 when it was told all.

## 3. Runs

| run | question | size |
|---|---|---|
| `rx_edid` | are the verdicts true, and do EEPROMs get good, through NACKs and power failures? | 1,801 states |
| `rx_port` | which cable changes reach the handler, and what may the loop rely on? | 429,934 |
| `rx_port_measure` | finding: `Meaurement` can undo the choice of the handler | violation |
| `rx_port_active` | finding: the chip can stay on a port without a clock | violation |
| `i2c_master` | are the results of calls true when the handler calls inside a call? | 1,886,388 |
| `i2c_clk_low` | finding: data can change at a high clock | violation |
| `hdmi_tx_config` | does a finished table mean a configured encoder, and does it finish? | 1.2 million |
| `mipi_bridge` | one engine at a time, entries sent in order, END never stale, bus let go? | 221,742 |
| `mipi_camera` | is the camera written to only when it is there, and does that end? | 218,571 |
| `mipi_camera_table` | finding: a register the table lists is never written | violation |
| `jtag_uart` | does all that `write()` takes reach the host, and does it return, whatever the host does? | 1,092,570 |
| `autofocus` | where does a search end, and does it end? | 1,415,876 |

What the passing runs show:

* `rx_edid`: what is printed of an EEPROM is true for as long as the boot lasts
  (`VerdictSound`); a boot without NACKs leaves all good
  (`CleanBootProvisions`); no good EEPROM is rewritten unless a NACK came
  (`NoNeedlessWear`); the boot ends (`BootEnds`); the whole implements
  `EdidProvision` with its fairness (`ImplementsProvision`).
* `rx_port`: clearing the statuses before the capture flag loses no cable change
  but those in three narrow windows (`OwedIsPending`, `NeverDeafOtherwise`),
  named by `Deafens`: before the flag is cleared at start, behind the clearing
  of the status of port A, and behind that of both. After such a change the
  handler never runs again (`DeafForGood`): INT stays low. While it does not run
  the main loop owns the port register (`LoopOwnsPort`), and in the end its idea
  of the clocks is right even if reads were torn (`LoopTracksClock`).
* `i2c_master`: calls of the handler always tell the truth, and so do calls of
  the loop that were not interrupted (`WholeCallsAreTrue`,
  `HandlerCallsAreTrue`); a write that returns TRUE is stored even when
  interrupted (`AcknowledgedIsStored`); an interrupted write can store a value
  whose last bit was turned into a 1 by the START of the handler, and nothing
  worse (`NothingElseStored`); between calls the bus is free (`BusFree`).
* `hdmi_tx_config`: `END` and `ACK` lag by a clock or two, and the walker
  nevertheless never passes an entry the encoder has not stored
  (`MovesOnWhenStored`), but for entry 0 after a reset, where `END` is that of
  the reset. That is harmless only because a later entry repeats it
  (`FinishedIsConfigured`). It finishes, and sends the table again after a hot
  plug (`Finishes`); a hot plug in the middle of the table is missed in part.
* `mipi_bridge`, `mipi_camera`: never two engines on the bus (`OneEngine`); the
  walker moves on from a write only when it was sent, each byte from that entry
  (`MovesOnWhenSent`); nothing is skipped (`InOrder`); a released bus has all
  its entries sent and is at rest for good (`ReleasedIsDone`), which is what
  lets the camera and then the lens motor use it; the camera is written to only
  after it told its ID (`CameraIsThere`); the configuration ends
  (`GetsReleased`). A refused byte is lost without a trace: the ACK of a
  register write is connected to nothing.
* `jtag_uart`: the driver, the device and the host implement a channel of
  `BUF_LEN - 1 + Depth` characters (`ReachesHost`): nothing is lost, doubled or
  swapped. While there is something to send, the interrupt is on or `write()` is
  about to turn it on (`Awake`): the handler, which turns it off when it saw an
  empty buffer, cannot undo that. The alarm goes off at its tick and at no
  other, across both rollovers (`AlarmOnTime`), and a second counts as silent
  only if the host did not poll in any of it (`SilentWhenCounted`), although the
  activity bit is read and cleared by two accesses. `write()` returns, with a
  host, without one, and with one that comes and goes (`WriteReturns`), and a
  host that goes on polling gets everything that was taken (`Delivered`).
* `autofocus`: the step that a search ends at is never the sharpest one but
  behind it, by at most what the coarse and the fine search run on while the
  counts are on their way: `SCAL * (Lag + 2) + Lag + 1 + SCAL / 2`
  (`FoundBehindBest`). The fine search starts at the recorded step, which is
  late already, and only goes on from it. The property has three premises, which
  name where a search may end elsewhere. `AUTO_FOC` must have been low for the
  frames on their way (`calm`), or else counts of another step are taken for the
  peak. The sharpest step must not be too near the end of the coarse search
  (`best + Late <= LIMIT`): then nothing may be recorded at all, `STEP_UP` stays
  0, `STEP_f` starts at `0x7FF`, and the search ends at step 0. And it must not
  be below the first step that the lens was told (`from <= best`). That is no
  restriction when the button starts a search, but it is in the first search
  behind each configuration: `AUTO_FOC` rises 2.0 s behind the release of the
  bus (`AUTO_FOCUS_ON.v:19`), `READY` only at the 151st frame, at 2.5 s
  (`I2C_DELAY.v:13`), and in between the search passes some 30 steps, up to
  about 90, with the lens at step 0. A sharpest step among them may be missed,
  and a search of a scene whose contrast is gone at steps 0 and 93 ends at
  step 0; the others are found as in any search, over the jump from step 0 to
  the first one told. Every search ends, though the end of the fine search runs
  away from it while the counts rise (`Ends`).

The violation runs each check a sentence of the source:

* `main.c:144-151` means to set the background port only, but writes back a
  register that `hdmi_isr` may have changed in between (`MeasurementKeepsPort`).
* `main.c:357-369` means to make the port with a clock active. The handler
  selects by cable, after the loop; the loop compares with its own last choice,
  not with the chip, and does not select again (`ActivePortHasClock`).
* `I2C.c:223` says that data changes at a low clock. That is true without the
  handler; behind an interruption SCL is high (`DataChangesAtClkLow`).
* the table of `MIPI_CAMERA_CONFIG.v` has label 119 twice (lines 507 and 517)
  and no 109: register 376d is never written, and the entry of label 108 is sent
  twice (`EveryEntrySent`).

### Bounds

* `NPort` 2 as in the code, `NByte` 3 in the place of 256: a first, an inner and
  a last byte. The proofs are for every value.
* `MaxCable` 3, `MaxClock` 2: enough for a change in each window of one run of
  the handler and one to show that it is not heard any more. `MaxPoll` 2 in the
  place of 100: a try that fails and is repeated, and one that gives up; 1 in
  the violation runs, which do not depend on it.
* `Width` 3 in the place of 8 bits: a first, an inner and a last bit; calls to
  registers and values that differ in each bit; all addresses for the device, so
  that it is called, not called, and called by accident. Refusals are not
  bounded. The proofs are for every width.
* the table of the encoder is the real one. `MaxEvent` 2: two resets, two hot
  plugs, or one of each, in either order. `MaxNack` 1 for each behaviour: a
  refusal starts the frame over, whatever came before.
* the table of the bridge is the real one with delays of 2 and 5 clocks (the
  real ones are 320 and 82,240, counted in the same loop by a register of 32
  bits), `ReleaseClocks` 3 for 1000. The table of the camera is the stretch that
  holds its two faults. `MaxReset` 1, `MaxNack` 2: refusals in one frame, in
  two, and before and after a reset. Polls are not bounded.
* `jtag_uart`: `BUF_LEN` 3 and `Depth` 2, with writes of 2 and 3 characters and
  5 (`MaxChars`) in all: a buffer that fills, wraps in the middle of a write,
  and empties, and a FIFO that takes some of what there is; a write that fits
  and one that must wait. `Threshold` 1, so that the interrupt comes before the
  FIFO is empty. `RX_LEN` 2 and `RxDepth` 1: a character that is kept and one
  for which there is no room. `Timeout` 2, `InactiveMax` 2 and `Period` 2: a
  second that is not over, a silent one, and one that times out. `Ticks` 5,
  prime to `Period`, so that the counter and the alarm roll over at different
  ticks, in every offset. Ticks and polls are not bounded. The proofs are for
  every value.
* `autofocus`: `STEPS` 26, `LIMIT` 19, `SCAL` 3 for 1024, 1008 and 3: the coarse
  search ends a little past its limit, as it does there (at 1011), short of the
  last step, and every sharpest step is tried. `Lag` 1; `Depth` 12, so that there
  are steps without any contrast. `FocusFrames` 3 and `ReadyFrames` 5 for 120
  and 150: a lens that misses none, one or two steps of the first search, with
  sharpest steps before and behind them. `MaxEvent` 2 bounds the falls of
  `AUTO_FOC`, the configurations started over and the changes of the scene, so
  that there are up to three searches, the first behind a configuration and the
  others behind one or behind the button, and a scene that changes in a search
  or between two. The configurations and the rises of `AUTO_FOC` alternate with
  those and need no bound. The first search was also checked at the real size,
  with `FocusFrames` 120, `ReadyFrames` 150, `Lag` 1 to 3 and `Depth` 20 to 200.

### Fairness

`WF` of the firmware, of the loop and of the handler: a processor that runs
takes its next instruction, and none of this code blocks. `WF(Clock)`: the clock
runs. `SF(Awake)` in `MipiConfig`: a chip that is polled over and over answers
some time, since the poll has no limit (`I2C_WRITE_PTR.v:138`) and would
otherwise wait for ever; it is an assumption on the chip, and only
`GetsReleased` needs it. No fairness is assumed of cables, clocks, power, NACKs
or resets. `BootEnds` assumes that power stops failing; the others follow from
the bounds on the events. `WF(Processor)` and `WF(TimerTick)` in `JtagUart`: the
processor runs and so does the timer; the main program takes a step between two
ticks, since a tick (1 ms) is far longer than what its handlers do. The host is
not fair: `Delivered` states `WF(Poll)` as its premise, and `WriteReturns` holds
without it. `WF(Frame)` in `Autofocus`: frames keep coming.

## 4. Proofs

The theorems hold for every value of the constants that the named assumptions
allow, where TLC has one.

* `RxEdidProofs`, from `NPortAssumption` and `NByteAssumption`: `TypeCorrect`,
  `VerdictsAreSound`, `CleanBootsProvision`, `WritesAreNeeded` and `Refinement`.
  None of the properties is inductive: a verdict is given when the loop is at
  its end, so the invariant `IInv` says what a loop has established by index
  `i`: `Scanned` (`match` is the truth about the bytes before `i`), `Written`
  (the bytes before `i` are good), `NotServedYet` (later EEPROMs have no
  verdict) and `CleanSoFar` (without NACKs the earlier ones are good).
  `Refinement` is the safety part of `EdidProvision`: every step of the loops is
  a step of it or a stutter.
* `RxPortProofs`, from `BoundAssumption`: `TypeCorrect`;
  `OwedChangesArePending`, `DeafnessHasOneCause` and `DeafnessIsForGood` from
  the invariant `EdgeInv`; `ChosenPortStays` from `OwnInv`. `EdgeInv` ties the
  statuses, the capture flag and the place of the handler together: while the
  handler runs the flag stays set until its last step (`Running`); a status that
  it will not clear any more is covered by an edge or by `deaf` (`NotDeaf`);
  `deaf` means that such a status is left (`Deaf`); what is owed will be read,
  now or by a handler that is due (`Owing`). `OwnInv` says what register 0x00
  holds at each place between choosing a port and `sleep`.
* `I2CMasterProofs`, from `CallAssumption`, for bytes of any width from 2 bits
  up, any calls and any device that follows the lines: `TypeCorrect`,
  `WholeCalls`, `HandlerCallsTrue`, `Acknowledged`, `NothingElse` and
  `BusIsLeftFree`. The invariant `IInv` speaks only of the frame that runs,
  so that it need not name every pair of places of two frames. Either that frame
  is in step with the device, bit by bit (`InByte`, `InData`: what has been shifted
  is what was sent, and what was received is the register), or it is torn, and
  out of step in one of the ways an interruption leaves behind (`Astray`,
  `AstrayData`): the device is deaf until the next START, or has taken a bit for
  a START and gets too few bits to acknowledge before `ACK` is read. Three facts
  join the frames: an interrupted frame finds the lines at rest when it goes on,
  since `i2c_stop` leaves them so (`Stopping`, `Rest`); the START of the handler
  brings any device into step, and the only thing that START can store is the
  byte the main loop was writing (`Left`); and an acknowledged value is in `log`
  already (`Kept`). `NothingElse` follows step by step from what a rising edge
  may store in each of these states.
* `HdmiTxConfigProofs`, from `SizeAssumption` and `RepeatAssumption`:
  `TypeCorrect`, `EntriesAreSent` and `FinishedTablesAreWhole`. The invariant is
  `Shape`: the two machines are always in one of ten joint shapes (after a
  reset, sending, sent, refused, ...), each with the values that `GO`, `END`,
  `ACK` and the counter have in it, and each clock leads from one shape to
  itself or to one that follows it. `Passed` adds that the entries passed are in
  the encoder. `RepeatAssumption`, that the first entry is in the table again,
  is exactly what makes the skipped entry harmless.
* `MipiConfigProofs`, from `ConfigAssumption` and `TableAssumption` (the last
  entry is a register, and an entry is on one line of the case statement):
  `TypeCorrect`, `EnginesAlternate`, `EntryIsSent`, `TableInOrder`,
  `CameraIsAsked` and `ReleaseIsLast`. `Phase` relates the state and the delay
  of the walker to the engine it has asked for: that engine is at its rest, has
  not seen GO yet, is under way with what the walker gave it, or has ended, and
  the other two are at rest. `TableInv` adds where in the table the walker is
  (`Place`), what the table register holds (`Follows`), that the engine sends
  that (`Sends`), that all entries behind are sent (`Behind`) and that the
  camera is known (`Known`).
* `JtagUartProofs`, from `UartAssumption`: `TypeCorrect`, `NoLostWakeUp`,
  `AlarmIsOnTime`, `SilenceIsReal` and `Refinement`. The invariant has a part
  for each of the ways in which the processes depend on one another: `Chunk`
  (the slots `write()` is filling are free, whatever the handler took
  meanwhile), `Line` (the characters from the host's last one to the last one
  put are in the FIFO, then in the ring buffer, in order and without a gap),
  `Space` (the handler never writes more than the FIFO has room for), `Alarm`
  (where the time of the alarm is, before or behind the rollover) and `Heard` (a
  host that has not left its activity bit was away for as much of the second as
  has passed).
* `AutofocusProofs`, from `StepAssumption`: `TypeCorrect`, with `STEP_f` in its
  eleven bits; and `FoundIsKept`: the step a search ended at stays until
  `AUTO_FOC` falls, whatever the picture shows, because the peak is not written
  any more. With `SceneAssumption` as well: `EndsBehindBest`, for a lens of any
  number of steps that is told nothing for any number of frames, a coarse search
  of any distance, any delay and any scene. Its
  invariant `SearchInv` says at each frame what every count on its way is a
  count of. `Resting`: without `AUTO_FOC` the frames that showed another step
  run out, so that a search begins with a lens at step 0 and no peak.
  `Sweeping`: in the coarse search the lens was at step 0 until `READY`, and was
  told steps in even distances from step `from` on (`Told`, `Starting`). The
  jump from 0 to `from` is one to a sharper step as long as `from` is not behind
  the sharpest one. Until the sharpest step is passed (`Climbing`) the peak is
  the last count, and behind it (`Passed`) it is that of the nearer of the two steps around the
  sharpest (`ContrastPeak`), recorded `SCAL * (Lag + 2)` steps late at most.
  `Refining`: the fine search has told `m` steps from step `b` upwards, none of
  which is before the sharpest. What is still to be counted of the coarse search
  fades (`CoarseFades`), so that the peak moves at most twice, to `b + 2` and to
  `b + Lag + 2` (`FineUp`), and the search ends there.

Model-checked only: all liveness, with the liveness part of the refinement of
`EdidProvision`. Every safety property the passing runs check has a theorem. The
findings are counterexamples.

## 5. Assumptions of the models

* The SDA PIO of the HDMI design drives high as well as low, so that it wins
  over a device that pulls the line low.
* In `RxPort` a transaction that was not interrupted is acknowledged: the
  ADV7619 is on the same board, and `main.c` does not look at results. Torn ones
  may do anything.
* The ADV7619, the encoder, the bridge, the camera and the EEPROMs are modelled
  from how the code uses them, and every definition for them is marked external.
* In `I2CMaster` register `r` reads `r`, so that a value says where it was read.
* In `HdmiTxConfig` an entry that repeats a register has the same value.
* In the engines of `MipiConfig` an edge at which SDA and SCL change together is
  not taken for a START or a STOP.
* The edge capture of the PIO is generated by Qsys; its synchronizer delays an
  edge, which is the same as a later change of the cable.
* In `JtagUart` RI stands for characters that are there, WI for a FIFO that is
  at its threshold or below; a full FIFO drops what it is given; a host that
  polls takes a character if there is one and sets the activity bit. The build
  is unoptimized (`-O0`), so that the loops of `write()` read `host_inactive`
  again, which is not volatile.
* In `JtagUart` no tick is lost. `hdmi_isr` holds the interrupts off for longer
  than a tick, and the timer has one pending bit: a lost tick makes a second
  longer.
* In `Autofocus` the way of a step to the lens and of the picture back is one
  delay of whole frames, and `STEP_UP`, which has no reset, is 0 at power up. So
  is the lens; when the camera is reset it stays where it is or goes back to 0,
  and while it is told nothing it stays.
* In `Autofocus` 2.0 s are fewer frames than `I2C_DELAY` counts
  (`FocusFrames <= ReadyFrames`): 120 of 150 at the 60 Hz of
  `VGA_Controller.v:47`. `I2C_DELAY` counts the edges of the same VS that moves
  the search, whose polarity may make it one frame more or less.
* `SceneAssumption`, which only `EndsBehindBest` needs: the coarse search ends so
  far below the last step (1008 of 1024, by steps of 3) that the fine one cannot
  run over it, and the scene has contrast at the coarse step nearest to its
  sharpest one; a scene without any has no peak to find.

## 6. What is not modelled

* `HDMI_TX.c` and the register table of the receiver are lists of writes without
  branches, and the functions of `HDMI_RX.c` and `main.c` that nothing calls are
  left out. So is the wording of what is printed.
* Most C files of the repository belong to the board support package and are not
  part of the program's behaviour: drivers, file systems, DMA, semaphores,
  logging and profiling that are built and never called, constants of the
  generated system, and the start-up code. `read`, `ioctl` and `close` of the
  JTAG UART are among them: the program only prints. What is called and keeps
  state, `write()` with its handler, the tick and its alarm, is `JtagUart`.
* The FIFO of the pass-through depends on the phase of two real clocks. The
  frame timing is free-running counters, the frame buffer and the line buffers
  are memories addressed by them, and the image processing and the audio tone
  are data paths.
* `MODIFY_SYNC` counts the levels of VS in 16 bits, too few for a frame, so that
  the polarity it finds depends on remainders; either has one rising edge per
  frame, which is what `Autofocus` builds on.

## 7. Plan

In this order:

1. The two configurations together: the camera in reset until the bridge is
   released (`MIPI_BRIDGE_CAMERA_Config.v:36`), and the bus handed to the lens
   motor (`D8M_FMC.v:153-154`). `ReleasedIsDone` is the fact that makes either
   safe.
2. An abstract writer of tables, which `HdmiTxConfig` and `MipiConfig`
   implement, the one by retrying and the other by losing what was refused.
3. Frame timing: the counters of `VGA_Controller`, which run to their totals
   inclusive, with the line buffers that follow them.
4. `HDMI_TX_Init` and the identification it ignores, if a property is worth it.
