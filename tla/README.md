# Buildroot for Buffalo: verification project

This directory holds TLA+ models of the programs that Buildroot_for_Buffalo
adds to a Linux image for Buffalo NAS devices, TLC configurations that check
them on small instances, and TLAPS proofs of what matters most for every
instance. File and line references are relative to the repository.

To parse, check and prove, with the TLA+ tools, the community modules and TLAPS
installed:

    tlasany It87Bus.tla
    tlc -workers 2 -config It87Bus.cfg MCIt87Bus.tla
    tlapm It87BusProofs.tla

`PROJECT.json` lists the runs, the property and the mutant of each, the source
lines behind each definition, the hazards, the findings and the theorems.

## The system

The repository builds an initrd and a root file system. Most of it configures
Buildroot and the kernel; the logic of its own is in `custom/` and `scripts/`.

| Part | Source | State it keeps | Operations | What it talks to |
| --- | --- | --- | --- | --- |
| Register access | `custom/it87ts-1.0/it87ts.c` 853-897 | `data->bank`, `update_lock` | read, write, bank switch | two I/O ports of the Super-I/O chip |
| PWM control | same, 805-1065, 1396-1923 | `pwm_ctrl`, `pwm_duty`, `pwm_temp_map`, `auto_temp`, `fan_main_ctrl`, `valid`, `last_updated` | sysfs reads and writes from any number of threads | register access |
| Other sensors | same, 752-1560, 2101-2290 | limits, divisors, alarms | sysfs reads and writes | register access |
| Detection, probe | same, 2722-3831 | chip type, what to leave out | module load | configuration ports 0x2e/0x2f, shared with the next part |
| GPIO driver | `custom/gpio_it87ts-1.0/gpio-it87ts.c` | a spinlock, the base address | request, get, set, direction_* | configuration ports, one data port per 8 lines |
| Denverton GPIO | `custom/gpio_dnv-1.0/pinctrl-dnv.c` | pad configuration, interrupt types, saved context | pins, interrupts, suspend | memory-mapped registers |
| Microcontroller link | `custom/libmicon.py` 173-295 | the serial port and its input buffer | read and write commands, with retries | the microcontroller ("micon") |
| LEDs, LCD, sound | same, 297-416 | none: read-modify-write on the micon | commands | the link |
| v3 protocol | same, 418-473 | the serial port | one line out, one line in | the v3 micon |
| Startup, shutdown | `custom/micon_startup.py`, `micon_shutdown.py` | none | a sequence of commands | the link |
| Fan daemon | `custom/hdd_fan_daemon.py` | the last speed | a loop: temperatures in, speed out | the link, or hwmon (it87ts) |
| Board detection | `custom/buffalo_system_info.sh` | `/etc/buffalo_type` | written once at boot | the wrappers that source it |
| Wrappers, services | `custom/*_wrapper.sh`, `openrc_*`, `*.service`, `S79*` | none | start and stop | the programs above |
| Initrd | `scripts/initrd_init` | the root device | detect, choose, mount, switch | micon, block devices |
| Installers | `scripts/*_install.sh`, `checksum.py` | flash partitions | lay out, checksum, erase, write | MTD devices |
| Build | `scripts/functions.sh`, `common_*`, `*_finish.sh`, `*_postbuild.sh` | files of the build host | copy, configure | - |
| Kernel, configs | `kernel/`, `configs/`, `patches/` | - | - | vendored or generated |

The hard behaviours, in the order of their weight:

- *Interleaving.* sysfs handlers and GPIO consumers run in any thread. What
  looks like one register access is up to six port operations (it87ts), or a
  read and a write of a byte that eight lines share (gpio-it87ts). The two
  modules share the configuration ports and the register that selects a logical
  device. Two processes can use the micon's serial port at once.
- *Stale state.* it87ts computes the next value of a register from a cache that
  is up to 1.5 s old, invalid, or still full of defaults.
- *Unreliable delivery.* The serial link loses and damages frames; its answers
  are not numbered; a command is sent up to three or nine times.
- *Partial failure.* A failed command is None to its caller, which mostly
  ignores it; a killed program leaves a half-done sequence. Any step of loading
  it87ts can fail, after a device was added for the first of two chips.
- *Tables.* it87ts drives 25 types of chips through tables of registers that
  differ by type, and finds the sensor of a sysfs attribute by arithmetic on its
  place in an array; the Denverton driver has five tables for the same pads.
- *Crashes and sleeps.* An installer can lose power between two of its writes;
  a suspended system can lose the pads' registers.

What makes each part correct:

- register access: every access reaches the register it names, one at a time;
- PWM control: the cache describes the chip, a mode holds until the next is
  asked for, a setting survives what does not concern it, the fan does not stop
  on the way from one mode to another;
- GPIO driver: a line keeps its direction and its level whatever is done to its
  neighbours; locks are given back on every path;
- other sensors: a setting is the nearest its register can hold, survives what
  does not concern it, and reads back as what the chip has;
- detection: loading is all or nothing, what a chip offers depends on the chip
  alone, and no two attributes act on one register;
- Denverton GPIO: an enabled interrupt detects what was asked for, an event
  reaches its consumer and no one else, levels survive a sleep;
- link: a call gets the answer to its own command, commands are executed in
  order and not repeated without bound, a call returns;
- startup and shutdown: the microcontroller no longer waits for the end of the
  boot, the LEDs are as asked for, the power goes off;
- fan daemon: the fan ends up at the speed the temperature calls for, between
  the configured limits;
- initrd: the root device is the one of highest priority;
- installers: regions do not overlap, and a power loss leaves a device that
  can be installed again.

## Modules

| Module | Models | Role |
| --- | --- | --- |
| `RegFile` | what register access promises | abstract specification: a memory of bytes |
| `It87Bus` | register access, port operation by port operation | implements `RegFile` |
| `It87BusProofs` | - | proofs about `It87Bus`, the refinement included |
| `It87Pwm` | one PWM channel: handlers, cache, registers | registers are atomic, which `It87Bus` shows |
| `It87PwmProofs` | - | proofs about `It87Pwm` |
| `GpioIt87` | the GPIO lines of a group, and `it87_find`'s use of the shared ports | the two kernel modules composed |
| `GpioIt87Proofs` | - | proofs about `GpioIt87` |
| `It87Chip` | `it87_devices`, the types' features and tables of registers | operators, used by the next three |
| `It87Sysfs` | the arrays of sysfs attributes and the `is_visible` functions | operators |
| `It87Load` | loading and unloading it87ts, detection, probe | state machine |
| `It87Sensors` | handlers and cache of the loaded driver | composed with `It87Load`, which it implements |
| `It87LoadProofs` | - | proofs about `It87Load` and its tables, and that `It87Sensors` implements it |
| `It87SensorsProofs` | - | proofs about `It87Sensors` |
| `DnvGpio` | the Denverton GPIO driver | state machine |
| `DnvGpioProofs` | - | proofs about `DnvGpio` |
| `MiconCalls` | what the link promises its callers | abstract specification |
| `MiconLink` | `micon_api`'s protocol over a bad line | implements `MiconCalls` |
| `MiconLinkProofs` | - | proofs about `MiconLink`, and of the check byte |
| `MiconPrograms` | startup, fan daemon, shutdown | relies on `MiconCalls` |
| `MiconProgramsProofs` | - | proofs about `MiconPrograms` |
| `MC*` | - | instances for TLC |

### It87Bus and RegFile

`update_lock` is the mutex; `pc`, `req`, `breg` and `ret` are a thread's place
in `it87_read_value`/`it87_write_value`, the access it is in, the local of
`it87_set_bank` and its result; `bank` is `data->bank`; `addr`, `bankReg` and
`store` are the chip. Each action is one port operation together with the
memory operations that precede it. `data->bank = bank` comes before the write
of the bank register, in the same step as the register's selection.

A locked handler is modelled by what all of them have in common: it takes the
lock, makes any number of accesses and gives the lock back. `NextAsBuilt` adds
the accesses made without the lock. `RegFile` has a call, and one step at which
it takes effect; the step that maps to it is the data-port operation.

### It87Pwm

Registers and the cache have the names of the source, or of the register. A
handler computes under the lock and leaves its register writes in `todo`;
`DoWrite` performs them one at a time, so other steps (the chip's, and the
unlocked `CheckTripPoints`) come between two of them. `UpdateDevice` is the
refresh every show handler makes; `CacheAges` is the passing of 1.5 s;
`Invalidate` stands for the handlers of other attributes that clear `valid`.

The contents of the control register depend on the chip, hence the three
families of `Channel`. Two trip points stand for the four or five of the code,
which differ in number and not in treatment; the hysteresis of newer chips
(point 0) is left out, as is `auto_pwm`, which is cached and checked like
`auto_temp`.

### GpioIt87

A byte of a register is the set of lines of a group whose bit is set. `ldn` is
the selected logical device, and `oe` and `simple` are what is at the Output
Enable and Simple I/O addresses *of each logical device*: a driver that writes
with the wrong one selected changes another device's register. `region` is the
muxed reservation of ports 0x2e/0x2f, `lock` the spinlock. `ReadData` and
`WriteData` are the `inb` and `outb` of `it87_gpio_set`; an input's bit reads as
the level on its pin, any value. gpiolib's part (external) is that a line has
one consumer, which requests it before it uses it.

### It87Chip, It87Sysfs and It87Load

`It87Chip` has the sets of types behind the `has_*` macros and the tables of
registers, with the choice among them that `it87_init_device` makes. `It87Sysfs`
has the arrays of attributes in their order, and each `is_visible` function as
the arithmetic on the position that it is.

`It87Load` is `sm_it87_init`, `it87_find`, `it87_device_add`, `it87_probe` and
`sm_it87_exit`. `pc` is the place in `sm_it87_init`, `i` its loop variable;
`sio_data` is `struct it87_sio_data`, with a set of sensors for each mask;
`data[i]` is `struct it87_data`, and `pdev` and `driver` are what is registered.
`sys` is the hardware: for each of the two addresses a chip, with its type, its
revision, its configuration bits and what the firmware left in its registers,
`ec`, which survive an unload. Each call into the kernel has an action for its
failure. `platform_device_add` does not return the error of a probe, so a device
can remain without a driver. `offered` is history: what each chip offered when
it was last registered.

### It87Sensors

The driver in use: `DriverNext` is each step of `It87Load` together with what it
does to the cache (`Probe` starts a new one, `Offer` decides which temperature
types can be written), or a step of a handler. `reg` is the chip's registers,
`fan` and `cache` the cache, `th[t]` the handler thread `t` is in with its
locals. A handler that makes two register writes between which something can be
seen is two steps. The locals `raced` and `was` are history: whether another
thread worked under the lock since this one read without it, and the limit the
chip had when `set_fan_div` began.

### DnvGpio

`dw0` is the register of each pad, field by field; `en`, `sts`, `hostsw` and
`foreign` are the bits of the shared registers of interrupts and ownership;
`irq_type` and `saved_context` are the driver's. An operation holds `vg->lock`
over all its accesses and is one step. The interrupt handler takes no lock and
looks at one pin in a step (`scan`); its call of the consumer is in that step,
as `free_irq` waits for it before the GPIO can be freed. The status bits are set by events and
cleared by writing ones, which clears those of other pins of the word, too.
A suspend may lose every register. `resume` tests a variable it has not yet set
(`pinctrl-dnv.c:930`): the model lets it skip any set of pads.

### MiconPrograms and MiconCalls

A program is the sequence `todo` of the calls it has still to make, which the
operators `micon_startup` and `micon_shutdown` build as the code does. What a
write needs from an earlier read is `word` (`led_status`). `Obey` is what the
microcontroller does. A command may be executed any number of times up to
`RetryCount` while its call is in progress, and not at all. `MiconCalls` also
lets the last command be executed after its call has returned and up to nine
times if it is a read; both make no difference here, because nothing looks at
the microcontroller between two calls but a read, which is itself a command in
that order. The board's restart leaves the microcontroller in the boot loader's
state or in that of an initrd that has taken the LEDs of the display and made it
green (`initrd_init` 82-101). `Ramp` is the daemon's float arithmetic: the exact
quotient rounded down, or one less where it is a whole number and the product of
the floats falls short; at which temperatures it does is a constant, `Short`.

### MiconLink

A frame is the number of the call it belongs to; the host never looks at the
number, as in the code. 0 is a damaged answer, or a piece of one. `phase`,
`tries` and `outer` are the host's place and its two loop counters. `response`
is what `get_response` returned, with the answers it is made of: it reads one
byte, then as many as that byte says, and with no first byte what arrives in the
next 0.25 s, at most 32 bytes, so that an answer may be cut. That a damaged or
cut answer fails the checksum is assumed. A damaged first byte says anything: the read takes a piece
of what is there or several answers.

The line and the microcontroller execute a frame late or not at all, and the
answer arrives, arrives damaged or is lost. Opening the port discards input.
The port may be closed, or the process end, at any step.

## Runs

| Run | States | Shows |
| --- | --- | --- |
| `it87_bus` | 816 000 | accesses reach their register, the cached bank is true, the accessors are atomic |
| `it87_bus_as_built` | violation | a read without the lock misdirects a locked write |
| `it87_pwm` | 2 240 000 | cache and chip agree, modes hold, the duty cycle survives, the fan is not switched off |
| `it87_pwm_full_speed` | violation | mode 0 without on/off mode need not give full speed |
| `it87_pwm_stored_map` | violation | a map stored in manual mode is lost |
| `gpio_it87` | 674 000 | directions stick, levels stick unless raced, locks are given back |
| `gpio_it87_race` | violation | a level is lost to a set of another line |
| `it87_driver` | 302 000 | loading is all or nothing; tables, attributes and registers of all types fit; settings stick; cache and chip agree |
| `it87_load_polarity` | violation | `fix_pwm_polarity` ends in a null dereference |
| `dnv_gpio` | 236 000 | tables agree, interrupts match their type, none to a freed pin, levels hold, events are delivered |
| `micon_link` | 229 000 | own answers, in step without trouble, calls return, `MiconCalls` is implemented |
| `micon_programs` | 3 319 000 | a startup that was not disturbed takes effect, one that dies at the LEDs has ended the boot wait, the fan follows the temperature |

Bounds, and why they are enough:

- `it87_bus`: two threads (the code treats all alike, and a third can only do
  what the second does while the first is between two steps); three registers
  in two banks; two bytes whose bank fields differ, and every bank at power on.
- `it87_pwm`: two threads and one channel of each kind (channels share only
  registers whose other bits a handler preserves); duty cycles 0 and 254 with
  full speed 255; two temperatures, so that trip points can be inconsistent;
  control bytes with reserved bits set. Threads are symmetric.
- `gpio_it87`: two lines of one group, one with a Simple I/O switch. Lines of
  two groups share no byte. Two threads, and it87ts loaded at any time.
- `micon_link`: two calls, so that an answer can outlive its call, and
  `RetryCount = 2` in place of 3: both loops turn. The line is unbounded, but a
  call adds a bounded number of frames to it.
- `it87_driver`: each of the 25 types alone, with no configuration bit set, with
  one, with all but one and with all, in three states of its registers (nothing
  enabled, everything, some) and, of the two oldest types, in the revisions that
  differ; and three pairs of chips. The bits act on different sensors, so that
  one bit against all others at either value reaches each term of the code. The
  module is loaded twice, which is once more than anything can be carried over;
  of two types whose handlers have the most states, once. Used are seven chips,
  one of each way to measure fans, to tell of a PECI sensor and to have
  frequencies, by two threads; requests lie within, at and beyond the range of
  their register. Threads are symmetric.
- `dnv_gpio`: GPIOs 4 and 5, which share a word of every register, and 20, which
  has no interrupt; the pad of 5 is locked. A refused type, an edge and both
  edges are asked for. `TablesAgree` is about the tables of all 153 pins.
- `micon_programs`: both protocols and the four kinds of microcontroller the
  programs tell apart; a `micon_fan.conf` of 10 to 78 % between 28 and 56
  degrees, with temperatures below, at and just below its ends and 49 degrees,
  at which the float product of the daemon falls short of a whole number
  (`Short`); each command up to twice; any number of restarts of the daemon and
  of the board.

Deadlock is checked in every run but the two of `MCIt87Driver`: after a failed
load, when the bound `MaxLoads` is reached, and after a null dereference the
system really stops.

Fairness: `MiconLink` states `WF_vars(Host)`: a call that can make a step does,
as `pyserial`'s reads return after their timeout. Nothing is assumed of the line
or the microcontroller, and `CallReturns` does not depend on either. `DnvGpio`
states `WF_vars(Enter)` and `WF_vars(Check)`: the processor takes a pending
interrupt, and finishes a handler that it has started; nothing is assumed of
the consumers or of further events. `EventDelivered` needs both, and that the
handler looks at every pin. No other module states any.

### Findings

- it87ts reads registers without the lock its accessors ask for
  (`it87ts.c:1249`, `1345`, `1350` against the comments at `878` and `889`).
- `set_pwm_enable(0)` writes the duty cycle while it is read-only
  (`it87ts.c:1630` against `1628` and `1683`).
- A temperature map "just store[d] for later use" (`it87ts.c:1796`) is not used.
- `it87_gpio_set` takes no lock (`gpio-it87ts.c:236` against `63`).
- `fix_pwm_polarity` is to switch "to active high polarity" and invert all
  speeds (`it87ts.c:3462-3464`). `it87_check_pwm` reads the speeds through
  `data->REG_PWM` (`3471`), which `it87_init_device` sets only afterwards: the
  probe ends there.

Behaviour met while modelling, which the properties exempt, each at its property
or definition. The hazards it belongs to say so in their notes: what is listed
here no property would catch.

- it87ts: `pwm4_auto_start` to `pwm6_auto_start` are never visible (2645); the
  trip points of pwm4 to pwm6 are those of pwm3; the IT8613E and IT8622E can
  show `in9_label` without `in9_input`; a temperature of type 0 has no type
  attribute, so it cannot be given one; the IT8721F's pins for fans 4 and 5 are
  looked at in a case that is never reached for it (3173). `set_fan_div` before
  the first refresh takes the limit and the divisors from an empty cache (1538):
  of a limit of 1500 RPM at divisor 4 it makes, at divisor 128, the slowest,
  some 41 RPM, of none (0) the same, and the divisors of the other fans become 1
  and 2. `set_temp_type` computes its registers from unlocked reads (1345, 1350)
  and loses a change that another thread makes before its writes (1370). A
  refresh stores a 16-bit limit in two steps (985, 993) while `data->valid` is
  still set; `show_fan`, which has no lock, can read the low byte alone. The
  module stays loaded without a driver when the probe fails. An IT8782F whose UART6 is on
  offers temp3 only while bit 7 of TEMP_EXTRA is set (3592), and temp3_type
  writes that bit: once it was changed to another type, the next load does not
  offer temp3. `OffersTheSame` is about a bit that is the same at each load.
- pinctrl-dnv: the ownership entries of GPIOs 10, 11 and 12 name other pads.
  `dnv_irq_ack` is never called, so a status bit, once set, stays until some pin
  of its word is freed, which clears those of the others: an event of theirs is
  lost. Ownership is taken before an unsupported type is refused (489). Suspend
  saves nothing for pins from 13 on; which pins resume restores depends on an
  uninitialised variable (930), and it restores neither enables nor ownership. A test for negative offsets is made on
  an unsigned element (738).
- programs: an unanswered first read ends `micon_startup.py` (32) before it sends
  `boot_end`, which is to "disable boot watchdog" (34); an unanswered read of an
  LED word ends it with the LEDs half set. The console command toggles, is sent twice and can
  be repeated by the link (38-40): how the console ends up is not determined. A
  speed whose command was lost is not sent again before the target changes.
  A temperature of 0 is taken for no drive. Nothing checks `micon_fan.conf`:
  equal `MinTemp` and `MaxTemp` divide by zero (63), which `ConfigAssumption`
  excludes; it lets either limit be the larger. Two programs that use the port
  at once can undo each other's changes to an LED word; the model runs one at a
  time.

## Proofs

TLAPS proves, for all values of the constants that meet the modules'
assumptions:

- `It87BusProofs`: the types, `AccessHitsRegister`, `BankCacheTrue`, and that
  `It87Bus` implements `RegFile`. None of the invariants is inductive alone: a
  thread about to use the data port needs to know that nobody else can move the
  address latch (`LockInv`: who is past the lock holds it) and what the steps
  before have established (`PhaseInv`: by phase, the bank, the cached bank, the
  address and the byte in `breg`). `IInv` is their conjunction with the types
  and `BankCacheTrue`. The refinement adds that two registers never share a
  cell, and takes one step of the abstract memory at each data-port operation.
- `MiconLinkProofs`: the types, `AnswerIsOwn`, `InStepWithoutTrouble` and
  `CommandsInOrder`, the refinement of `MiconCalls`, for any number of retries
  and calls. `AnswerIsOwn` needs that, once a call began on a quiet line,
  everything on the line and in the host is a preamble, its own frame, its own
  answer or damage (`QuietInv`). `InStepWithoutTrouble` needs that without
  trouble at most one frame or answer is outstanding, and that it is consumed in
  the step that accepts it (`StepInv`). The refinement needs that the frames on
  the line are in the order of their calls, after all that were executed, and
  that they can be numbered (`OrderInv`, `Numbers`): a frame's number is at
  least how often its command was executed before it arrives, later frames of
  the call have higher ones, and all are below the number of frames sent so far,
  which the two loop counters give. The numbering takes the place of a count of
  the frames on the line. Two theorems of arithmetic say that the check byte
  completes a frame's sum to zero, and that the byte a read's retry appends to
  its frame is therefore zero.
- `It87LoadProofs`: `LoadAllOrNothing`, `WideFansAreWide`, `OffersTheSame`, the
  types, `VisibleAsNamed` (with its part `LabelsHaveInputs`) and
  `RegistersApart`, for any set of systems and any number of loads. The invariant says at each place of
  `sm_it87_init` which devices there can be (`DevicesInv`): in the first round of
  its loop none but the first, `found` just when there is one. That is why
  `exit_dev_unregister`, which forgets the second, leaves nothing. `SameInv`
  says that `sio_data` and `data[i]` are at each place what the chip alone makes
  of them (`SioOf`, `DataOf`): `it87_find` clears the structure it fills for the
  second time, and a probe that finds what an earlier one wrote to the registers
  comes to the same result (`ProbedTwice`).
  With that a chip's attributes are a constant, and the theorems about the
  tables are about `DataOf`, for any pins, options and revision of each type. An
  array of attributes is `Tabulated`: laid out sensor by sensor, each with its
  kinds from a given position on. `VisibleByName` turns an `is_visible`
  function's test of a position into one of sensor and kind (`Shows`), and each
  array is an instance. For `RegistersApart` each sort of attribute is in a
  range of registers of its own, given by simple facts on the chip (`Sensible`:
  six temperatures exclude the three voltages whose pins they are on, and so
  on), and a place within the range tells its attribute (`PlacesApart`,
  `RangesApart`).
  `DriverLoads` shows that `It87Sensors` implements `It87Load`, so that the
  safety of loading holds of the driver in use.
- `It87SensorsProofs`: `CacheCoherent`, `ShowsChip`, `DivisorsApart`,
  `TypeSticks`, `LimitSurvivesDivisor`, `NearestSetting` and the types, for any
  number of threads, any requests, chips and loads. `DriverInv` says that the
  threads in a locking handler are those that hold the lock (`HandlersInv`);
  what the cache has of the chip once it was read, save the limit that is being
  written (`CacheInv`), which outlasts `data->valid`, for handlers compute from
  the cache when it is not valid; and of each thread what its handler still
  relies on (`Relies`), for those that read without the lock unless `raced`. The
  conversions are proved to round to the nearest, over all numbers: lemmas on
  division give the bounds, and the clamps the ends. That proof showed that
  `NearestSetting` has to exempt negative speeds (`it87ts.c:792`), which no run
  had asked for; a request of the run now does.
- `DnvGpioProofs`: the types, `EnableMatchesType`, `DeliversToRequested`,
  `LevelHolds` and `TablesAgree`, for any GPIOs, locked pads, types and uses.
  `SavedInv` says that a sleeping system's saved contexts are what the pads
  have, so a resume leaves a pad as it was or records it as lost; `UnusedInv`
  that a pad nobody requested routes no event and has no status bit, which is
  why a freed GPIO's leftover type does no harm. For `TablesAgree` the map of
  pads, which is appended in runs, is shown to be one function (`PadOffset`) of
  the number of the pad, whose pieces do not meet (`PadsApart`); the rows of the
  13 pins with interrupts are compared one with another; and no step takes a
  field of a pin outside `Gpio` (`ForeignInv`).
- `MiconProgramsProofs`: the types, among them that the duty cycle stays between
  `MinPWM` and `MaxPWM`, whichever is the larger, `FanFollows`,
  `StartupTakesEffect` and `EndsBootFirst`, for any configuration, temperatures
  and number of retries. `DaemonInv` says that the daemon has at most the call
  that sets its current speed before it, and that one execution is enough.
  `StartupInv` says of each thing the startup does that it is done or still
  before it: the last command that concerns it is among the calls left
  (`Pending`), and what is behind that one does not concern it. Of `boot_end` it
  says, too, that among the calls left no word of LEDs is read before it
  (`BootEndFirst`). `DoneInv` keeps the result while the daemon runs.
- `GpioIt87Proofs`: the types, `LocksGivenBack`, `DirectionSticks` and
  `LevelSticksUnlessRaced`, for any number of threads, lines and groups. The
  byte a thread is about to write back is the register's but for its own bit:
  always for Output Enable, which the lock and the ports protect, and of the
  data port unless raced.
- `It87PwmProofs`: the types, `CacheMatchesChip`, `ModeHolds`,
  `DutySurvivesModeChanges` and `NeverSwitchedOff`, for any number of threads,
  any channels and any values. A handler changes the cache at once and the
  registers one by one, so the first three hold only between handlers and are
  not inductive. `IInv` says the same of what the registers *will* hold when
  the writes in `todo` are done (`Final`): a register write does not change
  that, and a handler establishes it when it fills `todo`. `ForcedInv` orders
  the two writes of full speed: a write that ends SmartGuardian mode finds the
  fan forced on, or comes second to the write that forces it.

The assumptions are the named `ASSUME`s, which TLC evaluates in the runs: no
register is the bank register's own address, chips without banks keep to bank 0,
and so on. All else is in the specifications.

Only model-checked: `CallReturns` and `EventDelivered`, which are liveness under
fairness and outside the prover's reach. Each other property of a passing run is
also a theorem. The five runs that expect a violation show what does not hold.

## Not modelled

Not modelled yet: the initrd, the installers, the board detection, the wrappers
and services, and of it87ts `set_auto_pwm`, the trip points' hysteresis, the
alarm and beep bits, `clear_intrusion`, VID, the parameters `force_id` and
`update_vbat`, and the ACPI mutex.

Left out for good: formatting of sysfs values and log messages; what the LCD
shows; `hdd_fan_daemon.py`'s fans behind hwmon files, whose driver is it87ts;
`cmd_set_sataled` and `cmd_set_lcddisp`, which no program uses; the build
scripts, which run once and sequentially on the build host; kernel patches,
device trees and Buildroot configurations, which are vendored or generated.
`gpio_it87_get`, `dnv_gpio_get`, the show handlers of readings and the debug
outputs only read. That stopping the fan daemon under OpenRC ends the wrapper
and leaves the daemon is not modelled; `MiconPrograms` lets the shutdown start
at any call of the daemon's, and lets only one of the two talk.

Abstractions to keep in mind: kernel memory accesses under a lock are not
reordered; a spinlock held over a sleep (`gpio-it87ts.c:176`) is not
modelled as the scheduling fault it is; jiffies do not wrap.

## Plan

1. `RegFile`, `It87Bus` and their proofs: done.
2. `It87Pwm` and its proofs: done; the fan divisors are in `It87Sensors`. Left:
   `auto_pwm` and the hysteresis.
3. `MiconLink`, `MiconCalls`, `MiconPrograms` and their proofs: done. Left: two
   programs that share the port, and the daemon's hwmon files.
4. `GpioIt87` and its proofs: done.
5. The initrd's boot: detection, button, choice of the root device.
6. The LS500 installer: layout, checksum, writes and power losses. Theorem: no
   two regions overlap.
7. `DnvGpio` and its proofs: done.
8. `It87Load`, `It87Sensors` and their proofs: done, with the conversions and
   the tables. Left: the board table.
9. Left to prove: that the registers `It87Sensors` and `It87Pwm` take for atomic
   are those of `RegFile`, as a refinement; it is an argument in words so far.
