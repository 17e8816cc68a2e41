# A TLA+ model of the Cyclone V MIDI piano

The repository is a piano for the DE1-SoC board: a MIDI keyboard on a serial
line, a receiver and a sound generator in VHDL, and a C program on a Nios II
processor between the two. This directory models the path of a key event from
the line to the codec, and the software under the program (console driver,
interrupt dispatch, alarms, file descriptors, heap), checks it with TLC on small
instances and proves its main properties with TLAPS.

    keyboard -> modulo1 -> modulo2 -> registers, IRQ -> irqhandler -> Mi_Contexto -> main -> sound register -> sin_DDS, au_out -> codec
                (bytes)   (notes)    (avalon_RxDecMIDI)             (shared)             (avalon_Sonido)
                                          |                                                                  au_setup (I2C) ^
                              alt_irq_handler, alt_tick                        printf -> descriptors -> JTAG UART -> host

Paths below are relative to `src/HW_MIDI`; `hw/` stands for `hardware/TecMIDI_v2/`,
`bsp/` for `software/CodesignProject_bsp/`.

## The system

| part | source | state | operations | talks to |
|---|---|---|---|---|
| serial receiver | `hw/modulo1.vhd`, `hw/UCmodulo1.vhd` | control state, two counters, shift register | a clock edge | line in; `ready`, `code` to modulo2 |
| note decoder | `hw/modulo2.vhd`, `hw/UCmodulo2.vhd`, joined by `hw/codificador.vhd` | control state, high nibble of the status byte, key, velocity | a clock edge | bytes in; `n_on`, `n_off` pulses out |
| register file | `hw/avalon_RxDecMIDI_v2.vhd` | RegEstado, RegDatos, RegControl | event pulse, acknowledgement, reads | pulses in, bus, interrupt line |
| interrupt routine | `software/CodesignProject/main.c:88` | `Mi_Contexto`, shared | four reads, one write | bus, shared memory |
| main loop | `software/CodesignProject/main.c:107` | note, first key, count | test, decide, clear, write | shared memory, bus |
| sound register | `hw/Modelsim_avalon_sinDDS/avalon_Sonido_v1.vhd` | RegDatos | write | bus, sound module |
| sine generator | `.../sin_DDS.vhd` | phase | next sample | sound register, serialiser |
| audio serialiser | `.../au_out.vhd`, `.../UCau_out.vhd` | control state, shift register, counter | a clock edge | codec clocks and data |
| codec set-up | `au_setup.vhd` | control state, three counters, data line | a clock edge | I2C |
| JTAG UART driver | `bsp/drivers/src/altera_avalon_jtag_uart_*.c` | two ring buffers, enable bits, timeout | write, read, close, ioctl, interrupt, alarm | main's `printf`, host |
| interrupt dispatch | `bsp/HAL/src/alt_irq_handler.c`, `alt_iic*.c`, `alt_irq.h` | enabled lines, masks, table of handlers | exception, registration, enabling, critical sections | handlers |
| alarms | `bsp/HAL/src/alt_tick.c`, `alt_alarm_start.c`, `alt_llist.h` | tick counter, linked list | tick, start, stop, callbacks | timer, drivers |
| file descriptors | `bsp/HAL/src/alt_open.c` and others | table, highest descriptor, locks | open, close, lock, unlock, fcntl, redirect | drivers |
| heap | `bsp/HAL/src/alt_sbrk.c` | end of the heap | sbrk | malloc |

The rest of the tree is generated or the vendor's (the Nios II system, its
interconnect, memories and timer, start-up and glue of the support package),
build output, or an older version of the above (`hw/old`, `hw/new`,
`software/hello_MIDI.c`).

What is hard in it, and what makes each part correct:

* **The hand-over to software.** Event pulses last one clock cycle, arrive when
  they like, and meet the processor's reads and its acknowledgement in any
  order. Correct: no event fails to raise the request, and irqhandler hands
  over each event whole.
* **The shared context.** main reads it, prints, which can block for as long as
  the host likes, and then clears it, all with interrupts enabled. Correct:
  status and key belong to one event, and each event is handled once.
* **The monophonic logic.** First key, count and enable bit are kept in step by
  hand over any sequence of presses and releases, with releases in any order
  and resets while keys are down. Correct: a press is heard, and nothing is
  once all keys are up.
* **The serial line.** Sampling by counters with a few cycles of error per bit,
  frames back to back, disturbances. Correct: each sample in its bit, each byte
  once, in step again after a disturbance.
* **The byte protocol.** Running status, messages of other kinds, lost bytes,
  no second buffer. Correct: each note once and in time, and nothing that was
  not played.
* **The sound.** Codec clocks that drift against the fabric's and are polled, a
  register written at any cycle, a reset in mid-frame. Correct: each frame is
  one sample of one setting, whole, the same in both channels, and the phase
  goes on once per frame.
* **The set-up.** Any byte may be refused, at any time. Correct: what the codec
  has are the words of the table in order, and in the end all of them.
* **The console driver.** Two rings between a caller and an interrupt routine
  without locks, enable bits read and modified by both, a host that may be
  gone, a wait ended by a timeout. Correct: bytes go through once and in order,
  no interrupt is left off that is needed, calls end.
* **Interrupts, alarms, descriptors, heap.** Nested exceptions and critical
  sections; a list that callbacks change under the walk; a counter that wraps;
  opens that fail half-way; a heap whose end is rounded. Correct: see the
  properties.

`PROJECT.json` lists the hazards line by line with the properties that cover them.

## Modules

| module | models | state and actions |
|---|---|---|
| `SerialReceiver` | modulo1 and UCmodulo1, the line, the keyboard's frames | the signals by their names; one action per thing that the line can do at a clock edge (`Hold`, `NextBit`, `Pause`, `StartFrame`), each with the receiver's `Edge`; `Noise`, `Reset` |
| `MidiDecoder`, `DecoderParameters` | modulo2, UCmodulo2, the wiring in codificador, the keyboard's messages | `Tick` is an edge without a byte, `ByteReady` one with; `ByteChanged` (or added) and `ByteLost` are the faults; `DecoderReset` is KEY0 |
| `RxDecMIDI` | the three register processes | operators on the registers: `Clock(pulse, write)` is a clock edge. No behaviour of its own |
| `Piano` | registers, irqhandler, main, sound register, player | extends `RxDecMIDI`; `DecoderPulse`, one action per access of irqhandler (`Isr...`) and of main (`Main...`), `Reset` |
| `PianoProperties` | what is asked of `Piano`, the refinement mapping | |
| `MonoSynth` | the promise to the player | abstract: `Play`, `Press`, `Release`, `Sound`, `Reset` |
| `SoundModule`, `SoundParameters` | sin_DDS, au_out, UCau_out, the sound register's fields, the codec's clocks | `Tick` is a cycle of clk with whatever the codec's clocks do in it (`Stay`, `Rise`, `Fall`); `Reset` |
| `Tone` | the promise to the listener | abstract: a sample per frame, one phase step per sample |
| `AuSetup` | au_setup and the codec on the I2C bus | `Clock` is a cycle of clk_50: `Master` and one of `Start`, `Stop`, `TakeBit`, `Accept`, `Refuse`, `Release`, `Miss`, `Quiet` of the codec |
| `JtagUart` | the interrupt-driven driver, its device and the host | `Calls` begins a call; one action per access of write, read and close to what is shared (`Write...`, `Read...`, `Close...`); `Isr` step by step; `Timeout` (the alarm); `Host...`, `Detach` |
| `BytePipe` | the promise of either direction of it | abstract: `Ask`, `Put`, `Get` |
| `Hal` | sizes and bounds of the four below | constants and their assumption |
| `Interrupts` | alt_irq_handler, registration, critical sections | a stack of exceptions; `Exception`, `ReadPending`, `Dispatch`, `Serve`, `HandlerReturn`; what handlers and program call |
| `AlarmList` | alt_tick, alt_alarm_start, alt_alarm_stop | the list link by link; `TickBegin`, `TickVisit`, `CallbackReturn`, `TickEnd`; starts and stops from program and callbacks |
| `FileTable` | the descriptor calls | one action per call; `OpenFails` is an open that fails at any point |
| `Heap` | alt_sbrk | `Sbrk(incr)` |
| `MCPiano`, `MCHardware`, `MCJtagUart`, `MCHal` | values of the constants for TLC | the last three choose at the start which part, or which scenario, runs. `MCHardware` and `MCHal` extend the modules of their parts, whose names are therefore distinct (`ready2` is the `ready` that modulo2 reads, `ep_setup` the `ep` of au_setup, `IrqNext` the next-state relation of `Interrupts`) |
| `PianoProofs`, `SerialReceiverProofs`, `MidiDecoderProofs`, `AuSetupProofs`, `JtagUartProofs`, `InterruptsProofs`, `SoundModuleProofs`, `HalProofs` | theorems about the module of the name; `HalProofs`: about `AlarmList`, `FileTable` and `Heap` | |

A definition whose name ends in `_Something` and that no other definition uses
is a mutation of the definition after it: a bug that code might have. Each
property of each passing run has one, listed in `PROJECT.json`, that TLC finds.

How the modules meet: `SerialReceiver` reports bytes as one-cycle `ready`
pulses, at least nine bit periods apart, which is all that `MidiDecoder`
assumes of them (`MinGap`); its lost, changed and added bytes are what
disturbances and resets do in `SerialReceiver`. `MidiDecoder` reports notes as
one-cycle pulses, never twice the same, which are the `DecoderPulse` of
`Piano`. The sound register of `Piano` is the `setting` of `SoundModule`, which
allows any write at any cycle. The `printf` of `Piano`, which may take any time,
is a `write` of `JtagUart`; the step from a raised line to the first step of
irqhandler is what `Interrupts` promises of line 2; the `Timeout` of `JtagUart`
is an alarm of `AlarmList`. They are not run as one state machine: their clocks
differ by four orders of magnitude, and no property spans two of them that these
interfaces do not carry.

### Abstractions in `Piano`

* The status word is the set of its bits that are 1; the key byte is kept as a
  number because its shift by one bit matters; the velocity decides nothing and
  is left out.
* main is compiled without optimisation, so that each access to the context is
  a load or a store. One step is one access. `printf` between two of them
  changes nothing and takes arbitrarily long: main may stay between two steps
  while any number of events are decoded.
* There is one processor: main has no step while a request is pending or
  irqhandler runs.
* An event may come at any clock edge, the edge of the acknowledgement
  included.
* `PrimeraTecla`, uninitialised in the code, starts with any member of `Garbage`.
* `Pace` says what is assumed of the keyboard. *free*: nothing. *prompt*: an
  event is decoded only when irqhandler has left the previous one, which the
  line guarantees (a message takes at least 640 us, irqhandler a few us).
  *paced*: main too has taken the previous event out of the context, which is
  up to the player and to the host that reads main's output.
* `held`, `lastEvent`, `alone`, `strokes` and `resets` are history and bounds.
  `alone` says whether the last event found no other under way, neither before
  irqhandler nor before main: what a keyboard does that is never hurried, without
  forbidding it to hurry. After a reset the keys stay where they are.

### The line in `SerialReceiver`

The periods x"31F" and x"63F" (799 and 1599, for 1600 cycles per bit) are the
constants `PDH` and `PD`; the bit time `T` of the keyboard is another. The
assumption `SerialReceiverAssumption` is the tolerance: the tenth sample,
`PDH + 9 PD + 29` cycles after the fall of the line, lies in the stop bit and
the receiver waits again before the next frame can begin. With the values of
the source it allows `T` from 1523 to 1691, five percent around 1600.
`clean` is 0 from a disturbance in a frame, or a reset in it, until the line has
been quiet for the length of a reception; the properties of bytes are about
`clean = 1`. A low pulse that finds line and receiver idle is no disturbance, if
it is over at the second look and the keyboard is not slower than the receiver:
a frame that begins before the second look is then sampled early, and still in
its bits.

### The codec in `SoundModule` and `AuSetup`

The codec makes bclk and daclrc with a divider of its own: a level of bclk lasts
from `MinHalf` to `MaxHalf` cycles of clk (about 8 on the board, at least 2
assumed), daclrc changes as bclk falls, and each of its levels has
`BitsPerChannel` periods, more than a sample has bits (192 and 16 on the board).
It takes the first `WIDTH` bits after each change of daclrc, left justified, as
bclk rises. Nothing is promised of the rest of a frame in which a reset falls
(`dirty`). The table of sines is the constant operator `Wave`, the increments of
the phase are the constants of `SoundParameters`. `Tone` has the same: the values in
the tables of the source are not checked, only what is done with them.

In `AuSetup` the codec refuses any byte, or takes it by pulling the line. A
refused byte makes the master drive its last bit again at the edge at which the
clock rises; if that bit is 0 this edge is a START for a codec that sees it in
time, and none for one that does not: `Race`, with the outcomes `Start` and
`Miss`. A codec that missed it goes on being silent, so every byte is refused
again; `CodecConfigured`, checked as `SetupEnds`, promises the set-up unless that
happens (`missed`).
Three more things the model shows, none of them a disagreement with a text in the
repository: the last word gets no STOP, since e5 stops the clock where it falls;
the top level never drives the `reset` of au_setup (`Top_Lab2-v1.vhd:53,103,131`),
so KEY0 does not start it again, which is why `AuSetup` has no reset; and the
values at power-up are those of the reset.

### The program and the interrupt routine in `JtagUart`

A step is one access to a variable that both sides use, or to a register. The
program makes one call at a time (the build is single threaded: semaphores and
event flags are empty macros) and is interrupted between any two steps; the
interrupt routine runs to its end before the program goes on, while the host
reads and fills the FIFOs between its steps. A copy to or from a ring takes the
longest stretch, as the code does, in one step, since nobody looks at the bytes
before the index is published; that nobody changes them either is `TxInv` and
`RxInv`, proved. `AC` and the alarm are the device's notice that the host is
there and the driver's once-a-second look at it.

### The abstraction layer

`Interrupts` keeps one frame per exception on a stack, with the place reached in
`alt_irq_handler` and the critical sections its handler opened. Handlers may make
any call the layer offers, `alt_irq_interruptible` included. Left out are the
calls that write `ienable` while a handler is interruptible: `alt_irq_enable` and
`alt_irq_disable` then forget `alt_priority_mask`, and no driver of this system
does it. `AlarmList` keeps both links of each alarm, as `alt_llist.h` does; delays
within two of the counter's range are left out (an alarm so far away fires
early). `FileTable` runs each call to its end; descriptors 0 to 2 are never
released, as in `alt_release_fd.c`. `Heap` works on byte addresses; the remark in
`alt_sbrk.c:46` that bounds are not checked is older than the check at line 88.

## Runs

| run | question | bounds |
|---|---|---|
| `piano_free` | what holds for any keyboard: events at any edge, before the previous one is handled or after | 2 keys, 4 events, 1 reset |
| `piano_prompt` | irqhandler against a main that is as slow as you like | 2 keys, 4 events, 1 reset |
| `piano_paced` | main's logic, liveness, refinement of `MonoSynth` | 3 keys, 6 events, 1 reset |
| `hardware` | receiver, decoder, sound module and set-up, each on its own | bits of 18 cycles, 2 bytes, 2 pulses or 1 reset; 4 kinds of message, 2 data bytes, 4 messages, 1 fault or reset; samples of 3 bits, 4 phases, bclk levels of 2 or 3 cycles; 3 words of 3 two-bit bytes, 2 refusals |
| `jtag` | the driver as a pipe, its liveness | rings of 3 slots, FIFOs of 1, calls of up to 3 bytes, 2 values of a byte, timeout 2 to 4 |
| `hal` | interrupts, alarms, descriptors, heap, each on its own | 3 lines, 2 sections per routine; 3 alarms, 4 values of the counter; 5 descriptors, 2 devices and `/dev/null`; 18 bytes |
| `piano_outrun`, `piano_torn`, `piano_pitch`, `jtag_eio`, `alarm_stop`, `fd_lock` | what comments say and the code does not do (below) | as small as the counterexample allows |

In `hardware`, `jtag` and `hal` a variable chosen at the start says which part, or
which scenario, runs; the others stay as they are after power-up. The parts share
no state, so their product would show nothing that the parts do not.

Why the bounds are enough. In `Piano` a group of presses needs three events to
go wrong (press, press, release, in either order), four let a second group begin,
six let it end too and leave two for a third key; the third key is the one that is
neither first nor last of its group. Two events are enough for every
interleaving of one event with the handling of another. One reset may fall anywhere,
with any set of keys down. Key bytes matter only by equality, to the code and to the
properties, except for `piano_pitch`; `KeyBit0` is 0 in some runs and 1 in another.
In `SerialReceiver` the receiver's state
does not depend on earlier frames except through the shift register, which is
loaded anew; 18 cycles are the fast end of what the tolerance leaves for
`PD = 15`, and the theorems cover the rest. In `MidiDecoder` four messages are a
fault in one and the three that follow and bring it back in step; the theorems
hold for any number. In `SoundModule` the state machine takes at most two cycles
to answer a change of bclk, and levels of 2 and 3 cycles let the two clocks slip
past each other in every phase; every key is one with an increment or one without.
In `AuSetup` two refusals are one in a word and one in the repetition of it; first
and middle words end in both bits. A ring of three slots can be empty, full with
its end inside or at the end of the array, and split in two stretches; a FIFO of
one is empty or full. Three lines are the least in which a handler is interrupted
by one that is interrupted; four values of the counter wrap within every two or
three alarms; the fifth descriptor is the one above the highest in use.

What the properties say:

* `CountMatchesVoice`: `n_teclas` and the enable bit never part, whatever is lost or torn.
* `EventKept`, `RequestServed`: an event always raises the request; a request is always served.
* `DecidesOnOneEvent`, `PressIsHeard`: an event that found no other under way is
  decided on whole, and heard if it is a press, whatever hurry came before it.
  After an event that came at a bad moment nothing stale is left in the
  context that could be taken for a part of the next. Without "found no other under
  way" both are false, which `piano_torn` and `piano_outrun` show.
* `ContextIsLastEvent`: the registers hold the last event whole until it is
  acknowledged, by when the context does; from then on it holds that event or what
  main left of it (*prompt*).
* `EventsSettle`: after every event main comes to rest (*prompt*).
* `FirstKeyHeld`, `SilentWhenReleased`, `ImplementsMonoSynth`: the voice can always
  be stopped, is stopped once all keys are up, and the whole behaves as
  `MonoSynth` (*paced*).
* `SampleInItsBit`, `ByteReported`, `NoFrameLost`, `InStepWhenQuiet`: sampling,
  content, timeliness and recovery of the serial receiver.
* `PulseReportsNote`, `NoSpuriousPulse`, `NoOverrun`, `NoteReported`: the
  decoder reports each note once, as sent, in time, and nothing else. After a
  lost, changed or added byte it is in step at the latest when the third message
  with two data bytes begins. Two are not enough: TLC refutes `InStep = 2`.
* `ImplementsTone`: sound module and codec behave as `Tone`.
* `WordsInOrder`, `SetupEnds`: what the codec has of the set-up, and that it
  gets all of it unless it misses a START.
* `TxIsPipe`, `RxIsPipe`: ring and FIFO together are a `BytePipe` in either direction.
* `NoByteStranded`, `NeverDeaf`: no interrupt stays off that is needed.
* `WritesEnd`, `ReadsEnd`, `IsrEnds`: calls and interrupt routine end.
* `InterruptsNest`, `AlwaysAHandler`, `HighestServed`: who may be interrupted and by
  whom; a line found has a handler; the line of highest priority is served.
* `CalledWhenDue`, `TickEnds`: every alarm at its tick, across the wrap; the walk
  along the list ends although callbacks change it (`CallbackStops = "notNext"`:
  not the next in the list, see `alarm_stop`).
* `TableSound`, `LockKeepsOthersOut`: the table holds what the program has open; a
  lock keeps new opens out.
* `BlocksApart`: blocks of the heap are aligned, inside the memory and disjoint.

Fairness: weak fairness of irqhandler's steps and of main's (the processor
executes; the interrupt has priority, so main's is worth something only because
requests are served and events are finitely many or paced). In `hardware`, of the
clocks of decoder and set-up. In `jtag`, of the program, the interrupt routine and
the alarm (processor and timer run) and of a host that is there: it reads what
the FIFO holds and polls; it need not type, and may leave. In `hal`, of each part of
`alt_irq_handler` and of alt_tick and its callbacks; strong fairness of the end
of handlers and of their critical sections, which may be interrupted any number
of times before. None for keyboard, faults, resets, refusals. `SerialReceiver` needs
none: its properties bound what happens by cycles. No run turns deadlock checking
off: nothing in the system ever stops.

## What the code does not do as its comments say

* `piano_outrun`: an event that arrives while main handles the previous one is
  cleared with it (`main.c:165`). If it was the release, the note sounds on with
  all keys up.
* `piano_torn`: an event that arrives between `main.c:141` and `:142` is taken
  with the key of the previous one: of two presses the second registers the key of the
  first.
* `piano_pitch`: the key goes into bits 7 to 1 of the key byte
  (`avalon_RxDecMIDI_v2.vhd:233`) and the sound module takes bits 6 to 0
  (`avalon_Sonido_v1.vhd:176`): the pitch is twice the key, modulo 128.
* `jtag_eio`: a write that waited while the host was silent for a second returns
  -EIO, "Host not connected", although the host has just made room and is well
  within its timeout (`altera_avalon_jtag_uart_write.c:187`).
* `alarm_stop`: a callback that stops the alarm after its own in the list sends
  alt_tick around that alarm for ever (`alt_tick.c:103`).
* `fd_lock`: alt_fd_lock does not look at the highest descriptor (`alt_fd_lock.c:61`).

One more text is not kept, without a run of its own: `main.c:39` and
`avalon_RxDecMIDI_v2.vhd:21` say that RegEstado is cleared when it is read. The
code clears it on the acknowledgement (`avalon_RxDecMIDI_v2.vhd:169`), as
`P_RegEstado` does; a read changes nothing.

`PressedKey`, `AlarmsStoppedNotCalled` and `LockMissesOneAtMost` prove that three of these
cases are the only ones of their kind: with a paced keyboard no press is taken
with another key, no other stopped alarm is called, and a lock misses no other descriptor.

The first comes with the blocking console: while the host does not read, every key
event but the last is lost to main. The last two are in vendor code that this
program calls, but not in the way the run shows.

## Theorems

Each module of proofs has one inductive invariant, or a chain of them, and the
properties that follow from it. All hold for every value of the constants that the
named assumption of the module allows; TLC evaluates these assumptions in every run.

| module | theorem | states | assumes besides |
|---|---|---|---|
| `PianoProofs` | `TypeCorrect` | `Spec => []TypeOK` | |
| | `CountAndVoice` | `Spec => []CountMatchesVoice` | |
| | `EventRaisesIrq` | `Spec => EventKept` | |
| | `Delivery` | `Spec => []ContextIsLastEvent` | `Pace # "free"` |
| | `OneEvent` | `Spec => []DecidesOnOneEvent` | |
| | `FirstKey` | `Spec => []FirstKeyHeld` | `Pace = "paced"` |
| | `Silence` | `Spec => []SilentWhenReleased` | `Pace = "paced"` |
| | `PressedKey` | `Spec => RegistersPressedKey` | `Pace = "paced"` |
| | `Refinement` | `Spec => Synth!SafeSpec` | `Pace = "paced"` |
| `SerialReceiverProofs` | `SerialReceiverTypeOK` | `Spec => []TypeOK` | |
| | `SerialReceiverSamples` | `Spec => []SampleInItsBit` | |
| | `SerialReceiverInStep` | `Spec => []InStepWhenQuiet` | |
| | `SerialReceiverReports` | `Spec => ByteReported` | |
| | `SerialReceiverKeepsUp` | `Spec => NoFrameLost` | |
| `MidiDecoderProofs` | `DecoderTyped` | `DecoderSpec => []DecoderTypeOK` | |
| | `DecoderReports` | `DecoderSpec => []PulseReportsNote` | |
| | `DecoderReportsNoMore` | `DecoderSpec => []NoSpuriousPulse` | |
| | `DecoderKeepsUp` | `DecoderSpec => NoOverrun` | |
| `AuSetupProofs` | `SetupInOrder` | `SetupSpec => []WordsInOrder` | |
| `JtagUartProofs` | `DriverTyped` | `Spec => []TypeOK` | |
| | `DriverSends` | `Spec => []NoByteStranded` | |
| | `DriverListens` | `Spec => []NeverDeaf` | |
| | `DriverTransmits` | `Spec => TxIsPipe` | |
| | `DriverReceives` | `Spec => RxIsPipe` | |
| `InterruptsProofs` | `InterruptsNested` | `IrqSpec => []InterruptsNest` | |
| | `InterruptsHandled` | `IrqSpec => []AlwaysAHandler` | |
| `SoundModuleProofs` | `SoundAligned` | `SoundSpec => []SoundInv` | |
| | `SoundIsTone` | `SoundSpec => ImplementsTone` | |
| `HalProofs` | `AlarmsOnTime` | `AlarmSpec => []AlarmInv` | `CallbackStops = "notNext"` |
| | `AlarmsCalledWhenDue` | `AlarmSpec => CalledWhenDue` | `CallbackStops = "notNext"` |
| | `AlarmsStoppedNotCalled` | `AlarmSpec => StoppedNotCalled` | `CallbackStops = "notNext"` |
| | `FileTableSound` | `FileSpec => []TableSound` | |
| | `FileTableLock` | `FileSpec => LockKeepsOthersOut` | |
| | `LockMissesOneAtMost` | a lock is granted beside no other user of the device but `alt_max_fd` | |
| | `HeapBlocksApart` | `HeapSpec => []BlocksApart` | |

**Piano**, one inductive invariant upon another:

* `TypeInv` adds to the types that the ACK bit is up only in the cycle after it is
  written; that is why the context never holds it.
* `DeliveryInv` follows the last event through irqhandler: in the registers until
  the acknowledgement, its status in the context from the first read on, its
  key from the second. `Delivery` is the part that a reader cares for.
* `HandlingInv` follows it through main: while main is between its test and its
  decision the context holds the event, and the key that main read is its key.
* `AloneInv` says that both hold, for any keyboard, of an event that found no other
  under way. The step that matters is that of the event itself (`DeliveryEvent`,
  `HandlingEvent`): it finds irqhandler and main at rest, and so both hold of it
  whatever came before. `BusyInv`, that main is never at work on an empty context, is
  what "main at rest" rests on. With a paced keyboard every event is alone (`PacedAlone`).
* `FirstInv` relates first key and count to the keys that are down and the event
  under way: a counted first key is down, or its release is the event not
  handled yet. Without the second half it is not inductive, since a key is up
  from the moment the player lets it go. `FirstKeyHeld` and `SilentWhenReleased`
  follow from it when nothing is under way.
* `Refinement` maps the registers and the context to the one pending event of
  `MonoSynth`. Every access of irqhandler and main but four is a stutter: the
  decision (`Press`, `Release`), the write of the sound register (`Sound`), the
  event and the reset. That the rest are stutters is what the invariants are for.

**Serial receiver.** TLC sees one bit time of a period of 15; the theorems are what
reaches the 1600 cycles of the source. The argument compares two clocks. `Age` is how
long ago the receiver saw the line fall, read off its state and counters: `AgeStep`
shows that every edge adds one to it, whatever the state, which is where the three
cycles that each bit costs on top of its period are accounted for. `LineAge` is
how long ago the frame on the line began. `SyncInv` says that they are equal, or
that the receiver is at most half a bit ahead after a pulse. By `Tolerance`, the
k-th sample then lies in bit k; the products `k * T` are compared for each k,
since k is at most nine.

* `CounterInv`: no counter wraps before it is loaded again. `AgeStep` needs it.
* `QuietInv`: a receiver at work is at least as old as the quiet of the line. A
  reception ends, so that after a whole one of quiet the receiver waits: the
  line can be called clean again only when it does.
* `ContentInv`: the register holds the bits of the frame up to the last sample.
  It is also what makes the stop bit 1, and so brings e8 after e7.
* `OwedInv`: a byte is owed from the start of its frame to e8. At the last cycle
  of a frame `LineAge` is `10 T - 1`, by when the receiver is in e8 or waits.

**Decoder.** The decoder works a byte off in up to four cycles while the record of
the keyboard moves at once, so the two can be compared only ahead of time: `Target`,
`CodeNext`, `KeyNext` and `VelNext` are the state and registers it will have when it
waits again. A clock edge without a byte changes none of them; a byte changes them
as if it were taken at once. `SyncInv` compares `Target` with the position in the
message, by how many messages of two data bytes have begun since the last fault:
`StepOne` and `StepTwo` say how far out of step it can still be, `StepThree` that it
is not.

**Set-up.** `PhaseInv` says in which half of the clock each state is and which bit is
on the line; `Clocked` how many bits the codec then has of the word; `CodecInv` that
it has these bits, or is idle and, unless between two words, has no word left since a
refusal; `CountInv` that its words are as many as the master counts. Two mod facts
carry it: the period wraps where the clock falls, and a bit count is a multiple of a
byte only after one, two or three. One bit per byte is excluded: the bit before the
STOP would then be taken for a byte.

**Driver.** What makes the rings work without locks is what a party has read and
still relies on while the other moves. `TxInv`: the stretch that write is filling is
free, and what it has copied is still there when it publishes it. `RxInv`: the same
of the stretch that read empties. `RoomInv`: the room in the FIFO that the interrupt
routine has read is still there. `EnableInv`: the driver's copy of the enable bits
agrees with the device's, and an interrupt that is off is not needed. For the
refinement the rings are read as sequences: `RingAppend` and `RingDrop` say what
moving an index over a stretch adds and takes; both cases, a stretch that ends in
the array and one that ends at its end, are inside these lemmas. Every step is then a
`Put`, a `Get`, an `Ask` or a stutter of `BytePipe`. Unread bytes are counted from
`rx_out`, or, when read has copied them and not yet released them, from where it will
be (`Unread`).

**Sound module.** TLC sees levels of bclk of 2 and 3 cycles and samples of 3 bits; the
theorems reach the board's 8 cycles, drifting, and 16 bits. They compare the state
of UCau_out with the codec's place in its frame. After a reset in mid-frame the two may be
anywhere relative to each other, so the invariant comes in two parts. `LagInv` holds
always and speaks only of the right channel: while a word is shifted out the state
machine is not behind the codec (`slot <= done`), and when it waits for daclrc the edge
has not passed. That is enough to show (`BeginsWaiting`) that it waits whenever a
frame begins, so that one frame puts it in step. From then on `AlignedInv` knows
the very bit (`slot = done`). `WordInv` says that the shift register holds the sample of this
frame turned by `done` bits, so that after the last bit it is what was loaded and the
right channel gets it too; `ReadInv` that the codec has the first
`bitsRead` bits of it. For the refinement, a frame that ends has two whole copies of
the sample of one setting (`FrameWhole`), and the phase advances only where it is
loaded.

**Interrupts.** The invariant looks at one frame of the stack with the one below it:
which of its sections left interrupts on (`On`), what it lets in, and that the state
it will restore is the one it found. It holds at any depth because each step changes
only the top frame, or adds or removes one.

**Alarms.** "All alarms before the one under way have been visited" is about paths in
a linked list, and induction along a path is out of the prover's reach. The
invariant says it with numbers instead: there is a `rank` for each node that falls along the
links (`Ordered`), 0 at the head. alt_alarm_start puts an alarm in front of all,
with a rank above all; alt_alarm_stop leaves a gap, and the order stands. What
the walk has still to visit are then the alarms with ranks up to that of `cursor`
(`Walked`), and an alarm that a callback starts is above it, so not called before the
next tick. `OnTime` relates the time and the flag of an alarm to the tick asked
for: `nticks + due`, or less by the range of the counter with the flag up. In
the tick in which the counter becomes 0 the flags are taken down one by one, so the
alarms still to be visited may hold either form (`ToVisit`). The two properties
follow: an alarm visited is called exactly if it is due, and when the walk is back
at the head all have been visited. If a callback may stop the alarm that follows
its own, `cursor` leaves the list and nothing of this holds: that is `alarm_stop`, and
why the theorems exclude it and nothing else.

**Descriptors and heap.** `TableSound` needs to be told besides that the standard
descriptors are never released and that no lock precedes main (`BootInv`);
`BlocksApart` that every block ends at or below the end of the heap, which may itself
lie up to three bytes above its limit. `LockMissesOneAtMost` needs that the highest
descriptor is above the standard ones once main runs (`MaxInv`): alt_io_redirect has
opened one.

## Only model-checked

Liveness (`RequestServed`, `EventsSettle`, `PressIsHeard`, `NoteReported`,
`SetupEnds`, `WritesEnd`, `ReadsEnd`, `IsrEnds`, `HighestServed`, `TickEnds`,
the fairness part of `ImplementsMonoSynth`): the proof system does not handle
`ENABLED`. Every safety property that a passing run checks is also proved.

## Not modelled

* Wording of the output, switches and LEDs: no other state depends on them.
* The velocity on its way to the sound register: passed through.
* System real-time bytes inside a message and note on with velocity 0: the keyboard
  is assumed to send neither; the repository says nothing of either.
* Metastability of the unsynchronised inputs: beyond a model of cycles.
* The previous receiver (`hw/old`): not instantiated any more.
* The Nios II system, its interconnect, memories and timer, and the rest of the
  support package. Most of its lines are declarations of registers and
  configuration (`system.h`, `nios2.h`), start-up code, glue that passes a call on
  without state of its own, and vendor code that this build does not reach:
  profiling (`alt_gmon.c`), logging (`alt_log_printf.c`, switched off by its
  macros), DMA and flash, the polling variant of the driver. A model of
  these would be of a program that is not built. They are the larger part of the lines
  in the repository, so that the share of lines that the definitions stand for
  stays small however much of the program proper is modelled.

## Plan

1. Done: `RxDecMIDI`, `Piano`, `MonoSynth`, `SerialReceiver`, `MidiDecoder`; the sound
   module and the set-up; the software under main; the proofs listed above.
2. Done: every safety property of a passing run proved, and for the comments that
   the code does not keep (`piano_torn`, `alarm_stop`, `fd_lock`) a theorem that
   says when it does.
3. Next: the composition of `Piano` with a blocking `write` of `JtagUart`, instead of a main
   that may take any time: how long a host must stop reading for an event to be lost.
4. The previous receiver (`hw/old`) as a second implementation of the same promise.
