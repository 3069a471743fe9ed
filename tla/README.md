# Brunix in TLA+

Brunix is a small x86 kernel. It is started by a Multiboot loader, sets up its
descriptor tables, remaps the interrupt controllers, enables interrupts, programs
the timer, installs a keyboard handler, builds page tables, enables paging, and
ends in a deliberate page fault whose handler panics. There are no processes and
no scheduler: the concurrency is that of one thread (`kmain`), the interrupt
handlers that stop it between any two instructions, and the devices.

Contents: 1 the system, 2 the modules and how they relate to the code, 3 the
runs, 4 bounds and fairness, 5 the proofs, 6 disagreements between code and
comments, 7 what is not modelled, 8 the plan.

## 1. The system

| part | source | state | operations | interacts with |
|---|---|---|---|---|
| handoff | `multiboot_header.asm`, `multiboot.h`, `entry_point.asm` | registers and structure of the loader, the kernel's stack | accept the header, push, call `kmain` | loader, `kmain`, the size of the frame bitmap |
| boot | `kernel/main.c` | position in `kmain`, interrupt flag | one step per subsystem, `sti`, final fault | calls every other part once |
| descriptor tables | `gdt.c`, `idt.c`, `descriptor_tables.asm` | GDT, IDT, the CPU's table and segment registers | set a descriptor or gate, load | read by the CPU at every interrupt |
| interrupts | `irq.c`, `isr.c`, `interrupt.asm` | callback tables, frames on the 8 KB stack | stub, EOI, dispatch, `iret` | controllers, callbacks, interrupted code |
| controllers | `irq.c` (external chip) | request, in-service and mask registers, base vector | remap, EOI | devices on one side, CPU on the other |
| timer | `timer.c` | `timer_ticks` (64 bits in two words), divisor of the PIT | program the divisor, wait, count, read | line 0, `kmain` |
| keyboard | `keyboard.c` | buffer of the controller, the table of characters | read port 0x60, translate, print | line 1, console |
| console | `vga.c` | cursor, colour, video memory, display registers | `vga_putc`, scroll, move cursor, clear | called by `kmain` and by handlers |
| formatted output | `libkern/stdio.c`, `stdlib.c`, `stdio.h` | position in the format and in the arguments | `printk`, `itoa`, `debug`, `panic` | console |
| paging | `memory.c`, `paging.asm`, `paging.h` | frame bitmap on the stack, directory, table, cr0, cr3 | `paging_init`, page fault | every memory access |
| primitives | `string.c`, `processor.h`, `io.h` | none | `memset`, `msb`, `lsb`, port access | |
| unbuilt | `printk.c`, `include/asm/asm.h` in the root | | an earlier `printk` | nothing |

What makes it hard, and what correctness means, part by part:

- *boot*: everything an interrupt needs must be there when `sti` runs, in a
  program without error handling: a missing piece is a triple fault. The boot must
  reach its end however interrupts fall.
- *interrupts and controllers*: the end of interrupt goes out before the callback,
  so the controllers offer the next request while a handler still runs; one stack
  of 8 KB; spurious requests; two cascaded chips that both want acknowledging.
  Correct: one handler at a time, each request served once, none forgotten, no
  acknowledgement given to somebody else's request.
- *timer*: no tick may be invented (one may be lost: requests merge); the chip gets
  the rate that was asked for; a count read in two words is a count, or torn in the
  one known way; the busy waits end.
- *keyboard*: bytes in order, none twice, none left behind without a request; each key
  prints its own character, with one byte of the one or two it sends known at a time.
- *console*: shared by `kmain` and handlers without any lock or `cli`. Correct when
  alone: a terminal. Correct when shared: no write away from the screen, cursor in
  bounds, and recovery from whatever an interrupt has disturbed.
- *paging*: the switch happens under running code and handlers; the frame bitmap is a
  variable-length array on a small stack, with a loop that overruns it on one side and
  calls and interrupts that push below it on the other, where the page tables are.
- *handoff*: a constant in the header decides what the loader provides, arguments are
  pushed by hand, fields are read without a look at the flags that announce them.
- *descriptor tables*: addresses cut into fields by masks and shifts, wrong only when
  the CPU uses them.
- *stubs*: interrupted code goes on as if nothing had happened, through frames that
  differ by one word from vector to vector.
- *formatted output*: a message prints what its format means and every conversion finds
  its argument, though no compiler checks it; a number can be read back.

`PROJECT.json` lists every hazard with its line and the properties that watch it.

## 2. The modules

| module | models | related to |
|---|---|---|
| `Pic8259` | one 8259A, as pure operators on a record | used by `Interrupts` |
| `Interrupts` | boot, tables, CPU, stubs, `irq_handler`, `isr_handler`, timer, keyboard, devices | two `Pic8259` chips; `Service == INSTANCE IrqService` |
| `IrqService` | abstract: what the subsystem promises a line; its liveness is `HandlersEnd` | implemented by `Interrupts` |
| `TrapFrame` | the words of the frames and `struct registers_t`, restoring, the page fault report | the inside of a step of `Interrupts` |
| `Descriptors` | the bits of descriptors and gates, loads, delivery | gives `Interrupts` its gates |
| `Clock` | `timer_init()`, `timer_callback()`, `get_clock_tick()`, printing it | the timer's callback |
| `Keyboard` | the table and `kbd_callback()`'s translation | the keyboard's callback |
| `Console` | `vga.c`, one memory or port access per action, and handlers that print | `Promise == INSTANCE Terminal` |
| `Terminal` | abstract: a screen to which characters are written | implemented by `Console` when no handler prints |
| `Printk` | `printk()` and every message of the kernel | calls `Numbers` and `Console` |
| `Numbers` | `vga_write_number()` and `itoa()` | |
| `Handoff` | header, loader, entry point, the fields `kmain` reads | its `mem_upper` is the input of `FrameBitmap` |
| `FrameBitmap` | `paging_init()` and its stack: the three loops over the frame bitmap, the tables below the stack, the calls that follow | its outcomes are those of `Interrupts!EnablePaging`; that the tables are intact is what `Paging` starts from |
| `Paging` | the tables built by `paging_init()`, the CPU's walk, accesses at any time | its result (0x400000 faults) is the step `TouchUnmapped` of `Interrupts` |
| `OldPrintk` | the `printk()` of `printk.c`, which is not built | |
| `Primitives` | `memset()`, `msb()`, `lsb()` | |
| `MCInterrupts`, `MCConsole` | constants for the model checker | |
| `MCBoot`, `MCHandlers`, `MCLibrary` | constants, and several of the above side by side | |
| `InterruptsProofs` | theorems about `Interrupts` | |
| `ConsoleProofs` | theorems about `Console` | |
| `BootProofs` | theorems about `Descriptors`, `Paging`, `FrameBitmap`, `Handoff` | |
| `HandlerProofs` | theorems about `TrapFrame`, `Clock`, `Keyboard` | |
| `PrintkProofs` | theorems about `Printk` | |
| `OldPrintkProofs` | theorems about `OldPrintk` | |
| `LibraryProofs` | theorems about `Numbers`, `Primitives`, and `MCLibrary`, which runs all four | extends the two above |
| `Induction` | induction over numbers and sequences, recursive functions, `FlattenSeq` | used by all of these but `ConsoleProofs` |

The state machines are separate because they share little, and what one takes from
another is a property checked or proved there. `Console`, `Clock` and `Printk` take from
`Interrupts` that a handler runs to its end before `kmain` goes on (`NoNesting`).
`Interrupts` takes from `Paging` that with paging on the page at 4 MB faults and the
pages below it stay where they are (`OnlyFirstTable`, `SwitchIsTransparent`), from
`FrameBitmap` that `paging_init()` returns or jumps to 0xFFFFFFFF (`ReturnsOrFaults`) and
that its gates and handlers are intact (`TablesIntact`, up to 355 MB of memory),
from `Descriptors` that each vector reaches its stub (`DeliveredToItsStub`), and from
`TrapFrame` that `iret` resumes what was interrupted (`Restored`). `Paging` takes from
`FrameBitmap` that nobody writes to directory and table once they are built
(`TablesIntact` again; with more memory somebody does, `FourMegabytesMapped`). `Keyboard`
takes from `Interrupts` that bytes arrive in order (`KeysInOrder`).

`MCBoot`, `MCHandlers` and `MCLibrary` put modules that share no state side by side: the
variable `part` says which of them a behaviour is about, the others stay in an initial
state. One run then covers them without multiplying their states, and the constant
`Parts` restricts a run to some of them.

**Interrupts.** `kpc` is the next step of `kmain`; each action `CheckMagic`,
`GdtInit`, ..., `EnablePaging`, `TouchUnmapped` is one of its calls, cut where an
interrupt in between could matter (`timer_init()` into four steps, `paging_init()`
into three). `frames` is the stack of interrupt frames; the stage of the innermost
one is where its handler is: the `cli` of the stub, the EOI, the callback or
`isr_handler()`, the `sti`, the `iret`. `MasterInterrupt`, `SlaveInterrupt`,
`SpuriousMaster` and `SpuriousSlave` are the CPU taking a request. `shadow` is the
one-instruction delay of `sti`, on which the tail of the stubs relies. `Enter` uses
the tables as the CPU would and faults if something is missing; `Iret` faults if the
stub dropped the wrong number of words. The devices (`PitEdge`, `KeyTyped`, `Pulse`)
act whenever they like. The frame bitmap loop of `paging_init()` overruns its array
and damages the frame of the function; the two outcomes that the `-O0` build shows
as long as gates and handlers are intact, a return to `kmain` and a return to
0xFFFFFFFF, are a choice in `EnablePaging`.

**Console.** `kpc` walks through `vga_putc()`, `scroll()` and `move_cursor()`.
Because the build uses `-O0`, `cursor_x++` is a load (`LoadColumn`) and a store
(`StoreColumn`); `reg`, `word` and `loc` hold what was read and not yet used.
Backspace, tab and carriage return are one step: `kmain` prints them, if at all, from
the loader's strings before `sti` (`CharAssumption`). `HandlerPutc` is the whole
function in one step, in whatever state `kmain` left the variables. Characters are
a printable one, another one, and the five kinds of control character; video memory
has one row more than the screen, the one `cursor_y = 25` leads to, and
`WritesNearScreen` says that nothing goes beyond it.

**Paging.** Addresses are page numbers, a table has `ENTRIES` entries. `Access` is
any memory access of `kmain` or a handler, before, during and after the switch.

**Numbers.** `value` is the signed parameter of `itoa()`; division and remainder
round towards zero, as in C. `Reading` is how a reader understands the string.

**Descriptors.** A word is the set of its bits that are one, so that masks are
intersections and shifts move members. `Encoded` and `Gate` are `gdt_set_desc()` and
`idt_set_gate()`; `Base`, `Limit`, `Offset` are what the CPU makes of the fields. Loads
check what the CPU checks in ring 0, and a refusal is a `"fault"`. `seg` holds the
descriptors cached in the segment registers: until `LoadSegment` has replaced one it is
still the loader's. `Interrupt` delivers any vector with a present gate.

**TrapFrame.** `mem` is the stack, word by word. `Enter` pushes what the processor
pushes, with an error code for the vectors that have one; `StubEntry`, `SaveState`,
`CallHandler` push the rest; `Field` is the layout of `struct registers_t` over it.
`traps` is history: what was interrupted. The resumed code may push and pop in between,
with the arithmetic flags as they come.

**Clock.** Words have `WordSize` values. `KmainStep` is `timer_init()` and
`print_timer_ticks()`; `TimerCallback` may come between any two of its steps, the two
halves of the read among them; `order` is the order of the compiler. `timer_init()` may be
called with any frequency but 0; `Reload` is what the chip makes of the two bytes, and
`AsAskedFor` whether the frequency is between those of this count and the next.

**Printk.** A format is a sequence of `"t"` (any text), `"%"` and conversions; `Sites`
are all the messages of the kernel with the kinds of their arguments, pushed as words.
`frames` is the stack of calls: a handler may print between two characters of `kmain`.
`Meaning` reads a format from left to right without any of `printk()`'s machinery:
`Scanned` is what has been understood after each character. `"z"` stands for a character
that is no conversion. `MessageAssumption` says that formats consist of these characters and
that each conversion finds a word that was pushed, never the upper half of a number.

**Keyboard.** `USKeys` is the keyboard, taken from its reference and not from the code: a
legend (the unshifted one) and a code for each key, with the prefix 0xE0 for the later
ones. It sends one or two bytes for a press, a repetition or a release; `KbdCallback` sees
one at a time and looks it up in `kbd_US`. `Shown` is what the console makes of a character.

**Handoff.** `HeaderFlags` decide what the loader provides; `FieldNames` are the fields of
the structure. Field names stand for field values; `Junk` is what the loader has not
announced. `multiboot_info` has the offsets of the struct, `Protocol` those of the
interface. A foreign loader leaves anything in the registers but the magic number.

**FrameBitmap.** The second loop overruns the array, over the variables the loops use
and over the return address, so its effect depends on the frame the compiler lays out:
addresses are those of the `-O0` build. Only bytes that are read again are singled out
(`FillOwn`, `ReserveOwn`); the other writes of a loop are one step. Below the stack lie the
second table, the first table and the directory (lines 12-14), and below these the tables
of gates and handlers. The array has a byte for 8 frames and may reach any of them.
`BuildTables` writes directory and first table; `PushAndEnable` is everything the calls of
lines 109-115 push before PG is set, at least their arguments, return addresses and saved
frame pointers, at most `Deepest` bytes with an interrupt in the deepest of them. If the
array, or what may be pushed below it, reaches the gates (`Overrun`), the first interrupt
goes anywhere and the behaviour ends there (`ClearGates`).

**OldPrintk.** A number is converted, padded in place in a buffer and printed by a
nested call with the buffer as its format. `%d` prints the digits twice, once padded.
`MeaningOf` reads a format from left to right without calls or buffers: after each
character, whether it is in text, after a `%` or after a size, which argument is next, and
the text so far. `MessagesAssumption` says that a message is not cut short in a conversion
and that each conversion finds an argument it can take; for `%s` that is a string without a
`%`, since the code uses the string as a format. `BufferAssumption` says that `buf` has room
for a size (one digit) and for the decimal digits of a word, as 16 characters have for 32
bits.

**Primitives.** `SetByte` is one turn of `while(n--)` with the wrap of an unsigned `n`.
`bsr` and `bsf` leave any value for 0.

Definitions whose comment begins with "Seeded" are deliberate faults. No
specification uses them; put in the place of the definition after them, each makes
the property named in `PROJECT.json` fail, which shows that the property is
sensitive to the code.

## 3. The runs

| run | expected | shows |
|---|---|---|
| `irq` | pass | over the whole boot: types, `NeverFaults`, `NoNesting`, `InServiceOwned`, `InterruptsStayOn`, `MasksKept`, `NoPhantomTicks`, `KeysInOrder`, `KbdNotStuck`, `PanicIsFinal`; refinement of `IrqService` (`ServesRequests`); `RequestsServed` (every request is served or withdrawn, and every handler ends) and `KeysDrained` even with `kmain` standing still; `BootEnds` |
| `irq_early_key` | violation | a key before `kbd_init()` silences the keyboard |
| `console_terminal` | pass | refinement of `Terminal` without handlers, tabs and backspaces included |
| `console_irq` | pass | `CursorBounds`, `WritesNearScreen`, `CursorAgrees`, `ColourRestored` with handlers printing anywhere |
| `console_cursor` | violation | hardware cursor wrong at rest |
| `console_offscreen` | violation | a character lost below the screen |
| `boot` | pass | `Handoff`: `HeaderServes`, `ParametersArrive`, `FieldsAreTheLoaders`; `Descriptors`: `SegmentsFlat`, `DeliveredToItsStub`; `FrameBitmap`: `TablesIntact`, `ReturnsOrFaults`; `Paging`: `SwitchIsTransparent`, `OnlyFirstTable` |
| `handlers` | pass | `TrapFrame`: `FieldsMatch`, `Restored`; `Clock`: `RateIsRight`, `ReturnedOrTorn`, `WaitsEnd`; `Keyboard`: `LegendsInOrder` |
| `keyboard_legends` | violation | keys that print something else than their legend |
| `library` | pass | `InBounds` (formats, buffers and frames of all four); `Printk`: `PrintsItsMeaning`, `ArgumentsMatch`; `Numbers`: `ReadsBack`; `OldPrintk`: `PrintsItsText`; `Primitives`: `Postconditions` |
| `bitmap_reserved` | violation | frames of the kernel stay free |
| `paging_overwritten` | violation | calls push into the page table that is about to be used |

`CursorUpdated` and `CursorAgrees` belong together: the first is what the comments
of `vga.c` say, and fails; the second says exactly when it may fail (a handler
printed inside `move_cursor()`) and that the next character repairs it.

So do `PrintsWhatIsTyped` and `LegendsInOrder`: the first fails, the second says for which
keys, and that all others print their legend whatever was sent before them. And
`FourMegabytesMapped` and `TablesIntact`: the second says up to which amount of memory
the tables are safe.

The refinement of `Terminal` maps the cursor of the terminal to the *hardware*
cursor and its lines to video memory, both as `kmain` last left them (`shown`), so
it covers the display registers as well as the text.

Deadlock is not checked: the system really stops, the boot in a halt, the others after a
bounded number of characters, ticks or keys, or when a routine returns.

## 4. Bounds and fairness

- `Interrupts`: at most two timer periods, two bytes of the keyboard (presses of two keys
  and the release of one) and two requests of other lines, one on each chip, with one
  masked line; no more than three of bytes and requests together (`MaxInputs`). Two of each
  is what it takes for a request to arrive while its own or another handler runs; nesting
  on either chip, a merged tick, a byte behind another, two keys that change places and a
  spurious request on each chip all happen within them. Keys come after `kbd_init()`,
  except in `irq_early_key`. The proofs do not depend on these bounds.
- `Console`: a screen of 2 by 2 or 3 by 2 cells, tabs of 2, bytes of 3 values (so
  that a location needs both), three or four characters by `kmain` and two by handlers:
  enough for a wrap, a scroll, and a handler in the middle of each. The safety
  properties and the refinement are proved for every size.
- `Paging`: a directory and a table of six entries. Proved for every number above one.
- `Descriptors`: the real sizes; stubs on both sides of a 64 KB boundary.
- `FrameBitmap`: 950 memory sizes. From 16 to 251 MB so that the array starts at every
  address the stack allows modulo 256; from 251 to 641 MB in steps of 1000 KB, so that
  the array, and the words pushed below it, end in every one of the tables; 1 to 4 GB,
  where it covers them all; smaller ones, down to nothing; and some beyond 4 GB, where the
  report wraps. The stack is where the linker puts it. Proved for every size and place.
- `Handoff`: words of 16 values, which the checksum and the stack fit in; any subset
  of the optional fields.
- `TrapFrame`: a stack of 32 words, enough for an exception in a handler; two contents of
  the registers that differ everywhere; exceptions with and without an error code and
  the page fault; lines on both chips.
- `Clock`: words of 3 values and 10 ticks, so that the count wraps both of them; a time
  stamp counter of 8 values from every start; eight frequencies: those where the divisor
  just fits 16 bits or is just not 0 and their neighbours, the lowest, the kernel's, and two
  with a byte that is 0 or 255.
- `Printk`: all messages of the kernel and all formats of up to four characters.
- `Keyboard`: 49 of the 103 keys (the ends of every row, the first and last of the keypad, all those
  with a prefix, PrtSc among them), three events. Proved for all keys of the keyboard.
- `Numbers`: words of 10 bits, all 1024 of them in three bases. `OldPrintk`: words of 16
  bits, the buffer of the code, 13 values, sizes 0, 3, 4, 8 and 9. `Primitives`: 16 bytes of memory, every
  destination and length, values of either sign.

Fairness. `IrqFairSpec` assumes that the CPU goes on with a running handler
(`WF(HandlerStep)`) and takes a request while interrupts are enabled (`WF(Accept)`).
That is what hardware does: no instruction of a handler waits for anything. Nothing is
assumed of the devices, and nothing of `kmain`, so that `RequestsServed` and
`KeysDrained` do not rest on the boot making progress. `BootEnds` states its own
assumption, that `kmain` gets the CPU when no handler has it (`WF(KmainStep)`); it is
true because handlers are finite and the model's devices make finitely many requests. On
hardware it needs that the timer at 100 Hz leaves time between interrupts. `Clock` makes
the same assumption for `WaitsEnd`: a tick takes less than its period.

## 5. The proofs

All theorems hold for every value of the constants that satisfies the named
assumptions, without bound on the number of steps.

**Interrupts** (`InterruptsProofs`). None of the properties is
inductive alone: that a handler is not interrupted depends on the gate's type, which
depends on the tables having been filled; that an EOI retires the right request
depends on nothing nesting; that nothing nests depends on what is in service and on
the flag. The invariant `IInv` puts together: how far `kmain` has filled the tables
(`Tables`); that there is at most one frame, with an existing stub, the right number
of words and the flag off unless it is at its `iret` under the shadow (`Stack`,
`FrameOK`); who is in service (`InServiceOwned`); the masks. Lemmas say what each
operation of a chip does; `NewFrame` and `NextStage` treat all ways to enter a handler
and to go on in it together. From `IInv` follow `NeverFaults`, `NoNesting`,
`InServiceOwned`, `InterruptsStayOn` and `MasksKept`; on top of it, type
correctness, `NoPhantomTicks`, `KbdHasByte`, `PanicIsFinal` as an action property and,
assuming that no key is typed before `kbd_init()`, `KbdNotStuck`. That assumption is
needed: `irq_early_key` is the counterexample without it.

*The refinement of `IrqService`* (`InterruptsServe`). The mapping takes the lines latched in
the request register of either chip for `requested`, the line whose stub is on the stack for
`serving`, and "`kmain` is past its `sti`" for `open`. Each action maps to one of the
abstract ones: a device's edge to `Request`; `pic_remap()` to `Forget`, since it clears what
was latched before; the `sti` of `kmain` to `Open`; the CPU taking a vector to `Begin`, with
the line itself or a spurious one; the `iret` to `Finish`; everything else, the end of
interrupt included, to a stutter. It needs `IInv` and `CascadeQuiet`: nothing is ever
latched at the input of the master that stands for all of the slave. *Order of the keys*
(`KeysArriveInOrder`): the codes of presses among the bytes typed are those printed followed
by those still in the keyboard's buffer; `PressedAppend` and `PressedHead` say what becomes
of them when a byte joins or leaves the buffer.

**Console** (`ConsoleProofs`). `ConsoleInv` says at which points of `vga_putc()` the
cursor may be past the end of a line or of the page (`Bounds`), how old values in
registers may be off (`Registers`), and what `move_cursor()` has sent if nobody
interrupted it (`Sent`). A handler, from any of these states, brings the cursor back
to the screen, which keeps the points of `kmain` consistent; this is the lemma
`HandlerPrints`. Arithmetic on locations (row times columns plus column, high and low
byte) is in lemmas of its own. Assumptions: positive sizes, a screen and the row below it fit a
two-byte location (`WidthAssumption`), and `kmain` prints only printable characters and
line feeds while handlers print (`CharAssumption`).

*The refinement of `Terminal`* (`ConsoleIsATerminal`), for every screen and text, when no
handler prints (`Silent`; `console_irq` shows what handlers do to the console). A call of
`vga_putc()` maps to stutters up to its last port write, which maps to `Put`. `Putting(w, s,
r, c)` fixes what the call was given, the word w, a screen s and the cursor at row r and column
c, and says for each of its 23 points how far it has come: `Letters`, `Columns`, `Lines`, and
`Picture`, in which the loops of `scroll()` have lifted the cells below `i` and no others. Each
access keeps that (`...Progress`); at the last one the cursor is at `EndRow` and `EndColumn`
and the screen is `EndPage`. `PutStep` shows that this is what the terminal does in one step,
by kind of character. It rests on what lines are: writing a cell changes one of them
(`RowsOfGlyph`, from `CellsApart`), lifting the cells drops the first and appends a blank one
(`RowsLifted`), and the tab stops of the code, rounded up by a division, are those of the
terminal (`NextTab`).

**Paging** (`BootProofs`). `Built` says what the two loops have done at each point;
with it a walk below 4 MB is the identity and any other one faults. Assumptions: at
least two entries, the table in a frame that it maps.

**Descriptors** (`BootProofs`). `GateDecodes` and `DescriptorDecodes`: for every
address, base, limit and flags, what the CPU decodes is what was encoded (of a limit, its
20 low bits). From them and from how far the tables are filled (`DescInv`): no load is
refused, memory stays flat, each vector reaches its stub, wherever the stubs lie.

**FrameBitmap** (`BootProofs`). Nothing is assumed of the size of the array. The pointer,
whatever the loops do to it, only grows (`Reach`), so no loop writes below the array; what is
pushed lies within `Deepest` bytes below it; and 355 MB are the most with which this ends
above the first table (`RoomForPushes`): `TablesStayIntact`. `ReturnKeptOrLost`, for every
amount of memory with which the loops end: the return address is untouched or all ones.
`LoopsInv` says why nothing in between is possible: the fill writes 0xFF over the pointer it
uses, byte by byte, and goes on from the raised address, so that it covers the return address
completely or passes it; the third loop, which would set single bits, starts at the
raised pointer, and the first bit it sets there carries it past; and the words pushed are
below the array. Assumption: the stack ends on a page boundary between 1 MB and 4 MB, where
the linker script puts it.

**Handoff** (`BootProofs`). `HandoffInv` keeps, for each step of the entry point, which
words are on the stack and what is in the registers. From it: a loader of the protocol
accepts the header and provides the memory size and the text mode; `kmain` finds the two
parameters in the order it declares them and goes on only under the magic number; each
field it reads is the one the loader wrote, for all values and any width of a word.

**TrapFrame** (`HandlerProofs`). `TrapInv` relates the stack, word by word, to the history
of what was interrupted, for any nesting: each frame lies above the one interrupted and
holds its registers. From it the fields of the struct are what they say, the report of a
page fault is true, and code resumes unchanged (an action property).

**Clock** (`HandlerProofs`). `ClockInv` says that the two words are the count, and what the
words already read may be with a tick in between. From it: the rate is the one asked for if
and only if the frequency is between 19 Hz and that of the oscillator (kmain asks for 100),
what is printed is the lower word of a count, and the value returned is a count unless a
carry fell between the halves, when it is off by exactly one upper word.

**Keyboard** (`HandlerProofs`). `KeyInv`: what is on the screen, followed by what the bytes
in the keyboard's buffer will print (`OnItsWay`, a concatenation over the buffer), is what
the keys typed should print (`Answer`); only a code without the top bit prints. That the
table has this answer at the code of each key of a US keyboard, also when the code is that
of another key and a prefix came before it, is the lemma `TableAnswers`, proved from the
table and the keyboard, code by code. The only assumption is that the keys are some of those.

**Printk** (`PrintkProofs`). `FramesInv` relates each call on the stack to the format read so
far: what it has printed is what `Scanned` has understood, and the next word is that of the
next conversion. It needs that reading stops for good at an unknown conversion (`BadStays`).
Interrupts by other calls leave the frame alone, so the invariant survives any interleaving;
`FormatsAreObeyed` and `PrintkTypes` follow, for every set of messages that satisfies
`MessageAssumption`. `KernelArgumentsMatch` also needs that the kernel's own messages fit
their arguments. That is a fact about `Sites`, `SitesKept`, built up for each format from
its parts: text takes nothing (`TakesText`), a conversion takes the next argument if it
suits it (`TakesConversion`), and taking composes (`CarriesBoth`). `Matched` then says that
the words a call has taken are the first ones, each once, each of its conversion's kind.

**OldPrintk** (`OldPrintkProofs`). `PrintsItsText` is about the end of the outermost call,
so the invariant has to say what every call on the stack has still to contribute.
`StackInv` does: each frame stands where it has read a prefix of its format (`FrameInv`), and
there are texts `acc`, what had been printed when each call began, such that for a call and
the one inside it `acc[k]` and what call k has read come to the same as `acc[k + 1]` and the
whole meaning of call k + 1 (`Story`); for the innermost call, what is printed, with the
number it still owes, comes to `acc` and what it has read (`Balance`). `Rewrites`, `Enters`
and `Leaves` say what a step must show to keep this: to go on, to call and to return. A
number owed is a buffer halfway through its padding: `Holds` says that above `i` it is as it
will be and from `i` down as it was (`Moving`), so that the loop never overwrites a digit it
has yet to move. `Level` bounds the depth: a message calls for a number or a string, a number
for its digits, and digits for nothing. That a word's decimal digits fit `buf` follows from
`BufferAssumption`, as smaller words and larger bases leave no more after each division
(`LessLeft`). `OldTypes` and `OldPrintsItsText` follow, for every width of a word, size of the
buffer and set of messages.

**Numbers** (`LibraryProofs`). `NumInv` keeps the chain of quotients: each is the next one
times the base plus the digit written for it (`Chain`), the last is what is left to convert,
and during the inversion the digits that have changed places are known (`Swapped`). At the
end the chain, read backwards, is the recursion by which a reader understands the string, so
that `MagnitudeIsWanted`. That a buffer of W + 1 characters is enough (`DigitsFit`) is a
second invariant, `Room`: after k digits at most 2^(W-1-k) is left, as every base is at least
two. Assumption: words have at least two bits and bases are between 2 and 36.

**Primitives** (`LibraryProofs`). `MemInv`: the cells filled are those from the destination
to the pointer, around the end of memory (`Filled`, `Cell`), and nothing else has changed.
The bits of a word are found by comparing it with the powers of two around it (`Between`) and
by the first power that leaves a remainder (`FirstRemainder`). That powers of two behave like
ones (`PowerOfTwo`) is itself proved, by counting the subsets of 1..k.

**The library together** (`LibraryProofs`). Whichever routine a behaviour of `MCLibrary` is
about, each of the four behaves as its own specification says, since the others stay where
they are (`EachByItself`). So what is proved of each holds of the whole, and
`LibraryInBounds` is `InBounds` for all values of all constants.

**Induction over data.** The induction theorems of the library take a predicate, which the
provers cannot instantiate. `Induction` states induction over a *set* instead: one with 0
and all successors has every number, one with the empty sequence and all extensions has every
sequence. From it come the existence of a recursive function (`Recursion`), what it preserves
(`RecursionStays`), and what `FlattenSeq` does to an appended or a first element.

Some theorems state more than a run checks: that a keyboard interrupt finds its byte, that
a load is never refused, that a page fault's report is true, that a count is printed, that
digits fit their buffer, and the type invariants of the modules without one in a run.

Every invariant and every action property that a run expects to hold is a theorem, and so
are both refinements as far as they are about safety. Only model-checked: liveness
(`RequestsServed`, `KeysDrained`, `BootEnds`, `WaitsEnd`), which is about fairness and out of
the prover's reach.

## 6. Where code and comments disagree

1. `kernel/keyboard.c:69` promises repeated key press interrupts. A key pressed or
   released before `kbd_init()` is acknowledged by `irq_handler()` (`irq.c:95`)
   without port 0x60 being read, and no further edge comes.
2. `vga.c:37` and `:133`: the hardware cursor is updated. A handler that prints between
   the computation of the location (line 39) and the last port write leaves it wrong.
3. `vga.c:78`: a character is written to the screen. A handler that prints while
   `cursor_y` is 25 writes below it.
4. `memory.c:76`: the frames of the kernel are reserved. The loop before it writes to
   `RAM_MAXPAGE / 8` instead of the size of the array, and over the pointer to the array:
   the reserving loop then marks bits further on and at least 88 frames stay free.
5. `memory.c:99`: all entries of the table are filled, mapping 4 megabytes.
   `entry_point.asm:24` gives the stack 8 KB, and the array at line 66 has a byte for 8
   frames of memory: from about 252 MB on it leaves the stack and covers the tables. Those
   are filled only after the loops, so that up to 355 MB nothing comes of it; from about
   379 MB on what the calls of lines 109-115 push lies in the first table, and entries of it
   are gone when paging is switched on; still larger arrays put it in the directory, and
   from about 635 MB on the gates and handlers are overwritten.
6. `keyboard.c:10` and `:73`: the table is that of a standard US keyboard, and what is typed
   is translated and displayed. Line 62 takes the prefix of an extended key for a release
   (harmless in itself) and the byte that follows is translated as if it stood alone: Enter
   and the slash of the keypad come out right for that reason, PrtSc as an asterisk. The
   digits and the period of the keypad are displayed as nothing.

Each of these is the counterexample of a run. Others came up while modelling, and no run
is needed to see them:

- `memory.c:76`: the first 8 MB are identity mapped. Only 4 are; `OnlyFirstTable` says that
  the rest faults, and `second_page_table` is never used.
- `vga.h:31` and `:34`: a `uint32_t` is printed as decimal or hexadecimal.
  `vga_write_number()` passes it to a signed parameter; 0xFFFFFFFF is printed as `0x1`.
  `ReadsBack` says what is printed: the signed word, or its absolute value.
- `isr.h:54` and `interrupt.asm:111` say that the processor pushes `useresp` and `ss`.
  It does so only on a change of rings; here they are words of the interrupted code.
- `kmain` reads the strings and the memory map of the loader without a look at the flags that
  announce them (`main.c:117-120`). Nobody promises that they are there; what
  `FieldsAreTheLoaders` shows is that these reads may be junk and the memory sizes may not.
- `timer.c:44` demands that the divisor fit 16 bits and nothing enforces it; `RateIsRight` says
  from which frequencies on the rate is wrong. The only caller passes 100.
- `multiboot.h:40`: the last four fields have 32 bits where the interface has 16. The
  kernel reads none of them.
- `multiboot_header.asm:18` asks for "Linear graphics"; the value is that of text mode.

## 7. What is not modelled

- The empty bodies of `memcpy`, `strcmp`, `strcpy` and `strcat`, marked TODO and called by
  nobody; `inw` and the cache and fence instructions of `processor.h`, unused; `errno.h`, a
  table of numbers; the speaker bits set by `pic_acknowledge()`.
- Port access as such: `inb` and `outb` are one step where they are used.
- The layout of the image by the linker, except for the order of stack and tables.
- Which frame `FrameBitmap` would have under another compiler or optimisation, and what
  happens after the gates have been overwritten.
- The second legends of keys: the comment at `keyboard.c:76` leaves shift to the reader. So
  `Keyboard` also leaves out the shift codes that some extended keys send around their own,
  for which the table has nothing.
- What `kmain` prints, in `Interrupts`; the glyphs, in `Console` and `Printk`.
- `asm.h` in the root apart from `halt()`; GRUB modules, CMake output and editor files
  are vendored or generated.

## 8. The plan

Written, in this order: `Pic8259`, `Interrupts`, `IrqService`, `Terminal`, `Console`,
`Paging`, `Numbers`, `Descriptors`, `FrameBitmap`, `TrapFrame`, `Clock`, `Printk`,
`Keyboard`, `Handoff`, `OldPrintk`, `Primitives`, with the proofs of each.
Next:

1. A composition of `Interrupts` and `Console` in which the handlers of the former print
   on the latter, in place of the argument in section 2; the same for `TrapFrame`.
