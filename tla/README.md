# Specifications of NEMU, its kernel and its games

This directory holds TLA+ models of the programming assignment in `NEMU2021/`:
an x86 emulator with a debugger and devices (`nemu/`), a small kernel that runs
on it (`kernel/`), an interrupt-driven game (`game/src/typing/`) and a role-playing
game (`game/src/nemu-pal/`).  TLC checks the
models on small instances; TLAPS proves some of their properties for all values
of the constants.  Paths below are relative to `NEMU2021/`.

Contents

1. [The system](#1-the-system)
2. [Modules](#2-modules)
3. [Runs](#3-runs)
4. [Bounds](#4-bounds)
5. [Fairness](#5-fairness)
6. [Proofs](#6-proofs)
7. [What the code does otherwise than it says](#7-what-the-code-does-otherwise-than-it-says)
8. [Not modelled](#8-not-modelled)
9. [Plan](#9-plan)

## 1. The system

### The configuration that is modelled

The repository is the state of the assignment at one commit.  Some features are
compiled in, others wait for a macro, and some end in a `panic` until somebody
fills in a TODO.

* Compiled and complete: the DRAM, the instructions, the decoder, the debugger.
  `Dram`, `WatchpointPool`, `Monitor`, `ExprEval` and `Alu` model code that runs
  in the build as it is.
* Waiting for `HAS_DEVICE` (`nemu/include/common.h:7`, `kernel/include/common.h:8`)
  and `IA32_INTR`: the devices, the IDE driver, the interrupts, the game under
  NEMU.  Their path is interrupted by TODOs: `in` and `out` are no instructions of
  NEMU yet, `do_i8259` panics until `cpu.INTR` exists
  (`nemu/src/device/i8259.c:46,59`), and the kernel's `irq_handle` panics until
  the `TrapFrame` is organised (`kernel/src/irq/irq_handle.c:36`).
  `IdeDevice`, `SectorBuf`, `Letters` and `TypingGame` model the device, driver and game
  code, which is complete, in the configuration these macros describe; port access and interrupt delivery are taken to work
  as the code on both sides expects.  `I8259` and `DeviceLoop` take `do_i8259` with
  the two assignments to `cpu.INTR` that its TODOs name in place of the panics, and
  the processor's side (query, then acknowledge) as its interface is made for.
* NEMU-PAL is built without `PAL_CLASSIC`, so that battles run in real time.  `PalBattle`
  and `PalParty` model its code, not its data: the scripts and tables of the game
  are not in the repository, and what they may do is left open.
* `USE_DMA_READ` (`kernel/src/driver/ide/disk.c:4`) is off, so the driver is
  modelled in its PIO mode.  `IA32_SEG` and `IA32_PAGE` are off, so that
  `swaddr_read`, `lnaddr_read` and `hwaddr_read` take the same address.

### Components

| Component | State | Operations | Talks to |
|---|---|---|---|
| Simulated DRAM `nemu/src/memory/dram.c` | the array `dram`, one row buffer per bank | `ddr3_read/write`, `dram_read/write`, `hwaddr_read/write` | every load, store and fetch; the debugger's `x` and `*` |
| Watchpoints `nemu/src/monitor/debug/watchpoint.c` | `wp_pool`, the lists `head` and `free_` | `new_wp`, `free_wp`, `set_watchpoint`, `delete_wp`, `check_` | called by the commands and by `cpu_exec`; calls `expr` |
| Debugger and `cpu_exec` | `nemu_state`, the loop counter | `c si w d p q`, the loop, `nemu_trap`, `int3`, `inv` | watchpoints, expressions, instructions |
| Expressions `expr.c` | `tokens`, `nr_token`, kept between calls | `make_token`, `expr`, `eval`, `domi_position`, `check_parentheses` | registers, memory, symbol table |
| Instructions `nemu/src/cpu/exec` | `cpu.gpr`, `cpu.eflags`, `cpu.eip` | one per opcode and width | DRAM, decoder |
| Decoder `nemu/src/cpu/decode` | `ops_decoded` | addressing modes | DRAM |
| IDE controller `nemu/src/device/ide.c` | ports, file position, count, direction | port callbacks | the driver, through ports; the PIC |
| Interrupt controller, timer, keyboard | IRR, IMR, `intr_NO`, `newkey` | raise, query, acknowledge, `timer_sig_handler` | a host signal, devices, the CPU loop |
| Port and memory-mapped I/O, VGA, serial | maps and their spaces | dispatch to callbacks | CPU, devices |
| IDE driver `kernel/src/driver/ide` | sector buffers, write-back counter, `has_ide_intr` | `read_byte`, `write_byte`, `buf_fetch`, `buf_writeback`, `disk_do_read/write` | the controller; called by the kernel and by the handler of IRQ 0 |
| Kernel interrupts, loader, memory, system calls | IDT, handler lists, page tables, `cur_brk` | `add_irq_handle`, `irq_handle`, `loader`, `mm_brk`, `do_syscall` | IDE driver, user program |
| Letters `game/src/typing/effect.c` with `linklist.h` | node pool, list, scores | `create_new_letter`, `update_letter_pos`, `update_keypress` | `main_loop` |
| Game loop `game.c`, `keyboard.c` | `tick`, `now`, `target`, `letter_pressed`, IF | `main_loop`, `timer_event`, `keyboard_event` | letters; interrupted by timer and keyboard |
| NEMU-PAL battle `battle/fight.c`, `battle.c`, `ui/uibattle.c` | state, time meter, place in the order and action of each fighter; who is asked | `PAL_BattleStartFrame` with all it calls, once per video frame | inventory; scripts |
| NEMU-PAL party `global/global.c`, `ui/uigame.c`, `ui/itemmenu.c`, `game/play.c`, `game/script.c` | inventory, equipment, poisons, cash, party | menus, operations of scripts, start and end of a battle | battle |
| FLOAT `lib-common/FLOAT` | none | fixed-point arithmetic | user programs |

### What is hard about it

* *Interleaving.*  The handler of IRQ 0 runs `buf_writeback` in the middle of the
  kernel's own disk transfer.  The game shares `tick`, `letter_pressed` and IF
  with two handlers.  The host signal `SIGVTALRM` enters the interrupt controller
  while the emulator is inside it, between any two loads and stores of its registers.
* *State read in one frame and used in a later one.*  An action of a battle waits for
  its turn while others kill its target, take the last item, or change its owner.
* *Copies that must agree.*  Row buffers and the DRAM array; sector buffers and
  the disk; the value a watchpoint recorded and the value its expression has; the
  tokens an earlier expression left behind.
* *Hand-made linked structures.*  Two lists through one array of watchpoints; the
  doubly linked list and the free list of letters, from which the walker removes
  the node it stands on.
* *Arrays that end at their first empty entry.*  Slots of the inventory that are used up or
  shown twice; lists of poisons in which cures leave gaps.
* *Width.*  Flags at the extremes of a word; carries from one instruction to the
  next; double-width products and dividends.
* *Progress.*  Dirty sectors that only the timer writes; ticks that arrive between
  `sti` and `hlt`.

PROJECT.json lists each hazard at its line with the properties that watch it.

### What makes each component correct

| Component | Correct when |
|---|---|
| DRAM | indistinguishable from an array of bytes, whatever alignment and row (`ImplementsFlatMemory`) |
| Watchpoints | both lists end, share nothing and lose nothing (`PoolSound`); the program never runs past a point where an expression has not the value it had when `w` was typed (`ChangeStops`) |
| Debugger | commands come back (`ExecReturns`); an ended program stays ended (violated) |
| Expressions | the value of a fully parenthesised text as in C, if all its parts have one (`GuardedIsRight`; section 7 lists texts that have another) |
| ALU | every jump after `cmp` decides as its name says (`CompareDecides`); multi-word arithmetic composes (`WideSubtracts`, `MulThenDiv`, `SignedDivision`) |
| Interrupt controller | whatever the signal interrupts, no request but the timer's own is lost, none is invented (`ImplementsIrqLines`), INTR and its number name a request that is there (`Announced`), and the slave's assertion holds (`AssertHolds`) |
| Keyboard, disk line | the flag that keeps keys out never outlives its request (`KeyboardAlive`); what was accepted is served (`KeyIsRead`, `DiskIsServed`) |
| Sector cache | a store of sectors (`ImplementsSectorStore`); a clean buffer equals its sector (`CleanIsOnDisk`); a dirty one reaches the disk (`DirtyIsWrittenBack`); all until a write-back comes into a transfer |
| IDE device | its assertions never fail (`DeviceNotMisused`, violated); nothing but a write-back that comes into a transfer can make them fail (`DeviceNotMisusedAlone`) or `waitdisk` spin for ever (`WaitdiskEnds`) |
| Game | lists sound (`ListSound`); each letter counted (`EveryLetterCounted`); no assertion fails; no tick is forgotten (`CatchesUp`) |
| Battle | a striking enemy finds someone alive (`EnemyFindsTarget`); only the living and ready hold a place in the order (`TurnOrderSound`); one player at a time is asked (`OneAsked`); the last item is used once (`NothingFromNothing`); a stale target never fails the assertion (`NoAssertFails`, violated) |
| Party | behind the slots, nothing is doubled or invented, and only what finds no slot is lost (`ImplementsGoods`); each command does to what is owned what it says (`EachDoesItsOwn`); changing clothes lifts their curse (`ChangeUncurses`) |

## 2. Modules

    FlatMemory <--implements-- Dram          <-- MCDram, DramProofs
    Links <-- WatchpointPool <-- Monitor     <-- MCMonitor, MonitorProofs
                                ExprEval     <-- MCExprEval, MonitorProofs
                                Alu          <-- MCAlu, AluProofs
    SectorStore <--implements-- SectorBuf    <-- MCSectorBuf, SectorBufProofs
                 IdeDevice <--extends--'
    Links <-- Letters   <--     TypingGame   <-- MCTypingGame, TypingGameProofs
    IrqLines    <--implements-- DeviceLoop   <-- MCDeviceLoop, DeviceLoopProofs
                     I8259 <--extends--'
                                PalBattle    <-- MCPalBattle, PalProofs
    PalGoods    <--implements-- PalParty     <-- MCPalParty, PalProofs

A module that models a component takes its sizes as CONSTANTS with named ASSUMEs.
Operators called `Bug_...` are variants of the definition that follows them, with
the mistake their comment names; they are used only to see that a property
notices it.  In the diagram `<--` is EXTENDS where nothing else is said.

**FlatMemory, Dram.**  `FlatMemory` is the promise to the CPU: an array of bytes,
loads, stores, and an abort beyond the end.  `Dram` has `dram[bank][row][col]` and
a row buffer per bank; the fields of the union `dram_addr` are `BankOf`, `RowOf`,
`ColOf` (rank bits only select more banks).  `AfterRead` and `AfterWrite` are
`ddr3_read` and `ddr3_write`; `Load` and `Store` are `hwaddr_read` and `hwaddr_write` with
the second burst when an access crosses a boundary; `LoadFault` and `StoreFault`
are the failing `Assert`, after the first burst where it has been done.  Bytes of
the local array `temp` that nobody wrote are `NoByte`.

**Links, WatchpointPool, Monitor.**  `Links` says which nodes a C loop that follows `next`
meets: `Walk(p, next)` is the least set that holds `p` and is closed under `next`, and `Ends`
that the loop stops.  The pool keeps the `next` pointers as a function,
stale ones included; `Chain(p)` is the walk from `p`.  `SetWatchpoint` is `new_wp` with the assignments of
`set_watchpoint`; `FreeWp` is `free_wp`.  `Monitor` adds the commands and
`cpu_exec`.  The guest is what the loop sees of it: after an instruction each
expression has some value, and the instruction may be `nemu_trap`, `int3` or an
unimplemented opcode.  `Iterate` is one turn of the loop, with `check_` inside it
and the test of `nemu_state` at its end.  `Recorded` is what `check_` leaves in the watchpoints
it has evaluated, which are all, since the first that has changed does not end its loop.  `asked` is a history variable: the
expressions the user has asked for and not withdrawn, with the values they had then.  It is kept
by the commands `w` and `d` alone and knows nothing of the lists or of `value_watching`, so that
`ChangeStops` compares what the user was promised with what the loop does.

**ExprEval.**  The user means a tree; the code sees the tokens of a text of it.
`Text` writes a tree with the parentheses C needs (`plain`) or with parentheses
around everything but numbers and tighter operations (`guarded`).  `CallExpr` is one
call of `expr`; the tokens behind the end of the text stay what earlier calls left.
`Eval`, `DomiPosition`, `CheckParentheses`, `Retyped` follow the functions of
`expr.c`; `Meaning` is the reference, by recursion on the tree; as in C it leaves the right operand
of `&&` and `||` alone when the left one decides.  A decimal number is the token `NUM` and a hexadecimal one `HEX`, because
`-` and `!` read the number behind them with `%d` (`Scanned`).  The evaluator takes the right operand of
`||` always, so that `GuardedIsRight` promises a value when all parts of the expression have one, and an abort
otherwise.  The trees are the domain of
`Height`, which is lower for the parts of a tree.  Each recursion is a function, of the trees
or of the stretches `p .. q` of the array, whose one level is an operator of its own
(`ValueOf`, `TextOf`, `EvalOf`).  (The names differ from those of `Monitor`,
so that one module can hold the proofs about both.)

**Alu.**  Words of `Width` bits in `eax` and `edx`, the five arithmetic flags, one
action per instruction, the operand any word.  `Width = LongWidth` gives the long
forms, a smaller `Width` the word forms, which differ in the sign flag of shifts, the overflow of
`inc` and `dec`, and the dividend of `idiv`.  The jumps are conditions on flags
(`Je` ... `Jns`).  `last` is a history variable: the instruction before, its operand
and the registers before it.  Flags are what the code computes, also where that is
not x86 (section 7).

**SectorStore, IdeDevice, SectorBuf.**  `SectorStore` is the promise to
`ide_read` and `ide_write`: each call reads or writes one word of an array of sectors at
one moment.  `IdeDevice` is the controller behind its ports; each port access is
one guest instruction and therefore atomic.  `SectorBuf` is the driver on top of
it, with two contexts, `main` and `timer`.  Each has a program counter and, while
it transfers, the locals of `disk_do_read` or `disk_do_write`.  The kernel opens the interrupts
before its loader reads the disk (`kernel/src/main.c:62,82`), so that a tick may come between any two steps of `main`; the handler
runs to its end before `main` continues (`irq0` is an interrupt gate).  A step is one device access or one
assignment to a field of a buffer.  `disturbed` is a history variable: whether the handler has called `disk_do_write` while
`main` was between the ports of a command and the fields of the buffer it fills (`Critical`).  What happens after that is in the
model, and `sector_buf_assert` shows where it leads; the other properties say what holds before.
The refinement maps a sector to its buffer's content when it is buffered and to
the disk otherwise.

**Letters, TypingGame.**  `Letters` is the macro-generated list with its pool and
the operations of `effect.c`.  `TypingGame` is `main_loop` with a program counter;
code between `cli` and `sti` is one step; `Timer` and `Key` are taken between steps
when IF is set.  `update_keypress` returns without `sti` when it has hit a letter;
the model keeps that.  Positions are small integers and the y coordinate is left out.
`Chain` follows `_next` like the watchpoints'.  `EveryLetterCounted` ends with the game:
the assertion of `linklist.h:56` fails in the middle of `create_new_letter`.  `PoolLasts` is the
condition under which it does not fail: a letter that moves `slowest` a step has left the
screen before as many moves as the pool has nodes are over.

**IrqLines, I8259, DeviceLoop.**  `IrqLines` is what can be promised in spite of the signal handler: a
request stays until it is taken, except that the timer's may vanish, and one may
be taken twice.  `I8259` has the registers of both controllers.  The emulator's
`i8259_raise_intr` and `i8259_ack_intr` are split at every load and store of a
register the handler also writes (`Raise`/`Ack`, `Set`/`Clear`, `Rank`, `Ranked`,
`Do`, `Lower` or `Announce` and `Lift`); `SignalRaise` is the handler's call, which runs to its end.
`DeviceLoop` adds the loop of `cpu_exec`, `device_update`, the keyboard's flag and the guest's
handlers.  `Signal` may be taken between any two of these steps.

**PalBattle.**  `pc` follows `PAL_BattleStartFrame`: `StartFrame`, the enemies (`EnemyActs` and
`Strike` for the one that performs, `EnemiesGetReady` for the loop), the menu (`CheckReady` or `Command`), the
players (`UpdatePlayers`), and the one whose turn it is (`PlayerActs`, `NobodyActs`).  How fast a meter fills, how hard a
blow is, whether a status lasts, what a script does to the party and where a cursor
stands are choices.  So is what a script does to the enemies (`AfterScripts`): those at the start of an enemy's turn
and when it gets ready may hurt any of them, down to no health at all, and bring new ones (`fight.c:1154,1194`;
`script.c:987,1877,2703,2783`).  `drained` has the enemies that are there (`present`) with `wHealth` 0.
`PAL_BattlePostActionCheck` clears them away, but only after actions; in an action, scripts come before and after
it (`Strike`, `EnemiesAfter`).  What is noted of an enemy when it has performed is noted whether or not it has gone
meanwhile, as in `fight.c:1214-1228`.  The counters `sTurnOrder` are only compared, so that the model has the
comparison: `order` holds the pairs of players with a place of whom the first is not behind the
second.  `Choose` covers the menus, `Repeat` the key that repeats the last action at whatever it was aimed at,
and `Compelled` what puppets, the sleeping and the confused do; the automatic battle as a whole (`fAutoBattle`) is left out.

**PalGoods, PalParty.**  `PalGoods` is the promise without the slots' contents: counts of each item, how many slots are in use,
what is worn, cash.  `Gain` is the only way to lose something that comes: a piece that is not carried yet is lost when
every slot is in use.  `PalParty` has the array as the sequence of the slots before the
first empty one, because every scan ends there, and all commands that change it: the shops,
the menus of usable items and of equipment, `PAL_CompressInventory` inside them, and the
operations of scripts, among them 0x1E (`ChangeCash`, which does nothing when the cash is short) and 0x1F with either sign of
its amount.  `EachDoesItsOwn` ties each command to its own operation of `PalGoods`, so that a shop
that gives something up, or a sale that also loses, is no step of it although `PalGoods` has such steps.
`Only` is what the code does with two indices `i` and `j`: the entries
that are kept close up.  (The names of `PalParty` differ from those of `PalBattle` so
that one module can hold the proofs about both.)  `wearing` is the piece the equipment menu goes on offering; `loose` is such a
piece that found no slot.  The amounts in use of a battle are left out here; `PalBattle` has the question they
are for.

## 3. Runs

| Run | Shows | States |
|---|---|---|
| `dram` | row buffers agree with the array; no uninitialised byte is returned; the DRAM implements flat memory | 16 000 |
| `monitor` | the pool is sound after any commands; no instruction is executed after one at which an expression asked for had changed; `c` and `si` return | 64 000 |
| `monitor_ended` (violation) | a watchpoint that changes on the last instruction overwrites END, and the program can be continued past its end | |
| `expr_eval` | guarded texts of all expressions of two levels, decimal and hexadecimal numbers among their operands, have their C value if all parts have one, also after another expression | 111 000 |
| `alu` | jumps after `cmp` and `sub`; `sub`-`sbb`, `mul`-`div`, `cltd`-`idiv` | 32 000 |
| `sector_buf` | with ticks anywhere in the driver, up to the first write-back that comes into a transfer: the cache is a sector store, clean buffers equal the disk, the device's assertions hold, `waitdisk` ends, and every dirty buffer is written back or rewritten by its owner | 358 600 |
| `sector_buf_assert` (violation) | when a write-back comes into a transfer, the device's assertion fails | |
| `typing_game` | lists, scores, assertions, and every tick caught up with | 194 000 |
| `device_loop` | with a signal between any two loads and stores of the controller, no request of keyboard or disk is lost or misnamed, and each is served | 2 400 |
| `pal_battle` | the machines of players, enemies and the menu stay in step while anybody may fall, rise, be confused or become a puppet, and scripts hurt and bring enemies | 1 400 000 |
| `pal_battle_target` (violation) | a script takes the health of the last enemy after the one an action was aimed at has gone, and the assertion on the target fails | |
| `pal_party` | any order of menus and scripts keeps what the party owns, and each command does its own; changing clothes lifts their curse | 35 700 |

`sector_buf` and `sector_buf_assert` are one specification on one instance.  The first follows it while no
write-back has come into a transfer; its invariants and its refinement say so themselves (`disturbed`).  Nothing in the
kernel keeps a write-back out, which is what the second shows.  After one, `CleanMatches` and the refinement fail too, and the handler can spin for
ever in `waitdisk` on the write it has interrupted.

## 4. Bounds

| Run | Bound | Why it is enough to meet the cases |
|---|---|---|
| `dram` | 2 banks, 2 rows, 4 columns, bursts of 2; addresses 1, 3, 7, 15, 16 | an access crosses a burst, a row, a bank, the end of memory; two rows compete for a row buffer.  The theorems cover every size |
| `monitor` | 3 watchpoints, 2 expressions, 2 values, a count of at most 3 (`MaxN`) | removal at the head, middle and end; a full pool; the count runs out.  The theorems cover every pool and count |
| `expr_eval` | two levels of operations, 8 operators, 24 tokens, one expression before, one hexadecimal number | every pair of levels on either side; a register left in the third token, where a dereference looks.  The theorem covers every depth, width, array and number of calls |
| `alu` | 3-bit words | both signs, carry and overflow in all combinations; all four properties are proved for every width, and with them the types, which the run leaves to the proof |
| `sector_buf` | 2 buffers, 3 sectors of 2 words, `HZ` = 2, one disk image; nothing is followed beyond the first write-back that comes into a transfer (`Followed`; see MCSectorBuf) | two sectors share a buffer; a transfer has a first and a last word; a write-back finds the driver at every step at which it may |
| `typing_game` | pool of 3, 2 letters, 3 rows, `HZ` = 4, `MaxTick` = 4 | several letters on screen, equal lowest ones, hits and misses, a frame that takes several ticks.  The safety theorems cover every pool, screen, speed and clock |
| `device_loop` | `Gap` = 8 instructions between two signals; lines 0, 1 and 14 | the handlers of all three lines fit between two signals, as they do into ten milliseconds; the signal itself may come at any step, also in the middle of a raise or an acknowledgement.  With less than 6 the timer starves the others and the two liveness properties fail |
| `pal_battle` | 2 players, 2 enemies, a meter of 2 steps, one item, the actions `Use`, `Coop`, `Magic` and the repeated one besides those nobody chooses, the statuses `Confused` and `Puppet`; followed as long as it is two players, the first perhaps confused, against one enemy that is not drained, or one player, perhaps a puppet, against two enemies, and until its result is set (`Followed` in MCPalBattle) | a target dies while another is left, an enemy comes between two frames, both players choose the last item, a magic is still being cast when its owner dies or is raised, a cooperation loses its partner.  The safety theorems cover every party, field and kind of action |
| `pal_battle_target` | the same sizes, the action `Throw`, no status | the shortest way to a stale target needs two enemies |
| `pal_party` | 3 items, all to wear and two to use, 2 slots, 2 of an item at most, 2 roles, parties of one and of two, 2 poisons, 3 poison slots, cash up to 2; followed while everybody is healthy, or while only the first of the party is poisoned, with no cash, no hat on and at most one slot in use (`Followed` in MCPalParty) | the inventory is full, a slot is used up, an item is shown twice, a gap precedes a poison, the piece taken off finds no slot.  The theorems cover every inventory, body and list of poisons |

`MaxTick` (ticks counted), `SIZE`, `NrTokens`, `Earlier`, `Later`, `Calls`, `CashBound` and the cap
of a meter one above 100 are bounds of the models; scripts are asked for at most `Cap` of an item;
the ports of a command are written in one step, which is exact for disks of at most 256 sectors, where only one of
them changes; the code's counters wrap at 32 bits, which no run reaches.

## 5. Fairness

* `Monitor`: WF of `Execute`.  `cpu_exec` is a plain loop in the only thread.
  Nothing makes the user type a command.
* `SectorBuf`: WF of `Main` and of `Handler` (the processor goes on executing the
  context that is on top), SF of `Tick`: the controller holds a timer request
  until the processor takes it, and again and again there is a moment at which no handler runs.
* `TypingGame`: WF of `MainLoop`; SF of `Timer`, because IF opens again and again
  and the request waits in the controller.  Keys have no fairness.
* `DeviceLoop`: WF of `Emulator`, the loop in the only thread, and of `Signal`, because the
  host's timer goes on.  `Continue` has none: nothing makes the user go on after a stop, which is why
  both liveness properties end with `~ running`.
* `Dram`, `Alu`, `ExprEval`, `PalBattle`, `PalParty` state no liveness: what goes on in them is
  what the user or a script does, and a battle may last for ever.

`CHECK_DEADLOCK FALSE` stands where the system may stop: an abort of NEMU, the
command `q`, the kernel's panic, the end of the bounded calls of `expr`, the end of a battle.

## 6. Proofs

Checked with tlapm: about 970 obligations in `DramProofs`, 930 in `AluProofs`, 670 in
`DeviceLoopProofs`, 2990 in `PalProofs`, 2560 in `SectorBufProofs`, 330 in `LinksProofs`,
2730 in `MonitorProofs` and 2050 in `TypingGameProofs`.  In each module
`InitIInv` and `NextIInv` (or the lemmas of the same purpose) establish the inductive
invariant, with one lemma per action.

**DramProofs**, from `DramAssumption` (rows hold whole bursts, no access is longer
than a burst; a byte value exists).  `TypeOK /\ RowBufCoherent` is inductive; coherence is what makes the
write-back of a whole row harmless, and neither half of a refinement step holds
without it.  Arithmetic lemmas show that an address and its (bank, row, column)
determine each other and that an aligned burst stays inside its row; they rest on
division facts proved in the module.

| Theorem | Says |
|---|---|
| `TypeCorrect` | `Spec => []TypeOK` |
| `Coherent` | `Spec => []RowBufCoherent` |
| `LoadsInitialised` | `Spec => []NoUninitialisedByte` |
| `Refines` | `Spec => FM!Spec`, that is `ImplementsFlatMemory`: each load, store and fault is the step of the same name of `FlatMemory` |

**AluProofs**, from `HalfAssumption`: only that the top bit has a positive value,
never the number of bits; thus for 16 and 32 bits alike.  `TypeOK /\ CompareDecides` is
inductive: `CompareDecides` speaks of the flags the last step left, so that the
step that establishes it needs the types and nothing else.  `FlagsDecide` is its
heart: CF, OF, ZF and SF of a difference determine the order of the operands.
`SubtractsWide` adds that after `sub` the flag CF is the borrow.  `AfterMul` and `AfterCltd` say what these
leave in `edx:eax`; with them `DivisionUndoes` rests on `ProductSplits` (the two words of a product are the
product) and `SignedDivides` on `RemainderSmall` (a remainder is smaller than the divisor, whatever the
signs).

| Theorem | Says |
|---|---|
| `TypeCorrect` | `Spec => []TypeOK` |
| `ComparesRight` | `Spec => []CompareDecides` |
| `SubtractsWide` | `Spec => WideSubtracts` |
| `DivisionUndoes` | `Spec => MulThenDiv` |
| `SignedDivides` | `Spec => SignedDivision` |

**DeviceLoopProofs**, from `NoIntrAssumption` and `LoopAssumption` (the codes for "no
interrupt" and "no handler" are no lines; `Gap` is a number).  The invariant follows
the emulator through its calls of the controller.  Its heart is `Loaded`: whatever the
signal has done since the emulator loaded `master.IRR`, it has added the request of line
0 and nothing else, so that storing the old value loses at most that.  `CascadeKnown`
ties the request of the slave to a line of it, except while that line is being
acknowledged; `RankKnown` says what the ranks that are on their way to `INTR` and
`intr_NO` can be worth when the signal overtakes them.

| Theorem | Says |
|---|---|
| `TypeCorrect` | `Spec => []TypeOK` |
| `SlaveAsks` | `Spec => []AssertHolds` |
| `KeysGoOn` | `Spec => []KeyboardAlive` |
| `RequestsShow` | `Spec => []Announced` |
| `Refines` | `Spec => ImplementsIrqLines`: a request appears with the store to `IRR`, a request is taken with the store of the acknowledgement |

**PalProofs**, first part, from `BattleAssumption`, for any number of players and enemies.
The properties are inductive only together with what a frame remembers about
itself.  An enemy has looked for living players several steps before it strikes:
`StrikerSeesSomeone` says that `fMoved` is set by whatever could have made that stale.
The turn order is a linear order of players in Act (`OrderTypes`): `KeptOrder` is for those who
lose their place, `PlacedBehind` for those who get one.  It needs `AskedIsIdle`, that the
player who is asked has nothing to perform, since a player who yields goes back to Wait.  `FoeTypes` is what
is known of the enemies whatever scripts do to them: the drained are there, and so is the one that
performs.

| Theorem | Says |
|---|---|
| `DrawEnds` | `Spec => []EnemyFindsTarget` |
| `AskedOneByOne` | `Spec => []OneAsked` |
| `ItemsPaidFor` | `Spec => []NothingFromNothing` |
| `TypeCorrect` | `Spec => []TypeOK` |
| `TurnsInOrder` | `Spec => []TurnOrderSound` |

**PalProofs**, second part, from `PartyAssumption`, for any items, roles, parts of the body and
poisons, and any size of the arrays.  The heart of the invariant `PInv` is `Sound`: an item may
have several slots, since the menu of usable items writes worn ones into free slots, but all of
them except the first are empty.  Without it neither the types nor the refinement hold step by
step, since `PAL_GetItemAmount` and `PAL_AddItemToInventory` look at the first slot only.
`AddedFacts`, `RemovedFacts`, `CompressedFacts`, `ShownFacts` and `ReturnedFacts` say for each
routine that it keeps the inventory sound and what it does to the amount of each item; they rest on
`OnlyFacts`, that closing up keeps the kept entries in their order, and on `SameSlots`, that
inventories with the same slots in use hold the same.  `Own` collects for each command its operation of
`PalGoods`; the lemma of a command shows that one, and both the refinement and `EachDoesItsOwn` follow.  `ReturnedRest` gives the
recursive function of taking everything off a value, and `ReturnedFacts` goes along it by its least
counterexample.  For the curse, `UncursedFacts` says that nothing of its level is left at any place of
the list, and each of the three commands that change clothes names the part it changes.

| Theorem | Says |
|---|---|
| `PartyTypeCorrect` | `PartySpec => []PartyTypeOK` |
| `OneFullSlot` | `PartySpec => []Sound(inventory)` |
| `GoodsImplemented` | `PartySpec => ImplementsGoods`: each command is a step of `PalGoods` or changes nothing there, so that only a piece that is not carried yet is lost, and only when every slot is in use |
| `CommandsDoTheirOwn` | `PartySpec => EachDoesItsOwn` |
| `CurseEndsWithChange` | `PartySpec => ChangeUncurses` |

**LinksProofs** has no theorem of its own but what the next two need of singly linked lists, for
any links whatever.  Since `Walk` is a least closed set, a fact about all nodes behind `p` is
proved by showing that the nodes that have it are closed; no recursion along the list is
needed.  `LastUnique` and `NoCycle` say that a list that ends has one last node and meets no node
twice, `WalkLinear` and `OnePredecessor` that its nodes are in line; `Push`, `AppendNode`,
`DropFirst` and `Unlink` are the four ways the two programs change a list.

**MonitorProofs**, from `PoolAssumption` and `MonitorAssumption`, for any number of
watchpoints, expressions and values.  `TypeOK /\ PoolSound` is inductive with two more facts:
`Executing`, that inside `cpu_exec` the state is RUNNING and the count is not used up, and `AsAsked`, that the
watchpoints in use, wherever they are in the lists, are what the user has asked for, with the values they had then.
`AsAsked` needs that `check_` never records a new value, that `w` takes its node from the free list and that `d` finds
the node of its number; from it and `PoolSound` follows that a loop that goes on has seen every expression asked for unchanged.

| Theorem | Says |
|---|---|
| `TypeCorrect` | `Spec => []TypeOK` |
| `PoolStaysSound` | `Spec => []PoolSound` |
| `ChangesStop` | `Spec => ChangeStops` |

The same module proves, from `ExprAssumption` and `TreeAssumption`, that guarded texts are evaluated as
they are meant: for any set of trees with heights, words of any width, an array of any length and
any memory.

| Theorem | Says |
|---|---|
| `ExprRight` | `ExprSpec => []GuardedIsRight`: the value in C if all parts have one, an abort otherwise, for texts without `&&` and without a sign or a `!` before a hexadecimal number |

The argument has four parts.  `FixedPoint`: a recursive definition that descends along a height
has a solution, so that `Meaning`, `Text` and `Eval` are what their equations say (`MeaningIs`,
`TextIs`, `EvalIs`; `Shorter` is why `eval` descends).  `Lies` says how a text stands in the array, its
`-` and `*` told apart by the token before (`LiesApart` divides it into the parts of the expression).
`Stands` is what the evaluator needs to know of a stretch: the parentheses in it match, the operators
outside them bind at least as tightly as a bound says, and `Eval` of it is a given value.  One
lemma for each form of expression (`StandsAlone`, `StandsEnclosed`, `StandsUnary`, `StandsDeref`,
`StandsBinary`) derives it from that of the operands; `StandsBinary` finds the operator that
`DomiPosition` splits at, because both operands bind more tightly.  `AllRead` puts these
together, by the least height at which an expression would be misread.  It shows what the
parentheses of a guarded text are for: a unary operator is recognised because `(` precedes it, and a
dereference of a number does not look behind the `)` that follows.  The invariant of the calls is
`TextInPlace`: the last text lies at the start of the array, whatever is behind it.

**TypingGameProofs**, from `LettersAssumption` and `GameAssumption`, for any pool, screen, set of
speeds and frequencies.  `LInv` is the state of the two lists: `TwoLists` (both end and share
the nodes), `Backward` (`_prev` undoes `_next`), `Unused` and `OnScreen`; `Looping` says that the loop
variable of `update_letter_pos` is a node on the screen or NULL, although the loop frees the node it
stands on; `Clock` that `now <= target <= tick` where the code relies on it; `Counted` that hits, misses
and letters on screen are the letters that were started.  `AssertionsHold` has two hypotheses.  `KeyboardHandled`
is what the kernel's own IDT does not provide (section 7), and without it any key ends in a panic.
`PoolLasts` relates pool, screen and speeds; it holds for the code's numbers (a
letter is on the screen for 449 moves at most, and the pool has 1000 nodes), and TLC assumes it of the instance.
The argument is one of potential (`Paced`): the moves a letter has still to make and the letters newer than
it are together no more than the moves of a lifetime, because every letter moves between two new ones.

| Theorem | Says |
|---|---|
| `TypeCorrect` | `Spec => []TypeOK` |
| `ListsStaySound` | `Spec => []ListSound` |
| `LettersCounted` | `Spec => []EveryLetterCounted` |
| `AssertionsHold` | `KeyboardHandled /\ PoolLasts => (Spec => []NoAssertFails)` |

**SectorBufProofs**, from `DeviceAssumption`, `BufAssumption` and `CallsAssumption`, for any number of buffers,
sectors and words, with ticks anywhere in the driver.  The invariant is `Base /\ (disturbed \/ Calm)`.
`Base` holds for ever, whatever a write-back disturbs: the types, where the contexts are (`Places`), what their
transfers are for (`Purpose`), and what the device makes of the commands of both (`Device`: it is busy
only while a context writes, and then the other waits).  `Calm` holds until a write-back comes into a transfer.  It says that the handler and `main`
keep `Apart`, and that the one that transfers
knows where the device is: `Progress` ties `disk_pos`, `byte_cnt` and `ide_write` to its
locals and says that buffer and disk agree on the words before `i`.  What is
written out belongs to a buffer in use (`Outgoing`), and every buffer holds a sector of its own
slot (`BuffersInPlace`); with the lemma `Distinct`, that two words of the disk have two
positions, a transfer cannot touch a sector that another buffer caches.  `Settled` is what makes a
write-back harmless elsewhere in the driver: a buffer that `main` is about to give up, or has just filled, agrees with the disk
whether or not the handler has meanwhile written it.  For the
refinement, `Unseen` collects the steps that show callers the same: all but `Begin`,
`UseRead` and `UseWrite`.

| Theorem | Says |
|---|---|
| `TypeCorrect` | `Spec => []TypeOK`, also after a write-back has come into a transfer |
| `BuffersCurrent` | `Spec => []CleanIsOnDisk` |
| `PortsUsedRight` | `Spec => []DeviceNotMisusedAlone` |
| `WaitEnds` | `Spec => []WaitdiskEnds` |
| `Refines` | `Spec => ImplementsSectorStore`, that is `SS!Init /\ [][SS!Next \/ disturbed']_(SS!vars)` |

The last four are about executions in which no write-back has come into a transfer yet; the run `sector_buf_assert` shows
that the promise ends there.

Only model-checked: liveness (`ExecReturns`, `DirtyIsWrittenBack`, `CatchesUp`,
`KeyIsRead`, `DiskIsServed`), since ENABLED and fairness are out of tlapm's reach here.

## 7. What the code does otherwise than it says

Shown by violation runs (PROJECT.json quotes the line each contradicts):

1. `cpu-exec.c:75`: the check of the watchpoints overwrites END.
2. `kernel/src/driver/ide/ide.c:36`: write-back from the timer in the middle of a transfer.
3. `battle/fight.c:3359`: the assertion that an action whose target has gone finds another.  Scripts may take the
   health of all enemies that are left, and `PAL_BattleSelectAutoTarget` wants one that has some.

Met while modelling, kept in the models as the code has them, and not the subject
of a run:

* `kernel/src/irq/idt.c:59`: there is no gate for the keyboard, so that with the kernel's own table any key ends in a
  panic, whereas `game.c:29-30` speaks of the keyboard's interrupt at any time.  The run of the game has `KeyboardHandled` TRUE.
* `disk.c:15`: a handler whose write-back finds `main` in the middle of a write waits in `waitdisk` for ever, because the device
  stays busy until `main`, which waits for the handler, has written the rest.
* `watchpoint.c:31`: the branches of "changed" and "unchanged" are exchanged, so that the
  watchpoint that stopped the program keeps its old value and stops it again.
* `add-template.h:11`: CF of `add` is inverted, so that `add` and `adc` do not add
  double words, which `testcase/src/add-longlong.c:18` asserts.
* `expr.c:400`: a dereference of anything that starts with `(` and a register reads at the register.
* `expr.c:304,428-437`: `-` and `!` read the number behind them as a decimal one, so that `-0x10` is 0 and `!0x10`
  is 1.  `expr.c:308` misreads the digits `A` to `F`.  `expr.c:439`: both operands of `||` are evaluated, so that
  `1||(1/0)` aborts.
* `expr.c`: chains associate to the right (5-2-1 is 4); `&&` is recorded as `!=`
  (line 146); `-` and `*` after a register or a symbol become unary, so that
  `$eax-1` aborts; `!a==b` drops the `==`; `-(1)` and `!(1)` read a parenthesis as 0;
  `POINT` and `VAR` are both 8.
* `jbe` asks for CF and ZF.  `add` takes its overflow from the rule of `sub`, and `sbb` from
  the rule of addition.  `adc` tests CF against the destination, which misses a full operand
  with carry; `sbb` makes the same comparison, which inverts its CF.
* `inc` and `dec` compare with 32-bit extremes in every width; `shl` and `shr` of words never set SF;
  the word form of `idiv` extends its dividend with zeros.
* `parity_table` counts the even bits only, and `test`'s own PF is overwritten.
* `call` with a displacement pushes and does not jump; `rep` checks its instruction
  after executing it; the ELF loader stops advancing at a header that is not loadable.
* `uibattle.c:1272`: the Menu key compares and adds to meters, which are fixed-point numbers, a plain
  100.  A player whose meter is barely above zero counts as ready, and the player who
  yields to that one ends below 100 and is not asked again until the meter has filled, which the comment
  there means to prevent.  The tests of who may join a cooperation use the same plain 100.
* `uibattle.c`: choosing the target of a magic validates with the constant of the cooperation, which
  is always allowed.  A cooperation or a confused attack that falls back to a plain attack keeps an
  `sTarget` that may number a player.
* `global.c:1009`: the scan for "already poisoned" ends at the first gap, so that a poison behind one
  is taken a second time.  `PAL_RemoveEquipmentEffect` means to remove the poisons of level 99 and removes
  every poison behind a gap too.
* `uigame.c`: the shop takes the money also when nothing fits any more.  `script.c:771`: the piece that
  is replaced is added while the slot the new one came from is still taken, so that a full
  inventory loses it.  `script.c:944`: an item that is asked for beyond what is carried is
  taken from the bodies as often as it was asked for, and not as often as it is missing.
* Requests of the timer do get lost: a signal that comes between the load and the store of `master.IRR`
  leaves no trace.  `IrqLines` allows that for the timer and for nothing else.

## 8. Not modelled

* Lexing, formatting, logging, drawing, `print_asm`: text and output only.
* `info`, `x`, `help`: they print.  Loading of files at the start.
* Byte forms of `mul` and `div`, two-operand `imul`, `cwtl`, `shrd`, `setne`, and the decoder's
  bit fields: the operands they produce are the inputs of the modelled instructions.
* `dma_prepare`, `create_video_mapping`, paging and segmentation: TODOs that panic,
  or switched off.
* `push`, `pop`, `call`, `ret`: `call` with a displacement does not jump and `ret` is half written,
  so that no program uses them together.  String instructions and `rep` are sequential code on the
  memory `Dram` models.
* The kernel's handler lists, loader and system calls: sequential, over tables filled once at the
  start; `irq_handle` panics on the way.  The bus master: its driver is an unfinished TODO, so that no
  transfer is ever started.  Port and memory maps: tables of ranges filled at the start.
* FLOAT: most of it is left to be written.
* NEMU-PAL's damage, experience, magic tables, theft, rewards, automatic battle and the effects of
  equipment on attributes: arithmetic on data that is not in the repository.  The interpreter of
  scripts as such runs such data; its operations on the party are actions of `PalParty`, their other effects are choices.
  Script operation 0x1A, which writes any field of `PLAYERROLES` from the script's data, and `PAL_LoadGame`, which reads a whole
  state from a file, are left out.  Scenes,
  dialogue, sound, palettes, the fonts and the file formats are output and parsing.
* `uClibc`, `newlib`: third-party code.

## 9. Plan

Done, in order of importance: the memory every instruction goes through; the
debugger loop with its watchpoints; the one place where two contexts share a
device; the interrupt-driven game; arithmetic; expressions; the interrupt controller under its
signal; NEMU-PAL's battle and its inventory.

Next:

1. The theft and the rewards of a battle composed with `PalParty`, and the automatic battle.
2. `Stack` and `StringOps`, once `call` and `ret` are finished: `push`-`pop` and `call`-`ret` as
   inverses on `FlatMemory`, a `rep` of n steps as one block operation.
3. `Kernel`: the handler lists and `irq_handle`, the loader over several program headers,
   `mm_brk`, `do_syscall`.
4. `DmaRead`, once the driver starts transfers: the bus master with `Dram`'s row buffers, and
   `wait_ide_intr`.
