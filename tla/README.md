# Kavacha in TLA+

Kavacha is a small RV32IM[C] processor: a multi-cycle core with a CSR file,
an optional secure build (user mode and PMP), a JTAG debug module, and four
integrations (simulation SoC, AXI4-Lite master, FPGA SoC, Verilator bench). This
directory models it, model-checks it on small instances with TLC, and proves
theorems about it with TLAPS. Paths below are relative to the repository root.

## 1. The system

| part | source | state it keeps | operations |
|---|---|---|---|
| core FSM | `rtl/kavacha_core.sv` | `state`, `pc`, `instr`, `dbg_mode`, `dpc`, `dcsr_*`, `step_pending/seen`, Access-Register handshake | one clock edge: fetch (one or two words), execute, first and second data beat, multiply/divide, retire with or without a trap, halt, serve the debugger, resume |
| CSR file | `rtl/common/kavacha_csr.sv` | `mstatus`, `mie`, `mtvec`, `mepc`, `mcause`, `mtval`, `mscratch`, `priv`, counters, PMP registers | trap entry, MRET, CSR write, counter tick |
| multiply/divide | `rtl/common/kavacha_muldiv.sv` | FSM, latched operands, `bit_idx`, `done`, `result` | start (ignored when busy), one bit per cycle, finish |
| decoder, immediates, ALU, branch | `rtl/common/kavacha_{decode,immgen,alu,branch,pkg}.sv` | none | combinational |
| RVC decompressor | `rtl/common/kavacha_rvc.sv` | none | combinational |
| PMP | `rtl/common/kavacha_pmp.sv` | none (registers in the CSR file) | match an access |
| register files | `rtl/common/kavacha_regfile{,_ecc}.sv` | 31 words, with a SECDED code in the second | read, write |
| debug module | `rtl/kavacha_debug.sv` | `dmcontrol`, engine FSM, `data0`, `sbcs`, abstract-command status, JTAG TAP, DMI shift register | DMI read/write, Access Register, system-bus access, halt, resume |
| AXI4-Lite master and slave | `rtl/kavacha_axil.sv` | channel FSMs, latched address and data | one read or write per request |
| simulation SoC | `rtl/kavacha_soc.sv` | memories, CLINT | bus decode, SBA port |
| FPGA SoC | `fpga/kavacha_fpga.sv`, `fpga/arty_a7/*.sv`, `fpga/common/common_reset_sync.sv` | BRAM, one wait state, reset synchroniser | bus decode, MMIO, shared port B |
| UART | `fpga/common/kavacha_uart.sv` | TX and RX shift registers, one-byte buffer, status bits | send, receive, register access |
| firmware and host | `sw/`, `bench/common/`, `bench/embench/bench_main.c` | where the program is; what the host script has seen | READY, trigger, output, EXIT; timing with `read_mcycle64`; verdicts through `tohost` |
| Verilator bench | `bench/verilator/*` | wait state, `tohost` register, what the harness has collected | one store, one pulse; report and end |
| test benches, golden model | `tb/`, `tools/` | retire monitor, ISS state | check, compare traces |

How they interact. The core drives a request (`mem_re`/`mem_we`, address, data,
strobes) as wires computed from its registers and is told `mem_stall` while the
request is not taken; there is no other handshake, so what the wires show while
the bus is busy is a contract of its own. Interrupt lines are levels, sampled at
the cycle an instruction commits. The debug module asks with levels
(`dbg_haltreq`, a held `dbg_ar_*` request) and a pulse (`dbg_resumereq`), and is
answered by `dbg_halted` and a one-cycle `dbg_ar_done`. The multiplier is
started by a level (`state == S_EXEC`) and answers with a pulse. The debug
module, through the SoC, is a second master of the memory; it learns of the
debugger's writes by a one-cycle pulse of the TAP, which samples TCK, TMS and TDI.
The UART has a line to the host on one side and two-cycle accesses of polling
firmware on the other.

What is hard to get right: two-beat accesses under wait states; an instruction
whose exception is known in one state and whose commit happens in another;
interrupts, exceptions, MRET and CSR writes that meet in one cycle and share
`mepc`, `mstatus` and `pc`; halts, single steps, breakpoints and resets that cut
in between; requests that are served later than they are made; status bits that
an access of two cycles reads and clears; two machines that see of each other
only handshakes, or sampled wires. `PROJECT.json` lists each hazard at its line,
with the properties that cover it or the reason none does.

What makes each part correct:

* core: an instruction happens once and whole, or not at all; every exception
  traps and `mepc` names its instruction; interrupts come between instructions;
  only the debugger changes a halted hart; requests are held until they are
  taken; halt requests and interrupts are answered.
* CSR file: MRET undoes trap entry, and machine mode's rights do not outlive it.
* multiply/divide: the answer is that of the instruction that waits for it; the
  algorithm computes quotient and remainder.
* PMP: the lowest matching entry decides; a locked entry stays; a lockdown binds
  machine mode.
* register file with ECC: one flipped bit is corrected, two are reported.
* debug module: `abs_busy` ends; a resume pulse meets a halted hart; a DMI write
  is applied once; a system-bus access answers its own request.
* AXI master: VALID and its payload hold until READY; one transfer per request.
* SoCs: two masters never receive each other's data; MMIO side effects happen once.
* UART: each byte is received once or reported as lost.
* firmware: the 64-bit counter read is a value the counter had.

## 2. The modules

| module | role |
|---|---|
| `KavachaCSR` | the CSR file as a record; trap entry, MRET, CSR write, pending interrupts as operators |
| `KavachaIsa` | an instruction as the record of what decoder, address adder and PMP say of it; exceptions and successors |
| `KavachaHart` | abstract specification: the hart a programmer and a debugger expect, one action per architectural event |
| `KavachaCore` | the core with the multiplier's handshake and the CSR file, one action per FSM transition; refinement mapping to `KavachaHart` |
| `KavachaDebug` | the debug module: DMI writes and the engine, as operators on a record of its registers |
| `KavachaSoc` | debug module, the hart's debug port and memory in lock step, on the simulation SoC and on the FPGA |
| `KavachaJtag` | pin sampling, TAP, instruction and data registers, and an adapter at any rate |
| `KavachaPort` | abstract specification: a memory that answers one access at a time |
| `KavachaAxil` | AXI4-Lite master and slave; refinement mapping to `KavachaPort` |
| `KavachaUart` | transmitter, receiver, divisor, as operators on a record of the UART's registers |
| `KavachaSerial` | polling firmware on the two-cycle bus, UART, line, and the host script |
| `KavachaBits` | the binary digits of a number, for the three units below |
| `KavachaMuldiv` | the multiply/divide algorithm with words of `XLEN` bits |
| `KavachaRegfileEcc` | the SECDED code and the read port, with bit flips |
| `KavachaPmp` | matching, priority, locks and `mseccfg` |
| `KavachaBench` | a timed benchmark, `tohost`, and the Verilator harness that believes it |
| `MCKavachaCore`, `MCKavachaSoc`, `MCKavachaSerial`, `MCKavachaUnits` | instances for TLC |
| `KavachaCoreProofs`, `KavachaCoreRefines`, `KavachaSocProofs`, `KavachaSerialProofs`, `KavachaAxilProofs`, `KavachaJtagProofs`, `KavachaUnitProofs`, `KavachaBenchProofs` | theorems and proofs |

`KavachaIsa` extends `KavachaCSR`; `KavachaHart` and `KavachaCore` each extend
`KavachaIsa`; `KavachaCore` instantiates `KavachaHart`, and `KavachaAxil`
`KavachaPort`, with their refinement mappings. `KavachaSoc` extends
`KavachaDebug`, `KavachaSerial` extends `KavachaUart`; `KavachaMuldiv`,
`KavachaRegfileEcc` and `KavachaPmp` extend `KavachaBits`. `MCKavachaUnits` extends
the five units that stand alone and `KavachaBench`; of these one at a time runs.

In every module one step is one `posedge clk`, registers are variables (or fields
of one record) with the RTL's names, and wires are state functions with the RTL's
names. A definition marked "mutant" is a plausible slip in the one below it;
`PROJECT.json` says which property it breaks.

### How `KavachaCore` corresponds to the code

Registers are variables with the RTL's names (`md_*` for those of the
multiplier); wires are state functions with the RTL's names. One step is one
`posedge clk`: an FSM action sets `state`, `pc`, `instr` and the debug
registers, and includes `Clocked`, the other `always_ff` blocks (Access Register
handshake, multiplier, CSR file, register file) on the same edge. Inputs
(`mem_stall`, `irq`, `dbg_haltreq`, `dbg_resumereq`, `dbg_ar`) are variables that
`Environment` chooses anew for the next cycle, so that a wire is a state function.

| code (`rtl/kavacha_core.sv`) | actions |
|---|---|
| `S_FETCH` | `BusWait`, `FetchHalt`, `FetchStepDone`, `Fetch(i)`, `FetchStraddle` |
| `S_FETCH2` | `BusWait`, `Fetch2(i)` |
| `S_EXEC` | `ExecEbreak`, `ExecLoad`, `ExecMd`, `BusWait`, `ExecStoreBeat`, `ExecStore`, `ExecOther` |
| `S_LOAD`, `S_LOAD2`, `S_STORE2` | `BusWait`, `Load`, `LoadBeat`, `Load2`, `Store2` |
| `S_MD` | `MdWait`, `Md` |
| `S_HALTED` | `Halted`, `Resume` |
| `!rst_n` | `Reset`, possible in every cycle |

What is abstracted, and why it loses nothing the properties speak of:

* The instruction word is a record of verdicts: class, length, whether the
  access crosses a word, illegal, PMP verdict, branch target, CSR operand. The
  PMP verdict and the alignment come with the instruction instead of from the
  address; all combinations the configuration allows may be in `Instrs`.
* One register is tracked. It is source and destination of every ALU, multiply,
  load instruction and the store's address, which is the worst case for stale
  operands and moving requests. Links and the old values of CSRs are written to
  it as unknown values, and the operand of a CSR instruction is part of the
  instruction.
* Loaded data is any value: the bus is another component.
* `AluF` and `MdF` are constants, any functions; the divider keeps its handshake
  and its number of cycles (`DivBits`), not its arithmetic.
* Data-only CSRs (`mtval`, `mscratch`, counters), `dscratch0` and `dcsr.prv` are
  left out. `mstatus` keeps the fields trap entry and MRET use.

`beats`, `prev_pc_wdata` and `have_prev` are history: beats of the current
instruction the bus has taken, and the registers of the retire monitor in
`tb/tb_kavacha_rvfi.sv` (restarted after a halt, since a debugger may move the pc).

The environment is what the repository's integrations guarantee and no more:
every one computes `mem_stall` as "a request and not ready"; the debug module
holds a request until `dbg_ar_done`, issues `dbg_resumereq` as a pulse to a
halted hart, and cannot start a register access in the same cycle because each
takes a DMI write of its own. `ndmreset` resets the hart but not the debug
module, `rst_n` both; `Reset` allows for both.

### `KavachaHart`

Instructions take effect as in `tools/golden_rv32im.py`; an exception has no
effect but the trap; an interrupt is taken with the completion of an instruction
and `mepc` is its successor; `Halt`, `Poke`, `Resume` are the debugger's. Traps and
MRET are stated anew, not taken from `KavachaCSR`: the hart has the frame of what
runs (`Now`: interrupts enabled, privilege) and one more (`Saved`), a trap pushes
(`Trapped`), MRET pops (`Returned`), and `MPRV` does not outlive machine mode.
`KavachaCSR` has the bits of `mstatus` as the RTL assigns them, so that `IsHart`
compares the two. What a CSR write stores (`Written`) both share. The
refinement mapping reads the pc as the debugger would (`dpc` while halted) and
the single step as armed (`step_pending`), done (`step_seen`), or off.

### `KavachaDebug` and `KavachaSoc`

The flip-flops of `kavacha_debug.sv` are one record. `DmEdge` is its `always_ff`:
the defaults, then the DMI write (`Apply`), then the engine (`Serve`), each
overwriting what the one before has set, and all reading the old registers,
which is what non-blocking assignment does. DMI reads return registers and change
nothing, so that they are no action. The bits of a DMI write are a set of names.

`KavachaSoc` adds what the debug module talks to. The hart is what its ports show
of `KavachaCore`: a fetch, where it obeys `haltreq`; execution for any number of
cycles; a load or store; the halted state with the Access Register handshake. It may
also halt of itself, in a fetch (the end of a single step) or in execution (an
EBREAK of the debugger's): when it does so is `KavachaCore`'s matter, and free here. The
assumptions `KavachaCore` makes of its debugger (`Environment`) are here the
property `CoreContract`, so that the two halves fit. Memory is `SocMemory` (two
ports, and either `always_ff` may win when both write a word) or `FpgaMemory` (one
port B, which goes to the debug module when it asks). `Rst` is `rst_n`, `ndmreset`
a register of the debug module that resets the hart alone; memory keeps its
content in both, and the DMI pulse survives `Rst` as it does in the code.

A debugger writes what its session allows, in any order, with at least `Gap`
cycles between two writes. `Gap` is an assumption about JTAG, and `UpdatesApart`
of `KavachaJtag` shows that it is met with room to spare.

### `KavachaJtag`

The adapter drives any TMS and TDI at any rate, changing both as TCK falls, and
keeps its own idea of the TAP's state (`adapter`), which it loses when the board is
reset and regains by five ones. `JtagTick` is the sampling (`tck_s`, `tms_s`,
`tdi_s`), the TAP, the shift registers and `dmi_we_pulse`. A DMI word is two bits
of op and as many of data and address as the instance says; its shifting is the
one data path kept bit by bit, because the order of the bits is what `ScanDelivers`
is about.

### `KavachaUart` and `KavachaSerial`

`UartEdge` is `kavacha_uart.sv`: transmit path, receive path and divisor, in the
order of the statements, so that in one cycle a commit of a byte wins over a load
that clears, as in the code. `BusOps` are the accesses the decoder can make. The
synchroniser's first flip-flop takes the line of this cycle or of the one before.

The firmware is a sequence of polled puts (`_fpga_puts`, `uart_putchar`), polled
gets (`.Lwait_rx`), divisor writes and the final spin. An access is on the bus for
two cycles (`stall`, `ack`) and is sampled in the second, as `kavacha_fpga.sv` does;
the side effects in the UART happen in both. Between accesses the core takes any
number of cycles. The host is `run_hil_bench.py`: it opens the port, sends the
trigger once READY came or its wait is over, reads until EXIT or its timeout. Its
serial adapter, which the repository uses and does not contain, samples each bit
in the middle.

### `KavachaAxil` and `KavachaPort`

Master and slave are one action each per state of their FSMs, and the channels
between them are state functions. The core is a port that holds its request while
it is stalled (`BusRequestStable` of `KavachaCore`). The slave of the repository is
always ready; with `Waits` it takes any time over a handshake, with `Split` it takes
a write's address before its data. `KavachaPort` knows a request, whether memory has
taken it, the answer and the `tohost` pulse.

### `KavachaMuldiv`, `KavachaRegfileEcc`, `KavachaPmp`

`KavachaMuldiv` has the FSM of `kavacha_muldiv.sv` with its working registers; a
word is a number below `2^XLEN`, and each operation is the code's bit manipulation
(two's complement, the remainder that drops its top bit when it is shifted).
`KavachaRegfileEcc` keeps one 32-bit word as the set of its bits that are one, with
the 32 column codes of the source; `Flip` is a soft error. `KavachaPmp` is
`kavacha_pmp.sv` over the registers of the CSR file that it reads, with their write
enables (`Writable`, `WriteCfg`, `WriteMseccfg`), for one kind of access. All three
bits of `mseccfg` are there: `RLB` opens the locks, `MMWP` is an input of the
checker, and `MML` is stored, sticky, and read by nothing, as in the code.

### `KavachaBench`

`ReadHi`, `ReadLo`, `Check` are the loop of `read_mcycle64`, each some cycles after
the other, while `mcycle` counts on. `main` times, reports the two halves of the
cycle count, verifies and stores its verdict; `_exit` in `crt0.S` then stores another;
a trap exits with 2. `Store`, `Stall`, `Done` are the two-cycle store of
`bench_top.sv`; `Harness` is the loop of `main.cpp`, which stops at the first code.

## 3. The runs

Sizes are distinct states, with two workers on an ordinary machine.

| run | instance | asks | answer |
|---|---|---|---|
| `core_exec` | 13 instructions: every class, both alignments, both lengths, illegal ones | `TypeOK`, `BeatsExactlyOnce`, `MdResultFresh`, `BusRequestStable` | hold, 65 thousand |
| `core_irq` | SECURE build, timer line, MRET, CSR writes, PMP faults | `RvfiPcConsistent`, `IsHart` | hold, 192 thousand |
| `core_debug` | debugger with six kinds of access, a step among them; misaligned store, EBREAK that traps or halts | `BeatsExactlyOnce`, `IsHart` | hold, 279 thousand |
| `core_live` | halts and single steps against a divide, a misaligned load, CSR writes and a timer line; fair | `IsHart`, `HaltAnswered`, `InterruptTaken`, `StepHalts` | hold, 45 thousand |
| `soc_debug` | both boards, three debugger sessions, resets | `SocTypeOK`, `EngineConsistent`, `HaltedNeverClash`, `CoreContract`, `CommandResult`, `ReadsLastWritten`, `HaltOnReset`, `CommandEnds` | hold, 468 thousand |
| `fpga_serial` | a benchmark and a program that talks on, a host with two bytes, resets | `SerialTypeOK`, `ReadyMeansUnread`, `StartsOnTrigger`, `SentInOrder`, `HeardRight`, `NeverReadTwice`, `LossFlagged`, `RunReported` | hold, 159 thousand |
| `units` | AXI bridge, TAP, multiplier, divider, ECC, PMP, benchmark, one at a time | `AxInv`, `ValidHeld`, `IsPort`, `Answered`; `TapFollows`, `ScanDelivers`, `UpdatesApart`; `MdResult`, `RemainderFits`; `SecDed`; `ChecksRegions`; `ReportTrue` | hold, 549 thousand |
| `core_lost_trap` | an illegal load | `ExceptionsTrap` | violated (finding 1) |
| `core_stale_md` | SECURE build, a divide that may not be fetched before one that may | `MdResultFresh` | violated (finding 2) |
| `axil_split` | the bridge with a slave that takes address before data | `Answered` | violated (finding 3) |
| `uart_overrun` | the instance of `fpga_serial` | `OverrunReported` | violated (finding 4) |
| `pmp_lockdown` | the PMP of `units` | `LockdownHolds` | violated (finding 5) |

Of the core's properties, `BusRequestStable` is about all of a request that waits:
which port, the address, and for data the strobes and the word, as the register and
the instruction that they are computed from. `core_irq` has a CSR write that sets `MIE`
and `MPRV`, so that trap entry and MRET meet both. What the other runs' properties mean:

* `EngineConsistent`, `CommandEnds`, `CommandResult`: the engine never sticks, and a
  command that ends has done what it says, whatever is reset, and even if the hart
  was running when it was asked. The exception is named in the property: a
  system-bus access started over a waiting command (`overtaken`), which the code
  lets overwrite the engine's state.
* `HaltedNeverClash`, `ReadsLastWritten`: hart and debugger meet at the memory only
  if the debugger starts an access on a running hart; as long as they have not met,
  each reads what the last completed write of either left.
* `HaltOnReset`: with `haltreq` held over `ndmreset`, no instruction retires.
* `SentInOrder`, `HeardRight`: each byte crosses the line once, whole, in order, from
  every phase of the two ends' clocks and back to back.
* `ReadyMeansUnread`, `NeverReadTwice`, `LossFlagged`: on a bus where the first
  cycle of a load clears the flag and the second samples the byte, `rx_ready` still
  says whether there is an unread byte, none is received twice, and a lost one is
  flagged.
* `StartsOnTrigger`, `RunReported`: a reset cannot make the board start by itself,
  and a triggered run is seen to end.
* `IsPort`, `AxInv`, `ValidHeld`: two FSMs that see each other's handshakes are in
  step, so that the core still has a plain memory; AXI's rule is kept.
* `TapFollows`, `ScanDelivers`, `UpdatesApart`: however slow or fast TCK is, no edge is
  counted twice or missed, a whole scan is the write the adapter meant, and two
  writes are at least ten cycles apart.
* `ChecksRegions`: the lowest entry whose range holds an address decides, after any
  sequence of writes and locks that has not set `MML`. What holds with `MML` is the
  question of `LockdownHolds`.
* `ReportTrue`: PASS means verified, and the cycle count is the true difference,
  whichever half of the counter rolled over while it was read.

Bounds. In the core runs the pc wraps after `NPC` halfwords (2 to 4): enough for
a compressed instruction to move a 32-bit one across a word boundary and for
every jump and trap target to differ from the sequential successor somewhere.
The register has two values (one where data is not asked about). `DivBits` is 1
or 2, the first and the later iterations; `core_stale_md` needs 5, a division
longer than a trip through FETCH and EXEC (the code has 32). One interrupt line:
the order between lines is a fixed priority in one operator. `beats` saturates
at 2, one more than any correct count. In each run the instruction set is the one
its question needs; together they fire every action. The runs that pass exclude
the instructions of `Drops`, which findings 1 and 2 are about; all others have
illegal, faulting and environment-call instructions in them.

`soc_debug`: two addresses, so that autoincrement goes somewhere and wraps, and
two words. Each session has the writes of one theme (hart control, memory, the odd
ones) to keep them apart from products that add nothing. `Gap = 4` is less than
the ten cycles JTAG guarantees, so that the debugger of this run is faster than
any real one. It is the smallest the proofs need: a write must not come before
the system-bus access that the last one started is over.

`fpga_serial`: a byte has two bits (a first, a last, and one that differs), the
divisor is 4 = 1 * 3 + 1 with `Radix` 3, so that the half bit time and the split
write of the divisor are what they are at full size. READY, output and EXIT are
one byte each. The reset holds for longer than a frame, as the button and the
locking PLL do.

`units`: three addresses (read-only, writable, `tohost`), two lanes, so that a
strobe can select one; one data bit and one instruction bit for the TAP
(`JtagStart` names two contents of the answer registers, which only pass
through); `XLEN` 3 for the divider, the smallest with positive and negative
quotients and remainders beside the overflow pair; all 39 stored bits of an ECC
word with up to two flips (`MaxFlips`), over five words; two PMP entries with 3-bit
addresses, so that each mode meets the other as the lower entry and as the lower
bound. For the benchmark a CSR has 20 values, just under the 25 of a report, and the
time limit of 35 lies past one rollover; `MaxText` characters are printed.
No counter in the code is cut.

The proofs below remove these bounds for the safety properties they state.

Fairness. `core_live` assumes `WF(BusAnswers)`: the clock runs and the bus is
ready again and again. The SoC never stalls, the FPGA and the bench stall for a
bounded number of cycles, the AXI slave of the repository answers every request. It
also assumes `SF(FetchOrdinary)`: the program is not, from some point on, only
CSR and MRET instructions. The core takes no interrupt at those (`take_irq`,
line 284), so that without this assumption `InterruptTaken` fails, by design of
the code. Reset is not part of a fair behaviour: liveness is about what follows the last one.
`SocFairSpec` has the clock run and no instruction execute for ever (the divider
is the longest). `CommandEnds` needs no fairness of the debugger: it promises
an end while the hart is halted or asked to halt. `AxFair` has the slave take or
give a handshake again and again. `SerialFairSpec` has the clock run and the
firmware come to its next access, and counts on no timeout of the host;
`RunReported` says under its own premise that resets end. No fairness is assumed
of interrupt lines, debuggers, adapters or hosts.

Each property of a passing run has a mutant in `PROJECT.json`: a plausible slip
in one definition (a dropped condition, a wrong pc, an early commit) that makes
the run fail.

## 4. Findings

1. A load, a multiply/divide or a misaligned store that raises an exception in
   `S_EXEC` takes the last branch of that state (`rtl/kavacha_core.sv:447`) while
   `commit` (line 274) is low for it: the pc moves to the next instruction and
   no trap is taken. `README.md` says such exceptions "are all handled precisely
   at instruction boundaries". In the default build it happens to a load with a
   reserved width; in the secure build to any of them with a PMP fault.
2. The divider is started by `state==S_EXEC && d_is_md` (line 199), also for an
   instruction that is then left behind as in 1. It ignores a start while busy,
   so the next divide retires with the result of the first.

Finding 2 needs finding 1: `MdFresh` below shows that without the instructions
of `Drops` the multiplier is always at rest when it is started.

3. The AXI master leaves `AX_AW` only in a cycle with `awready` and `wready`
   together (`rtl/kavacha_axil.sv:73`) and holds both valids until then. A slave
   that takes the address first, as AXI4-Lite allows, answers the write while the
   master still offers it, and the core waits for ever. Line 10 says "This lets the
   core talk a standard bus and drop into any AXI4-Lite fabric". The slave in the same
   file takes both at once.
4. A status load on the FPGA clears `rx_overrun` in its first bus cycle
   (`fpga/common/kavacha_uart.sv:134`) and is sampled in its second, so that the
   program never sees the bit. Line 9 says "bit3 = rx_overrun (sticky until status
   read)". `rx_ready` and `rx_data` are not affected: `LossFlagged` and
   `NeverReadTwice` hold.
5. `mseccfg.MML` can be set and read back (`rtl/common/kavacha_csr.sv:121,194`), and is
   connected to nothing: the checker has an input for `MMWP` alone and lets machine
   mode through every unlocked entry (`rtl/common/kavacha_pmp.sv:55`). `README.md`
   promises "**ePMP** (`mseccfg`) semantics — including Machine Mode Lockdown (MML)"
   and that "Even Machine mode cannot silently escape a strict isolation policy".
   `LockdownHolds` is the least of what that says: in lockdown, machine mode does not
   fetch through an unlocked entry that grants the fetch to nobody. `MMWP` and locked
   entries do bind machine mode (`ChecksRegions`).

## 5. What is proved

For every value of the constants that meets the assumptions beside them
(`CSRAssumption`, `IsaAssumption`, `CoreAssumption`, `DebugAssumption`,
`SocAssumption`, `UartAssumption`, `SerialAssumption`, `AxilAssumption`,
`JtagAssumption`, `MuldivAssumption`, `RegfileAssumption`, `PmpAssumption`,
`BenchAssumption`), which say what the constants are, and of JTAG that `Gap` is at
least 4 (`WritesSpaced` proves 10): every program, value set, width, session,
divisor, host, both boards and both builds. Every safety property that a passing run
checks is stated by a theorem.

| theorem | says |
|---|---|
| `TrapThenMret` | MRET right after a trap restores interrupt enable, privilege and pc |
| `TypeCorrect` | `Spec => []TypeOK` |
| `BusInvariant` | `BusInv` is inductive with `TypeOK` |
| `BeatsOnce` | `Spec => []BeatsExactlyOnce` |
| `RequestStable` | `Spec => BusRequestStable` |
| `FlowInvariant`* | `FlowInv` is inductive with the above |
| `MdFresh`* | `Spec => []MdResultFresh` |
| `RetireInOrder`* | `Spec => []RvfiPcConsistent` |
| `TrapsArePrecise`* | `Spec => ExceptionsTrap` |
| `HartInvariant`* | `HartInv` is inductive with the above |
| `Implements`* | `Spec => IsHart`: the core implements the hart |
| `SocTypes` | `SocSpec => []SocTypeOK` |
| `EngineAgrees` | `SocSpec => []EngineConsistent` |
| `NeverClash` | `SocSpec => []HaltedNeverClash` |
| `HaltsOnReset` | `SocSpec => HaltOnReset` |
| `KeepsContract` | `SocSpec => CoreContract` |
| `CommandsDoWhatTheySay` | `SocSpec => CommandResult` |
| `ReadsAreFresh` | `SocSpec => ReadsLastWritten` |
| `RxInvariant` | `SerialSpec => []RxInv`, which `ReadyIsUnread` (`ReadyMeansUnread`), `StartsTriggered` (`StartsOnTrigger`), `ReadsOnce` (`NeverReadTwice`) and `LossesFlagged` (`LossFlagged`) follow from |
| `BytesArrive`# | `SerialSpec => SentInOrder`: the UART's bytes reach the host |
| `BytesHeard`# | `SerialSpec => HeardRight`: the host's bytes reach the UART |
| `SerialTypes`# | `SerialSpec => []SerialTypeOK` |
| `AxInvariant`+ | `AxSpec => []AxInv` |
| `AxHolds`+ | `AxSpec => ValidHeld` |
| `AxIsPort`+ | `AxSpec => IsPort`: master and slave implement the port |
| `TapStays` | `JtagSpec => []TapFollows` |
| `WritesSpaced` | `JtagSpec => UpdatesApart` |
| `WordsDelivered` | `JtagSpec => ScanDelivers` |
| `MdInvariant` | `MdInv`, which the next two follow from, is inductive |
| `OperationsCorrect` | `MdSpec => []MdResult`: every result is the one the instruction asks for, for every `XLEN` |
| `DivisionFits` | the division's remainder stays below the divisor (`RemainderFits`), for every `XLEN` |
| `EccCorrects`~ | `RegSpec => []SecDed`, with the column codes of the source |
| `RegionsDecide` | `PmpSpec => []ChecksRegions`, for every address width and number of entries: what decides as long as `MML` is not set |
| `ReportsTrue` | `BenchSpec => []ReportTrue` |

`*`: under `NoDrops`, that no instruction of the program is one of `Drops`. Findings
1 and 2 show that `TrapsArePrecise` and `MdFresh` fail without it; that they and
`Implements` hold with it shows that no other instruction is affected.
`+`: under `~Split`, that the slave takes address and data together; finding 3
shows why.
`#`: under `SameRate`, that host and firmware use the divisor of the reset, a bit is
at least three cycles, and one and a half bits fit the divisor register. 434 (50 MHz
at 115200 baud) is such a divisor, and nothing in `sw/` or `bench/` writes another.
`MCKavachaSerial` has TLC evaluate `SameRate`, so that the runs are instances of it.
`~`: under `MaxFlips <= 2`, the number of flipped bits such a code is made for.

The argument. Few of the properties are inductive as they stand.

* `BusInv` says which instruction can be in which state, how many of its beats
  have been taken there, that debug mode is the state `HALTED`, and that a stall
  has a request. With it, the count of beats at a retirement is a case split
  over the state that retires, and a stalled request cannot change because a
  stalled cycle writes none of the registers it is made of.
* `FlowInv` says that the multiplier rests outside `MD` and works on `MD`'s
  operand inside, and that the pc is where the last retirement announced. It
  needs `BusInv` (what is in `MD` is a multiply) and `NoDrops` (a multiply that
  leaves `EXEC` enters `MD`).
* `HartInv` says the instruction past `EXEC` has no exception, a finished step
  waits in `FETCH`, a resume falls in no cycle of a register access, and without user
  mode the hart is in machine mode. With the last, the bits that trap entry and MRET
  assign are the frames the hart pushes and pops (`TrapPushes`, `MretPops`). Each
  FSM action is then one action of the hart or a stutter (`StepSimulates`): a
  retirement is `Trap`, `Complete` or `CompleteInterrupted` (`Retires`), the three
  halts are the hart's halts, a cycle of the halted core is a `Poke` or nothing,
  and every cycle that neither retires nor halts is invisible (`Quiet`).
* For the debug module, `EngineConsistent` is strengthened by `BusAlone`, that no
  write comes while the engine serves the bus, and by `dmi # NoDmi => gap = Gap`: a
  write comes at least four cycles after the last, by which time the access is over.
  That the hart does not move while it is halted, and that a resume needs a DMI
  write of its own, gives `CoreContract` and `HaltedNeverClash`.
* `CommandInv` says that `abs_busy` and the request to the hart are one, and that a
  hart which has answered is halted with the register written. `SharedInv` says
  that the memory is what the completed writes left, but for the FPGA's store in the
  second of its two cycles, and that the word a debugger's read is about to deliver is
  the one that was there when it was served.
* `RxInv` is `ReadyMeansUnread` with two facts about the middle of an access: a load
  of `rx_data` is only made with a byte there (`HasByte`, since the poll that came
  before has seen `rx_ready` and nothing but the load clears it), and before the
  host has sent the line is high and no receiver is at work (`Silent`).
* `SentInv` pairs the phase of the transmitter with that of the host's receiver:
  nothing is owed and both rest (`Idle`), a byte waits for its start bit (`Loaded`), or
  a frame is under way (`Sending`), where the
  host either sees the line fall in this cycle or its countdown and the transmitter's
  bit and baud counters name the middle of the same bit. The multiplication of bit number by bit time is
  taken apart by lemmas of its own.
* `HeardInv` does the same from the host to the UART, where two synchroniser
  flip-flops and an unknown phase lie between: with `p` the place in the frame, the next
  sample comes at a fixed place of its bit, give or take a cycle (`During`); a frame
  that follows back to back starts while the receiver is in the last stop bit
  (`Overlap`), and the level it samples there is still the stop bit's.
* `AxInv` is inductive. The refinement maps `taken` to the slave's response state.
* `TapInv` says where the TAP will be once an edge that is on the pin, or between the
  two samples, has reached it (`Arrives`), and that this is where the adapter is. For
  an adapter that has lost the TAP, `Distance` to Test-Logic-Reset decreases
  with every one that is clocked in (`OnesLeadHome`), so that five ones are enough.
  `GapInv` adds the cycles since the last write to those that the edges still needed
  for the next one take at the least, and finds ten. `ScanInv` says that the last
  bits of the shift register are those scanned so far.
* `MdInv` says that quotient times divisor plus remainder is the part of the dividend
  that the loop has consumed, and that the remainder stays below the divisor, which
  is why the top bit that the shift drops is zero. The signs are dealt with once,
  at the end.
* `EccInv` says that the parity is odd for one wrong bit and the syndrome is the sum of
  the codes of the wrong bits. What remains is that the codes differ and none is zero.
* For the PMP the mask arithmetic of a NAPOT entry is shown to be its region
  (`MatchIs`), and the scan to find the lowest match. Where this and the two before it
  need an induction over bits, it is by the least element of a set of naturals,
  since an induction theorem cannot be instantiated by these provers.
* `BenchInv` says that a reading is the counter at the time its low half was
  read: if the high half is the same before and after, it was so in between. The
  rest is what has been stored when.

Only model-checked: the liveness properties `HaltAnswered`, `InterruptTaken`,
`StepHalts`, `CommandEnds`, `RunReported` and `Answered`, because fairness is beyond
this prover. Their steps are not wholly unproved: the safety theorems above show
that no request, byte or command is lost on the way.

## 6. Not modelled, and why

`PROJECT.json` gives the status of each part.

* Decoder, immediates, ALU, branch unit and RVC decompressor are combinational
  tables. Their verdicts are fields of the instruction; comparing the tables
  with the manual is work for the golden model (`tools/`), which steps through
  real words.
* CSRs that are data only (`mscratch`, `mtval`, `minstret`), `dscratch0`, `dcsr.prv`.
* A program that writes one of the two reserved values to `mstatus.MPP`: the code stores
  it, and so does the model, so that the theorems include it, but no run has such a
  program, and no document says what an MRET should make of it.
* What `MML` would change in the rules of each entry: nothing in the code does it
  (finding 5).
* That a locked TOR entry's lower bound is the `pmpaddr` of the entry before, which
  stays writable: the model has it (`Writable`), and `ChecksRegions` holds of
  whatever the registers came to hold.
* In the debug module: `havereset`, `sbaccess`, `sberror`, `sbreadondata`, which are
  written and used by nothing; DMI reads, which change nothing.
* The CLINT of both SoCs, whose interrupts are levels `KavachaCore` allows at any
  time; LEDs; the FPGA's `tohost` pins, which pulse twice per store and go nowhere; PLL
  and reset synchroniser, that is the length of a reset.
* In the AXI bridge: `bresp` and `rresp`, constants that nobody reads.
* Firmware before `main` (copying `.data`, clearing `.bss`), `printf` and the other
  libc stubs, and in `main.cpp` the loading of the image before the first cycle.
* `tb/` and `tools/`: what the retire monitor checks is `RvfiPcConsistent`; the
  golden model is a reference for `KavachaHart`.
* The vendored benchmarks (`bench/coremark/upstream`, `bench/embench/upstream`): the
  workloads, by far most of the C in the repository, and nothing of the processor. The
  core logic is SystemVerilog, with assembly, C++ and Python around it.
