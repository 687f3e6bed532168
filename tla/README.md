# A verification project for the dynamic instruction scheduler

The program (`src/src/`) simulates an out-of-order superscalar processor: it
reads a trace of instructions, runs them through five pipeline stages with
register renaming and a scheduling queue, asks a data cache hierarchy how long
loads take, and reports the cycle in which each instruction entered each
stage. It is one thread with no I/O but the trace and the report. What is hard
about it is not parallelism of the host but the parallelism it simulates: many
instructions in flight, held in four lists by nodes with private copies of
register data, moved by stages that run in an order chosen so that one cycle
looks simultaneous.

## Inventory

| Part | Source | State it keeps | Operations |
|---|---|---|---|
| Pipeline | `dis-pipeline.c`, `-pri.h`, `.h` | `list_inst`, `list_disp`, `list_issue`, `list_exec`, `list_wback` and their length counters; the register map table `rmt`; `g_reg_name` | `dis_retire`, `dis_execute`, `dis_issue`, `dis_dispatch`, `dis_fetch`, and the helpers that rename, wake up, admit and move |
| Main loop, start and end | `dis.c`, `dis.h` | `g_cycle_num`, `g_inst_num`, `trace_done`, the configuration, the memory allocated and the trace file | `main`, `dis_init`, `dis_parse_input`, `dis_parse_tracefile`, `dis_cleanup` |
| Trace reading | `dis_fetch` in `dis-pipeline.c` | the position in the file, the locals of `dis_fetch` | one `fscanf` per instruction |
| Caches | `dis-cache.c`, `dis-cache.h` | tags, valid and dirty bits, ages, statistics of L1 and L2 | `cache_init`, `cache_tagstore_init`, `cache_handle_memory_request` and what it calls |
| Address decoding | `dis-cache-utils.c` | none | masks, logarithm, decode, encode; also the clock |
| Report | `dis-print.c`, `dis-cache-print.c` | sorts `list_wback` | prints starts and durations of the stages, cycles, the blocks of each cache |
| Lists | `utlist.h` (vendored) | the `prev` and `next` of every node | `DL_APPEND`, `DL_DELETE`, `DL_FOREACH`, `DL_FOREACH_SAFE`, `DL_SORT` |

How they interact. `dis_parse_tracefile` calls the stages once per cycle, the
one nearest the end of the pipeline first, so that a place freed in a stage is
used in the same cycle by the stage before it. The stages share the lists, the
counters and the map table, and nothing else. `dis_execute` calls
`cache_handle_memory_request`, synchronously, for the memory instructions in
their first cycle in EX; the answer is added to the instruction's latency.
`dis_run_cycle` ends the loop when the three length counters are zero.

Which behaviours are hard, and where:

- **Ordering.** Instructions complete out of order, among them several writers
  of one register. A completion must wake the readers of *its* value only and
  update the table only if no younger writer was dispatched.
- **Stale copies.** What an issue-list node knows of its sources was copied
  from the table when it was dispatched, before its own destination was
  renamed, and is patched by wakeups afterwards.
- **Order that nobody enforces.** Renaming is right only if dispatch is in
  trace order, and `dis_dispatch` skips nodes freely.
- **Exact tests.** The end of execution and the moment of the lookup are tests
  of equality with the cycle counter: a missed cycle is missed for ever.
- **Bounds.** 2N places to dispatch, S to issue, 5N to execute, N moves per
  cycle, counted in three different ways, one of them not at all.
- **Nested calls.** A cache miss evicts, and the eviction is a request to the
  next cache, before the miss itself is.
- **Loops over lists they change.** Every stage deletes and frees the node its
  loop stands on while it appends to another list; the sort takes a list apart
  in place.
- **One cleanup for every way out**, with nodes on several lists that share
  their data, and caches that may or may not have a tagstore.
- **A reader that does not know lines.** `fscanf` takes words, across the end of
  a line if it must.
- **Numeric edges.** An 8-bit counter, shifts by the width of a word, sizes of
  zero.

`PROJECT.json` lists each of these at its line, with the properties that would
catch it.

## Modules

| Module | What it is |
|---|---|
| `Scheduler` | The main loop and the five stages. One iteration of a stage's loop is one action. |
| `SchedulerProperties` | Types, invariants, liveness and the refinement mapping to `Dataflow`. |
| `Dataflow` | What the scheduler promises: instructions start when their producers are done, and all end. |
| `MCScheduler` | Alphabets of trace lines for TLC. |
| `SchedulerProofs`, `DependenceProofs`, `TimingProofs`, `PaceProofs` | Theorems about `Scheduler`, proved with TLAPS; each module extends the one before it. |
| `CacheProofs` | Theorems about `Cache`, and that it implements `LRUStack`. |
| `InstListsProofs` | Theorems about `InstLists`, and that it implements `InstQueues`. |
| `SystemProofs`, `FrontEndProofs` | Theorems about `System` and `FrontEnd`. |
| `Cache` | L1 and L2: a memory request is one action built from operators for the nested calls. |
| `CacheProperties` | Their invariants, action properties and the mapping to `LRUStack`. |
| `LRUStack` | What the caches promise: sets are stacks, the last used on top. |
| `MCCache` | A small geometry. |
| `MCInstLists` | Symmetric addresses. |
| `CacheAddr` | Masks, shifts and the logarithm, bit by bit: why `Cache` may use quotients. |
| `System` | `Scheduler` and `Cache` composed: a lookup of the execute stage is a request. |
| `SystemProperties`, `MCSystem` | What holds of the two together, and a small instance. |
| `DList` | `DL_APPEND`, `DL_DELETE` and `DL_FOREACH` on nodes in memory. |
| `InstLists` | Two of the pipeline's lists in memory: the loops of the stages, `DL_SORT` one node at a time, the cleanup. |
| `InstQueues` | What `Scheduler` takes lists to be: sequences and a position; a sort leaves the same numbers, rising. |
| `InstListsProperties` | Invariants of the lists and the mapping to `InstQueues`. |
| `TraceReader` | What one `fscanf` takes from the file. |
| `FrontEnd` | The life of the program: setup, arguments, cache wiring, reading, cleanup on every way out. |
| `FrontEndProperties`, `MCFrontEnd` | What must hold of it; small traces and argument lists. |

`System` composes `Scheduler` and `Cache`. `FrontEnd` stands beside
`Scheduler`: it keeps what the scheduler leaves out (memory, the file, the
configuration) and leaves open when an instruction moves on. `InstLists`
stands below it: it shows that the macros amount to the sequence operations
`Scheduler` is written with.

### How `Scheduler` corresponds to the code

- `stage` and `pos` are the program counter: which stage is running and at
  which node its `DL_FOREACH_SAFE` is. Deleting the node at `pos` leaves `pos`
  at the node that followed, which is what the saved `tmp` pointer does.
  `count` is the loop counter of `dis_issue` or `dis_fetch`.
- `listInst` holds the instructions (`dis_inst_data`); an instruction is named
  by its position, which is `num + 1`. The other lists are sequences: of
  instructions for `disp` and `wback`, whose nodes carry nothing else that is
  read, and of nodes with `sreg1`, `sreg2`, `dreg` for `issue` and `exec`.
- `len` is kept beside the lists, as in the code, because every admission and
  the end of the loop depend on it and not on the list.
- `NoReg` is the table's 129th entry. `dis_dispatch` copies that entry for an
  operand that is -1, and so does `Operand(NoReg)`.
- `Without` is `DL_DELETE`, `Append` is `DL_APPEND`, `Sorted` is `DL_SORT`
  with `dis_cb_cmp`.
- `dis_retire` changes nothing (its deletion is under `#if 0`, although its
  comment says "Finally remove them from the list"), so `Retire` only goes on.
- `dis_dispatch_rename_sreg` writes to a node that is freed a few lines later,
  so it has no effect to model. Its comment speaks of assigning a new name to a
  source; the code gives none.
- `ExecuteWait` and `ExecuteComplete` take the lookup's answer as a parameter:
  any of `LookupLatency` in `Scheduler`, what the caches say in `System`.
- Trace lines are the members of `TraceEntry`, chosen one by one; the end of
  file may come at any time. `MaxTrace` bounds the trace.
- `CounterMod` and `CycleMod` are the widths of the `uint8_t` in `dis_issue`
  and of `g_cycle_num`.

- `Lasts` and `NumCycles` are what the report prints of an instruction and of
  the run; they read the state and change nothing.

Left out: the program counter field, messages, the `cycle` field of the map
table (never read); memory management and the pointers of the lists are in
`FrontEnd` and `InstLists`.

### How `Cache` corresponds to the code

`blocks[l][i][w]` is block `w` of set `i`: its tag (`tags`) and its tag data.
`Hit`, `Fill`, `Clean` and `Refer` are the assignments of
`cache_evict_and_add_tag` and `cache_handle_dirty_tag_evicts`; `AccessLast` is
that function for a cache with no next one, `AccessFront` for an L1 with an L2
behind it, with the nested calls in their order. A request never stops half
way, so it is one action. Only the two levels, LRU, write back and write
allocate exist in this program: `cache_init` sets nothing else. The scheduler
sends reads only; writes are kept because the component supports them and the
L1 would send them to the L2. The clock is a counter that each reading
advances, which is what `usleep(1)` before `gettimeofday` is there for; a
clock that is set back is not modelled. `l2Present` is `g_l2_present`: it
is set once, from the arguments. The number of sets need not be a power of
two: `UsedSets` is the power of two below it, and the sets beyond are never
named by an index. Blocks have a power of two of bytes, and at least two:
`CacheAddr` shows what happens otherwise. `Printed` is what
`cache_print_cache_data` finds for each place of a set.

### How `InstLists` corresponds to the code

`mem` is the memory of nodes, `used` the addresses allocated, `head` the two
list pointers. `LoopStart`, `LoopSkip` and `LoopMove` are a `DL_FOREACH_SAFE`
loop as in `dis_execute`, `dis_issue` and `dis_dispatch`: the body allocates a
node for the other list and appends it, deletes the node it stands on and
frees it; `Step` is the loop's step, which uses the pointer read before the
body. Which nodes a stage moves is left open, so every choice of the stages is
covered. `Calloc` may take any free address, the one given back last included,
and freed memory is blank, so that a pointer into it is noticed. The actions of `Sort` are `DL_SORT`, with its
variables in `sort`: `SortRuns` is the head of the outer loop, `SortTake` one
node of the merge, `SortPassEnd` what follows a pass. `Clean` is the part of
`dis_cleanup` that frees lists; the data of instructions is `FrontEnd`'s.

### How `FrontEnd` and `TraceReader` correspond to the code

`pc` is where `main` is. `heap` names every block of memory `main` and what it
calls allocate, and the open file; `twice` records a block freed that was not
allocated. `Parse*` are the ways through `dis_parse_input` with `cache_init`
and `cache_tagstore_init`; `ParseCrashes` is the division by an associativity
that is 0 in 16 bits, or makes 0 in 32 bits with the size of a block.
`OpenFails`, `Open`, `Again` and `LoopEnds` are `dis_parse_tracefile` and
`dis_run_cycle`. The loop is left when nothing is in flight (`LoopDrained`) or
when the cycle counter comes round to 0 (`CounterWraps`). The counter is not
kept: it may come round at any test, with instructions on any list. `Move`
stands for the other four stages: an instruction may pass to the next list when
that has room, but one that is `NeverOver` (see `NoAddress` below) stays in EX.
`Clean*` are the parts of `dis_cleanup`, in order.

A trace is a sequence of words, as `fscanf` sees it, and a word is what `%x`
and what `%d` make of it: `2b6420` is a number to the first, and 2 followed by
the unread `b6420` to the second. `Scan` takes up to six; a word it cannot
convert stays, and fields it does not reach keep the value of the call's last
line. The sign and range of numbers, and registers or types outside the
arrays they index, are left out.

## What is checked

All runs are in `PROJECT.json`; `tlc -config <name>.cfg <module>` repeats one.
A behaviour ends in `"done"` of the scheduler or the decoder, at the exit of
the program, after the cleanup of the lists, or at the bound on requests,
hence `CHECK_DEADLOCK FALSE`.

| Run | Shows | Bounds and why they are enough |
|---|---|---|
| `Dependences` | `TypeOK`, `RAWOrder`, `NoLostWakeup`, `RMTLatest`, `OnTime` | N = S = 2, two registers (symmetric), ten kinds of lines, four instructions: enough for two writers of one register with different latencies, a reader between them and one after, in flight together |
| `Pressure` | `InOrder`, `DispatchPrefix`, `ListsMatchStates`, `DispatchWidth`, `IssueGreedy`, `DispatchGreedy`, `DoneComplete`, `ExecNeverFull`, `ReportIsASchedule`, `KeepsPace`; `AllWrittenBack`, `ImplementsDataflow` | N = 1, S = 2, six instructions: one more than the 5N places of `list_exec`, twice the dispatch list plus the queue, so that each list fills. The cycle counter has 64 values, more than the 60 cycles that `KeepsPace` allows six instructions of at most 5 cycles |
| `Caches` | `CacheTypeOK`, `OneCopy`, `StatsBalance`, `ReportPrintsEach`, `DirtyKept`, `LatencyNamesLevel`, `ImplementsLRU` | with and without an L2; an L1 of three sets, of which two are used, and an L2 of two, two blocks in a set; four blocks of one set and one of the other, two addresses in one block, five requests. Five are enough for a write back that pushes the requested block out of the L2 |
| `Lists` | `ListsTypeOK`, `ListsHoldMemory`, `SortKeepsNodes`, `ImplementsQueues` | five instructions in six addresses, any free one for each new node (the addresses are symmetric): all positions of a node in a list (only, first, last, between), runs of 1, 2 and 4 with a short and a missing second run, memory that is reused |
| `FrontEnd` | `MemoryBalanced`, `CachesWired`, `LinesReadExactly`, `ProgramEnds` | traces of 0 to 3 lines with and without a last newline, nine ways to cut a line short or add a word, one word that is no number; widths of 0, 1 and 2, a queue of 0, 1 and 2; every combination of an L1 and an L2 with associativities that are 0, 0 modulo the width, 0 modulo the word times the size of a block, and others; a line that is never over, with and without caches; a counter that comes round at any test; no arguments; no file |
| `AddrBlocks` | `DecodeIsDivision`, `LineNamesBlock`, `IndexInRange` | all addresses of 7 bits, block sizes 2, 3, 4, 8, set counts 1 to 8 with non-powers of two |
| `SystemLoads` | `OnTime`, `LookupOnce`, `TimesMatchStats`, `KeepsPace`, `ImplementsScheduler` | four instructions over an L1 of one block, alone and with an L2 of two: hits in each and misses, dependent and independent loads, two in EX at once |

What the less obvious ones say:

- `NoLostWakeup` ties the ready bit of every waiting source to the state of
  the instruction that produces it, and its name to the name the producer will
  announce, at every step between two stages as well as inside them.
- `IssueGreedy` and `DispatchGreedy` are about performance: the simulator's
  cycle counts are its product, and a stage that leaves work undone would be
  wrong without any dependence being violated.
- `InOrder` says that dispatch is in trace order although `dis_dispatch` does
  not ask for it, and that the two sorts have nothing to do. `DispatchPrefix`
  is the reason.
- `DirtyKept` bounds what may stop being dirty in the whole hierarchy by what
  the last cache wrote to memory.
- `TimesMatchStats` counts instructions by their time in EX and compares with
  the misses the caches counted.
- `ReportIsASchedule` takes the printed table as a reader would, and asks
  whether a machine with those sizes could have run it.
- `KeepsPace` says that no instruction starves, and how long it can take: the
  k-th is in WB by cycle 2 * k * `Longest`. It holds for all the stages
  together or not at all, since each of them may keep an instruction waiting.
- `ReportPrintsEach` is about a report that looks for blocks by their age: it
  is right because no two have the same.
- `SortKeepsNodes` holds in the middle of the sort, when the list is in up to
  four pieces. `ImplementsQueues` says that the pointers amount to sequences.
- `CachesWired` relates the three places that say whether there is an L2.
- `LinesReadExactly` holds for damaged files too, as far as the damage. That
  all lines have been read is true of a loop that drained: its test comes after
  fetch, and what was just fetched is in flight. A loop that the counter ends
  may leave lines unread.
- `MemoryBalanced` includes the loop that the counter ends, with nodes on every
  list.
- `ImplementsScheduler` is `Scheduler!Spec` itself, with the caches hidden.

Each property of a passing run has a mutant, an operator beside the original
that has a plausible bug, and TLC finds the property violated with it.

### Fairness

`FairSpec` of `Scheduler` adds `WF_vars(Next)`: one thread runs the loop,
nothing in it blocks, and it always has a next statement until it ends. Only
`Pressure` uses it. The trace ends because it is at most `MaxTrace` long, as a
file is finite. `AllWrittenBack` is then a fact about the code: the cycle
counter drives it. `Dataflow` gets fairness of each `Start` and `Complete`,
which the refinement shows the loop to provide.

`FairSpec` of `FrontEnd` has `WF` of `Main`, for the same reason, and strong
fairness of two things that are possible once in a cycle only, and that the
rest of the program makes happen. `Moves`: that the stages use what room there
is, again and again, is `AllWrittenBack`, which needs a queue with places and
latencies that end; so it is supposed only then (`NeverDrains` is false).
`CounterWraps`: every test of a busy loop counts, so that one of 2^32 is the
one. It is supposed only where the loop cannot drain, with S = 0 or an
instruction that is never over: a loop that can drain must do so without it,
or `ProgramEnds` would say no more than that counters come round.
`ProgramEnds` supposes that every word of the file is some number: a word
`fscanf` cannot convert at all is never consumed, and is fetched again and
again.

### Disagreements found

Each is a run of its own, expected to be violated:

- `IssueWrap`. `dis_issue` counts in a `uint8_t`; with N of 256 or more the
  count wraps and more than N instructions are issued ("It can move upto 'n'
  instrctions"). The run scales it to a 1-bit counter and N = 2. The program
  itself was seen to do it with N = 257.
- `CacheStall`. `list_exec` has 5N places, sized for latencies up to 5. A
  cache miss takes 20 cycles, so with a cache the execution units are not
  fully pipelined as the assignment (`docs/pa2_spec.pdf`, page 5) says.
- `NoAddress`. With a cache, an instruction of type 2 with address 0 has
  latency 0, is not looked up, and is never over: the loop ends when the cycle
  counter comes round (`CounterWraps`).
- `ZeroQueue`. S = 0 is accepted ("Parse and validate"), and the loop spins
  until the cycle counter wraps and then reports an incomplete run. The run
  scales the counter to 5 bits.
- `AddrByteBlocks`. With blocks of one byte a mask of no bits is a shift by
  32, and what that gives is up to the build: the model takes it to be any of
  two masks, each time anew. On x86 the offset mask has all bits and the index
  none, so that two addresses of different sets are taken for one block. The
  run shows this for the index; its offset, which the property does not read,
  may be another than on x86.

## What is proved

`tlapm <module>` checks each of these from nothing. They hold for all values of
the constants that satisfy the named assumptions: for `Scheduler`, N and S
natural, `NoReg` not a register, trace lines of the right shape, positive
widths, lookups that answer a natural number; for `Cache`, blocks of a power of
two of bytes, sizes that are an `int`, associativities that are not 0 and at
least one set in each cache; for `InstLists`, a finite set of addresses and any
number of instructions, allocated at any free address; for `System`, that the
two are about the same program: the scheduler has an L1, the caches are sent
its reads and may say what the scheduler expects to hear. What a theorem needs
beyond them is in its row, and in the paragraph on it.

| Module | Theorem | States |
|---|---|---|
| `SchedulerProofs` | `TypeCorrect` | `Spec => []TypeOK` |
| | `InOrderDispatch` | `Spec => []InOrder` |
| | `DispatchPrefixHolds` | `Spec => []DispatchPrefix` |
| | `ListsHold` | `Spec => []ListsMatchStates` |
| `DependenceProofs` | `DependencesHold` | `Spec => []RAWOrder` |
| | `NoWakeupLost` | `Spec => []NoLostWakeup` |
| | `TableSpeaksOfLatest` | `Spec => []RMTLatest` |
| | `SchedulerImplementsDataflow` | `Spec => Abstract!Spec`: `ImplementsDataflow` without its fairness |
| `TimingProofs` | `LeaveOnTime` | `Spec => []OnTime`, if `CanBeOnTime` |
| | `DispatchIsGreedy` | `Spec => []DispatchGreedy` |
| | `IssueIsGreedy` | `Spec => []IssueGreedy`, if N < `CounterMod` |
| | `IssueKeepsWidth` | `Spec => []IssueWidth`, if N < `CounterMod` |
| | `DispatchKeepsWidth` | `Spec => []DispatchWidth`, if N < `CounterMod` |
| | `ExecHasPlaces` | `Spec => []ExecNeverFull`, if `CanBeOnTime` and there is no cache |
| `PaceProofs` | `PaceIsKept` | `Spec => []KeepsPace`, if `CanKeepPace` |
| | `DoneIsComplete` | `Spec => []DoneComplete`, if `CanKeepPace` and `CyclesSuffice` |
| | `ReportIsSchedule` | `Spec => []ReportIsASchedule`, if `CanKeepPace` and `CyclesSuffice` |
| `SystemProofs` | `SystemImplementsScheduler` | `SystemSpec => ImplementsScheduler` |
| | `SystemDependencesHold` | `SystemSpec => []RAWOrder` |
| | `SystemLeaveOnTime` | `SystemSpec => []OnTime`, if `CanBeOnTime` |
| | `SystemImplementsCaches` | `SystemSpec => CacheSpec` |
| | `SystemLooksUpOnce` | `SystemSpec => []LookupOnce` |
| | `SystemTimesMatch` | `SystemSpec => []TimesMatchStats`, if `CanKeepPace` and `CyclesSuffice` |
| | `SystemKeepsPace` | `SystemSpec => []KeepsPace`, if `CanKeepPace` |
| `CacheProofs` | `CacheTypesHold` | `CacheSpec => []CacheTypeOK` |
| | `OneCopyHolds` | `CacheSpec => []OneCopy` |
| | `StatsAddUp` | `CacheSpec => []StatsBalance` |
| | `ReportNamesEach` | `CacheSpec => []ReportPrintsEach` |
| | `LatencyIsLevel` | `CacheSpec => LatencyNamesLevel` |
| | `DirtyIsKept` | `CacheSpec => DirtyKept` |
| | `CachesAreStacks` | `CacheSpec => ImplementsLRU` |
| `InstListsProofs` | `ListsTyped` | `Spec => []ListsTypeOK` |
| | `MemoryIsHeld` | `Spec => []ListsHoldMemory` |
| | `SortHolds` | `Spec => []SortKeepsNodes` |
| | `ListsAreQueues` | `Spec => ImplementsQueues` |
| `FrontEndProofs` | `WiringAgrees` | `Spec => []CachesWired` |
| | `MemoryBalances` | `Spec => []MemoryBalanced` |

Each proof module starts with lemmas about the operators it needs, has a lemma
for each action or for a group of actions that do the same to the invariant,
then one for `Next` and the temporal steps. The inductive invariants were
checked with TLC on the instances of the runs before they were proved.

**Order** (`SchedulerProofs`). `TypeOK`, `InOrder` and `DispatchPrefix` need
each other. `TypeOK` is not inductive because of the sorts: that
`Sorted(issue)` is a sequence of nodes is known only because the list was in
order, so that it is unchanged. `InOrder` is not inductive because
`DispatchMove` may take a node from anywhere in `disp`: it must be shown to
take the head. That is `MovesHead`, from `DispatchPrefix`: the nodes in ID
come first, and once one of them was passed over the issue list was full and
stays so for the rest of the loop. `DispatchPrefix` in turn needs `InOrder`:
an instruction that leaves `issue` or `exec` is older than all in `disp`, so
no state there changes (`OlderKeepsPrefix`). `IInv` is their conjunction.

**Lists** (the end of `SchedulerProofs`). `ListInv` says of each list that its items
are the instructions in its states, that none is there twice, and that its
counter is its length. It is inductive over `IInv`, except that `wback` is put
in order at the end when it was not before: the report's sort does have work
to do. `Sorted` is therefore a rank (`Older`: each node behind as many as are
older), and the proof shows that a rank is a permutation of the list.

**Dependences** (`DependenceProofs`). `DepInv` is `RAWOrder`, `NoLostWakeup`
and `RMTLatest` with what makes them inductive. `NamesGiven`: no name on a
list or in the table is greater than `regName`, so that a new one is new.
`NamesUnique`: no two writers that have not finished have one name, so that
`dis_exec_update_regs` wakes the readers of one of them; an instruction that
writes no register has the name of the table's extra entry, and is left out.
`DispatchedOlder`: `InOrder` for finished instructions too, which is why the
last writer in the table is the last one before the reader that copies it.
`StampsPast`: a producer in WB has a stamp no later than now, unless the loop
has ended, which is what a wrapped counter does.

**Dataflow** (the end of `DependenceProofs`). Each step of the scheduler is a step of
`Dataflow` or leaves its variables alone: a line fetched is an instruction
that arrives, `IssuePush` is a start, and `NoLostWakeup` is what makes the
start's guard true; `ExecuteComplete` is an end.

**Time** (`TimingProofs`). `TimeInv` follows an instruction through EX: it has
only the latency of its type until `dis_execute` comes to it in the next cycle
(`Own`), and from then on its time is ahead of every cycle that has seen it
(`InTime`); the equality of `dis_execute_is_over` is met because it is looked
at in every cycle. `OnTime` is false of the program as it is, and
`CanBeOnTime` names what is needed: N below the modulus of `dis_issue`'s
counter, or the counter may be 0 in the middle of the issue stage (see
`IssueWrap`); addresses for instructions of type 2 behind a cache, or they
have no latency (see `NoAddress`); and answers that leave a `uint8_t` alone.
Real caches answer 5, 10 or 20, the tests' traces have addresses, and N is
below 256 in every script: the runs `Dependences` and `SystemLoads` satisfy
`CanBeOnTime`.

The rest of the module is about the pace of the stages. `StampInv` says where
in a cycle a stamp may be: an instruction is in IF until the dispatch stage of
the next cycle, nobody has entered IS or EX before the stage that moves them
there. `QueueInv` gives `DispatchGreedy`: while `dis_dispatch` runs, either the
queue is full or no instruction it has passed is in ID; `Paced` is the rest of
it. `IssuedInv` is about
the loop of `dis_issue`: its counter is the number that entered EX, what lies
behind its position and is ready was refused for want of width or of a place,
and everything from its position on is younger than all that entered; with
`NoLostWakeup`, which says that ready bits tell of producers, that is
`IssueGreedy`. N below `CounterMod` is needed, and the run `IssueWrap` shows
what happens otherwise: `IssueWidth` is false there.

No counter limits `dis_dispatch`, so `DispatchWidth` needs an argument over
three stages, `WidthInv`: what is still in ID when a cycle ends was left there
because the queue was full, and then it has in the next cycle only the places
`dis_issue` frees, N at most; or the queue had room and all of it got to ID just now,
so all of it was fetched in one cycle (`FetchedInv`, `Paced`), N at most.
`ExecHasPlaces` counts as well: with no cache latencies are 5 at most
(`Quick`), so by `InTime` what is in `list_exec` when `dis_issue` runs entered
EX in this cycle or one of the four before, and N at most did in each
(`EnteredInv`). With a cache it is false, which is what `CacheStall` shows.

**Pace** (`PaceProofs`). `AllWrittenBack` cannot be proved here, but a bound on
how long it takes can, because it is a safety property, and it says more.
`OnPace` follows the oldest instruction that is not in WB, from the cycle in
which the one before it got there: a cycle in IF, one in ID, then IS. There it
waits for no producer, since all older ones are done (`NoLostWakeup`), and for
no other instruction's turn, since it is the first of its list (`InOrder`);
only `list_exec` may be full, of younger ones that entered EX by then and so
leave it within `Longest` cycles (`InTime`, `LatencyInv`). Then it is in EX
for `Longest` at most. `PaceInv` is this for the oldest, with the deadline of
every one that is done; that there is an oldest is `OldestIs`. `CanKeepPace` names what is needed:
N and S above 0, as `ZeroQueue` shows, and `CanBeOnTime`.

`DoneComplete` needs the counter of cycles not to come round, which would end
the loop like the lists' lengths do. `CyclesSuffice` says that it is wider than
the deadline of the longest trace: `g_cycle_num` has 32 bits and `Longest` is
25 with a cache, so that it holds of every trace shorter than 85 million
instructions. By `PaceInv` the counter then does not wrap (`NotWrapped`), so
that the loop ends on the lengths alone; `DoneInv` adds that no cycle before the
end of the trace leaves `list_disp` empty, and the sort of the report finds
`wback` to be a permutation of the trace (`ListInv`), which it puts in order.

`ReportIsASchedule` is about the past: the sizes must have held in each cycle
that is printed, when only the stamps are left. `HistoryInv` keeps them, for
every cycle before this one: those whose stamps say they were in IF or ID were
2N at most (`Waits`), those in IS were S at most (`Queued`), and some
instruction was somewhere (`Covered`). When a cycle ends the lists, whose bounds
the stages test, say so of it, and no later stamp changes what is past
(`PastStays`). `OrderInv` says that the
stamps of an instruction grow from stage to stage.

**System** (`SystemProofs`). A step of the system is the scheduler's with the
caches hidden: `Lookup` is `Execute` with the answer of the request, which is
one of three latencies. So every theorem about the scheduler is one about the
system; the dependences, the times and the pace are stated. A step is also the caches' or leaves them alone, since
what an instruction asks for is the address of its trace line (`Addressed`): so
every theorem about the caches is one about the system too. `LookupOnce` needs
both halves, and is proved of them together: `AskInv` says that the reads of
the L1 are as many as the instructions that have entered EX in an earlier cycle
and are not `Pending`, that is, entered in the last one and still to be met by
`dis_execute`. It rests on each node being on `list_exec` once (`ListInv`), on
`StampInv`, by which none has left EX in the cycle it entered, and on
`Referred`, what a request adds to the statistics.

`TimesMatchStats` is proved of both halves as well. `MissInv` says of each
instruction of type 2 with an address that has been looked up what it was told
(`Told`: its latency names the level that missed), and that the misses counted
by each cache are as many as the instructions told so. A lookup adds one to
both (`MissLookup`), and nothing else touches either (`MissOthers`). At the
end `DoneComplete` puts all of them in WB and `OnTime` makes the time in EX the
latency told, hence the two hypotheses.

**Caches** (`CacheProofs`). `CacheInv` holds for every geometry, with an L2 or
without. `Sound` says of each set that ages are readings of the clock no later
than the last one, that valid blocks have different tags and ages, and that a
place never filled has age 0 and is clean: the last is why
`cache_get_lru_block`, which compares ages and does not ask whether a block is
valid, is right when the set is full. A request reads the clock up to three
times, so soundness is stated at a time, and the lemmas pass it on from one
nested call to the next. `FirstInvalid` and `LRUBlock` are first places of
loops, that is, least elements, which exist by `LeastElement`. `Balanced` and
`Feeds` are the statistics: `AccessFrontEffect` adds up what one request does
to both caches. That `Index` stays below the number of sets in use needs
`UsedSets` to exist, hence the bound on sizes.

**Caches as stacks** (the end of `CacheProofs`). `LatencyNamesLevel` and `DirtyKept`
are about one step, in a state that is `Sound`: a request is followed through
its nested calls, with what each leaves where (`AccessFront` may look for the
block in an L2 that has just taken a written one in). For `DirtyKept` each
nested call either passes a dirty block on or writes it to memory
(`LastKeepsDirty`, `RequestKeepsDirty`).
`CachesAreStacks` maps a set to its blocks by `Rank`, the number of those with
a newer age. A use gives one place the newest age: what was above it goes one
deeper and the rest keeps its depth (`Promote`), which is `Use` of `LRUStack`;
the place of a missed block is the first below the stack or the one at its
bottom (`FreshDepth`). That ranks are
all different and fill the numbers below the size of the set is by
`FiniteSetTheorems`, from the ages being different (`Sound`). No fairness is in
`LRUStack`, so the theorem is the whole of `ImplementsLRU`.

**Lists in memory** (`InstListsProofs`). The properties speak of `Walk`, what a
loop visits: a recursive function over memory, whose values the proof gets from
a least counterexample (`StepsExist`, `AtIs`). To do that again whenever a
pointer changes is not needed: the proofs speak of a sequence of nodes and of
what each node's pointers are (`Linked`, `Back`, `Ends`, together `IsList`). An
append or a deletion changes three pointers, and it is local to check the
sequence that results (`AppendIs`, `DeleteIs`). One lemma (`WalkIs`) says that
`Walk` visits the sequence.

`MemoryInv` is `ListsHoldMemory` and `SortKeepsNodes` made inductive. Between
two statements two lists hold all the nodes allocated (`RunInv`), and no two
have the same number (`NumInv`). While `DL_SORT` is at work the second list is
in pieces (`SortInv`): `b` is built, `p` is what is left of the first run and
`r` the second run with all behind it (`Cut`). `SortKeepsNodes` alone is not
inductive, because it says nothing of the order in the middle of a merge:
`Merging` says that all of `b` is in order in runs of twice `insize` up to a
place `x`, that what was merged since is below what is left of both runs, and
that those are in order. That the last pass leaves one list in order rests on
the count of merges: with one merge `x` never gets beyond the first pair of
runs, so that the runs merged are the list (`Room`, `Counted`).
`dis_cleanup` goes from node to node of lists whose backward pointers it does
not keep, so `CleanInv` asks for chains only.

`ListsAreQueues` maps the lists to the numbers of their nodes. What a loop that
stands on a node of a list does next depends on the node's place, which is
unique (`Distinct`); `DLDelete` is `RemoveAt` and the pointer saved before it
is at the place the deleted node had. The sort is mapped to one step, its
beginning: the sequence in order of a set of numbers exists and is the only
one, and the list its last pass leaves is that one. `InstQueues` has no
fairness, so the theorem is the whole of `ImplementsQueues`.

**The program** (`FrontEndProofs`). `WiredInv` adds to `CachesWired` what
holds *before* the arguments are read: a run without caches skips
`cache_init`, and `g_l2_present` and `next_cache` agree with `dis->l2` only
because the program started with them clear. Afterwards every action leaves
the wiring alone (`WiredKept`) until `dis_cleanup`, which is past the last use
of it. `MemInv` says for each place in `main` exactly what is allocated
(`Owned`): the table and the headers, the arrays of the caches that `dis`
leads to, a node on one list for each instruction, its data and its node on
`list_inst`. It is kept at every test of the loop, so that it does not matter
which of them the counter makes the last. `dis_cleanup` asks for the L2 only if
there is an L1, hence `CachesOwned`.

### Only model-checked

- Liveness, fairness and ENABLED are out of the prover's reach:
  `AllWrittenBack`, `ProgramEnds`, the fair half of `ImplementsDataflow`.
- Facts by induction over data for which no least counterexample was worked
  out: what `FoldLeft` of `Scan` reads (`LinesReadExactly`).
- The three properties of `AddrBlocks`: the bit operations are recursive
  operators of the community module `Bitwise`, which the provers do not take.

## What is not modelled

- How `atoi` reads an argument, and the format of the report; the quotient it
  prints as IPC.
- Trace lines with a register or a type out of range: the code indexes its
  arrays with them.
- What becomes of a division by zero: `ParseCrashes` says only that the program
  ends there, with nothing given back, and `ProgramEnds` counts it as an end.
- A cache smaller than one of its sets: it has no set at all, and the code
  reads beyond its arrays.
- The debug printing in `dis-print.c` and `dis-cache-print.c`.
- The victim cache, LFU, write through: unreachable here.
- `cache_util_validate_input`, which is never called.
- The lists of `utlist.h` the program does not use.

## Plan

The order was by what the system's results depend on: the scheduler, the
caches for any number of sets, the address arithmetic, their composition, the
lists, the start and end of the program and the reading of the trace, the
numbers of the report; then the proofs, of which those of the section above are
done. What is left is under "Only model-checked".
