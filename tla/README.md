# HydrogenSO in TLA+

A verification project for the kernel in `src/`: a 32-bit x86 educational
kernel (C and NASM, loaded by GRUB at the higher half) with a physical frame
allocator, a virtual memory manager, a heap, processes with a directory of
their own, a simulator of demand paging with a TLB, descriptor tables and
interrupts, and drivers for the screen, the serial port and the keyboard.  TLC
checks the modules on small machines; TLAPS proves every safety property of every
component, and each refinement, for every size of machine (§4 has the hypotheses, and
the one property about a single trace that is left to TLC, with liveness).

## 1. The system

| part | state | operations | what makes it correct |
|---|---|---|---|
| **PMM** `pmm.c` | `memory_bitmap`, `max_available_pages` | `pmm_init`, `pmm_alloc_page`, `pmm_free_page` | a frame has one holder, exists, and is clear of the first megabyte, the kernel and the modules; no frame is lost |
| **Heap** `kheap.c` | the list of `block_header_t`, `heap_head` | `kheap_init`, `kmalloc`, `kfree` | blocks tile the heap; a block in use is not shared, moved or shrunk; free neighbours merge |
| **VMM** `vmm.c` | page directories (heap), page tables (PMM frames), `boot_page_table[1023]` as a window, the processor's TLB | `vmm_create_page_directory`, `vmm_destroy_page_directory`, `vmm_map`, `vmm_unmap`, `vmm_temp_map_page`, `vmm_temp_unmap_page`, `vmm_switch_page_directory` | spaces are independent but for the kernel's part; a table's frame is no other table's and no user page's; nothing stale in the TLB; rights as asked |
| **Simulator's TLB** `tlb.c` | `tlb[16]`, `proxima_posicao` | `tlb_init`, `tlb_lookup`, `tlb_insert` | a FIFO cache |
| **Simulator** `simulador_mmu.c` | `tabela_paginas[256]`, counters, `proximo_frame` | `mmu_init`, `traduzir_endereco`, statistics | the TLB is invisible in the translations; frames and statistics add up |
| **Loader** `loader.s` | `boot_page_directory`, `boot_page_table`, cr3, cr0 | fill the tables, paging on, jump to the higher half, identity mapping off | the next instruction and the stack are always mapped; `kmain` finds the kernel mapped once |
| **Start-up** `kmain.c` | locals | the order in which everything is initialised and tried | each part is used after the parts it needs |
| **Processes** `process.c` | `process_t` and its directory, two blocks of the heap | `process_create`, `process_destroy` | each block has one owner at every step; destroying gives both back |
| **Interrupts** `idt.c`, `idt.s`, `interrupt_handler.*`, `keyboard.c` | IDT, the two 8259s, the stack | `idt_init`, `pic_config`, the stubs, `interrupt_handler`, `pic_acknowledge`, `read_scan_code` | gates lead to the stubs; stubs balance the stack; each interrupt is ended once; keys are shown in order |
| **Framebuffer** `framebuffer.c` | `fb_col`, `fb_row`, 80x25 cells | `fb_write`, `fb_scroll`, `fb_move_cursor` | cursor on the screen, text in order |
| **Serial port** `serial.c`, `io.s` | the 16550's registers | `serial_configure`, `serial_write_char`, `log_message` | no byte lost; the documented rate |
| **GDT and user mode** `gdt.c`, `gdt.s`, `user_mode.s` | GDT, segment registers | `init_gdt`, `gdt_flush`, `enter_user_mode` | selectors in assembly and descriptors in C agree |

How they interact: `kmain` calls everything in order.  `kheap_init` takes a frame
from the PMM for each page and maps it with `vmm_map`, which takes frames for
its tables from the PMM too.  `vmm_create_page_directory` takes its memory from
`kmalloc`; `process_create` calls both.  A page fault of the simulator takes a
frame from the PMM and writes to it through the VMM's window.  The stubs of the
IDT call `interrupt_handler`, which reads the keyboard's port and calls `fb_write`.

**What is concurrent, and what is not.**  There is one processor and no scheduler.
`kmain` enables interrupts after its last use of the PMM, the heap and the VMM
(`kmain.c:163`), and `interrupt_handler` touches only the screen and the PIC.
So a call of the memory managers runs to its end, and modelling it as one step
is exact where its steps do not matter; the heap's loops, the loader's
instructions and the processes' calls are modelled one at a time all the same,
because their intermediate states, the failure of one of several steps, and
their termination are the interesting part.  The other actors are devices: the processor's
TLB, which fills at any moment (`VMMSpec`, `Loader`); keyboard, timer and
interrupt controllers, which act between any two steps of the kernel
(`Interrupts`); and the transmitter of the serial port, at its own pace (`Serial`).

**What is hard.**  *Long legal sequences of calls* (free lists, coalescing, table
reuse), *limits* (the last frame, the full heap, no frame at all, counters that
wrap, the last cell of the screen), *stale copies* (TLBs, words left in a reused frame),
*failures half-way* that nobody looks at, *order* (paging under the feet of the code, ports that
mean something else for a moment, devices that act before they are set up).
`PROJECT.json` lists each hazard at its line.

## 2. Modules

```
 FramePool <--refines-- PMMSpec --EXTENDS--> PMM <--EXTENDS-- VMM <-- VMMSpec --refines--> AddressSpaces
                          ^                   ^                          ^
             PMMProofs --> Startup            |                        Loader <-- LoaderProofs
                                              +--- MMUSim <-- MMUSimSpec --refines--> FIFOCache
                                                    |  ^          ^          and --> DemandPaging
                                             TLB <--+  MMUTrace   MMUSimProofs
 Allocator <--refines-- KHeap <-- Processes <-- KHeapProofs
 KeyStream <--refines-- Interrupts <-- InterruptProofs;  Segments <-- Interrupts
 LogStream <--refines-- Serial <-- SerialProofs
                        Framebuffer <-- FramebufferProofs
```

An arrow `A <-- B` without a word is `B EXTENDS A`.  A `MC*` module gives the
constants of a specification for TLC.  A `*Proofs` module holds the theorems about the module
it extends and the ones below; `LeastElement` proves what `Min` returns, for the searches of
the PMM and the TLB.  Names are the source's.

**PMM, PMMSpec** (`pmm.c`).  `bitmap` is the set of the frames whose bit is 1.
`pmm_init` works from a *boot* record (what GRUB and `link.ld` tell `kmain`); it
counts frames in unsigned arithmetic of width `UINT`, reserves the first
megabyte, the kernel and the modules; `pmm_alloc_page(address)` relates the
states around a call that returns `address`; the pure parts of its search
(`FirstFree`, `Taken`) are operators on a bitmap, so that VMM and MMUSim, which
allocate in the middle of a call, use the same definitions.  `PMMSpec` adds the
callers: they give back frames they hold, and, as `testar_pmm` does, also the
0 of a failed request (`FreeFailed`).  `held`, `ret`, `boot` and `up` describe
the callers.

**Startup** (`kmain.c`) on PMMSpec: `kmain` as a caller of the allocator, from
`pmm_init` to the jump into the module.  Its steps are PMMSpec's (`Boot`, `Alloc`, `Free`,
`FreeFailed`) with `pc`, a counter `i` and `users`, which remembers what each
frame was used for; nothing in `kmain` looks at the 0 of a refusal, so `users` has frame
0 then.  With `pc = "any"` the behaviours are those of `PMMSpec`: one run checks both.

**KHeap** (`kheap.c`).  Memory is a partial function `hdr` from addresses to headers.
`kmalloc` and `kfree` start a call; `kmalloc_next`, `kmalloc_take`,
`kmalloc_fail`, `kfree_merge`, `kfree_next` and `kfree_done` are the iterations
and exits of the loops, `current` their local variable.  `live` is a ghost: the
pointers callers hold and what they asked for.  `kfree(0)` returns at once and
is a stutter.  Callers free only what they hold: what a double or a wild free
does is outside the contract.

**Processes** (`process.c`) on KHeap: `process_create` runs `kmalloc` twice, for
`process_t` and, in `vmm_create_page_directory`, for the directory;
`process_destroy` runs `kfree` twice.  Every iteration of their loops is a step.
`procs` are the processes and their directories (0 when the second request failed),
`texts` what the kernel itself holds, `call` and `proc` where a running call is.

**TLB, MMUSim, MMUSimSpec, MMUTrace** (`tlb.c`, `simulador_mmu.c`).
`traduzir_endereco` is one action with two alternatives, hit and miss; a miss may
be a page fault (`PageFault`), which takes a frame from the PMM (`LoadPage`).  `saida`
is the physical address that the code logs.  A frame of the machine holds
the number of the page whose bytes were copied into it (`ram`), and the ghost
`real` remembers where the copy of a page went: the code forgets it.
`MMUSimSpec` translates any addresses, `MMUTrace` the thousand of
`simulador_dados.h` with the real sizes.  `TLBQueue`, the mapping to `FIFOCache`, is
as many of the entries before the position that is written next as are valid.  `MMUTrace` has the lines each call logs as
sequences of digits, and `BACKING_STORE_bin`, whose 65,536 bytes are the words 0, 1, 2, ...
written high byte first.

**VMM, VMMSpec** (`vmm.c`, `loader.s:40-69`, `kheap.c:25-32`).  `entries` are the
directories in use, `table` the words of the machine's frames, read as
page-table entries: a frame that was not cleared holds entries that look
present.  The window is `boot_page_table`'s last entry; each function opens and
closes it, so between steps the entry is zero, which the actions establish
explicitly (`WindowClosed`).  `cached` is the TLB of the processor, filled by `Fill`
at any time and emptied by `Invlpg`.  `LoaderDirectory` and `LoaderTable` are what the
loader leaves; `AfterTestarPMM` is the state `kheap_init` finds.  Pages of the
identity mapping the loader removed may still be cached (`LoaderPages`).
`VMMSpec` is a kernel that sets up its heap and then makes, fills
and destroys directories.

**Loader** (`loader.s`) before VMMSpec: instruction groups from GRUB's jump to
`call kmain`, with `eip` and `esp` as pages, and a processor that may have cached any
translation it could walk; then `VMMSpec`'s kernel goes on from the state it leaves.
The VMM modules start from `LoaderDirectory` and `LoaderTable`; `LeavesBootSpace`
says that they may.

**Segments, Interrupts** (`gdt.*`, `user_mode.s`, `idt.*`, `interrupt_handler.*`,
`keyboard.c`).  `Segments` has the packing of bases, limits and addresses into the
fields of descriptors and gates, in words of eight nibbles, what a processor reads back, and
the main line: `init_gdt`, `gdt_flush`, `idt_init`, `sti`,
`enter_user_mode`.  `Interrupts` composes it with two 8259s (`irr`, `isr`, end of
interrupt), the keyboard's queue, a timer and exceptions.  The stack is a sequence of
words: the stubs push and drop, `interrupt_handler` finds its parameters by
position, `iret` takes what is on top.  `stub` is where the linker put each stub: a gate with the
wrong address leads nowhere (`Reached`).  `Vectors` are those with a gate, out of `AllVectors`.

**Framebuffer** (`framebuffer.c`).  `fb_write` a character at a time, `fb_scroll`
and the two bytes of the cursor; `text` is a ghost, all that was ever written.

**Serial** (`serial.c`, `io.s`).  Each `out` and each look at the line status
is a step; the port is a 16550, whose data port is the divisor's while DLAB is set.

**Abstract specifications.**  `FramePool`: frames lent to one holder at a time,
refusal only when all are lent.  `Allocator`: disjoint blocks that stay put; refusal only
when no gap is wide enough.  `FIFOCache`: a
queue, hits and misses page by page.  `DemandPaging`:
translation without a TLB.  `AddressSpaces`: maps from pages to frames, each with
the same kernel part (`AreAddressSpaces` adds that `vmm_map` and `vmm_unmap` put the frame
they are given behind the page they are given, and change no other page).  `KeyStream`: a key is shown once, in order.  `LogStream`: a
byte goes out once, in order.  Each is the `PROPERTY` of a run through
`INSTANCE ... WITH`; the mappings are the last lines of the detailed modules.

## 3. Runs

| run | machine | what it shows |
|---|---|---|
| `pmm` | frames of 4 bytes, a "first megabyte" of 2 frames, a bitmap of 10; 144 boot records; `kmain` needs 2 + 1 + 2 frames | any callers: `TypeOK`, `ImagesNeverGranted`, `LendsThePool`; `kmain`: `FramesApart`, `EnoughIsEnough` |
| `kheap` | 76 bytes of heap with the real header (12) and margin (4); processes of 4, directories of 20, texts of 0, 4, 15, 20 | `TypeOK`, `HeapTiled`, `UsedAreLive`, `Coalesced`, `RestoredWhenEmpty`, `IsAnAllocator`; `EveryBlockHasItsOwner`; `CallsReturn` (liveness) |
| `mmu_sim` | 4 pages of 2 bytes, a TLB of 2, 4 frame numbers; 10 addresses, up to 9 calls | `TLBCoherent`, `FramesDistinct`, `StatisticsAddUp`, `CopiesIntact`, `TLBIsFIFO`, `TranslatesAsDemandPaging` |
| `mmu_trace` | the real simulator: TLB of 16, 256 pages, 1000 addresses | `GabaritoReached`: it ends with 244 faults and 54 hits, 24% and 5%; `LogIsTrue`: each logged number is the machine's |
| `vmm` | directories of 3 entries, tables of 2, 12 frames, 2 processes | `TablesExclusive`, `HeapFramesPrivate`, `OnlyWhatWasMapped`, `FramesAccountedFor`, `AreAddressSpaces` |
| `vmm_cache` | the loader and then the kernel; tables of 6, kernel code, table, directory and stack in four frames; a TLB for three pages | `StandsOnItsFeet`, `LeavesBootSpace`, `StaleOnlyFromLoader` |
| `interrupts` | nibbles of one bit, the stubs linked in two ways; scan codes with a character, without and of a release; a queue of 3; timer; exceptions 0 and 1 | `GatesLeadToStubs`, `RegistersSelectFlatSegments`, `ParametersInPlace`, `ReturnsWhereItWas`, `Acknowledged`, `KeysInOrder`; `KeyboardAnswers` (liveness) |
| `framebuffer` | a screen of 3 x 2, bytes of 4 values, texts up to 9 characters | `ScreenShowsText`, `CursorAfterText` |
| `serial` | a queue of 2, three messages, three levels, one unknown | `LosesNothing`; `CallsReturn` (liveness) |
| `vmm_rights`, `keyboard_dead`, `serial_rate` | as above | findings, below |

**The bounds.**  `pmm`: memories smaller than, as large as and larger than the
bitmap, of a whole number of frames and not; images that end inside a frame and
at its last byte, that overlap; the pool runs empty, and `kmain` has from no frame to one
more than it needs.  `kheap`: up to five blocks,
so a `kfree` may merge with both neighbours; the heap fills and
fragments, splits happen and are refused at the margin, zero-byte requests occur,
and there is room for a process with its directory and another without one.
`mmu_sim`: nine calls fault on each page, wrap `proximo_frame` and `proxima_posicao`,
evict and re-insert; the PMM has four free frames, or two, so it runs out.  `vmm`: the
boot directory and two others share the kernel's part; tables are made in all,
and a directory is destroyed while another is in use.  Its linear map (a table of two
entries, one of them the window) ends below the first frame that is lent, while `loader.s`'s
reaches `boot_page_table` and each frame that is lent below 4 MB: `TablesExclusive` leaves these
pages out (`LinearPages`), and its proof is for tables of any size.
`interrupts`: addresses of eight bits
with the stubs at both ends of both halves; a full keyboard queue while a
handler runs.  `framebuffer`: the screen scrolls by a full line, a line end, and both at
once in the last cell.  `serial`: a message is longer than the queue.
`MaxTotal` (calls of the simulator), `MaxText` and the one-time use of directory names
(`created`) are the only artificial bounds: they only cut behaviours short.
`CHECK_DEADLOCK FALSE` in the simulator's configurations says that its loop really ends.

**Fairness.**  Nothing makes callers call, keys be pressed or the timer tick.
`FairProcessSpec` has weak fairness of the steps *inside* a call (`Running`), `TraceSpec` of
`kmain`'s loop, `Serial` and `Interrupts` of the processor's own steps (`Run`): it goes
on executing.  `Serial` adds weak fairness of `Transmit`: the port has a clock of its
own.  `Interrupts` adds strong fairness of `Interrupt(line)`: a request that can be
answered again and again is answered, that is, no other device interrupts so often that the
keyboard's line is never the most preferred one.  No other run needs any.

**Findings** (runs that TLC must find violated; each property states what a comment
or a message of the source says):
- `vmm_rights`: a directory entry keeps the flags of the first page mapped
  under it (`vmm.c:72`), so a later page does not get the rights `vmm_map` was given
  (`vmm.h:8-9`).
- `keyboard_dead`: a key pressed before `pic_config` fills the keyboard's port, and
  ICW1 forgets its edge (`interrupt_handler.c:81`); no edge comes again, although `kmain.c:105`
  asks for a key.
- `serial_rate`: the high byte of the divisor goes to the port of the low one
  (`serial.c:18`): the rate is not that of `serial.c:17-18`.

Disagreements that were met and need no run, since they are read off a line:
- vector 7 has the stub macro for exceptions with an error code
  (`interrupt_handler.s:47`); the processor pushes none.  `StubWords` has it as it is,
  and `ReturnsWhereItWas` fails when 7 is put among `Exceptions`.
- `simulador_mmu.c:127-128` describes one line of the log for an access; each of the three
  numbers and each of their prefixes is a line of its own (`Logged`).
- `framebuffer.c:83` writes the colours 0 and 5 where `:82` says white (15) on black;
  `interrupt_handler.c:130` lets through escape, backspace and tab, which have a code in the
  table, against `:129`.
- `vmm.c:54` takes the address of a directory in the heap for one in the kernel's image
  (`:52-53`); the function has no caller.
- The 0 of `pmm_alloc_page` is not looked at in `vmm.c:69`, `kheap.c:26` and
  `simulador_mmu.c:91`: from then on, frame 0 is a page table, a page of the heap, a
  copy.  The runs `vmm` and `vmm_cache` have frames enough (`EnoughFrames` of `LoaderProofs`) and see
  no refusal; `pmm`'s `kmain` does, in `FramesApart`.  The properties of `pmm` and
  `mmu_sim` say so in their premises (`EnoughIsEnough`, `CopiesIntact`).
- A process without directory is returned like any other (`process.c:12`), and `kmain`
  reports it as created, as in `com1.out:13-14`.

Each property has a mutant of the code, an operator beside the definition it
replaces, under which TLC finds it violated: the properties are about this code.

## 4. Proofs

All theorems are for every value of the constants.  Two lines of argument recur: an
inductive invariant `IInv` that strengthens the checked ones, and the remark that a
composed system is a caller that keeps the rules, so that the theorems of the part hold of it.

*PMM* (`PMMProofs`).  Assumptions:
`PMMConstants` (the first megabyte is a whole number of
frames) and `BootInfosAssumption` (images are not empty, memory below 4 GB).
`TypeOK /\ GrantedInRAM /\ ...` is not inductive: nothing in it says that an unheld frame of
the pool has a clear bit.  `IInv` says that the bitmap is, at every moment, the frames
`pmm_init` reserved and those that are held, and that the two are disjoint; frame 0
is the exception, because `FreeFailed` may clear its bit, and the proof shows that
it does not matter since the search starts above it.  The rest is arithmetic of
division (`FrameBelow`, `FrameAbove`, `ImageClear`): that the frames
`pmm_init` reserves are those whose bytes meet an image, and the one after.

*Start-up* (`PMMProofs`).  `KmainIsACaller`: `StartupSpec` implies `PMMSpec`'s `Spec`, so
all of `PMMProofs` holds of `kmain`.  `PartsOfKmainStayApart` (`FramesApart`) needs two
facts more: a frame with a user is held, but for the test's, which is given back; and
a frame that is lent was not held, by `FramePool`'s rule.  Assumption:
`ImagesAboveFrame0`, since frame 0 is where refused requests write.
`FramesSuffice` (`EnoughIsEnough`) counts: `HeldByCount` bounds the frames that are held
by the place and the round of `kmain`'s loops, so that with frames enough the pool is not
yet used up at any request, and a pool that is not used up does not refuse.

*Heap* (`KHeapProofs`).  Assumption: `KHeapConstants`.  `IInv` joins the tiling, the relation
of used blocks with `live`, and what a running `kfree` has already established:
there is no pair of free neighbours *behind* `current`, while ahead of
it there may be; and a running `kmalloc` has passed over no block that fits.
The first gives `Coalesced` when the pass ends, the second the refinement of the
refusal: `FailRefuses` shows that a gap wide enough for the request
with `Slack = 2 * HDR + MARGIN` to spare contains a free block that fits,
because free neighbours are merged.
`LoopsAreBounded` is the part of `CallsReturn` that needs no fairness: a merge leaves `current` where it
is, but takes a block off the list, so that at each iteration fewer blocks are ahead (`Ahead`), of finitely many.

*Processes* (`KHeapProofs`).  Every process step is a step of the heap or leaves it
alone (`ProcessesAreCallers`), so the heap's `IInv` holds in the middle of the calls too.
`NoBlockIsLost` adds what a running call holds (`CallOfHeap`: which request the
heap is serving for it), and that a block that `kmalloc` takes was nobody's.
Assumption: `ProcessSizes`.

*Simulator* (`MMUSimProofs`).  Assumptions: those on the constants of TLB, PMM and
simulator, of which the one that matters is in `MMUConstants`: frame numbers (`UCHAR`)
are no fewer than pages.
`FramesInOrder` is the key: `page_faults` is the number of valid pages and
`proximo_frame` is `page_faults % UCHAR`, so the counter comes back to 0 only when no
page is left to fault.  With `CopiesTaken` (the frames of the copies are taken in the PMM),
it gives `NoFrameNumberTwice`, `FaultsCountPages` and `CopiesStay`; with
`TLBCoherent` it gives `TLBIsTransparent`, the refinement of `DemandPaging`.
`TLBIsAQueue`, the refinement of `FIFOCache`, needs `FilledInOrder`: the valid entries are all
of the array, or those before `proxima_posicao`.  The queue is then the array read from that
position, or its beginning (`QueueShape`), and `InsertQueues` shows that `tlb_insert` appends to it.
The page of an access, which the abstract cache sees, is found back from the address that is logged:
there is one page with its frame (`Accessed`, `FramesDistinct`).

*Serial* (`SerialProofs`).  Assumption: `SerialConstants`.  After set-up DLAB is clear, and
between a look at the status and the write that follows, the queue stays empty, since only the
driver fills it: so no byte meets a full queue, and `queue \o todo` is `LogStream`'s
pending text.

*VMM and loader* (`LoaderProofs`).  Assumptions: `VMMConstants`, `VMMSpecConstants` and
`LoaderConstants`, which place the loader's code, stack and tables in the machine's first frames,
as many as a table has entries (`PTES <= MAX_PAGES`), and below the window; the boot
table is no frame whose data a caller may map.  The theorems have a hypothesis: `[][NoneRefused]_vars`,
no step of `kheap_init` or `vmm_map` asks the PMM for a frame when it has none.  Without it they are
false, since `vmm_map` does not look at the 0 of `pmm_alloc_page` and makes frame 0 a table; and it
forbids nothing more: the last frame may be taken, and everything else may go on without it.
`SpaceIInv` is made of seven parts: types of directories and of
memory (`PagingType`, `MemoryType`), each directory has the kernel's part (`KernelPart`), the tables
are in frames of their own that the PMM counts as used (`SlotFrames`), so are the pages
of the heap (`HeapFrames`), and the two that matter to a program, `OnlyWhatWasMapped` and
`CacheCoherent`.  They need each other: that `vmm_map` changes the word of one page only holds
because no two directories share a table outside the kernel's part, and that no cached
translation becomes stale because the one word that changes is the one `invlpg` names.  `Walk`, the frame
behind a page, is the level of the argument: `MapEffect` says that `vmm_map` changes one walk
in one directory and nothing else, and a new table, which held anything, is all zero
when it is entered.  `ImplementsAddressSpaces` then follows step by step,
the part on what is asked (`PutsWhatIsAsked`) from the same lemmas as the invariant.
The loader's `LoaderIInv` goes by the place in the code: where `eip` and `esp` are, by
which mapping, and how much of the table is filled (`Feet`, `LoaderTables`); the state of `LeavesBootSpace`
until `kheap_init` has mapped a page (`BootSpace`); `SpaceIInv` from then on.  Its theorems assume
that no request is refused only from `kmain` on.
How many frames discharge the hypothesis is a theorem too.  `FramesAreAccountedFor`, which assumes
nothing of the behaviour, counts: a frame is spent on a page of the heap or on a table, and a table
is made once for an entry of a directory as long as that directory lives (`TablesMade`: the entries that have
one, and all the user entries of the directories destroyed, whose tables nobody gives back).  Those
are at most `PDES - 1` of the boot directory and `KERNEL_PDE` of each other one, so with
`HEAP_PAGES + (PDES - 1) + KERNEL_PDE * Cardinality(Dirs)` frames (`EnoughFrames`) there is one whenever
one is asked for (`EnoughServes`), and the properties hold with no hypothesis on the behaviour
(`EnoughFramesAreEnough`, `EnoughFramesAfterLoader`).  `Dirs` is finite in these two only: a kernel that
creates processes for ever does run out, for it leaks tables.

*Interrupts* (`InterruptProofs`).  Assumptions: `SegmentsConstants` and `InterruptsConstants`.
`IInv` has four parts.  `SegmentsIInv`: what the five descriptors are and what the segment registers hold, for each
stage of `kmain`; the arithmetic that takes a base, a limit or an offset apart and puts it together again
is proved for every width of a nibble.  `StackIInv`: at each stage of an interrupt the stack is
exactly what the stub, `interrupt_handler`'s caller and the processor have pushed on top of
what was there.  `ServiceIInv`: only the line being answered is in service.
`KeysIInv`: a request of the keyboard stands for a key in its port, which gives the refinement of
`KeyStream`.  Two theorems have a hypothesis about the machine, because the code is right only then:
`InterruptsReturn` that what interrupts has a gate and is not vector 7, `ParametersFound` that
vector 7 is no exception of the machine: its stub drops an error code that the processor does not
push.  `WhereItGoesWrong` says that nothing else can go wrong.

*Framebuffer* (`FramebufferProofs`).  Assumption: `FramebufferConstants`.  The reference, where
character k of the text belongs (`Place`), is a recursive function, and nothing can be shown of one for every
text by induction over the text.  So the induction is the one over behaviours:
`Path`, a part of `IInv`, says that there is one function on the text written so far that satisfies
the equation, that it is `Place`, and that its places strictly advance; writing a character extends it
by one place.  With `AtPen` (the next place is where `fb_col` and `fb_row` are, after
the lines that were scrolled away) each step of `fb_write` keeps `ScreenShowsText`: the cell it writes is the
place of its character, and of no earlier one.

*Only model-checked*: what needs fairness (`CallsReturn` of the heap and of the serial port,
`GabaritoReached`, `KeyboardAnswers`), which is out of the prover's reach; and `LogIsTrue`, about one
trace of a thousand addresses: its digits need induction over powers of ten, while the part about memory, that
a page's copy stays where it was put, is `CopiesStay`, for any trace.  The properties of the three findings are false.  `TypeOK` of
`MMUSimSpec`, `GrantedInRAM` of `PMMSpec` (which `LendsThePool` implies), `CacheCoherent` of `VMMSpec`
and `WhereItGoesWrong` are proved and not checked by
a run of their own.

## 5. What is not modelled

- Contents of memory beyond what properties tell apart: bytes of pages, the words of
  log messages, colours.
- `bitmap_set` past the end of the array (`pmm.c:58`): a set has no end.  `Startup` has
  modules that end in and behind the last frame; the write past the array has no effect in
  the model, and the hazard is listed.
- Mappings in the kernel's part after `kheap_init`: no caller makes any.  A directory
  copies the kernel's entries when it is created (`vmm.c:44-45`) and would miss later ones.
- `vmm_switch_page_directory` and `write_hex_log`: no caller.  `vmm_init` only logs.
- What other devices do: every line is unmasked (`interrupt_handler.c:94`), but nothing in
  `src/` turns another device on.
- The module program, build and emulator files: a busy loop, rules, configuration.
- `simulador_dados.h` is 5479 of the 6873 lines that count as implementation.  Its
  addresses are in `MMUTrace`; its bytes follow one rule, and the model states the rule
  rather than the bytes, so that most of those lines correspond to no line here.

## 6. Plan

1. *Done*: every component with state; every safety property and refinement of §3 but
   `LogIsTrue` proved (§4).
2. *Done*: proofs that say more than the runs ask: how many frames the VMM needs, to the last one
   (`EnoughFramesAreEnough`), and how long the heap's loops run (`LoopsAreBounded`).
3. **When the code grows**: `vmm_switch_page_directory` with the frame a directory
   is really in; directories that miss the kernel's later tables; a task segment
   for interrupts in user mode.
