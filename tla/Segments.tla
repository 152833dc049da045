------------------------------ MODULE Segments ------------------------------
(***************************************************************************)
(* Descriptors and segment registers: gdt.c, gdt.s, idt_set_gate of idt.c  *)
(* and user_mode.s.  Bases, limits and addresses are cut into fields of a  *)
(* descriptor; the processor puts them together again.  A word is made of  *)
(* nibbles (digits of base NIBBLE), two to a byte and eight to a dword.    *)
(* These are the steps of the kernel's main line; Interrupts composes them *)
(* with the devices and the handlers.                                      *)
(***************************************************************************)
EXTENDS Integers

CONSTANTS
  NIBBLE,      \* values of four bits                                 (16)
  AllVectors,  \* the entries of the IDT                        (0 .. 255)
  Links,       \* where the stubs may be linked: functions from vectors to addresses
  Flags        \* 0xC: granularity of a page, 32 bits

BYTE == NIBBLE * NIBBLE
WORD == BYTE * BYTE
DWORD == WORD * WORD

\* The vectors whose gates idt_init sets.
Vectors == {0, 1, 7, 32, 33}

ASSUME SegmentsConstants ==
  /\ NIBBLE \in Nat \ {0, 1}
  /\ Vectors \subseteq AllVectors /\ AllVectors \subseteq 0 .. 255
  /\ \A link \in Links :
       /\ link \in [Vectors -> 0 .. DWORD - 1]
       /\ \A v, u \in Vectors : link[v] = link[u] => v = u
  /\ Flags \in 0 .. NIBBLE - 1

\* Access bytes 0x9A, 0x92, 0xFA, 0xF2 and 0x8E by what they say.
Access(kind, dpl) == [kind |-> kind, dpl |-> dpl]
Absent == Access("absent", 0)

VARIABLES
  stub,          \* vector -> address of interrupt_handler_<vector>
  gdt, idt,
  segment,       \* segment registers -> selector, as [index, rpl]
  interrupts,    \* the main line's flag IF
  stage          \* how far the main line is

segmentVars == <<stub, gdt, idt, segment, interrupts, stage>>

Selector(index, rpl) == [index |-> index, rpl |-> rpl]
DataRegisters == {"ds", "es", "fs", "gs"}

----------------------------------------------------------------------------
\* Mutant: what is left of the limit is not joined with the flags.
gdt_set_gate_flagless(base, limit, access, gran) ==
  [base_low    |-> base % WORD,
   base_middle |-> (base \div WORD) % BYTE,
   base_high   |-> (base \div (WORD * BYTE)) % BYTE,
   limit_low   |-> limit % WORD,
   granularity |-> (limit \div WORD) % NIBBLE,
   access      |-> access]

gdt_set_gate(base, limit, access, gran) ==
  [base_low    |-> base % WORD,
   base_middle |-> (base \div WORD) % BYTE,
   base_high   |-> (base \div (WORD * BYTE)) % BYTE,
   limit_low   |-> limit % WORD,
   granularity |-> ((limit \div WORD) % NIBBLE) + (gran \div NIBBLE) * NIBBLE,
   access      |-> access]

\* What the processor reads from a segment's descriptor.
Base(d) == d.base_low + WORD * d.base_middle + WORD * BYTE * d.base_high
Limit(d) == d.limit_low + WORD * (d.granularity % NIBBLE)
FlagsOf(d) == d.granularity \div NIBBLE

\* Mutant: the high half keeps the bits of the low one.
idt_set_gate_low(base, sel, flags) ==
  [offset_low |-> base % WORD, offset_high |-> base % WORD,
   segment_selector |-> sel, type_attributes |-> flags]

idt_set_gate(base, sel, flags) ==
  [offset_low |-> base % WORD, offset_high |-> (base \div WORD) % WORD,
   segment_selector |-> sel, type_attributes |-> flags]

Offset(g) == g.offset_low + WORD * g.offset_high

----------------------------------------------------------------------------
\* The registers are GRUB's; its tables are gone.
SegmentsInit ==
  /\ stub \in Links
  /\ gdt = [i \in {} |-> Absent] /\ idt = [v \in {} |-> Absent]
  /\ segment = [r \in DataRegisters \cup {"cs", "ss"} |-> Selector(0, 0)]
  /\ interrupts = FALSE
  /\ stage = "kmain"

\* 0xCF, and 0xFFFFFFFF of which a descriptor keeps five nibbles.
Gran == Flags * NIBBLE + NIBBLE - 1
Whole == DWORD - 1

init_gdt ==
  /\ stage = "kmain"
  /\ gdt' = [i \in 0 .. 4 |->
       CASE i = 0 -> gdt_set_gate(0, 0, Absent, 0)
         [] i = 1 -> gdt_set_gate(0, Whole, Access("code", 0), Gran)
         [] i = 2 -> gdt_set_gate(0, Whole, Access("data", 0), Gran)
         [] i = 3 -> gdt_set_gate(0, Whole, Access("code", 3), Gran)
         [] i = 4 -> gdt_set_gate(0, Whole, Access("data", 3), Gran)]
  /\ stage' = "gdt_flush"
  /\ UNCHANGED <<stub, idt, segment, interrupts>>

\* The far jump loads cs.
gdt_flush ==
  /\ stage = "gdt_flush"
  /\ segment' = [r \in DOMAIN segment |->
                   IF r = "cs" THEN Selector(1, 0) ELSE Selector(2, 0)]
  /\ stage' = "idt_init"
  /\ UNCHANGED <<stub, gdt, idt, interrupts>>

\* All gates are zero, then five are set.
idt_init ==
  /\ stage = "idt_init"
  /\ idt' = [v \in AllVectors |->
               IF v \in Vectors
               THEN idt_set_gate(stub[v], Selector(1, 0), Access("interrupt", 0))
               ELSE idt_set_gate(0, Selector(0, 0), Absent)]
  /\ stage' = "sti"
  /\ UNCHANGED <<stub, gdt, segment, interrupts>>

sti ==
  /\ stage = "sti"
  /\ interrupts' = TRUE
  /\ stage' = "running"
  /\ UNCHANGED <<stub, gdt, idt, segment>>

\* enter_user_mode up to its iret.  (No code of the kernel calls it yet.)
enter_user_mode ==
  /\ stage = "running"
  /\ segment' = [r \in DOMAIN segment |->
                   IF r \in DataRegisters THEN Selector(4, 3) ELSE segment[r]]
  /\ stage' = "iret"
  /\ UNCHANGED <<stub, gdt, idt, interrupts>>

\* The frame it pushed: cs and ss of the user, the flags without IF.
iret ==
  /\ stage = "iret"
  /\ segment' = [segment EXCEPT !["cs"] = Selector(3, 3), !["ss"] = Selector(4, 3)]
  /\ interrupts' = FALSE
  /\ stage' = "user"
  /\ UNCHANGED <<stub, gdt, idt>>

----------------------------------------------------------------------------
Ring == segment["cs"].rpl
Loaded == stage \notin {"kmain", "gdt_flush"}
Ready == stage \notin {"kmain", "gdt_flush", "idt_init"}

\* A descriptor of the whole memory from 0 on, "para chegar em 4GB" (gdt.c:44).
Flat(d) ==
  /\ Base(d) = 0
  /\ Limit(d) = WORD * NIBBLE - 1
  /\ FlagsOf(d) = Flags

\* Whatever the registers hold, in the kernel and in user mode, selects a
\* segment of the right kind and privilege that covers all memory: selectors in
\* assembly and entries in C agree.
RegistersSelectFlatSegments ==
  Loaded => \A r \in DOMAIN segment :
    LET d == gdt[segment[r].index]
    IN  /\ Flat(d)
        /\ d.access.kind = IF r = "cs" THEN "code" ELSE "data"
        /\ d.access.dpl >= Ring /\ segment[r].rpl <= d.access.dpl
        /\ r \in {"cs", "ss"} => d.access.dpl = Ring /\ segment[r].rpl = Ring

\* From idt_init on, before the first interrupt, each stub's gate leads to the
\* stub, wherever it was linked, in the kernel's code segment; all others are
\* absent.
GatesLeadToStubs ==
  Ready => \A v \in AllVectors :
    IF v \in DOMAIN stub
    THEN LET code == gdt[idt[v].segment_selector.index]
         IN  /\ Base(code) + Offset(idt[v]) = stub[v]
             /\ code.access = Access("code", 0)
             /\ idt[v].type_attributes = Access("interrupt", 0)
    ELSE idt[v].type_attributes = Absent
============================================================================
