----------------------------- MODULE Interrupts -----------------------------
(***************************************************************************)
(* Interrupts: pic_config, the stubs of interrupt_handler.s,               *)
(* interrupt_handler and pic_acknowledge, and the devices they serve: two  *)
(* 8259 controllers, edge triggered, the keyboard's controller with its    *)
(* queue of scan codes, and a timer.  Devices act at any moment; the main  *)
(* line sets up its tables and goes on as Segments says.                   *)
(*                                                                         *)
(* The stack is a sequence, top first, of the words on it: a word is a     *)
(* kind and a number.  Handlers run with interrupts off (gates 0x8E).      *)
(***************************************************************************)
EXTENDS Segments, Sequences

CONSTANTS
  KeyCodes,     \* scan codes the keyboard sends
  KEYS,         \* scan codes its controller keeps                    (16)
  Lines,        \* the interrupt lines that devices raise, but the keyboard's
  Exceptions,   \* the vectors the running program may raise itself
  EarlyKeys,    \* keys may be pressed before pic_config
  NoChar

ASSUME InterruptsConstants ==
  /\ KeyCodes \subseteq 0 .. 255
  /\ KEYS \in Nat \ {0}
  /\ Lines \subseteq (0 .. 15) \ {1, 2}
  /\ \A line \in Lines : 32 + line \in AllVectors
  /\ Exceptions \subseteq AllVectors \cap (0 .. 31)
  /\ EarlyKeys \in BOOLEAN

VARIABLES
  irr, isr,     \* lines with a request, lines in service, of both controllers
  keys,         \* the keyboard controller's queue
  data,         \* what its port reads as
  pc,           \* what the processor executes; "main" is the kernel's main line
  stack,        \* the words on the stack, top first; one stands for the main line's
  vector,       \* ghost: the vector that is served
  scancode,     \* local of interrupt_handler
  shown         \* the character written to the screen last

vars == <<segmentVars, irr, isr, keys, data, pc, stack, vector, scancode, shown>>

TIMER == 0
KEYBOARD == 1
CASCADE == 2

Word(kind, number) == <<kind, number>>
Return == <<Word("eip", 0), Word("cs", 0), Word("eflags", 0)>>
Registers == [r \in 1 .. 7 |-> Word("register", r)]

Init ==
  /\ SegmentsInit
  /\ irr = {} /\ isr = {}
  /\ keys = <<>> /\ data = 0
  /\ pc = "main" /\ stack = <<Word("main", 0)>>
  /\ vector = 0 /\ scancode = 0 /\ shown = NoChar

----------------------------------------------------------------------------
(* The devices *)

\* The first code in the queue raises the line.
Press(code) ==
  /\ Ready \/ EarlyKeys
  /\ Len(keys) < KEYS
  /\ keys' = Append(keys, code)
  /\ irr' = IF keys = <<>> THEN irr \cup {KEYBOARD} ELSE irr
  /\ UNCHANGED <<segmentVars, isr, data, pc, stack, vector, scancode, shown>>

\* The period of a device is longer than its handler.
Edge(line) ==
  /\ vector # 32 + line \/ pc = "main"
  /\ irr' = irr \cup {line}
  /\ UNCHANGED <<segmentVars, isr, keys, data, pc, stack, vector, scancode, shown>>

\* Reading the port empties it; the next code in the queue raises the line again.
read_scan_code ==
  /\ scancode' = IF keys = <<>> THEN data ELSE Head(keys)
  /\ data' = scancode'
  /\ keys' = IF keys = <<>> THEN keys ELSE Tail(keys)
  /\ irr' = IF keys' = <<>> THEN irr ELSE irr \cup {KEYBOARD}

\* The order in which the controllers prefer lines: those of the second one
\* come in through line 2.
Rank(line) == IF line >= 8 THEN 8 * CASCADE + line - 8 ELSE 8 * line

\* A request gets through when it outranks the others and what is in service.
Granted(line) ==
  /\ line \in irr \ isr
  /\ \A other \in (irr \cup isr) \ {line} : Rank(line) < Rank(other)

\* End of interrupt at a controller: its most preferred line in service.
EndOfInterrupt(lines) ==
  isr \ {l \in lines \cap isr : \A m \in lines \cap isr : l <= m}

----------------------------------------------------------------------------
(* Initialisation *)

\* idt_init calls pic_config, which forgets the requests and sets no mask.
pic_config == irr' = {} /\ isr' = {}

\* The steps of the kernel's main line.
kmain ==
  /\ pc = "main"
  /\ \/ idt_init /\ pic_config
     \/ (init_gdt \/ gdt_flush \/ sti \/ iret) /\ UNCHANGED <<irr, isr>>
  /\ UNCHANGED <<keys, data, pc, stack, vector, scancode, shown>>

EnterUserMode ==
  /\ pc = "main"
  /\ enter_user_mode
  /\ UNCHANGED <<irr, isr, keys, data, pc, stack, vector, scancode, shown>>

----------------------------------------------------------------------------
(* Entering and leaving *)

\* The stubs at the address that v's gate gives.
Reached(v) ==
  {u \in DOMAIN stub : /\ idt[v].type_attributes # Absent
                       /\ stub[u] = Base(gdt[idt[v].segment_selector.index])
                                      + Offset(idt[v])}

Enter(v) ==
  /\ pc = "main" /\ Ready
  /\ vector' = v
  /\ stack' = Return \o stack
  /\ pc' = IF Reached(v) # {} THEN "stub" ELSE "reset"
  /\ UNCHANGED <<segmentVars, keys, data, scancode, shown>>

\* A line of the second controller is in service at both.
Interrupt(line) ==
  /\ Granted(line)
  /\ interrupts
  /\ Enter(32 + line)
  /\ irr' = irr \ {line}
  /\ isr' = isr \cup (IF line >= 8 THEN {line, CASCADE} ELSE {line})

\* Of the kernel, once it runs.  None of those in Exceptions has an error code.
Exception(v) == interrupts /\ Enter(v) /\ UNCHANGED <<irr, isr>>

\* Mutant: the vector is pushed first.
StubWordsSwapped(v) ==
  (IF v = 7 THEN <<>> ELSE <<Word("error", 0)>>) \o <<Word("vector", v)>>

\* The two macros: vector 7 has the one for exceptions with an error code.
StubWords(v) ==
  <<Word("vector", v)>> \o (IF v = 7 THEN <<>> ELSE <<Word("error", 0)>>)

Stub ==
  /\ pc = "stub"
  /\ \E u \in Reached(vector) : stack' = Registers \o StubWords(u) \o stack
  /\ pc' = "interrupt_handler"
  /\ UNCHANGED <<segmentVars, irr, isr, keys, data, vector, scancode, shown>>

\* Mutant: only the vector is dropped.
DropOne(s) == SubSeq(s, 9, Len(s))

\* Seven pops and add esp, 8.
Drop(s) == SubSeq(s, 10, Len(s))

\* iret takes three words: with others than those that were pushed it goes
\* to where they say.
stub_return ==
  /\ pc = "return"
  /\ stack' = SubSeq(Drop(stack), 4, Len(Drop(stack)))
  /\ pc' = IF SubSeq(Drop(stack), 1, 3) = Return THEN "main" ELSE "astray"
  /\ UNCHANGED <<segmentVars, irr, isr, keys, data, vector, scancode, shown>>

----------------------------------------------------------------------------
(* interrupt_handler *)

\* Its parameters, where cdecl finds them above the return address.
interrupt == stack[8][2]
error_code == stack[9]

\* Mutant: the port is read for the timer too.
IsKey33or32 == interrupt \in {32, 33}

IsKey == interrupt = 33

interrupt_handler_read ==
  /\ pc = "interrupt_handler"
  /\ IsKey
  /\ read_scan_code
  /\ pc' = "key"
  /\ UNCHANGED <<segmentVars, isr, stack, vector, shown>>

\* The timer's branch is empty.
interrupt_handler_other ==
  /\ pc = "interrupt_handler"
  /\ ~IsKey
  /\ pc' = "pic_acknowledge"
  /\ UNCHANGED <<segmentVars, irr, isr, keys, data, stack, vector, scancode, shown>>

\* interrupt_handler.c:5-39, the codes from 1 on; 0 for those without one.
teclado_qwerty ==
  LET listed == << 27, 49, 50, 51, 52, 53, 54, 55, 56, 57, 48, 45, 61, 8, 9,
        113, 119, 101, 114, 116, 121, 117, 105, 111, 112, 91, 93, 10, 0,
        97, 115, 100, 102, 103, 104, 106, 107, 108, 59, 39, 96, 0,
        92, 122, 120, 99, 118, 98, 110, 109, 44, 46, 47, 0, 42, 0, 32 >>
  IN  [code \in 0 .. 127 |->
         CASE code \in DOMAIN listed -> listed[code]
           [] code = 74 -> 45
           [] code = 78 -> 43
           [] OTHER     -> 0]

\* Codes from 128 on are those of keys that are released.
HasChar(code) == code < 128 /\ teclado_qwerty[code] # 0

\* Mutant: it returns at once for keys without a character.
interrupt_handler_key_return ==
  /\ pc = "key"
  /\ shown' = IF HasChar(scancode) THEN teclado_qwerty[scancode] ELSE shown
  /\ pc' = IF HasChar(scancode) THEN "pic_acknowledge" ELSE "return"
  /\ UNCHANGED <<segmentVars, irr, isr, keys, data, stack, vector, scancode>>

\* fb_write: see Framebuffer.
interrupt_handler_key ==
  /\ pc = "key"
  /\ shown' = IF HasChar(scancode) THEN teclado_qwerty[scancode] ELSE shown
  /\ pc' = "pic_acknowledge"
  /\ UNCHANGED <<segmentVars, irr, isr, keys, data, stack, vector, scancode>>

\* Mutant: the first vector counts as not the controllers'.
OurVectorsLate == 33 .. 47

OurVectors == 32 .. 47

pic_acknowledge ==
  /\ pc = "pic_acknowledge"
  /\ isr' = CASE interrupt \notin OurVectors -> isr
              [] interrupt \in OurVectors /\ interrupt < 40 -> EndOfInterrupt(0 .. 7)
              [] interrupt \in OurVectors /\ interrupt >= 40 ->
                   EndOfInterrupt(0 .. 7) \cap EndOfInterrupt(8 .. 15)
  /\ pc' = "return"
  /\ UNCHANGED <<segmentVars, irr, keys, data, stack, vector, scancode, shown>>

----------------------------------------------------------------------------
\* What the processor does by itself, one instruction stream.
Run ==
  \/ kmain \/ Stub \/ stub_return
  \/ interrupt_handler_read \/ interrupt_handler_other \/ interrupt_handler_key
  \/ pic_acknowledge

Next ==
  \/ Run
  \/ EnterUserMode
  \/ \E line \in Lines \cup {KEYBOARD} : Interrupt(line)
  \/ \E v \in Exceptions : Exception(v)
  \/ \E code \in KeyCodes : Press(code)
  \/ \E line \in Lines : Edge(line)

Spec == Init /\ [][Next]_vars

\* The processor goes on.  It answers a request that it could answer again
\* and again: no device interrupts so often that the main line never runs.
FairSpec ==
  /\ Spec
  /\ WF_vars(Run)
  /\ \A line \in Lines \cup {KEYBOARD} : SF_vars(Interrupt(line))

----------------------------------------------------------------------------
InHandler == pc \in {"interrupt_handler", "key", "pic_acknowledge", "return"}

\* interrupt_handler finds its parameters where struct cpu_state and struct
\* stack_state say, and the words iret takes are below them.
ParametersInPlace ==
  InHandler =>
    /\ interrupt = vector /\ error_code = Word("error", 0)
    /\ SubSeq(stack, 10, 12) = Return

\* Whichever of Lines and Exceptions interrupts the kernel, however soon after sti,
\* also the timer nobody uses, the processor finds a stub through the gate, and the
\* stub's return goes back to the code that was interrupted: "o erro real ja foi
\* empilhado pelo processador" (interrupt_handler.s:14).  That is so while these
\* have gates and vector 7, whose stub drops a word too many, is not one of them.
ReturnsWhereItWas == pc \notin {"reset", "astray"}

\* No line stays in service behind its handler, which would silence it and all
\* lines after it, nor is one ended twice.
Acknowledged ==
  /\ pc = "main" => isr = {}
  /\ InHandler /\ pc # "return" => isr = {vector - 32} \cap (0 .. 15)

\* The screen shows the keys' characters in the order of the keys, each once,
\* whatever the timer, other exceptions and faster fingers do meanwhile.
Stream == INSTANCE KeyStream WITH
  Codes <- KeyCodes,
  program <- pc,
  Char <- LAMBDA code : teclado_qwerty[code],
  pending <- (IF pc = "key" THEN <<scancode>> ELSE <<>>) \o keys

KeysInOrder == Stream!Spec

\* A code in the keyboard's queue is read in the end, "Pressione uma tecla..."
\* (kmain.c:105), unless the kernel has gone to user mode, without interrupts.
KeyboardAnswers == keys # <<>> ~> pc = "key" \/ Ring = 3
============================================================================
