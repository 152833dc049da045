-------------------------- MODULE InterruptProofs --------------------------
(***************************************************************************)
(* The descriptor tables and the interrupts, for every width of a nibble,  *)
(* every place the stubs may be linked at, every set of keys and devices.  *)
(***************************************************************************)
EXTENDS Interrupts, SequenceTheorems, TLAPS

----------------------------------------------------------------------------
(* The inductive invariant *)

\* The GDT, from gdt_flush on.
Descriptors ==
  /\ \A i \in 1 .. 4 : Flat(gdt[i])
  /\ gdt[1].access = Access("code", 0) /\ gdt[2].access = Access("data", 0)
  /\ gdt[3].access = Access("code", 3) /\ gdt[4].access = Access("data", 3)

\* The code segment, the stack's, and the one of all others.
Selectors(cs, ss, ds) ==
  segment = [r \in DataRegisters \cup {"cs", "ss"} |->
               CASE r = "cs" -> cs [] r = "ss" -> ss [] OTHER -> ds]

SegmentsIInv ==
  /\ stub \in Links
  /\ stage \in {"kmain", "gdt_flush", "idt_init", "sti", "running", "iret", "user"}
  /\ stage # "kmain" => Descriptors
  /\ stage \in {"kmain", "gdt_flush"} => DOMAIN segment = DataRegisters \cup {"cs", "ss"}
  /\ stage \in {"idt_init", "sti", "running"} =>
       Selectors(Selector(1, 0), Selector(2, 0), Selector(2, 0))
  /\ stage = "iret" => Selectors(Selector(1, 0), Selector(2, 0), Selector(4, 3))
  /\ stage = "user" => Selectors(Selector(3, 3), Selector(4, 3), Selector(4, 3))
  /\ GatesLeadToStubs

Main == <<Word("main", 0)>>

\* The vectors of what may interrupt.
Served == Exceptions \cup {32 + line : line \in Lines \cup {KEYBOARD}}

\* The words on the stack at every place of the program, and how it gets nowhere.
StackIInv ==
  /\ pc \in {"main", "stub", "interrupt_handler", "key", "pic_acknowledge",
             "return", "reset", "astray"}
  /\ pc # "main" => Ready
  /\ pc = "main" => stack = Main
  /\ pc = "stub" => stack = Return \o Main
  /\ InHandler => stack = Registers \o StubWords(vector) \o (Return \o Main)
  /\ pc = "stub" \/ InHandler => vector \in Vectors
  /\ pc # "main" => vector \in Served
  /\ pc = "reset" => vector \notin Vectors
  /\ pc = "astray" => vector = 7

\* What is in service: nothing, but between an interrupt and its end.
ServiceIInv ==
  /\ pc \in {"main", "return"} => isr = {}
  /\ pc \in {"stub", "interrupt_handler", "key", "pic_acknowledge"} =>
       isr = {vector - 32} \cap (0 .. 15)

\* A request of the keyboard, pending or in service, has a key in the queue.
KeysIInv ==
  /\ keys \in Seq(KeyCodes)
  /\ KEYBOARD \in irr => keys # <<>>
  /\ pc \in {"stub", "interrupt_handler"} /\ vector = 33 =>
       keys # <<>> /\ KEYBOARD \notin irr
  /\ pc = "key" => scancode \in KeyCodes

IInv == SegmentsIInv /\ StackIInv /\ ServiceIInv /\ KeysIInv

----------------------------------------------------------------------------
(* Fields *)

\* A word below W * W is its two halves.
LEMMA TwoHalves ==
  ASSUME NEW W \in Nat \ {0}, NEW a \in Nat, a < W * W
  PROVE  (a % W) + W * ((a \div W) % W) = a
<1>1. a \div W \in Nat /\ a = W * (a \div W) + (a % W) /\ a % W \in 0 .. W - 1
  OBVIOUS
<1>2. a \div W < W
  OBVIOUS
<1>3. (a \div W) % W = a \div W
  BY <1>1, <1>2
<1> QED
  BY <1>1, <1>3

\* The largest word below W * W is all ones in both halves.
LEMMA AllOnes ==
  ASSUME NEW W \in Nat \ {0}
  PROVE  /\ (W * W - 1) % W = W - 1
         /\ (W * W - 1) \div W = W - 1
OBVIOUS

\* A digit in front of another is cut off again by division and remainder.
LEMMA TwoDigits ==
  ASSUME NEW N \in Nat \ {0}, NEW high \in Nat, NEW low \in 0 .. N - 1
  PROVE  /\ (high * N + low) \div N = high
         /\ (high * N + low) % N = low
OBVIOUS

\* Sizes are positive.
LEMMA Sizes ==
  /\ NIBBLE \in Nat \ {0} /\ BYTE \in Nat \ {0} /\ WORD \in Nat \ {0}
  /\ DWORD \in Nat \ {0} /\ DWORD = WORD * WORD /\ WORD * BYTE \in Nat \ {0}
<1>1. NIBBLE \in Nat \ {0}
  BY SegmentsConstants
<1>2. BYTE \in Nat \ {0}
  BY <1>1 DEF BYTE
<1>3. WORD \in Nat \ {0}
  BY <1>2 DEF WORD
<1> QED
  BY <1>1, <1>2, <1>3 DEF DWORD

\* What init_gdt sets for its four segments the processor reads as all memory.
LEMMA FlatDescriptor ==
  ASSUME NEW access
  PROVE  /\ Flat(gdt_set_gate(0, Whole, access, Gran))
         /\ gdt_set_gate(0, Whole, access, Gran).access = access
<1> DEFINE d == gdt_set_gate(0, Whole, access, Gran)
<1>1. d.base_low = 0 /\ d.base_middle = 0 /\ d.base_high = 0
  <2>1. ASSUME NEW n \in Nat \ {0} PROVE 0 % n = 0 /\ 0 \div n = 0
    OBVIOUS
  <2>2. /\ 0 % WORD = 0 /\ 0 \div WORD = 0 /\ 0 % BYTE = 0
        /\ 0 \div (WORD * BYTE) = 0
    BY <2>1, Sizes
  <2> QED
    BY <2>2 DEF gdt_set_gate
<1>2. d.limit_low = WORD - 1
  BY Sizes, AllOnes DEF gdt_set_gate, Whole
<1>3. /\ (Whole \div WORD) % NIBBLE = NIBBLE - 1
  <2>1. Whole \div WORD = WORD - 1
    BY Sizes, AllOnes DEF Whole
  <2>2. WORD - 1 = (BYTE * NIBBLE - 1) * NIBBLE + (NIBBLE - 1)
    BY Sizes DEF WORD, BYTE
  <2>3. BYTE * NIBBLE - 1 \in Nat /\ NIBBLE - 1 \in 0 .. NIBBLE - 1
    BY Sizes
  <2>4. ((BYTE * NIBBLE - 1) * NIBBLE + (NIBBLE - 1)) % NIBBLE = NIBBLE - 1
    BY <2>3, TwoDigits, Sizes
  <2> QED
    BY <2>1, <2>2, <2>4
<1>4. Gran \div NIBBLE = Flags
  BY Sizes, SegmentsConstants, TwoDigits DEF Gran
<1>5. d.granularity = Flags * NIBBLE + (NIBBLE - 1)
  <2>1. d.granularity = ((Whole \div WORD) % NIBBLE) + (Gran \div NIBBLE) * NIBBLE
    BY DEF gdt_set_gate
  <2> QED
    BY <2>1, <1>3, <1>4, Sizes, SegmentsConstants
<1>6. d.granularity \div NIBBLE = Flags /\ d.granularity % NIBBLE = NIBBLE - 1
  <2>1. Flags \in Nat /\ NIBBLE - 1 \in 0 .. NIBBLE - 1
    BY Sizes, SegmentsConstants
  <2>2. /\ (Flags * NIBBLE + (NIBBLE - 1)) \div NIBBLE = Flags
        /\ (Flags * NIBBLE + (NIBBLE - 1)) % NIBBLE = NIBBLE - 1
    BY <2>1, TwoDigits, Sizes
  <2> QED
    BY <1>5, <2>2
<1>7. d.access = access
  BY DEF gdt_set_gate
<1> HIDE DEF d
<1>8. Base(d) = 0
  <2>1. WORD * 0 = 0 /\ WORD * BYTE * 0 = 0
    BY Sizes
  <2> QED
    BY <1>1, <2>1 DEF Base
<1>9. Limit(d) = WORD * NIBBLE - 1
  <2>1. WORD - 1 + WORD * (NIBBLE - 1) = WORD * NIBBLE - 1
    BY Sizes
  <2> QED
    BY <1>2, <1>6, <2>1 DEF Limit
<1> QED
  BY <1>6, <1>7, <1>8, <1>9 DEF Flat, FlagsOf, d

\* The processor puts together the address idt_set_gate has cut in two.
LEMMA GateHoldsAddress ==
  ASSUME NEW a \in 0 .. DWORD - 1, NEW sel, NEW flags
  PROVE  LET g == idt_set_gate(a, sel, flags)
         IN  /\ Offset(g) = a
             /\ g.segment_selector = sel /\ g.type_attributes = flags
<1>1. (a % WORD) + WORD * ((a \div WORD) % WORD) = a
  <2>1. a \in Nat /\ a < WORD * WORD
    BY Sizes
  <2> QED
    BY <2>1, Sizes, TwoHalves
<1> QED
  BY <1>1 DEF idt_set_gate, Offset

----------------------------------------------------------------------------
(* The steps of the main line *)

\* The stubs are linked somewhere, each at its own address.
LEMMA StubAddresses ==
  ASSUME stub \in Links
  PROVE  /\ DOMAIN stub = Vectors
         /\ \A v \in Vectors : stub[v] \in 0 .. DWORD - 1
         /\ \A v, u \in Vectors : stub[v] = stub[u] => v = u
BY SegmentsConstants

\* init_gdt fills in the four segments.
LEMMA InitGdt == ASSUME SegmentsIInv, init_gdt PROVE SegmentsIInv'
<1>1. /\ stage' = "gdt_flush" /\ stub \in Links
      /\ UNCHANGED <<stub, idt, segment, interrupts>> /\ stage = "kmain"
  BY DEF init_gdt, SegmentsIInv
<1>2. /\ gdt'[1] = gdt_set_gate(0, Whole, Access("code", 0), Gran)
      /\ gdt'[2] = gdt_set_gate(0, Whole, Access("data", 0), Gran)
      /\ gdt'[3] = gdt_set_gate(0, Whole, Access("code", 3), Gran)
      /\ gdt'[4] = gdt_set_gate(0, Whole, Access("data", 3), Gran)
  BY DEF init_gdt
<1>3. /\ gdt'[1].access = Access("code", 0) /\ gdt'[2].access = Access("data", 0)
      /\ gdt'[3].access = Access("code", 3) /\ gdt'[4].access = Access("data", 3)
      /\ Flat(gdt'[1]) /\ Flat(gdt'[2]) /\ Flat(gdt'[3]) /\ Flat(gdt'[4])
  BY <1>2, FlatDescriptor
<1>4. Descriptors'
  <2>1. \A i \in 1 .. 4 : i = 1 \/ i = 2 \/ i = 3 \/ i = 4
    OBVIOUS
  <2> QED
    BY <1>3, <2>1, Zenon DEF Descriptors
<1>5. DOMAIN segment = DataRegisters \cup {"cs", "ss"}
  BY <1>1 DEF SegmentsIInv
<1> QED
  BY <1>1, <1>4, <1>5 DEF SegmentsIInv, GatesLeadToStubs, Ready

\* gdt_flush loads all six registers.
LEMMA GdtFlush == ASSUME SegmentsIInv, gdt_flush PROVE SegmentsIInv'
<1>1. /\ stage = "gdt_flush" /\ stage' = "idt_init"
      /\ UNCHANGED <<stub, gdt, idt>> /\ stub \in Links /\ Descriptors
      /\ DOMAIN segment = DataRegisters \cup {"cs", "ss"}
  BY DEF gdt_flush, SegmentsIInv
<1>2. Selectors(Selector(1, 0), Selector(2, 0), Selector(2, 0))'
  BY <1>1 DEF gdt_flush, Selectors, DataRegisters
<1>3. Descriptors'
  BY <1>1 DEF Descriptors
<1> QED
  BY <1>1, <1>2, <1>3 DEF SegmentsIInv, GatesLeadToStubs, Ready

\* idt_init sets the five gates.
LEMMA IdtInit == ASSUME SegmentsIInv, idt_init PROVE SegmentsIInv'
<1>1. /\ stage = "idt_init" /\ stage' = "sti"
      /\ UNCHANGED <<stub, gdt, segment>> /\ stub \in Links /\ Descriptors
      /\ Selectors(Selector(1, 0), Selector(2, 0), Selector(2, 0))
  BY DEF idt_init, SegmentsIInv
<1>2. Descriptors'
  BY <1>1 DEF Descriptors
<1>3. Selectors(Selector(1, 0), Selector(2, 0), Selector(2, 0))'
  BY <1>1 DEF Selectors
<1>4. Base(gdt[1]) = 0 /\ gdt[1].access = Access("code", 0)
  BY <1>1 DEF Descriptors, Flat
<1>5. ASSUME NEW v \in Vectors
      PROVE  LET code == gdt[(idt')[v].segment_selector.index]
             IN  /\ Base(code) + Offset((idt')[v]) = stub[v]
                 /\ code.access = Access("code", 0)
                 /\ (idt')[v].type_attributes = Access("interrupt", 0)
  <2>1. (idt')[v] = idt_set_gate(stub[v], Selector(1, 0), Access("interrupt", 0))
    BY SegmentsConstants DEF idt_init
  <2>2. stub[v] \in 0 .. DWORD - 1
    BY <1>1, StubAddresses
  <2>3. /\ Offset((idt')[v]) = stub[v]
        /\ (idt')[v].segment_selector = Selector(1, 0)
        /\ (idt')[v].type_attributes = Access("interrupt", 0)
    BY <2>1, <2>2, GateHoldsAddress
  <2>4. Selector(1, 0).index = 1
    BY DEF Selector
  <2>5. 0 + stub[v] = stub[v]
    BY <2>2, Sizes
  <2> QED
    BY <1>4, <2>3, <2>4, <2>5
<1>6. ASSUME NEW v \in AllVectors \ Vectors
      PROVE  (idt')[v].type_attributes = Absent
  BY DEF idt_init, idt_set_gate
<1>7. GatesLeadToStubs'
  BY <1>1, <1>5, <1>6, StubAddresses, Zenon DEF GatesLeadToStubs
<1> QED
  BY <1>1, <1>2, <1>3, <1>7 DEF SegmentsIInv

\* sti, and the two halves of enter_user_mode.
LEMMA LaterStages ==
  ASSUME SegmentsIInv, sti \/ enter_user_mode \/ iret
  PROVE  SegmentsIInv'
<1>1. /\ stage \in {"sti", "running", "iret"} /\ stage' \in {"running", "iret", "user"}
      /\ UNCHANGED <<stub, gdt, idt>> /\ stub \in Links /\ Descriptors
      /\ GatesLeadToStubs
  BY DEF sti, enter_user_mode, iret, SegmentsIInv
<1>2. Descriptors' /\ GatesLeadToStubs'
  BY <1>1 DEF Descriptors, GatesLeadToStubs, Ready
<1>3. CASE sti
  <2>1. Selectors(Selector(1, 0), Selector(2, 0), Selector(2, 0))'
    BY <1>3 DEF sti, SegmentsIInv, Selectors
  <2> QED
    BY <1>1, <1>2, <1>3, <2>1 DEF sti, SegmentsIInv
<1>4. CASE enter_user_mode
  <2>1. Selectors(Selector(1, 0), Selector(2, 0), Selector(4, 3))'
    BY <1>4 DEF enter_user_mode, SegmentsIInv, Selectors, DataRegisters
  <2> QED
    BY <1>1, <1>2, <1>4, <2>1 DEF enter_user_mode, SegmentsIInv
<1>5. CASE iret
  <2>1. Selectors(Selector(3, 3), Selector(4, 3), Selector(4, 3))'
    BY <1>5 DEF iret, SegmentsIInv, Selectors, DataRegisters
  <2> QED
    BY <1>1, <1>2, <1>5, <2>1 DEF iret, SegmentsIInv
<1> QED
  BY <1>3, <1>4, <1>5

\* What the devices and the handlers do leaves the tables alone.
LEMMA TablesUnchanged ==
  ASSUME SegmentsIInv, UNCHANGED segmentVars
  PROVE  SegmentsIInv'
BY DEF segmentVars, SegmentsIInv, Descriptors, Selectors, GatesLeadToStubs, Ready

\* Registers and descriptors agree at every stage.
LEMMA SelectorsAgree == ASSUME SegmentsIInv PROVE RegistersSelectFlatSegments
<1> SUFFICES ASSUME Loaded, NEW r \in DOMAIN segment
             PROVE  LET d == gdt[segment[r].index]
                    IN  /\ Flat(d)
                        /\ d.access.kind = IF r = "cs" THEN "code" ELSE "data"
                        /\ d.access.dpl >= Ring /\ segment[r].rpl <= d.access.dpl
                        /\ r \in {"cs", "ss"} => d.access.dpl = Ring /\ segment[r].rpl = Ring
  BY Zenon DEF RegistersSelectFlatSegments
<1>1. stage \in {"idt_init", "sti", "running", "iret", "user"} /\ Descriptors
  BY DEF Loaded, SegmentsIInv
<1>2. /\ \A i \in 1 .. 4 : Flat(gdt[i])
      /\ gdt[1].access = [kind |-> "code", dpl |-> 0]
      /\ gdt[2].access = [kind |-> "data", dpl |-> 0]
      /\ gdt[3].access = [kind |-> "code", dpl |-> 3]
      /\ gdt[4].access = [kind |-> "data", dpl |-> 3]
  BY <1>1 DEF Descriptors, Access
<1>3. CASE stage \in {"idt_init", "sti", "running"}
  BY <1>2, <1>3 DEF SegmentsIInv, Selectors, Selector, Ring, DataRegisters
<1>4. CASE stage = "iret"
  BY <1>2, <1>4 DEF SegmentsIInv, Selectors, Selector, Ring, DataRegisters
<1>5. CASE stage = "user"
  BY <1>2, <1>5 DEF SegmentsIInv, Selectors, Selector, Ring, DataRegisters
<1> QED
  BY <1>1, <1>3, <1>4, <1>5

\* The way through a gate leads to the vector's own stub, or nowhere.
LEMMA GateLeads ==
  ASSUME SegmentsIInv, Ready, NEW v \in AllVectors
  PROVE  Reached(v) = IF v \in Vectors THEN {v} ELSE {}
<1>1. DOMAIN stub = Vectors /\ \A u \in Vectors : stub[v] = stub[u] /\ v \in Vectors => v = u
  BY StubAddresses DEF SegmentsIInv
<1>2. Access("interrupt", 0) # Absent
  BY DEF Access, Absent
<1>3. CASE v \in Vectors
  <2>1. /\ Base(gdt[idt[v].segment_selector.index]) + Offset(idt[v]) = stub[v]
        /\ idt[v].type_attributes # Absent
    BY <1>1, <1>2, <1>3 DEF SegmentsIInv, GatesLeadToStubs
  <2> QED
    BY <1>1, <1>3, <2>1 DEF Reached
<1>4. CASE v \notin Vectors
  BY <1>1, <1>4 DEF SegmentsIInv, GatesLeadToStubs, Reached
<1> QED
  BY <1>3, <1>4

----------------------------------------------------------------------------
(* The stack *)

Words == {"main", "eip", "cs", "eflags", "register", "error", "vector"} \X Nat

\* Cutting a concatenation where it was joined.
LEMMA CutConcat ==
  ASSUME NEW S, NEW s \in Seq(S), NEW t \in Seq(S)
  PROVE  /\ SubSeq(s \o t, 1, Len(s)) = s
         /\ SubSeq(s \o t, Len(s) + 1, Len(s \o t)) = t
<1>1. /\ Len(s) \in Nat /\ Len(t) \in Nat
      /\ s \o t \in Seq(S) /\ Len(s \o t) = Len(s) + Len(t)
      /\ \A i \in 1 .. Len(s) + Len(t) :
           (s \o t)[i] = IF i <= Len(s) THEN s[i] ELSE t[i - Len(s)]
  BY ConcatProperties, LenProperties
<1>2. \A i \in 1 .. Len(s) + Len(t) : (s \o t)[i] \in S
  BY <1>1, ElementOfSeq
<1>3. SubSeq(s \o t, 1, Len(s)) = s
  <2>1. /\ SubSeq(s \o t, 1, Len(s)) \in Seq(S)
        /\ Len(SubSeq(s \o t, 1, Len(s))) = IF 1 <= Len(s) THEN Len(s) - 1 + 1 ELSE 0
        /\ \A i \in 1 .. Len(s) - 1 + 1 : SubSeq(s \o t, 1, Len(s))[i] = (s \o t)[1 + i - 1]
    BY <1>1, <1>2, SubSeqProperties
  <2>2. /\ Len(SubSeq(s \o t, 1, Len(s))) = Len(s)
        /\ \A i \in 1 .. Len(s) : SubSeq(s \o t, 1, Len(s))[i] = s[i]
    BY <1>1, <2>1
  <2> QED
    BY <2>1, <2>2, SeqEqual
<1>4. SubSeq(s \o t, Len(s) + 1, Len(s) + Len(t)) = t
  <2> DEFINE m == Len(s) + 1
             n == Len(s) + Len(t)
             u == SubSeq(s \o t, m, n)
  <2>1. /\ u \in Seq(S)
        /\ Len(u) = IF m <= n THEN n - m + 1 ELSE 0
        /\ \A i \in 1 .. n - m + 1 : u[i] = (s \o t)[m + i - 1]
    <3> DEFINE w == s \o t
    <3>1. w \in Seq(S) /\ Len(w) = n /\ m \in 1 .. n + 1 /\ n \in Nat
      BY <1>1
    <3>2. \A i \in m .. n : w[i] \in S
      BY <1>1, <1>2
    <3> HIDE DEF w, m, n
    <3>3. /\ SubSeq(w, m, n) \in Seq(S)
          /\ Len(SubSeq(w, m, n)) = IF m <= n THEN n - m + 1 ELSE 0
          /\ \A i \in 1 .. n - m + 1 : SubSeq(w, m, n)[i] = w[m + i - 1]
      BY <3>1, <3>2, SubSeqProperties
    <3> QED
      BY <3>3 DEF w
  <2> HIDE DEF u
  <2>2. n - m + 1 = Len(t) /\ (m <= n <=> Len(t) # 0)
    BY <1>1
  <2>3. ASSUME NEW i \in 1 .. Len(t) PROVE u[i] = t[i]
    <3>1. /\ m + i - 1 \in 1 .. Len(s) + Len(t) /\ ~(m + i - 1 <= Len(s))
          /\ m + i - 1 - Len(s) = i
      BY <1>1
    <3>2. i \in 1 .. n - m + 1
      BY <2>2
    <3>3. u[i] = (s \o t)[m + i - 1]
      BY <2>1, <3>2
    <3>4. (s \o t)[m + i - 1] = t[m + i - 1 - Len(s)]
      BY <1>1, <3>1
    <3> QED
      BY <3>1, <3>3, <3>4
  <2>4. Len(u) = Len(t)
    BY <1>1, <2>1, <2>2
  <2>5. u = t
    BY <2>1, <2>3, <2>4, SeqEqual
  <2> QED
    BY <2>5 DEF u
<1> QED
  BY <1>1, <1>3, <1>4

\* What the handler and the stub find in front of four words.
LEMMA FrameCut ==
  ASSUME NEW S, NEW top \in Seq(S), NEW low \in Seq(S), Len(low) = 4
  PROVE  /\ Len(top) \in {8, 9} => (top \o low)[8] = top[8]
         /\ Len(top) = 9 => /\ (top \o low)[9] = top[9]
                            /\ SubSeq(top \o low, 10, 12) = SubSeq(low, 1, 3)
                            /\ Drop(top \o low) = low
<1>1. \A i \in 1 .. Len(top) + Len(low) :
        (top \o low)[i] = IF i <= Len(top) THEN top[i] ELSE low[i - Len(top)]
  BY ConcatProperties
<1>2. Len(top) \in {8, 9} => (top \o low)[8] = top[8]
  BY <1>1
<1>3. ASSUME Len(top) = 9 PROVE (top \o low)[9] = top[9]
  <2>1. 9 \in 1 .. Len(top) + Len(low) /\ 9 <= Len(top)
    BY <1>3
  <2> QED
    BY <1>1, <2>1, Zenon
<1>4. ASSUME Len(top) = 9 PROVE SubSeq(top \o low, 10, 12) = SubSeq(low, 1, 3)
  <2>1. /\ 10 \in Len(top) + 1 .. Len(top) + Len(low)
        /\ 12 \in Len(top) + 1 .. Len(top) + Len(low)
    BY <1>4
  <2>2. 10 - Len(top) = 1 /\ 12 - Len(top) = 3
    BY <1>4
  <2>3. SubSeq(top \o low, 10, 12) = SubSeq(low, 10 - Len(top), 12 - Len(top))
    BY <2>1, SubSeqOfConcat2, Zenon
  <2> QED
    BY <2>2, <2>3
<1>5. ASSUME Len(top) = 9 PROVE Drop(top \o low) = low
  <2>1. SubSeq(top \o low, Len(top) + 1, Len(top \o low)) = low
    BY CutConcat, Zenon
  <2>2. Len(top) + 1 = 10
    BY <1>5
  <2> QED
    BY <2>1, <2>2 DEF Drop
<1> QED
  BY <1>2, <1>3, <1>4, <1>5

\* What the processor, the stub and the pushes put on the stack, word by word.
LEMMA FrameWords ==
  ASSUME NEW v \in Vectors, NEW s, s = Registers \o StubWords(v) \o (Return \o Main)
  PROVE  /\ s[8] = Word("vector", v)
         /\ v # 7 => /\ s[9] = Word("error", 0)
                     /\ SubSeq(s, 10, 12) = Return
                     /\ Drop(s) = Return \o Main
<1>1. Registers \in Seq(Words) /\ Len(Registers) = 7
  BY DEF Registers, Words, Word
<1>2. /\ Return \in Seq(Words) /\ Len(Return) = 3 /\ Main \in Seq(Words) /\ Len(Main) = 1
  BY DEF Return, Main, Words, Word
<1>3. /\ StubWords(v) \in Seq(Words) /\ StubWords(v)[1] = Word("vector", v)
      /\ Len(StubWords(v)) = IF v = 7 THEN 1 ELSE 2
      /\ v # 7 => StubWords(v)[2] = Word("error", 0)
  BY DEF StubWords, Words, Word, Vectors
<1> DEFINE top == Registers \o StubWords(v)
           low == Return \o Main
<1>4. /\ low \in Seq(Words) /\ Len(low) = 4 /\ \A i \in 1 .. 3 : low[i] = Return[i]
      /\ SubSeq(low, 1, 3) = Return
  <2>1. /\ low \in Seq(Words) /\ Len(low) = Len(Return) + Len(Main)
        /\ \A i \in 1 .. Len(Return) + Len(Main) : low[i] =
             IF i <= Len(Return) THEN Return[i] ELSE Main[i - Len(Return)]
    BY <1>2, ConcatProperties, Zenon
  <2>2. low \in Seq(Words) /\ Len(low) = 4 /\ \A i \in 1 .. 3 : low[i] = Return[i]
    BY <1>2, <2>1
  <2>3. SubSeq(low, 1, Len(Return)) = Return
    BY <1>2, CutConcat, Zenon
  <2> QED
    BY <1>2, <2>2, <2>3
<1>5. /\ top \in Seq(Words) /\ Len(top) = IF v = 7 THEN 8 ELSE 9
      /\ top[8] = Word("vector", v)
      /\ v # 7 => top[9] = Word("error", 0)
  <2>1. /\ top \in Seq(Words) /\ Len(top) = Len(Registers) + Len(StubWords(v))
        /\ \A i \in 1 .. Len(Registers) + Len(StubWords(v)) : top[i] =
             IF i <= Len(Registers) THEN Registers[i] ELSE StubWords(v)[i - Len(Registers)]
    BY <1>1, <1>3, ConcatProperties, Zenon
  <2>2. 8 - 7 = 1 /\ 9 - 7 = 2
    OBVIOUS
  <2> HIDE DEF top
  <2> QED
    BY <1>1, <1>3, <2>1, <2>2
<1> HIDE DEF top, low
<1>6. s = top \o low
  BY DEF top, low
<1>7. s[8] = top[8]
  BY <1>4, <1>5, <1>6, FrameCut
<1>8. ASSUME v # 7
      PROVE  s[9] = top[9] /\ SubSeq(s, 10, 12) = SubSeq(low, 1, 3) /\ Drop(s) = low
  <2>1. Len(top) = 9
    BY <1>5, <1>8
  <2>2. /\ (top \o low)[9] = top[9]
        /\ SubSeq(top \o low, 10, 12) = SubSeq(low, 1, 3)
        /\ Drop(top \o low) = low
    BY <1>4, <1>5, <2>1, FrameCut, Zenon
  <2> QED
    BY <1>6, <2>2, Zenon
<1> QED
  BY <1>4, <1>5, <1>7, <1>8 DEF low

\* iret finds its three words, and the main line's stack below them.
LEMMA FrameReturns ==
  /\ SubSeq(Return \o Main, 1, 3) = Return
  /\ SubSeq(Return \o Main, 4, Len(Return \o Main)) = Main
<1>1. /\ Return \in Seq(Words) /\ Len(Return) = 3 /\ Main \in Seq(Words)
  BY DEF Return, Main, Words, Word
<1>2. /\ SubSeq(Return \o Main, 1, Len(Return)) = Return
      /\ SubSeq(Return \o Main, Len(Return) + 1, Len(Return \o Main)) = Main
  BY <1>1, CutConcat, Zenon
<1>3. Len(Return) + 1 = 4
  BY <1>1
<1> QED
  BY <1>1, <1>2, <1>3

\* With a word less in front, the second of the four words comes first.
LEMMA ShortCut ==
  ASSUME NEW S, NEW top \in Seq(S), NEW low \in Seq(S), Len(top) = 8, Len(low) = 4
  PROVE  SubSeq(Drop(top \o low), 1, 3)[1] = low[2]
<1> DEFINE s == top \o low
           d == SubSeq(s, 10, Len(s))
<1>1. /\ s \in Seq(S) /\ Len(s) = Len(top) + Len(low)
      /\ \A i \in 1 .. Len(top) + Len(low) :
           s[i] = IF i <= Len(top) THEN top[i] ELSE low[i - Len(top)]
  BY ConcatProperties
<1> HIDE DEF s
<1>2. Len(s) = 12 /\ s[10] = low[2]
  <2>1. 10 \in 1 .. Len(top) + Len(low) /\ ~(10 <= Len(top)) /\ 10 - Len(top) = 2
    OBVIOUS
  <2>2. s[10] = low[10 - Len(top)]
    BY <1>1, <2>1, Zenon
  <2> QED
    BY <1>1, <2>1, <2>2
<1>3. d \in Seq(S) /\ Len(d) = 3 /\ d[1] = s[10]
  <2>1. ASSUME NEW i \in 10 .. Len(s) PROVE s[i] \in S
    <3>1. i \in 1 .. Len(s)
      BY <1>2
    <3> QED
      BY <1>1, <3>1, ElementOfSeq, Zenon
  <2>2. /\ d \in Seq(S)
        /\ Len(d) = IF 10 <= Len(s) THEN Len(s) - 10 + 1 ELSE 0
        /\ \A i \in 1 .. Len(s) - 10 + 1 : d[i] = s[10 + i - 1]
    BY <1>2, <2>1, SubSeqProperties
  <2> HIDE DEF d
  <2>3. 1 \in 1 .. Len(s) - 10 + 1 /\ 10 + 1 - 1 = 10
    BY <1>2
  <2>4. d[1] = s[10 + 1 - 1]
    BY <2>2, <2>3, Zenon
  <2> QED
    BY <1>2, <2>2, <2>3, <2>4
<1> HIDE DEF d
<1>4. SubSeq(d, 1, 3)[1] = d[1]
  <2>1. \A i \in 1 .. 3 : d[i] \in S
    BY <1>3, ElementOfSeq
  <2>2. \A i \in 1 .. 3 - 1 + 1 : SubSeq(d, 1, 3)[i] = d[1 + i - 1]
    BY <2>1, SubSeqProperties
  <2> QED
    BY <2>2
<1> QED
  BY <1>2, <1>3, <1>4 DEF Drop, d, s

\* In vector 7's frame, a word short, iret does not find its three words.
LEMMA ShortFrame ==
  ASSUME NEW s, s = Registers \o StubWords(7) \o (Return \o Main)
  PROVE  SubSeq(Drop(s), 1, 3) # Return
<1>1. /\ Registers \o StubWords(7) \in Seq(Words) /\ Len(Registers \o StubWords(7)) = 8
      /\ Return \o Main \in Seq(Words) /\ Len(Return \o Main) = 4
      /\ (Return \o Main)[2] = Return[2] /\ Return[1] # Return[2]
  <2>1. /\ Registers \in Seq(Words) /\ Len(Registers) = 7
        /\ StubWords(7) \in Seq(Words) /\ Len(StubWords(7)) = 1
        /\ Return \in Seq(Words) /\ Len(Return) = 3 /\ Return[1] # Return[2]
        /\ Main \in Seq(Words) /\ Len(Main) = 1
    BY DEF Registers, StubWords, Return, Main, Words, Word
  <2>2. /\ Registers \o StubWords(7) \in Seq(Words)
        /\ Len(Registers \o StubWords(7)) = Len(Registers) + Len(StubWords(7))
        /\ Return \o Main \in Seq(Words) /\ Len(Return \o Main) = Len(Return) + Len(Main)
        /\ \A i \in 1 .. Len(Return) + Len(Main) : (Return \o Main)[i] =
             IF i <= Len(Return) THEN Return[i] ELSE Main[i - Len(Return)]
    BY <2>1, ConcatProperties, Zenon
  <2>3. 2 \in 1 .. Len(Return) + Len(Main) /\ 2 <= Len(Return)
    BY <2>1
  <2>4. (Return \o Main)[2] = Return[2]
    BY <2>2, <2>3, Zenon
  <2>5. 7 + 1 = 8 /\ 3 + 1 = 4
    OBVIOUS
  <2> QED
    BY <2>1, <2>2, <2>4, <2>5, Zenon
<1>2. SubSeq(Drop((Registers \o StubWords(7)) \o (Return \o Main)), 1, 3)[1]
        = (Return \o Main)[2]
  BY <1>1, ShortCut
<1> QED
  BY <1>1, <1>2

----------------------------------------------------------------------------
(* The steps *)

\* The invariant's parts about what the processor executes and the devices ask.
ProgramIInv == StackIInv /\ ServiceIInv /\ KeysIInv

\* Initially nothing is asked for, and there are no tables.
LEMMA InitIInv == Init => IInv
<1> SUFFICES ASSUME Init PROVE IInv
  OBVIOUS
<1>1. SegmentsIInv
  BY DEF Init, SegmentsInit, SegmentsIInv, GatesLeadToStubs, Ready
<1>2. StackIInv
  BY DEF Init, StackIInv, InHandler, Main
<1>3. ServiceIInv /\ KeysIInv
  BY DEF Init, ServiceIInv, KeysIInv
<1> QED
  BY <1>1, <1>2, <1>3 DEF IInv

\* The main line's own steps touch neither the stack nor the keys; pic_config
\* forgets requests.
LEMMA MainLine == ASSUME IInv, kmain \/ EnterUserMode PROVE IInv'
<1>1. /\ pc = "main" /\ pc' = "main" /\ UNCHANGED <<keys, stack, vector, scancode>>
      /\ \/ irr' = {} /\ isr' = {}
         \/ UNCHANGED <<irr, isr>>
      /\ init_gdt \/ gdt_flush \/ idt_init \/ sti \/ iret \/ enter_user_mode
  BY DEF kmain, EnterUserMode, pic_config
<1>2. SegmentsIInv'
  BY <1>1, InitGdt, GdtFlush, IdtInit, LaterStages DEF IInv
<1>3. StackIInv'
  BY <1>1 DEF IInv, StackIInv, InHandler
<1>4. ServiceIInv' /\ KeysIInv'
  BY <1>1 DEF IInv, ServiceIInv, KeysIInv
<1> QED
  BY <1>2, <1>3, <1>4 DEF IInv

\* Entering: the vector's stub is next, above the frame of the interrupted code.
LEMMA EnterStub ==
  ASSUME IInv, NEW v \in AllVectors, v \in Served, Enter(v)
  PROVE  /\ SegmentsIInv' /\ StackIInv'
         /\ pc' = IF v \in Vectors THEN "stub" ELSE "reset"
         /\ vector' = v /\ isr = {} /\ UNCHANGED <<keys, scancode>>
<1>1. /\ pc = "main" /\ Ready /\ vector' = v /\ stack' = Return \o stack
      /\ pc' = IF Reached(v) # {} THEN "stub" ELSE "reset"
      /\ UNCHANGED segmentVars /\ UNCHANGED <<keys, scancode>>
  BY DEF Enter
<1>2. pc' = IF v \in Vectors THEN "stub" ELSE "reset"
  BY <1>1, GateLeads DEF IInv
<1>3. SegmentsIInv' /\ Ready'
  BY <1>1, TablesUnchanged DEF IInv, segmentVars, Ready
<1>4. stack' = Return \o Main /\ isr = {}
  BY <1>1 DEF IInv, StackIInv, ServiceIInv
<1>5. StackIInv'
  BY <1>1, <1>2, <1>3, <1>4 DEF StackIInv, InHandler
<1> QED
  BY <1>1, <1>2, <1>3, <1>4, <1>5

\* An interrupt: its line is in service, and for the keyboard's there is a key.
LEMMA InterruptStep ==
  ASSUME IInv, NEW line \in Lines \cup {KEYBOARD}, Interrupt(line)
  PROVE  IInv'
<1>1. line \in 0 .. 15 /\ 32 + line \in AllVectors /\ 32 + line \in Served
  BY SegmentsConstants, InterruptsConstants DEF KEYBOARD, Vectors, Served
<1>2. /\ line \in irr /\ Enter(32 + line) /\ irr' = irr \ {line}
      /\ isr' = isr \cup (IF line >= 8 THEN {line, CASCADE} ELSE {line})
  BY DEF Interrupt, Granted
<1>3. /\ SegmentsIInv' /\ StackIInv'
      /\ pc' = IF 32 + line \in Vectors THEN "stub" ELSE "reset"
      /\ vector' = 32 + line /\ isr = {} /\ UNCHANGED <<keys, scancode>>
  BY <1>1, <1>2, EnterStub
<1>4. ServiceIInv'
  <2>1. CASE 32 + line \in Vectors
    <3>1. line \in {0, 1} /\ ~(line >= 8)
      BY <1>1, <2>1 DEF Vectors
    <3>2. isr' = {line} /\ vector' - 32 = line
      BY <1>1, <1>2, <1>3, <3>1
    <3> QED
      BY <1>1, <1>3, <2>1, <3>2 DEF ServiceIInv
  <2>2. CASE 32 + line \notin Vectors
    BY <1>3, <2>2 DEF ServiceIInv
  <2> QED
    BY <2>1, <2>2
<1>5. KeysIInv'
  <2>1. vector' = 33 => line = KEYBOARD
    BY <1>1, <1>3 DEF KEYBOARD
  <2> QED
    BY <1>2, <1>3, <2>1 DEF IInv, KeysIInv
<1> QED
  BY <1>3, <1>4, <1>5 DEF IInv

\* An exception: nothing is in service.
LEMMA ExceptionStep ==
  ASSUME IInv, NEW v \in Exceptions, Exception(v)
  PROVE  IInv'
<1>1. v \in AllVectors /\ v \in 0 .. 31 /\ v \in Served
  BY InterruptsConstants DEF Served
<1>2. Enter(v) /\ UNCHANGED <<irr, isr>>
  BY DEF Exception
<1>3. /\ SegmentsIInv' /\ StackIInv'
      /\ pc' = IF v \in Vectors THEN "stub" ELSE "reset"
      /\ vector' = v /\ isr = {} /\ UNCHANGED <<keys, scancode>>
  BY <1>1, <1>2, EnterStub
<1>4. ServiceIInv'
  <2>1. {v - 32} \cap (0 .. 15) = {}
    BY <1>1
  <2> QED
    BY <1>2, <1>3, <2>1 DEF ServiceIInv
<1>5. KeysIInv'
  <2>1. v # 33
    BY <1>1
  <2> QED
    BY <1>2, <1>3, <2>1 DEF IInv, KeysIInv
<1> QED
  BY <1>3, <1>4, <1>5 DEF IInv

\* The stub that is reached is the vector's own.
LEMMA StubStep == ASSUME IInv, Stub PROVE IInv'
<1>1. /\ pc = "stub" /\ pc' = "interrupt_handler"
      /\ UNCHANGED segmentVars /\ UNCHANGED <<irr, isr, keys, vector, scancode>>
  BY DEF Stub
<1>2. Ready /\ vector \in Vectors /\ vector \in Served /\ stack = Return \o Main
  BY <1>1 DEF IInv, StackIInv
<1>3. Reached(vector) = {vector}
  BY <1>2, GateLeads, SegmentsConstants DEF IInv
<1>4. stack' = Registers \o StubWords(vector) \o (Return \o Main)
  BY <1>2, <1>3 DEF Stub
<1>5. SegmentsIInv' /\ Ready'
  BY <1>1, <1>2, TablesUnchanged DEF IInv, segmentVars, Ready
<1>6. StackIInv'
  BY <1>1, <1>2, <1>4, <1>5 DEF StackIInv, InHandler
<1>7. ServiceIInv' /\ KeysIInv'
  BY <1>1 DEF IInv, ServiceIInv, KeysIInv
<1> QED
  BY <1>5, <1>6, <1>7 DEF IInv

\* iret goes back to the main line, or, from vector 7, nowhere.
LEMMA ReturnStep ==
  ASSUME IInv, stub_return
  PROVE  /\ IInv'
         /\ vector # 7 => pc' = "main"
<1>1. /\ pc = "return"
      /\ stack' = SubSeq(Drop(stack), 4, Len(Drop(stack)))
      /\ pc' = IF SubSeq(Drop(stack), 1, 3) = Return THEN "main" ELSE "astray"
      /\ UNCHANGED segmentVars /\ UNCHANGED <<irr, isr, keys, vector, scancode>>
  BY DEF stub_return
<1>2. /\ Ready /\ vector \in Vectors /\ vector \in Served
      /\ stack = Registers \o StubWords(vector) \o (Return \o Main)
  BY <1>1 DEF IInv, StackIInv, InHandler
<1>3. vector # 7 => pc' = "main" /\ stack' = Main
  BY <1>1, <1>2, FrameWords, FrameReturns
<1>4. vector = 7 => pc' = "astray"
  BY <1>1, <1>2, ShortFrame
<1>5. SegmentsIInv' /\ Ready'
  BY <1>1, <1>2, TablesUnchanged DEF IInv, segmentVars, Ready
<1>6. StackIInv'
  BY <1>1, <1>2, <1>3, <1>4, <1>5 DEF StackIInv, InHandler
<1>7. ServiceIInv' /\ KeysIInv'
  BY <1>1, <1>3, <1>4 DEF IInv, ServiceIInv, KeysIInv
<1> QED
  BY <1>3, <1>5, <1>6, <1>7 DEF IInv

\* In the handler, the first parameter is the vector.
LEMMA FirstParameter ==
  ASSUME IInv, InHandler
  PROVE  interrupt = vector /\ vector \in Vectors
<1>1. vector \in Vectors /\ stack = Registers \o StubWords(vector) \o (Return \o Main)
  BY DEF IInv, StackIInv
<1>2. stack[8] = Word("vector", vector)
  BY <1>1, FrameWords
<1> QED
  BY <1>1, <1>2 DEF interrupt, Word

\* The port gives the first key of the queue; what is left asks again.
LEMMA ReadStep ==
  ASSUME IInv, interrupt_handler_read
  PROVE  /\ IInv'
         /\ pc = "interrupt_handler" /\ pc' = "key" /\ keys \in Seq(KeyCodes)
         /\ keys # <<>> /\ scancode' = Head(keys) /\ keys' = Tail(keys)
<1>1. /\ pc = "interrupt_handler" /\ pc' = "key" /\ IsKey /\ read_scan_code
      /\ UNCHANGED segmentVars /\ UNCHANGED <<isr, stack, vector>>
  BY DEF interrupt_handler_read
<1>2. Ready /\ interrupt = vector /\ InHandler
  BY <1>1, FirstParameter DEF InHandler, IInv, StackIInv
<1>3. vector = 33 /\ keys \in Seq(KeyCodes) /\ keys # <<>> /\ KEYBOARD \notin irr
  BY <1>1, <1>2 DEF IsKey, IInv, KeysIInv
<1>4. /\ scancode' = Head(keys) /\ keys' = Tail(keys)
      /\ irr' = IF keys' = <<>> THEN irr ELSE irr \cup {KEYBOARD}
  BY <1>1, <1>3 DEF read_scan_code
<1>5. Head(keys) \in KeyCodes /\ Tail(keys) \in Seq(KeyCodes)
  BY <1>3, HeadTailProperties
<1>6. SegmentsIInv' /\ Ready'
  BY <1>1, <1>2, TablesUnchanged DEF IInv, segmentVars, Ready
<1>7. StackIInv'
  BY <1>1, <1>2, <1>6 DEF IInv, StackIInv, InHandler
<1>8. ServiceIInv'
  BY <1>1 DEF IInv, ServiceIInv
<1>9. KeysIInv'
  BY <1>1, <1>3, <1>4, <1>5 DEF KeysIInv
<1> QED
  BY <1>1, <1>3, <1>4, <1>6, <1>7, <1>8, <1>9 DEF IInv

\* The handler's other steps up to the acknowledgement.
LEMMA HandlerStep ==
  ASSUME IInv, interrupt_handler_other \/ interrupt_handler_key
  PROVE  IInv'
<1>1. /\ pc \in {"interrupt_handler", "key"} /\ pc' = "pic_acknowledge"
      /\ UNCHANGED segmentVars /\ UNCHANGED <<irr, isr, keys, stack, vector>>
  BY DEF interrupt_handler_other, interrupt_handler_key
<1>2. SegmentsIInv' /\ Ready'
  BY <1>1, TablesUnchanged DEF IInv, StackIInv, segmentVars, Ready
<1>3. StackIInv'
  BY <1>1, <1>2 DEF IInv, StackIInv, InHandler
<1>4. ServiceIInv' /\ KeysIInv'
  BY <1>1 DEF IInv, ServiceIInv, KeysIInv
<1> QED
  BY <1>2, <1>3, <1>4 DEF IInv

\* The end of interrupt ends the line that is in service.
LEMMA AcknowledgeStep == ASSUME IInv, pic_acknowledge PROVE IInv'
<1>1. /\ pc = "pic_acknowledge" /\ pc' = "return"
      /\ isr' = CASE interrupt \notin OurVectors -> isr
                  [] interrupt \in OurVectors /\ interrupt < 40 -> EndOfInterrupt(0 .. 7)
                  [] interrupt \in OurVectors /\ interrupt >= 40 ->
                       EndOfInterrupt(0 .. 7) \cap EndOfInterrupt(8 .. 15)
      /\ UNCHANGED segmentVars /\ UNCHANGED <<irr, keys, stack, vector, scancode>>
  BY DEF pic_acknowledge
<1>2. interrupt = vector /\ vector \in Vectors
  BY <1>1, FirstParameter DEF InHandler
<1>3. isr = {vector - 32} \cap (0 .. 15)
  BY <1>1 DEF IInv, ServiceIInv
<1>4. isr' = {}
  <2>1. CASE vector \in {0, 1, 7}
    <3>1. interrupt \notin OurVectors /\ isr = {}
      BY <1>2, <1>3, <2>1 DEF OurVectors
    <3> QED
      BY <1>1, <3>1
  <2>2. CASE vector \in {32, 33}
    <3>1. interrupt \in OurVectors /\ interrupt < 40 /\ ~(interrupt >= 40)
      BY <1>2, <2>2 DEF OurVectors
    <3>2. isr' = EndOfInterrupt(0 .. 7)
      BY <1>1, <3>1
    <3> DEFINE line == vector - 32
    <3>3. line \in 0 .. 7 /\ line \in 0 .. 15 /\ line <= line
      BY <2>2
    <3> HIDE DEF line
    <3>4. isr = {line}
      BY <1>3, <3>3 DEF line
    <3>5. (0 .. 7) \cap isr = {line}
      BY <3>3, <3>4
    <3> QED
      BY <3>2, <3>3, <3>4, <3>5, Zenon DEF EndOfInterrupt
  <2> QED
    BY <1>2, <2>1, <2>2 DEF Vectors
<1>5. SegmentsIInv' /\ Ready'
  BY <1>1, TablesUnchanged DEF IInv, StackIInv, segmentVars, Ready
<1>6. StackIInv'
  BY <1>1, <1>5 DEF IInv, StackIInv, InHandler
<1>7. ServiceIInv' /\ KeysIInv'
  BY <1>1, <1>4 DEF IInv, ServiceIInv, KeysIInv
<1> QED
  BY <1>5, <1>6, <1>7 DEF IInv

\* A key that is pressed, and an edge of another device.
LEMMA DeviceStep ==
  ASSUME IInv, (\E code \in KeyCodes : Press(code)) \/ (\E line \in Lines : Edge(line))
  PROVE  IInv'
<1>1. UNCHANGED segmentVars /\ UNCHANGED <<isr, pc, stack, vector, scancode>>
  BY DEF Press, Edge
<1>2. SegmentsIInv' /\ (Ready <=> Ready')
  BY <1>1, TablesUnchanged DEF IInv, segmentVars, Ready
<1>3. StackIInv' /\ ServiceIInv'
  BY <1>1, <1>2 DEF IInv, StackIInv, ServiceIInv, InHandler
<1>4. ASSUME NEW code \in KeyCodes, Press(code) PROVE KeysIInv'
  <2>1. /\ keys' = Append(keys, code)
        /\ irr' = IF keys = <<>> THEN irr \cup {KEYBOARD} ELSE irr
    BY <1>4 DEF Press
  <2>2. keys' \in Seq(KeyCodes) /\ keys' # <<>>
    BY <2>1, AppendProperties DEF IInv, KeysIInv
  <2> QED
    BY <1>1, <2>1, <2>2 DEF IInv, KeysIInv
<1>5. ASSUME NEW line \in Lines, Edge(line) PROVE KeysIInv'
  <2>1. keys' = keys /\ irr' = irr \cup {line} /\ line # KEYBOARD
    BY <1>5, InterruptsConstants DEF Edge, KEYBOARD
  <2> QED
    BY <1>1, <2>1 DEF IInv, KeysIInv
<1> QED
  BY <1>2, <1>3, <1>4, <1>5 DEF IInv

\* Every step preserves the invariant.
LEMMA NextIInv == IInv /\ [Next]_vars => IInv'
<1> SUFFICES ASSUME IInv, [Next]_vars PROVE IInv'
  OBVIOUS
<1>1. CASE Run
  BY <1>1, MainLine, StubStep, ReturnStep, ReadStep, HandlerStep, AcknowledgeStep DEF Run
<1>2. CASE EnterUserMode
  BY <1>2, MainLine
<1>3. CASE \E line \in Lines \cup {KEYBOARD} : Interrupt(line)
  BY <1>3, InterruptStep
<1>4. CASE \E v \in Exceptions : Exception(v)
  BY <1>4, ExceptionStep
<1>5. CASE (\E code \in KeyCodes : Press(code)) \/ (\E line \in Lines : Edge(line))
  BY <1>5, DeviceStep
<1>6. CASE UNCHANGED vars
  <2>1. UNCHANGED segmentVars
    BY <1>6 DEF vars
  <2>2. SegmentsIInv' /\ (Ready <=> Ready')
    BY <2>1, TablesUnchanged DEF IInv, segmentVars, Ready
  <2> QED
    BY <1>6, <2>2 DEF vars, IInv, StackIInv, ServiceIInv, KeysIInv, InHandler
<1> QED
  BY <1>1, <1>2, <1>3, <1>4, <1>5, <1>6, Zenon DEF Next

----------------------------------------------------------------------------
(* The properties *)

\* The tables, the stack, the controllers and the keyboard's queue agree at
\* every step of every interrupt.
THEOREM Invariance == Spec => []IInv
  BY InitIInv, NextIInv, PTL DEF Spec

\* The selectors in gdt.s and user_mode.s fit the entries gdt.c makes, at every
\* stage and for every width of a nibble.
THEOREM SelectorsFitEntries == Spec => []RegistersSelectFlatSegments
<1>1. IInv => RegistersSelectFlatSegments
  BY SelectorsAgree DEF IInv
<1> QED
  BY <1>1, Invariance, PTL

\* Wherever the stubs are linked, the gates of idt_init lead to them.
THEOREM GatesFitStubs == Spec => []GatesLeadToStubs
<1>1. IInv => GatesLeadToStubs
  BY DEF IInv, SegmentsIInv
<1> QED
  BY <1>1, Invariance, PTL

\* pic_acknowledge ends the line in service and no other, whatever interrupts.
THEOREM NoLineIsSilenced == Spec => []Acknowledged
<1>1. IInv => Acknowledged
  BY DEF IInv, ServiceIInv, Acknowledged, InHandler
<1> QED
  BY <1>1, Invariance, PTL

\* The only way into nowhere is a vector without a gate, and the only way out of
\* the stubs other than back is vector 7's missing word.
THEOREM WhereItGoesWrong ==
  Spec => [](/\ pc = "reset" => vector \in Served \ Vectors
             /\ pc = "astray" => vector \in Served /\ vector = 7)
<1>1. IInv => /\ pc = "reset" => vector \in Served \ Vectors
              /\ pc = "astray" => vector \in Served /\ vector = 7
  BY DEF IInv, StackIInv
<1> QED
  BY <1>1, Invariance, PTL

\* If only vectors with gates interrupt, and vector 7 (a coprocessor that is not
\* there) does not, every interrupt returns to the code it interrupted.
THEOREM InterruptsReturn ==
  ASSUME Served \subseteq Vectors \ {7}
  PROVE  Spec => []ReturnsWhereItWas
<1>1. IInv => ReturnsWhereItWas
  BY DEF IInv, StackIInv, ReturnsWhereItWas
<1> QED
  BY <1>1, Invariance, PTL

\* interrupt_handler finds its parameters where its structures say, unless the
\* vector is 7, whose stub pushes no error code.
THEOREM ParametersFound ==
  ASSUME 7 \notin Exceptions
  PROVE  Spec => []ParametersInPlace
<1>1. 7 \notin Served
  <2>1. ASSUME NEW line \in Lines \cup {KEYBOARD} PROVE 32 + line # 7
    BY InterruptsConstants DEF KEYBOARD
  <2> QED
    BY <2>1 DEF Served
<1>2. ASSUME IInv, InHandler
      PROVE  /\ interrupt = vector /\ error_code = Word("error", 0)
             /\ SubSeq(stack, 10, 12) = Return
  <2>1. vector # 7 /\ vector \in Vectors
        /\ stack = Registers \o StubWords(vector) \o (Return \o Main)
    BY <1>1, <1>2 DEF IInv, StackIInv, InHandler
  <2>2. stack[9] = Word("error", 0) /\ SubSeq(stack, 10, 12) = Return
    BY <2>1, FrameWords
  <2> QED
    BY <1>2, <2>2, FirstParameter DEF error_code
<1>3. IInv => ParametersInPlace
  BY <1>2 DEF ParametersInPlace
<1> QED
  BY <1>3, Invariance, PTL

----------------------------------------------------------------------------
(* The keyboard's promise *)

\* A sequence is its head in front of its tail.
LEMMA HeadFirst ==
  ASSUME NEW S, NEW s \in Seq(S), s # <<>>
  PROVE  <<Head(s)>> \o Tail(s) = s
<1>1. /\ Head(s) \in S /\ Tail(s) \in Seq(S) /\ Len(Tail(s)) = Len(s) - 1
      /\ \A i \in 1 .. Len(Tail(s)) : Tail(s)[i] = s[i + 1]
  BY HeadTailProperties
<1>2. <<Head(s)>> \in Seq(S) /\ Len(<<Head(s)>>) = 1 /\ <<Head(s)>>[1] = s[1]
  BY <1>1
<1> QED
  BY <1>1, <1>2

\* What is put in front is taken first, and the rest is left.
LEMMA FrontIsHead ==
  ASSUME NEW S, NEW s \in Seq(S), NEW x \in S
  PROVE  /\ <<x>> \o s # <<>> /\ Head(<<x>> \o s) = x /\ Tail(<<x>> \o s) = s
<1>1. <<x>> \in Seq(S) /\ Len(<<x>>) = 1 /\ <<x>>[1] = x
  OBVIOUS
<1>2. <<x>> \o s \in Seq(S) /\ Len(<<x>> \o s) = 1 + Len(s)
      /\ (<<x>> \o s)[1] = x
      /\ \A i \in 1 .. Len(s) : (<<x>> \o s)[i + 1] = s[i]
  BY <1>1
<1>3. <<x>> \o s # <<>> /\ Head(<<x>> \o s) = x
  BY <1>2
<1>4. Tail(<<x>> \o s) = s
  BY <1>2, <1>3, HeadTailProperties
<1> QED
  BY <1>3, <1>4

\* The keys that are accepted: the one that is being looked at, then the queue.
Pending == (IF pc = "key" THEN <<scancode>> ELSE <<>>) \o keys

\* Outside interrupt_handler_key they are the queue.
LEMMA PendingIsQueue == ASSUME keys \in Seq(KeyCodes), pc # "key" PROVE Pending = keys
BY ConcatEmptySeq DEF Pending

\* A key that is pressed comes after all others.
LEMMA PressedIsLast ==
  ASSUME KeysIInv, NEW code \in KeyCodes, keys' = Append(keys, code),
         UNCHANGED <<pc, scancode>>
  PROVE  Pending' = Append(Pending, code)
<1> DEFINE front == IF pc = "key" THEN <<scancode>> ELSE <<>>
<1>1. front \in Seq(KeyCodes) /\ keys \in Seq(KeyCodes) /\ <<code>> \in Seq(KeyCodes)
  BY DEF KeysIInv
<1>2. Pending' = front \o keys' /\ Pending = front \o keys
  BY DEF Pending
<1> HIDE DEF front
<1>3. keys' = keys \o <<code>>
  BY <1>1, AppendIsConcat
<1>4. front \o (keys \o <<code>>) = (front \o keys) \o <<code>>
  BY <1>1, ConcatAssociative
<1>5. front \o keys \in Seq(KeyCodes)
  BY <1>1, ConcatProperties
<1>6. (front \o keys) \o <<code>> = Append(front \o keys, code)
  BY <1>5, AppendIsConcat
<1> QED
  BY <1>2, <1>3, <1>4, <1>6

\* The keys of the keyboard are shown once and in order, for any set of keys and
\* any size of its queue, whatever else interrupts.
THEOREM KeysStayInOrder == Spec => KeysInOrder
<1>1. Init => Pending = <<>> /\ shown = NoChar
  BY ConcatEmptySeq DEF Init, Pending
<1>2. Init => Stream!Init
  BY <1>1 DEF Stream!Init, Pending
<1>3. IInv /\ [Next]_vars => [Stream!Press \/ Stream!Show]_<<Pending, shown>>
  <2> SUFFICES ASSUME IInv, [Next]_vars
               PROVE  [Stream!Press \/ Stream!Show]_<<Pending, shown>>
    OBVIOUS
  <2>1. keys \in Seq(KeyCodes) /\ (pc = "key" => scancode \in KeyCodes) /\ KeysIInv
    BY DEF IInv, KeysIInv
  <2>2. CASE interrupt_handler_read
    <3>1. /\ pc = "interrupt_handler" /\ pc' = "key" /\ keys # <<>>
          /\ scancode' = Head(keys) /\ keys' = Tail(keys) /\ shown' = shown
      BY <2>2, ReadStep DEF interrupt_handler_read
    <3>2. Pending = keys
      BY <2>1, <3>1, PendingIsQueue
    <3>3. Pending' = <<Head(keys)>> \o Tail(keys)
      BY <3>1 DEF Pending
    <3> QED
      BY <2>1, <3>1, <3>2, <3>3, HeadFirst
  <2>3. CASE interrupt_handler_key
    <3>1. /\ pc = "key" /\ pc' # "key" /\ UNCHANGED <<keys, scancode>>
          /\ shown' = IF HasChar(scancode) THEN teclado_qwerty[scancode] ELSE shown
      BY <2>3 DEF interrupt_handler_key
    <3>2. Pending = <<scancode>> \o keys
      BY <3>1 DEF Pending
    <3>3. Pending # <<>> /\ Head(Pending) = scancode /\ Tail(Pending) = keys
      BY <2>1, <3>1, <3>2, FrontIsHead
    <3>4. Pending' = keys
      <4>1. Pending' = <<>> \o keys
        BY <3>1 DEF Pending
      <4> QED
        BY <2>1, <4>1, ConcatEmptySeq
    <3>5. Stream!Show
      BY <3>1, <3>3, <3>4 DEF Stream!Show, Pending
    <3> QED
      BY <3>5
  <2>4. ASSUME NEW code \in KeyCodes, Press(code) PROVE Stream!Press
    <3>1. keys' = Append(keys, code) /\ UNCHANGED <<pc, scancode, shown>>
      BY <2>4 DEF Press
    <3>2. Pending' = Append(Pending, code)
      BY <2>1, <3>1, PressedIsLast
    <3> QED
      BY <3>1, <3>2 DEF Stream!Press, Pending
  <2>5. ASSUME UNCHANGED <<keys, shown>>, pc # "key", pc' # "key"
        PROVE  UNCHANGED <<Pending, shown>>
    BY <2>5 DEF Pending
  <2>6. ASSUME UNCHANGED <<keys, shown, pc, scancode>>
        PROVE  UNCHANGED <<Pending, shown>>
    BY <2>6 DEF Pending
  <2>7. CASE kmain \/ EnterUserMode \/ Stub \/ stub_return \/ interrupt_handler_other
             \/ pic_acknowledge
    BY <2>5, <2>7 DEF kmain, EnterUserMode, Stub, stub_return, interrupt_handler_other,
       pic_acknowledge
  <2>8. CASE (\E line \in Lines \cup {KEYBOARD} : Interrupt(line))
             \/ (\E v \in Exceptions : Exception(v))
    BY <2>5, <2>8 DEF Interrupt, Exception, Enter
  <2>9. CASE (\E line \in Lines : Edge(line)) \/ UNCHANGED vars
    BY <2>6, <2>9 DEF Edge, vars
  <2> QED
    BY <2>2, <2>3, <2>4, <2>7, <2>8, <2>9, Zenon DEF Next, Run
<1> QED
  BY <1>2, <1>3, Invariance, PTL DEF Spec, KeysInOrder, Stream!Spec, Pending
============================================================================
