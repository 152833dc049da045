---------------------------- MODULE SerialProofs ----------------------------
(***************************************************************************)
(* The serial port loses nothing, for every length of its queue and of the *)
(* messages, and however slow the cable is.                                *)
(***************************************************************************)
EXTENDS Serial, SequenceTheorems, TLAPS

----------------------------------------------------------------------------
(* Sequences *)

\* A sequence is its head and its tail.
LEMMA HeadThenTail ==
  ASSUME NEW S, NEW s \in Seq(S), s # <<>>
  PROVE  Append(<<>>, Head(s)) \o Tail(s) = s
<1>1. /\ Head(s) \in S /\ Tail(s) \in Seq(S) /\ Len(Tail(s)) = Len(s) - 1
      /\ \A i \in 1 .. Len(Tail(s)) : Tail(s)[i] = s[i + 1]
  BY HeadTailProperties
<1>2. Append(<<>>, Head(s)) \in Seq(S) /\ Len(Append(<<>>, Head(s))) = 1
        /\ Append(<<>>, Head(s))[1] = s[1]
  BY <1>1
<1> QED
  BY <1>1, <1>2

\* Head and tail of a concatenation are those of its first part.
LEMMA HeadOfConcat ==
  ASSUME NEW S, NEW s \in Seq(S), NEW t \in Seq(S), s # <<>>
  PROVE  /\ s \o t # <<>>
         /\ Head(s \o t) = Head(s)
         /\ Tail(s \o t) = Tail(s) \o t
<1>1. s \o t \in Seq(S) /\ s \o t # <<>> /\ Len(s) >= 1
  BY ConcatSimplifications
<1>2. Head(s \o t) = Head(s)
  BY <1>1
<1>3. /\ Tail(s) \in Seq(S) /\ Len(Tail(s)) = Len(s) - 1
      /\ \A i \in 1 .. Len(Tail(s)) : Tail(s)[i] = s[i + 1]
  BY HeadTailProperties
<1>4. /\ Tail(s \o t) \in Seq(S) /\ Len(Tail(s \o t)) = Len(s \o t) - 1
      /\ \A i \in 1 .. Len(Tail(s \o t)) : Tail(s \o t)[i] = (s \o t)[i + 1]
  BY <1>1, HeadTailProperties
<1>5. Tail(s \o t) = Tail(s) \o t
  BY <1>3, <1>4
<1> QED
  BY <1>1, <1>2, <1>5

----------------------------------------------------------------------------
(* The invariant *)

\* DLAB is set while the divisor is written, and at no other time from the fourth
\* write of serial_configure on; the k-th write is next.
Configuring(k) ==
  /\ todo = SubSeq(serial_configure, k, 6)
  /\ k \in 2 .. 4 => lcr.dlab
  /\ k \in 5 .. 6 => ~lcr.dlab

\* The driver writes a byte only into an empty queue, past the divisor.
IInv ==
  /\ pc \in {"configure", "idle", "wait", "write"}
  /\ queue \in Seq(Nat)
  /\ pc = "configure" => queue = <<>> /\ \E k \in 1 .. 6 : Configuring(k)
  /\ pc # "configure" => todo \in Seq(Nat) /\ ~lcr.dlab
  /\ pc = "idle" => todo = <<>>
  /\ pc \in {"wait", "write"} => todo # <<>>
  /\ pc = "write" => queue = <<>>

\* The six writes, and what is left of them.
LEMMA Writes ==
  ASSUME NEW k \in 1 .. 6
  PROVE  LET rest == SubSeq(serial_configure, k, 6)
         IN  /\ Head(rest) = serial_configure[k]
             /\ Tail(rest) = SubSeq(serial_configure, k + 1, 6)
             /\ Tail(rest) = <<>> <=> k = 6
<1> DEFINE S == {"line", "data", "fifo", "modem"} \X Nat
<1>1. serial_configure \in Seq(S) /\ Len(serial_configure) = 6
  BY DEF serial_configure
<1> HIDE DEF S
<1>2. /\ Head(SubSeq(serial_configure, k, 6)) = serial_configure[k]
      /\ Tail(SubSeq(serial_configure, k, 6)) = SubSeq(serial_configure, k + 1, 6)
  BY <1>1, HeadTailOfSubSeq
<1>3. CASE k = 6
  <2>1. SubSeq(serial_configure, k + 1, 6) = <<>>
    BY <1>3, SubSeqEmpty
  <2> QED
    BY <1>2, <1>3, <2>1
<1>4. CASE k # 6
  <2>1. \A i \in k + 1 .. 6 : serial_configure[i] \in S
    <3> SUFFICES ASSUME NEW i \in k + 1 .. 6 PROVE serial_configure[i] \in S
      OBVIOUS
    <3>1. i \in 1 .. Len(serial_configure)
      BY <1>1
    <3> QED
      BY <1>1, <3>1, ElementOfSeq
  <2>2. Len(SubSeq(serial_configure, k + 1, 6)) = 6 - (k + 1) + 1
    BY <1>4, <2>1, SubSeqProperties
  <2>3. SubSeq(serial_configure, k + 1, 6) # <<>>
    <3>1. 6 - (k + 1) + 1 # 0
      BY <1>4
    <3>2. Len(SubSeq(serial_configure, k + 1, 6)) # 0
      BY <2>2, <3>1
    <3>3. Len(<<>>) = 0
      OBVIOUS
    <3> QED
      BY <3>2, <3>3, Zenon
  <2> QED
    BY <1>2, <1>4, <2>3
<1> QED
  BY <1>3, <1>4

\* The text of a message is never empty.
LEMMA TextIsBytes ==
  ASSUME NEW level \in Levels, NEW msg \in Messages
  PROVE  Text(level, msg) \in Seq(Nat) /\ Text(level, msg) # <<>>
<1> DEFINE prefix == IF level \in DOMAIN Prefix THEN Prefix[level] ELSE <<>>
           start == prefix \o msg
<1>1. prefix \in Seq(Nat) /\ msg \in Seq(Nat) /\ <<NewLine>> \in Seq(Nat)
  BY SerialConstants
<1> HIDE DEF prefix
<1>2. start \in Seq(Nat)
  BY <1>1
<1> HIDE DEF start
<1>3. start \o <<NewLine>> \in Seq(Nat) /\ start \o <<NewLine>> # <<>>
  BY <1>1, <1>2
<1> QED
  BY <1>3 DEF Text, start, prefix

\* Bit 7 of the line control register is DLAB.
LEMMA DlabSet ==
  ASSUME NEW byte \in Nat, out_line(byte)
  PROVE  lcr'.dlab <=> byte >= 128
<1>1. lcr' = [dlab |-> byte >= 128, format |-> byte % 128]
  BY DEF out_line
<1>2. lcr'.dlab = (byte >= 128)
  BY <1>1, Zenon
<1> QED
  BY <1>2, Zenon

\* The port is at rest when serial_configure starts.
LEMMA InitIInv == Init => IInv
<1> SUFFICES ASSUME Init PROVE IInv
  OBVIOUS
<1>1. pc = "configure" /\ queue = <<>> /\ todo = serial_configure
  BY DEF Init
<1>2. serial_configure = SubSeq(serial_configure, 1, 6)
  BY DEF serial_configure
<1>3. Configuring(1)
  BY <1>1, <1>2 DEF Configuring
<1> QED
  BY <1>1, <1>3 DEF IInv

\* A write of serial_configure: the queue stays empty, and the last write leaves
\* DLAB clear.
LEMMA ConfigureIInv ==
  ASSUME IInv, Configure
  PROVE  /\ IInv' /\ pc = "configure" /\ cable' = cable
         /\ queue' = <<>> /\ (pc' # "configure" => todo' = <<>>)
<1>1. pc = "configure" /\ queue = <<>>
  BY DEF Configure, IInv
<1>2. PICK k \in 1 .. 6 : Configuring(k)
  BY <1>1 DEF IInv
<1>3. /\ Head(todo) = serial_configure[k]
      /\ todo' = SubSeq(serial_configure, k + 1, 6)
      /\ todo' = <<>> <=> k = 6
  BY <1>2, Writes DEF Configuring, Configure
<1>4. pc' = IF k = 6 THEN "idle" ELSE "configure"
  BY <1>1, <1>3 DEF Configure
<1>5. outb(serial_configure[k][1], serial_configure[k][2])
  BY <1>3 DEF Configure
<1>6. /\ queue' = <<>> /\ cable' = cable
      /\ k + 1 \in 2 .. 4 => lcr'.dlab
      /\ k + 1 \in 5 .. 7 => ~lcr'.dlab
  <2>1. CASE k = 1
    <3>1. out_line(128)
      BY <1>5, <2>1 DEF outb, serial_configure
    <3>2. lcr'.dlab
      BY <3>1, DlabSet
    <3> QED
      BY <1>1, <2>1, <3>1, <3>2 DEF out_line
  <2>2. CASE k \in {2, 3}
    <3>1. PICK byte \in {0, 3} : out_data(byte)
      <4>1. CASE k = 2
        BY <1>5, <4>1 DEF outb, serial_configure
      <4>2. CASE k = 3
        BY <1>5, <4>2 DEF outb, serial_configure
      <4> QED
        BY <2>2, <4>1, <4>2
    <3>2. lcr.dlab
      BY <1>2, <2>2 DEF Configuring
    <3> QED
      BY <1>1, <2>2, <3>1, <3>2 DEF out_data
  <2>3. CASE k = 4
    <3>1. out_line(3)
      BY <1>5, <2>3 DEF outb, serial_configure
    <3>2. ~lcr'.dlab
      BY <3>1, DlabSet
    <3> QED
      BY <1>1, <2>3, <3>1, <3>2 DEF out_line
  <2>4. CASE k = 5
    <3>1. out_fifo(199)
      BY <1>5, <2>4 DEF outb, serial_configure
    <3> QED
      BY <1>1, <1>2, <2>4, <3>1 DEF out_fifo, Configuring
  <2>5. CASE k = 6
    <3>1. out_modem(11)
      BY <1>5, <2>5 DEF outb, serial_configure
    <3> QED
      BY <1>1, <1>2, <2>5, <3>1 DEF out_modem, Configuring
  <2> QED
    BY <2>1, <2>2, <2>3, <2>4, <2>5
<1>7. CASE k = 6
  BY <1>1, <1>3, <1>4, <1>6, <1>7 DEF IInv
<1>8. CASE k # 6
  <2>1. k + 1 \in 1 .. 6 /\ Configuring(k + 1)'
    BY <1>3, <1>6, <1>8 DEF Configuring
  <2> QED
    BY <1>1, <1>3, <1>4, <1>6, <1>8, <2>1 DEF IInv
<1> QED
  BY <1>7, <1>8

\* The write of a byte: the queue was empty, so it has room.
LEMMA WriteIInv ==
  ASSUME IInv, serial_write_char
  PROVE  /\ IInv' /\ pc = "write" /\ pc' # "configure" /\ cable' = cable
         /\ queue' \o todo' = queue \o todo
<1>1. /\ pc = "write" /\ queue = <<>> /\ todo # <<>> /\ todo \in Seq(Nat)
      /\ ~lcr.dlab
  BY DEF serial_write_char, IInv
<1>2. /\ todo' = Tail(todo) /\ pc' = (IF todo' = <<>> THEN "idle" ELSE "wait")
      /\ out_data(Head(todo))
  BY DEF serial_write_char, outb
<1>3. Room \in Nat /\ Room > 0 /\ Len(queue) = 0
  BY <1>1, SerialConstants DEF Room
<1>4. /\ queue' = Append(<<>>, Head(todo)) /\ UNCHANGED <<lcr, cable>>
  BY <1>1, <1>2, <1>3 DEF out_data
<1>5. Head(todo) \in Nat /\ Tail(todo) \in Seq(Nat)
  BY <1>1, HeadTailProperties
<1>6. queue' \in Seq(Nat)
  BY <1>4, <1>5
<1>7. queue' \o todo' = queue \o todo
  <2>1. queue' \o todo' = todo
    BY <1>1, <1>2, <1>4, HeadThenTail
  <2>2. queue \o todo = todo
    BY <1>1, ConcatEmptySeq
  <2> QED
    BY <2>1, <2>2
<1> QED
  BY <1>1, <1>2, <1>4, <1>5, <1>6, <1>7 DEF IInv

\* The cable takes the queue's first byte.
LEMMA TransmitIInv ==
  ASSUME IInv, Transmit
  PROVE  /\ IInv' /\ pc # "configure" /\ pc' = pc
         /\ queue \o todo # <<>>
         /\ cable' = Head(queue \o todo)
         /\ queue' \o todo' = Tail(queue \o todo)
<1>1. /\ queue # <<>> /\ queue \in Seq(Nat) /\ cable' = Head(queue)
      /\ queue' = Tail(queue) /\ UNCHANGED <<lcr, pc, todo>>
  BY DEF Transmit, IInv
<1>2. pc \in {"idle", "wait"} /\ todo \in Seq(Nat)
  BY <1>1 DEF IInv
<1>3. queue' \in Seq(Nat)
  BY <1>1, HeadTailProperties
<1>4. IInv'
  BY <1>1, <1>2, <1>3 DEF IInv
<1> QED
  BY <1>1, <1>2, <1>4, HeadOfConcat

\* A look at the status, or a call of log_message.
LEMMA PollIInv == ASSUME IInv, serial_poll PROVE IInv' /\ pc = "wait" /\ pc' # "configure"
BY DEF IInv, serial_poll, TransmitterEmpty, uart

\* log_message starts when the one before has written its last byte.
LEMMA LogIInv ==
  ASSUME IInv, NEW level \in Levels, NEW msg \in Messages, log_message(level, msg)
  PROVE  /\ IInv' /\ pc = "idle" /\ pc' = "wait"
         /\ queue' \o todo' = (queue \o todo) \o Text(level, msg)
<1>1. /\ pc = "idle" /\ pc' = "wait" /\ todo' = Text(level, msg)
      /\ UNCHANGED <<queue, lcr, cable>>
  BY DEF log_message, uart
<1>2. todo = <<>> /\ queue \in Seq(Nat) /\ ~lcr.dlab
  BY <1>1 DEF IInv
<1>3. queue \o todo = queue
  BY <1>2, ConcatEmptySeq
<1> QED
  BY <1>1, <1>2, <1>3, TextIsBytes DEF IInv

\* Every step of driver and device keeps the invariant.
LEMMA StepIInv == IInv /\ [Next]_vars => IInv'
<1> SUFFICES ASSUME IInv, [Next]_vars PROVE IInv'
  OBVIOUS
<1>1. CASE UNCHANGED vars
  BY <1>1 DEF vars, uart, IInv, Configuring
<1> QED
  BY <1>1, ConfigureIInv, WriteIInv, TransmitIInv, PollIInv, LogIInv DEF Next, Run

\* The driver writes into an empty queue and past the divisor, always.
THEOREM Invariance == Spec => []IInv
  BY InitIInv, StepIInv, PTL DEF Spec

\* Each byte of each message goes out once and in order (serial.c:32-52).
THEOREM NoByteIsLost == Spec => LosesNothing
<1> DEFINE pending == IF pc = "configure" THEN <<>> ELSE queue \o todo
<1>1. Init => Stream!Init
  BY DEF Init, Stream!Init
<1>2. IInv /\ [Next]_vars => [Stream!Log \/ Stream!Emit]_<<pending, cable>>
  <2> SUFFICES ASSUME IInv, [Next]_vars
               PROVE  [Stream!Log \/ Stream!Emit]_<<pending, cable>>
    OBVIOUS
  <2>1. CASE Configure
    <3>1. pc = "configure" /\ cable' = cable /\ queue' = <<>>
            /\ (pc' # "configure" => todo' = <<>>)
      BY <2>1, ConfigureIInv
    <3>2. <<>> \o <<>> = <<>>
      BY ConcatEmptySeq
    <3> QED
      BY <3>1, <3>2
  <2>2. CASE serial_write_char
    BY <2>2, WriteIInv
  <2>3. CASE serial_poll
    BY <2>3, PollIInv DEF serial_poll, uart
  <2>4. CASE Transmit
    <3>1. /\ pc # "configure" /\ pc' = pc
          /\ queue \o todo # <<>>
          /\ cable' = Head(queue \o todo)
          /\ queue' \o todo' = Tail(queue \o todo)
      BY <2>4, TransmitIInv
    <3> QED
      BY <3>1 DEF Stream!Emit
  <2>5. ASSUME NEW level \in Levels, NEW msg \in Messages, log_message(level, msg)
        PROVE  Stream!Log
    <3>1. /\ pc = "idle" /\ pc' = "wait" /\ cable' = cable
          /\ queue' \o todo' = (queue \o todo) \o Text(level, msg)
      BY <2>5, LogIInv DEF log_message, uart
    <3> QED
      BY <3>1 DEF Stream!Log
  <2>6. CASE UNCHANGED vars
    BY <2>6 DEF vars, uart
  <2> QED
    BY <2>1, <2>2, <2>3, <2>4, <2>5, <2>6 DEF Next, Run
<1> QED
  BY <1>1, <1>2, Invariance, PTL DEF Spec, LosesNothing, Stream!Spec
============================================================================
