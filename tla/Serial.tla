------------------------------- MODULE Serial -------------------------------
(***************************************************************************)
(* The serial port, serial.c, down to the instructions out and in of io.s. *)
(* The device is a 16550: writes to its data port go to the divisor while  *)
(* DLAB is set, and the queue of the transmitter drains into the cable at  *)
(* its own pace, a byte at a time.                                         *)
(***************************************************************************)
EXTENDS Integers, Sequences

CONSTANTS
  FIFO,       \* bytes the transmitter's queue holds               (16)
  Messages,   \* the strings that are logged: sequences of bytes
  Prefix,     \* LOG_INFO, LOG_ERROR, LOG_DEBUG -> "[INFO] " and so on
  Levels,     \* the levels callers pass, known or not
  NewLine,
  NoByte

ASSUME SerialConstants ==
  /\ FIFO \in Nat \ {0}
  /\ Messages \subseteq Seq(Nat) /\ NewLine \in Nat
  /\ \A level \in DOMAIN Prefix : Prefix[level] \in Seq(Nat)

VARIABLES
  lcr,        \* line control register: DLAB and the format
  divisor,    \* <<low, high>>
  fifo_on,    \* the queue is enabled
  modem,      \* modem control register
  queue,      \* the transmitter's queue
  cable,      \* the byte that was sent last
  pc,         \* "configure", "idle", or the two instructions of the busy wait
  todo        \* what the running function has still to write

uart == <<lcr, divisor, fifo_on, modem, queue, cable>>
vars == <<uart, pc, todo>>

----------------------------------------------------------------------------
(* The device *)

\* With the queue off there is room for one byte.  A byte too many is lost.
Room == IF fifo_on THEN FIFO ELSE 1

out_data(byte) ==
  /\ IF lcr.dlab
     THEN divisor' = [divisor EXCEPT ![1] = byte] /\ UNCHANGED queue
     ELSE /\ queue' = IF Len(queue) < Room THEN Append(queue, byte) ELSE queue
          /\ UNCHANGED divisor
  /\ UNCHANGED <<lcr, fifo_on, modem, cable>>

out_line(byte) ==
  /\ lcr' = [dlab |-> byte >= 128, format |-> byte % 128]
  /\ UNCHANGED <<divisor, fifo_on, modem, queue, cable>>

out_fifo(byte) ==
  /\ fifo_on' = (byte % 2 = 1)
  /\ queue' = IF byte \div 4 % 2 = 1 THEN <<>> ELSE queue
  /\ UNCHANGED <<lcr, divisor, modem, cable>>

out_modem(byte) ==
  /\ modem' = byte
  /\ UNCHANGED <<lcr, divisor, fifo_on, queue, cable>>

outb(port, byte) ==
  CASE port = "data"  -> out_data(byte)
    [] port = "line"  -> out_line(byte)
    [] port = "fifo"  -> out_fifo(byte)
    [] port = "modem" -> out_modem(byte)

\* Bit 5 of the line status.
TransmitterEmpty == queue = <<>>

Transmit ==
  /\ queue # <<>>
  /\ cable' = Head(queue)
  /\ queue' = Tail(queue)
  /\ UNCHANGED <<lcr, divisor, fifo_on, modem, pc, todo>>

----------------------------------------------------------------------------
(* The driver *)

serial_configure ==
  << <<"line", 128>>, <<"data", 3>>, <<"data", 0>>, <<"line", 3>>,
     <<"fifo", 199>>, <<"modem", 11>> >>

\* Whoever used the port before, it is at rest.
Init ==
  /\ lcr \in [dlab : BOOLEAN, format : {0, 3}]
  /\ divisor \in {1, 12} \X {0, 1}
  /\ fifo_on \in BOOLEAN
  /\ modem = 0 /\ queue = <<>> /\ cable = NoByte
  /\ pc = "configure" /\ todo = serial_configure

Configure ==
  /\ pc = "configure"
  /\ outb(Head(todo)[1], Head(todo)[2])
  /\ todo' = Tail(todo)
  /\ pc' = IF todo' = <<>> THEN "idle" ELSE pc

\* An unknown level has no prefix.
Text(level, msg) ==
  (IF level \in DOMAIN Prefix THEN Prefix[level] ELSE <<>>) \o msg \o <<NewLine>>

log_message(level, msg) ==
  /\ pc = "idle"
  /\ todo' = Text(level, msg)
  /\ pc' = "wait"
  /\ UNCHANGED uart

\* Mutant: the byte is written without a look at the status.
serial_poll_not ==
  /\ pc = "wait"
  /\ pc' = "write"
  /\ UNCHANGED <<uart, todo>>

\* Mutant: a round of the loop ends it only if the queue holds something.
serial_poll_inverted ==
  /\ pc = "wait"
  /\ pc' = IF TransmitterEmpty THEN pc ELSE "write"
  /\ UNCHANGED <<uart, todo>>

\* One round of the busy wait.
serial_poll ==
  /\ pc = "wait"
  /\ pc' = IF TransmitterEmpty THEN "write" ELSE pc
  /\ UNCHANGED <<uart, todo>>

serial_write_char ==
  /\ pc = "write"
  /\ outb("data", Head(todo))
  /\ todo' = Tail(todo)
  /\ pc' = IF todo' = <<>> THEN "idle" ELSE "wait"

Run == Configure \/ serial_poll \/ serial_write_char

Next ==
  \/ Run
  \/ Transmit
  \/ \E level \in Levels, msg \in Messages : log_message(level, msg)

Spec == Init /\ [][Next]_vars

\* The processor goes on, and so does the clock of the port.
FairSpec == Spec /\ WF_vars(Run) /\ WF_vars(Transmit)

----------------------------------------------------------------------------
\* Each byte of each message goes out once and in order, also when the port
\* is slower than the kernel: the busy wait (serial.c:36-38) suffices.
Stream == INSTANCE LogStream WITH
  pending <- IF pc = "configure" THEN <<>> ELSE queue \o todo

LosesNothing == Stream!Spec

\* log_message returns, for all its waiting.
CallsReturn == pc # "idle" ~> pc = "idle"

\* "Divisor baixo = 3 (38400 baud rate)", "Divisor alto = 0" (serial.c:17-18).
RateAsDocumented == pc # "configure" => divisor = <<3, 0>>
============================================================================
