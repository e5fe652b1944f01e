------------------------------- MODULE Serial -------------------------------
(***************************************************************************)
(* The serial line: serial_init and serial_puts of kernel/include/serial.h,*)
(* write of kernel/write_override.c, and core/panic.c, which prints its    *)
(* report whatever was being printed.  The UART (external) holds one byte  *)
(* at a time and sends it when it likes.  The fields of `sr':              *)
(*   todo    what is left to print: sequences of characters, one per call  *)
(*   raw     the first of them goes through write, not serial_puts         *)
(*   step    the next port write of serial_init, 0 outside of it           *)
(*   dlab    the data port is the divisor latch                            *)
(*   latch   the divisor: "boot" before serial_init, 3 after it, or "bad"  *)
(*   thr     the byte in the UART, or none                                 *)
(*   asked   the bytes the calls so far stand for                          *)
(*   line    the bytes that went out                                       *)
(*   lost    bytes that were in the UART when serial_init cleared it       *)
(*   inits, calls   how often serial_init and the printers were called     *)
(*   report  the report of the panic, <<>> before one                      *)
(*   torn    the panic came in the middle of serial_init                   *)
(*   halted  the processor stands in the loop that ends panic              *)
(***************************************************************************)
EXTENDS Integers, Sequences

CONSTANTS
    Texts,     \* the strings that are printed
    Causes,    \* the strings of panic_cause_str
    MaxInits,  \* calls of serial_init: the kernel's and the shell's
    MaxCalls   \* calls of serial_puts and write before a panic

\* Strings of characters; a cause is never empty.
ASSUME SerialAssumption ==
    /\ \A t \in Texts : t \in Seq(STRING)
    /\ \A c \in Causes : c \in Seq(STRING) /\ c # <<>>
    /\ MaxInits \in Nat /\ MaxCalls \in Nat

VARIABLE sr

LF == "LF"
FF == "FF"

\* Whether serial_puts finds /n or /f at the i-th character.
IsEscape(text, i) == i \in 1 .. Len(text) - 1 /\ text[i] = "/" /\ text[i + 1] \in {"n", "f"}

\* What it writes for the characters from the i-th on.
Escape(text, i) ==
    IF IsEscape(text, i) THEN IF text[i + 1] = "n" THEN LF ELSE FF ELSE text[i]

\* The bytes a text stands for: the letter of an escape is not a byte.
Bytes(text) ==
    LET Byte(i) == CASE ~IsEscape(text, i) -> text[i]
                     [] IsEscape(text, i) /\ text[i + 1] = "n" -> LF
                     [] IsEscape(text, i) /\ text[i + 1] = "f" -> FF
        Of[i \in 0 .. Len(text)] ==
            IF i = 0 THEN <<>>
            ELSE IF IsEscape(text, i - 1) THEN Of[i - 1] ELSE Append(Of[i - 1], Byte(i))
    IN  Of[Len(text)]

\* The bytes of several texts, one after the other.
AllBytes(texts) ==
    LET Of[i \in 0 .. Len(texts)] == IF i = 0 THEN <<>> ELSE Of[i - 1] \o Bytes(texts[i])
    IN  Of[Len(texts)]

SrInit ==
    sr = [todo |-> <<>>, raw |-> FALSE, step |-> 0, dlab |-> FALSE, latch |-> "boot", thr |-> <<>>,
          asked |-> <<>>, line |-> <<>>, lost |-> 0, inits |-> 0, calls |-> 0, report |-> <<>>,
          torn |-> FALSE, halted |-> FALSE]

-----------------------------------------------------------------------------
(* The driver.                                                             *)

SrIdle == sr.todo = <<>> /\ sr.step = 0 /\ sr.report = <<>>

\* The port writes of serial_init, in order.
InitWrites == <<"IER", "DLAB", "DLL", "DLM", "LCR", "FCR", "MCR">>

StartInit ==
    /\ SrIdle /\ sr.inits < MaxInits
    /\ sr' = [sr EXCEPT !.step = 1, !.inits = @ + 1]

\* One of them.  FCR, written with 0xC7, empties the transmitter.
SerialInit ==
    /\ sr.step # 0
    /\ LET w == InitWrites[sr.step]
       IN  sr' = [sr EXCEPT
                !.step  = IF @ = Len(InitWrites) THEN 0 ELSE @ + 1,
                !.dlab  = CASE w = "DLAB" -> TRUE [] w = "LCR" -> FALSE [] OTHER -> @,
                !.latch = IF w = "DLL" THEN "3" ELSE @,
                !.lost  = IF w = "FCR" THEN @ + Len(sr.thr) ELSE @,
                !.asked = IF w = "FCR" /\ sr.thr # <<>> THEN SubSeq(@, 1, Len(@) - 1) ELSE @,
                !.thr   = IF w = "FCR" THEN <<>> ELSE @]

\* A call of serial_puts, or of write, which escapes nothing.
Call(text, raw) ==
    /\ SrIdle /\ sr.inits > 0 /\ sr.calls < MaxCalls
    /\ sr' = [sr EXCEPT !.todo = IF text = <<>> THEN <<>> ELSE <<text>>,
                        !.raw = raw,
                        !.calls = @ + 1,
                        !.asked = @ \o (IF raw THEN text ELSE Bytes(text))]

\* Mutant: the byte is written without looking at the line status.
Ready_Always == TRUE

\* serial_transmit_empty
Ready == sr.thr = <<>>

\* serial_write of the next character, at the end of its wait.
SerialWrite ==
    /\ sr.todo # <<>> /\ sr.step = 0 /\ Ready
    /\ LET text == Head(sr.todo)
           c    == IF sr.raw THEN text[1] ELSE Escape(text, 1)
           used == IF ~sr.raw /\ IsEscape(text, 1) THEN 2 ELSE 1
           rest == SubSeq(text, used + 1, Len(text))
       IN  sr' = [sr EXCEPT !.todo = IF rest = <<>> THEN Tail(@) ELSE <<rest>> \o Tail(@),
                            !.thr = IF sr.dlab THEN @ ELSE <<c>>,
                            !.latch = IF sr.dlab THEN "bad" ELSE @]

\* What panic prints, as the strings it gives to serial_puts: the banner, the
\* cause, extra if there is one, three lines of registers if they are known.
Report(cause, extra, regs) ==
    <<<<"/", "n", "PANIC", "/", "n">>, cause, <<"/", "n">>>>
    \o (IF extra = <<>> THEN <<>> ELSE <<<<"info">>, extra, <<"/", "n">>>>)
    \o (IF regs THEN [i \in 1 .. 3 |-> <<"regs", "/", "n">>] ELSE <<>>)
    \o <<<<"halted", "/", "n">>>>

\* panic(): interrupts off, so that what ran before never goes on.
Panic(cause, extra, regs) ==
    /\ sr.report = <<>> /\ sr.inits > 0
    /\ LET r == Report(cause, extra, regs)
       IN  sr' = [sr EXCEPT !.todo = r, !.raw = FALSE, !.torn = sr.step # 0, !.step = 0,
                            !.report = AllBytes(r), !.asked = <<>>]

\* for (;;) hlt
Halt ==
    /\ sr.report # <<>> /\ sr.todo = <<>> /\ ~sr.halted
    /\ sr' = [sr EXCEPT !.halted = TRUE]

\* The UART sends its byte.
UartSends ==
    /\ sr.thr # <<>>
    /\ sr' = [sr EXCEPT !.line = @ \o sr.thr, !.thr = <<>>]

Printer == SerialInit \/ SerialWrite \/ Halt

SrNext ==
    \/ StartInit \/ Printer \/ UartSends
    \/ \E t \in Texts, raw \in BOOLEAN : Call(t, raw)
    \/ \E c \in Causes, x \in Texts, regs \in BOOLEAN : Panic(c, x, regs)

-----------------------------------------------------------------------------
(* Properties.                                                             *)

\* Until a panic, everything the calls were asked to print is on the line, in
\* the UART or still to come, each byte once and in order, except that a second
\* serial_init may lose the one byte that is in the UART.
PrintsWhatIsAsked ==
    sr.report = <<>> =>
        /\ sr.line \o sr.thr \o (IF sr.todo = <<>> THEN <<>>
                                 ELSE IF sr.raw THEN sr.todo[1] ELSE Bytes(sr.todo[1])) = sr.asked
        /\ sr.lost < sr.inits \/ sr.lost = 0

\* A panic that halts has put its whole report on the line after whatever was
\* being printed, with at most the last byte still in the UART; unless it came
\* while serial_init had the divisor latch open.
ReportIsWhole ==
    sr.halted /\ ~sr.torn =>
        LET out == sr.line \o sr.thr
        IN  /\ Len(sr.report) <= Len(out)
            /\ SubSeq(out, Len(out) - Len(sr.report) + 1, Len(out)) = sr.report

\* Once it is set, no text ever runs into the divisor.
DivisorKept == ~sr.torn => sr.latch # "bad"

\* A panic comes to its halt.
PanicHalts == sr.report # <<>> ~> sr.halted
=============================================================================
