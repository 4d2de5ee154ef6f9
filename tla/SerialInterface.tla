--------------------------- MODULE SerialInterface ---------------------------
(***************************************************************************)
(* SerialInterface: framing of the bytes of a serial port into lines.  One *)
(* thread calls read_line() over and over, another one opens and closes    *)
(* the port, as EasyNmeaImpl does: it opens it only when no read_line() is *)
(* in progress, and may close it at any time.  EasyNmeaImpl models the     *)
(* threads around the port; here a read in flight is one character.        *)
(***************************************************************************)
EXTENDS Naturals, Sequences, SequencesExt

CONSTANTS
    Chars,      \* what a device may send besides the two line terminators
    CR, LF,
    MaxChars    \* bound: characters the device sends while a port is open

ASSUME CharsAssumption == CR # LF /\ {CR, LF} \cap Chars = {} /\ MaxChars \in Nat

VARIABLES
    serial_open,  \* serial_->is_open()
    step,         \* "call" outside read_line(), else where it is
    result,       \* the string read_line() fills
    session,      \* every character read since the port was last opened
    lines,        \* the lines read_line() returned true for since then
    dropped       \* whether the line being read was given up

vars == <<serial_open, step, result, session, lines, dropped>>

TypeOK ==
    /\ serial_open \in BOOLEAN /\ dropped \in BOOLEAN
    /\ step \in {"call", "read_char", "run"}
    /\ result \in Seq(Chars) /\ lines \in Seq(Seq(Chars))
    /\ session \in Seq(Chars \cup {CR, LF})

Init ==
    /\ serial_open = FALSE /\ step = "call" /\ dropped = FALSE
    /\ result = <<>> /\ session = <<>> /\ lines = <<>>

\* open(): a port whose baudrate is refused stays open all the same.
Open ==
    /\ ~serial_open /\ step = "call"
    /\ serial_open' = TRUE
    /\ session' = <<>> /\ lines' = <<>> /\ dropped' = FALSE
    /\ UNCHANGED <<step, result>>

\* close(), from the thread that does not read.
Close ==
    /\ serial_open /\ serial_open' = FALSE
    /\ UNCHANGED <<step, result, session, lines, dropped>>

-----------------------------------------------------------------------------
(* read_line() *)

ReadLineKeeps ==
    /\ step = "call" /\ ~dropped /\ serial_open
    /\ step' = "read_char"
    /\ UNCHANGED <<serial_open, result, session, lines, dropped>>

\* It returns at once when the port is closed, which changes nothing.  Its
\* caller ends its routine after a false.
ReadLine ==
    /\ step = "call" /\ ~dropped /\ serial_open
    /\ result' = <<>> /\ step' = "read_char"
    /\ UNCHANGED <<serial_open, session, lines, dropped>>

GiveUp == step' = "call" /\ dropped' = TRUE /\ UNCHANGED <<result, session, lines>>

\* read_char() starts an asynchronous read: a closed port fails it with an
\* error other than operation_aborted, and read_line() closes the port.
StartRead ==
    /\ step = "read_char"
    /\ \/ serial_open /\ step' = "run" /\ UNCHANGED <<result, session, lines, dropped>>
       \/ ~serial_open /\ GiveUp
    /\ UNCHANGED serial_open

ReadCharKeepsCR(c) ==
    /\ step = "run" /\ Len(session) < MaxChars
    /\ session' = Append(session, c)
    /\ \/ c = LF /\ step' = "call" /\ lines' = Append(lines, result) /\ UNCHANGED result
       \/ c # LF /\ step' = "read_char" /\ result' = Append(result, c) /\ UNCHANGED lines
    /\ UNCHANGED <<serial_open, dropped>>

\* A character comes: the carriage return is left out wherever it is.
ReadChar(c) ==
    /\ step = "run" /\ Len(session) < MaxChars
    /\ session' = Append(session, c)
    /\ \/ c = CR /\ step' = "read_char" /\ UNCHANGED <<result, lines>>
       \/ c = LF /\ step' = "call" /\ lines' = Append(lines, result) /\ UNCHANGED result
       \/ /\ c \notin {CR, LF}
          /\ step' = "read_char" /\ result' = Append(result, c) /\ UNCHANGED lines
    /\ UNCHANGED <<serial_open, dropped>>

\* Closing the port aborts the read; any other error closes the port.
ReadFails ==
    /\ step = "run" /\ GiveUp
    /\ serial_open' = FALSE

Next ==
    \/ Open \/ Close \/ ReadLine \/ StartRead \/ ReadFails
    \/ \E c \in Chars \cup {CR, LF} : ReadChar(c)

Spec == Init /\ [][Next]_vars

-----------------------------------------------------------------------------
(* Properties *)

\* The lines delivered and the one being read, put together again, are what
\* the device sent since the port was opened but for the carriage returns:
\* no character is lost, repeated or carried over from a line, or a session,
\* to the next, whenever the port is closed (SerialInterface.hpp:138-175).
KeptOf(c) == IF c = CR THEN <<>> ELSE <<c>>
Sent == FlattenSeq([i \in DOMAIN session |-> KeptOf(session[i])])
Delivered == FlattenSeq([i \in DOMAIN lines |-> Append(lines[i], LF)])
Pending == IF step = "call" /\ ~dropped THEN <<>> ELSE result
LinesAreTheStream == Delivered \o Pending = Sent
==============================================================================
