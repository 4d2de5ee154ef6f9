------------------------------ MODULE NmeaLink ------------------------------
(***************************************************************************)
(* From a device to the samples: a device sends sentences over a wire that *)
(* may damage each of them once, SerialInterface cuts what arrives into    *)
(* lines, and decode() accepts those of the right form and checksum.  The  *)
(* read thread decodes a line before it reads the next one; the port may   *)
(* be closed at any time, and opened in the middle of a sentence.          *)
(*                                                                         *)
(* The device and the wire are external: they stand for any source of      *)
(* well-formed sentences with at most one character of each replaced or    *)
(* lost, the noise that the checksum of NMEA 0183 is meant for.            *)
(***************************************************************************)
EXTENDS SerialInterface, NmeaChecksum

CONSTANTS
    Bodies,        \* what the device has to say
    MaxSentences   \* bound: sentences sent while the port is open

ASSUME DeviceAssumption ==
    /\ Chars = BodyChars \cup {Dollar, Star}
    /\ \A text \in Bodies : text \in Seq(BodyChars) /\ text # <<>> /\ text[1] \in IdChars

\* Two digits hold any checksum: the codes of ASCII have seven bits, and two
\* hexadecimal digits have eight.
ASSUME DigitsAssumption ==
    LET bits == 0..(2 * DigitBits - 1)
    IN  /\ Code \in [BodyChars -> SUBSET bits]
        /\ \A number \in SUBSET bits :
              \E high, low \in DOMAIN Digit : NumberOf(high, low) = number

VARIABLES
    decoded,   \* how many of the lines delivered have been decoded
    summing,   \* whether the loop of validate_checksum_() is running
    accepted,  \* the bodies of the lines that decode() did not refuse
    body,      \* the sentence being sent
    sending,   \* the position of its next character
    damaged,   \* whether the wire has done something to it, or it was cut
    fresh,     \* whether it began at the beginning of a line
    sent       \* the sentences sent since the port was opened, those of them
               \* marked whole that were fresh and came through

decode_vars == <<decoded, summing, accepted, sum_vars>>
device_vars == <<body, sending, damaged, fresh, sent>>
link_vars == <<vars, decode_vars, device_vars>>

-----------------------------------------------------------------------------
(* The device and the wire *)

\* The digits that a device appends to a body.
BitsOf(text) ==
    LET bits[k \in 0..Len(text)] ==
            IF k = 0 THEN {} ELSE Xor(bits[k - 1], Code[text[k]])
    IN  bits[Len(text)]
Digits(text) ==
    CHOOSE pair \in (DOMAIN Digit) \X (DOMAIN Digit) :
        NumberOf(pair[1], pair[2]) = BitsOf(text)
Sentence(text) == <<Dollar>> \o text \o <<Star>> \o Digits(text) \o <<CR, LF>>

\* The device goes on to its next character, or to its next sentence.
Proceed(intact, newline) ==
    \/ /\ sending < Len(Sentence(body))
       /\ sending' = sending + 1 /\ damaged' = ~intact
       /\ UNCHANGED <<body, fresh, sent>>
    \/ /\ sending = Len(Sentence(body))
       /\ sent' = Append(sent, [body |-> body, whole |-> intact /\ fresh])
       /\ body' \in Bodies /\ sending' = 1 /\ damaged' = FALSE /\ fresh' = newline

Transmit(c) == Len(sent) < MaxSentences /\ c = Sentence(body)[sending]

Deliver(c) == Transmit(c) /\ ReadChar(c) /\ Proceed(~damaged, TRUE)
Replace(c) ==
    \E d \in Chars \cup {CR, LF} :
        d # c /\ ~damaged /\ Transmit(c) /\ ReadChar(d) /\ Proceed(FALSE, FALSE)
\* When a character is lost makes no difference to the reader.
Lose(c) == step = "run" /\ ~damaged /\ Transmit(c) /\ Proceed(FALSE, FALSE) /\ UNCHANGED vars

-----------------------------------------------------------------------------
(* The read thread: read_line(), then decode() *)

Idle == ~summing /\ decoded = Len(lines)

\* When a port opens, the device may be anywhere in a sentence.
OpenLink ==
    /\ Idle /\ Open
    /\ decoded' = 0 /\ accepted' = <<>> /\ UNCHANGED <<summing, sum_vars>>
    /\ sent' = <<>> /\ body' \in Bodies /\ sending' \in 1..Len(Sentence(body'))
    /\ damaged' = (sending' # 1) /\ fresh' = (sending' = 1)

ReadNextLine == Idle /\ ReadLine /\ UNCHANGED <<decode_vars, device_vars>>

Line == lines[decoded + 1]

\* decode(): a line that does not match is refused at once.
MatchLine ==
    /\ ~summing /\ decoded < Len(lines)
    /\ \/ BasicMatches(Line) /\ summing' = TRUE /\ StartSum /\ UNCHANGED decoded
       \/ ~BasicMatches(Line) /\ decoded' = decoded + 1 /\ UNCHANGED <<summing, sum_vars>>
    /\ UNCHANGED <<accepted, vars, device_vars>>

SumNext ==
    /\ summing /\ XorNext(Body(Line))
    /\ UNCHANGED <<decoded, summing, accepted, vars, device_vars>>

\* The variables of the loop end with it.
ValidateLine ==
    /\ summing /\ Summed(Body(Line))
    /\ accepted' = IF check = Checksum(Line) THEN Append(accepted, Body(Line)) ELSE accepted
    /\ decoded' = decoded + 1 /\ summing' = FALSE
    /\ StartSum /\ UNCHANGED <<vars, device_vars>>

-----------------------------------------------------------------------------
LinkInit ==
    /\ Init
    /\ decoded = 0 /\ summing = FALSE /\ accepted = <<>> /\ next = 1 /\ check = {}
    /\ body \in Bodies /\ sending = 1 /\ damaged = FALSE /\ fresh = TRUE /\ sent = <<>>

LinkNext ==
    \/ OpenLink
    \/ (Close \/ StartRead \/ ReadFails) /\ UNCHANGED <<decode_vars, device_vars>>
    \/ ReadNextLine \/ MatchLine \/ SumNext \/ ValidateLine
    \/ \E c \in Chars \cup {CR, LF} : 
           (Deliver(c) \/ Replace(c) \/ Lose(c)) /\ UNCHANGED decode_vars

LinkSpec == LinkInit /\ [][LinkNext]_link_vars

-----------------------------------------------------------------------------
(* Properties *)

\* at takes elements of s to equal ones of t, in the same order.
Embeds(at, s, t) ==
    \A i \in DOMAIN at : s[i] = t[at[i]] /\ \A j \in DOMAIN at : j < i => at[j] < at[i]
BodiesOf(sentences) == [i \in DOMAIN sentences |-> sentences[i].body]
Said == Append(BodiesOf(sent), body)

\* What decode() accepts is what the device said, in its order and without
\* repetition, whatever one character of each sentence became on the way,
\* and wherever the port was opened or closed: a damaged sentence, or a part
\* of one, is never a sample (EasyNmeaCoder.hpp:92-103 and 134-160).
AcceptedWasSent ==
    \E at \in [DOMAIN accepted -> DOMAIN Said] : Embeds(at, accepted, Said)

\* Damage stays where it happens: when the read thread has nothing more to
\* decode, every sentence that came through from its $ to its line feed, and
\* began a line, has been accepted, whatever happened to the ones around it.
Whole == {i \in DOMAIN sent : sent[i].whole}
NoiseIsLocal ==
    Idle => \E at \in [Whole -> DOMAIN accepted] : Embeds(at, BodiesOf(sent), accepted)
=============================================================================
