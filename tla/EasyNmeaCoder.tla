---------------------------- MODULE EasyNmeaCoder ----------------------------
(***************************************************************************)
(* EasyNmeaCoder::decode(): from a line to a GPGGAData, to INVALID, or to  *)
(* an exception that leaves a noexcept function and ends the process; and  *)
(* operator== of GPGGAData, which compares what two sentences said.        *)
(*                                                                         *)
(* A sentence is a record of what the decoder tells apart.                 *)
(*   - A time is the number hhmmss and thousandths of a second.            *)
(*   - An angle is the sequence of its digits and dot.  MostDigits keeps   *)
(*     the floats of its minutes normal: with more digits std::stof() may  *)
(*     throw because of an underflow.                                      *)
(*   - hdop, altitude, height and the time since the last DGPS update are  *)
(*     in tenths; MostTenths keeps them below the 2^24 of Float.           *)
(*   - tail is what follows the height units: the optional DGPS fields,    *)
(*     commas, and the checksum.                                           *)
(* Decoded values are the floats of Float, and integers.                   *)
(* NmeaChecksum and NmeaLink model the form and checksum of any sentence.  *)
(***************************************************************************)
EXTENDS Float, FiniteSets, Sequences, SequencesExt

CONSTANTS
    Sentences,      \* the lines a device may send
    FirstSentence   \* the first of them

MostDigits == 40
MostTenths == 10 * 2 * Hidden - 1

\* Characters and values that are not numbers, told apart from all that are.
Dot == -1
Checksum == -3         \* the last component, *hh
Comma == -5
Empty == -1000000002   \* no digit between two commas
TooLong == -1000000004 \* digits that no int and no float can hold

AngleText == {text \in Seq(0..9 \cup {Dot}) : Len(text) <= MostDigits}
Milliseconds == 0..999
Numeral == {n \in Int : n \in (-MostTenths)..MostTenths \/ n \in {Empty, TooLong}}
Sentence ==
    [well_formed : BOOLEAN, checksum_ok : BOOLEAN, id : STRING,
     time : [hhmmss : Nat \cup {Empty}, ms : Milliseconds],
     latitude : AngleText, north : BOOLEAN, longitude : AngleText, east : BOOLEAN,
     fix : Nat, satellites : Numeral, hdop : Numeral, altitude : Numeral, height : Numeral,
     tail : Seq({n \in Int : n \in 0..MostTenths \/ n \in {TooLong, Comma, Checksum}})]

ASSUME SentencesAssumption == Sentences \subseteq Sentence /\ FirstSentence \in Sentences

Number(digits) ==
    LET upto[i \in 0..Len(digits)] == IF i = 0 THEN 0 ELSE 10 * upto[i - 1] + digits[i]
    IN  upto[Len(digits)]

\* split_(): the components between separators, also the empty ones.
WithNext(content, c, separator) ==
    IF c = separator THEN Append(content, <<>>)
    ELSE [content EXCEPT ![Len(content)] = Append(@, c)]
Split(text, separator) ==
    LET upto[i \in 0..Len(text)] ==
            IF i = 0 THEN << <<>> >> ELSE WithNext(upto[i - 1], text[i], separator)
    IN  upto[Len(text)]

-----------------------------------------------------------------------------
(* GPGGA_REGEX, but for the letters and the digits that any field has *)

TimeMatches(time) == time.hhmmss >= 0 /\ time.hhmmss <= 999999

MinutesMatch(tens, units) == tens <= 5 \/ (tens = 6 /\ units = 0)

HasDotAt(angle, dot) == Len(angle) > dot /\ \A i \in DOMAIN angle : angle[i] = Dot <=> i = dot

\* The forms 90.0 and 180.0, with any number of zeros.
Zeros(n) == [i \in 1..n |-> 0]
IsDegrees(angle, degrees) == \E n \in DOMAIN angle : angle = degrees \o <<Dot>> \o Zeros(n)

LatitudeMatches(angle) ==
    \/ HasDotAt(angle, 5) /\ angle[1] <= 8 /\ MinutesMatch(angle[3], angle[4])
    \/ IsDegrees(angle, <<9, 0>>)

LongitudeMatches(angle) ==
    \/ /\ HasDotAt(angle, 6)
       /\ angle[1] = 0 \/ (angle[1] = 1 /\ angle[2] <= 7)
       /\ MinutesMatch(angle[4], angle[5])
    \/ IsDegrees(angle, <<1, 8, 0>>)

\* ( (time since update)? , (station id ,)? )? and the checksum.
TailMatches(tail) ==
    \/ tail = <<Checksum>>
    \/ \E update, station \in {<<>>} \cup {<<tail[i]>> : i \in DOMAIN tail} :
          /\ tail = update \o <<Comma>> \o (IF station = <<>> THEN <<>> ELSE station \o <<Comma>>)
                        \o <<Checksum>>
          /\ {Comma, Checksum} \cap ToSet(update \o station) = {}

GpggaMatches(s) ==
    /\ TimeMatches(s.time)
    /\ LatitudeMatches(s.latitude) /\ LongitudeMatches(s.longitude)
    /\ s.fix \in 0..2
    /\ Empty \notin {s.satellites, s.hdop, s.altitude, s.height}
    /\ \A n \in {s.satellites, s.hdop} : n >= 0 \/ n = TooLong
    /\ TailMatches(s.tail)

-----------------------------------------------------------------------------
(* The translation of the fields *)

StoiTimestamp(time) == Nearest(time.hhmmss, 1)

Timestamp(time) == Nearest(1000 * time.hhmmss + time.ms, 1000)

TwoDigitDegrees(angle) ==
    LET whole == Split(angle, Dot)[1]
        part == Split(angle, Dot)[2]
        minutes == SubSeq(whole, 3, Len(whole)) \o part
    IN  Plus(Number(SubSeq(whole, 1, 2)), Sixtieth(Nearest(Number(minutes), Power(10, Len(part)))))

\* to_degrees_(): the last two digits are minutes, what is before them are
\* degrees.
Degrees(angle) == LET whole == Split(angle, Dot)[1] IN SubSeq(whole, 1, Len(whole) - 2)
ToDegrees(angle) ==
    LET whole == Split(angle, Dot)[1]
        part == Split(angle, Dot)[2]
        minutes == SubSeq(whole, Len(whole) - 1, Len(whole)) \o part
    IN  Plus(Number(Degrees(angle)), Sixtieth(Nearest(Number(minutes), Power(10, Len(part)))))

Bearing(angle, positive) ==
    IF positive THEN ToDegrees(angle) ELSE Negative(ToDegrees(angle))

Tenths(n) == IF n < 0 THEN Negative(Nearest(-n, 10)) ELSE Nearest(n, 10)

\* std::stoi() into a uint16_t, which has so many values.
Uint16Values == 65536
ToUint16(number) == number % Uint16Values

\* GPGGAData(), and NMEA0183Data() for what is not decoded.
EmptyData ==
    [kind |-> "GPGGA", timestamp |-> Zero, latitude |-> Zero, longitude |-> Zero, fix |-> 0,
     satellites_on_view |-> 0, horizontal_precision |-> Zero, altitude |-> Zero,
     height_of_geoid |-> Zero, dgps_last_update |-> Negative(Nearest(1, 1)),
     dgps_reference_station_id |-> 0]
Invalid == [kind |-> "INVALID"]

FromFourteenth(content) ==
    IF 13 + Len(content) >= 14 /\ content[1] # <<>>
    THEN Tenths(content[1][1]) ELSE EmptyData.dgps_last_update

\* The content of split_() has 13 components before those of tail.
DgpsLastUpdate(content) ==
    IF 13 + Len(content) >= 15 /\ content[1] # <<>>
    THEN Tenths(content[1][1]) ELSE EmptyData.dgps_last_update
DgpsReferenceStationId(content) ==
    IF 13 + Len(content) = 16
    THEN ToUint16(content[2][1]) ELSE EmptyData.dgps_reference_station_id

Translated(s) ==
    LET content == Split(s.tail, Comma)
    IN  [kind |-> EmptyData.kind,
         timestamp |-> Timestamp(s.time),
         latitude |-> Bearing(s.latitude, s.north),
         longitude |-> Bearing(s.longitude, s.east),
         fix |-> s.fix,
         satellites_on_view |-> ToUint16(s.satellites),
         horizontal_precision |-> Tenths(s.hdop),
         altitude |-> Tenths(s.altitude),
         height_of_geoid |-> Tenths(s.height),
         dgps_last_update |-> DgpsLastUpdate(content),
         dgps_reference_station_id |-> DgpsReferenceStationId(content)]

\* std::stof() and std::stoi() throw for no digits and for too many; every
\* number of a sentence that matches is given to one of them.
Throws(s) ==
    \/ <<>> \in {Degrees(s.latitude), Degrees(s.longitude)}
    \/ TooLong \in {s.satellites, s.hdop, s.altitude, s.height} \cup ToSet(s.tail)

DecodeGpgga(s) ==
    IF ~GpggaMatches(s) THEN Invalid
    ELSE IF Throws(s) THEN [kind |-> "terminate"] ELSE Translated(s)

\* decode(): the form of any sentence, its checksum, its identifier.
IsSentence(s) == s.well_formed /\ s.checksum_ok /\ s.id = "$GPGGA"
Decode(s) ==
    IF IsSentence(s) THEN DecodeGpgga(s) ELSE Invalid
Decoded == [s \in Sentences |-> Decode(s)]

EqualButForDgps(a, b) ==
    a.kind = b.kind
        /\ \A field \in DOMAIN EmptyData \ {"dgps_last_update", "dgps_reference_station_id"} :
              a[field] = b[field]

\* operator== of two GPGGAData: it compares every field.
Equal(a, b) == a.kind = b.kind /\ \A field \in DOMAIN EmptyData : a[field] = b[field]

-----------------------------------------------------------------------------
VARIABLES sentence, data

coder_vars == <<sentence, data>>

Init == sentence = FirstSentence /\ data = Decoded[FirstSentence]

\* process_line_() decodes the next line, whatever the one before it was.
DecodeLine ==
    /\ data.kind # "terminate"
    /\ \E s \in Sentences : sentence' = s /\ data' = Decoded[s]

\* std::terminate() ends the process.
Terminated == data.kind = "terminate" /\ UNCHANGED coder_vars

Next == DecodeLine \/ Terminated
Spec == Init /\ [][Next]_coder_vars

-----------------------------------------------------------------------------
(* Properties *)

IsGpgga == data.kind = "GPGGA"

\* An angle as the comments of the expression read it: degrees and minutes, or
\* for 90.0 and 180.0 degrees alone.  Minutes() is a whole number of the units
\* of its last digit, 10^-Places() minutes.
DotOf(angle) == CHOOSE i \in DOMAIN angle : angle[i] = Dot
Places(angle) == Len(angle) - DotOf(angle)
InDegrees(angle) == DotOf(angle) <= 4
Minutes(angle) ==
    LET number == Number(RemoveAt(angle, DotOf(angle)))
        minute == Power(10, Places(angle))
    IN  IF InDegrees(angle) THEN 60 * number
        ELSE (number \div (100 * minute)) * 60 * minute + (number % (100 * minute))

\* A float is the value of an angle to within one unit of its last bit.
IsRead(float, angle, positive) ==
    LET f == IF positive THEN float ELSE Negative(float)
        degree == 60 * Power(10, Places(angle))
    IN  /\ f = Zero <=> Minutes(angle) = 0
        /\ f.bits - Rounded(Division(Minutes(angle), degree, f.exponent), degree) \in (-1)..1

\* The values in tail that come after so many commas.
Given(tail, commas) ==
    {tail[i] : i \in {j \in DOMAIN tail : tail[j] \notin {Comma, Checksum}
                          /\ Cardinality({k \in 1..j : tail[k] = Comma}) = commas}}

\* The position of a sample is the one of its sentence, south and west being
\* negative, as exactly as a float can say it: parting degrees from minutes,
\* dividing and adding lose no more than one unit.  A longitude of degrees alone
\* is VerifiedIsRead's (EasyNmeaCoder.hpp:213-224 and 281-298).
PositionIsTheSentences ==
    IsGpgga =>
        /\ IsRead(data.latitude, sentence.latitude, sentence.north)
        /\ ~InDegrees(sentence.longitude)
              => IsRead(data.longitude, sentence.longitude, sentence.east)

\* Its count of satellites and its station are numbers that a uint16_t holds.
Fits(s) == \A n \in {s.satellites} \cup Given(s.tail, 1) : n < Uint16Values

\* The optional fields of a sample are those its sentence has, and the
\* defaults when it leaves them out or empty; the checksum is never taken for
\* one of them (EasyNmeaCoder.hpp:230-239 and 253-268, data.hpp:110-111).
OptionalFieldsAreTheSentences ==
    IsGpgga /\ Fits(sentence) =>
        /\ data.dgps_last_update \in
              IF Given(sentence.tail, 0) = {} THEN {Negative(Nearest(1, 1))}
              ELSE {Nearest(n, 10) : n \in Given(sentence.tail, 0)}
        /\ data.dgps_reference_station_id \in
              IF Given(sentence.tail, 1) = {} THEN {0} ELSE Given(sentence.tail, 1)

\* An angle in units of so many places of a minute.
Signed(angle, positive, places) ==
    (IF positive THEN 1 ELSE -1) * Minutes(angle) * Power(10, places - Places(angle))
\* Two angles differ by less than a thousandth of a minute, two metres.
IsNear(a, a_positive, b, b_positive) ==
    LET places == Max({3, Places(a), Places(b)})
        thousandth == Power(10, places - 3)
    IN  Signed(a, a_positive, places) - Signed(b, b_positive, places)
            \in (1 - thousandth)..(thousandth - 1)
\* They differ in the zeros at the end of their minutes.
IsSame(a, b) == \E n \in 0..MostDigits : a \o Zeros(n) = b \/ b \o Zeros(n) = a

\* What a sentence says but for its time and position; station 0 is as none.
Says(s) ==
    <<s.fix, s.satellites, s.hdop, s.altitude, s.height, Given(s.tail, 0),
      Given(s.tail, 1) \ {0}>>
\* Floats and uint16_t tell these numbers apart.
AreApart(s) ==
    /\ Fits(s)
    /\ \A n \in {s.hdop, s.altitude, s.height} \cup Given(s.tail, 0) : n \in (-SevenDigits)..SevenDigits

\* Samples compare equal only if their sentences said the same, of the
\* position to a thousandth of a minute (above 128 degrees, a float has no
\* room for the fourth digit of the minutes); and they do if both said it at
\* the same time, whatever zeros the minutes end in and whether a field was
\* empty or left out (data.hpp:157-171, EasyNmeaCoder.hpp:212-239).
EqualSamplesSaidTheSame ==
    [][/\ IsGpgga /\ AreApart(sentence) /\ ~InDegrees(sentence.longitude)
       /\ IsGpgga' /\ AreApart(sentence') /\ ~InDegrees(sentence'.longitude)
       => /\ Equal(data, data')
             => /\ Says(sentence) = Says(sentence')
                /\ IsNear(sentence.latitude, sentence.north, sentence'.latitude, sentence'.north)
                /\ IsNear(sentence.longitude, sentence.east, sentence'.longitude, sentence'.east)
          /\ /\ Says(sentence) = Says(sentence') /\ sentence.time = sentence'.time
             /\ sentence.north = sentence'.north /\ IsSame(sentence.latitude, sentence'.latitude)
             /\ sentence.east = sentence'.east /\ IsSame(sentence.longitude, sentence'.longitude)
             => Equal(data, data')]_coder_vars

\* A float holds the timestamps of a day to 1/64 of a second: samples of one
\* minute that are sent 16 ms apart are told apart and in their order, and no
\* later sample ever has an earlier timestamp (EasyNmeaCoder.hpp:212).
Millis(time) == 1000 * (time.hhmmss % 100) + time.ms
IsLater(later, time, by) ==
    later.hhmmss \div 100 = time.hhmmss \div 100 /\ Millis(later) >= Millis(time) + by
OfDay(time) == time.hhmmss < 240000
TimestampsKeepOrder ==
    [][IsGpgga /\ IsGpgga' =>
          /\ IsLater(sentence'.time, sentence.time, 0) => AtMost(data.timestamp, data'.timestamp)
          /\ OfDay(sentence'.time) /\ IsLater(sentence'.time, sentence.time, 16)
                => ~AtMost(data'.timestamp, data.timestamp)
      ]_coder_vars

\* The regular expression has verified the fields, so that no more checks are
\* needed (EasyNmeaCoder.hpp:208-211): every sentence that it lets through gives
\* a sample, with the position that it says.  Angles in degrees alone, 90.0 and
\* 180.0, are the ends of its "[0; 90]" and "[0; 180]" (lines 51 and 53), and
\* to_degrees_() takes the last two digits for minutes all the same: std::stof()
\* throws for the empty degrees of 90.0, and 180.0 is read as one degree and 80
\* minutes.  Digits that no int can hold make std::stoi() throw.
VerifiedIsRead ==
    IsSentence(sentence) /\ GpggaMatches(sentence)
        => /\ IsGpgga
           /\ IsRead(data.latitude, sentence.latitude, sentence.north)
           /\ IsRead(data.longitude, sentence.longitude, sentence.east)
==============================================================================
