-------------------------- MODULE MCEasyNmeaCoder --------------------------
(***************************************************************************)
(* Sentences for TLC: a good one, and those that differ from it in the     *)
(* framing, in the time, in one angle with its bearing, in a number or in  *)
(* the fields at the end.  The angles visit the ends of each range of      *)
(* digits of the expression, the forms of a wrong length, and 90.0 and     *)
(* 180.0; minutes that are the same or close together, with up to four     *)
(* digits after the dot and where floats are close together and far apart; *)
(* the times, every resolution that a float has in a day.                  *)
(***************************************************************************)
EXTENDS EasyNmeaCoder

Good == [well_formed |-> TRUE, checksum_ok |-> TRUE, id |-> "$GPGGA",
         time |-> [hhmmss |-> 72705, ms |-> 0],
         latitude |-> <<5, 7, 0, 3, Dot, 1>>, north |-> TRUE,
         longitude |-> <<0, 0, 9, 5, 4, Dot, 9>>, east |-> TRUE,
         fix |-> 1, satellites |-> 8, hdop |-> 11, altitude |-> 1234, height |-> 391,
         tail |-> <<22, Comma, 785, Comma, Checksum>>]

Times == [hhmmss : {Empty, 1, 12058, 12059, 30059, 50000, 131071, 131200, 235959, 999959},
          ms : {0, 4, 8, 15, 16, 31, 500, 983, 984, 999}]

\* Degrees before minutes 1 and 60 and what is next to them.
Parts == {<<0>>, <<0, 0>>, <<5>>, <<0, 0, 1>>, <<0, 0, 0, 1>>, <<0, 0, 0, 5>>, <<0, 0, 1, 3>>,
          <<0, 0, 1, 0>>, <<9, 9, 9, 9>>}
Near(degrees) ==
    {degrees \o minutes \o <<Dot>> \o part :
        minutes \in {<<0, 0>>, <<0, 1>>, <<5, 9>>, <<6, 0>>}, part \in Parts}

Latitudes ==
    Near(<<0, 1>>) \cup Near(<<0, 2>>) \cup Near(<<8, 9>>)
    \cup {<<9, 7, 0, 3, Dot, 1>>, <<5, 7, 6, 1, Dot, 1>>, <<5, 7, 7, 0, Dot, 1>>,
          <<5, 7, 0, 3, Dot>>, <<5, 7, Dot, 5>>, <<1, 2, 3, Dot, 5>>, <<Dot, 7, 0, 3, Dot, 1>>,
          <<5, 7, 0, Dot, Dot, 1>>, <<9, 0, Dot, 0>>, <<9, 0, Dot, 0, 0>>, <<9, 0, Dot, 0, 5>>}
Longitudes ==
    Near(<<0, 0, 0>>) \cup Near(<<1, 2, 8>>)
    \cup {<<1, 7, 9, 5, 9, Dot, 9, 9, 9, 9>>, <<1, 8, 0, 0, 0, Dot, 0>>, <<2, 0, 0, 0, 0, Dot, 0>>, <<0, 9, 9, 6, 1, Dot, 5>>,
          <<1, 2, 3, Dot, 0>>, <<1, 8, 0, Dot>>, <<1, 8, 0, Dot, 0>>, <<1, 8, 0, Dot, 0, 0>>,
          <<1, 8, 0, Dot, 5>>}
Numbers == [satellites : {Empty, 0, 8, 65536 + 8, TooLong}, hdop : {Empty, 0, 11},
            altitude : {Empty, 1234, -1234}, height : {Empty, 391, -391}]
\* Seven digits, and eight of which a float keeps fewer.
Tall == {9999998, 9999999, 99999991, 99999992, -9999999, -99999999, TooLong}

Updates == {<<>>, <<0>>, <<22>>, <<TooLong>>}
Tails ==
    {u \o <<Comma>> \o i \o <<Comma, Checksum>> :
        u \in Updates, i \in {<<>>, <<0>>, <<785>>, <<65536 + 785>>, <<TooLong>>}}
    \cup {u \o <<Comma, Checksum>> : u \in Updates}
    \cup {<<Checksum>>, <<22, Comma, 785>>, <<22, Checksum>>}

SomeSentences ==
    {[Good EXCEPT !.well_formed = f, !.checksum_ok = c, !.id = i] :
        f \in BOOLEAN, c \in BOOLEAN, i \in {"$GPGGA", "$GPGLL"}}
    \cup {[Good EXCEPT !.time = t] : t \in Times}
    \cup {[Good EXCEPT !.latitude = l, !.north = n] : l \in Latitudes, n \in BOOLEAN}
    \cup {[Good EXCEPT !.longitude = l, !.east = e] : l \in Longitudes, e \in BOOLEAN}
    \cup {[Good EXCEPT !.satellites = n.satellites, !.hdop = n.hdop,
                       !.altitude = n.altitude, !.height = n.height] : n \in Numbers}
    \cup {[Good EXCEPT !.altitude = n] : n \in Tall}
    \cup {[Good EXCEPT !.fix = f, !.tail = t] : f \in 0..3, t \in Tails}
=============================================================================
