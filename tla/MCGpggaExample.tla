--------------------------- MODULE MCGpggaExample ---------------------------
(***************************************************************************)
(* An instance of GpggaExample for TLC.  A queue of one sample overflows   *)
(* as soon as the working thread is late; MaxCalls is out of reach, so     *)
(* that the bound on calls stops nothing.                                  *)
(***************************************************************************)
EXTENDS GpggaExample

CONSTANTS m, w

MainAndWorker == {m, w}
OneBit == {GPGGA}
SomeCommandLines ==
    {<<>>, <<"option", "word">>, <<"option", "help">>, <<"option", "word", "help">>, <<"word">>,
     <<"option">>}
DataMask == {{GPGGA}}
=============================================================================
