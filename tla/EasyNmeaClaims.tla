--------------------------- MODULE EasyNmeaClaims ---------------------------
(***************************************************************************)
(* What comments of the library say about it and EasyNmeaImpl, as coded,   *)
(* does not do.  Each claim is checked by a run of its own, which ends in  *)
(* a behaviour that breaks it.                                             *)
(***************************************************************************)
EXTENDS EasyNmeaImpl

\* open() returns one of its three codes on a port that is not open
\* (EasyNmea.hpp:67-76).  After a read error the read thread has closed the
\* port itself and nobody can join it: close() refuses, and open() replaces
\* its std::thread while it is joinable, which ends the process.
OpenNeverTerminates == crash # "terminate"

\* The destructor closes the serial connection if opened (EasyNmeaImpl.hpp:64).
\* After an open() whose set_option() failed it is open without a read
\* thread, and close() joins a null read_thread_.
DestructorCloses == life = "destroying" => crash # "null_join"

\* close() unblocks any wait_for_data() call (EasyNmea.hpp:135-136).  Neither
\* the flag nor the notification is published under data_mutex_, so a waiter
\* that has just found nothing blocks after both.
CloseUnblocksWaiters ==
    \A c, t \in Clients :
        pc[c] = "close_notify" /\ pc[t] \in WaitSteps
            ~> pc[t] \notin WaitSteps \/ routine_running_

\* data_mutex_ protects the operations with the queue (EasyNmeaImpl.hpp:168).
\* The destructor clears it without, while the read thread still pushes.
QueueLocked == crash # "data_race"
=============================================================================
