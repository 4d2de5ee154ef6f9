------------------------- MODULE GpggaExampleProofs -------------------------
(***************************************************************************)
(* Proofs about the example program and the system test program: first     *)
(* their control, whatever the library does under them, then what they     *)
(* are in for from the library, whose theorems hold of them because they   *)
(* call it as any application may (ExampleUsesLibrary).                    *)
(***************************************************************************)
EXTENDS GpggaExample, EasyNmeaImplProofs, TLAPS

Starting == {"arguments", "opening"}
Running == {"check", "block", "blocked", "close", "closing", "join"}
Ending == {"destroy", "returned"}

\* The exit code goes with where main() is and how the working thread ended:
\* main() gets past join() only after a thread that stores nothing any more.
ExitInv ==
    /\ main \in Starting \cup Running \cup Ending \cup {"exited"}
    /\ main \in Starting => worker = "none" /\ exit_code = "0"
    /\ main = "exited" => worker = "none"
    /\ main \in Running => worker # "none" /\ exit_code = (IF worker = "log_failed" THEN "1" ELSE "0")
    /\ main \in Ending =>
          /\ worker \in {"none", "done", "log_failed"}
          /\ exit_code = (IF worker = "done" THEN "0" ELSE "1")

\* A thread that is asked to wake up moves within the states it runs in.
LEMMA NotifiedRuns == Notified = main \/ (main \in Running /\ Notified \in Running)
BY DEF Notified, Running

\* Each step of main(), of the working thread and of the handler keeps them
\* together (gpgga_example.cpp:188-248, system_tests.cpp:139-165).
LEMMA ExitStep == ExitInv /\ [AppNext]_app_all => ExitInv'
<1>. SUFFICES ASSUME ExitInv, [AppNext]_app_all PROVE ExitInv'
  OBVIOUS
<1>. USE DEF ExitInv, Starting, Running, Ending
<1>1. CASE MainNext
  <2>1. CASE ParseOption
    BY <2>1 DEF ParseOption, Parsing, Exit
  <2>2. CASE ParseHelp
    BY <2>2 DEF ParseHelp, Parsing, Exit
  <2>3. CASE ParseUnknown
    BY <2>3 DEF ParseUnknown, Parsing, Exit
  <2>4. CASE MainOpen
    BY <2>4 DEF MainOpen, shell_vars
  <2>5. CASE MainOpened
    BY <2>5 DEF MainOpened
  <2>6. CASE MainCheck
    BY <2>6 DEF MainCheck, shell_vars
  <2>7. CASE MainBlock
    BY <2>7 DEF MainBlock, shell_vars
  <2>8. CASE MainClose
    BY <2>8 DEF MainClose, shell_vars
  <2>9. CASE MainClosed
    BY <2>9 DEF MainClosed, shell_vars
  <2>10. CASE MainJoin
    BY <2>10 DEF MainJoin, shell_vars
  <2>11. CASE MainDestroy
    BY <2>11 DEF MainDestroy, shell_vars
  <2>12. QED
    BY <1>1, <2>1, <2>2, <2>3, <2>4, <2>5, <2>6, <2>7, <2>8, <2>9, <2>10, <2>11 DEF MainNext
<1>2. CASE WorkerNext
  <2>1. CASE WorkerWait
    BY <2>1 DEF WorkerWait, shell_vars
  <2>2. CASE WorkerWaited
    BY <2>2 DEF WorkerWaited, shell_vars
  <2>3. CASE WorkerTake
    BY <2>3 DEF WorkerTake, shell_vars
  <2>4. CASE WorkerTookAll
    BY <2>4 DEF WorkerTookAll, shell_vars
  <2>5. CASE WorkerLogFails
    BY <2>5 DEF WorkerLogFails, shell_vars
  <2>6. CASE WorkerLogNotify
    BY <2>6, NotifiedRuns DEF WorkerLogNotify, shell_vars
  <2>7. CASE WorkerLogExit
    BY <2>7 DEF WorkerLogExit
  <2>8. CASE WorkerFail
    BY <2>8 DEF WorkerFail, shell_vars
  <2>9. CASE WorkerFailNotify
    BY <2>9, NotifiedRuns DEF WorkerFailNotify, shell_vars
  <2>10. QED
    BY <1>2, <2>1, <2>2, <2>3, <2>4, <2>5, <2>6, <2>7, <2>8, <2>9 DEF WorkerNext
<1>3. CASE MainSpuriousWakeup
  BY <1>3 DEF MainSpuriousWakeup, shell_vars
<1>4. CASE SignalCaught
  BY <1>4 DEF SignalCaught, shell_vars
<1>5. CASE SignalNotify
  BY <1>5, NotifiedRuns DEF SignalNotify, shell_vars
<1>6. CASE LibraryNext \/ AppTerminating \/ UNCHANGED app_all
  BY <1>6 DEF LibraryNext, AppTerminating, app_all, app_vars
<1>7. QED
  BY <1>1, <1>2, <1>3, <1>4, <1>5, <1>6 DEF AppNext

\* The exit code is always the one of how the program ended, whatever the
\* device, the signal and the log do, and however the threads interleave.
THEOREM ExitCodeCorrect == AppSpec => []ExitCodeIsRight
<1>1. AppInit => ExitInv
  BY DEF AppInit, ExitInv, Starting, Running, Ending
<1>2. ExitInv => ExitCodeIsRight
  BY DEF ExitInv, ExitCodeIsRight, Starting, Running, Ending
<1>3. QED
  BY <1>1, <1>2, ExitStep, PTL DEF AppSpec

\* The clients of the library are the two threads.
LEMMA TwoThreads ==
    Main \in Clients /\ Worker \in Clients /\ Main # Worker /\ \A t \in Clients : t = Main \/ t = Worker
BY ThreadsAssumption

\* The program calls the library as any application may: what is proved of the
\* library holds under it.
THEOREM ExampleUsesLibrary == AppSpec => Spec
<1>1. AppInit => Init
  BY DEF AppInit
<1>2. [AppNext]_app_all => [Next]_vars
  <2>. SUFFICES ASSUME [AppNext]_app_all PROVE [Next]_vars
    OBVIOUS
  <2>1. CASE LibraryNext
    BY <2>1 DEF LibraryNext, Next, ClientNext
  <2>2. CASE MainNext
    <3>1. ASSUME OpenCall(Main) \/ (At(Main, "idle") /\ CloseCall(Main)) \/ Destroy(Main) PROVE Next
      BY <3>1, TwoThreads DEF Next, ClientNext, Begin
    <3>. QED
      BY <2>2, <3>1
         DEF MainNext, ParseOption, ParseHelp, ParseUnknown, Exit, MainOpen, MainOpened, MainCheck,
             MainBlock, MainClose, MainClosed, MainJoin, MainDestroy
  <2>3. CASE WorkerNext
    <3>1. ASSUME WaitCall(Worker) \/ TakeNext(Worker) PROVE Next
      BY <3>1, TwoThreads DEF Next, ClientNext, Begin
    <3>. QED
      BY <2>3, <3>1
         DEF WorkerNext, WorkerWait, WorkerWaited, WorkerTake, WorkerTookAll, WorkerLogFails,
             WorkerLogNotify, WorkerLogExit, WorkerFail, WorkerFailNotify
  <2>4. CASE MainSpuriousWakeup \/ SignalCaught \/ SignalNotify \/ AppTerminating \/ UNCHANGED app_all
    BY <2>4 DEF MainSpuriousWakeup, SignalCaught, SignalNotify, AppTerminating, app_all
  <2>. QED
    BY <2>1, <2>2, <2>3, <2>4 DEF AppNext
<1>. QED
  BY <1>1, <1>2, PTL DEF AppSpec, Spec

-----------------------------------------------------------------------------
(* The library under the example *)

USE DEF Call, At, ReaderAt, Goto, Return, data_vars, thread_vars, client_vars,
        Mask!Set, Mask!Clear, Mask!IsSet, Mask!None, Mask!IsNone

Serving == {"check", "block", "blocked"}

\* Which call of the library each thread can be in, by where it is itself.
CallsInv ==
    /\ main \in {"arguments", "exited", "close", "join", "destroy"} \cup Serving
          => pc[Main] = "idle"
    /\ main = "opening" => pc[Main] \in {"idle"} \cup OpenSteps
    /\ main = "closing" => pc[Main] \in {"idle"} \cup CloseSteps
    /\ main = "returned" => pc[Main] \in {"idle"} \cup CloseSteps \cup DestroySteps
    /\ worker = "waiting" => pc[Worker] \in {"idle"} \cup WaitSteps
    /\ worker = "taking" => pc[Worker] \in {"idle", "take_update"}
    /\ worker \notin {"waiting", "taking"} => pc[Worker] = "idle"
    /\ life = "alive" <=> main # "returned"

\* main() has no port: its close() has ended but for the notification, or its
\* open() failed.
PastClose ==
    \/ main = "closing" /\ pc[Main] \in {"idle", "close_notify"}
    \/ main \in {"join", "destroy", "returned"}

\* The port was opened and refused its baudrate: nobody reads it, and main()
\* gives up.
Refused ==
    /\ "set_option" \in Faults /\ reader = "none" /\ worker = "none"
    /\ \/ main = "opening" /\ pc[Main] = "idle" /\ ret[Main] # "OK"
       \/ main \in {"destroy", "returned"}

\* main() opens the port once, and when its close() is over the port is closed
\* and its read thread done, whether close() did that or found it so.
OnceInv ==
    /\ main \in {"arguments", "exited"} \/ pc[Main] = "open_port" => reader = "none" /\ ~serial_open
    /\ pc[Main] = "spawn" => reader = "none"
    /\ serial_open => reader # "none" \/ pc[Main] = "spawn" \/ Refused
    /\ pc[Main] \in {"stop", "close_port", "join"} => reader # "none" \/ Refused
    /\ main = "opening" /\ pc[Main] = "idle" /\ ret[Main] # "OK"
          => reader = "none" /\ (~serial_open \/ Refused)
    /\ PastClose => ~Delivers /\ (~serial_open \/ Refused)

SurviveInv == OnlyTwoFaultsKill /\ (Alive => OnceInv)

\* The working thread waits for the samples it takes, and a wait that ends with
\* an error while main() serves leaves nothing to take, now or later.
Failed == worker = "fail" \/ (worker = "waiting" /\ pc[Worker] = "idle" /\ ret[Worker] = "ERROR")
FailInv ==
    /\ pc[Worker] \in WaitSteps => data_mask[Worker] = {GPGGA}
    /\ Alive /\ ~routine_running_ /\ Delivers => pc[Main] \in {"close_port", "join"}
    /\ main \in Serving /\ Failed
          => gpgga_data_queue_ = <<>> /\ ~routine_running_ /\ ~Delivers

\* A thread is in the library from its call to the return of that call, whatever
\* the other thread and the read thread do (gpgga_example.cpp:188-248).
LEMMA CallsStep ==
    TypeOK /\ ExitInv /\ CallsInv /\ [AppNext]_app_all => CallsInv'
<1>. SUFFICES ASSUME TypeOK, ExitInv, CallsInv, [AppNext]_app_all PROVE CallsInv'
  OBVIOUS
<1>. USE TwoThreads DEF TypeOK, ExitInv, Starting, Running, Ending, CallsInv, Serving, OpenSteps, CloseSteps, WaitSteps, DestroySteps
<1>1. ASSUME NEW t \in Clients, UNCHANGED app_vars,
             Continue(t) \/ SpuriousWakeup(t) \/ WaitTimeout(t)
      PROVE  CallsInv'
  <2>. USE DEF app_vars
  <2>1. CASE OpenPort(t)
    BY <1>1, <2>1 DEF OpenPort
  <2>2. CASE OpenSpawn(t)
    BY <1>1, <2>2 DEF OpenSpawn
  <2>3. CASE OpenReturn(t)
    BY <1>1, <2>3 DEF OpenReturn
  <2>4. CASE At(t, "dtor_close") /\ CloseCall(t)
    BY <1>1, <2>4 DEF CloseCall, StartClose, AfterClose
  <2>5. CASE CloseStop(t)
    BY <1>1, <2>5 DEF CloseStop
  <2>6. CASE ClosePort(t)
    BY <1>1, <2>6 DEF ClosePort
  <2>7. CASE CloseJoin(t)
    BY <1>1, <2>7 DEF CloseJoin
  <2>8. CASE CloseNotify(t)
    BY <1>1, <2>8 DEF CloseNotify, AfterClose, NotifyAll
  <2>9. CASE TakeUpdate(t)
    BY <1>1, <2>9 DEF TakeUpdate, StillReceived
  <2>10. CASE WaitCheck(t)
    BY <1>1, <2>10 DEF WaitCheck, WaitReturn
  <2>11. CASE WaitBlock(t)
    BY <1>1, <2>11 DEF WaitBlock
  <2>12. CASE WaitExpired(t)
    BY <1>1, <2>12 DEF WaitExpired, WaitReturn
  <2>13. CASE DestroyJoin(t)
    BY <1>1, <2>13 DEF DestroyJoin
  <2>14. CASE SpuriousWakeup(t)
    BY <1>1, <2>14 DEF SpuriousWakeup
  <2>15. CASE WaitTimeout(t)
    BY <1>1, <2>15 DEF WaitTimeout
  <2>. QED
    BY <1>1, <2>1, <2>2, <2>3, <2>4, <2>5, <2>6, <2>7, <2>8, <2>9, <2>10, <2>11, <2>12, <2>13, <2>14, <2>15 DEF Continue
<1>2. CASE ReaderNext /\ UNCHANGED app_vars
  <2>. USE DEF ReaderGoto, app_vars
  <2>1. CASE ReadLoop
    BY <1>2, <2>1 DEF ReadLoop
  <2>2. CASE ReadLineIsOpen \/ StartRead
    BY <1>2, <2>2 DEF ReadLineIsOpen, StartRead
  <2>3. CASE Device
    BY <1>2, <2>3 DEF Device, ReadChar, ReadOtherLine, ReadGpggaLine, ReadError, DecodeThrows
  <2>4. CASE ReadAborted
    BY <1>2, <2>4 DEF ReadAborted
  <2>5. CASE ReadClose
    BY <1>2, <2>5 DEF ReadClose
  <2>6. CASE PushSample
    BY <1>2, <2>6 DEF PushSample
  <2>7. CASE SetReceived
    BY <1>2, <2>7 DEF SetReceived
  <2>8. CASE NotifySample \/ NotifyStop
    BY <1>2, <2>8 DEF NotifySample, NotifyStop, NotifyAndGoto, NotifyAll
  <2>9. CASE StopRoutine
    BY <1>2, <2>9 DEF StopRoutine
  <2>10. CASE RaiseError
    BY <1>2, <2>10 DEF RaiseError
  <2>. QED
    BY <1>2, <2>1, <2>2, <2>3, <2>4, <2>5, <2>6, <2>7, <2>8, <2>9, <2>10 DEF ReaderNext, ReaderInternal
<1>3. CASE MainNext
  <2>1. CASE ParseOption
    BY <2>1 DEF ParseOption, Parsing, Exit, vars
  <2>2. CASE ParseHelp
    BY <2>2 DEF ParseHelp, Parsing, Exit, vars
  <2>3. CASE ParseUnknown
    BY <2>3 DEF ParseUnknown, Parsing, Exit, vars
  <2>4. CASE MainOpen
    BY <2>4 DEF MainOpen, shell_vars, OpenCall
  <2>5. CASE MainOpened
    BY <2>5 DEF MainOpened, vars, shell_vars, Idle
  <2>6. CASE MainCheck
    BY <2>6 DEF MainCheck, vars, shell_vars
  <2>7. CASE MainBlock
    BY <2>7 DEF MainBlock, vars, shell_vars
  <2>8. CASE MainClose
    BY <2>8 DEF MainClose, shell_vars, CloseCall, StartClose, AfterClose
  <2>9. CASE MainClosed
    BY <2>9 DEF MainClosed, vars, shell_vars, Idle
  <2>10. CASE MainJoin
    BY <2>10 DEF MainJoin, vars, shell_vars
  <2>11. CASE MainDestroy
    BY <2>11 DEF MainDestroy, shell_vars, Destroy, Queue!Clear
  <2>. QED
    BY <1>3, <2>1, <2>2, <2>3, <2>4, <2>5, <2>6, <2>7, <2>8, <2>9, <2>10, <2>11 DEF MainNext
<1>4. CASE WorkerNext
  <2>1. CASE WorkerWait
    BY <2>1 DEF WorkerWait, shell_vars, WaitCall
  <2>2. CASE WorkerWaited
    BY <2>2 DEF WorkerWaited, vars, shell_vars, Idle
  <2>3. CASE WorkerTake
    BY <2>3 DEF WorkerTake, shell_vars, TakeNext
  <2>4. CASE WorkerTookAll
    BY <2>4 DEF WorkerTookAll, vars, shell_vars, Idle
  <2>5. CASE WorkerLogFails
    BY <2>5 DEF WorkerLogFails, vars, shell_vars, Idle
  <2>6. CASE WorkerLogNotify
    BY <2>6 DEF WorkerLogNotify, vars, shell_vars, Notified
  <2>7. CASE WorkerLogExit
    BY <2>7 DEF WorkerLogExit, vars, shell_vars
  <2>8. CASE WorkerFail
    BY <2>8 DEF WorkerFail, vars, shell_vars
  <2>9. CASE WorkerFailNotify
    BY <2>9 DEF WorkerFailNotify, vars, shell_vars, Notified
  <2>. QED
    BY <1>4, <2>1, <2>2, <2>3, <2>4, <2>5, <2>6, <2>7, <2>8, <2>9 DEF WorkerNext
<1>5. CASE MainSpuriousWakeup \/ SignalCaught \/ SignalNotify
  BY <1>5 DEF MainSpuriousWakeup, SignalCaught, SignalNotify, Notified, vars, shell_vars
<1>6. CASE AppTerminating \/ UNCHANGED app_all
  BY <1>6 DEF AppTerminating, app_all, app_vars, vars
<1>. QED
  BY <1>1, <1>2, <1>3, <1>4, <1>5, <1>6 DEF AppNext, LibraryNext

\* A process that is dead changes nothing that its death is known by.
LEMMA DeadStays == ~Alive /\ SurviveInv /\ [AppNext]_app_all => SurviveInv'
<1>. SUFFICES ASSUME crash # "none", OnlyTwoFaultsKill, [AppNext]_app_all
              PROVE  UNCHANGED <<crash, main, worker, exit_code>>
  BY DEF SurviveInv, OnlyTwoFaultsKill, Alive
<1>1. main \notin {"arguments", "exited"}
  BY DEF OnlyTwoFaultsKill, Alive
<1>2. CASE LibraryNext
  <2>1. \A t \in Clients : ~Continue(t) /\ ~SpuriousWakeup(t) /\ ~WaitTimeout(t)
    BY DEF Continue, OpenPort, OpenSpawn, OpenReturn, CloseStop, ClosePort, CloseJoin, CloseNotify,
           TakeUpdate, WaitCheck, WaitBlock, WaitExpired, DestroyJoin, SpuriousWakeup, WaitTimeout
  <2>2. ~ReaderNext
    BY DEF ReaderNext, ReaderInternal, Device, ReaderGoto, ReadLoop, ReadLineIsOpen, StartRead,
           ReadChar, ReadOtherLine, ReadGpggaLine, ReadError, DecodeThrows, ReadAborted, ReadClose,
           PushSample, SetReceived, NotifySample, NotifyStop, NotifyAndGoto, StopRoutine, RaiseError
  <2>. QED BY <1>2, <2>1, <2>2 DEF LibraryNext
<1>3. CASE MainNext
  BY <1>1, <1>3, TwoThreads
     DEF MainNext, ParseOption, ParseHelp, ParseUnknown, Parsing, MainOpen, MainOpened, MainCheck,
         MainBlock, MainClose, MainClosed, MainJoin, MainDestroy, Alive, Idle, Destroy
<1>4. CASE WorkerNext
  BY <1>4 DEF WorkerNext, WorkerWait, WorkerWaited, WorkerTake, WorkerTookAll, WorkerLogFails,
              WorkerLogNotify, WorkerLogExit, WorkerFail, WorkerFailNotify, Alive, Idle, WaitCall
<1>. QED
  BY <1>2, <1>3, <1>4
     DEF AppNext, MainSpuriousWakeup, SignalCaught, SignalNotify, AppTerminating, app_all, app_vars,
         vars, shell_vars, Alive

\* The read thread is started once, joined once, and not in its critical
\* section when the queue is cleared (EasyNmeaImpl.cpp:46-64, 81 and 114-115).
LEMMA SurviveStep ==
    TypeOK /\ DataLockInv /\ ThreadInv /\ RunInv /\ ExitInv /\ CallsInv /\ SurviveInv /\ [AppNext]_app_all => SurviveInv'
<1>. SUFFICES ASSUME Alive, TypeOK, DataLockInv, ThreadInv, RunInv, ExitInv, CallsInv, SurviveInv, [AppNext]_app_all PROVE SurviveInv'
  BY DeadStays
<1>. USE TwoThreads, ClientsAssumption DEF TypeOK, ExitInv, Starting, Running, Ending, CallsInv, Serving, OpenSteps, CloseSteps, WaitSteps, DestroySteps, SurviveInv, OnlyTwoFaultsKill, OnceInv, Refused, PastClose, Alive,
              ThreadInv, HandleInv, PortLockInv, PortInv, DataLockInv, RunInv, Delivers, Reading
<1>1. ASSUME NEW t \in Clients, UNCHANGED app_vars,
             Continue(t) \/ SpuriousWakeup(t) \/ WaitTimeout(t)
      PROVE  SurviveInv'
  <2>. USE DEF app_vars
  <2>1. CASE OpenPort(t)
    BY <1>1, <2>1 DEF OpenPort
  <2>2. CASE OpenSpawn(t)
    BY <1>1, <2>2 DEF OpenSpawn
  <2>3. CASE OpenReturn(t)
    BY <1>1, <2>3 DEF OpenReturn
  <2>4. CASE At(t, "dtor_close") /\ CloseCall(t)
    BY <1>1, <2>4 DEF CloseCall, StartClose, AfterClose
  <2>5. CASE CloseStop(t)
    BY <1>1, <2>5 DEF CloseStop
  <2>6. CASE ClosePort(t)
    BY <1>1, <2>6 DEF ClosePort
  <2>7. CASE CloseJoin(t)
    BY <1>1, <2>7 DEF CloseJoin
  <2>8. CASE CloseNotify(t)
    BY <1>1, <2>8 DEF CloseNotify, AfterClose, NotifyAll
  <2>9. CASE TakeUpdate(t)
    BY <1>1, <2>9 DEF TakeUpdate, StillReceived
  <2>10. CASE WaitCheck(t)
    BY <1>1, <2>10 DEF WaitCheck, WaitReturn
  <2>11. CASE WaitBlock(t)
    BY <1>1, <2>11 DEF WaitBlock
  <2>12. CASE WaitExpired(t)
    BY <1>1, <2>12 DEF WaitExpired, WaitReturn
  <2>13. CASE DestroyJoin(t)
    BY <1>1, <2>13 DEF DestroyJoin
  <2>14. CASE SpuriousWakeup(t)
    BY <1>1, <2>14 DEF SpuriousWakeup
  <2>15. CASE WaitTimeout(t)
    BY <1>1, <2>15 DEF WaitTimeout
  <2>. QED
    BY <1>1, <2>1, <2>2, <2>3, <2>4, <2>5, <2>6, <2>7, <2>8, <2>9, <2>10, <2>11, <2>12, <2>13, <2>14, <2>15 DEF Continue
<1>2. CASE ReaderNext /\ UNCHANGED app_vars
  <2>. USE DEF ReaderGoto, app_vars
  <2>1. CASE ReadLoop
    BY <1>2, <2>1 DEF ReadLoop
  <2>2. CASE ReadLineIsOpen \/ StartRead
    BY <1>2, <2>2 DEF ReadLineIsOpen, StartRead
  <2>3. CASE Device
    BY <1>2, <2>3 DEF Device, ReadChar, ReadOtherLine, ReadGpggaLine, ReadError, DecodeThrows
  <2>4. CASE ReadAborted
    BY <1>2, <2>4 DEF ReadAborted
  <2>5. CASE ReadClose
    BY <1>2, <2>5 DEF ReadClose
  <2>6. CASE PushSample
    BY <1>2, <2>6 DEF PushSample
  <2>7. CASE SetReceived
    BY <1>2, <2>7 DEF SetReceived
  <2>8. CASE NotifySample \/ NotifyStop
    BY <1>2, <2>8 DEF NotifySample, NotifyStop, NotifyAndGoto, NotifyAll
  <2>9. CASE StopRoutine
    BY <1>2, <2>9 DEF StopRoutine
  <2>10. CASE RaiseError
    BY <1>2, <2>10 DEF RaiseError
  <2>. QED
    BY <1>2, <2>1, <2>2, <2>3, <2>4, <2>5, <2>6, <2>7, <2>8, <2>9, <2>10 DEF ReaderNext, ReaderInternal
<1>3. CASE MainNext
  <2>1. CASE ParseOption
    BY <2>1 DEF ParseOption, Parsing, Exit, vars
  <2>2. CASE ParseHelp
    BY <2>2 DEF ParseHelp, Parsing, Exit, vars
  <2>3. CASE ParseUnknown
    BY <2>3 DEF ParseUnknown, Parsing, Exit, vars
  <2>4. CASE MainOpen
    BY <2>4 DEF MainOpen, shell_vars, OpenCall
  <2>5. CASE MainOpened
    BY <2>5 DEF MainOpened, vars, shell_vars, Idle
  <2>6. CASE MainCheck
    BY <2>6 DEF MainCheck, vars, shell_vars
  <2>7. CASE MainBlock
    BY <2>7 DEF MainBlock, vars, shell_vars
  <2>8. CASE MainClose
    BY <2>8 DEF MainClose, shell_vars, CloseCall, StartClose, AfterClose
  <2>9. CASE MainClosed
    BY <2>9 DEF MainClosed, vars, shell_vars, Idle
  <2>10. CASE MainJoin
    BY <2>10 DEF MainJoin, vars, shell_vars
  <2>11. CASE MainDestroy
    BY <2>11 DEF MainDestroy, shell_vars, Destroy, Queue!Clear
  <2>. QED
    BY <1>3, <2>1, <2>2, <2>3, <2>4, <2>5, <2>6, <2>7, <2>8, <2>9, <2>10, <2>11 DEF MainNext
<1>4. CASE WorkerNext
  <2>1. CASE WorkerWait
    BY <2>1 DEF WorkerWait, shell_vars, WaitCall
  <2>2. CASE WorkerWaited
    BY <2>2 DEF WorkerWaited, vars, shell_vars, Idle
  <2>3. CASE WorkerTake
    BY <2>3 DEF WorkerTake, shell_vars, TakeNext
  <2>4. CASE WorkerTookAll
    BY <2>4 DEF WorkerTookAll, vars, shell_vars, Idle
  <2>5. CASE WorkerLogFails
    BY <2>5 DEF WorkerLogFails, vars, shell_vars, Idle
  <2>6. CASE WorkerLogNotify
    BY <2>6 DEF WorkerLogNotify, vars, shell_vars, Notified
  <2>7. CASE WorkerLogExit
    BY <2>7 DEF WorkerLogExit, vars, shell_vars
  <2>8. CASE WorkerFail
    BY <2>8 DEF WorkerFail, vars, shell_vars
  <2>9. CASE WorkerFailNotify
    BY <2>9 DEF WorkerFailNotify, vars, shell_vars, Notified
  <2>. QED
    BY <1>4, <2>1, <2>2, <2>3, <2>4, <2>5, <2>6, <2>7, <2>8, <2>9 DEF WorkerNext
<1>5. CASE MainSpuriousWakeup \/ SignalCaught \/ SignalNotify
  BY <1>5 DEF MainSpuriousWakeup, SignalCaught, SignalNotify, Notified, vars, shell_vars
<1>6. CASE AppTerminating \/ UNCHANGED app_all
  BY <1>6 DEF AppTerminating, app_all, app_vars, vars
<1>. QED
  BY <1>1, <1>2, <1>3, <1>4, <1>5, <1>6 DEF AppNext, LibraryNext

\* A wait fails only when the read thread has stopped of its own accord and
\* nothing was left (EasyNmeaImpl.cpp:159-172 and 216-219).
LEMMA FailStep ==
    TypeOK /\ DataInv /\ ThreadInv /\ RunInv /\ ExitInv /\ CallsInv /\ FailInv /\ [AppNext]_app_all => FailInv'
<1>. SUFFICES ASSUME TypeOK, DataInv, ThreadInv, RunInv, ExitInv, CallsInv, FailInv, [AppNext]_app_all PROVE FailInv'
  OBVIOUS
<1>. USE TwoThreads, ClientsAssumption, MaskAssumption DEF TypeOK, ExitInv, Starting, Running, Ending, CallsInv, Serving, OpenSteps, CloseSteps, WaitSteps, DestroySteps, FailInv, Failed, Alive,
              DataInv, DataLockInv, BitInv, BitMatches, ThreadInv, HandleInv, PortInv, Delivers, Reading
<1>1. ASSUME NEW t \in Clients, UNCHANGED app_vars,
             Continue(t) \/ SpuriousWakeup(t) \/ WaitTimeout(t)
      PROVE  FailInv'
  <2>. USE DEF app_vars
  <2>1. CASE OpenPort(t)
    BY <1>1, <2>1 DEF OpenPort
  <2>2. CASE OpenSpawn(t)
    BY <1>1, <2>2 DEF OpenSpawn
  <2>3. CASE OpenReturn(t)
    BY <1>1, <2>3 DEF OpenReturn
  <2>4. CASE At(t, "dtor_close") /\ CloseCall(t)
    BY <1>1, <2>4 DEF CloseCall, StartClose, AfterClose
  <2>5. CASE CloseStop(t)
    BY <1>1, <2>5 DEF CloseStop
  <2>6. CASE ClosePort(t)
    BY <1>1, <2>6 DEF ClosePort
  <2>7. CASE CloseJoin(t)
    BY <1>1, <2>7 DEF CloseJoin
  <2>8. CASE CloseNotify(t)
    BY <1>1, <2>8 DEF CloseNotify, AfterClose, NotifyAll
  <2>9. CASE TakeUpdate(t)
    BY <1>1, <2>9 DEF TakeUpdate, StillReceived
  <2>10. CASE WaitCheck(t)
    BY <1>1, <2>10 DEF WaitCheck, WaitReturn, WaitPredicate, WaitVerdict
  <2>11. CASE WaitBlock(t)
    BY <1>1, <2>11 DEF WaitBlock
  <2>12. CASE WaitExpired(t)
    BY <1>1, <2>12 DEF WaitExpired, WaitReturn, WaitPredicate, WaitVerdict
  <2>13. CASE DestroyJoin(t)
    BY <1>1, <2>13 DEF DestroyJoin
  <2>14. CASE SpuriousWakeup(t)
    BY <1>1, <2>14 DEF SpuriousWakeup
  <2>15. CASE WaitTimeout(t)
    BY <1>1, <2>15 DEF WaitTimeout
  <2>. QED
    BY <1>1, <2>1, <2>2, <2>3, <2>4, <2>5, <2>6, <2>7, <2>8, <2>9, <2>10, <2>11, <2>12, <2>13, <2>14, <2>15 DEF Continue
<1>2. CASE ReaderNext /\ UNCHANGED app_vars
  <2>. USE DEF ReaderGoto, app_vars
  <2>1. CASE ReadLoop
    BY <1>2, <2>1 DEF ReadLoop
  <2>2. CASE ReadLineIsOpen \/ StartRead
    BY <1>2, <2>2 DEF ReadLineIsOpen, StartRead
  <2>3. CASE Device
    BY <1>2, <2>3 DEF Device, ReadChar, ReadOtherLine, ReadGpggaLine, ReadError, DecodeThrows
  <2>4. CASE ReadAborted
    BY <1>2, <2>4 DEF ReadAborted
  <2>5. CASE ReadClose
    BY <1>2, <2>5 DEF ReadClose
  <2>6. CASE PushSample
    BY <1>2, <2>6 DEF PushSample
  <2>7. CASE SetReceived
    BY <1>2, <2>7 DEF SetReceived
  <2>8. CASE NotifySample \/ NotifyStop
    BY <1>2, <2>8 DEF NotifySample, NotifyStop, NotifyAndGoto, NotifyAll
  <2>9. CASE StopRoutine
    BY <1>2, <2>9 DEF StopRoutine
  <2>10. CASE RaiseError
    BY <1>2, <2>10 DEF RaiseError
  <2>. QED
    BY <1>2, <2>1, <2>2, <2>3, <2>4, <2>5, <2>6, <2>7, <2>8, <2>9, <2>10 DEF ReaderNext, ReaderInternal
<1>3. CASE MainNext
  <2>1. CASE ParseOption
    BY <2>1 DEF ParseOption, Parsing, Exit, vars
  <2>2. CASE ParseHelp
    BY <2>2 DEF ParseHelp, Parsing, Exit, vars
  <2>3. CASE ParseUnknown
    BY <2>3 DEF ParseUnknown, Parsing, Exit, vars
  <2>4. CASE MainOpen
    BY <2>4 DEF MainOpen, shell_vars, OpenCall
  <2>5. CASE MainOpened
    BY <2>5 DEF MainOpened, vars, shell_vars, Idle
  <2>6. CASE MainCheck
    BY <2>6 DEF MainCheck, vars, shell_vars
  <2>7. CASE MainBlock
    BY <2>7 DEF MainBlock, vars, shell_vars
  <2>8. CASE MainClose
    BY <2>8 DEF MainClose, shell_vars, CloseCall, StartClose, AfterClose
  <2>9. CASE MainClosed
    BY <2>9 DEF MainClosed, vars, shell_vars, Idle
  <2>10. CASE MainJoin
    BY <2>10 DEF MainJoin, vars, shell_vars
  <2>11. CASE MainDestroy
    BY <2>11 DEF MainDestroy, shell_vars, Destroy, Queue!Clear
  <2>. QED
    BY <1>3, <2>1, <2>2, <2>3, <2>4, <2>5, <2>6, <2>7, <2>8, <2>9, <2>10, <2>11 DEF MainNext
<1>4. CASE WorkerNext
  <2>1. CASE WorkerWait
    BY <2>1 DEF WorkerWait, shell_vars, WaitCall
  <2>2. CASE WorkerWaited
    BY <2>2 DEF WorkerWaited, vars, shell_vars, Idle
  <2>3. CASE WorkerTake
    BY <2>3 DEF WorkerTake, shell_vars, TakeNext
  <2>4. CASE WorkerTookAll
    BY <2>4 DEF WorkerTookAll, vars, shell_vars, Idle
  <2>5. CASE WorkerLogFails
    BY <2>5 DEF WorkerLogFails, vars, shell_vars, Idle
  <2>6. CASE WorkerLogNotify
    BY <2>6 DEF WorkerLogNotify, vars, shell_vars, Notified
  <2>7. CASE WorkerLogExit
    BY <2>7 DEF WorkerLogExit, vars, shell_vars
  <2>8. CASE WorkerFail
    BY <2>8 DEF WorkerFail, vars, shell_vars
  <2>9. CASE WorkerFailNotify
    BY <2>9 DEF WorkerFailNotify, vars, shell_vars, Notified
  <2>. QED
    BY <1>4, <2>1, <2>2, <2>3, <2>4, <2>5, <2>6, <2>7, <2>8, <2>9 DEF WorkerNext
<1>5. CASE MainSpuriousWakeup \/ SignalCaught \/ SignalNotify
  BY <1>5 DEF MainSpuriousWakeup, SignalCaught, SignalNotify, Notified, vars, shell_vars
<1>6. CASE AppTerminating \/ UNCHANGED app_all
  BY <1>6 DEF AppTerminating, app_all, app_vars, vars
<1>. QED
  BY <1>1, <1>2, <1>3, <1>4, <1>5, <1>6 DEF AppNext, LibraryNext

\* What is proved of the library is available under the example.
LEMMA LibraryInvariants == AppSpec => [](TypeOK /\ DataInv /\ ThreadInv /\ RunInv)
BY ExampleUsesLibrary, TypeCorrect, DataInvariant, ThreadInvariant, RunInvariant, PTL

\* The control of the two threads, inside and outside of the library.
LEMMA ControlInvariant == AppSpec => [](ExitInv /\ CallsInv)
<1>1. AppInit => ExitInv /\ CallsInv
  BY TwoThreads DEF AppInit, Init, ExitInv, Starting, Running, Ending, CallsInv, Serving
<1>2. TypeOK /\ ExitInv /\ CallsInv /\ [AppNext]_app_all => (ExitInv /\ CallsInv)'
  BY ExitStep, CallsStep
<1>. QED
  BY <1>1, <1>2, LibraryInvariants, PTL DEF AppSpec

\* The example dies of a refused baudrate, of a sentence decode() cannot convert,
\* and of nothing else (gpgga_example.cpp:213-248, EasyNmeaImpl.cpp:46-64).
THEOREM ExampleSurvives == AppSpec => []OnlyTwoFaultsKill
<1>1. AppInit => SurviveInv
  BY TwoThreads DEF AppInit, Init, SurviveInv, OnlyTwoFaultsKill, OnceInv, Refused, PastClose, Alive
<1>2. /\ TypeOK /\ DataInv /\ ThreadInv /\ RunInv /\ ExitInv /\ CallsInv
      /\ SurviveInv /\ [AppNext]_app_all
      => SurviveInv'
  BY SurviveStep DEF DataInv
<1>3. SurviveInv => OnlyTwoFaultsKill
  BY DEF SurviveInv
<1>. QED
  BY <1>1, <1>2, <1>3, LibraryInvariants, ControlInvariant, PTL DEF AppSpec

\* When the working thread reports an error of its own accord it has taken every
\* sample there was, and there will be no other
\* (gpgga_example.cpp:129-158, EasyNmeaImpl.cpp:172).
THEOREM FailureIsComplete == AppSpec => []FailureLosesNothing
<1>1. AppInit => FailInv
  BY TwoThreads DEF AppInit, Init, FailInv, Failed, Serving, WaitSteps, Delivers, Reading
<1>2. /\ TypeOK /\ DataInv /\ ThreadInv /\ RunInv /\ ExitInv /\ CallsInv
      /\ FailInv /\ [AppNext]_app_all
      => FailInv'
  BY FailStep
<1>3. FailInv => FailureLosesNothing
  BY DEF FailInv, Failed, Serving, FailureLosesNothing
<1>. QED
  BY <1>1, <1>2, <1>3, LibraryInvariants, ControlInvariant, PTL DEF AppSpec


\* No step of main(), of the working thread or of the handler leaves the places
\* they have, and the handler is installed with the working thread.
LEMMA AppTypeStep == ExitInv /\ AppTypeOK /\ [AppNext]_app_all => AppTypeOK'
<1>. SUFFICES ASSUME ExitInv, AppTypeOK, [AppNext]_app_all PROVE AppTypeOK'
  OBVIOUS
<1>. USE DEF ExitInv, Starting, AppTypeOK
<1>1. CASE MainNext
  <2>1. CASE ParseOption \/ ParseHelp \/ ParseUnknown
    BY <2>1 DEF ParseOption, ParseHelp, ParseUnknown, Parsing, Exit
  <2>2. CASE MainOpen
    BY <2>2 DEF MainOpen, shell_vars
  <2>3. CASE MainOpened
    <3>1. sigint' = "armed" \/ UNCHANGED <<running, worker, sigint>>
      BY <2>3 DEF MainOpened
    <3>2. running' \in BOOLEAN /\ sigint' \in {"off", "armed", "caught", "handled"}
      BY <2>3, <3>1 DEF MainOpened
    <3>3. main' \in {"check", "destroy"} /\ worker' \in {worker, "wait"} /\ exit_code' \in {"1", exit_code}
      BY <2>3 DEF MainOpened
    <3>. QED
      BY <3>1, <3>2, <3>3
  <2>4. CASE MainCheck \/ MainBlock
    BY <2>4 DEF MainCheck, MainBlock, shell_vars
  <2>5. CASE MainClose \/ MainClosed \/ MainJoin \/ MainDestroy
    BY <2>5 DEF MainClose, MainClosed, MainJoin, MainDestroy, shell_vars
  <2>. QED
    BY <1>1, <2>1, <2>2, <2>3, <2>4, <2>5 DEF MainNext
<1>2. CASE WorkerNext
  <2>1. CASE WorkerWait \/ WorkerWaited \/ WorkerTake \/ WorkerTookAll
    BY <2>1 DEF WorkerWait, WorkerWaited, WorkerTake, WorkerTookAll, shell_vars
  <2>2. CASE WorkerLogFails \/ WorkerLogNotify \/ WorkerLogExit
    BY <2>2 DEF WorkerLogFails, WorkerLogNotify, WorkerLogExit, Notified, shell_vars
  <2>3. CASE WorkerFail \/ WorkerFailNotify
    BY <2>3 DEF WorkerFail, WorkerFailNotify, Notified, shell_vars
  <2>. QED
    BY <1>2, <2>1, <2>2, <2>3 DEF WorkerNext
<1>3. CASE MainSpuriousWakeup \/ SignalCaught \/ SignalNotify
  <2>1. CASE MainSpuriousWakeup
    BY <2>1 DEF MainSpuriousWakeup, shell_vars
  <2>2. CASE SignalCaught
    BY <2>2 DEF SignalCaught, shell_vars
  <2>3. CASE SignalNotify
    BY <2>3 DEF SignalNotify, Notified, shell_vars
  <2>. QED
    BY <1>3, <2>1, <2>2, <2>3
<1>4. CASE LibraryNext \/ AppTerminating \/ UNCHANGED app_all
  BY <1>4 DEF LibraryNext, AppTerminating, app_all, app_vars
<1>. QED
  BY <1>1, <1>2, <1>3, <1>4 DEF AppNext

\* The threads of the example are where the code has a place for them
\* (gpgga_example.cpp:72-75, 113-160 and 188-248).
THEOREM AppTypeCorrect == AppSpec => []AppTypeOK
<1>1. AppInit => AppTypeOK
  BY DEF AppInit, AppTypeOK
<1>. QED
  BY <1>1, AppTypeStep, ControlInvariant, PTL DEF AppSpec


=============================================================================
