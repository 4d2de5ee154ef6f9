---------------------------- MODULE GpggaExample ----------------------------
(***************************************************************************)
(* examples/gpgga_example.cpp on top of EasyNmeaImpl: main() parses its    *)
(* arguments, opens the port, starts a working thread that waits for       *)
(* samples and takes them, and blocks until SIGINT or the working thread   *)
(* tells it to close.  test/system/system_tests.cpp has the same structure *)
(* and logs each sample, which may fail: LogMayFail is for that program.   *)
(*                                                                         *)
(* The two threads are the clients Main and Worker of the library.  A call *)
(* starts with the library's action and returns when the client is idle    *)
(* again.  The signal handler runs on any thread at any time; mtx is taken *)
(* by main() alone, so it orders nothing and is left out.                  *)
(***************************************************************************)
EXTENDS EasyNmeaImpl

CONSTANTS
    Main, Worker,
    LogMayFail,     \* whether taking a sample includes logging it
    CommandLines    \* each a sequence of "help", "option", of which there are
                    \* two, and "word", which is neither

ASSUME ThreadsAssumption == Clients = {Main, Worker} /\ Main # Worker
ASSUME LogAssumption == LogMayFail \in BOOLEAN
\* NMEA0183DataKindMask data_mask = NMEA0183DataKind::GPGGA
ASSUME MaskAssumption == Masks = {{GPGGA}}
ASSUME CommandLinesAssumption == CommandLines \subseteq Seq({"help", "option", "word"})

VARIABLES
    running,   \* the atomic flag main() waits for
    main,      \* control of main()
    worker,    \* control of working_routine()
    sigint,    \* "off" until the handler is installed, then its progress
    argv,      \* the arguments that main() has not parsed yet
    exit_code  \* what the program returns, or would now

app_vars == <<running, main, worker, sigint, argv, exit_code>>
shell_vars == <<argv, exit_code>>

AppTypeOK ==
    /\ running \in BOOLEAN
    /\ main \in {"arguments", "exited", "opening", "check", "block", "blocked", "close", "closing",
                 "join", "destroy", "returned"}
    /\ worker \in {"none", "wait", "waiting", "taking", "fail", "fail_notify", "done",
                   "log_notify", "log_exit", "log_failed"}
    /\ exit_code \in {"0", "1", "undefined"}
    /\ sigint \in {"off", "armed", "caught", "handled"}
    /\ sigint = "off" => worker = "none" /\ ~running

AppInit ==
    /\ Init
    /\ running = FALSE /\ main = "arguments" /\ worker = "none" /\ sigint = "off"
    /\ argv \in CommandLines /\ exit_code = "0"

Alive == crash = "none"
Idle(t) == At(t, "idle")

\* cv.notify_one(): main() is the only thread that ever waits.
Notified == IF main = "blocked" THEN "check" ELSE main

-----------------------------------------------------------------------------
(* main(): the arguments *)

Parsing(argument) == main = "arguments" /\ argv # <<>> /\ Head(argv) = argument

Exit(code) ==
    /\ main' = "exited" /\ exit_code' = code
    /\ UNCHANGED <<argv, running, worker, sigint, vars>>

\* An option takes the argument after it, whatever it is; after the last one
\* there is a null pointer, which no conversion may be given.
ParseOption ==
    /\ Parsing("option")
    /\ \/ Len(argv) = 1 /\ Exit("undefined")
       \/ /\ Len(argv) > 1
          /\ argv' = Tail(Tail(argv))
          /\ UNCHANGED <<main, exit_code, running, worker, sigint, vars>>

ParseHelp == Parsing("help") /\ Exit("0")
ParseUnknown == Parsing("word") /\ Exit("1")

-----------------------------------------------------------------------------
(* main(): the port *)

MainOpen ==
    /\ main = "arguments" /\ argv = <<>> /\ OpenCall(Main)
    /\ main' = "opening" /\ UNCHANGED <<running, worker, sigint, shell_vars>>

MainOpenedEarly ==
    /\ main = "opening" /\ Idle(Main)
    /\ running' = TRUE
    /\ main' = IF ret[Main] = "OK" THEN "check" ELSE "destroy"
    /\ IF ret[Main] = "OK" THEN worker' = "wait" /\ sigint' = "armed"
       ELSE UNCHANGED <<worker, sigint>>
    /\ UNCHANGED <<shell_vars, vars>>

\* Only an OK starts the working thread and installs the handler.
MainOpened ==
    /\ main = "opening" /\ Idle(Main)
    /\ \/ /\ ret[Main] = "OK"
          /\ running' = TRUE /\ worker' = "wait" /\ sigint' = "armed" /\ main' = "check"
          /\ UNCHANGED exit_code
       \/ /\ ret[Main] # "OK"
          /\ main' = "destroy" /\ exit_code' = "1" /\ UNCHANGED <<running, worker, sigint>>
    /\ UNCHANGED <<argv, vars>>

\* cv.wait(lck, [&](){ return !running.load(); })
MainCheck ==
    /\ Alive /\ main = "check"
    /\ main' = IF running THEN "block" ELSE "close"
    /\ UNCHANGED <<running, worker, sigint, shell_vars, vars>>

MainBlock ==
    /\ Alive /\ main = "block" /\ main' = "blocked"
    /\ UNCHANGED <<running, worker, sigint, shell_vars, vars>>

\* cv.wait() may also wake up for no reason.
MainSpuriousWakeup ==
    /\ Alive /\ main = "blocked" /\ main' = "check"
    /\ UNCHANGED <<running, worker, sigint, shell_vars, vars>>

MainSkipsClose ==
    main = "close" /\ main' = "join" /\ UNCHANGED <<running, worker, sigint, shell_vars, vars>>

MainClose ==
    /\ main = "close" /\ (At(Main, "idle") /\ CloseCall(Main))
    /\ main' = "closing" /\ UNCHANGED <<running, worker, sigint, shell_vars>>

MainForgetsJoin ==
    /\ main = "closing" /\ Idle(Main)
    /\ main' = "destroy" /\ UNCHANGED <<running, worker, sigint, shell_vars, vars>>

MainClosed ==
    /\ main = "closing" /\ Idle(Main)
    /\ main' = "join" /\ UNCHANGED <<running, worker, sigint, shell_vars, vars>>

\* working_thread.join()
MainJoin ==
    /\ Alive /\ main = "join" /\ worker \in {"done", "log_failed"}
    /\ main' = "destroy" /\ UNCHANGED <<running, worker, sigint, shell_vars, vars>>

MainDestroy ==
    /\ main = "destroy" /\ Destroy(Main)
    /\ main' = "returned" /\ UNCHANGED <<running, worker, sigint, shell_vars>>

-----------------------------------------------------------------------------
(* working_routine() *)

WorkerWait ==
    /\ worker = "wait" /\ WaitCall(Worker)
    /\ worker' = "waiting" /\ UNCHANGED <<running, main, sigint, shell_vars>>

\* Only ERROR is reported to main(); the other results end the routine.
WorkerWaited ==
    /\ worker = "waiting" /\ Idle(Worker) /\ ret[Worker] # "OK"
    /\ worker' = IF ret[Worker] = "ERROR" THEN "fail" ELSE "done"
    /\ UNCHANGED <<running, main, sigint, shell_vars, vars>>

\* take_next() after a successful wait or take, until there is NO_DATA.
WorkerTake ==
    /\ worker \in {"waiting", "taking"} /\ Idle(Worker) /\ ret[Worker] = "OK"
    /\ TakeNext(Worker)
    /\ worker' = "taking" /\ UNCHANGED <<running, main, sigint, shell_vars>>

\* A sample that cannot be logged: the exit code is stored after main() has
\* been told to close.
WorkerLogFails ==
    /\ worker = "taking" /\ Idle(Worker) /\ ret[Worker] = "OK" /\ LogMayFail
    /\ running' = FALSE
    /\ worker' = "log_notify" /\ UNCHANGED <<main, sigint, shell_vars, vars>>

WorkerLogNotify ==
    /\ Alive /\ worker = "log_notify" /\ main' = Notified
    /\ worker' = "log_exit" /\ UNCHANGED <<running, sigint, shell_vars, vars>>

WorkerLogExit ==
    /\ Alive /\ worker = "log_exit" /\ exit_code' = "1"
    /\ worker' = "log_failed" /\ UNCHANGED <<running, main, sigint, argv, vars>>

WorkerTookAll ==
    /\ worker = "taking" /\ Idle(Worker) /\ ret[Worker] # "OK"
    /\ worker' = "wait" /\ UNCHANGED <<running, main, sigint, shell_vars, vars>>

WorkerFail ==
    /\ Alive /\ worker = "fail"
    /\ running' = FALSE
    /\ worker' = "fail_notify" /\ UNCHANGED <<main, sigint, shell_vars, vars>>

WorkerFailNotify ==
    /\ Alive /\ worker = "fail_notify" /\ main' = Notified
    /\ worker' = "done" /\ UNCHANGED <<running, sigint, shell_vars, vars>>

-----------------------------------------------------------------------------
(* signal_handler_callback() *)

SignalCaught ==
    /\ Alive /\ sigint = "armed" /\ main # "returned"
    /\ running' = FALSE
    /\ sigint' = "caught" /\ UNCHANGED <<main, worker, shell_vars, vars>>

SignalNotify ==
    /\ Alive /\ sigint = "caught" /\ main' = Notified
    /\ sigint' = "handled" /\ UNCHANGED <<running, worker, shell_vars, vars>>

-----------------------------------------------------------------------------
MainNext ==
    \/ ParseOption \/ ParseHelp \/ ParseUnknown
    \/ MainOpen \/ MainOpened \/ MainCheck \/ MainBlock
    \/ MainClose \/ MainClosed \/ MainJoin \/ MainDestroy

WorkerNext ==
    \/ WorkerWait \/ WorkerWaited \/ WorkerTake \/ WorkerTookAll
    \/ WorkerLogFails \/ WorkerLogNotify \/ WorkerLogExit
    \/ WorkerFail \/ WorkerFailNotify

\* The library goes on with the calls in progress, and the read thread reads.
LibraryNext ==
    /\ ReaderNext \/ \E t \in Clients : Continue(t) \/ SpuriousWakeup(t) \/ WaitTimeout(t)
    /\ UNCHANGED app_vars

AppTerminating ==
    /\ main = "exited" \/ crash # "none" \/ life = "destroyed"
    /\ UNCHANGED <<vars, app_vars>>

AppNext ==
    \/ LibraryNext
    \/ MainNext \/ MainSpuriousWakeup
    \/ WorkerNext
    \/ SignalCaught \/ SignalNotify
    \/ AppTerminating

app_all == <<vars, app_vars>>
AppSpec == AppInit /\ [][AppNext]_app_all

\* Every thread is scheduled, timeouts expire; SIGINT may never come.
AppFairness ==
    /\ WF_app_all(ReaderInternal /\ UNCHANGED app_vars)
    /\ \A t \in Clients :
          /\ WF_app_all(Continue(t) /\ UNCHANGED app_vars)
          /\ SF_app_all(WaitTimeout(t) /\ UNCHANGED app_vars)
    /\ WF_app_all(MainNext)
    /\ WF_app_all(WorkerNext)
    /\ WF_app_all(SignalNotify)
FairAppSpec == AppSpec /\ AppFairness

-----------------------------------------------------------------------------
(* Properties *)

\* The program can die of two faults of its surroundings, and of nothing else:
\* of a port that opened and refused its baudrate, when main() has given up;
\* and of a sentence that decode() cannot convert, until close() has returned.
\* Although it calls the library from two threads and destroys it at the end,
\* the read thread is never joined twice, replaced, or left running when the
\* queue is cleared (gpgga_example.cpp:213-248, EasyNmeaImpl.cpp:46-64).
OnlyTwoFaultsKill ==
    \/ Alive
    \/ /\ crash = "null_join" /\ "set_option" \in Faults
       /\ main = "returned" /\ worker = "none" /\ exit_code = "1"
    \/ /\ crash = "decode" /\ "sentence" \in Faults
       /\ main \in {"opening", "check", "block", "blocked", "close", "closing"}

\* When the working thread tells main() of an error of its own accord, it has
\* printed every sample that arrived and was not dropped by the full queue,
\* and no other will arrive (gpgga_example.cpp:129-158, EasyNmeaImpl.cpp:172).
FailureLosesNothing ==
    worker = "fail" /\ main \in {"check", "block", "blocked"}
        => gpgga_data_queue_ = <<>> /\ ~Delivers

\* Once main() decides to close, the program ends: close() and the timeout of
\* wait_for_data() together get the working thread out of its wait, unless
\* decode() dies first (gpgga_example.cpp:242-248).
ExampleReturns == main = "close" ~> life = "destroyed" \/ crash = "decode"

\* The exit code tells how the program ended, as it is read once the working
\* thread has been joined: 1 if a sample could not be logged, or the port not
\* opened, and 0 only after a routine that ended otherwise
\* (system_tests.cpp:143-146 and 269-272, gpgga_example.cpp:213-248).
ExitCodeIsRight ==
    main = "returned" => exit_code = (IF worker = "done" THEN "0" ELSE "1")

\* CTRL-C stops the example: it ends the wait of main() (gpgga_example.cpp:223
\* and 225-229).  Not when the handler runs between the check and the blocking
\* of main(), as it stores and notifies without the mutex.
CtrlCStops == sigint = "handled" ~> main = "returned" \/ crash # "none"

\* If some error happens while waiting, the routine exits setting the running
\* flag to false (gpgga_example.cpp:109-110).  Not when the read thread
\* closed the port between two waits: the result is ILLEGAL_OPERATION then.
WorkerErrorStopsMain ==
    worker = "done" /\ ret[Worker] = "ILLEGAL_OPERATION" => ~running
=============================================================================
