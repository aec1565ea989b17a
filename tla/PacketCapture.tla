---------------------------- MODULE PacketCapture ----------------------------
(***************************************************************************)
(* The live capture of services/capture_service.py: three module globals   *)
(* that requests and playbook executors, each in a thread of its own, read *)
(* and write without a lock, and the tshark processes they stand for.      *)
(* A step reads or writes the globals once: an assignment between globals  *)
(* is not interrupted, two statements are.                                 *)
(***************************************************************************)
EXTENDS Naturals, Sequences, FiniteSets

CONSTANTS
    Starters,       \* threads that serve POST /capture/start
    Stoppers,       \* threads that serve POST /capture/stop
    Resetters,      \* threads that serve DELETE /capture/session
    Executors,      \* background threads in PacketCaptureExecutor
    MaxCaptures,    \* bound: no start is called once this many processes were spawned
    MaxTime         \* bound: the clock stops here

ASSUME RolesAssumption ==
    /\ (Starters \cup Executors) \cap Resetters = {}
    /\ Stoppers \cap (Starters \cup Executors \cup Resetters) = {}
    /\ Starters \cap Executors = {}
ASSUME BoundsAssumption == MaxCaptures \in Nat /\ MaxTime \in Nat \ {0}

Threads == Starters \cup Stoppers \cup Resetters \cup Executors

\* Processes and files are numbered from 1: a file is named after the second of
\* its start. None is the Python value in both places.
None == 0

VARIABLES
    process,        \* _capture_process
    captureFile,    \* _capture_file
    lastFile,       \* _last_capture_file
    tshark,         \* the processes spawned so far: the file each writes, and its status
    th,             \* the call each thread is in
    now             \* int(time.time()), monotone here

globals == <<process, captureFile, lastFile>>
vars == <<globals, tshark, th, now>>

Starting == {"name", "spawn", "bind", "started"}
Stopping == {"terminate", "wait", "waiting", "kill", "killed", "reaping",
             "clear", "promote", "stopped"}
Resetting == {"hangup", "await", "awaiting", "release", "forget", "forgetLast"}

\* own: the process this thread spawned; target: the one its stop or reset found
\* (history); waits: the one its wait() blocks on; file: what stop_capture returned
\* to an executor; analysed: the file it has analysed. The file returned to a
\* request leaves the model with the response.
Call == [pc       : {"idle", "sleep", "analyse", "done"} \cup Starting \cup Stopping \cup Resetting,
         own      : Nat, target : Nat, waits : Nat, file : Nat, analysed : Nat]
Idle == [pc |-> "idle", own |-> None, target |-> None, waits |-> None,
         file |-> None, analysed |-> None]

Tshark == [file : 1..MaxTime, status : {"running", "stopping", "gone"}]
Alive(p) == tshark[p].status # "gone"

\* A blocked wait() has a process to wait for.
TypeOK ==
    /\ process \in 0..Len(tshark)
    /\ captureFile \in 0..MaxTime
    /\ lastFile \in 0..MaxTime
    /\ tshark \in Seq(Tshark)
    /\ th \in [Threads -> Call]
    /\ \A t \in Threads : /\ {th[t].own, th[t].target, th[t].waits} \subseteq 0..Len(tshark)
                          /\ th[t].pc \in {"waiting", "reaping", "awaiting"} => th[t].waits # None
    /\ now \in 1..MaxTime

Init ==
    /\ process = None /\ captureFile = None /\ lastFile = None
    /\ tshark = <<>>
    /\ th = [t \in Threads |-> Idle]
    /\ now = 1

-----------------------------------------------------------------------------
(* The processes *)

\* SIGTERM asks a running tshark to stop, a dead one is left alone; SIGKILL ends it.
Terminated(p) == [tshark EXCEPT ![p].status = IF @ = "gone" THEN @ ELSE "stopping"]
Killed(p) == [tshark EXCEPT ![p].status = "gone"]

\* tshark ends: after a SIGTERM, or on its own (the interface is gone, the disk is full).
Exit(p) ==
    /\ Alive(p)
    /\ tshark' = [tshark EXCEPT ![p].status = "gone"]
    /\ UNCHANGED <<globals, th, now>>

Tick ==
    /\ now < MaxTime
    /\ now' = now + 1
    /\ UNCHANGED <<globals, tshark, th>>

\* What a step does to the frame of its thread: move on, or leave the call.
Goto(t, pc) ==
    /\ th' = [th EXCEPT ![t].pc = pc]
    /\ UNCHANGED now
Return(t) ==
    /\ th' = [th EXCEPT ![t] = Idle]
    /\ UNCHANGED now

-----------------------------------------------------------------------------
(* start_capture *)

\* Mutant of StartCheck: the global is not looked at.
StartCheckSkipped(t) ==
    /\ t \in Starters \cup Executors
    /\ th[t].pc \in {"idle", "done"}
    /\ Len(tshark) < MaxCaptures
    /\ th' = [th EXCEPT ![t] = [Idle EXCEPT !.pc = "name"]]
    /\ UNCHANGED <<globals, tshark, now>>

\* A call that finds a capture returns an error and changes nothing; an executor
\* fails its step. Both are stutters.
StartCheck(t) ==
    /\ t \in Starters \cup Executors
    /\ th[t].pc \in {"idle", "done"}
    /\ Len(tshark) < MaxCaptures
    /\ process = None
    /\ th' = [th EXCEPT ![t] = [Idle EXCEPT !.pc = "name"]]
    /\ UNCHANGED <<globals, tshark, now>>

NameFile(t) ==
    /\ th[t].pc = "name"
    /\ captureFile' = now
    /\ Goto(t, "spawn")
    /\ UNCHANGED <<process, lastFile, tshark>>

\* Popen reads the global again, and rejects a None among its arguments.
Spawn(t) ==
    /\ th[t].pc = "spawn"
    /\ captureFile # None
    /\ tshark' = Append(tshark, [file |-> captureFile, status |-> "running"])
    /\ th' = [th EXCEPT ![t].pc = "bind", ![t].own = Len(tshark) + 1]
    /\ UNCHANGED <<globals, now>>

\* makedirs or Popen raises.
StartRaises(t) ==
    /\ th[t].pc \in {"name", "spawn"}
    /\ Return(t)
    /\ UNCHANGED <<globals, tshark>>

Bind(t) ==
    /\ th[t].pc = "bind"
    /\ process' = th[t].own
    /\ Goto(t, "started")
    /\ UNCHANGED <<captureFile, lastFile, tshark>>

\* A request returns; an executor sleeps for the duration of its step.
Started(t) ==
    /\ th[t].pc = "started"
    /\ th' = [th EXCEPT ![t] = IF t \in Executors THEN [@ EXCEPT !.pc = "sleep"] ELSE Idle]
    /\ UNCHANGED <<globals, tshark, now>>

-----------------------------------------------------------------------------
(* stop_capture *)

\* The call of a request that finds no capture returns an error: a stutter.
StopCheck(t) ==
    /\ \/ t \in Stoppers /\ th[t].pc = "idle"
       \/ th[t].pc = "sleep"
    /\ process # None
    /\ th' = [th EXCEPT ![t].pc = "terminate", ![t].target = process]
    /\ UNCHANGED <<globals, tshark, now>>

\* The executor finds that somebody else has stopped its capture, or its sleep
\* raises on a negative duration: its step fails.
CaptureFails(t) ==
    /\ th[t].pc = "sleep"
    /\ Return(t)
    /\ UNCHANGED <<globals, tshark>>

\* Each call of a method reads the global anew; a None among them raises an
\* AttributeError, which the handler catches.
Terminate(t) ==
    /\ th[t].pc = "terminate"
    /\ IF process = None
       THEN Goto(t, "kill") /\ UNCHANGED tshark
       ELSE Goto(t, "wait") /\ tshark' = Terminated(process)
    /\ UNCHANGED globals

\* Mutant of Wait: wait() is entered without a process.
WaitBlindly(t) ==
    /\ th[t].pc = "wait"
    /\ th' = [th EXCEPT ![t].pc = "waiting", ![t].waits = process]
    /\ UNCHANGED <<globals, tshark, now>>

Wait(t) ==
    /\ th[t].pc = "wait"
    /\ th' = [th EXCEPT ![t].pc = IF process = None THEN "kill" ELSE "waiting",
                        ![t].waits = process]
    /\ UNCHANGED <<globals, tshark, now>>

Exited(t) ==
    /\ th[t].pc \in {"waiting", "reaping"}
    /\ ~ Alive(th[t].waits)
    /\ Goto(t, "clear")
    /\ UNCHANGED <<globals, tshark>>

\* Mutant of TimesOut: the timeout is ignored, as reset_capture_state does.
TimesOutUnkilled(t) ==
    /\ th[t].pc = "waiting"
    /\ Alive(th[t].waits)
    /\ Goto(t, "clear")
    /\ UNCHANGED <<globals, tshark>>

\* wait(timeout=5)
TimesOut(t) ==
    /\ th[t].pc = "waiting"
    /\ Alive(th[t].waits)
    /\ Goto(t, "kill")
    /\ UNCHANGED <<globals, tshark>>

\* Mutant of Kill: a second SIGTERM, which tshark may go on ignoring.
KillGently(t) ==
    /\ th[t].pc = "kill"
    /\ IF process = None
       THEN Goto(t, "clear") /\ UNCHANGED tshark
       ELSE Goto(t, "killed") /\ tshark' = Terminated(process)
    /\ UNCHANGED globals

Kill(t) ==
    /\ th[t].pc = "kill"
    /\ IF process = None
       THEN Goto(t, "clear") /\ UNCHANGED tshark
       ELSE Goto(t, "killed") /\ tshark' = Killed(process)
    /\ UNCHANGED globals

\* wait() without a timeout, on whatever process the global holds by now.
Reap(t) ==
    /\ th[t].pc = "killed"
    /\ th' = [th EXCEPT ![t].pc = IF process = None THEN "clear" ELSE "reaping",
                        ![t].waits = process]
    /\ UNCHANGED <<globals, tshark, now>>

Clear(t) ==
    /\ th[t].pc = "clear"
    /\ process' = None
    /\ Goto(t, "promote")
    /\ UNCHANGED <<captureFile, lastFile, tshark>>

\* Mutant of Promote: the file is not promoted when there was one before.
PromoteFirst(t) ==
    /\ th[t].pc = "promote"
    /\ lastFile' = IF lastFile = None THEN captureFile ELSE lastFile
    /\ Goto(t, "stopped")
    /\ UNCHANGED <<process, captureFile, tshark>>

Promote(t) ==
    /\ th[t].pc = "promote"
    /\ lastFile' = captureFile
    /\ Goto(t, "stopped")
    /\ UNCHANGED <<process, captureFile, tshark>>

\* The file returned is read from the global once more.
Stopped(t) ==
    /\ th[t].pc = "stopped"
    /\ th' = [th EXCEPT ![t] = IF t \in Executors
                              THEN [@ EXCEPT !.pc = "analyse", !.file = captureFile]
                              ELSE Idle]
    /\ UNCHANGED <<globals, tshark, now>>

-----------------------------------------------------------------------------
(* The rest of PacketCaptureExecutor: analyze_latest_capture, then the artifact *)

\* There is a last file, it exists and parses.
Analyse(t) ==
    /\ th[t].pc = "analyse"
    /\ lastFile # None
    /\ th' = [th EXCEPT ![t].pc = "done", ![t].analysed = lastFile]
    /\ UNCHANGED <<globals, tshark, now>>

AnalysisFails(t) ==
    /\ th[t].pc = "analyse"
    /\ Return(t)
    /\ UNCHANGED <<globals, tshark>>

-----------------------------------------------------------------------------
(* reset_capture_state: exceptions, the timeout of wait(timeout=2) among them, *)
(* are passed over                                                             *)

ResetCheck(t) ==
    /\ t \in Resetters
    /\ th[t].pc = "idle"
    /\ th' = [th EXCEPT ![t].pc = IF process = None THEN "forget" ELSE "hangup",
                        ![t].target = process]
    /\ UNCHANGED <<globals, tshark, now>>

HangUp(t) ==
    /\ th[t].pc = "hangup"
    /\ IF process = None
       THEN Goto(t, "release") /\ UNCHANGED tshark
       ELSE Goto(t, "await") /\ tshark' = Terminated(process)
    /\ UNCHANGED globals

Await(t) ==
    /\ th[t].pc = "await"
    /\ th' = [th EXCEPT ![t].pc = IF process = None THEN "release" ELSE "awaiting",
                        ![t].waits = process]
    /\ UNCHANGED <<globals, tshark, now>>

\* The process has exited, or two seconds have passed.
AwaitEnds(t) ==
    /\ th[t].pc = "awaiting"
    /\ Goto(t, "release")
    /\ UNCHANGED <<globals, tshark>>

Release(t) ==
    /\ th[t].pc = "release"
    /\ process' = None
    /\ Goto(t, "forget")
    /\ UNCHANGED <<captureFile, lastFile, tshark>>

Forget(t) ==
    /\ th[t].pc = "forget"
    /\ captureFile' = None
    /\ Goto(t, "forgetLast")
    /\ UNCHANGED <<process, lastFile, tshark>>

ForgetLast(t) ==
    /\ th[t].pc = "forgetLast"
    /\ lastFile' = None
    /\ Return(t)
    /\ UNCHANGED <<process, captureFile, tshark>>

-----------------------------------------------------------------------------

\* What a thread does once it is in a call, and what only a new call does.
Runs(t) ==
    \/ NameFile(t) \/ Spawn(t) \/ StartRaises(t) \/ Bind(t) \/ Started(t)
    \/ (th[t].pc = "sleep" /\ StopCheck(t)) \/ CaptureFails(t)
    \/ Terminate(t) \/ Wait(t) \/ Exited(t) \/ TimesOut(t) \/ Kill(t) \/ Reap(t)
    \/ Clear(t) \/ Promote(t) \/ Stopped(t) \/ Analyse(t) \/ AnalysisFails(t)
    \/ HangUp(t) \/ Await(t) \/ AwaitEnds(t) \/ Release(t) \/ Forget(t) \/ ForgetLast(t)
Calls(t) == StartCheck(t) \/ (th[t].pc = "idle" /\ StopCheck(t)) \/ ResetCheck(t)

\* Nobody is in a call, and nobody need call again.
Quiescent ==
    /\ \A t \in Threads : th[t].pc \in {"idle", "done"}
    /\ UNCHANGED vars

Next ==
    \/ \E t \in Threads : Calls(t) \/ Runs(t)
    \/ \E p \in DOMAIN tshark : Exit(p)
    \/ Tick
    \/ Quiescent

Spec == Init /\ [][Next]_vars

\* Threads that are in a call are scheduled. tshark need never exit by itself.
FairSpec == Spec /\ \A t \in Threads : WF_vars(Runs(t))

-----------------------------------------------------------------------------
(* Properties *)

\* Two tsharks never run side by side: start_capture promises "Capture already
\* running" when a capture is active. True of one thread that starts and one that
\* stops; with two that start, both pass the check.
OneTshark ==
    \A p, q \in DOMAIN tshark :
        tshark[p].status = "running" /\ tshark[q].status = "running" => p = q

\* stop_capture: "Terminate the running tshark capture process". A call that is past
\* the wait has ended the capture it found, whether or not tshark heeds the SIGTERM.
\* A second stop may clear the global for a capture started meanwhile, and then
\* the stop of that capture has nothing to terminate.
StoppedIsGone ==
    \A t \in Threads :
        th[t].pc \in {"promote", "stopped"} => ~ Alive(th[t].target)

\* A stop always returns: a tshark that ignores the SIGTERM is killed.
StopReturns == \A t \in Stoppers : th[t].pc = "terminate" ~> th[t].pc = "idle"

\* A packet-capture step that succeeds has analysed the file of its own capture, and
\* names that file (or none, after a reset), whatever stops and resets come in
\* between and whatever was captured before.
ReportsOwnCapture ==
    \A t \in Executors : th[t].pc = "done" =>
        LET own == tshark[th[t].own].file
        IN  th[t].analysed = own /\ th[t].file \in {own, None}

=============================================================================
