------------------------- MODULE PacketCaptureProofs -------------------------
(***************************************************************************)
(* What the capture globals guarantee for every set of threads and bounds. *)
(***************************************************************************)
EXTENDS PacketCapture, SequenceTheorems, TLAPS

-----------------------------------------------------------------------------
(* What the operations on the processes return. *)

LEMMA StatusSet ==
  ASSUME NEW s \in Seq(Tshark), NEW p \in 1..Len(s), NEW v \in {"running", "stopping", "gone"},
         NEW r, r = [s EXCEPT ![p].status = v]
  PROVE  /\ r \in Seq(Tshark)
         /\ Len(r) = Len(s)
         /\ \A q \in 1..Len(s) : /\ r[q].file = s[q].file
                                 /\ r[q].status = IF q = p THEN v ELSE s[q].status
  <1> DEFINE e == [s[p] EXCEPT !.status = v]
  <1>1. s[p] \in Tshark
    OBVIOUS
  <1>2. e \in Tshark /\ e.status = v /\ e.file = s[p].file
    BY <1>1 DEF Tshark
  <1>3. r = [s EXCEPT ![p] = e]
    OBVIOUS
  <1> HIDE DEF e
  <1>4. /\ r \in Seq(Tshark)
        /\ Len(r) = Len(s)
        /\ \A q \in 1..Len(s) : r[q] = IF q = p THEN e ELSE s[q]
    BY <1>2, <1>3, ExceptSeq
  <1> QED
    BY <1>2, <1>4

\* A signal changes no file, and brings no process back.
Signalled(p) ==
  /\ tshark' \in Seq(Tshark)
  /\ Len(tshark') = Len(tshark)
  /\ \A q \in 1..Len(tshark) : /\ tshark'[q].file = tshark[q].file
                               /\ q # p => tshark'[q].status = tshark[q].status
                               /\ tshark'[q].status = "running" => tshark[q].status = "running"
                               /\ tshark[q].status = "gone" => tshark'[q].status = "gone"

LEMMA SignalsAreSound ==
  ASSUME tshark \in Seq(Tshark), NEW p \in 1..Len(tshark)
  PROVE  /\ tshark' = Terminated(p) => Signalled(p)
         /\ tshark' = Killed(p) => Signalled(p) /\ tshark'[p].status = "gone"
  <1>1. tshark[p] \in Tshark
    OBVIOUS
  <1>2. ASSUME NEW v \in {"stopping", "gone"}, tshark' = [tshark EXCEPT ![p].status = v],
               tshark[p].status = "gone" => v = "gone"
        PROVE  Signalled(p) /\ tshark'[p].status = v
    <2>1. /\ tshark' \in Seq(Tshark)
          /\ Len(tshark') = Len(tshark)
          /\ \A q \in 1..Len(tshark) :
                /\ tshark'[q].file = tshark[q].file
                /\ tshark'[q].status = IF q = p THEN v ELSE tshark[q].status
      BY <1>2, StatusSet
    <2> QED
      BY <1>2, <2>1 DEF Signalled
  <1>3. ASSUME tshark' = Killed(p)
        PROVE  Signalled(p) /\ tshark'[p].status = "gone"
    BY <1>2, <1>3 DEF Killed
  <1>4. ASSUME tshark' = Terminated(p)
        PROVE  Signalled(p)
    <2> DEFINE v == IF tshark[p].status = "gone" THEN tshark[p].status ELSE "stopping"
    <2>1. tshark' = [tshark EXCEPT ![p].status = v]
      BY <1>4 DEF Terminated
    <2>2. v \in {"stopping", "gone"} /\ (tshark[p].status = "gone" => v = "gone")
      OBVIOUS
    <2> HIDE DEF v
    <2> QED
      BY <1>2, <2>1, <2>2
  <1> QED
    BY <1>3, <1>4

LEMMA Spawned ==
  ASSUME tshark \in Seq(Tshark), NEW f \in 1..MaxTime,
         tshark' = Append(tshark, [file |-> f, status |-> "running"])
  PROVE  /\ tshark' \in Seq(Tshark)
         /\ Len(tshark') = Len(tshark) + 1
         /\ \A q \in 1..Len(tshark) : tshark'[q] = tshark[q]
         /\ tshark'[Len(tshark) + 1].file = f
  <1>1. [file |-> f, status |-> "running"] \in Tshark
    BY DEF Tshark
  <1> QED
    BY <1>1, AppendProperties

-----------------------------------------------------------------------------
(* What an action makes of the frame of its thread. *)

Stage == {"idle", "sleep", "analyse", "done"} \cup Starting \cup Stopping \cup Resetting

\* The frame of t becomes g, that of every other thread stays.
Becomes(t, g) ==
  /\ th' \in [Threads -> Call]
  /\ th'[t] = g
  /\ \A u \in Threads \ {t} : th'[u] = th[u]

LEMMA FrameReplaced ==
  ASSUME th \in [Threads -> Call], NEW t \in Threads, NEW g \in Call, th' = [th EXCEPT ![t] = g]
  PROVE  Becomes(t, g)
  BY DEF Becomes

\* A frame that has moved on to pc, with the rest of f.
Moved(f, g, pc) ==
  /\ g \in Call
  /\ g.pc = pc /\ g.own = f.own /\ g.target = f.target
  /\ g.waits = f.waits /\ g.file = f.file /\ g.analysed = f.analysed

LEMMA MovedOn ==
  ASSUME th \in [Threads -> Call], NEW t \in Threads, NEW pc \in Stage,
         th' = [th EXCEPT ![t].pc = pc]
  PROVE  Becomes(t, th'[t]) /\ Moved(th[t], th'[t], pc)
  <1> DEFINE g == [th[t] EXCEPT !.pc = pc]
  <1>1. th[t] \in Call
    OBVIOUS
  <1>2. Moved(th[t], g, pc)
    BY <1>1 DEF Moved, Call, Stage
  <1>3. th' = [th EXCEPT ![t] = g]
    OBVIOUS
  <1> HIDE DEF g
  <1>4. Becomes(t, g)
    BY <1>2, <1>3, FrameReplaced DEF Moved
  <1> QED
    BY <1>2, <1>4 DEF Becomes

\* The same with one more field.
LEMMA OwnSet ==
  ASSUME th \in [Threads -> Call], NEW t \in Threads, NEW pc \in Stage, NEW n \in Nat,
         th' = [th EXCEPT ![t].pc = pc, ![t].own = n]
  PROVE  /\ Becomes(t, th'[t])
         /\ th'[t].pc = pc /\ th'[t].own = n
         /\ th'[t].target = th[t].target
         /\ th'[t].waits = th[t].waits
  <1> DEFINE g == [th[t] EXCEPT !.pc = pc, !.own = n]
  <1>1. th[t] \in Call
    OBVIOUS
  <1>2. /\ g \in Call /\ g.pc = pc /\ g.own = n
        /\ g.target = th[t].target
        /\ g.waits = th[t].waits
    BY <1>1 DEF Call, Stage
  <1>3. th' = [th EXCEPT ![t] = g]
    OBVIOUS
  <1> HIDE DEF g
  <1> QED
    BY <1>2, <1>3, FrameReplaced DEF Becomes

LEMMA TargetSet ==
  ASSUME th \in [Threads -> Call], NEW t \in Threads, NEW pc \in Stage, NEW n \in Nat,
         th' = [th EXCEPT ![t].pc = pc, ![t].target = n]
  PROVE  /\ Becomes(t, th'[t])
         /\ th'[t].pc = pc /\ th'[t].target = n
         /\ th'[t].own = th[t].own
         /\ th'[t].waits = th[t].waits
  <1> DEFINE g == [th[t] EXCEPT !.pc = pc, !.target = n]
  <1>1. th[t] \in Call
    OBVIOUS
  <1>2. /\ g \in Call /\ g.pc = pc /\ g.target = n
        /\ g.own = th[t].own
        /\ g.waits = th[t].waits
    BY <1>1 DEF Call, Stage
  <1>3. th' = [th EXCEPT ![t] = g]
    OBVIOUS
  <1> HIDE DEF g
  <1> QED
    BY <1>2, <1>3, FrameReplaced DEF Becomes

LEMMA WaitsSet ==
  ASSUME th \in [Threads -> Call], NEW t \in Threads, NEW pc \in Stage, NEW n \in Nat,
         th' = [th EXCEPT ![t].pc = pc, ![t].waits = n]
  PROVE  /\ Becomes(t, th'[t])
         /\ th'[t].pc = pc /\ th'[t].waits = n
         /\ th'[t].own = th[t].own
         /\ th'[t].target = th[t].target
  <1> DEFINE g == [th[t] EXCEPT !.pc = pc, !.waits = n]
  <1>1. th[t] \in Call
    OBVIOUS
  <1>2. /\ g \in Call /\ g.pc = pc /\ g.waits = n
        /\ g.own = th[t].own
        /\ g.target = th[t].target
    BY <1>1 DEF Call, Stage
  <1>3. th' = [th EXCEPT ![t] = g]
    OBVIOUS
  <1> HIDE DEF g
  <1> QED
    BY <1>2, <1>3, FrameReplaced DEF Becomes

LEMMA AnalysedSet ==
  ASSUME th \in [Threads -> Call], NEW t \in Threads, NEW pc \in Stage, NEW n \in Nat,
         th' = [th EXCEPT ![t].pc = pc, ![t].analysed = n]
  PROVE  /\ Becomes(t, th'[t])
         /\ th'[t].pc = pc /\ th'[t].analysed = n
         /\ th'[t].own = th[t].own
         /\ th'[t].target = th[t].target
         /\ th'[t].waits = th[t].waits
         /\ th'[t].file = th[t].file
  <1> DEFINE g == [th[t] EXCEPT !.pc = pc, !.analysed = n]
  <1>1. th[t] \in Call
    OBVIOUS
  <1>2. /\ g \in Call /\ g.pc = pc /\ g.analysed = n
        /\ g.own = th[t].own
        /\ g.target = th[t].target
        /\ g.waits = th[t].waits
        /\ g.file = th[t].file
    BY <1>1 DEF Call, Stage
  <1>3. th' = [th EXCEPT ![t] = g]
    OBVIOUS
  <1> HIDE DEF g
  <1> QED
    BY <1>2, <1>3, FrameReplaced DEF Becomes

LEMMA Returned ==
  ASSUME th \in [Threads -> Call], NEW t \in Threads
  PROVE  /\ th' = [th EXCEPT ![t] = Idle]
              => Becomes(t, th'[t]) /\ th'[t] = Idle
         /\ th' = [th EXCEPT ![t] = [Idle EXCEPT !.pc = "name"]]
              => Becomes(t, th'[t]) /\ th'[t].pc = "name" /\ Moved(Idle, th'[t], "name")
         /\ th' = [th EXCEPT ![t] = [@ EXCEPT !.pc = "sleep"]]
              => Becomes(t, th'[t]) /\ Moved(th[t], th'[t], "sleep")
         /\ \A n \in Nat :
              th' = [th EXCEPT ![t] = [@ EXCEPT !.pc = "analyse", !.file = n]]
                => /\ Becomes(t, th'[t])
                   /\ th'[t].pc = "analyse" /\ th'[t].file = n
                   /\ th'[t].own = th[t].own /\ th'[t].target = th[t].target
                   /\ th'[t].waits = th[t].waits
  <1>1. th[t] \in Call
    OBVIOUS
  <1>2. ASSUME NEW g \in Call, th' = [th EXCEPT ![t] = g]
        PROVE  Becomes(t, th'[t]) /\ th'[t] = g
    BY <1>2, FrameReplaced DEF Becomes
  <1>3. Idle \in Call
    BY DEF Idle, Call, None
  <1>4. Moved(Idle, [Idle EXCEPT !.pc = "name"], "name")
    BY <1>3 DEF Moved, Call, Starting
  <1>5. Moved(th[t], [th[t] EXCEPT !.pc = "sleep"], "sleep")
    BY <1>1 DEF Moved, Call
  <1>6. ASSUME NEW n \in Nat,
               th' = [th EXCEPT ![t] = [@ EXCEPT !.pc = "analyse", !.file = n]]
        PROVE  /\ Becomes(t, th'[t])
               /\ th'[t].pc = "analyse" /\ th'[t].file = n
               /\ th'[t].own = th[t].own /\ th'[t].target = th[t].target
               /\ th'[t].waits = th[t].waits
    <2> DEFINE g == [th[t] EXCEPT !.pc = "analyse", !.file = n]
    <2>1. /\ g \in Call /\ g.pc = "analyse" /\ g.file = n
          /\ g.own = th[t].own /\ g.target = th[t].target /\ g.waits = th[t].waits
      BY <1>1 DEF Call
    <2>2. th' = [th EXCEPT ![t] = g]
      BY <1>6
    <2> HIDE DEF g
    <2> QED
      BY <1>2, <2>1, <2>2
  <1>7. ASSUME th' = [th EXCEPT ![t] = [Idle EXCEPT !.pc = "name"]]
        PROVE  Becomes(t, th'[t]) /\ th'[t].pc = "name" /\ Moved(Idle, th'[t], "name")
    <2> DEFINE g == [Idle EXCEPT !.pc = "name"]
    <2>1. Moved(Idle, g, "name") /\ th' = [th EXCEPT ![t] = g]
      BY <1>4, <1>7
    <2> HIDE DEF g
    <2> QED
      BY <1>2, <2>1 DEF Moved
  <1>8. ASSUME th' = [th EXCEPT ![t] = [@ EXCEPT !.pc = "sleep"]]
        PROVE  Becomes(t, th'[t]) /\ Moved(th[t], th'[t], "sleep")
    <2> DEFINE g == [th[t] EXCEPT !.pc = "sleep"]
    <2>1. Moved(th[t], g, "sleep") /\ th' = [th EXCEPT ![t] = g]
      BY <1>5, <1>8
    <2> HIDE DEF g
    <2> QED
      BY <1>2, <2>1 DEF Moved
  <1> QED
    BY <1>2, <1>3, <1>6, <1>7, <1>8

-----------------------------------------------------------------------------
(* Types *)

\* What a step of t must provide for the types to be kept.
LEMMA TypeKept ==
  ASSUME TypeOK, NEW t \in Threads, Becomes(t, th'[t]),
         tshark' \in Seq(Tshark), Len(tshark') >= Len(tshark),
         process' \in 0..Len(tshark'), captureFile' \in 0..MaxTime, lastFile' \in 0..MaxTime,
         now' \in 1..MaxTime,
         {th'[t].own, th'[t].target, th'[t].waits} \subseteq 0..Len(tshark'),
         th'[t].pc \in {"waiting", "reaping", "awaiting"} => th'[t].waits # None
  PROVE  TypeOK'
  <1>1. Len(tshark) \in Nat /\ Len(tshark') \in Nat
    BY DEF TypeOK
  <1>2. ASSUME NEW u \in Threads \ {t}
        PROVE  /\ {th'[u].own, th'[u].target, th'[u].waits} \subseteq 0..Len(tshark')
               /\ th'[u].pc \in {"waiting", "reaping", "awaiting"} => th'[u].waits # None
    <2>1. th'[u] = th[u]
      BY DEF Becomes
    <2>2. /\ {th[u].own, th[u].target, th[u].waits} \subseteq 0..Len(tshark)
          /\ th[u].pc \in {"waiting", "reaping", "awaiting"} => th[u].waits # None
      BY DEF TypeOK
    <2> QED
      BY <1>1, <2>1, <2>2
  <1> QED
    BY <1>2 DEF TypeOK, Becomes

\* What each action makes of the frame of its thread.
LEMMA Effects ==
  ASSUME TypeOK, NEW t \in Threads
  PROVE  /\ StartCheck(t) => Becomes(t, th'[t]) /\ Moved(Idle, th'[t], "name")
         /\ NameFile(t) => Becomes(t, th'[t]) /\ Moved(th[t], th'[t], "spawn")
         /\ Spawn(t) => /\ Becomes(t, th'[t])
                        /\ th'[t].pc = "bind" /\ th'[t].own = Len(tshark) + 1
                        /\ th'[t].target = th[t].target /\ th'[t].waits = th[t].waits
         /\ Bind(t) => Becomes(t, th'[t]) /\ Moved(th[t], th'[t], "started")
         /\ Started(t) =>
              /\ Becomes(t, th'[t])
              /\ \/ t \in Executors /\ Moved(th[t], th'[t], "sleep")
                 \/ t \notin Executors /\ th'[t] = Idle
         /\ StartRaises(t) \/ CaptureFails(t) \/ AnalysisFails(t) \/ ForgetLast(t)
              => Becomes(t, th'[t]) /\ th'[t] = Idle
         /\ StopCheck(t) => /\ Becomes(t, th'[t])
                            /\ th'[t].pc = "terminate" /\ th'[t].target = process
                            /\ th'[t].own = th[t].own /\ th'[t].waits = th[t].waits
         /\ Terminate(t) => /\ Becomes(t, th'[t])
                            /\ Moved(th[t], th'[t], IF process = None THEN "kill" ELSE "wait")
         /\ Kill(t) => /\ Becomes(t, th'[t])
                       /\ Moved(th[t], th'[t], IF process = None THEN "clear" ELSE "killed")
         /\ Wait(t) => /\ Becomes(t, th'[t])
                       /\ th'[t].pc = (IF process = None THEN "kill" ELSE "waiting")
                       /\ th'[t].waits = process
                       /\ th'[t].own = th[t].own /\ th'[t].target = th[t].target
         /\ Reap(t) => /\ Becomes(t, th'[t])
                       /\ th'[t].pc = (IF process = None THEN "clear" ELSE "reaping")
                       /\ th'[t].waits = process
                       /\ th'[t].own = th[t].own /\ th'[t].target = th[t].target
         /\ Exited(t) => Becomes(t, th'[t]) /\ Moved(th[t], th'[t], "clear")
         /\ TimesOut(t) => Becomes(t, th'[t]) /\ Moved(th[t], th'[t], "kill")
         /\ Clear(t) => Becomes(t, th'[t]) /\ Moved(th[t], th'[t], "promote")
         /\ Promote(t) => Becomes(t, th'[t]) /\ Moved(th[t], th'[t], "stopped")
         /\ Stopped(t) =>
              /\ Becomes(t, th'[t])
              /\ \/ /\ t \in Executors
                    /\ th'[t].pc = "analyse" /\ th'[t].file = captureFile
                    /\ th'[t].own = th[t].own /\ th'[t].target = th[t].target
                    /\ th'[t].waits = th[t].waits
                 \/ t \notin Executors /\ th'[t] = Idle
         /\ Analyse(t) => /\ Becomes(t, th'[t])
                          /\ th'[t].pc = "done" /\ th'[t].analysed = lastFile
                          /\ th'[t].own = th[t].own /\ th'[t].target = th[t].target
                          /\ th'[t].waits = th[t].waits /\ th'[t].file = th[t].file
         /\ ResetCheck(t) => /\ Becomes(t, th'[t])
                             /\ th'[t].pc = (IF process = None THEN "forget" ELSE "hangup")
                             /\ th'[t].target = process
                             /\ th'[t].own = th[t].own /\ th'[t].waits = th[t].waits
         /\ HangUp(t) => /\ Becomes(t, th'[t])
                         /\ Moved(th[t], th'[t], IF process = None THEN "release" ELSE "await")
         /\ Await(t) => /\ Becomes(t, th'[t])
                        /\ th'[t].pc = (IF process = None THEN "release" ELSE "awaiting")
                        /\ th'[t].waits = process
                        /\ th'[t].own = th[t].own /\ th'[t].target = th[t].target
         /\ AwaitEnds(t) => Becomes(t, th'[t]) /\ Moved(th[t], th'[t], "release")
         /\ Release(t) => Becomes(t, th'[t]) /\ Moved(th[t], th'[t], "forget")
         /\ Forget(t) => Becomes(t, th'[t]) /\ Moved(th[t], th'[t], "forgetLast")
  <1>1. /\ th \in [Threads -> Call]
        /\ process \in Nat /\ lastFile \in Nat /\ captureFile \in Nat /\ Len(tshark) + 1 \in Nat
    BY BoundsAssumption DEF TypeOK
  <1>2. {"name", "spawn", "bind", "started", "terminate", "wait", "waiting", "kill", "killed",
         "reaping", "clear", "promote", "stopped", "hangup", "await", "awaiting", "release",
         "forget", "forgetLast", "idle", "sleep", "analyse", "done"} \subseteq Stage
    BY DEF Stage, Starting, Stopping, Resetting
  <1>3. StartCheck(t) => Becomes(t, th'[t]) /\ Moved(Idle, th'[t], "name")
    BY <1>1, <1>2, Returned DEF StartCheck
  <1>4. NameFile(t) => Becomes(t, th'[t]) /\ Moved(th[t], th'[t], "spawn")
    BY <1>1, <1>2, MovedOn DEF NameFile, Goto
  <1>5. Spawn(t) => /\ Becomes(t, th'[t])
                     /\ th'[t].pc = "bind" /\ th'[t].own = Len(tshark) + 1
                     /\ th'[t].target = th[t].target /\ th'[t].waits = th[t].waits
    <2> DEFINE pc == "bind"
               n == Len(tshark) + 1
    <2>1. pc \in Stage /\ n \in Nat
      BY <1>1, <1>2
    <2>2. ASSUME Spawn(t)
          PROVE  th' = [th EXCEPT ![t].pc = pc, ![t].own = n]
      BY <2>2 DEF Spawn
    <2> HIDE DEF pc, n
    <2>3. ASSUME Spawn(t)
          PROVE  /\ Becomes(t, th'[t])
                 /\ th'[t].pc = pc /\ th'[t].own = n
                 /\ th'[t].target = th[t].target /\ th'[t].waits = th[t].waits
      BY <1>1, <2>1, <2>2, <2>3, OwnSet
    <2> QED
      BY <2>3 DEF pc, n
  <1>6. Bind(t) => Becomes(t, th'[t]) /\ Moved(th[t], th'[t], "started")
    BY <1>1, <1>2, MovedOn DEF Bind, Goto
  <1>7. Started(t) =>
           /\ Becomes(t, th'[t])
           /\ \/ t \in Executors /\ Moved(th[t], th'[t], "sleep")
              \/ t \notin Executors /\ th'[t] = Idle
    BY <1>1, <1>2, Returned DEF Started
  <1>8. StartRaises(t) \/ CaptureFails(t) \/ AnalysisFails(t) \/ ForgetLast(t)
           => Becomes(t, th'[t]) /\ th'[t] = Idle
    BY <1>1, <1>2, Returned DEF StartRaises, CaptureFails, AnalysisFails, ForgetLast, Return
  <1>9. StopCheck(t) => /\ Becomes(t, th'[t])
                         /\ th'[t].pc = "terminate" /\ th'[t].target = process
                         /\ th'[t].own = th[t].own /\ th'[t].waits = th[t].waits
    <2> DEFINE pc == "terminate"
               n == process
    <2>1. pc \in Stage /\ n \in Nat
      BY <1>1, <1>2
    <2>2. ASSUME StopCheck(t)
          PROVE  th' = [th EXCEPT ![t].pc = pc, ![t].target = n]
      BY <2>2 DEF StopCheck
    <2> HIDE DEF pc, n
    <2>3. ASSUME StopCheck(t)
          PROVE  /\ Becomes(t, th'[t])
                 /\ th'[t].pc = pc /\ th'[t].target = n
                 /\ th'[t].own = th[t].own /\ th'[t].waits = th[t].waits
      BY <1>1, <2>1, <2>2, <2>3, TargetSet
    <2> QED
      BY <2>3 DEF pc, n
  <1>10. Terminate(t) => /\ Becomes(t, th'[t])
                         /\ Moved(th[t], th'[t], IF process = None THEN "kill" ELSE "wait")
    BY <1>1, <1>2, MovedOn DEF Terminate, Goto
  <1>11. Kill(t) => /\ Becomes(t, th'[t])
                    /\ Moved(th[t], th'[t], IF process = None THEN "clear" ELSE "killed")
    BY <1>1, <1>2, MovedOn DEF Kill, Goto
  <1>12. Wait(t) => /\ Becomes(t, th'[t])
                    /\ th'[t].pc = (IF process = None THEN "kill" ELSE "waiting")
                    /\ th'[t].waits = process
                    /\ th'[t].own = th[t].own /\ th'[t].target = th[t].target
    <2> DEFINE pc == IF process = None THEN "kill" ELSE "waiting"
               n == process
    <2>1. pc \in Stage /\ n \in Nat
      BY <1>1, <1>2
    <2>2. ASSUME Wait(t)
          PROVE  th' = [th EXCEPT ![t].pc = pc, ![t].waits = n]
      BY <2>2 DEF Wait
    <2> HIDE DEF pc, n
    <2>3. ASSUME Wait(t)
          PROVE  /\ Becomes(t, th'[t])
                 /\ th'[t].pc = pc /\ th'[t].waits = n
                 /\ th'[t].own = th[t].own /\ th'[t].target = th[t].target
      BY <1>1, <2>1, <2>2, <2>3, WaitsSet
    <2> QED
      BY <2>3 DEF pc, n
  <1>13. Reap(t) => /\ Becomes(t, th'[t])
                    /\ th'[t].pc = (IF process = None THEN "clear" ELSE "reaping")
                    /\ th'[t].waits = process
                    /\ th'[t].own = th[t].own /\ th'[t].target = th[t].target
    <2> DEFINE pc == IF process = None THEN "clear" ELSE "reaping"
               n == process
    <2>1. pc \in Stage /\ n \in Nat
      BY <1>1, <1>2
    <2>2. ASSUME Reap(t)
          PROVE  th' = [th EXCEPT ![t].pc = pc, ![t].waits = n]
      BY <2>2 DEF Reap
    <2> HIDE DEF pc, n
    <2>3. ASSUME Reap(t)
          PROVE  /\ Becomes(t, th'[t])
                 /\ th'[t].pc = pc /\ th'[t].waits = n
                 /\ th'[t].own = th[t].own /\ th'[t].target = th[t].target
      BY <1>1, <2>1, <2>2, <2>3, WaitsSet
    <2> QED
      BY <2>3 DEF pc, n
  <1>14. Exited(t) => Becomes(t, th'[t]) /\ Moved(th[t], th'[t], "clear")
    BY <1>1, <1>2, MovedOn DEF Exited, Goto
  <1>15. TimesOut(t) => Becomes(t, th'[t]) /\ Moved(th[t], th'[t], "kill")
    BY <1>1, <1>2, MovedOn DEF TimesOut, Goto
  <1>16. Clear(t) => Becomes(t, th'[t]) /\ Moved(th[t], th'[t], "promote")
    BY <1>1, <1>2, MovedOn DEF Clear, Goto
  <1>17. Promote(t) => Becomes(t, th'[t]) /\ Moved(th[t], th'[t], "stopped")
    BY <1>1, <1>2, MovedOn DEF Promote, Goto
  <1>18. Stopped(t) =>
           /\ Becomes(t, th'[t])
           /\ \/ /\ t \in Executors
                 /\ th'[t].pc = "analyse" /\ th'[t].file = captureFile
                 /\ th'[t].own = th[t].own /\ th'[t].target = th[t].target
                 /\ th'[t].waits = th[t].waits
              \/ t \notin Executors /\ th'[t] = Idle
    BY <1>1, <1>2, Returned DEF Stopped
  <1>19. Analyse(t) => /\ Becomes(t, th'[t])
                       /\ th'[t].pc = "done" /\ th'[t].analysed = lastFile
                       /\ th'[t].own = th[t].own /\ th'[t].target = th[t].target
                       /\ th'[t].waits = th[t].waits /\ th'[t].file = th[t].file
    <2> DEFINE pc == "done"
               n == lastFile
    <2>1. pc \in Stage /\ n \in Nat
      BY <1>1, <1>2
    <2>2. ASSUME Analyse(t)
          PROVE  th' = [th EXCEPT ![t].pc = pc, ![t].analysed = n]
      BY <2>2 DEF Analyse
    <2> HIDE DEF pc, n
    <2>3. ASSUME Analyse(t)
          PROVE  /\ Becomes(t, th'[t])
                 /\ th'[t].pc = pc /\ th'[t].analysed = n
                 /\ th'[t].own = th[t].own /\ th'[t].target = th[t].target
                 /\ th'[t].waits = th[t].waits /\ th'[t].file = th[t].file
      BY <1>1, <2>1, <2>2, <2>3, AnalysedSet
    <2> QED
      BY <2>3 DEF pc, n
  <1>20. ResetCheck(t) => /\ Becomes(t, th'[t])
                          /\ th'[t].pc = (IF process = None THEN "forget" ELSE "hangup")
                          /\ th'[t].target = process
                          /\ th'[t].own = th[t].own /\ th'[t].waits = th[t].waits
    <2> DEFINE pc == IF process = None THEN "forget" ELSE "hangup"
               n == process
    <2>1. pc \in Stage /\ n \in Nat
      BY <1>1, <1>2
    <2>2. ASSUME ResetCheck(t)
          PROVE  th' = [th EXCEPT ![t].pc = pc, ![t].target = n]
      BY <2>2 DEF ResetCheck
    <2> HIDE DEF pc, n
    <2>3. ASSUME ResetCheck(t)
          PROVE  /\ Becomes(t, th'[t])
                 /\ th'[t].pc = pc /\ th'[t].target = n
                 /\ th'[t].own = th[t].own /\ th'[t].waits = th[t].waits
      BY <1>1, <2>1, <2>2, <2>3, TargetSet
    <2> QED
      BY <2>3 DEF pc, n
  <1>21. HangUp(t) => /\ Becomes(t, th'[t])
                      /\ Moved(th[t], th'[t], IF process = None THEN "release" ELSE "await")
    BY <1>1, <1>2, MovedOn DEF HangUp, Goto
  <1>22. Await(t) => /\ Becomes(t, th'[t])
                     /\ th'[t].pc = (IF process = None THEN "release" ELSE "awaiting")
                     /\ th'[t].waits = process
                     /\ th'[t].own = th[t].own /\ th'[t].target = th[t].target
    <2> DEFINE pc == IF process = None THEN "release" ELSE "awaiting"
               n == process
    <2>1. pc \in Stage /\ n \in Nat
      BY <1>1, <1>2
    <2>2. ASSUME Await(t)
          PROVE  th' = [th EXCEPT ![t].pc = pc, ![t].waits = n]
      BY <2>2 DEF Await
    <2> HIDE DEF pc, n
    <2>3. ASSUME Await(t)
          PROVE  /\ Becomes(t, th'[t])
                 /\ th'[t].pc = pc /\ th'[t].waits = n
                 /\ th'[t].own = th[t].own /\ th'[t].target = th[t].target
      BY <1>1, <2>1, <2>2, <2>3, WaitsSet
    <2> QED
      BY <2>3 DEF pc, n
  <1>23. AwaitEnds(t) => Becomes(t, th'[t]) /\ Moved(th[t], th'[t], "release")
    BY <1>1, <1>2, MovedOn DEF AwaitEnds, Goto
  <1>24. Release(t) => Becomes(t, th'[t]) /\ Moved(th[t], th'[t], "forget")
    BY <1>1, <1>2, MovedOn DEF Release, Goto
  <1>25. Forget(t) => Becomes(t, th'[t]) /\ Moved(th[t], th'[t], "forgetLast")
    BY <1>1, <1>2, MovedOn DEF Forget, Goto
  <1> QED
    BY <1>3, <1>4, <1>5, <1>6, <1>7, <1>8, <1>9, <1>10, <1>11, <1>12, <1>13, <1>14,
       <1>15, <1>16, <1>17, <1>18, <1>19, <1>20, <1>21, <1>22, <1>23, <1>24, <1>25

LEMMA ThreadKeepsType ==
  ASSUME TypeOK, NEW t \in Threads, Calls(t) \/ Runs(t)
  PROVE  TypeOK'
  <1>1. /\ th \in [Threads -> Call] /\ tshark \in Seq(Tshark) /\ Len(tshark) \in Nat
        /\ process \in 0..Len(tshark) /\ captureFile \in 0..MaxTime /\ lastFile \in 0..MaxTime
        /\ now \in 1..MaxTime /\ MaxTime \in Nat
        /\ {th[t].own, th[t].target, th[t].waits} \subseteq 0..Len(tshark)
    BY BoundsAssumption DEF TypeOK
  <1>2. Idle.own = 0 /\ Idle.target = 0 /\ Idle.waits = 0 /\ Idle.pc = "idle"
    BY DEF Idle, None
  <1>3. CASE StartCheck(t) \/ NameFile(t) \/ Bind(t) \/ Started(t)
    <2>1. /\ Becomes(t, th'[t]) /\ tshark' = tshark
          /\ process' \in 0..Len(tshark) /\ captureFile' \in 0..MaxTime /\ lastFile' = lastFile
          /\ now' = now
      BY <1>1, <1>3, Effects DEF StartCheck, NameFile, Bind, Started, Goto, globals
    <2>2. /\ {th'[t].own, th'[t].target, th'[t].waits} \subseteq 0..Len(tshark)
          /\ th'[t].pc \notin {"waiting", "reaping", "awaiting"}
      BY <1>1, <1>2, <1>3, Effects DEF Moved
    <2> QED
      BY <1>1, <2>1, <2>2, TypeKept
  <1>4. CASE Spawn(t)
    <2>1. captureFile \in 1..MaxTime
      BY <1>1, <1>4 DEF Spawn, None
    <2>2. tshark' \in Seq(Tshark) /\ Len(tshark') = Len(tshark) + 1
      BY <1>1, <1>4, <2>1, Spawned DEF Spawn
    <2>3. /\ Becomes(t, th'[t]) /\ UNCHANGED <<process, captureFile, lastFile, now>>
          /\ th'[t].pc = "bind" /\ th'[t].own = Len(tshark) + 1
          /\ th'[t].target = th[t].target /\ th'[t].waits = th[t].waits
      BY <1>4, Effects DEF Spawn, globals
    <2> QED
      BY <1>1, <2>2, <2>3, TypeKept
  <1>5. CASE \/ StartRaises(t) \/ CaptureFails(t) \/ AnalysisFails(t) \/ ForgetLast(t)
             \/ Forget(t) \/ Release(t) \/ AwaitEnds(t)
             \/ Clear(t) \/ Promote(t) \/ Stopped(t) \/ TimesOut(t) \/ Exited(t)
    <2> Becomes(t, th'[t])
      BY <1>5, Effects
    <2> None \in 0..Len(tshark) /\ None \in 0..MaxTime
      BY <1>1 DEF None
    <2>1. /\ tshark' = tshark /\ now' = now
          /\ process' \in {process, None} /\ captureFile' \in {captureFile, None}
          /\ lastFile' \in {lastFile, captureFile, None}
      BY <1>5
         DEF StartRaises, CaptureFails, AnalysisFails, ForgetLast, Forget, Release, AwaitEnds,
             Clear, Promote, Stopped, TimesOut, Exited, Goto, Return, globals
    <2>2. /\ {th'[t].own, th'[t].target, th'[t].waits} \subseteq 0..Len(tshark)
          /\ th'[t].pc \notin {"waiting", "reaping", "awaiting"}
      BY <1>1, <1>2, <1>5, Effects DEF Moved
    <2> QED
      BY <1>1, <2>1, <2>2, TypeKept
  <1>6. CASE StopCheck(t) \/ ResetCheck(t) \/ Analyse(t) \/ Wait(t) \/ Reap(t) \/ Await(t)
    <2>1. Becomes(t, th'[t]) /\ UNCHANGED <<process, captureFile, lastFile, tshark, now>>
      BY <1>6, Effects DEF StopCheck, ResetCheck, Analyse, Wait, Reap, Await, globals
    <2>2. /\ {th'[t].own, th'[t].target, th'[t].waits} \subseteq 0..Len(tshark)
          /\ th'[t].pc \in {"waiting", "reaping", "awaiting"} => th'[t].waits # None
      BY <1>1, <1>6, Effects
    <2> QED
      BY <1>1, <2>1, <2>2, TypeKept
  <1>7. CASE Terminate(t) \/ Kill(t) \/ HangUp(t)
    <2>1. tshark' \in Seq(Tshark) /\ Len(tshark') = Len(tshark)
      BY <1>1, <1>7, SignalsAreSound DEF Terminate, Kill, HangUp, Signalled, None
    <2>2. Becomes(t, th'[t]) /\ UNCHANGED <<process, captureFile, lastFile, now>>
      BY <1>7, Effects DEF Terminate, Kill, HangUp, Goto, globals
    <2>3. /\ {th'[t].own, th'[t].target, th'[t].waits} \subseteq 0..Len(tshark)
          /\ th'[t].pc \notin {"waiting", "reaping", "awaiting"}
      BY <1>1, <1>7, Effects DEF Moved
    <2> QED
      BY <1>1, <2>1, <2>2, <2>3, TypeKept
  <1> QED
    BY <1>3, <1>4, <1>5, <1>6, <1>7 DEF Calls, Runs

\* A tshark that exits changes its own status and nothing else.
LEMMA ExitEffect ==
  ASSUME TypeOK, NEW p \in DOMAIN tshark, Exit(p)
  PROVE  /\ p \in 1..Len(tshark)
         /\ Signalled(p)
         /\ UNCHANGED <<process, captureFile, lastFile, th, now>>
  <1>1. p \in 1..Len(tshark) /\ tshark \in Seq(Tshark)
    BY DEF TypeOK
  <1>2. tshark' = Killed(p)
    BY DEF Exit, Killed
  <1> QED
    BY <1>1, <1>2, SignalsAreSound DEF Exit, globals

\* A thread runs, a tshark exits, time passes, or nothing happens.
LEMMA Steps ==
  ASSUME TypeOK, [Next]_vars
  PROVE  \/ \E t \in Threads : Calls(t) \/ Runs(t)
         \/ \E p \in 1..Len(tshark) :
              Signalled(p) /\ UNCHANGED <<process, captureFile, lastFile, th, now>>
         \/ now' \in 1..MaxTime /\ UNCHANGED <<process, captureFile, lastFile, tshark, th>>
  <1>1. CASE \E p \in DOMAIN tshark : Exit(p)
    BY <1>1, ExitEffect
  <1>2. CASE Tick
    BY <1>2, BoundsAssumption DEF Tick, TypeOK, globals
  <1>3. CASE Quiescent \/ UNCHANGED vars
    BY <1>3 DEF Quiescent, vars, globals, TypeOK
  <1> QED
    BY <1>1, <1>2, <1>3 DEF Next

\* Every global, process and frame keeps its type, and a thread that blocks in wait()
\* has a process to wait for, whoever clears the globals meanwhile.
THEOREM TypeCorrect == Spec => []TypeOK
  <1>1. Init => TypeOK
    <2> SUFFICES ASSUME Init
                 PROVE  TypeOK
      OBVIOUS
    <2>1. Idle \in Call /\ Idle.own = 0 /\ Idle.target = 0 /\ Idle.waits = 0 /\ Idle.pc = "idle"
      BY DEF Idle, Call, None
    <2>2. tshark \in Seq(Tshark) /\ Len(tshark) = 0
      BY DEF Init
    <2>3. th \in [Threads -> Call] /\ \A t \in Threads : th[t] = Idle
      BY <2>1 DEF Init
    <2> HIDE DEF Idle
    <2> QED
      BY <2>1, <2>2, <2>3, BoundsAssumption DEF Init, TypeOK, None
  <1>2. TypeOK /\ [Next]_vars => TypeOK'
    <2> SUFFICES ASSUME TypeOK, [Next]_vars
                 PROVE  TypeOK'
      OBVIOUS
    <2>1. ASSUME NEW p \in 1..Len(tshark), Signalled(p),
                 UNCHANGED <<process, captureFile, lastFile, th, now>>
          PROVE  TypeOK'
      BY <2>1 DEF TypeOK, Signalled
    <2>2. ASSUME now' \in 1..MaxTime, UNCHANGED <<process, captureFile, lastFile, tshark, th>>
          PROVE  TypeOK'
      BY <2>2 DEF TypeOK
    <2> QED
      BY <2>1, <2>2, ThreadKeepsType, Steps
  <1> QED
    BY <1>1, <1>2, PTL DEF Spec

-----------------------------------------------------------------------------
(* One thread that starts captures and one that stops them *)

\* No two threads start and no two stop, and no session is deleted. An executor does
\* both, so it is then alone.
OneAtATime ==
  /\ \A t, u \in Starters \cup Executors : t = u
  /\ \A t, u \in Stoppers \cup Executors : t = u
  /\ Resetters = {}

\* A start past its check still finds no process, and a stop that has not cleared
\* the global still finds its target there; once it has killed it, or waits no longer,
\* the target is gone.
Orderly(t) ==
  /\ th[t].pc \in {"name", "spawn", "bind"} => t \in Starters \cup Executors /\ process = None
  /\ th[t].pc = "bind" => th[t].own # None
  /\ th[t].pc = "sleep" => t \in Executors
  /\ th[t].pc \in Stopping => t \in Stoppers \cup Executors /\ th[t].target # None
  /\ th[t].pc \in Stopping \ {"promote", "stopped"} => process = th[t].target
  /\ th[t].pc \in {"waiting", "reaping"} => th[t].waits = th[t].target
  /\ th[t].pc \in {"killed", "reaping", "clear", "promote", "stopped"} =>
       tshark[th[t].target].status = "gone"
  /\ th[t].pc \notin Resetting

\* No running tshark is forgotten.
Accounted ==
  \A p \in 1..Len(tshark) : tshark[p].status = "running" =>
     p = process \/ \E t \in Threads : th[t].pc = "bind" /\ th[t].own = p

CaptureInv == TypeOK /\ Accounted /\ \A t \in Threads : Orderly(t)

\* The processes after a step: those there were, and none has come back.
NoneRevived ==
  /\ tshark' \in Seq(Tshark)
  /\ Len(tshark') >= Len(tshark)
  /\ \A q \in 1..Len(tshark) :
       /\ tshark'[q].status = "running" => tshark[q].status = "running"
       /\ tshark[q].status = "gone" => tshark'[q].status = "gone"

LEMMA SignalsReviveNone ==
  ASSUME TypeOK
  PROVE  /\ tshark' = tshark => NoneRevived
         /\ \A p : Signalled(p) => NoneRevived
  BY DEF NoneRevived, Signalled, TypeOK

\* A thread stays orderly through a step of another, unless it depends on the
\* process and the step changes it.
LEMMA OthersOrderly ==
  ASSUME TypeOK, NEW u \in Threads, Orderly(u), th'[u] = th[u], NoneRevived,
         \/ process' = process
         \/ th[u].pc \notin {"name", "spawn", "bind"} \cup (Stopping \ {"promote", "stopped"})
  PROVE  Orderly(u)'
  <1>1. th[u].target \in 0..Len(tshark) /\ Len(tshark) \in Nat
    BY DEF TypeOK
  <1>2. th[u].pc \in {"killed", "reaping", "clear", "promote", "stopped"} =>
          tshark'[th[u].target].status = "gone"
    <2> SUFFICES ASSUME th[u].pc \in {"killed", "reaping", "clear", "promote", "stopped"}
                 PROVE  tshark'[th[u].target].status = "gone"
      OBVIOUS
    <2>1. th[u].target # None /\ tshark[th[u].target].status = "gone"
      BY DEF Orderly, Stopping
    <2> QED
      BY <1>1, <2>1 DEF NoneRevived, None
  <1> QED
    BY <1>2 DEF Orderly

\* A step that leaves the process bound, and is not the end of a start.
LEMMA QuietStep ==
  ASSUME CaptureInv, TypeOK', NEW t \in Threads, Becomes(t, th'[t]), Orderly(t)',
         process' = process, th[t].pc # "bind",
         NoneRevived, Len(tshark') = Len(tshark)
  PROVE  CaptureInv'
  <1>1. ASSUME NEW u \in Threads
        PROVE  Orderly(u)'
    BY OthersOrderly DEF CaptureInv, Becomes
  <1>2. Accounted'
    <2> SUFFICES ASSUME NEW p \in 1..Len(tshark), tshark'[p].status = "running"
                 PROVE  p = process' \/ \E u \in Threads : th'[u].pc = "bind" /\ th'[u].own = p
      BY DEF Accounted
    <2>1. p = process \/ \E u \in Threads : th[u].pc = "bind" /\ th[u].own = p
      BY DEF CaptureInv, Accounted, NoneRevived
    <2> QED
      BY <2>1 DEF Becomes
  <1> QED
    BY <1>1, <1>2 DEF CaptureInv

LEMMA SpawnOrderly ==
  ASSUME CaptureInv, TypeOK', NEW t \in Threads, Spawn(t)
  PROVE  CaptureInv'
  <1>1. /\ Becomes(t, th'[t])
        /\ th'[t].pc = "bind" /\ th'[t].own = Len(tshark) + 1
    BY Effects DEF CaptureInv
  <1>2. captureFile \in 1..MaxTime /\ tshark \in Seq(Tshark) /\ Len(tshark) \in Nat
    BY BoundsAssumption DEF CaptureInv, TypeOK, Spawn, None
  <1>3. /\ Len(tshark') = Len(tshark) + 1
        /\ \A q \in 1..Len(tshark) : tshark'[q] = tshark[q]
        /\ NoneRevived
    BY <1>2, Spawned DEF Spawn, NoneRevived
  <1>4. process' = process /\ th[t].pc = "spawn"
    BY DEF Spawn, globals
  <1>5. Orderly(t)'
    BY <1>1, <1>2, <1>4 DEF CaptureInv, Orderly, Stopping, Resetting, None
  <1>6. \A u \in Threads : Orderly(u)'
    BY <1>1, <1>3, <1>4, <1>5, OthersOrderly DEF CaptureInv, Becomes
  <1>7. Accounted'
    <2> SUFFICES ASSUME NEW p \in 1..Len(tshark'), tshark'[p].status = "running"
                 PROVE  p = process' \/ \E u \in Threads : th'[u].pc = "bind" /\ th'[u].own = p
      BY DEF Accounted
    <2>1. CASE p = Len(tshark) + 1
      BY <1>1, <2>1
    <2>2. CASE p \in 1..Len(tshark)
      <3>1. p = process \/ \E u \in Threads : th[u].pc = "bind" /\ th[u].own = p
        BY <1>3, <2>2 DEF CaptureInv, Accounted
      <3> QED
        BY <1>1, <1>4, <3>1 DEF Becomes
    <2> QED
      BY <1>2, <1>3, <2>1, <2>2
  <1> QED
    BY <1>6, <1>7 DEF CaptureInv

LEMMA BindOrderly ==
  ASSUME OneAtATime, CaptureInv, TypeOK', NEW t \in Threads, Bind(t)
  PROVE  CaptureInv'
  <1>1. Becomes(t, th'[t]) /\ Moved(th[t], th'[t], "started")
    BY Effects DEF CaptureInv
  <1>2. th[t].pc = "bind" /\ process' = th[t].own /\ tshark' = tshark
    BY DEF Bind
  <1>3. process = None /\ t \in Starters \cup Executors
    BY <1>2 DEF CaptureInv, Orderly
  <1>4. Orderly(t)'
    BY <1>1 DEF Orderly, Moved, Stopping, Resetting
  <1>5. ASSUME NEW u \in Threads \ {t}
        PROVE  Orderly(u)'
    <2>1. th[u].pc \notin {"name", "spawn", "bind"}
      BY <1>3 DEF CaptureInv, Orderly, OneAtATime
    <2>2. th[u].pc \notin Stopping \ {"promote", "stopped"}
      BY <1>3 DEF CaptureInv, Orderly
    <2> QED
      BY <1>1, <1>2, <2>1, <2>2, OthersOrderly, SignalsReviveNone DEF CaptureInv, Becomes
  <1>6. Accounted'
    <2> SUFFICES ASSUME NEW p \in 1..Len(tshark), tshark[p].status = "running"
                 PROVE  p = process' \/ \E u \in Threads : th'[u].pc = "bind" /\ th'[u].own = p
      BY <1>2 DEF Accounted
    <2>1. p # process
      BY <1>3 DEF None, CaptureInv, TypeOK
    <2>2. PICK u \in Threads : th[u].pc = "bind" /\ th[u].own = p
      BY <2>1 DEF CaptureInv, Accounted
    <2>3. u = t
      BY <1>3, <2>2 DEF CaptureInv, Orderly, OneAtATime
    <2> QED
      BY <1>2, <2>2, <2>3
  <1> QED
    BY <1>4, <1>5, <1>6 DEF CaptureInv

LEMMA ClearOrderly ==
  ASSUME OneAtATime, CaptureInv, TypeOK', NEW t \in Threads, Clear(t)
  PROVE  CaptureInv'
  <1>1. Becomes(t, th'[t]) /\ Moved(th[t], th'[t], "promote")
    BY Effects DEF CaptureInv
  <1>2. th[t].pc = "clear" /\ process' = None /\ tshark' = tshark
    BY DEF Clear
  <1>3. /\ t \in Stoppers \cup Executors
        /\ th[t].target # None /\ process = th[t].target
        /\ tshark[process].status = "gone"
    BY <1>2 DEF CaptureInv, Orderly, Stopping
  <1>4. Orderly(t)'
    BY <1>1, <1>2, <1>3 DEF Orderly, Moved, Stopping, Resetting
  <1>5. ASSUME NEW u \in Threads \ {t}
        PROVE  Orderly(u)'
    <2>1. th[u].pc \notin {"name", "spawn", "bind"}
      BY <1>3 DEF CaptureInv, Orderly
    <2>2. th[u].pc \notin Stopping
      BY <1>3 DEF CaptureInv, Orderly, OneAtATime
    <2> QED
      BY <1>1, <1>2, <2>1, <2>2, OthersOrderly, SignalsReviveNone DEF CaptureInv, Becomes
  <1>6. Accounted'
    <2> SUFFICES ASSUME NEW p \in 1..Len(tshark), tshark[p].status = "running"
                 PROVE  \E u \in Threads : th'[u].pc = "bind" /\ th'[u].own = p
      BY <1>2 DEF Accounted
    <2>1. p # process
      BY <1>3
    <2>2. PICK u \in Threads : th[u].pc = "bind" /\ th[u].own = p
      BY <2>1 DEF CaptureInv, Accounted
    <2> QED
      BY <1>1, <1>2, <2>2 DEF Becomes
  <1> QED
    BY <1>4, <1>5, <1>6 DEF CaptureInv

\* The other steps leave the process bound.
LEMMA ThreadKeepsOrder ==
  ASSUME OneAtATime, CaptureInv, NEW t \in Threads, Calls(t) \/ Runs(t)
  PROVE  CaptureInv'
  <1>1. TypeOK' /\ TypeOK /\ Orderly(t)
    BY ThreadKeepsType DEF CaptureInv
  <1>2. /\ tshark \in Seq(Tshark) /\ Len(tshark) \in Nat
        /\ process \in 0..Len(tshark) /\ th[t].target \in 0..Len(tshark)
        /\ tshark' = tshark => NoneRevived
    BY <1>1, SignalsReviveNone DEF TypeOK
  <1>3. CASE StartCheck(t) \/ NameFile(t) \/ Started(t)
    <2>1. /\ Becomes(t, th'[t]) /\ UNCHANGED <<process, tshark>> /\ th[t].pc # "bind"
          /\ th'[t].pc \in {"name", "spawn", "sleep", "idle"}
      BY <1>1, <1>3, Effects DEF StartCheck, NameFile, Started, globals, Moved, Idle
    <2>2. th'[t].pc \in {"name", "spawn"} => t \in Starters \cup Executors /\ process = None
      BY <1>1, <1>3, Effects DEF StartCheck, NameFile, Started, Moved, Orderly, Idle
    <2>3. th'[t].pc = "sleep" => t \in Executors
      BY <1>1, <1>3, Effects DEF Moved, Idle
    <2>4. Orderly(t)'
      BY <2>1, <2>2, <2>3 DEF Orderly, Stopping, Resetting
    <2> QED
      BY <1>1, <1>2, <2>1, <2>4, QuietStep
  <1>4. CASE Spawn(t)
    BY <1>1, <1>4, SpawnOrderly
  <1>5. CASE Bind(t)
    BY <1>1, <1>5, BindOrderly
  <1>6. CASE StartRaises(t) \/ CaptureFails(t) \/ AnalysisFails(t) \/ Stopped(t) \/ Analyse(t)
    <2>1. UNCHANGED <<process, tshark>> /\ th[t].pc # "bind"
      BY <1>6 DEF StartRaises, CaptureFails, AnalysisFails, Stopped, Analyse, globals
    <2>2. Idle.pc = "idle"
      BY DEF Idle
    <2>3. Becomes(t, th'[t]) /\ th'[t].pc \in {"idle", "analyse", "done"}
      BY <1>1, <1>6, <2>2, Effects
    <2>4. Orderly(t)'
      BY <2>3 DEF Orderly, Stopping, Resetting
    <2> QED
      BY <1>1, <1>2, <2>1, <2>3, <2>4, QuietStep
  <1>7. CASE StopCheck(t)
    <2>1. /\ Becomes(t, th'[t]) /\ UNCHANGED <<process, tshark>> /\ th[t].pc # "bind"
          /\ th'[t].pc = "terminate" /\ th'[t].target = process /\ process # None
          /\ t \in Stoppers \cup Executors
      BY <1>1, <1>7, Effects DEF StopCheck, globals, Orderly
    <2>2. Orderly(t)'
      BY <2>1 DEF Orderly, Stopping, Resetting
    <2> QED
      BY <1>1, <1>2, <2>1, <2>2, QuietStep
  <1>8. CASE Terminate(t) \/ Kill(t)
    <2>1. /\ th[t].pc \in {"terminate", "kill"} /\ UNCHANGED <<process, captureFile, lastFile>>
          /\ t \in Stoppers \cup Executors /\ th[t].target # None /\ process = th[t].target
      BY <1>1, <1>8 DEF Terminate, Kill, globals, Orderly, Stopping
    <2>2. process \in 1..Len(tshark)
      BY <1>2, <2>1 DEF None
    <2>3. /\ Signalled(process)
          /\ Kill(t) => tshark'[process].status = "gone"
      BY <1>2, <1>8, <2>1, <2>2, SignalsAreSound DEF Terminate, Kill
    <2>4. NoneRevived /\ Len(tshark') = Len(tshark)
      BY <1>1, <2>3, SignalsReviveNone DEF Signalled
    <2>5. /\ Becomes(t, th'[t]) /\ th'[t].pc \in {"wait", "killed"} /\ th'[t].target = process
          /\ th'[t].pc = "killed" => Kill(t)
      BY <1>1, <1>8, <2>1, Effects DEF Moved
    <2>6. Orderly(t)'
      BY <2>1, <2>3, <2>5 DEF Orderly, Stopping, Resetting
    <2> QED
      BY <1>1, <2>1, <2>4, <2>5, <2>6, QuietStep
  <1>9. CASE Wait(t) \/ Reap(t) \/ Exited(t) \/ TimesOut(t)
    <2>1. /\ th[t].pc \in {"wait", "killed", "waiting", "reaping"}
          /\ UNCHANGED <<process, tshark>>
      BY <1>9 DEF Wait, Reap, Exited, TimesOut, globals
    <2>2. /\ t \in Stoppers \cup Executors /\ th[t].target # None /\ process = th[t].target
          /\ th[t].pc \in {"waiting", "reaping"} => th[t].waits = process
          /\ th[t].pc = "killed" => tshark[process].status = "gone"
      BY <1>1, <2>1 DEF Orderly, Stopping
    <2>3. CASE Wait(t) \/ Reap(t)
      <3>1. /\ Becomes(t, th'[t]) /\ th'[t].pc \in {"waiting", "reaping"}
            /\ th'[t].waits = process /\ th'[t].target = process
            /\ th'[t].pc = "reaping" => th[t].pc = "killed"
        BY <1>1, <2>2, <2>3, Effects DEF Reap, Wait
      <3>2. Orderly(t)'
        BY <2>1, <2>2, <3>1 DEF Orderly, Stopping, Resetting
      <3> QED
        BY <1>1, <1>2, <2>1, <3>1, <3>2, QuietStep
    <2>4. CASE Exited(t)
      <3>1. tshark[process].status = "gone"
        BY <2>2, <2>4 DEF Exited, Alive
      <3>2. Becomes(t, th'[t]) /\ th'[t].pc = "clear" /\ th'[t].target = process
        BY <1>1, <2>2, <2>4, Effects DEF Moved
      <3>3. Orderly(t)'
        BY <2>1, <2>2, <3>1, <3>2 DEF Orderly, Stopping, Resetting
      <3> QED
        BY <1>1, <1>2, <2>1, <3>2, <3>3, QuietStep
    <2>5. CASE TimesOut(t)
      <3>1. Becomes(t, th'[t]) /\ th'[t].pc = "kill" /\ th'[t].target = process
        BY <1>1, <2>2, <2>5, Effects DEF Moved
      <3>2. Orderly(t)'
        BY <2>1, <2>2, <3>1 DEF Orderly, Stopping, Resetting
      <3> QED
        BY <1>1, <1>2, <2>1, <3>1, <3>2, QuietStep
    <2> QED
      BY <1>9, <2>3, <2>4, <2>5
  <1>10. CASE Clear(t)
    BY <1>1, <1>10, ClearOrderly
  <1>11. CASE Promote(t)
    <2>1. /\ Becomes(t, th'[t]) /\ UNCHANGED <<process, tshark>> /\ th[t].pc = "promote"
          /\ th'[t].pc = "stopped" /\ th'[t].target = th[t].target
      BY <1>1, <1>11, Effects DEF Promote, Moved
    <2>2. Orderly(t)'
      BY <1>1, <2>1 DEF Orderly, Stopping, Resetting
    <2> QED
      BY <1>1, <1>2, <2>1, <2>2, QuietStep
  <1>12. ~ (\/ ResetCheck(t) \/ HangUp(t) \/ Await(t) \/ AwaitEnds(t)
            \/ Release(t) \/ Forget(t) \/ ForgetLast(t))
    BY <1>1 DEF ResetCheck, HangUp, Await, AwaitEnds, Release, Forget, ForgetLast,
                OneAtATime, Orderly, Resetting
  <1> QED
    BY <1>3, <1>4, <1>5, <1>6, <1>7, <1>8, <1>9, <1>10, <1>11, <1>12 DEF Calls, Runs

LEMMA CaptureInvariant == OneAtATime => (Spec => []CaptureInv)
  <1> SUFFICES ASSUME OneAtATime
               PROVE  Spec => []CaptureInv
    OBVIOUS
  <1>1. Init /\ TypeOK => CaptureInv
    BY DEF Init, CaptureInv, Accounted, Orderly, Idle, Stopping, Resetting
  <1>2. CaptureInv /\ [Next]_vars => CaptureInv'
    <2> SUFFICES ASSUME CaptureInv, [Next]_vars
                 PROVE  CaptureInv'
      OBVIOUS
    <2>1. TypeOK
      BY DEF CaptureInv
    <2>2. ASSUME TypeOK', NoneRevived, Len(tshark') = Len(tshark), UNCHANGED <<process, th>>
          PROVE  CaptureInv'
      <3>1. \A u \in Threads : Orderly(u)'
        BY <2>1, <2>2, OthersOrderly DEF CaptureInv
      <3>2. Accounted'
        BY <2>2 DEF CaptureInv, Accounted, NoneRevived
      <3> QED
        BY <2>2, <3>1, <3>2 DEF CaptureInv
    <2>3. ASSUME NEW p \in 1..Len(tshark), Signalled(p),
                 UNCHANGED <<process, captureFile, lastFile, th, now>>
          PROVE  CaptureInv'
      <3>1. TypeOK'
        BY <2>1, <2>3 DEF TypeOK, Signalled
      <3> QED
        BY <2>1, <2>2, <2>3, <3>1, SignalsReviveNone DEF Signalled
    <2>4. ASSUME now' \in 1..MaxTime, UNCHANGED <<process, captureFile, lastFile, tshark, th>>
          PROVE  CaptureInv'
      <3>1. TypeOK'
        BY <2>1, <2>4 DEF TypeOK
      <3> QED
        BY <2>1, <2>2, <2>4, <3>1, SignalsReviveNone
    <2> QED
      BY <2>1, <2>3, <2>4, ThreadKeepsOrder, Steps
  <1>3. Spec => Init /\ [][Next]_vars
    BY DEF Spec
  <1> QED
    BY <1>1, <1>2, <1>3, TypeCorrect, PTL

\* With one thread that starts captures and one that stops them, two tsharks never
\* run side by side: the check of start_capture is then as good as a lock.
THEOREM NoTwoTsharks == OneAtATime => (Spec => []OneTshark)
  <1> SUFFICES ASSUME OneAtATime
               PROVE  Spec => []OneTshark
    OBVIOUS
  <1>1. CaptureInv => OneTshark
    <2> SUFFICES ASSUME CaptureInv,
                        NEW p \in 1..Len(tshark), tshark[p].status = "running",
                        NEW q \in 1..Len(tshark), tshark[q].status = "running"
                 PROVE  p = q
      BY DEF CaptureInv, OneTshark, TypeOK
    <2>1. ASSUME NEW t \in Threads, th[t].pc = "bind"
          PROVE  process = None /\ t \in Starters \cup Executors
      BY <2>1 DEF CaptureInv, Orderly
    <2>2. p # None /\ q # None
      BY DEF None, CaptureInv, TypeOK
    <2>3. /\ p = process \/ \E t \in Threads : th[t].pc = "bind" /\ th[t].own = p
          /\ q = process \/ \E t \in Threads : th[t].pc = "bind" /\ th[t].own = q
      BY DEF CaptureInv, Accounted
    <2>4. CASE p = process \/ q = process
      BY <2>1, <2>2, <2>3, <2>4
    <2>5. CASE ~ (p = process \/ q = process)
      <3>1. PICK t \in Threads : th[t].pc = "bind" /\ th[t].own = p
        BY <2>3, <2>5
      <3>2. PICK u \in Threads : th[u].pc = "bind" /\ th[u].own = q
        BY <2>3, <2>5
      <3> QED
        BY <2>1, <3>1, <3>2 DEF OneAtATime
    <2> QED
      BY <2>4, <2>5
  <1> QED
    BY <1>1, CaptureInvariant, PTL

\* With one thread that starts captures and one that stops them, a stop that is past
\* its wait has ended the capture it found, also when tshark ignores the SIGTERM.
THEOREM StopEndsCapture == OneAtATime => (Spec => []StoppedIsGone)
  <1> SUFFICES ASSUME OneAtATime
               PROVE  Spec => []StoppedIsGone
    OBVIOUS
  <1>1. CaptureInv => StoppedIsGone
    BY DEF CaptureInv, Orderly, StoppedIsGone, Alive
  <1> QED
    BY <1>1, CaptureInvariant, PTL

\* stop_capture waits without a timeout only after it has killed the process, and then
\* for a process that is gone: the call cannot hang there.
LastWaitIsShort == \A t \in Threads : th[t].pc = "reaping" => ~ Alive(th[t].waits)

\* With one thread that starts captures and one that stops them, the wait() without a
\* timeout never blocks: no capture takes the place of the one that was killed.
THEOREM StopNeverHangs == OneAtATime => (Spec => []LastWaitIsShort)
  <1> SUFFICES ASSUME OneAtATime
               PROVE  Spec => []LastWaitIsShort
    OBVIOUS
  <1>1. CaptureInv => LastWaitIsShort
    BY DEF CaptureInv, Orderly, LastWaitIsShort, Alive
  <1> QED
    BY <1>1, CaptureInvariant, PTL

-----------------------------------------------------------------------------
(* Calls come to an end, whoever else calls *)

\* The most steps that a call at this line still takes.
Rank(pc) ==
  CASE pc \in {"idle", "done"} -> 0
    [] pc = "forgetLast" -> 1
    [] pc = "forget" -> 2
    [] pc \in {"analyse", "release"} -> 3
    [] pc \in {"stopped", "awaiting"} -> 4
    [] pc \in {"promote", "await"} -> 5
    [] pc \in {"clear", "hangup"} -> 6
    [] pc = "reaping" -> 7
    [] pc = "killed" -> 8
    [] pc = "kill" -> 9
    [] pc = "waiting" -> 10
    [] pc = "wait" -> 11
    [] pc = "terminate" -> 12
    [] pc = "sleep" -> 13
    [] pc = "started" -> 14
    [] pc = "bind" -> 15
    [] pc = "spawn" -> 16
    [] pc = "name" -> 17
StepsLeft(t) == Rank(th[t].pc)

\* No handler of a capture has a loop: each of its steps brings a call nearer to its
\* return, and nobody else takes it further away, by any signal or change of a global.
CallShortens ==
  [][\A t \in Threads :
       /\ StepsLeft(t) # 0 => StepsLeft(t)' <= StepsLeft(t)
       /\ Runs(t) => StepsLeft(t)' < StepsLeft(t)]_vars

LEMMA RunCountsDown ==
  ASSUME TypeOK, NEW t \in Threads, Runs(t)
  PROVE  Becomes(t, th'[t]) /\ Rank(th'[t].pc) < Rank(th[t].pc)
  <1>0. Idle.pc = "idle"
    BY DEF Idle
  <1>1. CASE NameFile(t) \/ Spawn(t) \/ Bind(t) \/ Started(t)
    BY <1>0, <1>1, Effects DEF NameFile, Spawn, Bind, Started, Moved, Rank
  <1>2. CASE StartRaises(t) \/ CaptureFails(t) \/ AnalysisFails(t) \/ Analyse(t)
    <2>1. th[t].pc \in {"name", "spawn", "sleep", "analyse"}
      BY <1>2 DEF StartRaises, CaptureFails, AnalysisFails, Analyse
    <2>2. Becomes(t, th'[t]) /\ th'[t].pc \in {"idle", "done"}
      BY <1>0, <1>2, Effects
    <2> QED
      BY <2>1, <2>2 DEF Rank
  <1>3. CASE (th[t].pc = "sleep" /\ StopCheck(t)) \/ Terminate(t) \/ Wait(t)
    BY <1>3, Effects DEF Terminate, Wait, Moved, Rank
  <1>4. CASE Exited(t) \/ TimesOut(t)
    BY <1>4, Effects DEF Exited, TimesOut, Moved, Rank
  <1>5. CASE Kill(t) \/ Reap(t)
    <2>1. /\ Becomes(t, th'[t])
          /\ \/ th[t].pc = "kill" /\ th'[t].pc \in {"clear", "killed"}
             \/ th[t].pc = "killed" /\ th'[t].pc \in {"clear", "reaping"}
      BY <1>5, Effects DEF Kill, Reap, Moved
    <2> QED
      BY <2>1 DEF Rank
  <1>6. CASE Clear(t) \/ Promote(t) \/ Stopped(t)
    <2>1. /\ Becomes(t, th'[t])
          /\ \/ th[t].pc = "clear" /\ th'[t].pc = "promote"
             \/ th[t].pc = "promote" /\ th'[t].pc = "stopped"
             \/ th[t].pc = "stopped" /\ th'[t].pc \in {"analyse", "idle"}
      BY <1>0, <1>6, Effects DEF Clear, Promote, Stopped, Moved
    <2> QED
      BY <2>1 DEF Rank
  <1>7. CASE HangUp(t) \/ Await(t) \/ AwaitEnds(t)
    BY <1>7, Effects DEF HangUp, Await, AwaitEnds, Moved, Rank
  <1>8. CASE Release(t) \/ Forget(t) \/ ForgetLast(t)
    BY <1>0, <1>8, Effects DEF Release, Forget, ForgetLast, Moved, Rank
  <1> QED
    BY <1>1, <1>2, <1>3, <1>4, <1>5, <1>6, <1>7, <1>8 DEF Runs

LEMMA CallsStartAtRest ==
  ASSUME TypeOK, NEW t \in Threads, Calls(t)
  PROVE  Becomes(t, th'[t]) /\ Rank(th[t].pc) = 0 /\ ~ Runs(t)
  <1>1. Becomes(t, th'[t]) /\ th[t].pc \in {"idle", "done"}
    BY Effects DEF Calls, StartCheck, ResetCheck
  <1>2. Rank(th[t].pc) = 0
    BY <1>1 DEF Rank
  <1>3. ~ Runs(t)
    BY <1>1 DEF Runs, NameFile, Spawn, StartRaises, Bind, Started, CaptureFails, Terminate,
                Wait, Exited, TimesOut, Kill, Reap, Clear, Promote, Stopped, Analyse,
                AnalysisFails, HangUp, Await, AwaitEnds, Release, Forget, ForgetLast
  <1> QED
    BY <1>1, <1>2, <1>3

LEMMA RankMeasures == ASSUME NEW pc \in Stage PROVE Rank(pc) \in 0..17
  BY DEF Rank, Stage, Starting, Stopping, Resetting

\* Start, stop, reset and the capture of a playbook take seventeen steps at most, for
\* any number of threads, and whatever they do to each other's processes.
THEOREM CallsEnd == Spec => CallShortens
  <1>1. ASSUME TypeOK, [Next]_vars, NEW t \in Threads
        PROVE  /\ StepsLeft(t) # 0 => StepsLeft(t)' <= StepsLeft(t)
               /\ Runs(t) => StepsLeft(t)' < StepsLeft(t)
    <2>1. StepsLeft(t) \in Nat
      <3>1. th[t].pc \in Stage
        BY <1>1 DEF TypeOK, Call, Stage
      <3> QED
        BY <3>1, RankMeasures DEF StepsLeft
    <2>2. CASE UNCHANGED th
      <3>1. ~ Runs(t)
        BY <1>1, <2>1, <2>2, RunCountsDown DEF StepsLeft
      <3> QED
        BY <2>1, <2>2, <3>1 DEF StepsLeft
    <2>3. ASSUME NEW u \in Threads, Runs(u)
          PROVE  /\ StepsLeft(t)' <= StepsLeft(t)
                 /\ Runs(t) => StepsLeft(t)' < StepsLeft(t)
      <3>1. CASE u = t
        <4>1. Becomes(t, th'[t]) /\ Rank(th'[t].pc) < Rank(th[t].pc)
          BY <1>1, <2>3, <3>1, RunCountsDown
        <4>2. th'[t].pc \in Stage
          BY <4>1 DEF Becomes, Call, Stage
        <4>3. Rank(th'[t].pc) \in Nat
          BY <4>2, RankMeasures
        <4> QED
          BY <2>1, <4>1, <4>3 DEF StepsLeft
      <3>2. CASE u # t
        <4>1. th'[t] = th[t]
          BY <1>1, <2>3, <3>2, RunCountsDown DEF Becomes
        <4>2. ~ Runs(t)
          BY <1>1, <2>1, <4>1, RunCountsDown DEF StepsLeft
        <4> QED
          BY <2>1, <4>1, <4>2 DEF StepsLeft
      <3> QED
        BY <3>1, <3>2
    <2>4. ASSUME NEW u \in Threads, Calls(u)
          PROVE  /\ StepsLeft(t) # 0 => StepsLeft(t)' <= StepsLeft(t)
                 /\ ~ Runs(t)
      <3>1. CASE u = t
        BY <1>1, <2>4, <3>1, CallsStartAtRest DEF StepsLeft
      <3>2. CASE u # t
        <4>1. th'[t] = th[t]
          BY <1>1, <2>4, <3>2, CallsStartAtRest DEF Becomes
        <4>2. ~ Runs(t)
          BY <1>1, <2>1, <4>1, RunCountsDown DEF StepsLeft
        <4> QED
          BY <2>1, <4>1, <4>2 DEF StepsLeft
      <3> QED
        BY <3>1, <3>2
    <2> QED
      BY <1>1, <2>1, <2>2, <2>3, <2>4, Steps
  <1>2. TypeOK /\ [Next]_vars =>
          [\A t \in Threads :
             /\ StepsLeft(t) # 0 => StepsLeft(t)' <= StepsLeft(t)
             /\ Runs(t) => StepsLeft(t)' < StepsLeft(t)]_vars
    BY <1>1
  <1> QED
    BY <1>2, TypeCorrect, PTL DEF Spec, CallShortens

-----------------------------------------------------------------------------
(* One executor that captures, and any number of stops and resets *)

SoleCapturer == Starters = {} /\ \A t, u \in Executors : t = u

OwnFile(t) == tshark[th[t].own].file

\* From the spawn of its tshark on, the capture file is that of an executor, or has
\* been forgotten; so is the last file once it is promoted.
Owns(t) ==
  /\ th[t].pc \in {"bind", "started", "sleep", "analyse", "done"} \cup Stopping => th[t].own # None
  /\ th[t].pc \in {"bind", "started", "sleep", "analyse"} \cup Stopping
       => captureFile \in {OwnFile(t), None}
  /\ th[t].pc \in {"stopped", "analyse"} => lastFile \in {OwnFile(t), None}
  /\ th[t].pc \in {"analyse", "done"} => th[t].file \in {OwnFile(t), None}
  /\ th[t].pc = "done" => th[t].analysed = OwnFile(t)

OwnInv ==
  /\ TypeOK
  /\ \A t \in Threads : th[t].pc = "name" => t \in Starters \cup Executors
  /\ \A t \in Executors : Owns(t)

\* No step renames a file.
FilesKept ==
  /\ Len(tshark') >= Len(tshark)
  /\ \A q \in 1..Len(tshark) : tshark'[q].file = tshark[q].file

LEMMA FilesAreKept ==
  ASSUME TypeOK
  PROVE  /\ tshark' = tshark => FilesKept
         /\ \A p : Signalled(p) => FilesKept
         /\ \A t \in Threads : Calls(t) \/ Runs(t) => FilesKept
  <1>1. /\ tshark' = tshark => FilesKept
        /\ \A p : Signalled(p) => FilesKept
    BY DEF FilesKept, Signalled, TypeOK
  <1>2. ASSUME NEW t \in Threads, Calls(t) \/ Runs(t)
        PROVE  FilesKept
    <2>1. tshark \in Seq(Tshark) /\ Len(tshark) \in Nat /\ process \in 0..Len(tshark)
      BY DEF TypeOK
    <2>2. CASE Spawn(t)
      <3>1. captureFile \in 1..MaxTime
        BY <2>2, BoundsAssumption DEF Spawn, TypeOK, None
      <3> QED
        BY <2>1, <2>2, <3>1, Spawned DEF Spawn, FilesKept
    <2>3. CASE Terminate(t) \/ Kill(t) \/ HangUp(t)
      BY <1>1, <2>1, <2>3, SignalsAreSound DEF Terminate, Kill, HangUp, None
    <2>4. CASE ~ (Spawn(t) \/ Terminate(t) \/ Kill(t) \/ HangUp(t))
      <3>1. tshark' = tshark
        BY <1>2, <2>4
           DEF Calls, Runs, StartCheck, NameFile, StartRaises, Bind, Started, StopCheck,
               CaptureFails, Wait, Exited, TimesOut, Reap, Clear, Promote, Stopped, Analyse,
               AnalysisFails, ResetCheck, Await, AwaitEnds, Release, Forget, ForgetLast
      <3> QED
        BY <1>1, <3>1
    <2> QED
      BY <2>2, <2>3, <2>4
  <1> QED
    BY <1>1, <1>2

\* Who writes the two file names.
LEMMA FileWriters ==
  ASSUME TypeOK, NEW t \in Threads, Calls(t) \/ Runs(t)
  PROVE  /\ captureFile' \in {captureFile, None} \/ NameFile(t)
         /\ lastFile' \in {lastFile, None} \/ Promote(t)
  BY DEF Calls, Runs, StartCheck, NameFile, Spawn, StartRaises, Bind, Started, StopCheck,
         CaptureFails, Terminate, Wait, Exited, TimesOut, Kill, Reap, Clear, Promote, Stopped,
         Analyse, AnalysisFails, ResetCheck, HangUp, Await, AwaitEnds, Release, Forget,
         ForgetLast, globals

\* An executor keeps its files through the steps of the others.
LEMMA OthersOwn ==
  ASSUME TypeOK, NEW e \in Executors, Owns(e), th'[e] = th[e], FilesKept,
         captureFile' \in {captureFile, None},
         lastFile' \in {lastFile, None, captureFile}
  PROVE  Owns(e)'
  <1>1. th[e].own \in 0..Len(tshark) /\ Len(tshark) \in Nat
    BY DEF TypeOK, Threads
  <1>2. th[e].own # None => OwnFile(e)' = OwnFile(e)
    BY <1>1 DEF OwnFile, FilesKept, None
  <1> QED
    BY <1>2 DEF Owns, Stopping

LEMMA ExecutorOwns ==
  ASSUME SoleCapturer, OwnInv, NEW e \in Executors, Calls(e) \/ Runs(e)
  PROVE  Owns(e)'
  <1>1. TypeOK /\ Owns(e) /\ e \in Threads /\ e \notin Stoppers /\ FilesKept
    BY RolesAssumption, FilesAreKept DEF OwnInv, Threads
  <1>2. th[e].own \in 0..Len(tshark) /\ tshark \in Seq(Tshark) /\ Len(tshark) \in Nat
    BY <1>1 DEF TypeOK
  <1>3. ASSUME th[e].own # None, th'[e].own = th[e].own
        PROVE  OwnFile(e)' = OwnFile(e)
    BY <1>1, <1>2, <1>3 DEF OwnFile, FilesKept, None
  <1>4. Idle.pc = "idle"
    BY DEF Idle
  <1>5. CASE \/ StartCheck(e) \/ NameFile(e) \/ StartRaises(e) \/ CaptureFails(e)
             \/ AnalysisFails(e) \/ ResetCheck(e) \/ HangUp(e) \/ Await(e) \/ AwaitEnds(e)
             \/ Release(e) \/ Forget(e) \/ ForgetLast(e)
    <2>1. th'[e].pc \in {"name", "spawn", "idle"} \cup Resetting
      BY <1>1, <1>4, <1>5, Effects DEF Moved, Resetting
    <2> QED
      BY <2>1 DEF Owns, Stopping, Resetting
  <1>6. CASE Spawn(e)
    <2>1. captureFile \in 1..MaxTime
      BY <1>1, <1>6, BoundsAssumption DEF Spawn, TypeOK, None
    <2>2. tshark'[Len(tshark) + 1].file = captureFile
      BY <1>2, <1>6, <2>1, Spawned DEF Spawn
    <2>3. th'[e].pc = "bind" /\ th'[e].own = Len(tshark) + 1 /\ captureFile' = captureFile
      BY <1>1, <1>6, Effects DEF Spawn, globals
    <2> QED
      BY <1>2, <2>2, <2>3 DEF Owns, OwnFile, Stopping, None
  <1>7. CASE \/ Bind(e) \/ Started(e) \/ StopCheck(e) \/ Terminate(e) \/ Wait(e) \/ Exited(e)
             \/ TimesOut(e) \/ Kill(e) \/ Reap(e) \/ Clear(e)
    <2>1. /\ th[e].pc \in {"bind", "started", "sleep"} \cup Stopping
          /\ UNCHANGED <<captureFile, lastFile>>
      BY <1>1, <1>7
         DEF Bind, Started, StopCheck, Terminate, Wait, Exited, TimesOut, Kill, Reap, Clear,
             globals, Stopping
    <2>2. /\ th'[e].pc \in {"started", "sleep"} \cup (Stopping \ {"stopped"})
          /\ th'[e].own = th[e].own
      BY <1>1, <1>7, Effects DEF Moved, Stopping
    <2>3. th[e].own # None /\ captureFile \in {OwnFile(e), None}
      BY <1>1, <2>1 DEF Owns
    <2> QED
      BY <1>3, <2>1, <2>2, <2>3 DEF Owns, Stopping
  <1>8. CASE Promote(e)
    <2>1. th[e].pc = "promote" /\ lastFile' = captureFile /\ captureFile' = captureFile
      BY <1>8 DEF Promote
    <2>2. th'[e].pc = "stopped" /\ th'[e].own = th[e].own
      BY <1>1, <1>8, Effects DEF Moved
    <2>3. th[e].own # None /\ captureFile \in {OwnFile(e), None}
      BY <1>1, <2>1 DEF Owns, Stopping
    <2> QED
      BY <1>3, <2>1, <2>2, <2>3 DEF Owns, Stopping
  <1>9. CASE Stopped(e)
    <2>1. th[e].pc = "stopped" /\ UNCHANGED <<captureFile, lastFile>>
      BY <1>9 DEF Stopped, globals
    <2>2. th'[e].pc = "analyse" /\ th'[e].own = th[e].own /\ th'[e].file = captureFile
      BY <1>1, <1>9, Effects
    <2>3. th[e].own # None /\ {captureFile, lastFile} \subseteq {OwnFile(e), None}
      BY <1>1, <2>1 DEF Owns, Stopping
    <2> QED
      BY <1>3, <2>1, <2>2, <2>3 DEF Owns, Stopping
  <1>10. CASE Analyse(e)
    <2>1. th[e].pc = "analyse" /\ lastFile # None
      BY <1>10 DEF Analyse
    <2>2. /\ th'[e].pc = "done" /\ th'[e].own = th[e].own
          /\ th'[e].file = th[e].file /\ th'[e].analysed = lastFile
      BY <1>1, <1>10, Effects
    <2>3. /\ th[e].own # None /\ lastFile = OwnFile(e) /\ th[e].file \in {OwnFile(e), None}
      BY <1>1, <2>1 DEF Owns
    <2> QED
      BY <1>3, <2>2, <2>3 DEF Owns, Stopping
  <1> QED
    BY <1>5, <1>6, <1>7, <1>8, <1>9, <1>10 DEF Calls, Runs

LEMMA ThreadKeepsOwn ==
  ASSUME SoleCapturer, OwnInv, NEW t \in Threads, Calls(t) \/ Runs(t)
  PROVE  OwnInv'
  <1>1. TypeOK /\ TypeOK' /\ FilesKept
    BY ThreadKeepsType, FilesAreKept DEF OwnInv
  <1>2. Becomes(t, th'[t])
    BY <1>1, Effects DEF Calls, Runs
  <1>3. th'[t].pc = "name" => t \in Starters \cup Executors
    <2>1. th'[t].pc = "name" => StartCheck(t)
      <3>1. Idle.pc = "idle"
        BY DEF Idle
      <3> QED
        BY <1>1, <3>1, Effects DEF Calls, Runs, Moved
    <2> QED
      BY <2>1 DEF StartCheck
  <1>4. ASSUME NEW e \in Executors, e # t
        PROVE  Owns(e)'
    <2>1. ~ NameFile(t)
      BY <1>4 DEF NameFile, OwnInv, SoleCapturer
    <2>2. captureFile' \in {captureFile, None} /\ lastFile' \in {lastFile, None, captureFile}
      BY <1>1, <2>1, FileWriters DEF Promote
    <2>3. th'[e] = th[e]
      BY <1>2, <1>4 DEF Becomes, Threads
    <2> QED
      BY <1>1, <1>4, <2>2, <2>3, OthersOwn DEF OwnInv
  <1>5. \A e \in Executors : Owns(e)'
    BY <1>4, ExecutorOwns
  <1> QED
    BY <1>1, <1>2, <1>3, <1>5 DEF OwnInv, Becomes

\* The packet-capture step of a playbook, alone in starting captures, analyses and
\* reports the file of the capture it started, whatever requests stop captures and
\* delete sessions meanwhile.
THEOREM OwnCaptureReported == SoleCapturer => (Spec => []ReportsOwnCapture)
  <1> SUFFICES ASSUME SoleCapturer
               PROVE  Spec => []ReportsOwnCapture
    OBVIOUS
  <1>1. Init /\ TypeOK => OwnInv
    BY DEF Init, OwnInv, Owns, Idle, Stopping, Threads
  <1>2. OwnInv /\ [Next]_vars => OwnInv'
    <2> SUFFICES ASSUME OwnInv, [Next]_vars
                 PROVE  OwnInv'
      OBVIOUS
    <2>1. TypeOK
      BY DEF OwnInv
    <2>2. ASSUME TypeOK', FilesKept, UNCHANGED <<captureFile, lastFile, th>>
          PROVE  OwnInv'
      BY <2>1, <2>2, OthersOwn DEF OwnInv
    <2>3. ASSUME NEW p \in 1..Len(tshark), Signalled(p),
                 UNCHANGED <<process, captureFile, lastFile, th, now>>
          PROVE  OwnInv'
      <3>1. TypeOK'
        BY <2>1, <2>3 DEF TypeOK, Signalled
      <3> QED
        BY <2>1, <2>2, <2>3, <3>1, FilesAreKept
    <2>4. ASSUME now' \in 1..MaxTime, UNCHANGED <<process, captureFile, lastFile, tshark, th>>
          PROVE  OwnInv'
      <3>1. TypeOK'
        BY <2>1, <2>4 DEF TypeOK
      <3> QED
        BY <2>1, <2>2, <2>4, <3>1, FilesAreKept
    <2> QED
      BY <2>1, <2>3, <2>4, ThreadKeepsOwn, Steps
  <1>3. OwnInv => ReportsOwnCapture
    BY DEF OwnInv, Owns, OwnFile, ReportsOwnCapture
  <1>4. Spec => Init /\ [][Next]_vars
    BY DEF Spec
  <1> QED
    BY <1>1, <1>2, <1>3, <1>4, TypeCorrect, PTL

=============================================================================
