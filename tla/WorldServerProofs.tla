-------------------------- MODULE WorldServerProofs --------------------------
(***************************************************************************)
(* The world server keeps its worlds: ServerInv is inductive, for any         *)
(* interval, any number of connections and any bound on the catching up, and  *)
(* the server implements DurableWorld.                                       *)
(***************************************************************************)
EXTENDS WorldServer, TLAPS

USE ServerAssumption DEF ServerAssumption

\* No save, no process.
LEMMA InitInv == Init => ServerInv
<1> SUFFICES ASSUME Init PROVE ServerInv
    OBVIOUS
<1>1. /\ now = 0 /\ lives = 0 /\ steps = 0 /\ born = 0 /\ tick = 0 /\ rev = 0 /\ ticks = 0
      /\ due = FALSE /\ last = FALSE /\ failed = FALSE /\ stop = FALSE
      /\ file = NoFile /\ tmp = NoFile
    BY DEF Init
<1>2. /\ pc = "down" /\ http = "off" /\ loop = "off" /\ ended = "never"
      /\ sess = [s \in Sessions |-> "none"] /\ closing = {}
    BY DEF Init
<1>3. NoFile \in Files /\ file.state = "none" /\ file.tick = 0 /\ file.rev = 0 /\ file.at = 0
    BY <1>1 DEF NoFile, Files
<1>4. TypeOK
  <2>1. /\ now \in Nat /\ lives \in Nat /\ steps \in Nat /\ born \in Nat /\ tick \in Nat /\ rev \in Nat
        /\ ticks \in 0..(Interval - 1)
      BY <1>1
  <2>2. file \in Files /\ tmp \in Files
      BY <1>1, <1>3
  <2> QED
      BY <1>1, <1>2, <2>1, <2>2 DEF TypeOK
<1>5. Goroutines /\ Disk /\ LastSave /\ OrderlyStop
    BY <1>1, <1>2, <1>3 DEF Goroutines, Disk, LastSave, OrderlyStop, Serving
<1>6. Times /\ Steps /\ Loss /\ BoundedLoss
    BY <1>1, <1>2, <1>3 DEF Times, Steps, Loss, BoundedLoss, Up
<1> QED
    BY <1>4, <1>5, <1>6 DEF ServerInv

\* A new life: what was lost before it is no longer counted.
LEMMA LaunchInv ==
    ASSUME ServerInv, Launch
    PROVE  ServerInv'
<1> USE DEF clockVars, mainVars, loopVars, diskVars, worldVars, Launch
<1>0. /\ TypeOK /\ Goroutines /\ Times /\ Disk /\ Steps
      /\ Loss /\ LastSave /\ BoundedLoss /\ OrderlyStop
    BY DEF ServerInv
<1>1. TypeOK'
  <2>1. now' \in Nat /\ lives' \in Nat /\ steps' \in Nat /\ born' \in Nat /\ tick' \in Nat /\ rev' \in Nat
      BY <1>0 DEF TypeOK, Times, Disk, Files, Goroutines
  <2>2. ticks' \in 0..(Interval - 1)
      BY <1>0 DEF TypeOK
  <2>3. file' \in Files /\ tmp' \in Files
      BY <1>0 DEF TypeOK, Files, NoFile
  <2>4. /\ pc' \in {"down", "load", "listen"} \cup Serving
        /\ stop' \in BOOLEAN /\ http' \in {"off", "serving", "failed"}
        /\ sess' \in [Sessions -> {"none", "upgraded", "open", "closed"}]
        /\ closing' \subseteq Sessions
        /\ ended' \in {"never", "crashed", "fatal", "stopped"}
        /\ loop' \in {"off", "select", "create", "encode", "rename", "done"}
        /\ due' \in BOOLEAN /\ last' \in BOOLEAN /\ failed' \in BOOLEAN
      BY <1>0 DEF TypeOK, Serving
  <2> QED
      BY <2>1, <2>2, <2>3, <2>4 DEF TypeOK
<1>2. Goroutines'
    BY <1>0 DEF TypeOK, Goroutines, Serving
<1>3. Times'
    BY <1>0 DEF TypeOK, Goroutines, Times, Up, Files, Disk, Serving
<1>4. Disk'
    BY <1>0 DEF TypeOK, Files, NoFile, Goroutines, Times, Disk, Up, Serving
<1>5. Steps'
    BY <1>0 DEF TypeOK, Files, Goroutines, Disk, Steps, Up, Serving
<1>6. Loss'
    BY <1>0 DEF TypeOK, Files, Goroutines, Disk, Steps, Loss, SinceSave, Up, Serving
<1>7. LastSave'
    BY <1>0 DEF TypeOK, Goroutines, Disk, LastSave, Saved, Serving
<1>8. BoundedLoss'
    BY <1>0 DEF TypeOK, Files, Goroutines, Disk, Steps, Loss, SinceSave, Up, BoundedLoss, Serving
<1>9. OrderlyStop'
    BY <1>0 DEF TypeOK, Goroutines, LastSave, Saved, Disk, OrderlyStop, Serving
<1> QED
    BY <1>1, <1>2, <1>3, <1>4, <1>5, <1>6, <1>7, <1>8, <1>9 DEF ServerInv

\* The process ends, in whatever way: the files stay, and after an orderly stop
\* they are the last world.
LEMMA DiesInv ==
    ASSUME ServerInv, NEW how \in {"crashed", "fatal", "stopped"}, pc # "down",
           how = "stopped" => pc = "closing", Dies(how)
    PROVE  ServerInv'
<1> USE DEF clockVars, mainVars, loopVars, diskVars, worldVars, Dies
<1>0. /\ TypeOK /\ Goroutines /\ Times /\ Disk /\ Steps
      /\ Loss /\ LastSave /\ BoundedLoss /\ OrderlyStop
    BY DEF ServerInv
<1>1. TypeOK'
  <2>1. now' \in Nat /\ lives' \in Nat /\ steps' \in Nat /\ born' \in Nat /\ tick' \in Nat /\ rev' \in Nat
      BY <1>0 DEF TypeOK, Times, Disk, Files, Goroutines
  <2>2. ticks' \in 0..(Interval - 1)
      BY <1>0 DEF TypeOK
  <2>3. file' \in Files /\ tmp' \in Files
      BY <1>0 DEF TypeOK, Files, NoFile
  <2>4. /\ pc' \in {"down", "load", "listen"} \cup Serving
        /\ stop' \in BOOLEAN /\ http' \in {"off", "serving", "failed"}
        /\ sess' \in [Sessions -> {"none", "upgraded", "open", "closed"}]
        /\ closing' \subseteq Sessions
        /\ ended' \in {"never", "crashed", "fatal", "stopped"}
        /\ loop' \in {"off", "select", "create", "encode", "rename", "done"}
        /\ due' \in BOOLEAN /\ last' \in BOOLEAN /\ failed' \in BOOLEAN
      BY <1>0 DEF TypeOK, Serving
  <2> QED
      BY <2>1, <2>2, <2>3, <2>4 DEF TypeOK
<1>2. Goroutines'
    BY <1>0 DEF TypeOK, Goroutines, Serving
<1>3. Times'
    BY <1>0 DEF TypeOK, Goroutines, Times, Up, Files, Disk, Serving
<1>4. Disk'
    BY <1>0 DEF TypeOK, Files, NoFile, Goroutines, Times, Disk, Up, Serving
<1>5. Steps'
    BY <1>0 DEF TypeOK, Files, Goroutines, Disk, Steps, Up, Serving
<1>6. Loss'
    BY <1>0 DEF TypeOK, Files, Goroutines, Disk, Steps, Loss, SinceSave, Up, Serving
<1>7. LastSave'
    BY <1>0 DEF TypeOK, Goroutines, Disk, LastSave, Saved, Serving
<1>8. BoundedLoss'
    BY <1>0 DEF TypeOK, Files, Goroutines, Disk, Steps, Loss, SinceSave, Up, BoundedLoss, Serving
<1>9. OrderlyStop'
    BY <1>0 DEF TypeOK, Goroutines, LastSave, Saved, Disk, OrderlyStop, Serving
<1> QED
    BY <1>1, <1>2, <1>3, <1>4, <1>5, <1>6, <1>7, <1>8, <1>9 DEF ServerInv

\* The world of the save, caught up with the clock.
LEMMA LoadInv ==
    ASSUME ServerInv, Load
    PROVE  ServerInv'
<1> USE DEF clockVars, mainVars, loopVars, diskVars, worldVars, Load, CatchUp, Least
<1>0. /\ TypeOK /\ Goroutines /\ Times /\ Disk /\ Steps
      /\ Loss /\ LastSave /\ BoundedLoss /\ OrderlyStop
    BY DEF ServerInv
<1>1. TypeOK'
  <2>1. now' \in Nat /\ lives' \in Nat /\ steps' \in Nat /\ born' \in Nat /\ tick' \in Nat /\ rev' \in Nat
      BY <1>0 DEF TypeOK, Times, Disk, Files, Goroutines
  <2>2. ticks' \in 0..(Interval - 1)
      BY <1>0 DEF TypeOK
  <2>3. file' \in Files /\ tmp' \in Files
      BY <1>0 DEF TypeOK, Files, NoFile
  <2>4. /\ pc' \in {"down", "load", "listen"} \cup Serving
        /\ stop' \in BOOLEAN /\ http' \in {"off", "serving", "failed"}
        /\ sess' \in [Sessions -> {"none", "upgraded", "open", "closed"}]
        /\ closing' \subseteq Sessions
        /\ ended' \in {"never", "crashed", "fatal", "stopped"}
        /\ loop' \in {"off", "select", "create", "encode", "rename", "done"}
        /\ due' \in BOOLEAN /\ last' \in BOOLEAN /\ failed' \in BOOLEAN
      BY <1>0 DEF TypeOK, Serving
  <2> QED
      BY <2>1, <2>2, <2>3, <2>4 DEF TypeOK
<1>2. Goroutines'
    BY <1>0 DEF TypeOK, Goroutines, Serving
<1>3. Times'
    BY <1>0 DEF TypeOK, Goroutines, Times, Up, Files, Disk, Serving
<1>4. Disk'
    BY <1>0 DEF TypeOK, Files, NoFile, Goroutines, Times, Disk, Up, Serving
<1>5. Steps'
  <2>1. steps \in Nat /\ file.rev \in Nat /\ born <= steps /\ file.rev <= steps /\ steps = born
      BY <1>0 DEF TypeOK, Files, Steps
  <2>2. /\ rev' = file.rev \/ (rev' = 0 /\ file.rev = 0)
        /\ steps' = steps /\ born' = born /\ file' = file /\ pc' = "listen"
      BY <1>0 DEF Disk, Steps, TypeOK, Files
  <2> QED
      BY <2>1, <2>2 DEF Steps, Up
<1>6. Loss'
    BY <1>0 DEF TypeOK, Files, Goroutines, Disk, Steps, Loss, SinceSave, Up, Serving
<1>7. LastSave'
    BY <1>0 DEF TypeOK, Goroutines, Disk, LastSave, Saved, Serving
<1>8. BoundedLoss'
    BY <1>0 DEF TypeOK, Files, Goroutines, Disk, Steps, Loss, SinceSave, Up, BoundedLoss, Serving
<1>9. OrderlyStop'
    BY <1>0 DEF TypeOK, Goroutines, LastSave, Saved, Disk, OrderlyStop, Serving
<1> QED
    BY <1>1, <1>2, <1>3, <1>4, <1>5, <1>6, <1>7, <1>8, <1>9 DEF ServerInv

\* A live step, which may be the one before a save.
LEMMA StepInv ==
    ASSUME ServerInv, Step
    PROVE  ServerInv'
<1> USE DEF clockVars, mainVars, loopVars, diskVars, worldVars, Step, AutoSaveDue
<1>0. /\ TypeOK /\ Goroutines /\ Times /\ Disk /\ Steps
      /\ Loss /\ LastSave /\ BoundedLoss /\ OrderlyStop
    BY DEF ServerInv
<1>1. TypeOK'
  <2>1. now' \in Nat /\ lives' \in Nat /\ steps' \in Nat /\ born' \in Nat /\ tick' \in Nat /\ rev' \in Nat
      BY <1>0 DEF TypeOK, Times, Disk, Files, Goroutines
  <2>2. ticks' \in 0..(Interval - 1)
      BY <1>0 DEF TypeOK
  <2>3. file' \in Files /\ tmp' \in Files
      BY <1>0 DEF TypeOK, Files, NoFile
  <2>4. /\ pc' \in {"down", "load", "listen"} \cup Serving
        /\ stop' \in BOOLEAN /\ http' \in {"off", "serving", "failed"}
        /\ sess' \in [Sessions -> {"none", "upgraded", "open", "closed"}]
        /\ closing' \subseteq Sessions
        /\ ended' \in {"never", "crashed", "fatal", "stopped"}
        /\ loop' \in {"off", "select", "create", "encode", "rename", "done"}
        /\ due' \in BOOLEAN /\ last' \in BOOLEAN /\ failed' \in BOOLEAN
      BY <1>0 DEF TypeOK, Serving
  <2> QED
      BY <2>1, <2>2, <2>3, <2>4 DEF TypeOK
<1>2. Goroutines'
    BY <1>0 DEF TypeOK, Goroutines, Serving
<1>3. Times'
    BY <1>0 DEF TypeOK, Goroutines, Times, Up, Files, Disk, Serving
<1>4. Disk'
    BY <1>0 DEF TypeOK, Files, NoFile, Goroutines, Times, Disk, Up, Serving
<1>5. Steps'
  <2>1. /\ steps \in Nat /\ rev \in Nat /\ born \in Nat /\ file.rev \in Nat
        /\ born <= steps /\ rev <= steps /\ file.rev <= steps
      BY <1>0 DEF TypeOK, Files, Steps
  <2>2. /\ steps' = steps + 1 /\ rev' = steps + 1
        /\ born' = born /\ file' = file /\ pc' = pc /\ pc # "load"
      BY <1>0 DEF Goroutines, Serving
  <2> QED
      BY <2>1, <2>2 DEF Steps, Up
<1>6. Loss'
    BY <1>0 DEF TypeOK, Files, Goroutines, Disk, Steps, Loss, SinceSave, Up, Serving
<1>7. LastSave'
    BY <1>0 DEF TypeOK, Goroutines, Disk, LastSave, Saved, Serving
<1>8. BoundedLoss'
    BY <1>0 DEF TypeOK, Files, Goroutines, Disk, Steps, Loss, SinceSave, Up, BoundedLoss, Serving
<1>9. OrderlyStop'
    BY <1>0 DEF TypeOK, Goroutines, LastSave, Saved, Disk, OrderlyStop, Serving
<1> QED
    BY <1>1, <1>2, <1>3, <1>4, <1>5, <1>6, <1>7, <1>8, <1>9 DEF ServerInv

\* The save takes the place of the one before.
LEMMA SaveRenameInv ==
    ASSUME ServerInv, SaveRename
    PROVE  ServerInv'
<1> USE DEF clockVars, mainVars, loopVars, diskVars, worldVars, SaveRename, Saving, AfterSave
<1>0. /\ TypeOK /\ Goroutines /\ Times /\ Disk /\ Steps
      /\ Loss /\ LastSave /\ BoundedLoss /\ OrderlyStop
    BY DEF ServerInv
<1>1. TypeOK'
  <2>1. now' \in Nat /\ lives' \in Nat /\ steps' \in Nat /\ born' \in Nat /\ tick' \in Nat /\ rev' \in Nat
      BY <1>0 DEF TypeOK, Times, Disk, Files, Goroutines
  <2>2. ticks' \in 0..(Interval - 1)
      BY <1>0 DEF TypeOK
  <2>3. file' \in Files /\ tmp' \in Files
      BY <1>0 DEF TypeOK, Files, NoFile
  <2>4. /\ pc' \in {"down", "load", "listen"} \cup Serving
        /\ stop' \in BOOLEAN /\ http' \in {"off", "serving", "failed"}
        /\ sess' \in [Sessions -> {"none", "upgraded", "open", "closed"}]
        /\ closing' \subseteq Sessions
        /\ ended' \in {"never", "crashed", "fatal", "stopped"}
        /\ loop' \in {"off", "select", "create", "encode", "rename", "done"}
        /\ due' \in BOOLEAN /\ last' \in BOOLEAN /\ failed' \in BOOLEAN
      BY <1>0 DEF TypeOK, Serving
  <2> QED
      BY <2>1, <2>2, <2>3, <2>4 DEF TypeOK
<1>2. Goroutines'
    BY <1>0 DEF TypeOK, Goroutines, Serving
<1>3. Times'
    BY <1>0 DEF TypeOK, Goroutines, Times, Up, Files, Disk, Serving
<1>4. Disk'
    BY <1>0 DEF TypeOK, Files, NoFile, Goroutines, Times, Disk, Up, Serving
<1>5. Steps'
    BY <1>0 DEF TypeOK, Files, Goroutines, Disk, Steps, Up, Serving
<1>6. Loss'
    BY <1>0 DEF TypeOK, Files, Goroutines, Disk, Steps, Loss, SinceSave, Up, Serving
<1>7. LastSave'
    BY <1>0 DEF TypeOK, Goroutines, Disk, LastSave, Saved, Serving
<1>8. BoundedLoss'
    BY <1>0 DEF TypeOK, Files, Goroutines, Disk, Steps, Loss, SinceSave, Up, BoundedLoss, Serving
<1>9. OrderlyStop'
    BY <1>0 DEF TypeOK, Goroutines, LastSave, Saved, Disk, OrderlyStop, Serving
<1> QED
    BY <1>1, <1>2, <1>3, <1>4, <1>5, <1>6, <1>7, <1>8, <1>9 DEF ServerInv

\* What touches neither the world nor the save, or makes the file to be renamed.
LEMMA QuietInv ==
    ASSUME ServerInv,
           \/ Clock \/ Signal \/ HTTPFails \/ Serve \/ NoticeStop \/ NoticeFailure
           \/ CloseAllSessions \/ StopLoop \/ SaveCreate \/ SaveEncode \/ CreateFails \/ WriteFails
    PROVE  ServerInv'
<1> USE DEF clockVars, mainVars, loopVars, diskVars, worldVars
<1>1. CASE Clock
    BY <1>1 DEF Clock, ServerInv, TypeOK, Goroutines, Times, Disk, Steps, Loss, LastSave, BoundedLoss,
       OrderlyStop, Serving, Up, SinceSave, Saved, Files, NoFile
<1>2. CASE Signal
    BY <1>2 DEF Signal, ServerInv, TypeOK, Goroutines, Times, Disk, Steps, Loss, LastSave, BoundedLoss,
       OrderlyStop, Serving, Up, SinceSave, Saved, Files, NoFile
<1>3. CASE HTTPFails
    BY <1>3 DEF HTTPFails, ServerInv, TypeOK, Goroutines, Times, Disk, Steps, Loss, LastSave, BoundedLoss,
       OrderlyStop, Serving, Up, SinceSave, Saved, Files, NoFile
<1>4. CASE Serve
    BY <1>4 DEF Serve, ServerInv, TypeOK, Goroutines, Times, Disk, Steps, Loss, LastSave, BoundedLoss,
       OrderlyStop, Serving, Up, SinceSave, Saved, Files, NoFile
<1>5. CASE NoticeStop
    BY <1>5 DEF NoticeStop, ServerInv, TypeOK, Goroutines, Times, Disk, Steps, Loss, LastSave, BoundedLoss,
       OrderlyStop, Serving, Up, SinceSave, Saved, Files, NoFile
<1>6. CASE NoticeFailure
    BY <1>6 DEF NoticeFailure, ServerInv, TypeOK, Goroutines, Times, Disk, Steps, Loss, LastSave, BoundedLoss,
       OrderlyStop, Serving, Up, SinceSave, Saved, Files, NoFile
<1>7. CASE CloseAllSessions
    BY <1>7 DEF CloseAllSessions, ServerInv, TypeOK, Goroutines, Times, Disk, Steps, Loss, LastSave, BoundedLoss,
       OrderlyStop, Serving, Up, SinceSave, Saved, Files, NoFile
<1>8. CASE StopLoop
    BY <1>8 DEF StopLoop, ServerInv, TypeOK, Goroutines, Times, Disk, Steps, Loss, LastSave, BoundedLoss,
       OrderlyStop, Serving, Up, SinceSave, Saved, Files, NoFile
<1>9. CASE SaveCreate
    BY <1>9 DEF SaveCreate, Saving, ServerInv, TypeOK, Goroutines, Times, Disk, Steps, Loss, LastSave, BoundedLoss,
       OrderlyStop, Serving, Up, SinceSave, Saved, Files, NoFile
<1>10. CASE SaveEncode
    BY <1>10 DEF SaveEncode, Saving, ServerInv, TypeOK, Goroutines, Times, Disk, Steps, Loss, LastSave, BoundedLoss,
       OrderlyStop, Serving, Up, SinceSave, Saved, Files, NoFile
<1>11. CASE CreateFails
    BY <1>11 DEF CreateFails, Saving, AfterSave, ServerInv, TypeOK, Goroutines, Times, Disk, Steps, Loss, LastSave, BoundedLoss,
       OrderlyStop, Serving, Up, SinceSave, Saved, Files, NoFile
<1>12. CASE WriteFails
    BY <1>12 DEF WriteFails, Saving, AfterSave, ServerInv, TypeOK, Goroutines, Times, Disk, Steps, Loss, LastSave, BoundedLoss,
       OrderlyStop, Serving, Up, SinceSave, Saved, Files, NoFile
<1> QED
    BY <1>1, <1>2, <1>3, <1>4, <1>5, <1>6, <1>7, <1>8, <1>9, <1>10, <1>11, <1>12

\* A connection comes, joins, leaves or is closed.
LEMMA SessionInv ==
    ASSUME ServerInv, NEW s \in Sessions,
           Upgrade(s) \/ Register(s) \/ Leave(s) \/ CloseSession(s)
    PROVE  ServerInv'
<1> USE DEF clockVars, mainVars, loopVars, diskVars, worldVars, Session
<1>1. CASE Upgrade(s)
    BY <1>1 DEF Upgrade, ServerInv, TypeOK, Goroutines, Times, Disk, Steps, Loss, LastSave, BoundedLoss,
       OrderlyStop, Serving, Up, SinceSave, Saved, Files, NoFile
<1>2. CASE Register(s)
    BY <1>2 DEF Register, ServerInv, TypeOK, Goroutines, Times, Disk, Steps, Loss, LastSave, BoundedLoss,
       OrderlyStop, Serving, Up, SinceSave, Saved, Files, NoFile
<1>3. CASE Leave(s)
    BY <1>3 DEF Leave, ServerInv, TypeOK, Goroutines, Times, Disk, Steps, Loss, LastSave, BoundedLoss,
       OrderlyStop, Serving, Up, SinceSave, Saved, Files, NoFile
<1>4. CASE CloseSession(s)
    BY <1>4 DEF CloseSession, ServerInv, TypeOK, Goroutines, Times, Disk, Steps, Loss, LastSave, BoundedLoss,
       OrderlyStop, Serving, Up, SinceSave, Saved, Files, NoFile
<1> QED
    BY <1>1, <1>2, <1>3, <1>4

\* Every step keeps the invariant.
LEMMA NextInv == ServerInv /\ [Next]_vars => ServerInv'
<1> SUFFICES ASSUME ServerInv, [Next]_vars PROVE ServerInv'
    OBVIOUS
<1>1. CASE Launch
    BY <1>1, LaunchInv
<1>2. CASE Crash
    BY <1>2, DiesInv DEF Crash
<1>3. CASE LoadFails \/ ListenFails
    BY <1>3, DiesInv DEF LoadFails, ListenFails
<1>4. CASE Exit
    BY <1>4, DiesInv DEF Exit
<1>5. CASE ExitFailed
    BY <1>5, DiesInv DEF ExitFailed
<1>6. CASE Load
    BY <1>6, LoadInv
<1>7. CASE Step
    BY <1>7, StepInv
<1>8. CASE SaveRename
    BY <1>8, SaveRenameInv
<1>9. CASE \/ Clock \/ Signal \/ HTTPFails \/ Serve \/ NoticeStop \/ NoticeFailure
           \/ CloseAllSessions \/ StopLoop \/ SaveCreate \/ SaveEncode \/ CreateFails \/ WriteFails
    BY <1>9, QuietInv
<1>10. CASE \E s \in Sessions : Upgrade(s) \/ Register(s) \/ Leave(s) \/ CloseSession(s)
    BY <1>10, SessionInv
<1>11. CASE UNCHANGED vars
    BY <1>11 DEF vars, clockVars, mainVars, loopVars, diskVars, worldVars, ServerInv, TypeOK, Goroutines, Times, Disk, Steps, Loss, LastSave, BoundedLoss,
       OrderlyStop, Serving, Up, SinceSave, Saved, Files, NoFile
<1> QED
    BY <1>1, <1>2, <1>3, <1>4, <1>5, <1>6, <1>7, <1>8, <1>9, <1>10, <1>11
    DEF Next, Main, Loop, Clients

(***************************************************************************)
(* The invariant of the server: its goroutines, the clock, the files, the     *)
(* steps of a life and what of them is saved (Serve, runLoop, DiskStore).      *)
(***************************************************************************)
THEOREM ServerInvariant == Spec => []ServerInv
<1> QED
    BY InitInv, NextInv, PTL DEF Spec

(***************************************************************************)
(* Type correctness.                                                         *)
(***************************************************************************)
THEOREM ServerTypeCorrect == Spec => []TypeOK
<1>1. ServerInv => TypeOK
    BY DEF ServerInv
<1> QED
    BY <1>1, ServerInvariant, PTL

(***************************************************************************)
(* A crash takes back no more than an interval of live steps, unless the last *)
(* save failed (runLoop's autosave).                                         *)
(***************************************************************************)
THEOREM LossIsBounded == Spec => []BoundedLoss
<1>1. ServerInv => BoundedLoss
    BY DEF ServerInv
<1> QED
    BY <1>1, ServerInvariant, PTL

(***************************************************************************)
(* An orderly stop has saved the last world before it closes a session        *)
(* (Serve's wait for the tick loop, runLoop's last save).                     *)
(***************************************************************************)
THEOREM StopsInOrder == Spec => []OrderlyStop
<1>1. ServerInv => OrderlyStop
    BY DEF ServerInv
<1> QED
    BY <1>1, ServerInvariant, PTL

(***************************************************************************)
(* The save never goes back to an earlier world (SaveRename, the only step    *)
(* that replaces it).                                                        *)
(***************************************************************************)
THEOREM SaveNeverGoesBack == Spec => NeverBack
<1>1. ServerInv /\ ServerInv' /\ [Next]_vars => [Onward]_vars
  <2> SUFFICES ASSUME ServerInv, ServerInv', Next PROVE Onward
      BY DEF Onward
  <2> USE DEF clockVars, mainVars, loopVars, diskVars, worldVars
  <2>1. file.rev \in Nat
      BY DEF ServerInv, TypeOK, Files
  <2>2. CASE SaveRename
    <3>1. /\ file' = tmp /\ tmp.state = "whole" /\ tmp.rev = rev
          /\ file.rev <= rev
        BY <2>2 DEF SaveRename, Saving, ServerInv, Disk, Steps, Goroutines, Up, Serving
    <3> QED
        BY <3>1 DEF Onward
  <2>3. CASE file' = file
      BY <2>1, <2>3 DEF Onward
  <2> QED
      BY <2>2, <2>3 DEF Next, Clock, Launch, Crash, Signal, HTTPFails, Main, Loop, Clients, Dies,
         Load, LoadFails, Serve, ListenFails, NoticeStop, NoticeFailure, CloseAllSessions, Exit,
         ExitFailed, CloseSession, Step, StopLoop, SaveCreate, SaveEncode, CreateFails, WriteFails,
         Saving, Upgrade, Register, Leave, Session
<1> QED
    BY <1>1, ServerInvariant, PTL DEF Spec, NeverBack

-----------------------------------------------------------------------------
(* The refinement *)

\* The process starts with no world and no save.
LEMMA InitDurable == Init => Durable!AInit
<1> SUFFICES ASSUME Init PROVE Durable!AInit
    OBVIOUS
<1>1. now = 0 /\ steps = 0 /\ tick = 0 /\ rev = 0
    BY DEF Init
<1>2. ~Up
    BY DEF Init, Up
<1>3. [some |-> file.state = "whole", tick |-> file.tick, rev |-> file.rev, at |-> file.at]
         = [some |-> FALSE, tick |-> 0, rev |-> 0, at |-> 0]
    BY DEF Init, NoFile
<1> QED
    BY <1>1, <1>2, <1>3 DEF Durable!AInit

\* Every step is a step of DurableWorld, or leaves what it sees alone.
LEMMA NextDurable == ServerInv /\ [Next]_vars => [Durable!ANext]_(Durable!absVars)
<1> SUFFICES ASSUME ServerInv, [Next]_vars PROVE [Durable!ANext]_(Durable!absVars)
    OBVIOUS
<1> USE DEF clockVars, mainVars, loopVars, diskVars, worldVars
<1>0. TypeOK /\ Goroutines /\ Times /\ Disk
    BY DEF ServerInv
<1>1. CASE Clock
    BY <1>1 DEF Clock, Durable!ANext, Durable!Pass, Up
<1>2. CASE Load
    BY <1>0, <1>2 DEF Load, CatchUp, Least, Durable!ANext, Durable!Start, Durable!CaughtUp,
       Durable!Least, Up, Disk, TypeOK, Files
<1>3. CASE Step
  <2>1. Up /\ Up' /\ tick < now
      BY <1>0, <1>3 DEF Step, Goroutines, Times, TypeOK, Up, Serving
  <2> QED
      BY <1>3, <2>1 DEF Step, Durable!ANext, Durable!Live
<1>4. CASE SaveRename
  <2>1. Up /\ Up' /\ tmp.at \in tick..now
      BY <1>0, <1>4 DEF SaveRename, Saving, Goroutines, Disk, TypeOK, Files, Up, Serving
  <2>2. [some |-> file'.state = "whole", tick |-> file'.tick, rev |-> file'.rev, at |-> file'.at]
           = [some |-> TRUE, tick |-> tick, rev |-> rev, at |-> tmp.at]
      BY <1>0, <1>4 DEF SaveRename, Saving, Disk
  <2> QED
      BY <1>4, <2>1, <2>2 DEF SaveRename, Saving, Durable!ANext, Durable!Save
<1>5. CASE \E how \in {"crashed", "fatal", "stopped"} : pc # "down" /\ Dies(how)
  <2>1. CASE Up
      BY <1>5, <2>1 DEF Dies, Up, Durable!ANext, Durable!Lose
  <2>2. CASE ~Up
      BY <1>5, <2>2 DEF Dies, Up, Durable!absVars
  <2> QED
      BY <2>1, <2>2
<1>6. CASE UNCHANGED <<now, steps, Up, worldVars, file>>
    BY <1>6 DEF Durable!absVars
<1> QED
  <2>1. CASE UNCHANGED vars
      BY <1>6, <2>1 DEF vars, Up
  <2>2. CASE Crash \/ LoadFails \/ ListenFails \/ Exit \/ ExitFailed
      BY <1>5, <2>2 DEF Crash, LoadFails, ListenFails, Exit, ExitFailed
  <2>3. CASE Launch \/ Serve \/ NoticeStop \/ NoticeFailure \/ CloseAllSessions
      BY <1>6, <2>3 DEF Launch, Serve, NoticeStop, NoticeFailure, CloseAllSessions, Up
  <2>4. CASE \/ Signal \/ HTTPFails \/ StopLoop \/ SaveCreate \/ SaveEncode \/ CreateFails
             \/ WriteFails
      BY <1>6, <2>4 DEF Signal, HTTPFails, StopLoop, SaveCreate, SaveEncode, CreateFails,
         WriteFails, Saving, Up
  <2>5. CASE \E s \in Sessions : Upgrade(s) \/ Register(s) \/ Leave(s) \/ CloseSession(s)
      BY <1>6, <2>5 DEF Upgrade, Register, Leave, Session, CloseSession, Up
  <2> QED
      BY <1>1, <1>2, <1>3, <1>4, <2>1, <2>2, <2>3, <2>4, <2>5 DEF Next, Main, Loop, Clients

(***************************************************************************)
(* The server implements DurableWorld: what a start resumes from is always a  *)
(* whole world that was saved, and time is never counted twice.              *)
(***************************************************************************)
THEOREM ImplementsDurableWorld == Spec => KeepsWorld
<1> QED
    BY InitDurable, NextDurable, ServerInvariant, PTL DEF Spec, KeepsWorld, Durable!ASpec

=============================================================================
