----------------------------- MODULE WorldServer -----------------------------
(***************************************************************************)
(* The life of a world server (cmd/world, Server.New, Listen, Serve, runLoop  *)
(* and save, DiskStore): it loads the save and catches up, then the tick      *)
(* loop, the HTTP server and the main goroutine run side by side until a      *)
(* signal stops them in order, a failure ends them, or the process dies       *)
(* between any two steps and is started again.  The world is what SessionSync *)
(* and Factory refine: here it has a tick and the number of its last live     *)
(* step, which tells any two worlds of one history apart.  A dev server,      *)
(* which neither loads nor saves, is left out.                                *)
(***************************************************************************)
EXTENDS Integers

CONSTANTS
    Sessions,     \* websocket connections
    Interval,     \* AutoSaveEveryTicks
    MaxCatchUp,   \* MaxCatchUpTicks
    MaxClock,     \* bound of the model: ticks of the wall clock
    MaxLives      \* bound of the model: times the server is started

ASSUME ServerAssumption ==
    /\ Interval \in Nat \ {0}
    /\ MaxCatchUp \in Nat
    /\ MaxClock \in Nat
    /\ MaxLives \in Nat

VARIABLES
    now,      \* the wall clock, in ticks
    lives,    \* times the server has been started
    pc,       \* the main goroutine; "down": there is no process
    loop,     \* the goroutine of runLoop
    due,      \* ticker.C holds a tick
    ticks,    \* runLoop's ticks, modulo Interval
    last,     \* the save under way is the one before runLoop returns
    stop,     \* ctx is done
    http,     \* the HTTP server
    sess,     \* every connection
    closing,  \* closeAllSessions: its copy of the sessions
    tick,     \* World.tick
    rev,      \* the last live step the world has in it
    file,     \* <world>.json
    tmp,      \* <world>.json.tmp
    steps,    \* live steps ever made
    born,     \* history: live steps made before this life
    failed,   \* history: the last save of this life failed
    ended     \* history: how the last life ended

clockVars == <<now, lives, steps, born>>
mainVars == <<pc, stop, http, sess, closing, ended>>
loopVars == <<loop, due, ticks, last, failed>>
diskVars == <<file, tmp>>
worldVars == <<tick, rev>>
vars == <<clockVars, mainVars, loopVars, diskVars, worldVars>>

NoFile == [state |-> "none", tick |-> 0, rev |-> 0, at |-> 0]

Serving == {"serve", "waitTick", "waitTickFailed", "closing"}

Least(a, b) == IF a <= b THEN a ELSE b

Init ==
    /\ now = 0 /\ lives = 0 /\ steps = 0 /\ born = 0
    /\ pc = "down" /\ stop = FALSE /\ http = "off" /\ ended = "never"
    /\ sess = [s \in Sessions |-> "none"] /\ closing = {}
    /\ loop = "off" /\ due = FALSE /\ ticks = 0 /\ last = FALSE /\ failed = FALSE
    /\ file = NoFile /\ tmp = NoFile
    /\ tick = 0 /\ rev = 0

\* Time passes; a ticker whose channel is full drops its tick.
Clock ==
    /\ now < MaxClock
    /\ now' = now + 1
    /\ due' = (due \/ loop \notin {"off", "done"})
    /\ UNCHANGED <<lives, steps, born, mainVars, loop, ticks, last, failed, diskVars, worldVars>>

-----------------------------------------------------------------------------
(* The process *)

Launch ==
    /\ pc = "down"
    /\ lives < MaxLives
    /\ lives' = lives + 1
    /\ pc' = "load"
    /\ born' = steps
    /\ failed' = FALSE
    /\ UNCHANGED <<now, steps, stop, http, sess, closing, ended, loop, due, ticks, last,
                   diskVars, worldVars>>

\* Everything the process had in memory is gone; the files stay.
Dies(how) ==
    /\ pc' = "down"
    /\ stop' = FALSE
    /\ http' = "off"
    /\ sess' = [s \in Sessions |-> "none"]
    /\ closing' = {}
    /\ ended' = how
    /\ loop' = "off"
    /\ due' = FALSE
    /\ ticks' = 0
    /\ last' = FALSE
    /\ UNCHANGED <<clockVars, failed, diskVars, worldVars>>

\* Killed, or aborted by the runtime, between any two steps.
Crash == pc # "down" /\ Dies("crashed")

\* Mistaken: the world has stood still since year one.
CatchUpFromZero == file.tick + Least(now, MaxCatchUp)

\* The tick to which CatchUpProduction brings the world of the save.
CatchUp == file.tick + Least(now - file.at, MaxCatchUp)

\* New: a fresh world only if there is no save.
Load ==
    /\ pc = "load"
    /\ file.state # "part"
    /\ pc' = "listen"
    /\ IF file.state = "whole" THEN tick' = CatchUp /\ rev' = file.rev
                               ELSE tick' = 0 /\ rev' = 0
    /\ UNCHANGED <<clockVars, stop, http, sess, closing, ended, loopVars, diskVars>>

\* Mistaken: a save that cannot be read is taken for no save.
LoadFailsFresh ==
    /\ pc = "load"
    /\ pc' = "listen"
    /\ tick' = 0 /\ rev' = 0
    /\ UNCHANGED <<clockVars, stop, http, sess, closing, ended, loopVars, diskVars>>

\* A save that cannot be opened or decoded, and an address in use: Fatal.
LoadFails == pc = "load" /\ Dies("fatal")

ListenFails == pc = "listen" /\ Dies("fatal")

\* Listen, and Serve up to its select.
Serve ==
    /\ pc = "listen"
    /\ pc' = "serve"
    /\ loop' = "select"
    /\ http' = "serving"
    /\ UNCHANGED <<clockVars, stop, sess, closing, ended, due, ticks, last, failed, diskVars,
                   worldVars>>

Signal ==
    /\ pc \in Serving
    /\ ~stop
    /\ stop' = TRUE
    /\ UNCHANGED <<clockVars, pc, http, sess, closing, ended, loopVars, diskVars, worldVars>>

-----------------------------------------------------------------------------
(* runLoop *)

\* Mistaken: one step late.
AutoSaveLate(n) == n = Interval + 1

\* ticks has come to a multiple of AutoSaveEveryTicks.
AutoSaveDue(n) == n = Interval

Step ==
    /\ loop = "select"
    /\ due
    /\ due' = FALSE
    /\ tick' = tick + 1
    /\ steps' = steps + 1
    /\ rev' = steps + 1
    /\ ticks' = IF AutoSaveDue(ticks + 1) THEN 0 ELSE ticks + 1
    /\ loop' = IF AutoSaveDue(ticks + 1) THEN "create" ELSE "select"
    /\ UNCHANGED <<now, lives, born, mainVars, last, failed, diskVars>>

\* Mistaken: runLoop returns without a save.
StopAtOnce ==
    /\ loop = "select"
    /\ stop
    /\ loop' = "done"
    /\ last' = TRUE
    /\ UNCHANGED <<clockVars, mainVars, due, ticks, failed, diskVars, worldVars>>

\* Of a tick and a signal that are both there, select takes either.
StopLoop ==
    /\ loop = "select"
    /\ stop
    /\ loop' = "create"
    /\ last' = TRUE
    /\ UNCHANGED <<clockVars, mainVars, due, ticks, failed, diskVars, worldVars>>

(* save: ToData, then DiskStore.Save *)

Saving(at) == loop = at /\ UNCHANGED <<clockVars, mainVars, due, ticks, last, worldVars>>

\* Mistaken: runLoop goes on after its last save.
AfterSaveGoesOn == "select"

AfterSave == IF last THEN "done" ELSE "select"

\* The world is read and dated before the file is opened.
SaveCreate ==
    /\ Saving("create")
    /\ tmp' = [state |-> "part", tick |-> tick, rev |-> rev, at |-> now]
    /\ loop' = "encode"
    /\ UNCHANGED <<file, failed>>

SaveEncode ==
    /\ Saving("encode")
    /\ tmp' = [tmp EXCEPT !.state = "whole"]
    /\ loop' = "rename"
    /\ UNCHANGED <<file, failed>>

SaveRename ==
    /\ Saving("rename")
    /\ file' = tmp
    /\ tmp' = NoFile
    /\ failed' = FALSE
    /\ loop' = AfterSave

\* The directory or the file cannot be made: what was there stays.
CreateFails ==
    /\ Saving("create")
    /\ failed' = TRUE
    /\ loop' = AfterSave
    /\ UNCHANGED <<file, tmp>>

\* Encode, Close or Rename fails: the deferred function removes the temporary
\* file, if it can, and the save is tried again an interval later.
WriteFails ==
    /\ \/ Saving("encode")
       \/ Saving("rename")
    /\ tmp' \in {tmp, NoFile}
    /\ failed' = TRUE
    /\ loop' = AfterSave
    /\ UNCHANGED file

Loop ==
    Step \/ StopLoop \/ SaveCreate \/ SaveEncode \/ SaveRename \/ CreateFails \/ WriteFails

-----------------------------------------------------------------------------
(* Serve *)

\* The accept loop fails: the listener is closed, and serveErr holds the error.
HTTPFails ==
    /\ http = "serving"
    /\ pc \in Serving
    /\ http' = "failed"
    /\ UNCHANGED <<clockVars, pc, stop, sess, closing, ended, loopVars, diskVars, worldVars>>

\* Serve's select, whose cases may both be ready.
NoticeStop ==
    /\ pc = "serve"
    /\ stop
    /\ pc' = "waitTick"
    /\ UNCHANGED <<clockVars, stop, http, sess, closing, ended, loopVars, diskVars, worldVars>>

NoticeFailure ==
    /\ pc = "serve"
    /\ http = "failed"
    /\ pc' = "waitTickFailed"
    /\ UNCHANGED <<clockVars, stop, http, sess, closing, ended, loopVars, diskVars, worldVars>>

\* Mistaken: the tick loop is not waited for.
CloseAtOnce ==
    /\ pc = "waitTick"
    /\ pc' = "closing"
    /\ closing' = {s \in Sessions : sess[s] = "open"}
    /\ UNCHANGED <<clockVars, stop, http, sess, ended, loopVars, diskVars, worldVars>>

\* closeAllSessions: the copy made under mu.
CloseAllSessions ==
    /\ pc = "waitTick"
    /\ loop = "done"
    /\ pc' = "closing"
    /\ closing' = {s \in Sessions : sess[s] = "open"}
    /\ UNCHANGED <<clockVars, stop, http, sess, ended, loopVars, diskVars, worldVars>>

CloseSession(s) ==
    /\ s \in closing
    /\ closing' = closing \ {s}
    /\ sess' = [sess EXCEPT ![s] = "closed"]
    /\ UNCHANGED <<clockVars, pc, stop, http, ended, loopVars, diskVars, worldVars>>

\* Shutdown closes the listener and gives requests five seconds; main returns.
Exit == pc = "closing" /\ closing = {} /\ Dies("stopped")

\* The error of the HTTP server, once the tick loop is done: Fatal.
ExitFailed == pc = "waitTickFailed" /\ loop = "done" /\ Dies("fatal")

Main ==
    \/ Load \/ LoadFails \/ Serve \/ ListenFails
    \/ NoticeStop \/ NoticeFailure \/ CloseAllSessions \/ Exit \/ ExitFailed
    \/ \E s \in Sessions : CloseSession(s)

\* handleWebSocket: the upgrade, and the registration under mu.
Session(s, from, to) ==
    /\ pc \in Serving
    /\ sess[s] = from
    /\ sess' = [sess EXCEPT ![s] = to]
    /\ UNCHANGED <<clockVars, pc, stop, http, closing, ended, loopVars, diskVars, worldVars>>

\* A connection that was accepted is served, also when the accept loop fails next.
Upgrade(s) == Session(s, "none", "upgraded")
Register(s) == Session(s, "upgraded", "open")
Leave(s) == Session(s, "open", "closed")

Clients == \E s \in Sessions : Upgrade(s) \/ Register(s) \/ Leave(s)

Next == Clock \/ Launch \/ Crash \/ Signal \/ HTTPFails \/ Main \/ Loop \/ Clients

Spec == Init /\ [][Next]_vars

(***************************************************************************)
(* The goroutines run; a select that is offered the end of ctx again and     *)
(* again takes it, for it chooses at random.                                 *)
(***************************************************************************)
FairSpec ==
    /\ Spec
    /\ WF_vars(Main)
    /\ WF_vars(Loop)
    /\ SF_vars(StopLoop)

-----------------------------------------------------------------------------
(* What is promised *)

Files == [state : {"none", "part", "whole"}, tick : Nat, rev : Nat, at : Nat]

TypeOK ==
    /\ now \in Nat /\ lives \in Nat /\ steps \in Nat /\ born \in Nat
    /\ pc \in {"down", "load", "listen"} \cup Serving
    /\ stop \in BOOLEAN
    /\ http \in {"off", "serving", "failed"}
    /\ sess \in [Sessions -> {"none", "upgraded", "open", "closed"}]
    /\ closing \subseteq Sessions
    /\ ended \in {"never", "crashed", "fatal", "stopped"}
    /\ loop \in {"off", "select", "create", "encode", "rename", "done"}
    /\ due \in BOOLEAN /\ last \in BOOLEAN /\ failed \in BOOLEAN
    /\ ticks \in 0..(Interval - 1)
    /\ tick \in Nat /\ rev \in Nat
    /\ file \in Files /\ tmp \in Files

(***************************************************************************)
(* The parts of the inductive invariant that the proofs use.                 *)
(***************************************************************************)
Up == pc \notin {"down", "load"}

\* The goroutines: runLoop runs as long as Serve does, and its last save is the
\* last thing it does.
Goroutines ==
    /\ loop = "off" <=> pc \notin Serving
    /\ last => loop \notin {"off", "select"}
    /\ loop = "done" => last
    /\ pc = "closing" => loop = "done"
    /\ due => loop # "off"

\* No world is ahead of the clock, a tick that is due has its time.
Times ==
    /\ Up => tick <= now
    /\ due => tick + 1 <= now
    /\ file.tick <= file.at
    /\ file.at <= now

\* The save is whole, and so will be what is renamed to it.
Disk ==
    /\ file.state # "part"
    /\ file.state = "none" => file.rev = 0
    /\ loop \in {"encode", "rename"} =>
          tmp.tick = tick /\ tmp.rev = rev /\ tick <= tmp.at /\ tmp.at <= now
    /\ loop = "rename" => tmp.state = "whole"

\* The live steps of this life follow one another.
Steps ==
    /\ born <= steps
    /\ rev <= steps
    /\ file.rev <= steps
    /\ pc = "load" => steps = born
    /\ Up => file.rev <= rev /\ (steps = born \/ rev = steps)

\* Live steps since the last save, or since the start.
SinceSave == IF loop \in {"create", "encode", "rename"} /\ ~last THEN Interval ELSE ticks
Loss == Up /\ ~failed => rev <= file.rev + SinceSave \/ rev <= born + SinceSave

Saved == file.state = "whole" /\ file.rev = rev /\ file.tick = tick
LastSave == loop = "done" => failed \/ Saved

(***************************************************************************)
(* What a crash at this moment takes back is bounded: unless the last save    *)
(* failed, the save holds all but the last AutoSaveEveryTicks live steps of   *)
(* this life, in the middle of a step's save and of the last one too          *)
(* (runLoop's modulus; the rename).                                           *)
(***************************************************************************)
BoundedLoss == ~failed => rev <= file.rev + Interval \/ rev <= born + Interval

(***************************************************************************)
(* A server that stops in order has saved everything: once it closes a        *)
(* session of its own, and when it has ended without a failure, the save is   *)
(* the last world, unless the disk refused it (Serve waits for the tick loop  *)
(* before it lets the sessions go, and runLoop saves before it returns).      *)
(***************************************************************************)
OrderlyStop ==
    pc = "closing" \/ (pc = "down" /\ ended = "stopped") =>
        failed \/ Saved

(***************************************************************************)
(* The inductive invariant of the proofs.                                    *)
(***************************************************************************)
ServerInv ==
    /\ TypeOK
    /\ Goroutines
    /\ Times
    /\ Disk
    /\ Steps
    /\ Loss
    /\ LastSave
    /\ BoundedLoss
    /\ OrderlyStop

(***************************************************************************)
(* The server keeps the promise of DurableWorld: the save is at any time a    *)
(* whole world that there was, dated no later than now and no earlier than    *)
(* its tick, it goes from one such world to another in one step, and a world  *)
(* is resumed from nothing else; ticks and catching up together never count   *)
(* an hour twice (Save's temporary file, SavedAt, CatchUpProduction).         *)
(***************************************************************************)
Durable == INSTANCE DurableWorld WITH
    up <- Up,
    saved <- [some |-> file.state = "whole", tick |-> file.tick, rev |-> file.rev, at |-> file.at]
KeepsWorld == Durable!ASpec

(***************************************************************************)
(* The save never goes back to an earlier world, though a crash takes the     *)
(* world back: each life goes on from the save, and its last step is later    *)
(* than any before it.                                                       *)
(***************************************************************************)
Onward == file'.rev >= file.rev /\ (file.state = "whole" => file'.state = "whole")
NeverBack == [][Onward]_vars

(***************************************************************************)
(* Asked to stop, the server ends, though its ticks go on, a save fails or    *)
(* the HTTP server has failed meanwhile (Serve's two ways out both wait for   *)
(* the tick loop).                                                           *)
(***************************************************************************)
StopsWhenAsked == stop ~> pc = "down"

=============================================================================
