---------------------------- MODULE AppUpdateProofs ----------------------------
(***************************************************************************)
(* Proofs about AppUpdate for any number of coroutines and any package.    *)
(***************************************************************************)
EXTENDS AppUpdate, TLAPS

-----------------------------------------------------------------------------
(* Downloads *)

\* Where the coroutines stand.
Places == {"idle", "connecting", "reading", "unwinding", "checking", "resuming"}
Standing == pc \in [Tasks -> Places]

DownloadInv == Standing /\ DownloadingIsLive

\* A download's end takes the status DOWNLOADING with it.
LEMMA FinishLeaves ==
  ASSUME Standing, NEW t \in Tasks, NEW st \in {"ERROR", "CANCELLED", "DOWNLOADED"},
         Finish(t, st)
  PROVE  DownloadInv'
  BY DEF Finish, End, DownloadInv, Standing, DownloadingIsLive, Places

\* download_update announces a download only with a coroutine that makes it.
LEMMA DownloadFromAnnounces ==
  ASSUME DownloadInv, NEW t \in Tasks, pc[t] \in {"idle", "checking"},
         NEW st, st = "DOWNLOADING" => status = "DOWNLOADING",
         DownloadFrom(t, st)
  PROVE  DownloadInv'
<1>1. CASE HasCached(st)
  <2>1. status' = "DOWNLOADED" /\ pc' = [pc EXCEPT ![t] = "idle"]
    BY <1>1 DEF DownloadFrom, End
  <2> QED
    BY <2>1 DEF DownloadInv, Standing, DownloadingIsLive, Places
<1>2. CASE ~HasCached(st) /\ st = "DOWNLOADING"
  <2>1. pc' = [pc EXCEPT ![t] = "idle"]
    BY <1>2 DEF DownloadFrom, End
  <2>2. Downloading' = Downloading
    BY <2>1 DEF Downloading, DownloadInv, Standing, Places
  <2> QED
    BY <1>2, <2>1, <2>2 DEF DownloadInv, Standing, DownloadingIsLive, Places
<1>3. CASE ~HasCached(st) /\ st # "DOWNLOADING"
  <2>1. PICK f : Begin(t, f)
    BY <1>3 DEF DownloadFrom
  <2>2. \/ status' = "DOWNLOADED" /\ pc' = [pc EXCEPT ![t] = "idle"]
        \/ pc' = [pc EXCEPT ![t] = "connecting"]
    BY <2>1 DEF Begin, End
  <2> QED
    BY <2>2 DEF DownloadInv, Standing, DownloadingIsLive, Downloading, Places
<1> QED
  BY <1>1, <1>2, <1>3

\* A check, by whichever way, does nothing while the status says that a download is at
\* work; otherwise it may clear the cache, and announces a package only from the cache.
LEMMA CheckShape ==
  ASSUME NEW t \in Tasks, Check(t) \/ StartUpCheck(t)
  PROVE  /\ running # "none" /\ pc[t] = "idle"
         /\ UNCHANGED <<release, running, cancelled, task, pos, scriptVars>>
         /\ fresh' \in {fresh, FALSE} /\ known' \in {known, TRUE}
         /\ status' \in {status, "DOWNLOADED", "CHECKING"}
         /\ \/ pc' = pc
            \/ pc' = [pc EXCEPT ![t] = "checking"]
            \/ pc' = [pc EXCEPT ![t] = "resuming"]
         /\ status = "DOWNLOADING" => UNCHANGED <<status, pc, doubts>>
         /\ ClearCache \/ UNCHANGED <<cached, disk, mode, doubts>>
         /\ status' = "DOWNLOADED" => cached'
<1>1. /\ running # "none" /\ pc[t] = "idle"
      /\ UNCHANGED <<release, running, cancelled, task, pos, scriptVars>>
  BY DEF Check, StartUpCheck, Comes
<1>2. ASSUME DropsCorrupt
      PROVE  /\ ClearCache \/ UNCHANGED <<cached, disk, mode, doubts>>
             /\ status = "DOWNLOADING" => doubts' = doubts
  BY <1>2 DEF DropsCorrupt, Corrupt
<1>3. ASSUME Asks(t)
      PROVE  /\ status' \in {"CHECKING", "DOWNLOADING"} /\ status' \in {status, "CHECKING"}
             /\ pc' = pc \/ pc' = [pc EXCEPT ![t] = "checking"]
             /\ status = "DOWNLOADING" => UNCHANGED <<status, pc>>
  BY <1>3 DEF Asks
<1>4. CASE Check(t)
  <2>1. status \notin {"CHECKING", "DOWNLOADING"} /\ fresh' = fresh
    BY <1>4 DEF Check
  <2>2. CASE /\ HasCached(status) /\ known' = TRUE
             /\ UNCHANGED <<status, cached, pc, disk, mode, doubts>>
    BY <1>1, <2>1, <2>2 DEF HasCached
  <2>3. CASE /\ IF HasCached(status) THEN ClearCache ELSE DropsCorrupt
             /\ Asks(t) /\ UNCHANGED known
    BY <1>1, <1>2, <1>3, <2>1, <2>3
  <2> QED
    BY <1>4, <2>2, <2>3 DEF Check
<1>5. CASE StartUpCheck(t)
  <2>1. fresh' = FALSE
    BY <1>5 DEF StartUpCheck
  <2>2. CASE /\ HasCached(status) /\ known' = TRUE /\ status' = "DOWNLOADED"
             /\ UNCHANGED <<cached, pc, disk, mode, doubts>>
    BY <1>1, <2>1, <2>2 DEF HasCached
  <2>3. CASE HasCached(status) /\ ClearCache /\ Asks(t) /\ UNCHANGED known
    BY <1>1, <1>3, <2>1, <2>3 DEF HasCached
  <2>4. CASE /\ DropsCorrupt
             /\ IF cached' /\ file # None /\ status # "DOWNLOADING"
                THEN pc' = [pc EXCEPT ![t] = "resuming"] /\ UNCHANGED status
                ELSE Asks(t)
             /\ UNCHANGED known
    BY <1>1, <1>2, <1>3, <2>1, <2>4
  <2> QED
    BY <1>5, <2>2, <2>3, <2>4 DEF StartUpCheck
<1> QED
  BY <1>4, <1>5

\* A coroutine's step keeps the status honest.
LEMMA TaskStep ==
  ASSUME DownloadInv, NEW t \in Tasks,
         \/ Download(t) \/ Fails(t) \/ Resumes(t) \/ Restarts(t) \/ Chunk(t) \/ Eof(t)
         \/ Unwind(t) \/ Check(t) \/ StartUpCheck(t) \/ CheckEnds(t) \/ Offered(t) \/ ResumeEnds(t)
  PROVE  DownloadInv'
<1> USE DEF DownloadInv
<1>1. CASE Download(t)
  BY <1>1, DownloadFromAnnounces DEF Download
<1>2. CASE Fails(t)
  BY <1>2, FinishLeaves DEF Fails
<1>3. CASE Resumes(t)
  BY <1>3 DEF Resumes, memory, Standing, DownloadingIsLive, Downloading, Places
<1>4. CASE Restarts(t)
  BY <1>4 DEF Restarts, memory, Standing, DownloadingIsLive, Downloading, Places
<1>5. CASE Chunk(t)
  <2>1. CASE cancelled
    BY <1>5, <2>1, FinishLeaves DEF Chunk
  <2>2. CASE ~cancelled
    <3>1. pc[t] = "reading" /\ pc' = pc
      BY <1>5, <2>2 DEF Chunk
    <3> QED
      BY <3>1 DEF Standing, DownloadingIsLive, Downloading
  <2> QED
    BY <2>1, <2>2
<1>6. CASE Eof(t)
  BY <1>6, FinishLeaves DEF Eof
<1>7. CASE Unwind(t)
  BY <1>7, FinishLeaves DEF Unwind
<1>8. CASE Check(t) \/ StartUpCheck(t)
  <2>1. /\ status' \in {status, "DOWNLOADED", "CHECKING"}
        /\ \/ pc' = pc
           \/ pc' = [pc EXCEPT ![t] = "checking"]
           \/ pc' = [pc EXCEPT ![t] = "resuming"]
        /\ status = "DOWNLOADING" => UNCHANGED <<status, pc>>
    BY <1>8, CheckShape
  <2>2. CASE status = "DOWNLOADING"
    BY <2>1, <2>2 DEF Standing, DownloadingIsLive, Downloading
  <2>3. CASE status # "DOWNLOADING"
    BY <2>1, <2>3 DEF Standing, DownloadingIsLive, Places
  <2> QED
    BY <2>2, <2>3
<1>9. CASE CheckEnds(t)
  <2>1. status' \in {"ERROR", "IDLE"} /\ pc' = [pc EXCEPT ![t] = "idle"]
    BY <1>9 DEF CheckEnds, End
  <2> QED
    BY <2>1 DEF Standing, DownloadingIsLive, Places
<1>10. CASE Offered(t)
  <2>1. CASE release.auto
    BY <1>10, <2>1, DownloadFromAnnounces DEF Offered
  <2>2. CASE ~release.auto
    BY <1>10, <2>2 DEF Offered, End, Standing, DownloadingIsLive, Places
  <2> QED
    BY <2>1, <2>2
<1>11. CASE ResumeEnds(t)
  <2>1. status' \in {"ERROR", "IDLE"} /\ pc' = [pc EXCEPT ![t] = "idle"]
    BY <1>11 DEF ResumeEnds, End
  <2> QED
    BY <2>1 DEF Standing, DownloadingIsLive, Places
<1> QED
  BY <1>1, <1>2, <1>3, <1>4, <1>5, <1>6, <1>7, <1>8, <1>9, <1>10, <1>11

\* So does everything else.
LEMMA OtherStep ==
  ASSUME DownloadInv,
         \/ Cancel \/ Install \/ Quit \/ PowerLoss \/ Start
         \/ GivesUp \/ RemovesBackup \/ MovesAside \/ CannotMove \/ Copies \/ Launches
         \/ DoesNotStart \/ DropsBackup \/ Succeeds \/ RemovesNew \/ Restores
         \/ CannotRestore
  PROVE  DownloadInv'
<1> USE DEF DownloadInv
<1>1. CASE Cancel
  <2>1. /\ status' = "CANCELLED"
        /\ pc' = pc \/ pc' = [pc EXCEPT ![task] = "unwinding"]
    BY <1>1 DEF Cancel
  <2> QED
    BY <2>1 DEF Standing, DownloadingIsLive, Places
<1>2. CASE Install
  <2>1. status' \in {"ERROR", "INSTALLING"} /\ pc' = pc
    BY <1>2 DEF Install
  <2> QED
    BY <2>1 DEF Standing, DownloadingIsLive
<1>3. CASE Quit \/ PowerLoss
  <2>1. status' = "IDLE" /\ pc' = [t \in Tasks |-> "idle"]
    BY <1>3 DEF Quit, PowerLoss, Gone
  <2> QED
    BY <2>1 DEF Standing, DownloadingIsLive, Places
<1>4. CASE \/ Start \/ GivesUp \/ RemovesBackup \/ MovesAside \/ CannotMove \/ Copies
           \/ Launches \/ DoesNotStart \/ DropsBackup \/ Succeeds \/ RemovesNew \/ Restores
           \/ CannotRestore
  <2>1. status' = status /\ pc' = pc
    BY <1>4 DEF Start, GivesUp, RemovesBackup, MovesAside, CannotMove, Copies, Launches,
                DoesNotStart, DropsBackup, Succeeds, RemovesNew, Restores, CannotRestore,
                Runs, Quiet, Launch, memory, coroutines
  <2> QED
    BY <2>1 DEF Standing, DownloadingIsLive, Downloading
<1> QED
  BY <1>1, <1>2, <1>3, <1>4

\* The status DOWNLOADING, which turns every check and further download away, is only
\* there while a coroutine downloads: no download, however it ends, leaves it behind.
THEOREM NoPhantomDownload == Spec => []DownloadingIsLive
<1>1. Init => DownloadInv
  BY DEF Init, DownloadInv, Standing, DownloadingIsLive, Places
<1>2. DownloadInv /\ [Next]_vars => DownloadInv'
  <2> SUFFICES ASSUME DownloadInv, [Next]_vars PROVE DownloadInv'
    OBVIOUS
  <2>1. CASE UNCHANGED vars
    BY <2>1 DEF vars, memory, coroutines, DownloadInv, Standing, DownloadingIsLive, Downloading
  <2>2. CASE Next
    BY <2>2, TaskStep, OtherStep DEF Next
  <2> QED
    BY <2>1, <2>2
<1>3. DownloadInv => DownloadingIsLive
  BY DEF DownloadInv
<1> QED
  BY <1>1, <1>2, <1>3, PTL DEF Spec

-----------------------------------------------------------------------------
(* The script *)

Hows == {"none", "gave up", "failed", "updated", "rolled back", "stuck", "killed"}

\* Which executables there are at each place of the script: in place until it is moved
\* aside, beside it until the new one is taken to run.  Between scripts one that works is
\* in place, unless the last script misjudged it, was killed, or could not move it back.
\* No process runs while the executable is not in place.
ScriptInv ==
    /\ running \in Working \cup {"none"}
    /\ script \in {"none", "waiting", "moving", "copying", "launching", "finishing",
                   "removing", "restoring"}
    /\ outcome \in [how : Hows, before : Working, misjudged : BOOLEAN]
    /\ script \in {"moving", "copying", "launching", "removing", "restoring"} => running = "none"
    /\ script = "waiting" /\ ~waits => running = "none"
    /\ running # "none" => current \in Working
    /\ script = "none" =>
          \/ current \in Working
          \/ backup \in Working /\ outcome.how \in {"killed", "stuck"}
          \/ outcome.misjudged
    /\ script = "none" /\ outcome.how \in {"gave up", "failed", "rolled back"}
         => current = outcome.before
    /\ script # "none" => outcome.how = "none"
    /\ script \in {"waiting", "moving"} => current \in Working /\ current = outcome.before
    /\ script \in {"copying", "launching", "removing", "restoring"}
         => backup \in Working /\ backup = outcome.before
    /\ script = "finishing" => current \in Working \/ outcome.misjudged

\* What leaves the script's variables and the process alone leaves ScriptInv alone.
LEMMA ScriptIdle ==
  ASSUME ScriptInv, UNCHANGED <<running, current, backup, script, waits, outcome>>
  PROVE  ScriptInv'
  BY DEF ScriptInv

\* Checks and downloads do not touch the executable.
LEMMA TaskIdle ==
  ASSUME ScriptInv, NEW t \in Tasks,
         \/ Download(t) \/ Fails(t) \/ Resumes(t) \/ Restarts(t) \/ Chunk(t) \/ Eof(t)
         \/ Unwind(t) \/ Check(t) \/ StartUpCheck(t) \/ CheckEnds(t) \/ Offered(t) \/ ResumeEnds(t)
  PROVE  ScriptInv'
<1>1. CASE Download(t) \/ Offered(t)
  BY <1>1, ScriptIdle DEF Download, Offered, DownloadFrom, scriptVars
<1>2. CASE Fails(t) \/ Eof(t) \/ Unwind(t)
  BY <1>2, ScriptIdle DEF Fails, Eof, Unwind, Finish, scriptVars
<1>3. CASE Resumes(t) \/ Restarts(t)
  BY <1>3, ScriptIdle DEF Resumes, Restarts, memory, scriptVars
<1>4. CASE Chunk(t)
  BY <1>4, ScriptIdle DEF Chunk, Finish, scriptVars
<1>5. CASE CheckEnds(t) \/ ResumeEnds(t)
  BY <1>5, ScriptIdle DEF CheckEnds, ResumeEnds, scriptVars
<1>6. CASE Check(t) \/ StartUpCheck(t)
  BY <1>6, CheckShape, ScriptIdle DEF scriptVars
<1> QED
  BY <1>1, <1>2, <1>3, <1>4, <1>5, <1>6

\* The user, the machine and the start of a script.
LEMMA ProcessStep ==
  ASSUME ScriptInv, Cancel \/ Install \/ Quit \/ PowerLoss \/ Start
  PROVE  ScriptInv'
<1>1. CASE Cancel
  BY <1>1, ScriptIdle DEF Cancel, scriptVars
<1>2. CASE Install
  <2>1. CASE status' = "ERROR"
    BY <1>2, <2>1, ScriptIdle DEF Install
  <2>2. CASE status' # "ERROR"
    <3>1. /\ script' = "waiting" /\ waits' = TRUE /\ outcome' = Undecided(current)
          /\ UNCHANGED <<running, current, backup>> /\ current \in Working
      BY <1>2, <2>2 DEF Install, ScriptInv
    <3> QED
      BY <3>1 DEF ScriptInv, Undecided, Hows
  <2> QED
    BY <2>1, <2>2
<1>3. CASE Quit
  <2>1. running' = "none" /\ UNCHANGED <<current, backup, script, outcome>>
    BY <1>3 DEF Quit, Gone
  <2> QED
    BY <2>1 DEF ScriptInv
<1>4. CASE PowerLoss
  <2>1. /\ running' = "none" /\ script' = "none" /\ UNCHANGED <<current, backup>>
        /\ outcome' = IF script = "none" THEN outcome ELSE [outcome EXCEPT !.how = "killed"]
    BY <1>4 DEF PowerLoss, Gone
  <2>2. CASE script = "none"
    BY <2>1, <2>2 DEF ScriptInv
  <2>3. CASE script # "none"
    <3>1. outcome' = [outcome EXCEPT !.how = "killed"]
      BY <2>1, <2>3
    <3>2. /\ outcome'.how = "killed"
          /\ outcome'.misjudged = outcome.misjudged
          /\ outcome' \in [how : Hows, before : Working, misjudged : BOOLEAN]
      BY <3>1 DEF ScriptInv, Hows
    <3>3. current \in Working \/ backup \in Working \/ outcome.misjudged
      BY <2>3 DEF ScriptInv
    <3> QED
      BY <2>1, <3>2, <3>3 DEF ScriptInv
  <2> QED
    BY <2>2, <2>3
<1>5. CASE Start
  <2>1. /\ script = "none" /\ current \in Working /\ running' = current
        /\ outcome' = Undecided(current)
        /\ UNCHANGED <<current, backup, script, waits>>
    BY <1>5 DEF Start, Launch
  <2> QED
    BY <2>1 DEF ScriptInv, Undecided, Hows
<1> QED
  BY <1>1, <1>2, <1>3, <1>4, <1>5

\* The script's own steps.
LEMMA ScriptStep ==
  ASSUME ScriptInv,
         \/ GivesUp \/ RemovesBackup \/ MovesAside \/ CannotMove \/ Copies \/ Launches
         \/ DoesNotStart \/ DropsBackup \/ Succeeds \/ RemovesNew \/ Restores
         \/ CannotRestore
  PROVE  ScriptInv'
<1> DEFINE Outcomes == [how : Hows, before : Working, misjudged : BOOLEAN]
<1>1. ASSUME NEW how \in Hows, outcome' = [outcome EXCEPT !.how = how]
      PROVE  /\ outcome'.how = how /\ outcome'.before = outcome.before
             /\ outcome'.misjudged = outcome.misjudged
             /\ outcome' \in Outcomes
  BY <1>1 DEF ScriptInv
<1>2. CASE GivesUp \/ CannotMove
  <2>1. /\ script \in {"waiting", "moving"} /\ script' = "none"
        /\ UNCHANGED <<running, current, backup>>
        /\ \E how \in {"gave up", "failed"} : outcome' = [outcome EXCEPT !.how = how]
    BY <1>2 DEF GivesUp, CannotMove, CleanUp, memory
  <2>2. outcome'.before = outcome.before /\ outcome' \in Outcomes
    BY <1>1, <2>1 DEF Hows
  <2> QED
    BY <2>1, <2>2 DEF ScriptInv
<1>3. CASE RemovesBackup
  BY <1>3 DEF RemovesBackup, Quiet, Runs, memory, ScriptInv
<1>4. CASE MovesAside
  BY <1>4 DEF MovesAside, Quiet, Runs, memory, ScriptInv
<1>5. CASE Copies
  BY <1>5 DEF Copies, Quiet, Runs, memory, ScriptInv
<1>6. CASE Launches
  <2>1. /\ script = "launching" /\ script' = "finishing"
        /\ UNCHANGED <<current, backup>>
        /\ outcome' = [outcome EXCEPT !.misjudged = current \notin Working]
        /\ (current \in Working /\ running' = current) \/ running' = running
    BY <1>6 DEF Launches, Launch, memory
  <2>2. /\ outcome'.how = outcome.how /\ outcome'.misjudged = (current \notin Working)
        /\ outcome' \in Outcomes
    BY <2>1 DEF ScriptInv
  <2> QED
    BY <2>1, <2>2 DEF ScriptInv
<1>7. CASE DoesNotStart
  BY <1>7 DEF DoesNotStart, Quiet, Runs, memory, ScriptInv
<1>8. CASE DropsBackup
  BY <1>8 DEF DropsBackup, Quiet, Runs, memory, ScriptInv
<1>9. CASE Succeeds
  <2>1. /\ script = "finishing" /\ script' = "none"
        /\ UNCHANGED <<running, current, backup>>
        /\ outcome' = [outcome EXCEPT !.how = "updated"]
    BY <1>9 DEF Succeeds, CleanUp, memory
  <2>2. /\ outcome'.how = "updated" /\ outcome'.misjudged = outcome.misjudged
        /\ outcome' \in Outcomes
    BY <1>1, <2>1 DEF Hows
  <2> QED
    BY <2>1, <2>2 DEF ScriptInv
<1>10. CASE RemovesNew
  BY <1>10 DEF RemovesNew, Quiet, Runs, memory, ScriptInv
<1>11. CASE Restores
  <2>1. /\ script = "restoring" /\ script' = "none"
        /\ current' = backup /\ running' = backup
        /\ outcome' = [outcome EXCEPT !.how = "rolled back"]
    BY <1>11 DEF Restores, Launch, CleanUp
  <2>2. /\ outcome'.how = "rolled back" /\ outcome'.before = outcome.before
        /\ outcome' \in Outcomes
    BY <1>1, <2>1 DEF Hows
  <2> QED
    BY <2>1, <2>2 DEF ScriptInv
<1>12. CASE CannotRestore
  <2>1. /\ script = "restoring" /\ script' = "none"
        /\ UNCHANGED <<running, current, backup>>
        /\ outcome' = [outcome EXCEPT !.how = "stuck"]
    BY <1>12 DEF CannotRestore, memory
  <2>2. outcome'.how = "stuck" /\ outcome' \in Outcomes
    BY <1>1, <2>1 DEF Hows
  <2> QED
    BY <2>1, <2>2 DEF ScriptInv
<1> QED
  BY <1>2, <1>3, <1>4, <1>5, <1>6, <1>7, <1>8, <1>9, <1>10, <1>11, <1>12

\* ScriptInv is inductive.
LEMMA InitScript == Init => ScriptInv
BY DEF Init, ScriptInv, Working, Undecided, Hows

LEMMA NextScript == ScriptInv /\ [Next]_vars => ScriptInv'
<1> SUFFICES ASSUME ScriptInv, [Next]_vars PROVE ScriptInv'
  OBVIOUS
<1>1. CASE UNCHANGED vars
  BY <1>1, ScriptIdle DEF vars, memory, scriptVars
<1>2. CASE Next
  BY <1>2, TaskIdle, ProcessStep, ScriptStep DEF Next
<1> QED
  BY <1>1, <1>2

\* Whatever step of the script power or process dies at, however often updates are
\* tried again: a working executable is left, in place or beside it, unless the script
\* misjudged what it put in place; and an update that failed leaves the version there was.
THEOREM UpdateIsSafe == Spec => []AppSurvives
<1>1. ScriptInv => AppSurvives
  BY DEF ScriptInv, AppSurvives
<1> QED
  BY <1>1, InitScript, NextScript, PTL DEF Spec

-----------------------------------------------------------------------------
(* What the cache says of the package *)

\* Without a process there is nothing in memory.
NoProcess ==
    running = "none" => status = "IDLE" /\ ~cached /\ \A t \in Tasks : pc[t] = "idle"

\* The process knows the description on disk, and says DOWNLOADED of nothing else.
Described ==
    /\ meta /\ running # "none" => cached
    /\ status = "DOWNLOADED" => cached

\* Two coroutines that download leave a doubt, which lasts as long as one of them does.
Overlapped ==
    \A t \in Downloading : \A u \in Downloading : t # u => "overlapping" \in doubts

\* A package described is the whole one, or in doubt; while one is being downloaded, a
\* description is in doubt.
Doubted ==
    release.checksum =>
        /\ cached \/ meta => file = Whole \/ doubts # {}
        /\ cached /\ Downloading # {} => doubts # {}

ReadyInv ==
    /\ Standing
    /\ {cached, meta} \subseteq BOOLEAN
    /\ NoProcess
    /\ Described
    /\ Overlapped
    /\ Doubted

LEMMA WholeIsValid == Valid(Whole)
<1>1. Len(Whole) = Size /\ Whole[Size] = Size
  BY UpdateAssumption DEF Whole
<1> QED
  BY <1>1, UpdateAssumption DEF Valid

\* Whoever removes the file keeps the doubt of an overlap, and leaves one about a
\* description that stays.
LEMMA RemainingDoubts ==
  ASSUME NEW described \in BOOLEAN
  PROVE  /\ described => Remaining(described) # {}
         /\ Downloading # {} /\ "overlapping" \in doubts => "overlapping" \in Remaining(described)
  BY DEF Remaining

LEMMA ClearReady ==
  ASSUME ReadyInv, ClearCache, status' # "DOWNLOADED", UNCHANGED <<release, script, waits>>,
         running # "none", running' = running, pc' \in [Tasks -> Places],
         Downloading' \subseteq Downloading
  PROVE  ReadyInv'
<1>1. cached' = FALSE /\ meta' = FALSE
  BY DEF ClearCache
<1>2. Overlapped'
  <2>1. doubts' = doubts \/ doubts' = Remaining(FALSE)
    BY DEF ClearCache
  <2>2. Downloading # {} /\ "overlapping" \in doubts => "overlapping" \in doubts'
    BY <2>1, RemainingDoubts
  <2> QED
    BY <2>2 DEF ReadyInv, Overlapped
<1>3. NoProcess' /\ Described' /\ Doubted'
  BY <1>1 DEF ReadyInv, NoProcess, Described, Doubted
<1> QED
  BY <1>1, <1>2, <1>3 DEF ReadyInv, Standing

\* What leaves disk and doubts alone, and begins no download.
LEMMA SameReady ==
  ASSUME ReadyInv, UNCHANGED <<release, running, cached, meta, file, doubts>>, NoProcess',
         pc' \in [Tasks -> Places], Downloading' \subseteq Downloading,
         status' = "DOWNLOADED" => cached
  PROVE  ReadyInv'
BY DEF ReadyInv, Described, Overlapped, Doubted, Standing

\* What a download writes into a file that nobody describes, or that is in doubt.
LEMMA WriteReady ==
  ASSUME ReadyInv, NEW t \in Downloading, UNCHANGED <<release, running, cached, meta, doubts,
                                                     script, waits>>,
         pc' \in [Tasks -> Places], Downloading' \subseteq Downloading,
         status' = "DOWNLOADED" => status = "DOWNLOADED"
  PROVE  ReadyInv'
<1>1. running # "none"
  BY DEF ReadyInv, NoProcess, Downloading
<1>2. release.checksum /\ (cached \/ meta) => doubts # {}
  BY <1>1 DEF ReadyInv, Doubted, Described
<1> QED
  BY <1>1, <1>2 DEF ReadyInv, NoProcess, Described, Overlapped, Doubted, Standing

\* A download begins, or takes the file as it is: only if the cache does not vouch for it.
LEMMA DownloadReady ==
  ASSUME ReadyInv, running # "none", NEW t \in Tasks, NEW st, DownloadFrom(t, st),
         pc[t] \in {"idle", "checking"}
  PROVE  ReadyInv'
<1> DEFINE f == IF Corrupt(st) THEN None ELSE file
<1>1. UNCHANGED <<release, running, script, waits>>
  BY DEF DownloadFrom, scriptVars
<1>2. CASE HasCached(st) \/ st = "DOWNLOADING"
  <2>1. /\ status' = IF HasCached(st) THEN "DOWNLOADED" ELSE st
        /\ pc' = [pc EXCEPT ![t] = "idle"]
        /\ UNCHANGED <<cached, meta, file, doubts>>
    BY <1>2 DEF DownloadFrom, End, disk
  <2>2. pc' \in [Tasks -> Places] /\ Downloading' \subseteq Downloading
    BY <2>1 DEF ReadyInv, Standing, Places, Downloading
  <2>3. status' = "DOWNLOADED" => cached
    BY <1>2, <2>1 DEF HasCached
  <2>4. NoProcess'
    BY <1>1 DEF ReadyInv, NoProcess
  <2> QED
    BY <1>1, <2>1, <2>2, <2>3, <2>4, SameReady
<1>3. CASE ~(HasCached(st) \/ st = "DOWNLOADING")
  <2>1. Begin(t, f)
    BY <1>3 DEF DownloadFrom
  <2>2. f = None \/ f = file
    OBVIOUS
  <2>3. f = file /\ cached /\ release.checksum => doubts # {}
    <3> SUFFICES ASSUME f = file, cached, release.checksum, doubts = {}
                 PROVE  FALSE
      OBVIOUS
    <3>1. file = Whole
      BY DEF ReadyInv, Doubted
    <3>2. file # None /\ Valid(file)
      BY <3>1, WholeIsValid, UpdateAssumption
    <3> QED
      BY <1>3, <3>2 DEF HasCached
  <2> HIDE DEF f
  <2>4. CASE f # None /\ release.sized /\ Len(f) >= Size
    <3>1. /\ status' = "DOWNLOADED"
          /\ cached' = TRUE
          /\ meta' = TRUE
          /\ doubts' = (doubts \ {"outlived"}) \cup {"taken by size"}
          /\ pc' = [pc EXCEPT ![t] = "idle"]
      BY <2>1, <2>4 DEF Begin, End
    <3>2. pc' \in [Tasks -> Places] /\ Downloading' \subseteq Downloading
      BY <3>1 DEF ReadyInv, Standing, Places, Downloading
    <3>3. doubts' # {} /\ ("overlapping" \in doubts => "overlapping" \in doubts')
      BY <3>1
    <3> QED
      BY <1>1, <3>1, <3>2, <3>3
         DEF ReadyInv, Standing, NoProcess, Described, Overlapped, Doubted
  <2>5. CASE ~(f # None /\ release.sized /\ Len(f) >= Size)
    <3>1. /\ status' = "DOWNLOADING"
          /\ cached' = (cached /\ f = file)
          /\ meta' = (meta /\ f = file)
          /\ file' = f
          /\ doubts' = (IF f = file THEN doubts ELSE {})
                          \cup (IF Downloading = {} THEN {} ELSE {"overlapping"})
          /\ pc' = [pc EXCEPT ![t] = "connecting"]
      BY <2>1, <2>5 DEF Begin
    <3>2. pc' \in [Tasks -> Places] /\ Downloading' \subseteq Downloading \cup {t}
      BY <3>1 DEF ReadyInv, Standing, Places, Downloading
    <3>3. Overlapped'
      BY <3>1, <3>2 DEF Overlapped
    <3>4. Doubted'
      <4>1. release.checksum /\ cached' => doubts' # {}
        BY <2>3, <3>1
      <4>2. meta' => cached'
        BY <3>1 DEF ReadyInv, Described
      <4> QED
        BY <1>1, <4>1, <4>2 DEF Doubted
    <3>5. NoProcess' /\ Described' /\ {cached', meta'} \subseteq BOOLEAN
      BY <1>1, <3>1 DEF ReadyInv, NoProcess, Described
    <3> QED
      BY <3>2, <3>3, <3>4, <3>5 DEF ReadyInv, Standing
  <2> QED
    BY <2>4, <2>5
<1> QED
  BY <1>2, <1>3

\* A coroutine that ends, or comes to another place where it does not download.
LEMMA LeavesReady ==
  ASSUME ReadyInv, NEW t \in Tasks, NEW place \in Places \ {"connecting", "reading"},
         pc' = [pc EXCEPT ![t] = place]
  PROVE  pc' \in [Tasks -> Places] /\ Downloading' \subseteq Downloading \ {t}
BY DEF ReadyInv, Standing, Downloading, Places

LEMMA TaskReady ==
  ASSUME ReadyInv, NEW t \in Tasks,
         \/ Download(t) \/ Fails(t) \/ Resumes(t) \/ Restarts(t) \/ Chunk(t) \/ Eof(t)
         \/ Unwind(t) \/ Check(t) \/ StartUpCheck(t) \/ CheckEnds(t) \/ Offered(t) \/ ResumeEnds(t)
  PROVE  ReadyInv'
<1>1. pc[t] # "idle" => running # "none"
  BY DEF ReadyInv, NoProcess
<1>2. CASE Download(t)
  BY <1>2, DownloadReady DEF Download
<1>3. CASE Fails(t) \/ Unwind(t)
  <2>1. /\ running # "none"
        /\ pc' = [pc EXCEPT ![t] = "idle"]
        /\ status' \in {"ERROR", "CANCELLED"}
        /\ UNCHANGED <<release, running, cached, meta, file, doubts, script, waits>>
    BY <1>1, <1>3 DEF Fails, Unwind, Downloading, Finish, End, disk, scriptVars
  <2>2. NoProcess'
    BY <2>1 DEF ReadyInv, NoProcess
  <2>3. pc' \in [Tasks -> Places] /\ Downloading' \subseteq Downloading
    BY <2>1, LeavesReady DEF Places
  <2> QED
    BY <2>1, <2>2, <2>3, SameReady
<1>4. CASE Resumes(t) \/ Restarts(t)
  <2>1. /\ t \in Downloading
        /\ pc' = [pc EXCEPT ![t] = "reading"]
        /\ UNCHANGED <<release, running, status, cached, meta, doubts, script, waits>>
    BY <1>4 DEF Resumes, Restarts, memory, scriptVars, Downloading
  <2>2. pc' \in [Tasks -> Places] /\ Downloading' \subseteq Downloading
    BY <2>1 DEF ReadyInv, Standing, Downloading, Places
  <2> QED
    BY <2>1, <2>2, WriteReady
<1>5. CASE Chunk(t)
  <2>1. /\ t \in Downloading
        /\ pc' = pc \/ pc' = [pc EXCEPT ![t] = "idle"]
        /\ status' \in {"CANCELLED", "DOWNLOADING"}
        /\ UNCHANGED <<release, running, cached, meta, doubts, script, waits>>
    BY <1>5 DEF Chunk, Finish, End, scriptVars, Downloading
  <2>2. pc' \in [Tasks -> Places] /\ Downloading' \subseteq Downloading
    BY <2>1 DEF ReadyInv, Standing, Downloading, Places
  <2> QED
    BY <2>1, <2>2, WriteReady
<1>6. CASE Eof(t)
  <2>1. /\ t \in Downloading
        /\ running # "none"
        /\ pc' = [pc EXCEPT ![t] = "idle"]
        /\ UNCHANGED <<release, running, script, waits>>
    BY <1>1, <1>6 DEF Eof, Finish, End, scriptVars, Downloading
  <2>2. pc' \in [Tasks -> Places] /\ Downloading' \subseteq Downloading \ {t}
    BY <2>1, LeavesReady DEF Places
  <2>3. CASE Accepted
    <3>1. /\ cached' = TRUE
          /\ meta' = TRUE
          /\ file' = file
          /\ doubts' = doubts \ {"outlived"}
          /\ release.checksum => file = Whole
      BY <1>6, <2>3 DEF Eof, Accepted
    <3>2. Overlapped' /\ (Downloading' # {} => "overlapping" \in doubts')
      BY <2>1, <2>2, <3>1 DEF ReadyInv, Overlapped
    <3>3. Doubted'
      BY <2>1, <3>1, <3>2 DEF Doubted
    <3>4. NoProcess' /\ Described' /\ {cached', meta'} \subseteq BOOLEAN
      BY <2>1, <3>1 DEF ReadyInv, NoProcess, Described
    <3> QED
      BY <2>2, <3>2, <3>3, <3>4 DEF ReadyInv, Standing
  <2>4. CASE ~Accepted
    <3>1. /\ status' = "ERROR"
          /\ doubts' = Remaining(cached \/ meta)
          /\ UNCHANGED <<cached, meta>>
      BY <1>6, <2>4 DEF Eof, Finish
    <3>2. /\ cached \/ meta => doubts' # {}
          /\ "overlapping" \in doubts => "overlapping" \in doubts'
      BY <2>1, <3>1, RemainingDoubts DEF ReadyInv
    <3>3. Overlapped' /\ Doubted'
      BY <2>2, <3>1, <3>2 DEF ReadyInv, Overlapped, Doubted
    <3>4. NoProcess' /\ Described' /\ {cached', meta'} \subseteq BOOLEAN
      BY <2>1, <3>1 DEF ReadyInv, NoProcess, Described
    <3> QED
      BY <2>2, <3>3, <3>4 DEF ReadyInv, Standing
  <2> QED
    BY <2>3, <2>4
<1>7. CASE Check(t) \/ StartUpCheck(t)
  <2>1. /\ running # "none" /\ UNCHANGED <<release, running, script, waits>>
        /\ \/ pc' = pc
           \/ pc' = [pc EXCEPT ![t] = "checking"]
           \/ pc' = [pc EXCEPT ![t] = "resuming"]
        /\ ClearCache \/ UNCHANGED <<cached, meta, file, doubts>>
        /\ status' = "DOWNLOADED" => cached'
    BY <1>7, CheckShape DEF scriptVars, disk
  <2>2. pc' \in [Tasks -> Places] /\ Downloading' \subseteq Downloading
    BY <2>1 DEF ReadyInv, Standing, Downloading, Places
  <2>3. ClearCache => status' # "DOWNLOADED"
    BY <2>1 DEF ClearCache
  <2>4. NoProcess'
    BY <2>1 DEF NoProcess
  <2> QED
    BY <2>1, <2>2, <2>3, <2>4, SameReady, ClearReady
<1>8. CASE CheckEnds(t)
  <2>1. /\ running # "none"
        /\ pc' = [pc EXCEPT ![t] = "idle"]
        /\ status' \in {"ERROR", "IDLE"}
        /\ UNCHANGED <<release, running, cached, meta, file, doubts, script, waits>>
    BY <1>1, <1>8 DEF CheckEnds, End, disk, scriptVars
  <2>2. NoProcess'
    BY <2>1 DEF ReadyInv, NoProcess
  <2>3. pc' \in [Tasks -> Places] /\ Downloading' \subseteq Downloading
    BY <2>1, LeavesReady DEF Places
  <2> QED
    BY <2>1, <2>2, <2>3, SameReady
<1>9. CASE Offered(t)
  <2>1. CASE release.auto
    BY <1>9, <2>1, DownloadReady DEF Offered
  <2>2. CASE ~release.auto
    <3>1. /\ running # "none"
          /\ pc' = [pc EXCEPT ![t] = "idle"]
          /\ status' = "AVAILABLE"
          /\ UNCHANGED <<release, running, cached, meta, file, doubts, script, waits>>
      BY <1>9, <2>2 DEF Offered, End, disk, scriptVars
    <3>2. NoProcess'
      BY <3>1 DEF ReadyInv, NoProcess
    <3>3. pc' \in [Tasks -> Places] /\ Downloading' \subseteq Downloading
      BY <3>1, LeavesReady DEF Places
    <3> QED
      BY <3>1, <3>2, <3>3, SameReady
  <2> QED
    BY <2>1, <2>2
<1>10. CASE ResumeEnds(t)
  <2>1. /\ running # "none"
        /\ pc' = [pc EXCEPT ![t] = "idle"]
        /\ status' \in {"ERROR", "IDLE"}
        /\ UNCHANGED <<release, running, script, waits>>
        /\ ClearCache \/ UNCHANGED <<cached, meta, file, doubts>>
    BY <1>1, <1>10 DEF ResumeEnds, End, disk, scriptVars
  <2>2. NoProcess'
    BY <2>1 DEF ReadyInv, NoProcess
  <2>3. pc' \in [Tasks -> Places] /\ Downloading' \subseteq Downloading
    BY <2>1, LeavesReady DEF Places
  <2> QED
    BY <2>1, <2>2, <2>3, SameReady, ClearReady
<1> QED
  BY <1>2, <1>3, <1>4, <1>5, <1>6, <1>7, <1>8, <1>9, <1>10

\* The process comes and goes.
LEMMA GoneReady ==
  ASSUME ReadyInv, Gone, UNCHANGED <<release, meta, file>>, script' \in {script, "none"}
  PROVE  ReadyInv'
<1>1. /\ running' = "none"
      /\ status' = "IDLE"
      /\ cached' = FALSE
      /\ pc' = [t \in Tasks |-> "idle"]
      /\ doubts' = IF meta THEN doubts ELSE doubts \ {"outlived"}
  BY DEF Gone
<1>2. Downloading' = {} /\ pc' \in [Tasks -> Places]
  BY <1>1 DEF Downloading, Places
<1>3. NoProcess' /\ Described' /\ Overlapped'
  BY <1>1, <1>2 DEF NoProcess, Described, Overlapped
<1>4. Doubted'
  <2>1. cached' \/ meta' => meta /\ doubts' = doubts
    BY <1>1
  <2> QED
    BY <1>2, <2>1 DEF ReadyInv, Doubted
<1> QED
  BY <1>1, <1>2, <1>3, <1>4 DEF ReadyInv, Standing

\* exe is launched while no process runs; the script may remove the file meanwhile.
LEMMA LaunchReady ==
  ASSUME ReadyInv, NEW exe \in Working, Launch(exe), running = "none", UNCHANGED <<release, pc>>,
         script' \in {"none", "finishing"},
         \/ UNCHANGED <<meta, file, doubts>>
         \/ meta' = FALSE /\ doubts' = Remaining(cached')
  PROVE  ReadyInv'
<1>1. running' \in Working /\ running' # "none" /\ cached' = meta /\ status' = "IDLE"
  BY DEF Launch, ReadyInv, NoProcess, Working
<1>2. Downloading = {} /\ Downloading' = {}
  BY DEF ReadyInv, NoProcess, Downloading
<1>3. NoProcess' /\ Described' /\ Overlapped'
  BY <1>1, <1>2 DEF NoProcess, Described, Overlapped
<1>4. Doubted'
  <2>1. CASE UNCHANGED <<meta, file, doubts>>
    BY <1>1, <1>2, <2>1 DEF ReadyInv, Doubted
  <2>2. CASE meta' = FALSE /\ doubts' = Remaining(cached')
    <3>1. cached' => doubts' # {}
      BY <1>1, <2>2, RemainingDoubts DEF ReadyInv
    <3> QED
      BY <1>2, <2>2, <3>1 DEF Doubted
  <2> QED
    BY <2>1, <2>2
<1> QED
  BY <1>1, <1>3, <1>4 DEF ReadyInv, Standing

\* The script removes the package at its end; nothing else in memory changes.
LEMMA CleanUpReady ==
  ASSUME ReadyInv, NEW how, CleanUp(how), Runs, UNCHANGED memory
  PROVE  ReadyInv'
<1>1. /\ meta' = FALSE
      /\ doubts' = Remaining(cached)
      /\ script' = "none"
      /\ UNCHANGED <<release, running, status, cached, pc>>
  BY DEF CleanUp, Runs, memory
<1>2. Downloading' = Downloading
  BY <1>1 DEF Downloading
<1>3. cached => doubts' # {}
  BY <1>1, RemainingDoubts DEF ReadyInv
<1>4. Overlapped'
  BY <1>1, <1>2, RemainingDoubts DEF ReadyInv, Overlapped
<1>5. NoProcess' /\ Described' /\ Doubted'
  BY <1>1, <1>3 DEF ReadyInv, NoProcess, Described, Doubted
<1> QED
  BY <1>1, <1>4, <1>5 DEF ReadyInv, Standing

LEMMA OtherReady ==
  ASSUME ReadyInv, ScriptInv,
         \/ Cancel \/ Install \/ Quit \/ PowerLoss \/ Start
         \/ GivesUp \/ RemovesBackup \/ MovesAside \/ CannotMove \/ Copies \/ Launches
         \/ DoesNotStart \/ DropsBackup \/ Succeeds \/ RemovesNew \/ Restores
         \/ CannotRestore
  PROVE  ReadyInv'
<1>1. CASE Cancel
  <2>1. /\ Downloading # {}
        /\ status' = "CANCELLED"
        /\ pc' = pc \/ pc' = [pc EXCEPT ![task] = "unwinding"]
        /\ UNCHANGED <<release, running, cached, meta, file, doubts, script, waits>>
    BY <1>1 DEF Cancel, disk, scriptVars
  <2>2. running # "none"
    BY <2>1 DEF ReadyInv, NoProcess, Downloading
  <2>3. pc' \in [Tasks -> Places] /\ Downloading' \subseteq Downloading
    BY <2>1 DEF ReadyInv, Standing, Downloading, Places
  <2>4. NoProcess'
    BY <2>1, <2>2 DEF ReadyInv, NoProcess
  <2> QED
    BY <2>1, <2>3, <2>4, SameReady
<1>2. CASE Install
  <2>1. running # "none" /\ UNCHANGED <<release, running, pc>>
    BY <1>2 DEF Install
  <2>2. pc' \in [Tasks -> Places] /\ Downloading' \subseteq Downloading
    BY <2>1 DEF ReadyInv, Standing, Downloading
  <2>3. CASE status' = "ERROR"
    <3>1. /\ ClearCache \/ UNCHANGED <<cached, meta, file, doubts>>
          /\ UNCHANGED <<script, waits>>
      BY <1>2, <2>3 DEF Install, disk
    <3>2. NoProcess'
      BY <2>1 DEF NoProcess
    <3> QED
      BY <2>1, <2>2, <2>3, <3>1, <3>2, ClearReady, SameReady
  <2>4. CASE status' # "ERROR"
    <3>1. /\ status' = "INSTALLING"
          /\ script' = "waiting"
          /\ waits' = TRUE
          /\ UNCHANGED <<cached, meta, file, doubts>>
      BY <1>2, <2>4 DEF Install, disk
    <3>2. NoProcess'
      BY <2>1, <3>1 DEF NoProcess
    <3> QED
      BY <2>1, <2>2, <3>1, <3>2, SameReady
  <2> QED
    BY <2>3, <2>4
<1>3. CASE Quit \/ PowerLoss
  BY <1>3, GoneReady DEF Quit, PowerLoss, disk
<1>4. CASE Start
  BY <1>4, LaunchReady DEF Start, coroutines, disk
<1>5. CASE GivesUp \/ CannotMove \/ Succeeds
  BY <1>5, CleanUpReady DEF GivesUp, CannotMove, Succeeds
<1>6. CASE \/ RemovesBackup \/ MovesAside \/ Copies \/ DoesNotStart \/ DropsBackup \/ RemovesNew
           \/ CannotRestore \/ (Launches /\ UNCHANGED memory)
  <2>1. UNCHANGED <<release, running, status, cached, meta, file, doubts, pc, waits>>
    BY <1>6 DEF RemovesBackup, MovesAside, Copies, DoesNotStart, DropsBackup, RemovesNew,
                CannotRestore, Launches, Runs, Quiet, memory, disk
  <2>2. NoProcess' /\ Downloading' = Downloading
    BY <2>1 DEF ReadyInv, NoProcess, Downloading
  <2> QED
    BY <2>1, <2>2, SameReady DEF ReadyInv, Standing, Described
<1>7. CASE Launches /\ ~UNCHANGED memory
  <2>1. /\ running = "none"
        /\ current \in Working
        /\ Launch(current)
        /\ script' = "finishing"
        /\ UNCHANGED <<release, pc, meta, file, doubts>>
    BY <1>7 DEF Launches, Runs, disk, ScriptInv
  <2> QED
    BY <2>1, LaunchReady
<1>8. CASE Restores
  <2>1. /\ running = "none"
        /\ backup \in Working
        /\ Launch(backup)
        /\ script' = "none"
        /\ meta' = FALSE
        /\ doubts' = Remaining(cached')
        /\ UNCHANGED <<release, pc>>
    BY <1>8 DEF Restores, Runs, CleanUp, ScriptInv
  <2> QED
    BY <2>1, LaunchReady
<1> QED
  BY <1>1, <1>2, <1>3, <1>4, <1>5, <1>6, <1>7, <1>8

\* The two invariants hold together.
LEMMA ReadyInvariant == Spec => [](ScriptInv /\ ReadyInv)
<1>1. Init => ScriptInv /\ ReadyInv
  <2>1. Init => Standing /\ Downloading = {}
    BY DEF Init, Standing, Places, Downloading
  <2> QED
    BY <2>1, InitScript
       DEF Init, ReadyInv, NoProcess, Described, Overlapped, Doubted
<1>2. ScriptInv /\ ReadyInv /\ [Next]_vars => (ScriptInv /\ ReadyInv)'
  <2> SUFFICES ASSUME ScriptInv, ReadyInv, [Next]_vars
               PROVE  ReadyInv'
    BY NextScript
  <2>1. CASE UNCHANGED vars
    <3>1. UNCHANGED <<release, running, status, cached, meta, file, doubts, pc, script, waits>>
      BY <2>1 DEF vars, memory, coroutines, disk, scriptVars
    <3> QED
      BY <3>1 DEF ReadyInv, Standing, NoProcess, Described, Overlapped, Doubted, Downloading
  <2>2. CASE Next
    BY <2>2, TaskReady, OtherReady DEF Next
  <2> QED
    BY <2>1, <2>2
<1> QED
  BY <1>1, <1>2, PTL DEF Spec

\* A package announced as downloaded is the whole one of the checksum, through restarts
\* of the process and of the machine, unless one of three doubts is recorded.
THEOREM ReadyPackageIsWhole == Spec => []ReadyIsWhole
<1>1. ReadyInv => ReadyIsWhole
  BY DEF ReadyInv, Described, Doubted, ReadyIsWhole
<1> QED
  BY <1>1, ReadyInvariant, PTL

-----------------------------------------------------------------------------
(* Type correctness *)

Pieces == 0 .. Size

\* A coroutine that reads has a file to write to, unless it was removed under it.
FileTypes ==
    /\ file = None \/ file \in Seq(Pieces)
    /\ pc \in [Tasks -> Places]
    /\ pos \in [Tasks -> Nat]
    /\ mode \in [Tasks -> {"append", "rewrite", "gone"}]
    /\ \A t \in Tasks : pc[t] = "reading" /\ mode[t] # "gone" => file \in Seq(Pieces)

MemoryTypes ==
    /\ release \in [sized : BOOLEAN, checksum : BOOLEAN, archive : BOOLEAN, auto : BOOLEAN]
    /\ status \in Statuses
    /\ {fresh, known, cached, cancelled, meta, waits} \subseteq BOOLEAN
    /\ doubts \subseteq {"overlapping", "taken by size", "outlived"}
    /\ task \in Tasks \cup {None}
    /\ {current, backup, package} \subseteq Executables

TypeInv == FileTypes /\ MemoryTypes

\* The file stays or is removed, and nobody opens it.
LEMMA FileSettles ==
  ASSUME FileTypes, pc' \in [Tasks -> Places], pos' \in [Tasks -> Nat],
         mode' \in [Tasks -> {"append", "rewrite", "gone"}],
         \/ /\ file' = None
            /\ \A q \in Tasks : pc'[q] = "reading" => mode'[q] = "gone"
         \/ /\ file' = file
            /\ \A q \in Tasks : pc'[q] = "reading" =>
                  pc[q] = "reading" /\ mode'[q] \in {mode[q], "gone"}
  PROVE  FileTypes'
BY DEF FileTypes

LEMMA OrphanedTypes ==
  ASSUME FileTypes
  PROVE  /\ Orphaned \in [Tasks -> {"append", "rewrite", "gone"}]
         /\ \A q \in Tasks : pc[q] = "reading" => Orphaned[q] = "gone"
BY DEF FileTypes, Orphaned

LEMMA RemainingTypes ==
  ASSUME doubts \subseteq {"overlapping", "taken by size", "outlived"}, NEW described
  PROVE  Remaining(described) \subseteq {"overlapping", "taken by size", "outlived"}
BY DEF Remaining

LEMMA FinishTypes ==
  ASSUME FileTypes, NEW t \in Tasks, NEW st, Finish(t, st), file' \in {file, None}
  PROVE  FileTypes'
<1>1. /\ pc' = [pc EXCEPT ![t] = "idle"]
      /\ pos' = [pos EXCEPT ![t] = 0]
      /\ mode' = [(IF file' = None THEN Orphaned ELSE mode) EXCEPT ![t] = "append"]
  BY DEF Finish, End
<1>2. pc' \in [Tasks -> Places] /\ pos' \in [Tasks -> Nat]
  BY <1>1 DEF FileTypes, Places
<1>3. \A q \in Tasks : pc'[q] = "reading" => q # t /\ pc[q] = "reading"
  BY <1>1 DEF FileTypes
<1>4. CASE file' = None
  <2>1. mode' = [Orphaned EXCEPT ![t] = "append"]
    BY <1>1, <1>4
  <2>2. /\ mode' \in [Tasks -> {"append", "rewrite", "gone"}]
        /\ \A q \in Tasks : pc'[q] = "reading" => mode'[q] = "gone"
    BY <1>3, <2>1, OrphanedTypes
  <2> QED
    BY <1>2, <1>4, <2>2, FileSettles
<1>5. CASE file' # None
  <2>1. mode' = [mode EXCEPT ![t] = "append"] /\ file' = file
    BY <1>1, <1>5
  <2>2. /\ mode' \in [Tasks -> {"append", "rewrite", "gone"}]
        /\ \A q \in Tasks : pc'[q] = "reading" => mode'[q] = mode[q]
    BY <1>3, <2>1 DEF FileTypes
  <2> QED
    BY <1>2, <1>3, <2>1, <2>2, FileSettles
<1> QED
  BY <1>4, <1>5

LEMMA ClearTypes ==
  ASSUME TypeInv, ClearCache, pos' = pos, pc' \in [Tasks -> Places],
         \A q \in Tasks : pc'[q] = "reading" => pc[q] = "reading"
  PROVE  /\ FileTypes'
         /\ cached' = FALSE /\ meta' = FALSE
         /\ doubts' \subseteq {"overlapping", "taken by size", "outlived"}
<1>1. CASE cached
  <2>1. file' = None /\ mode' = Orphaned /\ doubts' = Remaining(FALSE)
    BY <1>1 DEF ClearCache
  <2>2. FileTypes'
    BY <2>1, OrphanedTypes, FileSettles DEF TypeInv, FileTypes
  <2> QED
    BY <2>1, <2>2, RemainingTypes DEF TypeInv, MemoryTypes, ClearCache
<1>2. CASE ~cached
  <2>1. UNCHANGED <<file, mode, doubts>>
    BY <1>2 DEF ClearCache
  <2>2. FileTypes'
    BY <2>1 DEF TypeInv, FileTypes
  <2> QED
    BY <2>1, <2>2 DEF TypeInv, MemoryTypes, ClearCache
<1> QED
  BY <1>1, <1>2

LEMMA DownloadTypes ==
  ASSUME TypeInv, NEW t \in Tasks, NEW st \in Statuses, DownloadFrom(t, st)
  PROVE  TypeInv'
<1> DEFINE f == IF Corrupt(st) THEN None ELSE file
<1>1. known' = TRUE /\ UNCHANGED <<release, fresh, waits, current, backup, package>>
  BY DEF DownloadFrom, scriptVars
<1>2. CASE HasCached(st) \/ st = "DOWNLOADING"
  <2>1. /\ status' \in Statuses
        /\ pc' = [pc EXCEPT ![t] = "idle"]
        /\ UNCHANGED <<cached, cancelled, task, pos, mode, file, meta, doubts>>
    BY <1>2 DEF DownloadFrom, End, disk, Statuses
  <2>2. FileTypes'
    BY <2>1 DEF TypeInv, FileTypes, Places
  <2> QED
    BY <1>1, <2>1, <2>2 DEF TypeInv, MemoryTypes
<1>3. CASE ~(HasCached(st) \/ st = "DOWNLOADING")
  <2>1. Begin(t, f)
    BY <1>3 DEF DownloadFrom
  <2>2. f \in {None, file} /\ (f # None => Len(f) \in Nat)
    BY DEF TypeInv, FileTypes
  <2> HIDE DEF f
  <2>3. /\ cancelled' = FALSE
        /\ file' = f
        /\ mode' = IF f = file THEN mode ELSE Orphaned
        /\ pc' = [pc EXCEPT ![t] = "idle"] \/ pc' = [pc EXCEPT ![t] = "connecting"]
    BY <2>1 DEF Begin, End
  <2>4. pos' \in [Tasks -> Nat]
    <3>1. CASE f # None /\ release.sized /\ Len(f) >= Size
      BY <2>1, <3>1 DEF Begin, TypeInv, FileTypes
    <3>2. CASE ~(f # None /\ release.sized /\ Len(f) >= Size)
      <4>1. pos' = [pos EXCEPT ![t] = IF f = None THEN 0 ELSE Len(f)]
        BY <2>1, <3>2 DEF Begin
      <4> QED
        BY <2>2, <4>1 DEF TypeInv, FileTypes
    <3> QED
      BY <3>1, <3>2
  <2>5. FileTypes'
    <3>1. pc' \in [Tasks -> Places] /\ \A q \in Tasks : pc'[q] = "reading" => pc[q] = "reading"
      BY <2>3 DEF TypeInv, FileTypes, Places
    <3>2. CASE f = file
      BY <2>3, <2>4, <3>1, <3>2, FileSettles DEF TypeInv, FileTypes
    <3>3. CASE f # file
      <4>1. file' = None /\ mode' = Orphaned
        BY <2>2, <2>3, <3>3
      <4> QED
        BY <2>4, <3>1, <4>1, OrphanedTypes, FileSettles DEF TypeInv
    <3> QED
      BY <3>2, <3>3
  <2>6. /\ status' \in {"DOWNLOADED", "DOWNLOADING"}
        /\ cached' \in BOOLEAN /\ meta' \in BOOLEAN
        /\ task' \in {None, t}
        /\ doubts' \subseteq {"overlapping", "taken by size", "outlived"}
    BY <2>1 DEF Begin, TypeInv, MemoryTypes
  <2> QED
    BY <1>1, <2>3, <2>5, <2>6 DEF TypeInv, MemoryTypes, Statuses
<1> QED
  BY <1>2, <1>3

\* What a coroutine writes keeps the file a sequence of pieces.
LEMMA WrittenTypes ==
  ASSUME FileTypes, NEW t \in Tasks, pc[t] = "reading", pos[t] < Size,
         NEW p \in {pos[t] + 1, 0}
  PROVE  /\ mode[t] = "gone" => Written(t, p) = file
         /\ mode[t] # "gone" => Written(t, p) \in Seq(Pieces)
<1>1. p \in Pieces /\ 0 \in Pieces /\ pos[t] \in Nat
  BY UpdateAssumption DEF Pieces, FileTypes
<1>2. CASE mode[t] = "gone"
  BY <1>2 DEF Written
<1>3. CASE mode[t] = "append"
  <2>1. Written(t, p) = Append(file, p) /\ file \in Seq(Pieces)
    BY <1>3 DEF Written, FileTypes
  <2> QED
    BY <1>1, <1>3, <2>1
<1>4. CASE mode[t] = "rewrite"
  <2> DEFINE n == IF Len(file) > pos[t] THEN Len(file) ELSE pos[t] + 1
             piece(i) == IF i = pos[t] + 1 THEN p ELSE IF i <= Len(file) THEN file[i] ELSE 0
  <2>1. file \in Seq(Pieces)
    BY <1>4 DEF FileTypes
  <2>2. Len(file) \in Nat /\ \A i \in 1 .. Len(file) : file[i] \in Pieces
    BY <2>1
  <2>3. n \in Nat /\ \A i \in 1 .. n : piece(i) \in Pieces
    BY <1>1, <2>2
  <2>4. Written(t, p) = [i \in 1 .. n |-> piece(i)]
    BY <1>4 DEF Written
  <2> HIDE DEF n, piece
  <2>5. [i \in 1 .. n |-> piece(i)] \in Seq(Pieces)
    BY <2>3
  <2> QED
    BY <1>4, <2>4, <2>5
<1> QED
  BY <1>2, <1>3, <1>4 DEF FileTypes

LEMMA TaskTypes ==
  ASSUME TypeInv, NEW t \in Tasks,
         \/ Download(t) \/ Fails(t) \/ Resumes(t) \/ Restarts(t) \/ Chunk(t) \/ Eof(t)
         \/ Unwind(t) \/ Check(t) \/ StartUpCheck(t) \/ CheckEnds(t) \/ Offered(t) \/ ResumeEnds(t)
  PROVE  TypeInv'
<1> DEFINE Doubts == {"overlapping", "taken by size", "outlived"}
<1>1. ASSUME NEW st \in {"ERROR", "CANCELLED", "DOWNLOADED"}, Finish(t, st),
             file' \in {file, None}, cached' \in BOOLEAN, meta' \in BOOLEAN,
             doubts' \subseteq Doubts
      PROVE  TypeInv'
  <2>1. FileTypes'
    BY <1>1, FinishTypes DEF TypeInv
  <2>2. /\ status' = st /\ task' = None
        /\ UNCHANGED <<release, fresh, known, cancelled, waits, current, backup, package>>
    BY <1>1 DEF Finish, scriptVars
  <2> QED
    BY <1>1, <2>1, <2>2 DEF TypeInv, MemoryTypes, Statuses
<1>2. CASE Download(t)
  BY <1>2, DownloadTypes DEF Download, TypeInv, MemoryTypes
<1>3. CASE Fails(t) \/ Unwind(t)
  <2>1. UNCHANGED <<cached, meta, file, doubts>> /\ \E st \in {"ERROR", "CANCELLED"} : Finish(t, st)
    BY <1>3 DEF Fails, Unwind, disk
  <2>2. cached' \in BOOLEAN /\ meta' \in BOOLEAN /\ doubts' \subseteq Doubts /\ file' \in {file, None}
    BY <2>1 DEF TypeInv, MemoryTypes
  <2> QED
    BY <1>1, <2>1, <2>2
<1>4. CASE Resumes(t) \/ Restarts(t)
  <2>1. /\ pc' = [pc EXCEPT ![t] = "reading"]
        /\ pos' = pos \/ pos' = [pos EXCEPT ![t] = 0]
        /\ \E m \in {"append", "rewrite"} : mode' = [mode EXCEPT ![t] = m]
        /\ file' = <<>> \/ (file' = file /\ file # None)
        /\ UNCHANGED <<release, memory, meta, scriptVars, doubts>>
    BY <1>4 DEF Resumes, Restarts
  <2>2. file = None \/ file \in Seq(Pieces)
    BY DEF TypeInv, FileTypes
  <2>3. file' \in Seq(Pieces)
    <3>1. CASE file' = <<>>
      BY <3>1
    <3>2. CASE file' = file /\ file # None
      BY <2>2, <3>2
    <3> QED
      BY <2>1, <3>1, <3>2
  <2>4. FileTypes'
    BY <2>1, <2>3 DEF TypeInv, FileTypes, Places
  <2> QED
    BY <2>1, <2>4 DEF TypeInv, MemoryTypes, memory, scriptVars
<1>5. CASE Chunk(t)
  <2>1. UNCHANGED <<cached, meta, doubts>>
    BY <1>5 DEF Chunk
  <2>2. cached' \in BOOLEAN /\ meta' \in BOOLEAN /\ doubts' \subseteq Doubts
    BY <2>1 DEF TypeInv, MemoryTypes
  <2>3. CASE cancelled
    BY <1>1, <1>5, <2>2, <2>3 DEF Chunk
  <2>4. CASE ~cancelled
    <3>1. PICK p \in {pos[t] + 1, 0} : file' = Written(t, p)
      BY <1>5, <2>4 DEF Chunk
    <3>2. /\ pc[t] = "reading" /\ pos[t] < Size
          /\ status' = "DOWNLOADING"
          /\ pos' = [pos EXCEPT ![t] = @ + 1]
          /\ UNCHANGED <<release, fresh, known, cancelled, task, pc, mode, waits, current,
                         backup, package>>
      BY <1>5, <2>4 DEF Chunk, More, scriptVars
    <3>3. file' = file \/ file' \in Seq(Pieces)
      BY <3>1, <3>2, WrittenTypes DEF TypeInv
    <3>4. FileTypes'
      BY <3>2, <3>3 DEF TypeInv, FileTypes
    <3> QED
      BY <2>1, <3>2, <3>4 DEF TypeInv, MemoryTypes, Statuses
  <2> QED
    BY <2>3, <2>4
<1>6. CASE Eof(t)
  <2>1. CASE Accepted
    <3>1. /\ file' = file /\ cached' = TRUE /\ meta' = TRUE
          /\ doubts' = doubts \ {"outlived"}
          /\ Finish(t, "DOWNLOADED")
      BY <1>6, <2>1 DEF Eof
    <3> QED
      BY <1>1, <3>1 DEF TypeInv, MemoryTypes
  <2>2. CASE ~Accepted
    <3>1. /\ file' = None
          /\ doubts' = Remaining(cached \/ meta)
          /\ UNCHANGED <<cached, meta>>
          /\ Finish(t, "ERROR")
      BY <1>6, <2>2 DEF Eof
    <3>2. cached' \in BOOLEAN /\ meta' \in BOOLEAN /\ doubts' \subseteq Doubts
      BY <3>1, RemainingTypes DEF TypeInv, MemoryTypes
    <3> QED
      BY <1>1, <3>1, <3>2
  <2> QED
    BY <2>1, <2>2
<1>7. CASE \/ Check(t) \/ StartUpCheck(t) \/ CheckEnds(t) \/ ResumeEnds(t)
           \/ (Offered(t) /\ ~release.auto)
  <2>1. /\ pc' \in {pc, [pc EXCEPT ![t] = "checking"], [pc EXCEPT ![t] = "resuming"],
                    [pc EXCEPT ![t] = "idle"]}
        /\ status' \in {status, "DOWNLOADED", "CHECKING", "AVAILABLE", "ERROR", "IDLE"}
        /\ fresh' \in {fresh, FALSE}
        /\ known' \in {known, TRUE}
        /\ UNCHANGED <<release, cancelled, task, pos, waits, current, backup, package>>
    BY <1>7, CheckShape DEF CheckEnds, ResumeEnds, Offered, End, scriptVars
  <2>2. \/ ClearCache
        \/ UNCHANGED <<cached, mode, meta, file, doubts>>
    BY <1>7, CheckShape DEF CheckEnds, ResumeEnds, Offered, disk
  <2>3. pc' \in [Tasks -> Places] /\ \A q \in Tasks : pc'[q] = "reading" => pc[q] = "reading"
    BY <2>1 DEF TypeInv, FileTypes, Places
  <2>4. CASE ClearCache
    BY <2>1, <2>3, <2>4, ClearTypes DEF TypeInv, MemoryTypes, Statuses
  <2>5. CASE UNCHANGED <<cached, mode, meta, file, doubts>>
    <3>1. FileTypes'
      BY <2>1, <2>3, <2>5 DEF TypeInv, FileTypes
    <3> QED
      BY <2>1, <2>5, <3>1 DEF TypeInv, MemoryTypes, Statuses
  <2> QED
    BY <2>2, <2>4, <2>5
<1>8. CASE Offered(t) /\ release.auto
  BY <1>8, DownloadTypes DEF Offered, Statuses
<1> QED
  BY <1>2, <1>3, <1>4, <1>5, <1>6, <1>7, <1>8

LEMMA CleanUpTypes ==
  ASSUME TypeInv, NEW how, CleanUp(how), Runs
  PROVE  /\ FileTypes'
         /\ package' = "none" /\ meta' = FALSE
         /\ doubts' \subseteq {"overlapping", "taken by size", "outlived"}
<1>1. /\ package' = "none" /\ meta' = FALSE
      /\ file' = None /\ mode' = Orphaned
      /\ doubts' = Remaining(cached')
      /\ UNCHANGED <<pc, pos>>
  BY DEF CleanUp, Runs
<1>2. FileTypes'
  BY <1>1, OrphanedTypes, FileSettles DEF TypeInv, FileTypes
<1> QED
  BY <1>1, <1>2, RemainingTypes DEF TypeInv, MemoryTypes

LEMMA OtherTypes ==
  ASSUME TypeInv, ScriptInv,
         \/ Cancel \/ Install \/ Quit \/ PowerLoss \/ Start
         \/ GivesUp \/ RemovesBackup \/ MovesAside \/ CannotMove \/ Copies \/ Launches
         \/ DoesNotStart \/ DropsBackup \/ Succeeds \/ RemovesNew \/ Restores
         \/ CannotRestore
  PROVE  TypeInv'
<1> DEFINE Doubts == {"overlapping", "taken by size", "outlived"}
<1>1. CASE Cancel
  <2>1. /\ cancelled' = TRUE /\ status' = "CANCELLED"
        /\ pc' = IF task # None THEN [pc EXCEPT ![task] = "unwinding"] ELSE pc
        /\ UNCHANGED <<release, fresh, known, cached, task, pos, mode, meta, file, doubts, waits,
                       current, backup, package>>
    BY <1>1 DEF Cancel, disk, scriptVars
  <2>2. pc' \in [Tasks -> Places] /\ \A q \in Tasks : pc'[q] = "reading" => pc[q] = "reading"
    BY <2>1 DEF TypeInv, FileTypes, Places
  <2>3. FileTypes'
    BY <2>1, <2>2 DEF TypeInv, FileTypes
  <2> QED
    BY <2>1, <2>3 DEF TypeInv, MemoryTypes, Statuses
<1>2. CASE Install
  <2>1. UNCHANGED <<release, fresh, known, cancelled, task, pc, pos, current, backup>>
    BY <1>2 DEF Install
  <2>2. CASE status' = "ERROR"
    <3>1. /\ ClearCache \/ UNCHANGED <<cached, file, meta, mode, doubts>>
          /\ UNCHANGED <<waits, package>>
      BY <1>2, <2>2 DEF Install, disk
    <3>2. CASE ClearCache
      <4>1. FileTypes' /\ cached' = FALSE /\ meta' = FALSE /\ doubts' \subseteq Doubts
        BY <2>1, <3>2, ClearTypes DEF TypeInv, FileTypes
      <4> QED
        BY <2>1, <2>2, <3>1, <4>1 DEF TypeInv, MemoryTypes, Statuses
    <3>3. CASE UNCHANGED <<cached, file, meta, mode, doubts>>
      BY <2>1, <2>2, <3>1, <3>3 DEF TypeInv, FileTypes, MemoryTypes, Statuses
    <3> QED
      BY <3>1, <3>2, <3>3
  <2>3. CASE status' # "ERROR"
    <3>1. /\ status' = "INSTALLING" /\ waits' = TRUE /\ package' \in {"new", "broken"}
          /\ UNCHANGED <<cached, file, meta, mode, doubts>>
      BY <1>2, <2>3 DEF Install, disk
    <3>2. FileTypes'
      BY <2>1, <3>1 DEF TypeInv, FileTypes
    <3> QED
      BY <2>1, <3>1, <3>2 DEF TypeInv, MemoryTypes, Statuses, Executables, Working
  <2> QED
    BY <2>2, <2>3
<1>3. CASE Quit \/ PowerLoss
  <2>1. Gone /\ package' \in {package, "none"}
        /\ UNCHANGED <<release, file, meta, current, backup>>
    BY <1>3 DEF Quit, PowerLoss, disk
  <2>2. FileTypes'
    BY <2>1 DEF Gone, TypeInv, FileTypes, Places
  <2>3. /\ fresh' = TRUE /\ status' = "IDLE" /\ known' = FALSE /\ cached' = FALSE
        /\ cancelled' = FALSE /\ task' = None /\ waits' = FALSE /\ doubts' \subseteq doubts
    BY <2>1 DEF Gone
  <2> QED
    BY <2>1, <2>2, <2>3 DEF TypeInv, MemoryTypes, Statuses, Executables
<1>4. CASE Start \/ Launches
  <2>1. /\ cached' \in {meta, cached}
        /\ UNCHANGED <<release, fresh, status, known, cancelled, task, pc, pos, mode, file, meta,
                       current, backup, waits, package, doubts>>
    BY <1>4 DEF Start, Launches, Launch, Runs, memory, coroutines, disk
  <2>2. FileTypes'
    BY <2>1 DEF TypeInv, FileTypes
  <2> QED
    BY <2>1, <2>2 DEF TypeInv, MemoryTypes
<1>5. CASE GivesUp \/ CannotMove \/ Succeeds
  <2>1. /\ Runs
        /\ UNCHANGED <<memory, current, backup>>
        /\ \E how \in {"gave up", "failed", "updated"} : CleanUp(how)
    BY <1>5 DEF GivesUp, CannotMove, Succeeds
  <2>2. FileTypes' /\ package' = "none" /\ meta' = FALSE /\ doubts' \subseteq Doubts
    BY <2>1, CleanUpTypes
  <2> QED
    BY <2>1, <2>2 DEF TypeInv, MemoryTypes, memory, Runs, Executables
<1>6. CASE RemovesBackup \/ MovesAside \/ Copies \/ DoesNotStart \/ DropsBackup \/ RemovesNew
  <2>1. /\ UNCHANGED <<release, memory, pc, pos, mode, file, meta, waits, package, doubts>>
        /\ current' \in {current, "none", package, "broken"}
        /\ backup' \in {backup, "none", current}
    BY <1>6 DEF RemovesBackup, MovesAside, Copies, DoesNotStart, DropsBackup, RemovesNew,
                Runs, Quiet, disk
  <2>2. FileTypes'
    BY <2>1 DEF TypeInv, FileTypes
  <2> QED
    BY <2>1, <2>2 DEF TypeInv, MemoryTypes, memory, Executables
<1>7. CASE CannotRestore
  <2>1. /\ UNCHANGED <<release, memory, pc, pos, mode, file, meta, waits, doubts, current, backup>>
        /\ package' = "none"
    BY <1>7 DEF CannotRestore, Runs, disk
  <2>2. FileTypes'
    BY <2>1 DEF TypeInv, FileTypes
  <2> QED
    BY <2>1, <2>2 DEF TypeInv, MemoryTypes, memory, Executables
<1>8. CASE Restores
  <2>1. /\ current' = backup /\ backup' = "none" /\ cached' = meta
        /\ UNCHANGED <<fresh, status, known, cancelled, task>>
        /\ Runs
        /\ CleanUp("rolled back")
    BY <1>8 DEF Restores, Launch
  <2>2. FileTypes' /\ package' = "none" /\ meta' = FALSE /\ doubts' \subseteq Doubts
    BY <2>1, CleanUpTypes
  <2> QED
    BY <2>1, <2>2 DEF TypeInv, MemoryTypes, Runs, Executables
<1> QED
  BY <1>1, <1>2, <1>3, <1>4, <1>5, <1>6, <1>7, <1>8

\* Every variable of the updater holds what the code keeps there; the file is pieces of
\* the package, also when a download writes into one that was removed or shortened
\* under it.
THEOREM TypeCorrect == Spec => []TypeOK
<1>1. Init => TypeInv
  <2> SUFFICES ASSUME Init
               PROVE  TypeInv
    OBVIOUS
  <2>1. FileTypes
    BY DEF Init, FileTypes, Places
  <2>2. MemoryTypes
    BY DEF Init, MemoryTypes, Statuses, Executables, Working
  <2> QED
    BY <2>1, <2>2 DEF Init, TypeInv
<1>2. TypeInv /\ ScriptInv /\ [Next]_vars => TypeInv'
  <2> SUFFICES ASSUME TypeInv, ScriptInv, [Next]_vars
               PROVE  TypeInv'
    OBVIOUS
  <2>1. CASE UNCHANGED vars
    BY <2>1 DEF vars, memory, coroutines, disk, scriptVars, TypeInv, FileTypes, MemoryTypes
  <2>2. CASE Next
    BY <2>2, TaskTypes, OtherTypes DEF Next
  <2> QED
    BY <2>1, <2>2
<1>3. TypeInv /\ ScriptInv => TypeOK
  BY DEF TypeInv, FileTypes, MemoryTypes, ScriptInv, Hows, TypeOK, Places, Pieces
<1> QED
  BY <1>1, <1>2, <1>3, InitScript, NextScript, PTL DEF Spec

-----------------------------------------------------------------------------
(* The update is atomic *)

\* What the script puts in place is the new version, or broken; and until it has been
\* launched nothing else can be there.
PackageInv ==
    /\ script \notin {"none", "finishing"} => package \in {"new", "broken"}
    /\ script \in {"launching", "removing", "restoring"} => current \in {"new", "broken", "none"}
    /\ script = "copying" => current = "none"

\* Every step keeps that.
LEMMA NextPackage == PackageInv /\ [Next]_vars => PackageInv'
<1> SUFFICES ASSUME PackageInv, [Next]_vars
             PROVE  PackageInv'
  OBVIOUS
<1>1. CASE UNCHANGED <<script, package, current>>
  BY <1>1 DEF PackageInv
<1>2. CASE UNCHANGED vars
  BY <1>1, <1>2 DEF vars, scriptVars
<1>3. ASSUME NEW t \in Tasks,
             \/ Download(t) \/ Fails(t) \/ Resumes(t) \/ Restarts(t) \/ Chunk(t) \/ Eof(t)
             \/ Unwind(t) \/ Check(t) \/ StartUpCheck(t) \/ CheckEnds(t) \/ Offered(t) \/ ResumeEnds(t)
      PROVE  PackageInv'
  <2>1. UNCHANGED scriptVars
    BY <1>3 DEF Download, Offered, DownloadFrom, Fails, Eof, Unwind, Finish, Resumes, Restarts,
                Chunk, Check, StartUpCheck, Comes, CheckEnds, ResumeEnds
  <2> QED
    BY <1>1, <2>1 DEF scriptVars
<1>4. CASE Cancel \/ Quit \/ Start
  BY <1>1, <1>4 DEF Cancel, Quit, Start, scriptVars
<1>5. CASE Install
  BY <1>5 DEF Install, PackageInv
<1>6. CASE PowerLoss
  BY <1>6 DEF PowerLoss, PackageInv
<1>7. CASE GivesUp \/ CannotMove \/ Succeeds \/ Restores \/ CannotRestore
  BY <1>7 DEF GivesUp, CannotMove, Succeeds, Restores, CannotRestore, CleanUp, PackageInv
<1>8. CASE RemovesBackup \/ MovesAside \/ Copies \/ DoesNotStart \/ DropsBackup \/ RemovesNew
  BY <1>8 DEF RemovesBackup, MovesAside, Copies, DoesNotStart, DropsBackup, RemovesNew, Quiet,
              PackageInv
<1>9. CASE Launches
  BY <1>9 DEF Launches, PackageInv
<1> QED
  BY <1>2, <1>3, <1>4, <1>5, <1>6, <1>7, <1>8, <1>9 DEF Next

\* A step that leaves executables, script and process alone is none of the promise's.
LEMMA NoUpdate ==
  ASSUME UNCHANGED <<running, current, backup, script>>
  PROVE  UNCHANGED Update!vars
  BY DEF Update!vars, Version, Aside, Phase

\* Checks and downloads are such steps.
LEMMA TaskUpdates ==
  ASSUME NEW t \in Tasks,
         \/ Download(t) \/ Fails(t) \/ Resumes(t) \/ Restarts(t) \/ Chunk(t) \/ Eof(t)
         \/ Unwind(t) \/ Check(t) \/ StartUpCheck(t) \/ CheckEnds(t) \/ Offered(t) \/ ResumeEnds(t)
  PROVE  UNCHANGED Update!vars
<1>1. UNCHANGED <<running, scriptVars>>
  BY DEF Download, Offered, DownloadFrom, Fails, Eof, Unwind, Finish, Resumes, Restarts,
         Chunk, Check, StartUpCheck, Comes, CheckEnds, ResumeEnds, memory
<1> QED
  BY <1>1, NoUpdate DEF scriptVars

\* The user, the machine and the beginning of an update.
LEMMA ProcessUpdates ==
  ASSUME ScriptInv, PackageInv, Cancel \/ Install \/ Quit \/ PowerLoss \/ Start
  PROVE  [Update!Next]_(Update!vars)
<1>1. CASE Cancel
  BY <1>1, NoUpdate DEF Cancel, scriptVars
<1>2. CASE Install
  <2>1. CASE status' = "ERROR"
    BY <1>2, <2>1, NoUpdate DEF Install
  <2>2. CASE status' # "ERROR"
    <3>1. /\ script = "none" /\ script' = "waiting" /\ running # "none"
          /\ UNCHANGED <<running, current, backup>> /\ current \in Working
      BY <1>2, <2>2 DEF Install, ScriptInv
    <3>2. Update!Begin
      BY <3>1 DEF Update!Begin, Version, Aside, Phase
    <3> QED
      BY <3>2 DEF Update!Next
  <2> QED
    BY <2>1, <2>2
<1>3. CASE Quit
  <2>1. running # "none" /\ running' = "none" /\ UNCHANGED <<current, backup, script>>
    BY <1>3 DEF Quit, Gone
  <2>2. Update!Quit
    BY <2>1 DEF Update!Quit, Version, Aside, Phase
  <2> QED
    BY <2>2 DEF Update!Next
<1>4. CASE PowerLoss
  <2>1. running' = "none" /\ script' = "none" /\ UNCHANGED <<current, backup>>
    BY <1>4 DEF PowerLoss, Gone
  <2>2. Phase' = "idle"
    BY <2>1 DEF Phase
  <2>3. Version' = (IF current \in Working THEN current ELSE backup)
    BY <2>1 DEF Version, Aside
  <2>4. CASE Phase = "trying"
    <3>1. Aside => current \in {"new", "broken", "none"}
      BY DEF PackageInv, Aside
    <3>2. ~Aside => current \in Working
      BY <2>4 DEF Phase, Aside, ScriptInv
    <3>3. Version' \in {Version, "new"}
      BY <2>3, <3>1, <3>2 DEF Version, Working
    <3> QED
      BY <2>1, <2>2, <2>4, <3>3 DEF Update!Next, Update!PowerLoss, Update!Interrupted
  <2>5. CASE Phase = "botched"
    <3>1. Version' = Version
      BY <2>3, <2>5 DEF Phase, Version, Aside
    <3> QED
      BY <2>1, <2>2, <2>5, <3>1 DEF Update!Next, Update!PowerLoss, Update!Interrupted
  <2>6. CASE Phase \notin {"trying", "botched"}
    <3>1. /\ Version' = Version
          /\ (script' # "none" \/ current' \in Working) = (script # "none" \/ current \in Working)
      BY <2>1, <2>6 DEF Version, Phase, Aside, ScriptInv
    <3> QED
      BY <2>1, <2>2, <2>6, <3>1 DEF Update!Next, Update!PowerLoss, Update!Interrupted
  <2> QED
    BY <2>4, <2>5, <2>6
<1>5. CASE Start
  <2>1. /\ script = "none" /\ current \in Working /\ running = "none" /\ running' = current
        /\ UNCHANGED <<current, backup, script>>
    BY <1>5 DEF Start, Launch
  <2>2. Update!Start
    BY <2>1 DEF Update!Start, Version, Aside, Phase
  <2> QED
    BY <2>2 DEF Update!Next
<1> QED
  BY <1>1, <1>2, <1>3, <1>4, <1>5

\* The script commits by the launch of the new version, and before that aborts.
LEMMA ScriptUpdates ==
  ASSUME ScriptInv, ReadyInv, PackageInv,
         \/ GivesUp \/ RemovesBackup \/ MovesAside \/ CannotMove \/ Copies \/ Launches
         \/ DoesNotStart \/ DropsBackup \/ Succeeds \/ RemovesNew \/ Restores
         \/ CannotRestore
  PROVE  [Update!Next]_(Update!vars)
<1>1. CASE GivesUp \/ CannotMove
  <2>1. /\ script \in {"waiting", "moving"} /\ script' = "none" /\ current \in Working
        /\ UNCHANGED <<running, current, backup>>
    BY <1>1 DEF GivesUp, CannotMove, CleanUp, memory, ScriptInv
  <2>2. Update!Abort
    BY <2>1 DEF Update!Abort, Version, Aside, Phase
  <2> QED
    BY <2>2 DEF Update!Next
<1>2. CASE RemovesBackup
  <2>1. /\ script = "waiting" /\ script' = "moving" /\ current \in Working
        /\ UNCHANGED <<running, current>>
    BY <1>2 DEF RemovesBackup, Quiet, memory, ScriptInv
  <2> QED
    BY <2>1 DEF Update!vars, Version, Aside, Phase
<1>3. CASE MovesAside
  <2>1. /\ script = "moving" /\ script' = "copying" /\ current \in Working
        /\ backup' = current /\ running' = running
    BY <1>3 DEF MovesAside, Quiet, memory, ScriptInv
  <2> QED
    BY <2>1 DEF Update!vars, Version, Aside, Phase
<1>4. CASE Copies \/ DoesNotStart \/ RemovesNew
  <2>1. /\ Aside /\ Aside' /\ UNCHANGED <<running, backup>>
    BY <1>4 DEF Copies, DoesNotStart, RemovesNew, Quiet, memory, Aside
  <2> QED
    BY <2>1 DEF Update!vars, Version, Aside, Phase
<1>5. CASE Launches
  <2>1. /\ script = "launching" /\ script' = "finishing" /\ running = "none"
        /\ UNCHANGED <<current, backup>>
        /\ current \in Working => current = "new"
        /\ running' \in {"none", current} /\ (current \notin Working => running' = "none")
    BY <1>5 DEF Launches, Launch, PackageInv, Working, ScriptInv, memory
  <2>2. CASE current \in Working
    <3>1. Update!Commit
      BY <2>1, <2>2 DEF Update!Commit, Version, Aside, Phase
    <3> QED
      BY <3>1 DEF Update!Next
  <2>3. CASE current \notin Working
    <3>1. Update!Botch
      BY <2>1, <2>3 DEF Update!Botch, Version, Aside, Phase
    <3> QED
      BY <3>1 DEF Update!Next
  <2> QED
    BY <2>2, <2>3
<1>6. CASE DropsBackup
  <2>1. /\ script = "finishing" /\ script' = script /\ backup' = "none"
        /\ UNCHANGED <<running, current>>
    BY <1>6 DEF DropsBackup, Quiet, memory
  <2>2. CASE current \in Working
    BY <2>1, <2>2 DEF Update!vars, Version, Aside, Phase
  <2>3. CASE current \notin Working
    <3>1. Update!Lose
      BY <2>1, <2>3 DEF Update!Lose, Version, Aside, Phase
    <3> QED
      BY <3>1 DEF Update!Next
  <2> QED
    BY <2>2, <2>3
<1>7. CASE Succeeds
  <2>1. script = "finishing" /\ script' = "none" /\ UNCHANGED <<running, current, backup>>
    BY <1>7 DEF Succeeds, CleanUp, memory
  <2>2. CASE current \in Working
    <3>1. Update!Settle
      BY <2>1, <2>2 DEF Update!Settle, Version, Aside, Phase
    <3> QED
      BY <3>1 DEF Update!Next
  <2>3. CASE current \notin Working
    <3>1. Update!SettleBotched
      BY <2>1, <2>3 DEF Update!SettleBotched, Version, Aside, Phase
    <3> QED
      BY <3>1 DEF Update!Next
  <2> QED
    BY <2>2, <2>3
<1>8. CASE Restores
  <2>1. /\ script = "restoring" /\ script' = "none" /\ backup \in Working
        /\ current' = backup /\ running' = backup
    BY <1>8 DEF Restores, Launch, CleanUp, ScriptInv
  <2>2. Update!Abort
    BY <2>1 DEF Update!Abort, Version, Aside, Phase
  <2> QED
    BY <2>2 DEF Update!Next
<1>9. CASE CannotRestore
  <2>1. /\ script = "restoring" /\ script' = "none" /\ running = "none"
        /\ UNCHANGED <<running, current, backup>>
    BY <1>9 DEF CannotRestore, memory, ScriptInv
  <2>2. Version = backup /\ Version' \in {Version, "new"}
    BY <2>1 DEF Version, Aside, PackageInv, Working
  <2>3. Update!Strand
    BY <2>1, <2>2 DEF Update!Strand, Update!Interrupted, Phase
  <2> QED
    BY <2>3 DEF Update!Next
<1> QED
  BY <1>1, <1>2, <1>3, <1>4, <1>5, <1>6, <1>7, <1>8, <1>9

\* The update script implements AtomicUpdate: whatever it moves, copies and removes, and
\* wherever power fails, the version a user has is the one from before or the new one;
\* it is lost only by an update that took what it put there for working when it was not.
THEOREM UpdateIsAtomic == Spec => ImplementsAtomicUpdate
<1>1. Init => Update!Init /\ PackageInv
  BY DEF Init, Update!Init, PackageInv, Version, Aside, Phase, Working
<1>2. ScriptInv /\ ReadyInv /\ PackageInv /\ [Next]_vars => [Update!Next]_(Update!vars)
  <2> SUFFICES ASSUME ScriptInv, ReadyInv, PackageInv, [Next]_vars
               PROVE  [Update!Next]_(Update!vars)
    OBVIOUS
  <2>1. CASE UNCHANGED vars
    BY <2>1, NoUpdate DEF vars, memory, scriptVars
  <2>2. CASE Next
    BY <2>2, TaskUpdates, ProcessUpdates, ScriptUpdates DEF Next
  <2> QED
    BY <2>1, <2>2
<1> QED
  BY <1>1, <1>2, NextPackage, ReadyInvariant, PTL
     DEF Spec, ImplementsAtomicUpdate, Update!Spec

\* An application that runs is the installed one: no process of a version that was
\* replaced, or taken back, is left (the script waits for it, and launches after it).
THEOREM InstalledRuns == Spec => [](running \in {"none", Version})
<1> DEFINE Installed == running \in {"none", Version} /\ (Phase = "botched" => running = "none")
<1>1. Update!Init => Installed
  BY DEF Update!Init
<1>2. Installed /\ [Update!Next]_(Update!vars) => Installed'
  BY DEF Update!Next, Update!vars, Update!Start, Update!Quit, Update!Begin, Update!Commit,
         Update!Abort, Update!Settle, Update!Botch, Update!Lose, Update!SettleBotched,
         Update!Strand, Update!Interrupted, Update!PowerLoss
<1>3. Installed => running \in {"none", Version}
  OBVIOUS
<1> QED
  BY <1>1, <1>2, <1>3, UpdateIsAtomic, PTL DEF ImplementsAtomicUpdate, Update!Spec

-----------------------------------------------------------------------------
(* Downloads that are not disturbed *)

\* No check, resumption or cancellation comes to its end while a download is at work,
\* unless the process does.
EndsAlone ==
    \A t \in Tasks :
        pc[t] \in {"checking", "resuming", "unwinding"} /\ pc'[t] # pc[t]
            => Downloading = {} \/ running' # running

\* A coroutine that downloads is the one known as the download task, the status says
\* that it does, and no two ever did at a time.
Undisturbed ==
    /\ Standing
    /\ \A t \in Downloading : task = t /\ status = "DOWNLOADING"
    /\ "overlapping" \notin doubts

\* While nothing downloads, a coroutine that goes elsewhere than to a download leaves it
\* so; and no removal of the file brings up a doubt of an overlap.
LEMMA NoneBegins ==
  ASSUME Standing, Downloading = {}, NEW t \in Tasks, NEW p \in Places \ {"connecting", "reading"},
         pc' = [pc EXCEPT ![t] = p]
  PROVE  Standing' /\ Downloading' = {}
  BY DEF Standing, Downloading, Places

LEMMA OneEnds ==
  ASSUME Undisturbed, NEW t \in Tasks, t \in Downloading \/ Downloading = {},
         NEW p \in Places \ {"connecting", "reading"}, pc' = [pc EXCEPT ![t] = p]
  PROVE  Standing' /\ Downloading' = {}
  BY DEF Undisturbed, Standing, Downloading, Places

LEMMA RemainingApart ==
  ASSUME "overlapping" \notin doubts, NEW described
  PROVE  "overlapping" \notin Remaining(described)
  BY DEF Remaining

\* A download begins only where there is none.
LEMMA DownloadAlone ==
  ASSUME Undisturbed, NEW t \in Tasks, t \notin Downloading, NEW st,
         Downloading # {} => st = "DOWNLOADING" /\ status = st, DownloadFrom(t, st)
  PROVE  Undisturbed'
<1>1. CASE HasCached(st)
  <2>1. Downloading = {}
    BY <1>1 DEF HasCached
  <2>2. pc' = [pc EXCEPT ![t] = "idle"] /\ doubts' = doubts
    BY <1>1 DEF DownloadFrom, End
  <2>3. Standing' /\ Downloading' = {}
    BY <2>1, <2>2, NoneBegins DEF Undisturbed, Places
  <2> QED
    BY <2>2, <2>3 DEF Undisturbed
<1>2. CASE ~HasCached(st) /\ st = "DOWNLOADING"
  <2>1. pc' = [pc EXCEPT ![t] = "idle"] /\ status' = st /\ UNCHANGED <<task, doubts>>
    BY <1>2 DEF DownloadFrom, End
  <2>2. Standing' /\ Downloading' = Downloading
    BY <2>1 DEF Undisturbed, Standing, Downloading, Places
  <2> QED
    BY <1>2, <2>1, <2>2 DEF Undisturbed
<1>3. CASE ~HasCached(st) /\ st # "DOWNLOADING"
  <2>1. PICK f : Begin(t, f)
    BY <1>3 DEF DownloadFrom
  <2>2. Downloading = {}
    BY <1>3
  <2>3. CASE f # None /\ release.sized /\ Len(f) >= Size
    <3>1. /\ pc' = [pc EXCEPT ![t] = "idle"]
          /\ doubts' = (doubts \ {"outlived"}) \cup {"taken by size"}
      BY <2>1, <2>3 DEF Begin, End
    <3>2. Standing' /\ Downloading' = {}
      BY <2>2, <3>1, NoneBegins DEF Undisturbed, Places
    <3> QED
      BY <3>1, <3>2 DEF Undisturbed
  <2>4. CASE ~(f # None /\ release.sized /\ Len(f) >= Size)
    <3>1. /\ pc' = [pc EXCEPT ![t] = "connecting"] /\ task' = t /\ status' = "DOWNLOADING"
          /\ doubts' \in {doubts, {}}
      BY <2>1, <2>2, <2>4 DEF Begin
    <3>2. Standing' /\ Downloading' = {t}
      BY <2>2, <3>1 DEF Undisturbed, Standing, Downloading, Places
    <3> QED
      BY <3>1, <3>2 DEF Undisturbed
  <2> QED
    BY <2>3, <2>4
<1> QED
  BY <1>1, <1>2, <1>3

\* A coroutine's step leaves the download of another alone.
LEMMA TaskAlone ==
  ASSUME Undisturbed, NEW t \in Tasks, EndsAlone,
         \/ Download(t) \/ Fails(t) \/ Resumes(t) \/ Restarts(t) \/ Chunk(t) \/ Eof(t)
         \/ Unwind(t) \/ Check(t) \/ StartUpCheck(t) \/ CheckEnds(t) \/ Offered(t) \/ ResumeEnds(t)
  PROVE  Undisturbed'
<1>0. running' = running
  BY DEF Download, Fails, Resumes, Restarts, Chunk, Eof, Unwind, Check, StartUpCheck, Comes,
         CheckEnds, Offered, ResumeEnds, DownloadFrom, Finish, memory
<1>1. ASSUME t \in Downloading \/ Downloading = {}, NEW st, Finish(t, st),
             "overlapping" \notin doubts'
      PROVE  Undisturbed'
  <2>1. pc' = [pc EXCEPT ![t] = "idle"]
    BY <1>1 DEF Finish, End
  <2>2. Standing' /\ Downloading' = {}
    BY <1>1, <2>1, OneEnds DEF Places
  <2> QED
    BY <1>1, <2>2 DEF Undisturbed
<1>2. ASSUME pc[t] \in {"checking", "resuming", "unwinding"}, pc' = [pc EXCEPT ![t] = "idle"]
      PROVE  Downloading = {} /\ Standing' /\ Downloading' = {}
  <2>1. pc'[t] # pc[t]
    BY <1>2 DEF Undisturbed, Standing
  <2>2. Downloading = {}
    BY <1>0, <1>2, <2>1 DEF EndsAlone
  <2> QED
    BY <1>2, <2>2, NoneBegins DEF Undisturbed, Places
<1>3. CASE Download(t)
  <2>1. t \notin Downloading /\ DownloadFrom(t, status)
    BY <1>3 DEF Download, Downloading
  <2>2. Downloading # {} => status = "DOWNLOADING"
    BY DEF Undisturbed
  <2> QED
    BY <2>1, <2>2, DownloadAlone
<1>4. CASE Fails(t)
  BY <1>1, <1>4 DEF Fails, Undisturbed
<1>5. CASE Resumes(t) \/ Restarts(t)
  <2>1. /\ pc[t] = "connecting" /\ pc' = [pc EXCEPT ![t] = "reading"]
        /\ UNCHANGED <<task, status, doubts>>
    BY <1>5 DEF Resumes, Restarts, memory
  <2>2. Standing' /\ Downloading' = Downloading
    BY <2>1 DEF Undisturbed, Standing, Downloading, Places
  <2> QED
    BY <2>1, <2>2 DEF Undisturbed
<1>6. CASE Chunk(t)
  <2>1. t \in Downloading /\ doubts' = doubts
    BY <1>6 DEF Chunk, Downloading
  <2>2. CASE cancelled
    BY <1>1, <1>6, <2>1, <2>2 DEF Chunk, Undisturbed
  <2>3. CASE ~cancelled
    <3>1. status' = "DOWNLOADING" /\ UNCHANGED <<pc, task>>
      BY <1>6, <2>3 DEF Chunk
    <3> QED
      BY <2>1, <3>1 DEF Undisturbed, Standing, Downloading
  <2> QED
    BY <2>2, <2>3
<1>7. CASE Eof(t)
  <2>1. t \in Downloading
    BY <1>7 DEF Eof, Downloading
  <2>2. "overlapping" \notin doubts'
    <3>1. doubts' = doubts \ {"outlived"} \/ doubts' = Remaining(cached \/ meta)
      BY <1>7 DEF Eof
    <3> QED
      BY <3>1, RemainingApart DEF Undisturbed
  <2>3. Finish(t, "DOWNLOADED") \/ Finish(t, "ERROR")
    BY <1>7 DEF Eof
  <2> QED
    BY <1>1, <2>1, <2>2, <2>3
<1>8. CASE Unwind(t)
  <2>1. /\ pc[t] = "unwinding" /\ pc' = [pc EXCEPT ![t] = "idle"] /\ doubts' = doubts
    BY <1>8 DEF Unwind, Finish, End
  <2> QED
    BY <1>2, <2>1 DEF Undisturbed
<1>9. CASE Check(t) \/ StartUpCheck(t)
  <2>1. /\ pc[t] = "idle" /\ task' = task
        /\ \/ pc' = pc
           \/ pc' = [pc EXCEPT ![t] = "checking"]
           \/ pc' = [pc EXCEPT ![t] = "resuming"]
        /\ status = "DOWNLOADING" => UNCHANGED <<status, pc, doubts>>
        /\ ClearCache \/ doubts' = doubts
    BY <1>9, CheckShape
  <2>2. CASE Downloading # {}
    <3>1. UNCHANGED <<status, pc, doubts, task>>
      BY <2>1, <2>2 DEF Undisturbed
    <3> QED
      BY <3>1 DEF Undisturbed, Standing, Downloading
  <2>3. CASE Downloading = {}
    <3>1. \E p \in {"idle", "checking", "resuming"} : pc' = [pc EXCEPT ![t] = p]
      <4>1. pc = [pc EXCEPT ![t] = "idle"]
        BY <2>1 DEF Undisturbed, Standing
      <4> QED
        BY <2>1, <4>1
    <3>2. Standing' /\ Downloading' = {}
      BY <2>3, <3>1, NoneBegins DEF Undisturbed, Places
    <3>3. doubts' = doubts \/ doubts' = Remaining(FALSE)
      BY <2>1 DEF ClearCache
    <3>4. "overlapping" \notin doubts'
      BY <3>3, RemainingApart DEF Undisturbed
    <3> QED
      BY <3>2, <3>4 DEF Undisturbed
  <2> QED
    BY <2>2, <2>3
<1>10. CASE CheckEnds(t)
  <2>1. pc[t] = "checking" /\ pc' = [pc EXCEPT ![t] = "idle"] /\ doubts' = doubts
    BY <1>10 DEF CheckEnds, End
  <2> QED
    BY <1>2, <2>1 DEF Undisturbed
<1>11. CASE Offered(t)
  <2>1. pc[t] = "checking" /\ t \notin Downloading
    BY <1>11 DEF Offered, Downloading
  <2>2. CASE ~release.auto
    <3>1. pc' = [pc EXCEPT ![t] = "idle"] /\ doubts' = doubts
      BY <1>11, <2>2 DEF Offered, End
    <3> QED
      BY <1>2, <2>1, <3>1 DEF Undisturbed
  <2>3. CASE release.auto
    <3>1. DownloadFrom(t, "AVAILABLE")
      BY <1>11, <2>3 DEF Offered
    <3>2. \E p \in {"idle", "connecting"} : pc' = [pc EXCEPT ![t] = p]
      BY <3>1 DEF DownloadFrom, Begin, End
    <3>3. pc'[t] # pc[t]
      BY <2>1, <3>2 DEF Undisturbed, Standing
    <3>4. Downloading = {}
      BY <1>0, <2>1, <3>3 DEF EndsAlone
    <3> QED
      BY <2>1, <3>1, <3>4, DownloadAlone
  <2> QED
    BY <2>2, <2>3
<1>12. CASE ResumeEnds(t)
  <2>1. pc[t] = "resuming" /\ pc' = [pc EXCEPT ![t] = "idle"]
    BY <1>12 DEF ResumeEnds, End
  <2>2. doubts' = doubts \/ doubts' = Remaining(FALSE)
    BY <1>12 DEF ResumeEnds, ClearCache
  <2>3. "overlapping" \notin doubts'
    BY <2>2, RemainingApart DEF Undisturbed
  <2> QED
    BY <1>2, <2>1, <2>3 DEF Undisturbed
<1> QED
  BY <1>3, <1>4, <1>5, <1>6, <1>7, <1>8, <1>9, <1>10, <1>11, <1>12

\* So do the user, the process and the script.
LEMMA OtherAlone ==
  ASSUME Undisturbed,
         \/ Cancel \/ Install \/ Quit \/ PowerLoss \/ Start
         \/ GivesUp \/ RemovesBackup \/ MovesAside \/ CannotMove \/ Copies \/ Launches
         \/ DoesNotStart \/ DropsBackup \/ Succeeds \/ RemovesNew \/ Restores
         \/ CannotRestore
  PROVE  Undisturbed'
<1>1. CASE Cancel
  <2>1. PICK t \in Downloading : task = t
    BY <1>1 DEF Cancel, Undisturbed
  <2>2. t \in Tasks /\ t # None
    BY <2>1, UpdateAssumption DEF Downloading
  <2>3. pc' = [pc EXCEPT ![t] = "unwinding"] /\ doubts' = doubts
    BY <1>1, <2>1, <2>2 DEF Cancel
  <2>4. Standing' /\ Downloading' = {}
    BY <2>1, <2>2, <2>3, OneEnds DEF Places
  <2> QED
    BY <2>3, <2>4 DEF Undisturbed
<1>2. CASE Install
  <2>1. Downloading = {} /\ pc' = pc
    BY <1>2 DEF Install, HasCached, Undisturbed
  <2>2. doubts' = doubts \/ doubts' = Remaining(FALSE)
    BY <1>2 DEF Install, ClearCache
  <2>3. "overlapping" \notin doubts'
    BY <2>2, RemainingApart DEF Undisturbed
  <2> QED
    BY <2>1, <2>3 DEF Undisturbed, Standing, Downloading
<1>3. CASE Quit \/ PowerLoss
  <2>1. pc' = [t \in Tasks |-> "idle"] /\ doubts' \in {doubts, doubts \ {"outlived"}}
    BY <1>3 DEF Quit, PowerLoss, Gone
  <2> QED
    BY <2>1 DEF Undisturbed, Standing, Downloading, Places
<1>4. CASE \/ Start \/ GivesUp \/ RemovesBackup \/ MovesAside \/ CannotMove \/ Copies
           \/ Launches \/ DoesNotStart \/ DropsBackup \/ Succeeds \/ RemovesNew \/ Restores
           \/ CannotRestore
  <2>1. UNCHANGED <<status, task, pc>>
    BY <1>4 DEF Start, GivesUp, RemovesBackup, MovesAside, CannotMove, Copies, Launches,
                DoesNotStart, DropsBackup, Succeeds, RemovesNew, Restores, CannotRestore,
                Runs, Quiet, Launch, memory, coroutines
  <2>2. doubts' = doubts \/ doubts' = Remaining(cached')
    BY <1>4 DEF Start, GivesUp, RemovesBackup, MovesAside, CannotMove, Copies, Launches,
                DoesNotStart, DropsBackup, Succeeds, RemovesNew, Restores, CannotRestore, CleanUp, Quiet
  <2>3. "overlapping" \notin doubts'
    BY <2>2, RemainingApart DEF Undisturbed
  <2> QED
    BY <2>1, <2>3 DEF Undisturbed, Standing, Downloading
<1> QED
  BY <1>1, <1>2, <1>3, <1>4

\* The flaw OneDownload shows has three sources, the end of a check, of a resumption or
\* of a cancellation that overwrites the status of a download at work, and no other:
\* without them one coroutine downloads at a time, and the doubt about overlapping
\* downloads that ReadyIsWhole names never arises.
THEOREM OneDownloadUndisturbed ==
  Spec /\ [][EndsAlone]_vars => [](OneDownload /\ "overlapping" \notin doubts)
<1>1. Init => Undisturbed
  BY DEF Init, Undisturbed, Standing, Downloading, Places
<1>2. Undisturbed /\ [Next]_vars /\ [EndsAlone]_vars => Undisturbed'
  <2> SUFFICES ASSUME Undisturbed, [Next]_vars, [EndsAlone]_vars PROVE Undisturbed'
    OBVIOUS
  <2>1. CASE UNCHANGED vars
    BY <2>1 DEF vars, memory, coroutines, Undisturbed, Standing, Downloading
  <2>2. CASE Next /\ EndsAlone
    BY <2>2, TaskAlone, OtherAlone DEF Next
  <2> QED
    BY <2>1, <2>2
<1>3. Undisturbed => OneDownload /\ "overlapping" \notin doubts
  BY DEF Undisturbed, OneDownload
<1> QED
  BY <1>1, <1>2, <1>3, PTL DEF Spec
=============================================================================
