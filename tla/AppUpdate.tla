------------------------------ MODULE AppUpdate ------------------------------
(***************************************************************************)
(* The self-update of the desktop application (AutoUpdateManager): looking *)
(* for a release, downloading its package into a cache that survives       *)
(* restarts, and the detached script that replaces the executable once the *)
(* application has exited (the Linux one).                                 *)
(*                                                                         *)
(* Checks and downloads are coroutines of the GUI's event loop; they       *)
(* suspend while they wait for the server.  The start-up check, the        *)
(* settings page and the notification card each start their own.  The      *)
(* process can be closed, and the machine switched off, between any two    *)
(* steps.  A package is a sequence of pieces; 0 is a piece that is wrong.  *)
(***************************************************************************)
EXTENDS Naturals, Sequences

CONSTANTS
    Tasks,   \* the coroutines that check and download
    Size,    \* the pieces of the package
    None

Whole == [i \in 1 .. Size |-> i]

ASSUME UpdateAssumption == Size \in Nat \ {0} /\ None \notin Tasks /\ None # Whole

Working == {"old", "new"}

VARIABLES
    release,     \* the server's answer: is a size given, a checksum, is the package
                 \* an archive; and ota.auto_download (never altered)
    running,     \* the version of the process that runs, or "none"
    fresh,       \* it has not made its start-up check yet
    status,      \* AutoUpdateManager._status
    known,       \* _current_update is set: an offer is on the screen
    cached,      \* _cache is set
    cancelled,   \* _cancelled
    task,        \* _download_task
    pc,          \* where a coroutine stands
    pos,         \* the number of pieces it resumes after, then of pieces it received
    mode,        \* how it opened the file: "append", "rewrite", or "gone" once the
                 \* file it has open has been removed from the directory
    file,        \* the package on disk, or None
    meta,        \* cache.json is on disk
    current,     \* the installed executable
    backup,      \* the executable kept beside it, or "none"
    script,      \* where the update script stands, or "none"
    waits,       \* the process the script waits for still runs
    package,     \* the executable the script will put in place
    outcome,     \* history: how the last script ended, the version before it, and
                 \* whether it misjudged an executable that does not work as started
    doubts       \* history: why the file need not be what the cache says of it:
                 \* two downloads were "overlapping", it was "taken by size", or the
                 \* cache's description "outlived" the file it was of

Undecided(version) == [how |-> "none", before |-> version, misjudged |-> FALSE]

memory == <<running, fresh, status, known, cached, cancelled, task>>
coroutines == <<pc, pos, mode>>
disk == <<file, meta>>
scriptVars == <<current, backup, script, waits, package, outcome>>
vars == <<release, memory, coroutines, disk, scriptVars, doubts>>

Init ==
    /\ release \in [sized : BOOLEAN, checksum : BOOLEAN, archive : BOOLEAN, auto : BOOLEAN]
    /\ running = "old"
    /\ fresh = TRUE
    /\ status = "IDLE"
    /\ known = FALSE
    /\ cached = FALSE
    /\ cancelled = FALSE
    /\ task = None
    /\ pc = [t \in Tasks |-> "idle"]
    /\ pos = [t \in Tasks |-> 0]
    /\ mode = [t \in Tasks |-> "append"]
    /\ file = None
    /\ meta = FALSE
    /\ current = "old"
    /\ backup = "none"
    /\ script = "none"
    /\ waits = FALSE
    /\ package = "none"
    /\ outcome = Undecided("old")
    /\ doubts = {}

-----------------------------------------------------------------------------
(* The package and the cache *)

Downloading == {t \in Tasks : pc[t] \in {"connecting", "reading"}}

\* _is_valid_archive looks at the directory at the archive's end and ignores what
\* the test of its members says; a file that is no archive is always valid.
Valid(f) == release.archive => Len(f) >= Size /\ f[Len(f)] = Size

\* has_partial_cache, for a file that is not valid.
Partial(f) == Len(f) > 0 /\ Len(f) < Size

\* has_cached_update when the status is st; and when it clears the cache instead.
HasCached(st) == cached /\ st # "DOWNLOADING" /\ file # None /\ Valid(file)
Corrupt(st) == cached /\ st # "DOWNLOADING" /\ file # None /\ ~Valid(file) /\ ~Partial(file)

\* Removing the package leaves those who have it open with a file nobody sees.
Orphaned == [t \in Tasks |-> IF pc[t] = "reading" THEN "gone" ELSE mode[t]]

\* The doubts that remain when the file is removed, and whether it leaves a description.
Remaining(described) ==
    (IF Downloading = {} THEN {} ELSE doubts \cap {"overlapping"})
        \cup (IF described THEN {"outlived"} ELSE {})

\* clear_cache.
ClearCache ==
    /\ cached' = FALSE
    /\ meta' = FALSE
    /\ IF cached
       THEN file' = None /\ mode' = Orphaned /\ doubts' = Remaining(FALSE)
       ELSE UNCHANGED <<file, mode, doubts>>

End(t) == pc' = [pc EXCEPT ![t] = "idle"]

-----------------------------------------------------------------------------
(* Downloads *)

\* The rest of download_update and the beginning of _do_download, on the file f: up
\* to the request.  A file as long as the size the server gave is taken as it is.
Begin(t, f) ==
    /\ cancelled' = FALSE
    /\ file' = f
    /\ mode' = IF f = file THEN mode ELSE Orphaned
    /\ IF f # None /\ release.sized /\ Len(f) >= Size
       THEN /\ status' = "DOWNLOADED"
            /\ cached' = TRUE
            /\ meta' = TRUE
            /\ task' = None
            /\ doubts' = (doubts \ {"outlived"}) \cup {"taken by size"}
            /\ End(t)
            /\ UNCHANGED pos
       ELSE /\ status' = "DOWNLOADING"
            /\ cached' = (cached /\ f = file)
            /\ meta' = (meta /\ f = file)
            /\ task' = t
            /\ doubts' = (IF f = file THEN doubts ELSE {})
                          \cup (IF Downloading = {} THEN {} ELSE {"overlapping"})
            /\ pc' = [pc EXCEPT ![t] = "connecting"]
            /\ pos' = [pos EXCEPT ![t] = IF f = None THEN 0 ELSE Len(f)]

\* download_update by t when the status is st, up to its first wait.
DownloadFrom(t, st) ==
    /\ known' = TRUE
    /\ UNCHANGED <<release, running, fresh, scriptVars>>
    /\ IF HasCached(st) \/ st = "DOWNLOADING"
       THEN /\ status' = IF HasCached(st) THEN "DOWNLOADED" ELSE st
            /\ End(t)
            /\ UNCHANGED <<cached, cancelled, task, pos, mode, disk, doubts>>
       ELSE Begin(t, IF Corrupt(st) THEN None ELSE file)

\* The user takes an offer: a dialog's or the card's Download.  While a script is at
\* work the window is covered or closing, or has just opened.
Download(t) ==
    /\ running # "none"
    /\ known
    /\ pc[t] = "idle"
    /\ script = "none"
    /\ DownloadFrom(t, status)

\* t's download ends with status st, the file being what the step leaves there; its
\* finally clause forgets the download task.
Finish(t, st) ==
    /\ End(t)
    /\ status' = st
    /\ task' = None
    /\ pos' = [pos EXCEPT ![t] = 0]
    /\ mode' = [(IF file' = None THEN Orphaned ELSE mode) EXCEPT ![t] = "append"]
    /\ UNCHANGED <<release, running, fresh, known, cancelled, scriptVars>>

\* The request or the connection fails, as does a request for what lies beyond the
\* end; the file stays.  The mutant leaves the status to whoever looks at it next.
FailsSilently(t) ==
    /\ t \in Downloading
    /\ UNCHANGED <<cached, disk, doubts>>
    /\ Finish(t, status)
Fails(t) ==
    /\ t \in Downloading
    /\ UNCHANGED <<cached, disk, doubts>>
    /\ Finish(t, "ERROR")

\* The server goes on after the pieces there are (206), and they are kept ...
Resumes(t) ==
    /\ pc[t] = "connecting"
    /\ 0 < pos[t] /\ pos[t] < Size
    /\ pc' = [pc EXCEPT ![t] = "reading"]
    /\ mode' = [mode EXCEPT ![t] = "append"]
    /\ file' = IF file = None THEN <<>> ELSE file
    /\ UNCHANGED <<release, memory, pos, meta, scriptVars, doubts>>

\* ... or sends the package from its start (200), and the file is emptied.
Restarts(t) ==
    /\ pc[t] = "connecting"
    /\ pc' = [pc EXCEPT ![t] = "reading"]
    /\ pos' = [pos EXCEPT ![t] = 0]
    /\ mode' = [mode EXCEPT ![t] = "rewrite"]
    /\ file' = <<>>
    /\ UNCHANGED <<release, memory, meta, scriptVars, doubts>>

\* The file once t has written piece p, at its end or after the pieces t received.
Written(t, p) ==
    CASE mode[t] = "gone" -> file
      [] mode[t] = "append" -> Append(file, p)
      [] mode[t] = "rewrite" ->
            [i \in 1 .. (IF Len(file) > pos[t] THEN Len(file) ELSE pos[t] + 1) |->
                IF i = pos[t] + 1 THEN p ELSE IF i <= Len(file) THEN file[i] ELSE 0]

\* The stream has more pieces; the mutant goes on after the last one.
MoreAfterLast(t) == pos[t] <= Size
More(t) == pos[t] < Size

\* A piece arrives, right or wrong; a cancelled download stops at it instead.
Chunk(t) ==
    /\ pc[t] = "reading"
    /\ More(t)
    /\ IF cancelled
       THEN /\ UNCHANGED file
            /\ Finish(t, "CANCELLED")
       ELSE /\ \E p \in {pos[t] + 1, 0} : file' = Written(t, p)
            /\ status' = "DOWNLOADING"
            /\ pos' = [pos EXCEPT ![t] = @ + 1]
            /\ UNCHANGED <<release, running, fresh, known, cancelled, task, pc, mode, scriptVars>>
    /\ UNCHANGED <<cached, meta, doubts>>

\* Does what is on disk pass the checksum and the look at the archive?  The mutant
\* does not compute the checksum.
AcceptedUnsummed == file # None /\ Valid(file)
Accepted ==
    /\ file # None
    /\ release.checksum => file = Whole
    /\ Valid(file)

\* The last piece is followed by the end of the stream: the package is verified and
\* filed in the cache, or removed.
Eof(t) ==
    /\ pc[t] = "reading"
    /\ pos[t] = Size
    /\ IF Accepted
       THEN /\ cached' = TRUE
            /\ meta' = TRUE
            /\ doubts' = doubts \ {"outlived"}
            /\ UNCHANGED file
            /\ Finish(t, "DOWNLOADED")
       ELSE /\ file' = None
            /\ Finish(t, "ERROR")
            /\ doubts' = Remaining(cached \/ meta)
            /\ UNCHANGED <<cached, meta>>

\* cancel_download: the coroutine known as the download task will be interrupted.
Cancel ==
    /\ Downloading # {}
    /\ cancelled' = TRUE
    /\ status' = "CANCELLED"
    /\ pc' = IF task # None THEN [pc EXCEPT ![task] = "unwinding"] ELSE pc
    /\ UNCHANGED <<release, running, fresh, known, cached, task, pos, mode,
                   disk, scriptVars, doubts>>

\* CancelledError reaches download_update.
Unwind(t) ==
    /\ pc[t] = "unwinding"
    /\ UNCHANGED <<cached, disk, doubts>>
    /\ Finish(t, "CANCELLED")

-----------------------------------------------------------------------------
(* Checks *)

\* The end of check_for_update's beginning: the request, unless a check or a download
\* is under way.
Asks(t) ==
    IF status \in {"CHECKING", "DOWNLOADING"}
    THEN UNCHANGED <<status, pc>>
    ELSE status' = "CHECKING" /\ pc' = [pc EXCEPT ![t] = "checking"]

\* A cache whose file is worth nothing goes before it is looked at again.
DropsCorrupt ==
    IF Corrupt(status) THEN ClearCache ELSE UNCHANGED <<cached, disk, mode, doubts>>

\* A coroutine comes to check.  While a script is at work it does not: see Download.
Comes(t) ==
    /\ running # "none"
    /\ pc[t] = "idle"
    /\ script = "none"
    /\ UNCHANGED <<release, running, cancelled, task, pos, scriptVars>>

\* check_for_update up to the request, from the settings page.  A good cached package
\* ends it, unless it is too old and is cleared.
Check(t) ==
    /\ Comes(t)
    /\ status \notin {"CHECKING", "DOWNLOADING"}
    /\ UNCHANGED fresh
    /\ \/ /\ HasCached(status)
          /\ known' = TRUE
          /\ UNCHANGED <<status, cached, pc, disk, mode, doubts>>
       \/ /\ IF HasCached(status) THEN ClearCache ELSE DropsCorrupt
          /\ Asks(t)
          /\ UNCHANGED known

\* start_auto_check, once per start, up to its first request.  It takes a good cached
\* package, or a piece of one, whatever the status is.
StartUpCheck(t) ==
    /\ Comes(t)
    /\ fresh
    /\ fresh' = FALSE
    /\ \/ /\ HasCached(status)
          /\ known' = TRUE
          /\ status' = "DOWNLOADED"
          /\ UNCHANGED <<cached, pc, disk, mode, doubts>>
       \/ /\ HasCached(status)
          /\ ClearCache
          /\ Asks(t)
          /\ UNCHANGED known
       \/ /\ ~HasCached(status)
          /\ DropsCorrupt
          /\ IF cached' /\ file # None /\ status # "DOWNLOADING"
             THEN pc' = [pc EXCEPT ![t] = "resuming"] /\ UNCHANGED status
             ELSE Asks(t)
          /\ UNCHANGED known

\* The check fails, or there is nothing newer than the version that runs.
CheckEnds(t) ==
    /\ pc[t] = "checking"
    /\ End(t)
    /\ status' \in (IF running = "new" THEN {"ERROR", "IDLE"} ELSE {"ERROR"})
    /\ UNCHANGED <<release, running, fresh, known, cached, cancelled, task, pos, mode,
                   disk, scriptVars, doubts>>

\* There is a release: the status says so, whatever it was, and where the
\* configuration wants it the check goes on as a download.
Offered(t) ==
    /\ pc[t] = "checking"
    /\ running = "old"
    /\ IF release.auto
       THEN DownloadFrom(t, "AVAILABLE")
       ELSE /\ End(t)
            /\ status' = "AVAILABLE"
            /\ known' = TRUE
            /\ UNCHANGED <<release, running, fresh, cached, cancelled, task, pos, mode,
                           disk, scriptVars, doubts>>

\* _resume_partial_download reads the answer without its "data": no update, or an
\* error.
ResumeEnds(t) ==
    /\ pc[t] = "resuming"
    /\ End(t)
    /\ \/ ClearCache /\ status' = "IDLE"
       \/ status' = "ERROR" /\ UNCHANGED <<cached, mode, disk, doubts>>
    /\ UNCHANGED <<release, running, fresh, known, cancelled, task, pos, scriptVars>>

-----------------------------------------------------------------------------
(* Installing *)

\* install_update.  Unpacking finds a wrong piece of an archive; anything else is
\* staged as it is.  An error may have other reasons, and clears the cache only where its
\* kind and its text speak of an archive.
Install ==
    /\ running # "none"
    /\ script = "none"
    /\ HasCached(status)
    /\ UNCHANGED <<release, running, fresh, known, cancelled, task, pc, pos, current, backup>>
    /\ \/ /\ status' = "ERROR"
          /\ ClearCache \/ UNCHANGED <<cached, disk, mode, doubts>>
          /\ UNCHANGED <<script, waits, package, outcome>>
       \/ /\ ~release.archive \/ file = Whole
          /\ status' = "INSTALLING"
          /\ script' = "waiting"
          /\ waits' = TRUE
          /\ package' = IF file = Whole THEN "new" ELSE "broken"
          /\ outcome' = Undecided(current)
          /\ UNCHANGED <<cached, disk, mode, doubts>>

\* The process ends: all but the disk and the script is lost.
Gone ==
    /\ running' = "none"
    /\ fresh' = TRUE
    /\ status' = "IDLE"
    /\ known' = FALSE
    /\ cached' = FALSE
    /\ cancelled' = FALSE
    /\ task' = None
    /\ pc' = [t \in Tasks |-> "idle"]
    /\ pos' = [t \in Tasks |-> 0]
    /\ mode' = [t \in Tasks |-> "append"]
    /\ waits' = FALSE
    /\ doubts' = IF meta THEN doubts ELSE doubts \ {"outlived"}

Quit ==
    /\ running # "none"
    /\ Gone
    /\ UNCHANGED <<release, disk, current, backup, script, package, outcome>>

\* The machine goes down: the script as well.
PowerLoss ==
    /\ Gone
    /\ script' = "none"
    /\ package' = "none"
    /\ outcome' = IF script = "none" THEN outcome ELSE [outcome EXCEPT !.how = "killed"]
    /\ UNCHANGED <<release, disk, current, backup>>

\* A process starts from the executable and loads the cache's description.
Launch(exe) ==
    /\ running' = exe
    /\ cached' = meta
    /\ UNCHANGED <<fresh, status, known, cancelled, task>>

\* The user starts it, while no script is at work.
Start ==
    /\ running = "none"
    /\ script = "none"
    /\ current \in Working
    /\ Launch(current)
    /\ outcome' = Undecided(current)
    /\ UNCHANGED <<release, coroutines, disk, current, backup, script, waits, package, doubts>>

-----------------------------------------------------------------------------
(* The script *)

Runs == UNCHANGED <<release, pc, pos, waits>>
Quiet == UNCHANGED <<memory, mode, disk, package, doubts>>

\* cleanup_temp, as the last thing the script does.
CleanUp(how) ==
    /\ script' = "none"
    /\ package' = "none"
    /\ outcome' = [outcome EXCEPT !.how = how]
    /\ file' = None
    /\ meta' = FALSE
    /\ mode' = Orphaned
    /\ doubts' = Remaining(cached')

\* The application has not exited after 30 seconds.
GivesUp ==
    /\ script = "waiting"
    /\ waits
    /\ Runs
    /\ UNCHANGED <<memory, current, backup>>
    /\ CleanUp("gave up")

\* It has exited; what an earlier script left behind is removed.
RemovesBackup ==
    /\ script = "waiting"
    /\ ~waits
    /\ script' = "moving"
    /\ backup' = "none"
    /\ Runs /\ Quiet /\ UNCHANGED <<current, outcome>>

\* The executable is moved aside.
MovesAside ==
    /\ script = "moving"
    /\ script' = "copying"
    /\ backup' = current
    /\ current' = "none"
    /\ Runs /\ Quiet /\ UNCHANGED outcome

\* It cannot be moved; there is no backup to roll back to.
CannotMove ==
    /\ script = "moving"
    /\ Runs
    /\ UNCHANGED <<memory, current, backup>>
    /\ CleanUp("failed")

\* The new executable is copied, wholly or not.
Copies ==
    /\ script = "copying"
    /\ \/ current' = package /\ script' = "launching"
       \/ current' = "broken" /\ script' = "removing"
    /\ Runs /\ Quiet /\ UNCHANGED <<backup, outcome>>

\* It is launched, and within 30 seconds a process with its path in the command line
\* is found: its own, or its own before it ended, or another one.  An executable that does
\* not work does nothing in the moment it is there.
Launches ==
    /\ script = "launching"
    /\ script' = "finishing"
    /\ outcome' = [outcome EXCEPT !.misjudged = current \notin Working]
    /\ \/ current \in Working /\ Launch(current)
       \/ UNCHANGED memory
    /\ Runs /\ UNCHANGED <<mode, disk, doubts, package, current, backup>>

\* Or there is none, though the package was right perhaps.
DoesNotStart ==
    /\ script = "launching"
    /\ script' = "removing"
    /\ Runs /\ Quiet /\ UNCHANGED <<current, backup, outcome>>

\* The new version is taken to run: its predecessor goes.
DropsBackup ==
    /\ script = "finishing"
    /\ backup # "none"
    /\ backup' = "none"
    /\ Runs /\ Quiet /\ UNCHANGED <<script, current, outcome>>

Succeeds ==
    /\ script = "finishing"
    /\ backup = "none"
    /\ Runs
    /\ UNCHANGED <<memory, current, backup>>
    /\ CleanUp("updated")

\* rollback: remove what was put in place, if that can be removed, ...
RemovesNew ==
    /\ script = "removing"
    /\ script' = "restoring"
    /\ current' \in {current, "none"}
    /\ Runs /\ Quiet /\ UNCHANGED <<backup, outcome>>

\* ... move the backup back and launch it.  The mutant's clean-up comes without it.
RestoresNothing ==
    /\ script = "restoring"
    /\ UNCHANGED <<memory, current, backup>>
    /\ CleanUp("rolled back")
    /\ Runs
Restores ==
    /\ script = "restoring"
    /\ current' = backup
    /\ backup' = "none"
    /\ Launch(backup)
    /\ CleanUp("rolled back")
    /\ Runs

\* It cannot be moved back: the script exits where it stands, and cleans nothing up.
CannotRestore ==
    /\ script = "restoring"
    /\ script' = "none"
    /\ package' = "none"
    /\ outcome' = [outcome EXCEPT !.how = "stuck"]
    /\ Runs
    /\ UNCHANGED <<memory, mode, disk, doubts, current, backup>>

-----------------------------------------------------------------------------
Next ==
    \/ \E t \in Tasks :
        \/ Download(t) \/ Fails(t) \/ Resumes(t) \/ Restarts(t) \/ Chunk(t) \/ Eof(t)
        \/ Unwind(t) \/ Check(t) \/ StartUpCheck(t) \/ CheckEnds(t) \/ Offered(t)
        \/ ResumeEnds(t)
    \/ Cancel \/ Install \/ Quit \/ PowerLoss \/ Start
    \/ GivesUp \/ RemovesBackup \/ MovesAside \/ CannotMove \/ Copies \/ Launches
    \/ DoesNotStart \/ DropsBackup \/ Succeeds \/ RemovesNew \/ Restores
    \/ CannotRestore

Spec == Init /\ [][Next]_vars

-----------------------------------------------------------------------------
(* Properties *)

Statuses == {"IDLE", "CHECKING", "AVAILABLE", "DOWNLOADING", "DOWNLOADED",
             "INSTALLING", "ERROR", "CANCELLED"}
Executables == Working \cup {"broken", "none"}

\* Every variable has its type.
TypeOK ==
    /\ release \in [sized : BOOLEAN, checksum : BOOLEAN, archive : BOOLEAN, auto : BOOLEAN]
    /\ running \in Working \cup {"none"}
    /\ status \in Statuses
    /\ {fresh, known, cached, cancelled, meta, waits} \subseteq BOOLEAN
    /\ doubts \subseteq {"overlapping", "taken by size", "outlived"}
    /\ task \in Tasks \cup {None}
    /\ pc \in [Tasks -> {"idle", "connecting", "reading", "unwinding", "checking", "resuming"}]
    /\ pos \in [Tasks -> Nat]
    /\ mode \in [Tasks -> {"append", "rewrite", "gone"}]
    /\ file = None \/ file \in Seq(0 .. Size)
    /\ {current, backup, package} \subseteq Executables
    /\ script \in {"none", "waiting", "moving", "copying", "launching", "finishing",
                   "removing", "restoring"}
    /\ outcome \in [how : {"none", "gave up", "failed", "updated", "rolled back", "stuck",
                           "killed"},
                    before : Working, misjudged : BOOLEAN]

\* A package announced as downloaded is the one the server has a checksum for, even
\* when pieces of it came in earlier runs of the application.  Three things alone put
\* that in doubt: two downloads worked on the file, it was taken for complete by its
\* size, or the cache's description was of a file removed since.
ReadyIsWhole ==
    status = "DOWNLOADED" /\ release.checksum /\ file # None
        => file = Whole \/ doubts # {}

\* The status DOWNLOADING makes every check and every further download turn back: it
\* is only there while a download is at work.  Otherwise the application would not
\* update itself again before its next start.
DownloadingIsLive == status = "DOWNLOADING" => Downloading # {}

\* Whatever an update meets, an executable that works is left, in place or beside it,
\* unless the script misjudged what it put in place; where it is started from, unless the
\* script was killed besides or could not move it back; and it is the one from before,
\* when the update gave up, failed or was rolled back.
AppSurvives ==
    LET how == outcome.how IN
    /\ current \in Working \/ backup \in Working \/ outcome.misjudged
    /\ script = "none" /\ current \notin Working =>
          how \in {"killed", "stuck"} \/ outcome.misjudged
    /\ how \in {"gave up", "failed", "rolled back"} => current = outcome.before

\* "3. Launch new binary and verify it started; 4. On any failure: rollback; 5. On
\* success: remove backup" (_install_linux): an update that succeeded leaves an
\* executable that works.  Not so in this code.
SuccessIsVerified == outcome.how = "updated" => current \in Working

\* At most one download is at work.  Not so in this code.
OneDownload == \A t, u \in Downloading : t = u

-----------------------------------------------------------------------------
(* What an update promises, see AtomicUpdate *)

\* While the script has moved the executable aside, and does not know yet that its
\* successor runs, the one aside counts; so it does if the script was killed then.
Aside == script \in {"copying", "launching", "removing", "restoring"}
Version == IF current \in Working /\ ~Aside THEN current ELSE backup

Phase ==
    CASE script = "none" -> "idle"
      [] script = "finishing" -> IF current \in Working THEN "done" ELSE "botched"
      [] OTHER -> "trying"

Update == INSTANCE AtomicUpdate WITH
    version <- Version, startable <- script # "none" \/ current \in Working,
    phase <- Phase

\* Through all the steps of the script, which remove, move and copy executables, a user
\* sees an update that takes place at once, or none at all; or one that is botched.
ImplementsAtomicUpdate == Update!Spec
=============================================================================
