----------------------------- MODULE DatabaseBackup -----------------------------
(***************************************************************************)
(* Backups of the SQLite file: manage.py backup_database and               *)
(* verify_database_backup with growth/services/database_backup.py, and the *)
(* rollback of docs/backup-and-restore.md.  A database is its migrations,  *)
(* the rows of the tables the fingerprint names and the rows of the other  *)
(* tables, each a version.  Processes that are given one path share its    *)
(* temporary file.  SQLite's backup API locks the file it writes, and an   *)
(* open file follows os.replace and outlives an unlink.                    *)
(***************************************************************************)
EXTENDS Integers, FiniteSets

CONSTANTS
    Worker,      \* processes that run backup_database
    Path,        \* output paths that occur
    MaxVersion,  \* bound on the versions of each part of the database
    MaxCrashes,  \* bound on the crashes and failures of a backup
    MaxDamages,  \* bound on files damaged from outside
    Absent, Torn, Idle

VARIABLES
    live,       \* the live database
    past,       \* every database that was live in a deployment that was not being rolled back
    stage,      \* the deployment: running, down with a restored file, or opened to be compared
    temporary,  \* by path: the file being written
    output,     \* by path: the snapshot
    manifest,   \* by path: what the sidecar describes
    task,       \* by worker: its path, its next step, the file it has open, what it inspected
    reported,   \* backups that were reported as done: path and content
    contended,  \* paths two processes were at work on at one time
    damaged, crashes

vars == <<live, past, stage, temporary, output, manifest, task, reported, contended, damaged, crashes>>

Part == {"migrations", "critical", "other"}
Database == [Part -> 0 .. MaxVersion]
Task == [path : Path, step : {"clear", "open", "copy", "publish", "inspect", "manifest"},
         file : {"none", "temporary", "output", "gone"}, seen : Database \cup {Absent}]

-----------------------------------------------------------------------------
\* _table_fingerprint over CRITICAL_STATE_TABLES, with the migrations: what an inspection sees.
Inspection(db) == <<db["migrations"], db["critical"]>>

\* verify_backup_manifest: length, hash and logical state of the file against the sidecar.
Verified(p) == output[p] \notin {Absent, Torn} /\ manifest[p] = output[p]

\* Mutant of ComparesLive: the sidecar is not looked at.
ComparesUnverified(p) ==
    /\ output[p] \notin {Absent, Torn} /\ live # Torn
    /\ Inspection(output[p]) = Inspection(live)

\* verify_database_backup --compare-live.
ComparesLive(p) ==
    /\ Verified(p) /\ live # Torn
    /\ Inspection(output[p]) = Inspection(live)

-----------------------------------------------------------------------------
At(w, step) == task[w] # Idle /\ task[w].step = step

WorksOn(w, p) == task[w] # Idle /\ task[w].path = p

\* The tasks once the file at one place of a path is moved to another one, or unlinked.
Moved(p, from, to) ==
    [v \in Worker |-> IF WorksOn(v, p) /\ task[v].file = from
                      THEN [task[v] EXCEPT !.file = to] ELSE task[v]]

\* os.replace(temporary, output) as the processes see it that have one of the files open.
Replaced(p) ==
    [v \in Worker |->
        IF ~WorksOn(v, p) THEN task[v]
        ELSE [task[v] EXCEPT !.file = CASE @ = "temporary" -> "output" [] @ = "output" -> "gone"
                                        [] OTHER -> @]]

\* finally: the temporary file of the path is unlinked, whoever wrote it.
Ends(w) ==
    /\ temporary' = [temporary EXCEPT ![task[w].path] = Absent]
    /\ task' = [Moved(task[w].path, "temporary", "gone") EXCEPT ![w] = Idle]

-----------------------------------------------------------------------------
Init ==
    /\ live = [part \in Part |-> 0] /\ past = {live} /\ stage = "running"
    /\ temporary = [p \in Path |-> Absent] /\ output = [p \in Path |-> Absent]
    /\ manifest = [p \in Path |-> Absent]
    /\ task = [w \in Worker |-> Idle]
    /\ reported = {} /\ contended = {} /\ damaged = {} /\ crashes = 0

\* The application commits rows, or an upgrade applies migrations.
Write(part) ==
    /\ stage \in {"running", "opened"} /\ live # Torn
    /\ live[part] < MaxVersion
    /\ live' = [live EXCEPT ![part] = @ + 1]
    /\ past' = IF stage = "running" THEN past \cup {live'} ELSE past
    /\ UNCHANGED <<stage, temporary, output, manifest, task, reported, contended, damaged, crashes>>

\* Command.handle: a path that is in use is refused.  No backup is made of a deployment that is
\* being rolled back (the commands of the runbook).
Check(w, p) ==
    /\ task[w] = Idle /\ stage = "running"
    /\ output[p] = Absent /\ manifest[p] = Absent
    /\ task' = [task EXCEPT ![w] = [path |-> p, step |-> "clear", file |-> "none", seen |-> Absent]]
    /\ contended' = contended \cup IF \E v \in Worker : WorksOn(v, p) THEN {p} ELSE {}
    /\ UNCHANGED <<live, past, stage, temporary, output, manifest, reported, damaged, crashes>>

\* A leftover temporary file is unlinked.
Clear(w) ==
    /\ At(w, "clear")
    /\ LET p == task[w].path IN
         /\ temporary' = [temporary EXCEPT ![p] = Absent]
         /\ task' = [Moved(p, "temporary", "gone") EXCEPT ![w].step = "open"]
    /\ UNCHANGED <<live, past, stage, output, manifest, reported, contended, damaged, crashes>>

\* sqlite3.connect(temporary) and the start of source.backup: the temporary file is opened, or created
\* if there is none, and locked; a process waits while another one writes it.  SQLite refuses to write
\* to a file that was moved after it was opened: that is one of the failures.
StartCopy(w) ==
    /\ At(w, "open")
    /\ LET p == task[w].path IN
         /\ \A v \in Worker : WorksOn(v, p) => task[v].file # "temporary"
         /\ temporary' = [temporary EXCEPT ![p] = Torn]
    /\ task' = [task EXCEPT ![w].step = "copy", ![w].file = "temporary"]
    /\ UNCHANGED <<live, past, stage, output, manifest, reported, contended, damaged, crashes>>

\* The copy is complete and closed: the live database under one read transaction.  A file that was
\* moved or unlinked meanwhile is completed where it is now.
Copy(w) ==
    /\ At(w, "copy")
    /\ LET p == task[w].path IN
         /\ temporary' = IF task[w].file = "temporary" THEN [temporary EXCEPT ![p] = live] ELSE temporary
         /\ output' = IF task[w].file = "output" THEN [output EXCEPT ![p] = live] ELSE output
    /\ task' = [task EXCEPT ![w].step = "publish", ![w].file = "none"]
    /\ UNCHANGED <<live, past, stage, manifest, reported, contended, damaged, crashes>>

\* os.replace(temporary, output), whatever file has the temporary name and whatever is there.
Publish(w) ==
    /\ At(w, "publish")
    /\ LET p == task[w].path IN
         /\ temporary[p] # Absent
         /\ output' = [output EXCEPT ![p] = temporary[p]]
         /\ temporary' = [temporary EXCEPT ![p] = Absent]
         /\ task' = [Replaced(p) EXCEPT ![w].step = "inspect"]
    /\ UNCHANGED <<live, past, stage, manifest, reported, contended, damaged, crashes>>

\* Mutant of Inspect: the live database is inspected.
InspectLive(w) ==
    /\ At(w, "inspect")
    /\ output[task[w].path] \notin {Absent, Torn}
    /\ task' = [task EXCEPT ![w].step = "manifest", ![w].seen = live]
    /\ UNCHANGED <<live, past, stage, temporary, output, manifest, reported, contended, damaged, crashes>>

\* build_backup_manifest: inspection, length and hash of the file that has the name now.
Inspect(w) ==
    /\ At(w, "inspect")
    /\ output[task[w].path] \notin {Absent, Torn}
    /\ task' = [task EXCEPT ![w].step = "manifest", ![w].seen = output[task[w].path]]
    /\ UNCHANGED <<live, past, stage, temporary, output, manifest, reported, contended, damaged, crashes>>

\* The sidecar is moved into place and success reported.  Its temporary file is shared as well: what
\* is moved may be the work of another process, or half written by it.
WriteManifest(w) ==
    /\ At(w, "manifest")
    /\ LET p == task[w].path
           Writers == {v \in Worker : WorksOn(v, p) /\ At(v, "manifest")} IN
         /\ \E content \in {task[v].seen : v \in Writers} \cup (IF Writers = {w} THEN {} ELSE {Torn}) :
               manifest' = [manifest EXCEPT ![p] = content]
         /\ reported' = reported \cup {[path |-> p, content |-> task[w].seen]}
    /\ Ends(w)
    /\ UNCHANGED <<live, past, stage, output, contended, damaged, crashes>>

\* What makes a step fail by itself: the temporary file is gone, or the file cannot be inspected.
Blocked(w) ==
    \/ At(w, "publish") /\ temporary[task[w].path] = Absent
    \/ At(w, "inspect") /\ output[task[w].path] \in {Absent, Torn}

\* A step inside the try fails: an error is reported, the temporary file removed.
Fail(w) ==
    /\ task[w] # Idle /\ ~At(w, "clear")
    /\ Blocked(w) \/ crashes < MaxCrashes
    /\ crashes' = IF Blocked(w) THEN crashes ELSE crashes + 1
    /\ Ends(w)
    /\ UNCHANGED <<live, past, stage, output, manifest, reported, contended, damaged>>

\* The process dies; whatever it wrote stays.
Crash(w) ==
    /\ task[w] # Idle /\ crashes < MaxCrashes
    /\ crashes' = crashes + 1
    /\ task' = [task EXCEPT ![w] = Idle]
    /\ UNCHANGED <<live, past, stage, temporary, output, manifest, reported, contended, damaged>>

\* A published file is truncated or, when no process is at work on it, edited into another database.
Damage(p) ==
    /\ output[p] \notin {Absent, Torn} /\ p \notin damaged /\ Cardinality(damaged) < MaxDamages
    /\ \E content \in {Torn} \cup IF \E w \in Worker : WorksOn(w, p) THEN {} ELSE Database \ past :
          output' = [output EXCEPT ![p] = content]
    /\ damaged' = damaged \cup {p}
    /\ UNCHANGED <<live, past, stage, temporary, manifest, task, reported, contended, crashes>>

\* Rollback: with every container down the file is copied over the live one, unseen.
Restore(p) ==
    /\ \A w \in Worker : task[w] = Idle
    /\ output[p] # Absent
    /\ live' = output[p] /\ stage' = "down"
    /\ UNCHANGED <<past, temporary, output, manifest, task, reported, contended, damaged, crashes>>

\* docker compose up: the application is opened before it is compared.
Open ==
    /\ stage = "down" /\ stage' = "opened"
    /\ UNCHANGED <<live, past, temporary, output, manifest, task, reported, contended, damaged, crashes>>

\* "If --compare-live fails after restoration, keep the application stopped."
Stop ==
    /\ stage = "opened" /\ stage' = "down"
    /\ UNCHANGED <<live, past, temporary, output, manifest, task, reported, contended, damaged, crashes>>

\* --compare-live passes: the deployment goes on with the database as it is then.
Accept(p) ==
    /\ stage = "opened" /\ ComparesLive(p)
    /\ stage' = "running" /\ past' = past \cup {live}
    /\ UNCHANGED <<live, temporary, output, manifest, task, reported, contended, damaged, crashes>>

Next ==
    \/ \E part \in Part : Write(part)
    \/ \E w \in Worker, p \in Path : Check(w, p)
    \/ \E w \in Worker : \/ Clear(w) \/ StartCopy(w) \/ Copy(w) \/ Publish(w)
                         \/ Inspect(w) \/ WriteManifest(w) \/ Fail(w) \/ Crash(w)
    \/ \E p \in Path : Damage(p) \/ Restore(p) \/ Accept(p)
    \/ Open \/ Stop

Spec == Init /\ [][Next]_vars

-----------------------------------------------------------------------------
TypeOK ==
    /\ live \in Database \cup {Torn} /\ past \subseteq Database
    /\ stage \in {"running", "down", "opened"}
    /\ temporary \in [Path -> Database \cup {Absent, Torn}]
    /\ output \in [Path -> Database \cup {Absent, Torn}]
    /\ manifest \in [Path -> Database \cup {Absent, Torn}]
    /\ task \in [Worker -> Task \cup {Idle}]
    /\ reported \subseteq [path : Path, content : Database]
    /\ contended \subseteq Path /\ damaged \subseteq Path
    /\ crashes \in 0 .. MaxCrashes

\* Whatever crashed, was damaged or ran at the same time: a backup that verifies is a database that
\* was live.
VerifiedWasLive == \A p \in Path : Verified(p) => output[p] \in past

\* A backup that was reported as done verifies, with the content it was made with, until the file
\* is damaged, unless two processes were at work on its path at one time.
ReportedStaysGood ==
    \A r \in reported :
        r.path \notin damaged \cup contended => Verified(r.path) /\ output[r.path] = r.content

\* A snapshot or sidecar is only overwritten on a path two processes were at work on at one time.
OverwrittenOnlyByContention ==
    [][\A p \in Path \ contended :
         /\ output[p] \notin {Absent, output'[p]} => p \in damaged' \ damaged
         /\ manifest[p] # Absent => manifest'[p] = manifest[p]]_vars

\* The deployment only goes on after a rollback with the migrations and the critical rows of a
\* database that was live before it; the other tables may be those the opened application wrote.
ComesBackAsItWas ==
    [][stage # "running" /\ stage' = "running" =>
         \E d \in past : Inspection(d) = Inspection(live')]_vars

\* docs/backup-and-restore.md:36: an existing snapshot is never overwritten: one that was reported
\* as done keeps its content until the file is damaged.
SnapshotsAreKept ==
    \A r \in reported : r.path \notin damaged => output[r.path] = r.content
=============================================================================
