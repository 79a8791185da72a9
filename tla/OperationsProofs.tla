--------------------------- MODULE OperationsProofs ---------------------------
(***************************************************************************)
(* What Operations promises, for any number of paths, tables' rows,        *)
(* releases, accounts, assessment runs and workers.  The components share  *)
(* no variable: each has an inductive invariant of its own, which the      *)
(* steps of the others keep because they leave its variables alone.        *)
(***************************************************************************)
EXTENDS Operations, FiniteSetTheorems, SequenceTheorems, TLAPS

-----------------------------------------------------------------------------
(* Startup *)

\* How far the start has come is what the database is ready for; what the owner was told to do
\* is what the catalog says.
StartInv ==
    /\ step \in 1 .. 8
    /\ step > 2 => schema = release
    /\ step > 4 => catalog = Start!Incoming /\ (user # 0 => demo)
    /\ step > 5 => events
    /\ step > 7 => states
    /\ Start!OngoingTasksAreKept

\* The commands by their number.
LEMMA Commands ==
    /\ Start!Serving = 8
    /\ Start!Chain[1] = "validate" /\ Start!Chain[2] = "migrate" /\ Start!Chain[3] = "bootstrap"
    /\ Start!Chain[4] = "seed" /\ Start!Chain[5] = "backfill" /\ Start!Chain[6] = "rebuild"
    /\ Start!Chain[7] = "rebuild composite"
<1>1. Len(Start!Chain) = 7
  BY DEF Start!Chain
<1> QED BY <1>1 DEF Start!Serving, Start!Chain

\* Each command is where it is in the chain.
LEMMA CommandAt ==
    ASSUME step \in 1 .. 8, step < Start!Serving, NEW c, Start!Chain[step] = c
    PROVE  /\ step < 8
           /\ \/ c = "validate" /\ step = 1
              \/ c = "migrate" /\ step = 2
              \/ c = "bootstrap" /\ step = 3
              \/ c = "seed" /\ step = 4
              \/ c = "backfill" /\ step = 5
              \/ c = "rebuild" /\ step = 6
              \/ c = "rebuild composite" /\ step = 7
<1>1. step < 8
  BY Commands
<1>2. step = 1 \/ step = 2 \/ step = 3 \/ step = 4 \/ step = 5 \/ step = 6 \/ step = 7
  BY <1>1
<1> QED BY <1>1, <1>2, Commands

\* A start only goes on when a command has passed, and begins again in all other cases.
LEMMA StartStep == ASSUME StartInv, [Start!Next]_startVars PROVE StartInv'
<1> USE DEF StartInv
<1>1. CASE UNCHANGED startVars
  BY <1>1 DEF startVars, Start!Incoming, Start!OngoingTasksAreKept
<1>2. CASE Start!Validate
  <2>1. step = 1
    BY <1>2, CommandAt DEF Start!Validate, Start!At
  <2> QED BY <1>2, <2>1 DEF Start!Validate, Start!Pass, Start!Fail, Start!data,
     Start!Incoming, Start!OngoingTasksAreKept
<1>3. CASE Start!Migrate
  <2>1. step = 2
    BY <1>3, CommandAt DEF Start!Migrate, Start!At
  <2> QED BY <1>3, <2>1 DEF Start!Migrate, Start!Pass, Start!Incoming, Start!OngoingTasksAreKept
<1>4. CASE Start!Bootstrap
  <2>1. step = 3
    BY <1>4, CommandAt DEF Start!Bootstrap, Start!At
  <2> QED BY <1>4, <2>1 DEF Start!Bootstrap, Start!Pass, Start!Incoming, Start!OngoingTasksAreKept
<1>5. CASE Start!Seed
  <2>1. step = 4
    BY <1>5, CommandAt DEF Start!Seed, Start!At
  <2>2. CASE step' = 1 /\ UNCHANGED <<release, Start!data>>
    BY <2>2 DEF Start!data, Start!OngoingTasksAreKept
  <2>3. CASE /\ step' = step + 1 /\ catalog' = Start!Incoming /\ demo' = TRUE
             /\ UNCHANGED <<release, schema, ongoing>>
             /\ (ongoing # <<>> => catalog = Start!Incoming)
    <3>1. demo' /\ Start!Incoming' = Start!Incoming
      BY <2>3 DEF Start!Incoming
    <3>2. Start!OngoingTasksAreKept'
      BY <2>3 DEF Start!OngoingTasksAreKept
    <3>3. step' = 5
      BY <2>1, <2>3
    <3> QED BY <2>1, <2>3, <3>1, <3>2, <3>3
  <2>4. \/ step' = 1 /\ UNCHANGED <<release, Start!data>>
        \/ /\ step' = step + 1 /\ catalog' = Start!Incoming /\ demo' = TRUE
           /\ UNCHANGED <<release, schema, ongoing>>
           /\ (ongoing # <<>> => catalog = Start!Incoming)
    BY <1>5, Zenon DEF Start!Seed, Start!Pass, Start!Fail, Start!Redefines
  <2> QED BY <2>2, <2>3, <2>4
<1>6. CASE Start!Backfill
  <2>1. step = 5
    BY <1>6, CommandAt DEF Start!Backfill, Start!At
  <2> QED BY <1>6, <2>1 DEF Start!Backfill, Start!Pass, Start!Incoming, Start!OngoingTasksAreKept
<1>7. CASE Start!Rebuild
  <2>1. step = 6 \/ (step = 7 /\ states')
    BY <1>7, CommandAt DEF Start!Rebuild, Start!At
  <2>2. step' = step + 1 /\ UNCHANGED <<release, schema, catalog, user, demo, ongoing, events>>
    BY <1>7, Zenon DEF Start!Rebuild, Start!Pass
  <2>3. step' \in 7 .. 8 /\ (step' = 8 => states')
    BY <2>1, <2>2
  <2>4. step > 2 /\ step > 4 /\ step > 5 /\ (step' > 7 => step' = 8)
    BY <2>1, <2>3
  <2> QED BY <2>2, <2>3, <2>4 DEF Start!Incoming, Start!OngoingTasksAreKept
<1>8. CASE Start!StartPractice \/ (\E a \in Action : Start!CheckIn(a)) \/ Start!EndPractice
           \/ Start!DeleteAccount
  BY <1>8, Commands DEF Start!StartPractice, Start!CheckIn, Start!EndPractice,
     Start!DeleteAccount, Start!Up, Start!Incoming, Start!OngoingTasksAreKept
<1>9. CASE Start!Restore \/ Start!Crash \/ Start!Upgrade
  BY <1>9 DEF Start!Restore, Start!Crash, Start!Upgrade, Start!data, Start!OngoingTasksAreKept
<1> QED BY <1>1, <1>2, <1>3, <1>4, <1>5, <1>6, <1>7, <1>8, <1>9 DEF Start!Next

\* The server never answers from a database the release is not ready for, and no task under way
\* is replaced, for any sequence of releases, crashes and restored databases.
THEOREM StartsAreSafe == Spec => []StartIsSafe
<1>1. Init => StartInv
  BY DEF Init, Start!Init, StartInv, Start!OngoingTasksAreKept
<1>2. StartInv /\ [Next]_vars => StartInv'
  <2> SUFFICES ASSUME StartInv, [Next]_vars PROVE StartInv'
    OBVIOUS
  <2>1. [Start!Next]_startVars
    BY DEF Next, vars
  <2> QED BY <2>1, StartStep
<1>3. StartInv => StartIsSafe
  <2>1. ASSUME StartInv, step = Start!Serving
        PROVE  step > 2 /\ step > 4 /\ step > 5 /\ step > 7
    <3>1. step = 8
      BY <2>1, Commands
    <3> QED BY <3>1
  <2> QED BY <2>1, Zenon DEF StartInv, StartIsSafe, Start!StartIsSafe, Start!ServesAReadyDatabase
<1> QED BY <1>1, <1>2, <1>3, PTL DEF Spec

-----------------------------------------------------------------------------
(* DatabaseBackup *)

File == {"none", "temporary", "output", "gone"}

\* What the files hold was live in a deployment that was not being rolled back, is torn, or was edited
\* when no process was at work on it.
BackupFiles ==
    /\ live \in Backup!Database \cup {Torn} /\ past \subseteq Backup!Database
    /\ stage \in {"running", "down", "opened"} /\ (stage = "running" => live \in past)
    /\ temporary = [p \in Path |-> temporary[p]] /\ output = [p \in Path |-> output[p]]
    /\ manifest = [p \in Path |-> manifest[p]]
    /\ \A p \in Path :
         /\ temporary[p] \in past \cup {Absent, Torn}
         /\ output[p] \in Backup!Database \cup {Absent, Torn}
         /\ output[p] \in past \cup {Absent, Torn} \/ \A w \in Process : ~Backup!WorksOn(w, p)
         /\ manifest[p] \in past \cup {Absent, Torn}
    /\ contended \subseteq Path /\ damaged \subseteq Path
    /\ crashes \in 0 .. MaxCrashes

\* A backup under way; if it has the path for itself, nothing is there that it could overwrite.
Underway(t) ==
    /\ t \in Backup!Task /\ stage = "running"
    /\ t.step = "manifest" => t.seen \in past
    /\ t.step \in {"inspect", "manifest"} => output[t.path] # Absent
    /\ t.path \notin contended =>
         /\ manifest[t.path] = Absent
         /\ t.step \in {"clear", "open", "copy", "publish"} => output[t.path] = Absent /\ t.file # "output"
         /\ t.step = "manifest" /\ t.path \notin damaged => output[t.path] = t.seen

\* A path that was never shared has one process at most.
PathsAreExclusive ==
    \A v, w \in Process : \A p \in Path \ contended :
        Backup!WorksOn(v, p) /\ Backup!WorksOn(w, p) => v = w

\* What was reported is there as it was made, unless the file was damaged or the path shared.
StillThere(r) ==
    /\ r \in [path : Path, content : Backup!Database] /\ r.content \in past
    /\ output[r.path] # Absent
    /\ r.path \notin contended =>
         /\ manifest[r.path] = r.content
         /\ r.path \notin damaged => output[r.path] = r.content

BackupInv ==
    /\ BackupFiles
    /\ task = [w \in Process |-> task[w]]
    /\ \A w \in Process : task[w] = Idle \/ Underway(task[w])
    /\ PathsAreExclusive
    /\ \A r \in reported : StillThere(r)

LEMMA BackupInit == Backup!Init => BackupInv
<1> SUFFICES ASSUME Backup!Init PROVE BackupInv
  OBVIOUS
<1>1. live \in Backup!Database
  BY BackupAssumption DEF Backup!Init, Backup!Database
<1>2. BackupFiles
  BY <1>1, BackupAssumption DEF Backup!Init, BackupFiles
<1> QED BY <1>2 DEF Backup!Init, BackupInv, PathsAreExclusive, Backup!WorksOn

\* Where no two processes met, no step rewrites a backup or a sidecar.
BackupKept ==
    \A p \in Path \ contended :
        /\ output[p] \notin {Absent, output'[p]} => p \in damaged' \ damaged
        /\ manifest[p] # Absent => manifest'[p] = manifest[p]

\* A rollback ends on what was live.
BackupReturns ==
    stage # "running" /\ stage' = "running" =>
        \E d \in past : Backup!Inspection(d) = Backup!Inspection(live')

-----------------------------------------------------------------------------
(* The steps of a process. *)

\* What a step of a process may do: it changes the files of its path, and where the files are that
\* other processes on the path have open.
StepOf(w) ==
    LET p == task[w].path IN
    /\ task[w] # Idle
    /\ UNCHANGED <<live, past, stage, damaged, contended>> /\ crashes' \in 0 .. MaxCrashes
    /\ temporary' = [q \in Path |-> temporary'[q]] /\ output' = [q \in Path |-> output'[q]]
    /\ manifest' = [q \in Path |-> manifest'[q]] /\ task' = [v \in Process |-> task'[v]]
    /\ \A q \in Path \ {p} : temporary'[q] = temporary[q] /\ output'[q] = output[q] /\ manifest'[q] = manifest[q]
    /\ temporary'[p] \in past \cup {Absent, Torn}
    /\ output'[p] = output[p] \/ output'[p] \in past \cup {Torn}
    /\ manifest'[p] = manifest[p] \/ manifest'[p] \in past \cup {Torn}
    /\ \A v \in Process \ {w} :
         \/ task'[v] = task[v]
         \/ Backup!WorksOn(v, p) /\ \E f \in File : task'[v] = [task[v] EXCEPT !.file = f]
    /\ task'[w] = Idle \/ (task'[w].path = p /\ Underway(task[w])')
    /\ p \notin contended /\ output[p] # Absent => output'[p] = output[p]
    /\ \A r \in reported' : r \in reported \/ StillThere(r)'

LEMMA StepKeepsBackups ==
    ASSUME BackupInv, NEW w \in Process, StepOf(w)
    PROVE  BackupInv' /\ BackupKept /\ BackupReturns
<1> DEFINE p == task[w].path
<1>1. Underway(task[w]) /\ p \in Path /\ Backup!WorksOn(w, p)
  BY DEF BackupInv, StepOf, Underway, Backup!Task, Backup!WorksOn
<1>2. ASSUME NEW v \in Process, v # w, task[v] # Idle
      PROVE  /\ task'[v] # Idle /\ task'[v].path = task[v].path /\ task'[v] \in Backup!Task
             /\ task'[v].step = task[v].step /\ task'[v].seen = task[v].seen
             /\ task[v].path # p => task'[v] = task[v]
  <2>1. task[v] \in Backup!Task
    BY <1>2 DEF BackupInv, Underway
  <2>2. CASE task'[v] = task[v]
    BY <1>2, <2>1, <2>2
  <2>3. CASE Backup!WorksOn(v, p) /\ \E f \in File : task'[v] = [task[v] EXCEPT !.file = f]
    <3>1. task[v].path = p
      BY <2>3 DEF Backup!WorksOn
    <3>2. PICK f \in File : task'[v] = [task[v] EXCEPT !.file = f]
      BY <2>3
    <3>3. /\ task'[v] \in Backup!Task /\ task'[v].path = task[v].path
          /\ task'[v].step = task[v].step /\ task'[v].seen = task[v].seen
      BY <2>1, <3>2 DEF Backup!Task, File
    <3>4. task'[v] # Idle
      BY <3>3, BackupAssumption
    <3> QED BY <3>1, <3>3, <3>4
  <2> QED BY <1>2, <2>2, <2>3 DEF StepOf
<1>3. \A v \in Process : \A q \in Path : Backup!WorksOn(v, q)' => Backup!WorksOn(v, q)
  <2> SUFFICES ASSUME NEW v \in Process, NEW q \in Path, Backup!WorksOn(v, q)' PROVE Backup!WorksOn(v, q)
    OBVIOUS
  <2>1. CASE v = w
    BY <1>1, <2>1 DEF StepOf, Backup!WorksOn
  <2>2. CASE v # w /\ task[v] # Idle
    BY <1>2, <2>2 DEF Backup!WorksOn
  <2>3. CASE v # w /\ task[v] = Idle
    BY <2>3 DEF StepOf, Backup!WorksOn
  <2> QED BY <2>1, <2>2, <2>3
<1>4. output[p] \in past \cup {Absent, Torn}
  BY <1>1 DEF BackupInv, BackupFiles
<1>5. BackupFiles'
  <2>1. ASSUME NEW q \in Path
        PROVE  /\ temporary'[q] \in past' \cup {Absent, Torn}
               /\ output'[q] \in Backup!Database \cup {Absent, Torn}
               /\ output'[q] \in past' \cup {Absent, Torn} \/ \A v \in Process : ~Backup!WorksOn(v, q)'
               /\ manifest'[q] \in past' \cup {Absent, Torn}
    <3>1. CASE q = p
      BY <1>4, <3>1 DEF BackupInv, BackupFiles, StepOf
    <3>2. CASE q # p
      BY <1>3, <3>2 DEF BackupInv, BackupFiles, StepOf
    <3> QED BY <3>1, <3>2
  <2> QED BY <2>1 DEF BackupInv, BackupFiles, StepOf
<1>6. PathsAreExclusive'
  BY <1>3 DEF BackupInv, PathsAreExclusive, StepOf
<1>7. ASSUME NEW v \in Process PROVE task'[v] = Idle \/ Underway(task[v])'
  <2>1. CASE v = w
    BY <2>1 DEF StepOf
  <2>2. CASE v # w /\ task[v] = Idle
    BY <2>2 DEF StepOf, Backup!WorksOn
  <2>3. CASE v # w /\ task[v] # Idle
    <3>1. Underway(task[v])
      BY <2>3 DEF BackupInv
    <3>2. CASE task[v].path = p
      <4>1. p \in contended
        BY <1>1, <2>3, <3>2 DEF BackupInv, PathsAreExclusive, Backup!WorksOn
      <4>2. task'[v] \in Backup!Task /\ task'[v].path = p /\ task'[v].step = task[v].step
            /\ task'[v].seen = task[v].seen
        BY <1>2, <2>3, <3>2
      <4>3. output[p] # Absent => output'[p] # Absent
        BY <1>1, BackupAssumption DEF StepOf, BackupInv, BackupFiles
      <4> QED BY <3>1, <3>2, <4>1, <4>2, <4>3 DEF StepOf, Underway
    <3>3. CASE task[v].path # p
      <4>1. task'[v] = task[v] /\ task[v].path \in Path \ {p}
        BY <1>2, <2>3, <3>1, <3>3 DEF Underway, Backup!Task
      <4> QED BY <3>1, <4>1 DEF StepOf, Underway
    <3> QED BY <3>2, <3>3
  <2> QED BY <2>1, <2>2, <2>3
<1>8. ASSUME NEW r \in reported PROVE StillThere(r)'
  <2>1. StillThere(r)
    BY DEF BackupInv
  <2>2. CASE r.path # p
    BY <2>1, <2>2 DEF StepOf, StillThere
  <2>3. CASE r.path = p
    <3>1. p \in contended
      <4> SUFFICES ASSUME p \notin contended PROVE FALSE
        OBVIOUS
      <4>1. manifest[p] = Absent /\ manifest[p] \in past
        BY <1>1, <2>1, <2>3 DEF Underway, StillThere
      <4> QED BY <4>1, BackupAssumption DEF BackupInv, BackupFiles
    <3>2. output'[p] # Absent
      BY <2>1, <2>3, BackupAssumption DEF StepOf, StillThere, BackupInv, BackupFiles
    <3> QED BY <2>1, <2>3, <3>1, <3>2 DEF StepOf, StillThere
  <2> QED BY <2>2, <2>3
<1>9. \A r \in reported' : StillThere(r)'
  BY <1>8 DEF StepOf
<1>10. BackupKept
  <2> SUFFICES ASSUME NEW q \in Path \ contended
               PROVE  /\ output[q] \notin {Absent, output'[q]} => q \in damaged' \ damaged
                      /\ manifest[q] # Absent => manifest'[q] = manifest[q]
    BY DEF BackupKept
  <2>1. CASE q = p
    BY <1>1, <2>1 DEF StepOf, Underway
  <2>2. CASE q # p
    BY <2>2 DEF StepOf
  <2> QED BY <2>1, <2>2
<1>11. BackupReturns
  BY DEF StepOf, BackupReturns
<1> QED BY <1>5, <1>6, <1>7, <1>9, <1>10, <1>11 DEF BackupInv, StepOf

\* Moving or unlinking a file only changes where the processes that have it open find it.
LEMMA UnlinkedTasks ==
    ASSUME NEW p, NEW v \in Process
    PROVE  LET t == Backup!Moved(p, "temporary", "gone")[v] IN
           \/ t = task[v]
           \/ Backup!WorksOn(v, p) /\ t = [task[v] EXCEPT !.file = "gone"]
  BY DEF Backup!Moved

LEMMA ReplacedTasks ==
    ASSUME BackupInv, NEW p \in Path, NEW v \in Process
    PROVE  LET t == Backup!Replaced(p)[v] IN
           \/ ~Backup!WorksOn(v, p) /\ t = task[v]
           \/ Backup!WorksOn(v, p) /\ \E f \in File : t = [task[v] EXCEPT !.file = f]
<1>1. CASE ~Backup!WorksOn(v, p)
  BY <1>1 DEF Backup!Replaced
<1>2. CASE Backup!WorksOn(v, p)
  <2> DEFINE f == CASE task[v].file = "temporary" -> "output" [] task[v].file = "output" -> "gone"
                    [] OTHER -> task[v].file
  <2>1. task[v] \in Backup!Task
    BY <1>2 DEF BackupInv, Underway, Backup!WorksOn
  <2>2. f \in File
    BY <2>1 DEF File, Backup!Task
  <2>3. Backup!Replaced(p)[v] = [task[v] EXCEPT !.file = f]
    BY <1>2 DEF Backup!Replaced
  <2> QED BY <1>2, <2>2, <2>3
<1> QED BY <1>1, <1>2

LEMMA ClearKeepsBackups == ASSUME BackupInv, NEW w \in Process, Backup!Clear(w) PROVE StepOf(w)
<1> DEFINE p == task[w].path
<1>1. Underway(task[w]) /\ p \in Path /\ task[w].step = "clear" /\ task[w] # Idle
  BY DEF Backup!Clear, Backup!At, BackupInv, Underway, Backup!Task
<1>2. /\ UNCHANGED <<live, past, stage, output, manifest, reported, contended, damaged, crashes>>
      /\ temporary' = [temporary EXCEPT ![p] = Absent]
      /\ task' = [Backup!Moved(p, "temporary", "gone") EXCEPT ![w].step = "open"]
  BY DEF Backup!Clear
<1>3. \A v \in Process : task'[v] = IF v = w THEN [Backup!Moved(p, "temporary", "gone")[w] EXCEPT !.step = "open"]
                                    ELSE Backup!Moved(p, "temporary", "gone")[v]
  BY <1>2 DEF Backup!Moved
<1>4. ASSUME NEW v \in Process \ {w}
      PROVE  \/ task'[v] = task[v]
             \/ Backup!WorksOn(v, p) /\ \E f \in File : task'[v] = [task[v] EXCEPT !.file = f]
  <2>1. task'[v] = Backup!Moved(p, "temporary", "gone")[v]
    BY <1>3
  <2> QED BY <2>1, UnlinkedTasks DEF File
<1>5. /\ task'[w] \in Backup!Task /\ task'[w].path = p /\ task'[w].step = "open"
      /\ task'[w].file \in {task[w].file, "gone"}
  <2>1. Backup!Moved(p, "temporary", "gone")[w] \in {task[w], [task[w] EXCEPT !.file = "gone"]}
    BY UnlinkedTasks
  <2> QED BY <1>1, <1>3, <2>1 DEF Underway, Backup!Task
<1>6. Underway(task[w])'
  BY <1>1, <1>2, <1>5 DEF Underway
<1>7. task' = [v \in Process |-> task'[v]]
  BY <1>2 DEF Backup!Moved
<1> QED BY <1>1, <1>2, <1>4, <1>5, <1>6, <1>7 DEF StepOf, BackupInv, BackupFiles

LEMMA StartCopyKeepsBackups == ASSUME BackupInv, NEW w \in Process, Backup!StartCopy(w) PROVE StepOf(w)
<1> DEFINE p == task[w].path
<1>1. Underway(task[w]) /\ p \in Path /\ task[w].step = "open" /\ task[w] # Idle
  BY DEF Backup!StartCopy, Backup!At, BackupInv, Underway, Backup!Task
<1>2. /\ UNCHANGED <<live, past, stage, output, manifest, reported, contended, damaged, crashes>>
      /\ temporary' = [temporary EXCEPT ![p] = Torn]
      /\ task' = [v \in Process |-> IF v = w THEN [task[w] EXCEPT !.step = "copy", !.file = "temporary"] ELSE task[v]]
  BY DEF Backup!StartCopy, BackupInv
<1>3. /\ task'[w] \in Backup!Task /\ task'[w].path = p /\ task'[w].step = "copy"
      /\ task'[w].file = "temporary"
  BY <1>1, <1>2 DEF Underway, Backup!Task
<1>4. Underway(task[w])'
  BY <1>1, <1>2, <1>3 DEF Underway
<1> QED BY <1>1, <1>2, <1>3, <1>4 DEF StepOf, BackupInv, BackupFiles

LEMMA CopyKeepsBackups == ASSUME BackupInv, NEW w \in Process, Backup!Copy(w) PROVE StepOf(w)
<1> DEFINE p == task[w].path
<1>1. Underway(task[w]) /\ p \in Path /\ task[w].step = "copy" /\ task[w] # Idle /\ live \in past
  BY DEF Backup!Copy, Backup!At, BackupInv, BackupFiles, Underway, Backup!Task
<1>2. /\ UNCHANGED <<live, past, stage, manifest, reported, contended, damaged, crashes>>
      /\ temporary' = [q \in Path |-> IF task[w].file = "temporary" /\ q = p THEN live ELSE temporary[q]]
      /\ output' = [q \in Path |-> IF task[w].file = "output" /\ q = p THEN live ELSE output[q]]
      /\ task' = [v \in Process |-> IF v = w THEN [task[w] EXCEPT !.step = "publish", !.file = "none"] ELSE task[v]]
  BY DEF Backup!Copy, BackupInv, BackupFiles
<1>3. /\ task'[w] \in Backup!Task /\ task'[w].path = p /\ task'[w].step = "publish"
      /\ task'[w].file = "none"
  BY <1>1, <1>2 DEF Underway, Backup!Task
<1>4. p \notin contended => output' = output
  BY <1>1, <1>2 DEF Underway, BackupInv, BackupFiles
<1>5. Underway(task[w])'
  BY <1>1, <1>2, <1>3, <1>4 DEF Underway
<1> QED BY <1>1, <1>2, <1>3, <1>4, <1>5 DEF StepOf, BackupInv, BackupFiles

\* Where it has the path for itself, nothing is there yet.
LEMMA PublishKeepsBackups == ASSUME BackupInv, NEW w \in Process, Backup!Publish(w) PROVE StepOf(w)
<1> DEFINE p == task[w].path
<1>1. Underway(task[w]) /\ p \in Path /\ task[w].step = "publish" /\ task[w] # Idle /\ Backup!WorksOn(w, p)
  BY DEF Backup!Publish, Backup!At, BackupInv, Underway, Backup!Task, Backup!WorksOn
<1>2. /\ UNCHANGED <<live, past, stage, manifest, reported, contended, damaged, crashes>>
      /\ output' = [q \in Path |-> IF q = p THEN temporary[p] ELSE output[q]]
      /\ temporary' = [q \in Path |-> IF q = p THEN Absent ELSE temporary[q]]
      /\ task' = [Backup!Replaced(p) EXCEPT ![w].step = "inspect"]
      /\ temporary[p] \in past \cup {Torn}
  BY <1>1 DEF Backup!Publish, BackupInv, BackupFiles
<1>3. temporary[p] # Absent
  BY DEF Backup!Publish
<1>4. \A v \in Process : task'[v] = IF v = w THEN [Backup!Replaced(p)[w] EXCEPT !.step = "inspect"]
                                    ELSE Backup!Replaced(p)[v]
  BY <1>2 DEF Backup!Replaced
<1>5. ASSUME NEW v \in Process \ {w}
      PROVE  \/ task'[v] = task[v]
             \/ Backup!WorksOn(v, p) /\ \E f \in File : task'[v] = [task[v] EXCEPT !.file = f]
  <2>1. task'[v] = Backup!Replaced(p)[v]
    BY <1>4
  <2> QED BY <1>1, <2>1, ReplacedTasks
<1>6. task'[w] \in Backup!Task /\ task'[w].path = p /\ task'[w].step = "inspect"
  <2>1. PICK f \in File : Backup!Replaced(p)[w] = [task[w] EXCEPT !.file = f]
    BY <1>1, ReplacedTasks
  <2> QED BY <1>1, <1>4, <2>1 DEF Underway, Backup!Task, File
<1>7. Underway(task[w])'
  BY <1>1, <1>2, <1>3, <1>6 DEF Underway
<1>8. task' = [v \in Process |-> task'[v]]
  BY <1>2 DEF Backup!Replaced
<1>9. p \notin contended => output[p] = Absent
  BY <1>1 DEF Underway
<1> QED BY <1>1, <1>2, <1>5, <1>6, <1>7, <1>8, <1>9 DEF StepOf, BackupInv, BackupFiles

\* Nobody edits a file a process is at work on, so what is inspected was live.
LEMMA InspectKeepsBackups == ASSUME BackupInv, NEW w \in Process, Backup!Inspect(w) PROVE StepOf(w)
<1> DEFINE p == task[w].path
<1>1. Underway(task[w]) /\ p \in Path /\ task[w].step = "inspect" /\ task[w] # Idle /\ Backup!WorksOn(w, p)
  BY DEF Backup!Inspect, Backup!At, BackupInv, Underway, Backup!Task, Backup!WorksOn
<1>2. output[p] \in past
  BY <1>1 DEF Backup!Inspect, BackupInv, BackupFiles
<1>3. /\ UNCHANGED <<live, past, stage, temporary, output, manifest, reported, contended, damaged, crashes>>
      /\ task' = [v \in Process |-> IF v = w THEN [task[w] EXCEPT !.step = "manifest", !.seen = output[p]] ELSE task[v]]
  BY DEF Backup!Inspect, BackupInv
<1>4. [task[w] EXCEPT !.step = "manifest", !.seen = output[p]] \in Backup!Task
  BY <1>1, <1>2 DEF Underway, Backup!Task, BackupInv, BackupFiles
<1>5. Underway(task[w])' /\ task'[w].path = p
  BY <1>1, <1>2, <1>3, <1>4 DEF Underway, Backup!Task
<1> QED BY <1>1, <1>3, <1>5 DEF StepOf, BackupInv, BackupFiles

\* finally unlinks the temporary file, whoever has it open.
LEMMA EndOfTask ==
    ASSUME BackupInv, NEW w \in Process, task[w] # Idle, Backup!Ends(w)
    PROVE  /\ \A q \in Path : temporary'[q] = IF q = task[w].path THEN Absent ELSE temporary[q]
           /\ temporary' = [q \in Path |-> temporary'[q]] /\ task' = [v \in Process |-> task'[v]]
           /\ task'[w] = Idle
           /\ \A v \in Process \ {w} :
                \/ task'[v] = task[v]
                \/ /\ Backup!WorksOn(v, task[w].path)
                   /\ \E f \in File : task'[v] = [task[v] EXCEPT !.file = f]
<1> DEFINE p == task[w].path
<1>1. p \in Path
  BY DEF BackupInv, Underway, Backup!Task
<1>2. /\ temporary' = [temporary EXCEPT ![p] = Absent]
      /\ task' = [Backup!Moved(p, "temporary", "gone") EXCEPT ![w] = Idle]
  BY DEF Backup!Ends
<1>3. /\ task' = [v \in Process |-> task'[v]] /\ task'[w] = Idle
      /\ \A v \in Process \ {w} : task'[v] = Backup!Moved(p, "temporary", "gone")[v]
  BY <1>2 DEF Backup!Moved
<1>4. ASSUME NEW v \in Process \ {w}
      PROVE  \/ task'[v] = task[v]
             \/ Backup!WorksOn(v, p) /\ \E f \in File : task'[v] = [task[v] EXCEPT !.file = f]
  <2>1. task'[v] = Backup!Moved(p, "temporary", "gone")[v]
    BY <1>3
  <2> QED BY <2>1, UnlinkedTasks DEF File
<1> QED BY <1>1, <1>2, <1>3, <1>4 DEF BackupInv, BackupFiles

\* The sidecar is new where the process has the path for itself, and describes a database that was live.
LEMMA WriteManifestKeepsBackups == ASSUME BackupInv, NEW w \in Process, Backup!WriteManifest(w) PROVE StepOf(w)
<1> DEFINE p == task[w].path
           writers == {v \in Process : Backup!WorksOn(v, p) /\ Backup!At(v, "manifest")}
<1>1. /\ Underway(task[w]) /\ p \in Path /\ task[w].step = "manifest" /\ task[w] # Idle
      /\ Backup!WorksOn(w, p) /\ task[w].seen \in past
  BY DEF Backup!WriteManifest, Backup!At, BackupInv, Underway, Backup!Task, Backup!WorksOn
<1>2. UNCHANGED <<live, past, stage, output, contended, damaged, crashes>>
      /\ reported' = reported \cup {[path |-> p, content |-> task[w].seen]} /\ Backup!Ends(w)
  BY DEF Backup!WriteManifest
<1>3. PICK content \in {task[v].seen : v \in writers} \cup (IF writers = {w} THEN {} ELSE {Torn}) :
          manifest' = [manifest EXCEPT ![p] = content]
  BY DEF Backup!WriteManifest
<1>4. \A v \in writers : task[v].seen \in past
  BY DEF BackupInv, Underway, Backup!At
<1>5. content \in past \cup {Torn}
  BY <1>3, <1>4
<1>6. w \in writers
  BY <1>1 DEF Backup!At
<1>7. p \notin contended => content = task[w].seen
  <2> SUFFICES ASSUME p \notin contended PROVE content = task[w].seen
    OBVIOUS
  <2>1. \A v \in writers : v = w
    BY <1>1 DEF BackupInv, PathsAreExclusive
  <2>2. writers = {w}
    BY <1>6, <2>1
  <2> QED BY <1>3, <2>2
<1>8. /\ manifest' = [q \in Path |-> manifest'[q]]
      /\ \A q \in Path : manifest'[q] = IF q = p THEN content ELSE manifest[q]
  BY <1>1, <1>3 DEF BackupInv, BackupFiles
<1>9. PICK r : r = [path |-> p, content |-> task[w].seen]
  OBVIOUS
<1>10. StillThere(r)'
  <2>1. r \in [path : Path, content : Backup!Database] /\ r.path = p /\ r.content = task[w].seen
    BY <1>1, <1>9 DEF BackupInv, BackupFiles
  <2>2. output'[p] # Absent /\ r.content \in past'
    BY <1>1, <1>2, <2>1 DEF Underway
  <2>3. p \notin contended' => manifest'[p] = r.content /\ (p \notin damaged' => output'[p] = r.content)
    BY <1>1, <1>2, <1>7, <1>8, <2>1 DEF Underway
  <2> QED BY <2>1, <2>2, <2>3 DEF StillThere
<1>11. \A s \in reported' : s \in reported \/ StillThere(s)'
  BY <1>2, <1>9, <1>10
<1>12. output' = [q \in Path |-> output'[q]] /\ crashes' \in 0 .. MaxCrashes
  BY <1>2 DEF BackupInv, BackupFiles
<1> QED BY <1>1, <1>2, <1>5, <1>8, <1>11, <1>12, EndOfTask DEF StepOf

LEMMA StoppedBackups ==
    ASSUME BackupInv, NEW w \in Process, Backup!Fail(w) \/ Backup!Crash(w) PROVE StepOf(w)
<1>1. task[w] # Idle /\ task[w].path \in Path
      /\ UNCHANGED <<live, past, stage, output, manifest, reported, contended, damaged>>
  BY DEF Backup!Fail, Backup!Crash, BackupInv, Underway, Backup!Task
<1>2. crashes' \in 0 .. MaxCrashes
  BY BackupAssumption DEF Backup!Fail, Backup!Crash, BackupInv, BackupFiles
<1>3. CASE Backup!Fail(w)
  <2>1. Backup!Ends(w)
    BY <1>3 DEF Backup!Fail
  <2> QED BY <1>1, <1>2, <2>1, EndOfTask DEF StepOf, BackupInv, BackupFiles
<1>4. CASE Backup!Crash(w)
  <2>1. temporary' = temporary /\ task' = [v \in Process |-> IF v = w THEN Idle ELSE task[v]]
    BY <1>4 DEF Backup!Crash, BackupInv
  <2> QED BY <1>1, <1>2, <2>1 DEF StepOf, BackupInv, BackupFiles
<1> QED BY <1>3, <1>4

-----------------------------------------------------------------------------
(* The steps of the application and the operator. *)

LEMMA WriteKeepsBackups ==
    ASSUME BackupInv, NEW part \in Backup!Part, Backup!Write(part)
    PROVE  BackupInv' /\ BackupKept /\ BackupReturns
<1>1. live' \in Backup!Database
  <2>1. live \in [Backup!Part -> 0 .. MaxRows]
    BY DEF BackupInv, BackupFiles, Backup!Write, Backup!Database
  <2>2. live[part] + 1 \in 0 .. MaxRows
    BY <2>1, BackupAssumption DEF Backup!Write
  <2> QED BY <2>1, <2>2 DEF Backup!Write, Backup!Database
<1>2. /\ UNCHANGED <<stage, temporary, output, manifest, task, reported, contended, damaged, crashes>>
      /\ past' = IF stage = "running" THEN past \cup {live'} ELSE past
  BY DEF Backup!Write
<1>3. past \subseteq past' /\ past' \subseteq Backup!Database /\ (stage = "running" => live' \in past')
  BY <1>1, <1>2 DEF BackupInv, BackupFiles
<1>4. BackupFiles'
  BY <1>1, <1>2, <1>3 DEF BackupInv, BackupFiles, Backup!WorksOn
<1>5. PathsAreExclusive'
  BY <1>2 DEF BackupInv, PathsAreExclusive, Backup!WorksOn
<1>6. \A w \in Process : task'[w] = Idle \/ Underway(task[w])'
  BY <1>2, <1>3 DEF BackupInv, Underway
<1>7. \A r \in reported' : StillThere(r)'
  BY <1>2, <1>3 DEF BackupInv, StillThere
<1> QED BY <1>2, <1>4, <1>5, <1>6, <1>7 DEF BackupInv, BackupKept, BackupReturns

LEMMA CheckKeepsBackups ==
    ASSUME BackupInv, NEW w \in Process, NEW p \in Path, Backup!Check(w, p)
    PROVE  BackupInv' /\ BackupKept /\ BackupReturns
<1> DEFINE t == [path |-> p, step |-> "clear", file |-> "none", seen |-> Absent]
<1>1. /\ UNCHANGED <<live, past, stage, temporary, output, manifest, reported, damaged, crashes>>
      /\ stage = "running" /\ task[w] = Idle /\ output[p] = Absent /\ manifest[p] = Absent
      /\ contended \subseteq contended' /\ contended' \subseteq Path
      /\ (\E v \in Process : Backup!WorksOn(v, p)) => p \in contended'
  BY DEF Backup!Check, BackupInv, BackupFiles
<1>2. task' = [v \in Process |-> IF v = w THEN t ELSE task[v]]
  BY DEF Backup!Check, BackupInv
<1>3. t \in Backup!Task /\ t.path = p /\ t.step = "clear" /\ t.file = "none"
  BY DEF Backup!Task
<1>4. ASSUME NEW v \in Process PROVE task'[v] = Idle \/ Underway(task[v])'
  <2>1. CASE v = w
    BY <1>1, <1>2, <1>3, <2>1 DEF Underway
  <2>2. CASE v # w
    BY <1>1, <1>2, <2>2 DEF BackupInv, Underway
  <2> QED BY <2>1, <2>2
<1>5. ASSUME NEW v \in Process, NEW q \in Path, Backup!WorksOn(v, q)'
      PROVE  Backup!WorksOn(v, q) \/ (v = w /\ q = p)
  BY <1>2, <1>5 DEF Backup!WorksOn
<1>6. PathsAreExclusive'
  BY <1>1, <1>5 DEF BackupInv, PathsAreExclusive
<1>7. BackupFiles'
  <2>1. \A q \in Path : output'[q] \in past' \cup {Absent, Torn} \/ \A v \in Process : ~Backup!WorksOn(v, q)'
    BY <1>1, <1>5 DEF BackupInv, BackupFiles
  <2> QED BY <1>1, <2>1 DEF BackupInv, BackupFiles
<1>8. \A r \in reported' : StillThere(r)'
  BY <1>1 DEF BackupInv, StillThere
<1> QED BY <1>1, <1>2, <1>4, <1>6, <1>7, <1>8 DEF BackupInv, BackupKept, BackupReturns

\* A file is edited only while no process is at work on it.
LEMMA DamageKeepsBackups ==
    ASSUME BackupInv, NEW p \in Path, Backup!Damage(p)
    PROVE  BackupInv' /\ BackupKept /\ BackupReturns
<1>1. /\ UNCHANGED <<live, past, stage, temporary, manifest, task, reported, contended, crashes>>
      /\ damaged' = damaged \cup {p} /\ p \notin damaged /\ output[p] \notin {Absent, Torn}
  BY DEF Backup!Damage
<1>2. PICK content \in {Torn} \cup (IF \E w \in Process : Backup!WorksOn(w, p)
                                    THEN {} ELSE Backup!Database \ past) :
          output' = [output EXCEPT ![p] = content]
  BY DEF Backup!Damage
<1>3. output' = [q \in Path |-> IF q = p THEN content ELSE output[q]]
  BY <1>2 DEF BackupInv, BackupFiles
<1>4. /\ content \in Backup!Database \cup {Torn} /\ content # Absent
      /\ content = Torn \/ \A w \in Process : ~Backup!WorksOn(w, p)
  BY <1>2, BackupAssumption
<1>5. BackupFiles'
  BY <1>1, <1>3, <1>4 DEF BackupInv, BackupFiles, Backup!WorksOn
<1>6. PathsAreExclusive'
  BY <1>1 DEF BackupInv, PathsAreExclusive, Backup!WorksOn
<1>7. ASSUME NEW w \in Process PROVE task'[w] = Idle \/ Underway(task[w])'
  <2>1. CASE task[w] = Idle
    BY <1>1, <2>1
  <2>2. CASE task[w] # Idle
    <3>1. Underway(task[w]) /\ task[w].path \in Path
      BY <2>2 DEF BackupInv, Underway, Backup!Task
    <3>2. output'[task[w].path] = output[task[w].path] \/ task[w].path = p
      BY <1>3, <3>1
    <3>3. output'[task[w].path] = Absent <=> output[task[w].path] = Absent
      BY <1>1, <1>3, <1>4, <3>1
    <3> QED BY <1>1, <3>1, <3>2, <3>3 DEF Underway
  <2> QED BY <2>1, <2>2
<1>8. \A r \in reported' : StillThere(r)'
  BY <1>1, <1>3, <1>4 DEF BackupInv, StillThere
<1> QED BY <1>1, <1>3, <1>5, <1>6, <1>7, <1>8 DEF BackupInv, BackupKept, BackupReturns

\* A backup that verifies is a database that was live.
LEMMA VerifiedIsTrue == ASSUME BackupInv, NEW p \in Path, Backup!Verified(p) PROVE output[p] \in past
  BY DEF BackupInv, BackupFiles, Backup!Verified

LEMMA RollbackKeepsBackups ==
    ASSUME BackupInv,
           \/ \E p \in Path : Backup!Restore(p) \/ Backup!Accept(p)
           \/ Backup!Open \/ Backup!Stop
    PROVE  BackupInv' /\ BackupKept /\ BackupReturns
<1>1. UNCHANGED <<temporary, output, manifest, task, reported, contended, damaged, crashes>>
  BY DEF Backup!Restore, Backup!Accept, Backup!Open, Backup!Stop
<1>2. \A w \in Process : task[w] = Idle
  BY DEF Backup!Restore, Backup!Accept, Backup!Open, Backup!Stop, BackupInv, Underway
<1>3. /\ live' \in Backup!Database \cup {Torn} /\ past \subseteq past' /\ past' \subseteq Backup!Database
      /\ stage' \in {"running", "down", "opened"} /\ (stage' = "running" => live' \in past')
  <2>1. CASE \E p \in Path : Backup!Restore(p)
    BY <2>1 DEF Backup!Restore, BackupInv, BackupFiles
  <2>2. CASE \E p \in Path : Backup!Accept(p)
    BY <2>2 DEF Backup!Accept, Backup!ComparesLive, BackupInv, BackupFiles
  <2>3. CASE Backup!Open \/ Backup!Stop
    BY <2>3 DEF Backup!Open, Backup!Stop, BackupInv, BackupFiles
  <2> QED BY <2>1, <2>2, <2>3
<1>4. BackupFiles'
  BY <1>1, <1>2, <1>3 DEF BackupInv, BackupFiles, Backup!WorksOn
<1>5. PathsAreExclusive'
  BY <1>1, <1>2 DEF PathsAreExclusive, Backup!WorksOn
<1>6. \A r \in reported' : StillThere(r)'
  BY <1>1, <1>3 DEF BackupInv, StillThere
<1>7. BackupReturns
  <2>1. CASE \E p \in Path : Backup!Accept(p)
    <3>1. PICK p \in Path : Backup!Accept(p)
      BY <2>1
    <3>2. output[p] \in past /\ Backup!Inspection(output[p]) = Backup!Inspection(live) /\ live' = live
      BY <3>1, VerifiedIsTrue DEF Backup!Accept, Backup!ComparesLive
    <3>3. Backup!Inspection(live') = Backup!Inspection(live)
      BY <3>2 DEF Backup!Inspection
    <3> QED BY <3>2, <3>3 DEF BackupReturns
  <2> QED BY <2>1 DEF Backup!Restore, Backup!Open, Backup!Stop, BackupReturns
<1> QED BY <1>1, <1>2, <1>4, <1>5, <1>6, <1>7 DEF BackupInv, BackupKept

LEMMA BackupStep ==
    ASSUME BackupInv, [Backup!Next]_backupVars
    PROVE  BackupInv' /\ BackupKept /\ BackupReturns
<1>1. CASE UNCHANGED backupVars
  BY <1>1 DEF backupVars, BackupInv, BackupFiles, Underway, PathsAreExclusive, Backup!WorksOn, StillThere,
     BackupKept, BackupReturns
<1>2. CASE \E w \in Process :
             \/ Backup!Clear(w) \/ Backup!StartCopy(w) \/ Backup!Copy(w) \/ Backup!Publish(w)
             \/ Backup!Inspect(w) \/ Backup!WriteManifest(w) \/ Backup!Fail(w) \/ Backup!Crash(w)
  BY <1>2, StepKeepsBackups, ClearKeepsBackups, StartCopyKeepsBackups, CopyKeepsBackups,
     PublishKeepsBackups, InspectKeepsBackups, WriteManifestKeepsBackups, StoppedBackups
<1>3. CASE \/ \E part \in Backup!Part : Backup!Write(part)
           \/ \E w \in Process, p \in Path : Backup!Check(w, p)
           \/ \E p \in Path : Backup!Damage(p) \/ Backup!Restore(p) \/ Backup!Accept(p)
  BY <1>3, WriteKeepsBackups, CheckKeepsBackups, DamageKeepsBackups, RollbackKeepsBackups
<1>4. CASE Backup!Open \/ Backup!Stop
  BY <1>4, RollbackKeepsBackups
<1> QED BY <1>1, <1>2, <1>3, <1>4 DEF Backup!Next

\* Whatever crashed, was damaged or ran at the same time: a backup that verifies is a database that
\* was live, and one that was reported stays good unless two processes shared its path.
THEOREM BackupsStayTrue == Spec => []BackupsAreTrue
<1>1. Init => BackupInv
  BY BackupInit DEF Init
<1>2. BackupInv /\ [Next]_vars => BackupInv'
  <2> SUFFICES ASSUME BackupInv, [Next]_vars PROVE BackupInv'
    OBVIOUS
  <2>1. [Backup!Next]_backupVars
    BY DEF Next, vars
  <2> QED BY <2>1, BackupStep
<1>3. BackupInv => BackupsAreTrue
  <2> SUFFICES ASSUME BackupInv PROVE BackupsAreTrue
    OBVIOUS
  <2>1. Backup!TypeOK
    <3>1. task \in [Process -> Backup!Task \cup {Idle}]
      BY DEF BackupInv, Underway
    <3>2. reported \subseteq [path : Path, content : Backup!Database]
      BY DEF BackupInv, StillThere
    <3>3. /\ temporary \in [Path -> Backup!Database \cup {Absent, Torn}]
          /\ output \in [Path -> Backup!Database \cup {Absent, Torn}]
          /\ manifest \in [Path -> Backup!Database \cup {Absent, Torn}]
      BY DEF BackupInv, BackupFiles
    <3> QED BY <3>1, <3>2, <3>3 DEF BackupInv, BackupFiles, Backup!TypeOK
  <2>2. Backup!VerifiedWasLive
    BY VerifiedIsTrue DEF Backup!VerifiedWasLive
  <2>3. Backup!ReportedStaysGood
    BY BackupAssumption DEF BackupInv, BackupFiles, StillThere, Backup!ReportedStaysGood, Backup!Verified
  <2> QED BY <2>1, <2>2, <2>3 DEF BackupsAreTrue
<1> QED BY <1>1, <1>2, <1>3, PTL DEF Spec

-----------------------------------------------------------------------------
(* OwnerArchive *)

LEMMA TheTables ==
    /\ Len(Archive!ReadOrder) = 12 /\ DOMAIN Archive!ReadOrder = 1 .. 12
    /\ Archive!ReadOrder[1] = "assessment_runs" /\ Archive!ReadOrder[2] = "practice_sprints"
    /\ Archive!ReadOrder[3] = "practice_check_ins" /\ Archive!ReadOrder[4] = "evidence_events"
    /\ Archive!ReadOrder[5] = "practice_reviews" /\ Archive!ReadOrder[6] = "completion_credit_events"
    /\ Archive!ReadOrder[7] = "weekly_execution_plans" /\ Archive!ReadOrder[8] = "assessment_results"
    /\ Archive!ReadOrder[9] = "score_snapshots" /\ Archive!ReadOrder[10] = "composite_score_snapshots"
    /\ Archive!ReadOrder[11] = "owner_revisions" /\ Archive!ReadOrder[12] = "weekly_execution_reviews"
BY DEF Archive!ReadOrder

\* No table is read twice.
LEMMA ReadOnce ==
    ASSUME NEW i \in 1 .. 12, NEW j \in 1 .. 12, Archive!ReadOrder[i] = Archive!ReadOrder[j]
    PROVE  i = j
<1>1. \A k \in 1 .. 12 : \/ k = 1 \/ k = 2 \/ k = 3 \/ k = 4 \/ k = 5 \/ k = 6
                         \/ k = 7 \/ k = 8 \/ k = 9 \/ k = 10 \/ k = 11 \/ k = 12
  OBVIOUS
<1> QED BY <1>1, TheTables

LEMMA TableNames ==
    /\ Archive!Table = {Archive!ReadOrder[i] : i \in 1 .. 12}
    /\ {"assessment_runs", "practice_sprints", "practice_check_ins", "evidence_events",
        "practice_reviews", "completion_credit_events", "weekly_execution_plans"} \subseteq Archive!Table
<1>1. Archive!Table = {Archive!ReadOrder[i] : i \in 1 .. 12}
  BY TheTables DEF Archive!Table
<1> QED BY <1>1, TheTables

\* What rows refer to, in tables the archive reads.
Refers(held) == \A t \in Archive!Table : \A r \in held[t] : \A ref \in r.refs : ref.table \in Archive!Table

\* While the archive is drawn: what was there when it was asked for and is read by now is in it,
\* and once the lists are complete, whatever the archive holds it can name.
ArchiveInv ==
    /\ db = [t \in Archive!Table |-> db[t]] /\ read = [t \in Archive!Table |-> read[t]]
    /\ Refers(db) /\ Refers(read)
    /\ at \in 0 .. 14
    /\ \A t \in Archive!Table : asked[t] \subseteq db[t]
    /\ at \in 1 .. 13 =>
         /\ \A i \in 1 .. 12 : i < at => asked[Archive!ReadOrder[i]] \subseteq read[Archive!ReadOrder[i]]
         /\ \A i \in 1 .. 12 : i >= at => read[Archive!ReadOrder[i]] = {}
    /\ at \in 8 .. 13 =>
         \A i \in 1 .. 12 : i < at => Archive!Resolves(read[Archive!ReadOrder[i]], read)

LEMMA ArchiveEnds == Archive!Done = 13 /\ Archive!Failed = 14
BY TheTables DEF Archive!Done, Archive!Failed

\* The tables the new rows refer to.
LEMMA NewRowsRefer ==
    ASSUME NEW new \in {Archive!Assessment, Archive!Start, Archive!Revision, Archive!CheckIn,
                         Archive!Closeout, Archive!Plan, Archive!WeeklyReview},
           NEW t \in DOMAIN new, NEW ref \in new[t]
    PROVE  ref.table \in Archive!Table
<1>1. /\ \A u : Archive!Ref(u).table = u /\ Archive!New(u).table = u
  BY DEF Archive!Ref, Archive!New
<1>2. CASE new = Archive!Assessment
  BY <1>1, <1>2, TableNames DEF Archive!Assessment
<1>3. CASE new = Archive!Start
  BY <1>1, <1>3, TableNames DEF Archive!Start
<1>4. CASE new = Archive!Revision
  BY <1>1, <1>4, TableNames DEF Archive!Revision
<1>5. CASE new = Archive!CheckIn
  BY <1>1, <1>5, TableNames DEF Archive!CheckIn
<1>6. CASE new = Archive!Closeout
  BY <1>1, <1>6, TableNames DEF Archive!Closeout
<1>7. CASE new = Archive!Plan
  BY <1>1, <1>7, TableNames DEF Archive!Plan
<1>8. CASE new = Archive!WeeklyReview
  BY <1>1, <1>8, TableNames DEF Archive!WeeklyReview
<1> QED BY <1>2, <1>3, <1>4, <1>5, <1>6, <1>7, <1>8

\* A row is never taken back.
LEMMA CommitsAdd ==
    ASSUME ArchiveInv,
           NEW new \in {Archive!Assessment, Archive!Start, Archive!Revision, Archive!CheckIn,
                         Archive!Closeout, Archive!Plan, Archive!WeeklyReview},
           Archive!Commit(new)
    PROVE  ArchiveInv'
<1> DEFINE row(t) == [id |-> clock + 1, refs |-> new[t]]
<1>1. UNCHANGED <<asked, read, at>>
  BY DEF Archive!Commit
<1>2. db' = [t \in Archive!Table |-> IF t \in DOMAIN new THEN db[t] \cup {row(t)} ELSE db[t]]
  BY DEF Archive!Commit
<1>3. \A t : row(t).refs = new[t]
  OBVIOUS
<1> HIDE DEF row
<1>4. Refers(db')
  BY <1>2, <1>3, NewRowsRefer DEF ArchiveInv, Refers
<1>5. \A t \in Archive!Table : asked[t] \subseteq db'[t]
  BY <1>2 DEF ArchiveInv
<1> QED BY <1>1, <1>2, <1>4, <1>5 DEF ArchiveInv, Refers, Archive!Resolves

\* What is held can still be named when more is held.
LEMMA ResolvesMore ==
    ASSUME NEW held, NEW more, NEW some, Archive!Resolves(some, held),
           \A r \in some : \A ref \in r.refs : ref.table \in Archive!Table,
           \A t \in Archive!Table : held[t] \subseteq more[t]
    PROVE  Archive!Resolves(some, more)
BY DEF Archive!Resolves

LEMMA NextQuery == ASSUME ArchiveInv, Archive!ReadTable PROVE ArchiveInv'
<1> DEFINE R == Archive!ReadOrder
<1>1. at \in 1 .. 12 /\ UNCHANGED <<db, clock, asked>>
  BY TheTables DEF Archive!ReadTable
<1>2. \A i \in 1 .. 12 : R[i] \in Archive!Table
  BY TableNames
<1>3. read' = [t \in Archive!Table |-> IF t = R[at] THEN db[t] ELSE read[t]]
  BY <1>1 DEF Archive!ReadTable, ArchiveInv
<1>4. \A i, j \in 1 .. 12 : R[i] = R[j] => i = j
  BY ReadOnce
<1>14. /\ \A i \in 1 .. 12 : i < at => asked[R[i]] \subseteq read[R[i]]
       /\ \A i \in 1 .. 12 : i >= at => read[R[i]] = {}
       /\ at \in 8 .. 13 => \A i \in 1 .. 12 : i < at => Archive!Resolves(read[R[i]], read)
  <2>1. at \in 1 .. 13
    BY <1>1
  <2> QED BY <2>1, Zenon DEF ArchiveInv
<1> HIDE DEF R
<1>5. Refers(read') /\ Refers(db')
  BY <1>1, <1>3 DEF ArchiveInv, Refers
<1>6. \A t \in Archive!Table : read[t] \subseteq read'[t]
  BY <1>1, <1>2, <1>3, <1>14
<1>7. at' = at + 1 \/ at' = 14
  BY ArchiveEnds DEF Archive!ReadTable
<1>8. \A i \in 1 .. 12 : i < at + 1 => asked[R[i]] \subseteq read'[R[i]]
  <2> TAKE i \in 1 .. 12
  <2>1. CASE i = at
    BY <1>1, <1>2, <1>3, <2>1 DEF ArchiveInv
  <2>2. CASE i < at
    BY <1>2, <1>6, <1>14, <2>2
  <2> QED BY <1>1, <2>1, <2>2
<1>9. \A i \in 1 .. 12 : i >= at + 1 => read'[R[i]] = {}
  <2> TAKE i \in 1 .. 12
  <2> HAVE i >= at + 1
  <2>1. R[i] # R[at] /\ read[R[i]] = {}
    BY <1>1, <1>4, <1>14
  <2> QED BY <1>2, <1>3, <2>1
<1>10. ASSUME at' \in 8 .. 13, NEW i \in 1 .. 12, i < at'
       PROVE  Archive!Resolves(read'[R[i]], read')
  <2>1. at' = at + 1 /\ at \in 7 .. 12
    BY <1>1, <1>7, <1>10
  <2>2. CASE at = 7
    <3>1. \A k \in 1 .. 7 : Archive!Resolves(read'[R[k]], read')
      BY <2>1, <2>2, ArchiveEnds DEF Archive!ReadTable, Archive!Listed, R
    <3> QED BY <2>1, <2>2, <3>1, <1>10
  <2>3. CASE at > 7 /\ i = at
    <3>1. Archive!Resolves(db[R[at]], read) /\ read'[R[at]] = db[R[at]]
      BY <1>1, <1>2, <1>3, <2>1, <2>3, ArchiveEnds DEF Archive!ReadTable, Archive!Listed, R
    <3>2. \A r \in db[R[at]] : \A ref \in r.refs : ref.table \in Archive!Table
      BY <1>1, <1>2 DEF ArchiveInv, Refers
    <3> QED BY <1>6, <2>3, <3>1, <3>2, ResolvesMore
  <2>4. CASE at > 7 /\ i < at
    <3>1. Archive!Resolves(read[R[i]], read) /\ read'[R[i]] = read[R[i]]
      BY <1>1, <1>2, <1>3, <1>4, <1>14, <2>4
    <3>2. \A r \in read[R[i]] : \A ref \in r.refs : ref.table \in Archive!Table
      BY <1>2 DEF ArchiveInv, Refers
    <3> QED BY <1>6, <3>1, <3>2, ResolvesMore
  <2> QED BY <2>1, <2>2, <2>3, <2>4, <1>10
<1>11. /\ read' = [t \in Archive!Table |-> read'[t]] /\ at' \in 0 .. 14
       /\ at' \in 1 .. 13 => at' = at + 1
  BY <1>1, <1>3, <1>7
<1> QED BY <1>1, <1>5, <1>8, <1>9, <1>10, <1>11 DEF ArchiveInv, R

LEMMA ArchiveStep == ASSUME ArchiveInv, [Archive!Next]_archiveVars PROVE ArchiveInv'
<1>1. CASE UNCHANGED archiveVars
  <2>1. Archive!Table' = Archive!Table /\ UNCHANGED <<db, asked, read, at>>
    BY <1>1 DEF archiveVars
  <2> QED BY <2>1 DEF ArchiveInv, Refers, Archive!Resolves
<1>2. CASE Archive!Request
  BY <1>2, CommitsAdd DEF Archive!Request
<1>3. CASE Archive!Ask
  BY <1>3, TableNames DEF Archive!Ask, ArchiveInv, Refers
<1>4. CASE Archive!ReadTable
  BY <1>4, NextQuery
<1>5. CASE Archive!Deliver
  BY <1>5 DEF Archive!Deliver, ArchiveInv, Refers
<1> QED BY <1>1, <1>2, <1>3, <1>4, <1>5 DEF Archive!Next

\* An archive that is delivered holds every row there was when it was asked for, and whatever a
\* row of it refers to, for any requests committed while it is drawn.
THEOREM ArchivesAreWhole == Spec => []ArchiveIsWhole
<1>1. Init => ArchiveInv
  BY DEF Init, Archive!Init, ArchiveInv, Refers
<1>2. ArchiveInv /\ [Next]_vars => ArchiveInv'
  <2> SUFFICES ASSUME ArchiveInv, [Next]_vars PROVE ArchiveInv'
    OBVIOUS
  <2>1. [Archive!Next]_archiveVars
    BY DEF Next, vars
  <2> QED BY <2>1, ArchiveStep
<1>3. ArchiveInv => ArchiveIsWhole
  <2> SUFFICES ASSUME ArchiveInv, at = 13, NEW t \in Archive!Table
               PROVE  asked[t] \subseteq read[t] /\ Archive!Resolves(read[t], read)
    BY ArchiveEnds DEF ArchiveIsWhole, Archive!ArchiveIsWhole
  <2>1. PICK i \in 1 .. 12 : t = Archive!ReadOrder[i]
    BY TableNames
  <2>2. at \in 1 .. 13 /\ at \in 8 .. 13 /\ i < at
    OBVIOUS
  <2> QED BY <2>1, <2>2, Zenon DEF ArchiveInv
<1> QED BY <1>1, <1>2, <1>3, PTL DEF Spec

-----------------------------------------------------------------------------
(* CalibrationConsent *)

LEMMA Appended ==
    ASSUME NEW S, NEW s \in Seq(S), NEW e \in S, NEW t, t = Append(s, e)
    PROVE  /\ t \in Seq(S) /\ Len(t) = Len(s) + 1 /\ DOMAIN t = 1 .. Len(s) + 1
           /\ t[Len(s) + 1] = e /\ \A i \in 1 .. Len(s) : t[i] = s[i]
OBVIOUS

LEMMA SameCardinality == ASSUME NEW S PROVE Consent!Cardinality(S) = Cardinality(S)
BY DEF Consent!Cardinality, Cardinality

ConsentRow == [run : Consent!Run, state : {"consented", "withdrawn"}, token : Nat, revision : Nat]

\* A history of consent: it verifies, later rows of a run have higher numbers, and a pseudonym is
\* no higher than the row it came with (which makes the next one new).
Consents(h) ==
    /\ h \in Seq(ConsentRow)
    /\ \A i \in 1 .. Len(h) : h[i].token \in 1 .. i
    /\ \A i, j \in 1 .. Len(h) : i < j /\ h[i].run = h[j].run => h[i].revision < h[j].revision
    /\ Consent!ValidHistory(h)

LEMMA ConsentRows ==
    ASSUME NEW h, Consents(h), NEW r \in Consent!Run
    PROVE  /\ DOMAIN h = 1 .. Len(h) /\ Len(h) \in Nat
           /\ Consent!RowsOf(r, h) = {i \in 1 .. Len(h) : h[i].run = r}
           /\ IsFiniteSet(Consent!RowsOf(r, h)) /\ Cardinality(Consent!RowsOf(r, h)) \in Nat
           /\ {h[i].revision : i \in Consent!RowsOf(r, h)} = 1 .. Cardinality(Consent!RowsOf(r, h))
           /\ \A i \in 1 .. Len(h) : h[i] \in ConsentRow
<1>1. DOMAIN h = 1 .. Len(h) /\ Len(h) \in Nat /\ \A i \in 1 .. Len(h) : h[i] \in ConsentRow
  BY DEF Consents
<1>2. Consent!RowsOf(r, h) = {i \in 1 .. Len(h) : h[i].run = r}
  BY <1>1 DEF Consent!RowsOf
<1>3. IsFiniteSet(Consent!RowsOf(r, h))
  <2>1. IsFiniteSet(1 .. Len(h))
    BY <1>1, FS_Interval
  <2> QED BY <1>2, <2>1, FS_Subset
<1>4. Cardinality(Consent!RowsOf(r, h)) \in Nat
  BY <1>3, FS_CardinalityType
<1>5. {h[i].revision : i \in Consent!RowsOf(r, h)} = 1 .. Cardinality(Consent!RowsOf(r, h))
  BY SameCardinality DEF Consents, Consent!ValidHistory
<1> QED BY <1>1, <1>2, <1>3, <1>4, <1>5

\* The row with the highest number is the latest one.
LEMMA LatestIs ==
    ASSUME NEW h, Consents(h), NEW r \in Consent!Run, NEW i \in Consent!RowsOf(r, h),
           \A j \in Consent!RowsOf(r, h) : h[j].revision =< h[i].revision
    PROVE  Consent!Latest(r, h) = h[i] /\ Consent!Standing(r, h) = h[i].state
<1> DEFINE k == CHOOSE k \in Consent!RowsOf(r, h) :
                  \A j \in Consent!RowsOf(r, h) : h[j].revision =< h[k].revision
<1>1. k \in Consent!RowsOf(r, h) /\ \A j \in Consent!RowsOf(r, h) : h[j].revision =< h[k].revision
  OBVIOUS
<1>2. Consent!Latest(r, h) = h[k]
  BY DEF Consent!Latest
<1> HIDE DEF k
<1>3. /\ i \in 1 .. Len(h) /\ k \in 1 .. Len(h) /\ h[i].run = r /\ h[k].run = r
      /\ h[i].revision \in Nat /\ h[k].revision \in Nat
  BY <1>1, ConsentRows DEF ConsentRow
<1>4. h[i].revision =< h[k].revision /\ h[k].revision =< h[i].revision
  BY <1>1
<1>5. i = k
  BY <1>3, <1>4 DEF Consents
<1> QED BY <1>2, <1>5 DEF Consent!Standing

LEMMA LatestExists ==
    ASSUME NEW h, Consents(h), NEW r \in Consent!Run, Consent!RowsOf(r, h) # {}
    PROVE  \E i \in Consent!RowsOf(r, h) :
              /\ \A j \in Consent!RowsOf(r, h) : h[j].revision =< h[i].revision
              /\ Consent!Latest(r, h) = h[i] /\ Consent!Standing(r, h) = h[i].state
<1> DEFINE S == Consent!RowsOf(r, h) 
           n == Cardinality(S)
<1>1. n \in Nat /\ n # 0
  BY ConsentRows, FS_EmptySet
<1>2. {h[i].revision : i \in S} = 1 .. n
  BY ConsentRows
<1> HIDE DEF S, n
<1>3. PICK i \in S : h[i].revision = n
  BY <1>1, <1>2
<1>4. \A j \in S : h[j].revision =< h[i].revision
  BY <1>1, <1>2, <1>3
<1> QED BY <1>3, <1>4, LatestIs DEF S

\* A participant keeps the pseudonym; a new participant gets a new one.
LEMMA PseudonymIs ==
    ASSUME NEW h, Consents(h), NEW r \in Consent!Run
    PROVE  /\ Consent!Pseudonym(r, h) \in 1 .. Len(h) + 1
           /\ \A i \in 1 .. Len(h) :
                Owner[h[i].run] = Owner[r] <=> h[i].token = Consent!Pseudonym(r, h)
<1> DEFINE own == {i \in DOMAIN h : Owner[h[i].run] = Owner[r]}
<1>1. DOMAIN h = 1 .. Len(h) /\ Len(h) \in Nat /\ \A i \in 1 .. Len(h) : h[i] \in ConsentRow
  BY ConsentRows
<1>2. \A i \in 1 .. Len(h) : h[i].token \in 1 .. i
  BY DEF Consents
<1>3. CASE own = {}
  <2>1. Consent!Pseudonym(r, h) = Len(h) + 1
    BY <1>3 DEF Consent!Pseudonym
  <2>2. \A i \in 1 .. Len(h) : Owner[h[i].run] # Owner[r]
    BY <1>1, <1>3
  <2>3. \A i \in 1 .. Len(h) : h[i].token # Len(h) + 1
    BY <1>1, <1>2
  <2> QED BY <1>1, <2>1, <2>2, <2>3
<1>4. CASE own # {}
  <2> DEFINE first == CHOOSE i \in own : h[i].revision = 1
  <2>1. PICK k \in 1 .. Len(h) : Owner[h[k].run] = Owner[r]
    BY <1>1, <1>4
  <2>2. h[k].run \in Consent!Run /\ k \in Consent!RowsOf(h[k].run, h)
    BY <1>1, ConsentRows DEF ConsentRow
  <2>3. PICK i \in Consent!RowsOf(h[k].run, h) : h[i].revision = 1
    <3> DEFINE S == Consent!RowsOf(h[k].run, h)
    <3>1. Cardinality(S) \in Nat /\ Cardinality(S) # 0 /\ {h[i].revision : i \in S} = 1 .. Cardinality(S)
      BY <2>2, ConsentRows, FS_EmptySet
    <3> QED BY <3>1
  <2>4. i \in own
    BY <1>1, <2>1, <2>2, <2>3, ConsentRows
  <2>5. first \in own
    BY <2>3, <2>4
  <2>6. Consent!Pseudonym(r, h) = h[first].token
    BY <1>4 DEF Consent!Pseudonym
  <2> HIDE DEF first
  <2>7. first \in 1 .. Len(h) /\ Owner[h[first].run] = Owner[r]
    BY <1>1, <2>5
  <2>8. \A j \in 1 .. Len(h) : Owner[h[j].run] = Owner[h[first].run] <=> h[j].token = h[first].token
    BY <1>1, <2>7 DEF Consents, Consent!ValidHistory
  <2>9. h[first].token \in 1 .. Len(h) + 1
    BY <1>1, <1>2, <2>7
  <2> QED BY <2>6, <2>7, <2>8, <2>9
<1> QED BY <1>3, <1>4

\* The next revision of a run is the latest one; the other runs stand as they stood.
LEMMA NextConsent ==
    ASSUME NEW h, Consents(h), NEW r \in Consent!Run, r \notin Demo,
           NEW g \in Seq(ConsentRow), Len(g) = Len(h) + 1, \A i \in 1 .. Len(h) : g[i] = h[i],
           NEW new \in ConsentRow, g[Len(h) + 1] = new,
           new.run = r, new.token = Consent!Pseudonym(r, h),
           new.revision = Cardinality(Consent!RowsOf(r, h)) + 1
    PROVE  /\ Consents(g) /\ Consent!Standing(r, g) = new.state
           /\ \A q \in Consent!Run : q # r => Consent!Standing(q, g) = Consent!Standing(q, h)
<1> DEFINE n == Cardinality(Consent!RowsOf(r, h))
           m == Len(h) + 1
<1>1. DOMAIN h = 1 .. Len(h) /\ Len(h) \in Nat /\ \A i \in 1 .. Len(h) : h[i] \in ConsentRow
  BY ConsentRows
<1>2. n \in Nat /\ {h[i].revision : i \in Consent!RowsOf(r, h)} = 1 .. n
  BY ConsentRows
<1>3. /\ Consent!Pseudonym(r, h) \in 1 .. m
      /\ \A i \in 1 .. Len(h) : Owner[h[i].run] = Owner[r] <=> h[i].token = Consent!Pseudonym(r, h)
  BY PseudonymIs
<1>4. Len(g) = m /\ DOMAIN g = 1 .. m /\ g[m] = new /\ \A i \in 1 .. Len(h) : g[i] = h[i]
  OBVIOUS
<1>5. new.run = r /\ new.token = Consent!Pseudonym(r, h) /\ new.revision = n + 1
  OBVIOUS
<1>6. \A i \in 1 .. m : i = m \/ i \in 1 .. Len(h)
  BY <1>1
<1>7. Consent!RowsOf(r, g) = Consent!RowsOf(r, h) \cup {m}
  BY <1>1, <1>4, <1>5, <1>6 DEF Consent!RowsOf
<1>8. \A q \in Consent!Run : q # r => Consent!RowsOf(q, g) = Consent!RowsOf(q, h)
  BY <1>1, <1>4, <1>5, <1>6 DEF Consent!RowsOf
<1>9. m \notin Consent!RowsOf(r, h) /\ Consent!RowsOf(r, h) \subseteq 1 .. Len(h)
  BY <1>1 DEF Consent!RowsOf
<1>10. Cardinality(Consent!RowsOf(r, g)) = n + 1
  <2>1. IsFiniteSet(Consent!RowsOf(r, h))
    BY ConsentRows
  <2>2. Cardinality(Consent!RowsOf(r, h) \cup {m}) = n + 1
    BY <1>9, <2>1, FS_AddElement
  <2> QED BY <1>7, <2>2
<1>11. \A q \in Consent!Run : Consent!RowsOf(q, h) \subseteq 1 .. Len(h)
  BY <1>1 DEF Consent!RowsOf
<1> HIDE DEF n, m
<1>12. {g[i].revision : i \in Consent!RowsOf(r, g)} = 1 .. n + 1
  <2>1. \A i \in Consent!RowsOf(r, h) : g[i] = h[i]
    BY <1>4, <1>9
  <2>2. {g[i].revision : i \in Consent!RowsOf(r, g)}
          = {h[i].revision : i \in Consent!RowsOf(r, h)} \cup {n + 1}
    <3>1. \A i \in Consent!RowsOf(r, g) : i \in Consent!RowsOf(r, h) \/ i = m
      BY <1>7
    <3>2. m \in Consent!RowsOf(r, g) /\ g[m].revision = n + 1
      BY <1>4, <1>5, <1>7, Zenon
    <3>3. Consent!RowsOf(r, h) \subseteq Consent!RowsOf(r, g)
      BY <1>7
    <3> QED BY <2>1, <3>1, <3>2, <3>3, Zenon
  <2>3. 1 .. n + 1 = (1 .. n) \cup {n + 1}
    BY <1>2
  <2> QED BY <1>2, <2>2, <2>3
<1>13. \A q \in Consent!Run :
         {g[i].revision : i \in Consent!RowsOf(q, g)} = 1 .. Consent!Cardinality(Consent!RowsOf(q, g))
  <2> TAKE q \in Consent!Run
  <2>1. CASE q = r
    BY <1>10, <1>12, <2>1, SameCardinality
  <2>2. CASE q # r
    <3>1. \A i \in Consent!RowsOf(q, h) : g[i] = h[i]
      BY <1>4, <1>11
    <3>2. {g[i].revision : i \in Consent!RowsOf(q, g)} = {h[i].revision : i \in Consent!RowsOf(q, h)}
      BY <1>8, <2>2, <3>1
    <3> QED BY <1>8, <2>2, <3>2, ConsentRows, SameCardinality
  <2> QED BY <2>1, <2>2
<1>14. \A i \in 1 .. m : g[i].run \notin Demo
  BY <1>1, <1>4, <1>5, <1>6 DEF Consents, Consent!ValidHistory
<1>15. \A i, j \in 1 .. m : Owner[g[i].run] = Owner[g[j].run] <=> g[i].token = g[j].token
  <2>1. \A i, j \in 1 .. Len(h) : Owner[h[i].run] = Owner[h[j].run] <=> h[i].token = h[j].token
    BY <1>1 DEF Consents, Consent!ValidHistory
  <2> QED BY <1>3, <1>4, <1>5, <1>6, <2>1
<1>16. Consent!ValidHistory(g)
  <2>1. DOMAIN g = 1 .. m
    BY <1>4
  <2>2. \A i \in DOMAIN g : g[i].run \notin Demo
    BY <1>14, <2>1, Zenon
  <2>3. \A i, j \in DOMAIN g : Owner[g[i].run] = Owner[g[j].run] <=> g[i].token = g[j].token
    <3> TAKE i, j \in DOMAIN g
    <3>1. i \in 1 .. m /\ j \in 1 .. m
      BY <2>1
    <3> QED BY <1>15, <3>1, Zenon
  <2> QED BY <1>13, <2>2, <2>3, Zenon DEF Consent!ValidHistory
<1>17. \A i \in 1 .. m : g[i].token \in 1 .. i
  BY <1>3, <1>4, <1>5, <1>6 DEF Consents
<1>18. \A i, j \in 1 .. m : i < j /\ g[i].run = g[j].run => g[i].revision < g[j].revision
  <2> SUFFICES ASSUME NEW i \in 1 .. m, NEW j \in 1 .. m, i < j, g[i].run = g[j].run
               PROVE  g[i].revision < g[j].revision
    OBVIOUS
  <2>1. i \in 1 .. Len(h) /\ g[i] = h[i]
    BY <1>1, <1>4, <1>6 DEF m
  <2>2. CASE j = m
    <3>1. h[i].run = r /\ i \in Consent!RowsOf(r, h)
      BY <1>1, <1>4, <1>5, <2>1, <2>2 DEF Consent!RowsOf
    <3>2. h[i].revision \in 1 .. n
      BY <1>2, <3>1
    <3> QED BY <1>2, <1>4, <1>5, <2>1, <2>2, <3>2
  <2>3. CASE j \in 1 .. Len(h)
    BY <1>4, <2>1, <2>3 DEF Consents
  <2> QED BY <1>6, <2>2, <2>3
<1>19. Consents(g)
  BY <1>4, <1>16, <1>17, <1>18 DEF Consents
<1>20. Consent!Standing(r, g) = new.state
  <2>1. m \in Consent!RowsOf(r, g)
    BY <1>7
  <2>2. \A j \in Consent!RowsOf(r, g) : g[j].revision \in 1 .. n + 1
    BY <1>12
  <2>3. \A j \in Consent!RowsOf(r, g) : g[j].revision =< g[m].revision
    <3>1. g[m].revision = n + 1
      BY <1>4, <1>5, Zenon
    <3>2. n \in Nat
      BY <1>2
    <3>3. \A x \in 1 .. n + 1 : x =< n + 1
      BY <3>2
    <3> QED BY <2>2, <3>1, <3>3, Zenon
  <2> QED BY <1>4, <1>5, <1>19, <2>1, <2>3, LatestIs
<1>21. ASSUME NEW q \in Consent!Run, q # r
       PROVE  Consent!Standing(q, g) = Consent!Standing(q, h)
  <2>1. CASE Consent!RowsOf(q, h) = {}
    BY <1>8, <1>21, <2>1 DEF Consent!Standing
  <2>2. CASE Consent!RowsOf(q, h) # {}
    <3>1. PICK i \in Consent!RowsOf(q, h) :
             /\ \A j \in Consent!RowsOf(q, h) : h[j].revision =< h[i].revision
             /\ Consent!Standing(q, h) = h[i].state
      BY <2>2, LatestExists
    <3>2. \A j \in Consent!RowsOf(q, h) : g[j] = h[j]
      BY <1>4, <1>11
    <3>3. i \in Consent!RowsOf(q, g) /\ \A j \in Consent!RowsOf(q, g) : g[j].revision =< g[i].revision
      BY <1>8, <1>21, <3>1, <3>2
    <3>4. Consent!Standing(q, g) = g[i].state
      BY <1>19, <3>3, LatestIs
    <3> QED BY <3>1, <3>2, <3>4
  <2> QED BY <2>1, <2>2
<1> QED BY <1>19, <1>20, <1>21

\* What is in a dataset was wanted there when it was read, each participant under one pseudonym.
Consented(dataset) ==
    /\ {c.run : c \in dataset.runs} = {r \in Consent!Run : dataset.wished[r] = "consented"}
    /\ \A c, d \in dataset.runs : Owner[c.run] = Owner[d.run] <=> c.token = d.token

\* What the owners asked for last is what the history says, so that a dataset read from it is what
\* they wanted; a request may be late, but is of a run that may be contributed.
ConsentInv ==
    /\ Consents(rows)
    /\ consent = [w \in Worker |-> consent[w]]
    /\ \A w \in Worker :
         consent[w] # Consent!NoAnalysis =>
            /\ consent[w].run \in Consent!Run \ Demo
            /\ consent[w].state \in {"consented", "withdrawn"}
    /\ wishes = [r \in Consent!Run |-> Consent!Standing(r, rows)]
    /\ draft # Consent!NoFile => draft # Consent!Partial /\ Consented(draft)
    /\ file \notin {Consent!NoFile, Consent!Partial} => Consented(file)

LEMMA ConsentInit == Consent!Init => ConsentInv
<1> SUFFICES ASSUME Consent!Init PROVE ConsentInv
  OBVIOUS
<1>1. rows = <<>> /\ Len(rows) = 0 /\ DOMAIN rows = {}
  BY DEF Consent!Init
<1>2. \A r : Consent!RowsOf(r, rows) = {}
  BY <1>1 DEF Consent!RowsOf
<1>3. Consent!ValidHistory(rows)
  <2>1. Consent!Cardinality({}) = 0
    BY SameCardinality, FS_EmptySet
  <2>2. 1 .. 0 = {}
    OBVIOUS
  <2> QED BY <1>1, <1>2, <2>1, <2>2 DEF Consent!ValidHistory
<1>4. Consents(rows)
  BY <1>1, <1>3 DEF Consents
<1> QED BY <1>2, <1>4 DEF Consent!Init, ConsentInv, Consent!Standing

\* Whoever asks to withdraw had given consent, and only an assessment of one's own can be given.
LEMMA AskIsOwn ==
    ASSUME ConsentInv, NEW w \in Worker, NEW r \in Consent!Run, NEW s \in {"consented", "withdrawn"},
           Consent!Ask(w, r, s)
    PROVE  ConsentInv'
<1>1. UNCHANGED <<rows, version, draft, file, wishes>>
  BY DEF Consent!Ask
<1>2. consent' = [v \in Worker |-> IF v = w THEN [run |-> r, state |-> s, seen |-> rows] ELSE consent[v]]
  BY DEF Consent!Ask, ConsentInv
<1>3. r \notin Demo
  <2>1. CASE s = "consented"
    BY <2>1 DEF Consent!Ask, Consent!ValidPayload
  <2>2. CASE s = "withdrawn"
    <3>1. Consent!RowsOf(r, rows) # {}
      BY <2>2 DEF Consent!Ask, Consent!Standing
    <3>2. PICK i \in DOMAIN rows : rows[i].run = r
      BY <3>1 DEF Consent!RowsOf
    <3> QED BY <3>2 DEF ConsentInv, Consents, Consent!ValidHistory
  <2> QED BY <2>1, <2>2
<1>4. \A v \in Worker : consent'[v] # Consent!NoAnalysis =>
         /\ consent'[v].run \in Consent!Run \ Demo
         /\ consent'[v].state \in {"consented", "withdrawn"}
  BY <1>2, <1>3 DEF ConsentInv
<1> QED BY <1>1, <1>2, <1>4 DEF ConsentInv, Consented

\* A request that is late changes nothing; one in time makes the wish stand.
LEMMA RecordKeepsConsent ==
    ASSUME ConsentInv, NEW w \in Worker, Consent!Record(w)
    PROVE  ConsentInv'
<1> DEFINE c == consent[w]
<1>1. /\ UNCHANGED <<version, draft, file>>
      /\ consent' = [v \in Worker |-> IF v = w THEN Consent!NoAnalysis ELSE consent[v]]
  BY DEF Consent!Record, ConsentInv
<1>2. c.run \in Consent!Run /\ c.run \notin Demo /\ c.state \in {"consented", "withdrawn"}
  BY DEF Consent!Record, ConsentInv
<1>3. /\ Consents(rows) /\ wishes = [r \in Consent!Run |-> Consent!Standing(r, rows)]
  BY DEF ConsentInv
<1>4. CASE Consent!Standing(c.run, c.seen) = c.state
  <2>1. rows' = rows /\ (wishes' = wishes \/ (c.seen = rows /\ wishes' = [wishes EXCEPT ![c.run] = c.state]))
    BY <1>4 DEF Consent!Record
  <2>2. wishes' = wishes
    BY <1>2, <1>3, <1>4, <2>1
  <2> QED BY <1>1, <2>1, <2>2 DEF ConsentInv, Consented
<1>5. CASE Consent!Standing(c.run, c.seen) # c.state /\ c.seen # rows
  <2>1. UNCHANGED <<rows, wishes>>
    BY <1>5 DEF Consent!Record
  <2> QED BY <1>1, <2>1 DEF ConsentInv, Consented
<1>6. CASE Consent!Standing(c.run, c.seen) # c.state /\ c.seen = rows
  <2>1. /\ rows' = Append(rows, [run |-> c.run, state |-> c.state, token |-> Consent!Pseudonym(c.run, rows),
                                 revision |-> Consent!Cardinality(Consent!RowsOf(c.run, rows)) + 1])
        /\ wishes' = [wishes EXCEPT ![c.run] = c.state]
    BY <1>6 DEF Consent!Record
  <2> HIDE DEF c
  <2>2. /\ Consents(rows') /\ Consent!Standing(c.run, rows') = c.state
        /\ \A q \in Consent!Run : q # c.run => Consent!Standing(q, rows') = Consent!Standing(q, rows)
    <3>1. ASSUME NEW h, h = rows, NEW g, g = rows', NEW r, r = c.run, NEW s, s = c.state
          PROVE  /\ Consents(g) /\ Consent!Standing(r, g) = s
                 /\ \A q \in Consent!Run : q # r => Consent!Standing(q, g) = Consent!Standing(q, h)
      <4> DEFINE new == [run |-> r, state |-> s, token |-> Consent!Pseudonym(r, h),
                         revision |-> Cardinality(Consent!RowsOf(r, h)) + 1]
      <4>1. r \in Consent!Run /\ r \notin Demo /\ s \in {"consented", "withdrawn"} /\ Consents(h)
        BY <1>2, <1>3, <3>1
      <4>2. g = Append(h, new)
        BY <2>1, <3>1, SameCardinality
      <4>3. new \in ConsentRow
        BY <4>1, ConsentRows, PseudonymIs DEF ConsentRow
      <4>4. /\ new.run = r /\ new.state = s /\ new.token = Consent!Pseudonym(r, h)
            /\ new.revision = Cardinality(Consent!RowsOf(r, h)) + 1
        OBVIOUS
      <4> HIDE DEF new
      <4>5. h \in Seq(ConsentRow)
        BY <4>1 DEF Consents
      <4>6. /\ g \in Seq(ConsentRow) /\ Len(g) = Len(h) + 1 /\ \A i \in 1 .. Len(h) : g[i] = h[i]
            /\ g[Len(h) + 1] = new
        BY <4>2, <4>3, <4>5, Appended
      <4> QED BY <4>1, <4>3, <4>4, <4>6, NextConsent
    <3> QED BY <3>1
  <2>3. wishes' = [r \in Consent!Run |-> Consent!Standing(r, rows')]
    BY <1>2, <1>3, <2>1, <2>2
  <2> QED BY <1>1, <2>2, <2>3 DEF ConsentInv, Consented
<1> QED BY <1>4, <1>5, <1>6

\* A dataset is what the history says, which is what was wanted.
LEMMA DatasetIsConsented ==
    ASSUME ConsentInv, Consent!ReadDataset
    PROVE  draft' # Consent!Partial /\ Consented(draft')
<1> DEFINE active == Consent!Active(rows)
<1>1. /\ draft' = [kind |-> "whole", runs |-> {Consent!Contribution(r, rows) : r \in active}, wished |-> wishes]
  BY DEF Consent!ReadDataset
<1>2. draft'.kind = "whole" /\ draft'.wished = wishes
      /\ draft'.runs = {Consent!Contribution(r, rows) : r \in active}
  BY <1>1
<1>3. draft' # Consent!Partial
  BY <1>2 DEF Consent!Partial
<1>4. \A r \in active : r \in Consent!Run /\ Consent!Contribution(r, rows).run = r
  BY DEF Consent!Active, Consent!Contribution
<1>5. active = {r \in Consent!Run : wishes[r] = "consented"}
  BY DEF Consent!Active, ConsentInv
<1>6. \A r \in active : \E i \in DOMAIN rows :
         rows[i].run = r /\ Consent!Contribution(r, rows).token = rows[i].token
  <2> TAKE r \in active
  <2>1. Consent!RowsOf(r, rows) # {}
    BY DEF Consent!Active, Consent!Standing
  <2>2. PICK i \in Consent!RowsOf(r, rows) : Consent!Latest(r, rows) = rows[i]
    BY <1>4, <2>1, LatestExists DEF ConsentInv
  <2> QED BY <2>2 DEF Consent!RowsOf, Consent!Contribution
<1> HIDE DEF active
<1>7. {c.run : c \in draft'.runs} = active
  BY <1>2, <1>4
<1>8. \A i, j \in DOMAIN rows :
         Owner[rows[i].run] = Owner[rows[j].run] <=> rows[i].token = rows[j].token
  BY DEF ConsentInv, Consents, Consent!ValidHistory
<1>9. ASSUME NEW q \in active, NEW r \in active
      PROVE  Owner[Consent!Contribution(q, rows).run] = Owner[Consent!Contribution(r, rows).run]
               <=> Consent!Contribution(q, rows).token = Consent!Contribution(r, rows).token
  <2>1. PICK i \in DOMAIN rows : rows[i].run = q /\ Consent!Contribution(q, rows).token = rows[i].token
    BY <1>6
  <2>2. PICK j \in DOMAIN rows : rows[j].run = r /\ Consent!Contribution(r, rows).token = rows[j].token
    BY <1>6
  <2> QED BY <1>4, <1>8, <2>1, <2>2
<1>10. \A c, d \in draft'.runs : Owner[c.run] = Owner[d.run] <=> c.token = d.token
  BY <1>2, <1>9
<1> QED BY <1>2, <1>3, <1>5, <1>7, <1>10 DEF Consented

LEMMA ConsentStep == ASSUME ConsentInv, [Consent!Next]_consentVars PROVE ConsentInv'
<1>1. CASE UNCHANGED consentVars
  BY <1>1 DEF consentVars, ConsentInv, Consented
<1>2. CASE \E w \in Worker, r \in Consent!Run, s \in {"consented", "withdrawn"} : Consent!Ask(w, r, s)
  BY <1>2, AskIsOwn
<1>3. CASE \E w \in Worker : Consent!Record(w)
  BY <1>3, RecordKeepsConsent
<1>4. CASE Consent!Upgrade
  BY <1>4 DEF Consent!Upgrade, ConsentInv, Consented
<1>5. CASE Consent!ReadDataset
  <2>1. UNCHANGED <<rows, consent, version, file, wishes>>
    BY <1>5 DEF Consent!ReadDataset
  <2> QED BY <1>5, <2>1, DatasetIsConsented DEF ConsentInv, Consented
<1>6. CASE \/ Consent!CreateFile \/ Consent!WriteFile \/ Consent!WriteFails \/ Consent!Crash
           \/ Consent!RemoveFile
  <2>1. /\ UNCHANGED <<rows, consent, version, wishes>> /\ draft' \in {draft, Consent!NoFile}
        /\ file' \in {file, Consent!NoFile, Consent!Partial} \/ (file' = draft /\ draft # Consent!NoFile)
    BY <1>6 DEF Consent!CreateFile, Consent!WriteFile, Consent!WriteFails, Consent!Crash,
       Consent!RemoveFile
  <2> QED BY <2>1 DEF ConsentInv, Consented
<1> QED BY <1>1, <1>2, <1>3, <1>4, <1>5, <1>6 DEF Consent!Next

\* The consent history always verifies, and a dataset holds exactly the runs whose owner wanted
\* them in it when it was read, for any number of workers and participants.
THEOREM ConsentStaysHonoured == Spec => []ConsentIsHonoured
<1>1. Init => ConsentInv
  BY ConsentInit DEF Init
<1>2. ConsentInv /\ [Next]_vars => ConsentInv'
  <2> SUFFICES ASSUME ConsentInv, [Next]_vars PROVE ConsentInv'
    OBVIOUS
  <2>1. [Consent!Next]_consentVars
    BY DEF Next, vars
  <2> QED BY <2>1, ConsentStep
<1>3. ConsentInv => ConsentIsHonoured
  BY DEF ConsentInv, Consents, Consented, ConsentIsHonoured, Consent!ConsentIsHonoured,
     Consent!HistoryVerifies, Consent!DatasetIsConsented
<1> QED BY <1>1, <1>2, <1>3, PTL DEF Spec

-----------------------------------------------------------------------------
(* DataLifecycle *)

\* What a page says of retention: how many items were old, and which they were.
Shown(p) ==
    /\ p.day \in Nat /\ p.day =< today
    /\ p.shown \subseteq Lifecycle!Item
    /\ p.retention.enabled =>
         /\ p.retention.count = Lifecycle!Cardinality(p.shown)
         /\ Lifecycle!Old(p.day) \subseteq p.shown

\* What was old on the day of a page can only become less: what is changed is of today.
LifecycleInv ==
    /\ today \in Nat \ {0} /\ enabled \in BOOLEAN
    /\ changed = [i \in Lifecycle!Item |-> changed[i]]
    /\ \A i \in Lifecycle!Item : changed[i] \in Int /\ changed[i] =< today
    /\ \A p \in pages : Shown(p)

LEMMA LifecycleInit == Lifecycle!Init => LifecycleInv
BY DEF Lifecycle!Init, LifecycleInv

LEMMA PagesStayTrue ==
    ASSUME LifecycleInv, today' \in {today, today + 1}, enabled' \in BOOLEAN, pages' \subseteq pages,
           changed' = [i \in Lifecycle!Item |-> changed'[i]],
           \A i \in Lifecycle!Item : changed'[i] \in {changed[i], today, -1, 0}
    PROVE  LifecycleInv'
<1>1. today \in Nat \ {0} /\ today' \in Nat \ {0} /\ today =< today'
  BY DEF LifecycleInv
<1>2. \A i \in Lifecycle!Item : changed'[i] \in Int /\ changed'[i] =< today'
  BY <1>1 DEF LifecycleInv
<1>3. ASSUME NEW p \in pages PROVE Shown(p)'
  <2>1. Shown(p)
    BY DEF LifecycleInv
  <2>2. Lifecycle!Old(p.day)' \subseteq Lifecycle!Old(p.day)
    BY <1>1, <2>1, LifecycleAssumption DEF Lifecycle!Old, Shown, LifecycleInv
  <2> QED BY <1>1, <2>1, <2>2 DEF Shown
<1> QED BY <1>1, <1>2, <1>3 DEF LifecycleInv

LEMMA LifecycleStep == ASSUME LifecycleInv, [Lifecycle!Next]_lifecycleVars PROVE LifecycleInv'
<1>1. CASE Lifecycle!Open
  <2>1. UNCHANGED <<today, enabled, changed>>
    BY <1>1 DEF Lifecycle!Open, Lifecycle!Others
  <2> DEFINE page == [day |-> today, retention |-> Lifecycle!RetentionPreview(today),
                      deletion |-> Lifecycle!DeletionPreview,
                      shown |-> IF enabled THEN Lifecycle!Old(today) ELSE {}]
  <2>2. pages' = pages \cup {page}
    BY <1>1 DEF Lifecycle!Open
  <2>3. /\ page.day = today /\ page.shown = (IF enabled THEN Lifecycle!Old(today) ELSE {})
        /\ page.retention.enabled = enabled
        /\ page.retention.count = IF enabled THEN Lifecycle!Cardinality(Lifecycle!Old(today)) ELSE 0
    BY DEF Lifecycle!RetentionPreview
  <2> HIDE DEF page
  <2>4. Shown(page)
    BY <2>3 DEF Shown, LifecycleInv, Lifecycle!Old
  <2>5. \A p : Shown(p) => Shown(p)'
    BY <2>1 DEF Shown, Lifecycle!Old
  <2> QED BY <2>1, <2>2, <2>4, <2>5 DEF LifecycleInv
<1>2. CASE \/ UNCHANGED lifecycleVars \/ Lifecycle!NextDay \/ Lifecycle!Configure \/ Lifecycle!SignIn
  <2>1. /\ today' \in {today, today + 1} /\ enabled' \in BOOLEAN /\ pages' \subseteq pages
        /\ changed' = changed
    BY <1>2 DEF LifecycleInv, lifecycleVars, Lifecycle!NextDay, Lifecycle!Configure, Lifecycle!SignIn,
       Lifecycle!Others
  <2> QED BY <2>1, PagesStayTrue DEF LifecycleInv
<1>3. CASE \/ \E i \in Lifecycle!Item : Lifecycle!Change(i)
           \/ \E i \in Draft : Lifecycle!Submit(i)
  <2>1. /\ today' = today /\ enabled' = enabled /\ pages' = pages
        /\ \E i \in Lifecycle!Item : \E d \in {today, -1} : changed' = [changed EXCEPT ![i] = d]
    BY <1>3 DEF Lifecycle!Change, Lifecycle!Submit, Lifecycle!Others, Lifecycle!Item
  <2> QED BY <2>1, PagesStayTrue DEF LifecycleInv
<1>4. CASE \E p \in pages : Lifecycle!ApplyRetention(p) \/ Lifecycle!DeleteAccount(p)
  <2>1. /\ today' = today /\ enabled' = enabled /\ pages' \subseteq pages
        /\ changed' = [i \in Lifecycle!Item |-> changed'[i]]
        /\ \A i \in Lifecycle!Item : changed'[i] \in {changed[i], 0}
    BY <1>4 DEF Lifecycle!ApplyRetention, Lifecycle!DeleteAccount, Lifecycle!Others
  <2> QED BY <2>1, PagesStayTrue DEF LifecycleInv
<1> QED BY <1>1, <1>2, <1>3, <1>4 DEF Lifecycle!Next

\* The count a page carries is enough: what is old by its day is a part of what it showed, and
\* has as many members.
LEMMA CountIsEnough ==
    ASSUME LifecycleInv, NEW p \in pages, Lifecycle!ApplyRetention(p)
    PROVE  Lifecycle!Old(p.day) = p.shown
<1>1. /\ p.retention.enabled
      /\ p.retention.count = Lifecycle!Cardinality(Lifecycle!Old(p.day))
  <2>1. p.retention = Lifecycle!RetentionPreview(p.day) /\ enabled
    BY DEF Lifecycle!ApplyRetention
  <2> QED BY <2>1 DEF Lifecycle!RetentionPreview
<1>2. /\ Lifecycle!Old(p.day) \subseteq p.shown /\ p.shown \subseteq Lifecycle!Item
      /\ p.retention.count = Lifecycle!Cardinality(p.shown)
  BY <1>1 DEF LifecycleInv, Shown
<1>3. IsFiniteSet(p.shown)
  <2>1. IsFiniteSet(Lifecycle!Item)
    BY LifecycleAssumption, FS_Union DEF Lifecycle!Item
  <2> QED BY <1>2, <2>1, FS_Subset
<1>4. Cardinality(Lifecycle!Old(p.day)) = Cardinality(p.shown)
  BY <1>1, <1>2 DEF Lifecycle!Cardinality, Cardinality
<1> QED BY <1>2, <1>3, <1>4, FS_Subset

\* Nothing but retention or the deletion of the account removes anything; retention removes what
\* a page showed.
LEMMA RemovedWasShown ==
    ASSUME LifecycleInv, [Lifecycle!Next]_lifecycleVars, account'
    PROVE  LET removed == {i \in Lifecycle!Item : changed[i] # 0 /\ changed'[i] = 0}
           IN  /\ history' = history
               /\ removed # {} => \E p \in pages : removed = p.shown
<1> DEFINE removed == {i \in Lifecycle!Item : changed[i] # 0 /\ changed'[i] = 0}
<1>1. CASE \E p \in pages : Lifecycle!ApplyRetention(p)
  <2>1. PICK p \in pages : Lifecycle!ApplyRetention(p)
    BY <1>1
  <2>2. /\ history' = history
        /\ changed' = [i \in Lifecycle!Item |-> IF i \in Lifecycle!Old(p.day) THEN 0 ELSE changed[i]]
    BY <2>1 DEF Lifecycle!ApplyRetention, Lifecycle!Others
  <2>3. removed = Lifecycle!Old(p.day)
    BY <2>2 DEF Lifecycle!Old
  <2> QED BY <2>1, <2>2, <2>3, CountIsEnough
<1>2. CASE \E p \in pages : Lifecycle!DeleteAccount(p)
  BY <1>2 DEF Lifecycle!DeleteAccount
<1>3. CASE \/ \E i \in Lifecycle!Item : Lifecycle!Change(i)
           \/ \E i \in Draft : Lifecycle!Submit(i)
  <2>1. /\ history' = history
        /\ \E i \in Lifecycle!Item : \E d \in {today, -1} : changed' = [changed EXCEPT ![i] = d]
    BY <1>3 DEF Lifecycle!Change, Lifecycle!Submit, Lifecycle!Others, Lifecycle!Item
  <2>2. removed = {}
    BY <2>1 DEF LifecycleInv
  <2> QED BY <2>1, <2>2
<1>4. CASE \/ UNCHANGED lifecycleVars \/ Lifecycle!NextDay \/ Lifecycle!Configure \/ Lifecycle!SignIn
           \/ Lifecycle!Open
  <2>1. UNCHANGED <<history, changed>>
    BY <1>4 DEF lifecycleVars, Lifecycle!NextDay, Lifecycle!Configure, Lifecycle!SignIn,
       Lifecycle!Open, Lifecycle!Others
  <2> QED BY <2>1
<1> QED BY <1>1, <1>2, <1>3, <1>4 DEF Lifecycle!Next

-----------------------------------------------------------------------------
\* A finished backup or its sidecar is overwritten only where two processes shared its path; a rollback
\* ends on the critical rows of a database that was live; retention removes exactly what a page showed
\* as old and leaves the history alone: for any number of processes, paths, drafts, pages and days.
THEOREM NothingGetsLostUnseen == Spec => NothingIsLostUnseen
<1> DEFINE Inv == BackupInv /\ LifecycleInv
<1>1. Init => Inv
  BY BackupInit, LifecycleInit DEF Init
<1>2. Inv /\ [Next]_vars => Inv'
  <2> SUFFICES ASSUME Inv, [Next]_vars PROVE Inv'
    OBVIOUS
  <2>1. [Backup!Next]_backupVars /\ [Lifecycle!Next]_lifecycleVars
    BY DEF Next, vars
  <2> QED BY <2>1, BackupStep, LifecycleStep
<1>3. Inv /\ [Next]_vars =>
        [\A p \in Path \ contended :
            /\ output[p] \notin {Absent, output'[p]} => p \in damaged' \ damaged
            /\ manifest[p] # Absent => manifest'[p] = manifest[p]]_(Backup!vars)
  <2> SUFFICES ASSUME Inv, [Next]_vars PROVE BackupKept
    BY DEF BackupKept
  <2>1. [Backup!Next]_backupVars
    BY DEF Next, vars
  <2> QED BY <2>1, BackupStep
<1>4. Inv /\ [Next]_vars =>
        [stage # "running" /\ stage' = "running" =>
            \E d \in past : Backup!Inspection(d) = Backup!Inspection(live')]_(Backup!vars)
  <2> SUFFICES ASSUME Inv, [Next]_vars PROVE BackupReturns
    BY DEF BackupReturns
  <2>1. [Backup!Next]_backupVars
    BY DEF Next, vars
  <2> QED BY <2>1, BackupStep
<1>5. Inv /\ [Next]_vars =>
        [LET removed == {i \in Lifecycle!Item : changed[i] # 0 /\ changed'[i] = 0} IN
         account' => /\ history' = history
                     /\ removed # {} => \E p \in pages : removed = p.shown]_(Lifecycle!vars)
  <2> SUFFICES ASSUME Inv, [Next]_vars, account'
               PROVE  LET removed == {i \in Lifecycle!Item : changed[i] # 0 /\ changed'[i] = 0}
                      IN  /\ history' = history
                          /\ removed # {} => \E p \in pages : removed = p.shown
    OBVIOUS
  <2>1. [Lifecycle!Next]_lifecycleVars
    BY DEF Next, vars
  <2> QED BY <2>1, RemovedWasShown
<1>6. Spec => Backup!OverwrittenOnlyByContention
  BY <1>1, <1>2, <1>3, PTL DEF Spec, Backup!OverwrittenOnlyByContention
<1>7. Spec => Backup!ComesBackAsItWas
  BY <1>1, <1>2, <1>4, PTL DEF Spec, Backup!ComesBackAsItWas
<1>8. Spec => Lifecycle!RetentionRemovesWhatWasShown
  BY <1>1, <1>2, <1>5, PTL DEF Spec, Lifecycle!RetentionRemovesWhatWasShown
<1> QED BY <1>6, <1>8, <1>7 DEF NothingIsLostUnseen

-----------------------------------------------------------------------------
(* DataLifecycle: the deletion of an account                                *)

\* Induction, for the members of a set.
LEMMA AllNumbers ==
    ASSUME NEW T, 0 \in T, \A n \in Nat : n \in T => n + 1 \in T
    PROVE  Nat \subseteq T
<1> DEFINE left == Nat \ T
<1>1. SUFFICES ASSUME left # {} PROVE FALSE
  OBVIOUS
<1>2. PICK m \in left : \A y \in left : ~ (<<y, m>> \in OpToRel(<, Nat))
  <2>1. IsWellFoundedOn(OpToRel(<, Nat), Nat)
    BY NatLessThanWellFounded
  <2> QED BY <1>1, <2>1, WFMin
<1>3. \A y \in left : ~ (y < m)
  BY <1>2 DEF OpToRel
<1>4. m \in Nat /\ m # 0 /\ m \notin T
  OBVIOUS
<1>5. m - 1 \in Nat /\ m - 1 < m /\ (m - 1) + 1 = m
  BY <1>4
<1>6. m - 1 \notin left
  BY <1>3, <1>5
<1>7. m - 1 \in T
  BY <1>5, <1>6
<1> QED BY <1>4, <1>5, <1>7

Order == Lifecycle!DeletionOrder

LEMMA TheOrder ==
    /\ Lifecycle!Len(Order) = 21
    /\ Order[1] = "composite_score_snapshots" /\ Order[2] = "completion_credit_events"
    /\ Order[3] = "composite_assessment_snapshots" /\ Order[4] = "assessment_calibration_consents"
    /\ Order[5] = "composite_score_states" /\ Order[6] = "score_snapshots"
    /\ Order[7] = "weekly_execution_reviews" /\ Order[8] = "weekly_execution_plans"
    /\ Order[9] = "practice_reviews" /\ Order[10] = "evidence_events"
    /\ Order[11] = "practice_check_ins" /\ Order[12] = "practice_sprints"
    /\ Order[13] = "lever_states" /\ Order[14] = "lever_baselines"
    /\ Order[15] = "personal_os_revisions" /\ Order[16] = "practice_context"
    /\ Order[17] = "assessment_context" /\ Order[18] = "orientation_results"
    /\ Order[19] = "archetype_results" /\ Order[20] = "assessment_runs" /\ Order[21] = "pilot_feedback"
<1>1. Lifecycle!Len(Order) = Len(Order)
  BY Zenon DEF Lifecycle!Len, Len
<1> QED BY <1>1 DEF Order, Lifecycle!DeletionOrder

\* Where the tables come whose rows are protected, or take rows with them.
LEMMA Places ==
    ASSUME NEW n \in 1 .. 21
    PROVE  /\ Order[n] = "assessment_runs" => n = 20 
           /\ Order[n] = "lever_baselines" => n = 14
           /\ Order[n] = "practice_sprints" => n = 12
           /\ Order[n] = "practice_check_ins" => n = 11
           /\ Order[n] = "evidence_events" => n = 10
           /\ Order[n] = "practice_reviews" => n = 9
           /\ Order[n] = "completion_credit_events" => n = 2
<1>1. n \in 1 .. 11 \/ n \in 12 .. 21
  OBVIOUS
<1> QED BY <1>1, TheOrder

LEMMA AllAreOrdered == \A t \in Lifecycle!Table : \E k \in 1 .. 21 : Order[k] = t
<1>1. \A e \in Lifecycle!Protects : e[1] \in
         {"lever_states", "practice_sprints", "score_snapshots", "composite_assessment_snapshots",
          "completion_credit_events", "composite_score_snapshots", "assessment_context", "practice_context"}
  BY DEF Lifecycle!Protects
<1>2. \A e \in Lifecycle!Cascades : e[1] \in
         {"assessment_calibration_consents", "orientation_results", "archetype_results", "lever_baselines",
          "practice_check_ins", "evidence_events", "practice_reviews", "composite_score_states",
          "personal_os_revisions", "weekly_execution_plans", "weekly_execution_reviews"}
  BY DEF Lifecycle!Cascades
<1>3. SUFFICES ASSUME NEW t \in Lifecycle!Table PROVE \E k \in 1 .. 21 : Order[k] = t
  OBVIOUS
<1>4. \/ t \in {"lever_states", "practice_sprints", "score_snapshots", "composite_assessment_snapshots",
                "completion_credit_events", "composite_score_snapshots", "assessment_context", "practice_context"}
      \/ t \in {"assessment_calibration_consents", "orientation_results", "archetype_results", "lever_baselines",
                "practice_check_ins", "evidence_events", "practice_reviews", "composite_score_states",
                "personal_os_revisions", "weekly_execution_plans", "weekly_execution_reviews"}
      \/ t \in {"assessment_runs", "pilot_feedback"}
  BY <1>1, <1>2, <1>3 DEF Lifecycle!Table
<1> QED BY <1>4, TheOrder

\* The tables whose rows may go with a row of t.
Follows(u, t) ==
    \/ u = t \/ <<u, t>> \in Lifecycle!Cascades
    \/ \E v : <<u, v>> \in Lifecycle!Cascades /\ <<v, t>> \in Lifecycle!Cascades

LEMMA WhatFollows ==
    ASSUME NEW t
    PROVE  /\ Follows("assessment_runs", t) => t = "assessment_runs"
           /\ Follows("lever_baselines", t) => t \in {"lever_baselines", "assessment_runs"}
           /\ Follows("evidence_events", t) => t \in {"evidence_events", "practice_check_ins", "practice_sprints"}
           /\ Follows("practice_sprints", t) => t = "practice_sprints"
           /\ Follows("practice_reviews", t) => t \in {"practice_reviews", "practice_sprints"}
           /\ Follows("completion_credit_events", t) => t = "completion_credit_events"
<1>1. \A v : /\ <<"assessment_runs", v>> \notin Lifecycle!Cascades
             /\ <<"practice_sprints", v>> \notin Lifecycle!Cascades
             /\ <<"completion_credit_events", v>> \notin Lifecycle!Cascades
             /\ <<"lever_baselines", v>> \in Lifecycle!Cascades => v = "assessment_runs"
             /\ <<"evidence_events", v>> \in Lifecycle!Cascades => v = "practice_check_ins"
             /\ <<"practice_check_ins", v>> \in Lifecycle!Cascades => v = "practice_sprints"
             /\ <<"practice_reviews", v>> \in Lifecycle!Cascades => v = "practice_sprints"
  BY DEF Lifecycle!Cascades
<1> QED BY <1>1 DEF Follows

\* Before the rows of a table go, and others with them, what protects any of these is gone.
LEMMA ProtectorsGoFirst ==
    ASSUME NEW n \in 1 .. 21, NEW e \in Lifecycle!Protects, Follows(e[2], Order[n])
    PROVE  \E k \in 1 .. n - 1 : Order[k] = e[1]
<1>1. \/ /\ e[2] = "assessment_runs"
         /\ e[1] \in {"lever_states", "practice_sprints", "score_snapshots", "composite_assessment_snapshots",
                      "completion_credit_events", "composite_score_snapshots", "assessment_context",
                      "practice_context"}
      \/ e[2] = "lever_baselines" /\ e[1] = "lever_states"
      \/ e[2] = "evidence_events" /\ e[1] = "score_snapshots"
      \/ e[2] = "practice_sprints" /\ e[1] = "completion_credit_events"
      \/ e[2] = "practice_reviews" /\ e[1] = "completion_credit_events"
      \/ e[2] = "completion_credit_events" /\ e[1] = "composite_score_snapshots"
  BY DEF Lifecycle!Protects
<1> DEFINE p == e[1]
           u == e[2]
           t == Order[n]
<1>2. Follows(u, t)
  OBVIOUS
<1>3. CASE u = "assessment_runs"
  <2>1. n = 20
    BY <1>2, <1>3, WhatFollows, Places
  <2> QED BY <1>1, <1>3, <2>1, TheOrder
<1>4. CASE u = "lever_baselines"
  <2>1. n \in {14, 20}
    BY <1>2, <1>4, WhatFollows, Places
  <2> QED BY <1>1, <1>4, <2>1, TheOrder
<1>5. CASE u = "evidence_events"
  <2>1. n \in {10, 11, 12}
    BY <1>2, <1>5, WhatFollows, Places
  <2> QED BY <1>1, <1>5, <2>1, TheOrder
<1>6. CASE u = "practice_sprints"
  <2>1. n = 12
    BY <1>2, <1>6, WhatFollows, Places
  <2> QED BY <1>1, <1>6, <2>1, TheOrder
<1>7. CASE u = "practice_reviews"
  <2>1. n \in {9, 12}
    BY <1>2, <1>7, WhatFollows, Places
  <2> QED BY <1>1, <1>7, <2>1, TheOrder
<1>8. CASE u = "completion_credit_events"
  <2>1. n = 2
    BY <1>2, <1>8, WhatFollows, Places
  <2> QED BY <1>1, <1>8, <2>1, TheOrder
<1> QED BY <1>1, <1>3, <1>4, <1>5, <1>6, <1>7, <1>8

\* Two rounds are all: what goes with a row takes nothing else with it.
LEMMA NothingElseGoes ==
    ASSUME NEW t, NEW left
    PROVE  LET gone == Lifecycle!GoWith(t, left) IN Lifecycle!Cascaded(gone, left) = gone
<1>1. \A e, f, g \in Lifecycle!Cascades : ~ (e[2] = f[1] /\ f[2] = g[1])
  <2>1. \A e, f \in Lifecycle!Cascades : e[2] = f[1] => f[2] = "practice_sprints"
    BY DEF Lifecycle!Cascades
  <2>2. \A g \in Lifecycle!Cascades : g[1] # "practice_sprints"
    BY DEF Lifecycle!Cascades
  <2> QED BY <2>1, <2>2
<1> QED BY <1>1 DEF Lifecycle!GoWith, Lifecycle!Cascaded

\* A deletion whose turn it is takes its table, is never refused, and brings nothing back.
LEMMA DeletionsSucceed ==
    ASSUME NEW n \in 1 .. 21, NEW left, \A k \in 1 .. n - 1 : Order[k] \notin left
    PROVE  Lifecycle!Delete(left, Order[n]) \subseteq left \ {Order[n]}
<1> DEFINE t == Order[n]
           gone == Lifecycle!GoWith(t, left)
           rest == Lifecycle!Delete(left, t)
<1>1. rest = IF t \notin left THEN left
             ELSE IF \E e \in Lifecycle!Protects : e[2] \in gone /\ e[1] \in left \ gone THEN {"refused"}
             ELSE left \ gone
  BY Zenon DEF Lifecycle!Delete
<1>2. t \in gone /\ \A u \in gone : Follows(u, t)
  <2>1. t \in gone
    BY DEF Lifecycle!GoWith, Lifecycle!Cascaded
  <2>2. ASSUME NEW u \in gone PROVE Follows(u, t)
    <3>1. \A e \in Lifecycle!Cascades : e = <<e[1], e[2]>>
      BY DEF Lifecycle!Cascades
    <3>2. \/ u = t
          \/ \E e \in Lifecycle!Cascades : e[1] = u /\ e[2] = t
          \/ \E e, f \in Lifecycle!Cascades : e[1] = u /\ e[2] = f[1] /\ f[2] = t
      BY <2>2 DEF Lifecycle!GoWith, Lifecycle!Cascaded
    <3> QED BY <3>1, <3>2 DEF Follows
  <2> QED BY <2>1, <2>2
<1> HIDE DEF gone
<1>3. \A e \in Lifecycle!Protects : e[2] \in gone => e[1] \notin left
  <2>1. ASSUME NEW e \in Lifecycle!Protects, e[2] \in gone PROVE e[1] \notin left
    <3>1. Follows(e[2], Order[n])
      BY <1>2, <2>1
    <3>2. \E k \in 1 .. n - 1 : Order[k] = e[1]
      BY <3>1, ProtectorsGoFirst
    <3> QED BY <3>2
  <2> QED BY <2>1
<1> HIDE DEF t, rest
<1>4. rest \subseteq left \ {t}
  BY <1>1, <1>2, <1>3
<1> QED BY <1>4 DEF t, rest

\* The tables that have rows left after each of the deletions.
Deletes(left, tables) ==
    left = [n \in 0 .. Lifecycle!Len(Order) |->
              IF n = 0 THEN tables ELSE Lifecycle!Delete(left[n - 1], Order[n])]

LEMMA RunsExist == ASSUME NEW tables PROVE \E left : Deletes(left, tables)
<1> DEFINE Fits(h, m) ==
             h = [n \in 0 .. m |-> IF n = 0 THEN tables ELSE Lifecycle!Delete(h[n - 1], Order[n])]
           T == {m \in Nat : \E h : Fits(h, m)}
<1>1. 0 \in T
  <2> DEFINE h == [n \in 0 .. 0 |-> tables]
  <2>1. Fits(h, 0)
    OBVIOUS
  <2> HIDE DEF h, Fits
  <2> QED BY <2>1
<1>2. ASSUME NEW m \in Nat, m \in T PROVE m + 1 \in T
  <2>1. PICK h : Fits(h, m)
    BY <1>2
  <2> DEFINE D(left, n) == Lifecycle!Delete(left, Order[n])
             k == [n \in 0 .. m + 1 |-> IF n = 0 THEN tables ELSE D(h[n - 1], n)]
  <2>2. h = [n \in 0 .. m |-> IF n = 0 THEN tables ELSE D(h[n - 1], n)]
    BY <2>1
  <2> HIDE DEF D
  <2>3. \A n \in 0 .. m : k[n] = h[n]
    BY <2>2
  <2>4. ASSUME NEW n \in 0 .. m + 1 PROVE k[n] = IF n = 0 THEN tables ELSE D(k[n - 1], n)
    <3>1. k[n] = IF n = 0 THEN tables ELSE D(h[n - 1], n)
      OBVIOUS
    <3>2. n # 0 => n - 1 \in 0 .. m
      OBVIOUS
    <3> HIDE DEF k
    <3>3. n # 0 => k[n - 1] = h[n - 1]
      BY <2>3, <3>2
    <3> QED BY <3>1, <3>3
  <2>5. k = [n \in 0 .. m + 1 |-> IF n = 0 THEN tables ELSE D(k[n - 1], n)]
    BY <2>4
  <2> HIDE DEF k
  <2>6. Fits(k, m + 1)
    BY <2>5 DEF D
  <2> HIDE DEF Fits
  <2> QED BY <2>6
<1> HIDE DEF T
<1>3. Nat \subseteq T
  BY <1>1, <1>2, AllNumbers
<1>4. Lifecycle!Len(Order) \in T
  BY <1>3, TheOrder
<1> QED BY <1>4 DEF T, Deletes

LEMMA NothingRemains == ASSUME NEW tables \in SUBSET Lifecycle!Table PROVE Lifecycle!Remaining(tables) = {}
<1> DEFINE left == CHOOSE h : Deletes(h, tables)
           T == {m \in Nat : m =< 21 => /\ left[m] \subseteq tables
                                        /\ \A k \in 1 .. m : Order[k] \notin left[m]}
<1>1. Deletes(left, tables)
  BY RunsExist, Zenon
<1>2. Lifecycle!Remaining(tables) = left[Lifecycle!Len(Order)]
  BY Zenon DEF Lifecycle!Remaining, Deletes, Order
<1> HIDE DEF left
<1>3. left[0] = tables /\ \A n \in 1 .. 21 : left[n] = Lifecycle!Delete(left[n - 1], Order[n])
  BY <1>1, TheOrder DEF Deletes
<1>4. 0 \in T
  BY <1>3
<1>5. ASSUME NEW m \in Nat, m \in T PROVE m + 1 \in T
  <2>1. SUFFICES ASSUME m + 1 =< 21
                 PROVE  left[m + 1] \subseteq tables /\ \A k \in 1 .. m + 1 : Order[k] \notin left[m + 1]
    OBVIOUS
  <2>2. left[m] \subseteq tables /\ \A k \in 1 .. m : Order[k] \notin left[m]
    BY <1>5, <2>1
  <2>3. left[m + 1] = Lifecycle!Delete(left[m], Order[m + 1])
    BY <1>3, <2>1
  <2>4. m + 1 \in 1 .. 21 /\ (m + 1) - 1 = m
    BY <2>1
  <2>5. left[m + 1] \subseteq left[m] \ {Order[m + 1]}
    <3> DEFINE n == m + 1
    <3>1. n \in 1 .. 21 /\ \A k \in 1 .. n - 1 : Order[k] \notin left[m]
      BY <2>2, <2>4
    <3> HIDE DEF n
    <3>2. Lifecycle!Delete(left[m], Order[n]) \subseteq left[m] \ {Order[n]}
      BY <3>1, DeletionsSucceed
    <3> QED BY <2>3, <3>2 DEF n
  <2> QED BY <2>2, <2>5
<1> HIDE DEF T
<1>6. 21 \in T
  BY <1>4, <1>5, AllNumbers
<1>7. left[21] \subseteq tables /\ \A k \in 1 .. 21 : Order[k] \notin left[21]
  BY <1>6 DEF T
<1>8. left[21] = {}
  BY <1>7, AllAreOrdered
<1> QED BY <1>2, <1>8, TheOrder

DeletionInv ==
    /\ history \subseteq Lifecycle!Table
    /\ ~ account => history = {} /\ sessions = 0 /\ \A i \in Lifecycle!Item : changed[i] = 0

DeletionHolds == component = "lifecycle" => DeletionInv

LEMMA DeletionStep == ASSUME DeletionInv, [Lifecycle!Next]_lifecycleVars PROVE DeletionInv'
<1>1. CASE UNCHANGED lifecycleVars
  BY <1>1 DEF lifecycleVars, DeletionInv
<1>2. CASE Lifecycle!NextDay \/ Lifecycle!Configure
  BY <1>2 DEF DeletionInv, Lifecycle!NextDay, Lifecycle!Configure
<1>3. CASE \/ Lifecycle!SignIn \/ Lifecycle!Open \/ \E i \in Lifecycle!Item : Lifecycle!Change(i)
           \/ \E p \in pages : Lifecycle!ApplyRetention(p)
  <2>1. account /\ account' = account /\ history' = history
    BY <1>3 DEF Lifecycle!SignIn, Lifecycle!Open, Lifecycle!Change, Lifecycle!ApplyRetention, Lifecycle!Others
  <2> QED BY <2>1 DEF DeletionInv
<1>4. CASE \E i \in Draft : Lifecycle!Submit(i)
  <2>1. account /\ account' = account /\ history' = history
    BY <1>4 DEF Lifecycle!Submit, Lifecycle!Others
  <2> QED BY <2>1 DEF DeletionInv
<1>5. CASE \E p \in pages : Lifecycle!DeleteAccount(p)
  <2>1. /\ history' = Lifecycle!Remaining(history) /\ sessions' = 0
        /\ changed' = [i \in Lifecycle!Item |-> 0]
    BY <1>5 DEF Lifecycle!DeleteAccount
  <2>2. history' = {}
    BY <2>1, NothingRemains DEF DeletionInv
  <2> QED BY <2>1, <2>2 DEF DeletionInv, Lifecycle!Item
<1> QED BY <1>1, <1>2, <1>3, <1>4, <1>5 DEF Lifecycle!Next

\* Whatever tables an owner has rows in, however the rows refer to each other: the deletion of the
\* account is never stopped by a PROTECT key, and it leaves no row
\* (growth/services/data_lifecycle.py, delete_owner_account).
THEOREM DeletionsAreComplete == Spec => []DeletionIsComplete
<1>1. Init => DeletionHolds
  BY LifecycleAssumption DEF Init, DeletionHolds, DeletionInv, Lifecycle!Init
<1>2. DeletionHolds /\ [Next]_vars => DeletionHolds'
  BY DeletionStep DEF DeletionHolds, Next, vars
<1>3. DeletionHolds => DeletionIsComplete
  BY NothingRemains DEF DeletionHolds, DeletionInv, DeletionIsComplete, Lifecycle!DeletionIsComplete
<1> QED BY <1>1, <1>2, <1>3, PTL DEF Spec
=================================================================================
