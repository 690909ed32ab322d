----------------------------- MODULE UpdateCheck -----------------------------
(***************************************************************************)
(* The command line's update check (encypher-c2pa-cli/src/update.rs).      *)
(*                                                                         *)
(* Every command a person runs at a terminal is a process that reads the   *)
(* settings file, may rewrite it whole, ask the crates.io index for the    *)
(* newest release and wait at a prompt.  Nothing locks the file: the copy  *)
(* a process read when it started is the one it writes back after the      *)
(* request or the prompt.  A process may be killed between any two steps.  *)
(* The file is replaced by a rename; on Windows the old file is removed    *)
(* first, in a step of its own.                                            *)
(*                                                                         *)
(* So a choice that was saved can be lost in two ways: a process writes a  *)
(* copy older than the choice, or the removed file is never replaced.      *)
(* `stale` and `exposed` record when that may have happened.               *)
(*                                                                         *)
(* Versions are numbers, the running one is 0.  A run that is offline,     *)
(* not at a terminal or switched off by the environment takes no step.     *)
(***************************************************************************)
EXTENDS Options, Integers

CONSTANTS
    Procs,        \* processes of the command line that may run at once
    Builds,       \* the builds: TRUE for Windows, which removes the file before it renames
    Day,          \* CHECK_INTERVAL_SECS
    MaxTime,      \* bound on the clock
    MaxVersion,   \* bound on the releases published
    Absent,       \* the file does not exist
    Unreadable    \* the file's contents do not parse

ASSUME UpdateAssumption ==
    /\ Day \in Nat \ {0}
    /\ MaxTime \in Nat
    /\ MaxVersion \in Nat
    /\ Builds \subseteq BOOLEAN

VARIABLES
    windows,      \* the build that runs
    now,          \* the clock
    published,    \* newest stable, unyanked release in the index
    file,         \* update.json
    stage,        \* where each process stands
    env,          \* ENCYPHER_C2PA_UPDATE_CHECK of each process: None or TRUE
    mine,         \* the settings each process holds
    newest,       \* the release each process read from the index
    removed,      \* Windows: the process has removed the old file
    off,          \* a person's "off" is saved and no "on" was under way or asked since
    checkedAt,    \* when a check at start was last recorded, None before
    skipped,      \* the release last saved as skipped, None before
    stale,        \* processes that read before another's last write, or amid one
    exposed       \* what an older copy, or a removal without a rename, may have undone

updateVars == <<windows, now, published, file, stage, env, mine, newest, removed, off,
                checkedAt, skipped, stale, exposed>>

\* A last_checked ahead of the clock, as a copied file may carry.
Future == MaxTime + Day
Times == 0..MaxTime \cup {Future}
Versions == 0..MaxVersion
Settings == [check : BOOLEAN, last : Times \cup {None}, skip : Versions \cup {None}]

ASSUME MarkersAssumption ==
    /\ None \notin Int
    /\ Absent \notin Settings \cup {Unreadable}
    /\ Unreadable \notin Settings

DefaultSettings == [check |-> TRUE, last |-> None, skip |-> None]

\* What a write may save: a person's off, the time of a check, a skipped release.
Savable == {"off", "check", "skip"}

Writing == {"record", "save", "update_write", "setting_write"}
Steps == {"idle", "fetch", "prompt", "update_read", "update_install"} \cup Writing

-----------------------------------------------------------------------------
\* read_settings: a missing file reads as the defaults.
Contents == IF file = Absent THEN DefaultSettings ELSE file

\* Mutant of CheckDue: every later second is due.
AlwaysDue(last) == last # None => last # now

\* check_due
CheckDue(last) == last # None => (last > now \/ now - last >= Day)

Allowed(e, s) == e = TRUE \/ s.check

\* Mutant of Recorded: the other settings are not carried over.
RecordedAlone(s) == [DefaultSettings EXCEPT !.last = now]

Recorded(s) == [s EXCEPT !.last = now]

UpdateInit ==
    /\ windows \in Builds
    /\ now = 0
    /\ published = 0
    /\ file \in {Absent, Unreadable, DefaultSettings, [DefaultSettings EXCEPT !.last = Future]}
    /\ stage = [p \in Procs |-> "idle"]
    /\ env = [p \in Procs |-> None]
    /\ mine = [p \in Procs |-> DefaultSettings]
    /\ newest = [p \in Procs |-> 0]
    /\ removed = [p \in Procs |-> FALSE]
    /\ off = FALSE
    /\ checkedAt = None
    /\ skipped = None
    /\ stale = {}
    /\ exposed = {}

\* A process's variables return to their start when it ends.
Ends(p) ==
    /\ stage' = [stage EXCEPT ![p] = "idle"]
    /\ env' = [env EXCEPT ![p] = None]
    /\ mine' = [mine EXCEPT ![p] = DefaultSettings]
    /\ newest' = [newest EXCEPT ![p] = 0]
    /\ removed' = [removed EXCEPT ![p] = FALSE]

\* The environment is consulted once, when a check starts.
Goes(p, next) ==
    /\ stage' = [stage EXCEPT ![p] = next]
    /\ env' = [env EXCEPT ![p] = None]
    /\ removed' = [removed EXCEPT ![p] = FALSE]
    /\ UNCHANGED <<mine, newest>>

world == <<windows, now, published>>
history == <<off, checkedAt, skipped, stale, exposed>>

Tick ==
    /\ now < MaxTime
    /\ now' = now + 1
    /\ UNCHANGED <<windows, published, file, stage, env, mine, newest, removed, history>>

\* A release is published, or the newest ones are yanked.
Publish ==
    /\ \E v \in Versions \ {published} : published' = v
    /\ UNCHANGED <<windows, now, file, stage, env, mine, newest, removed, history>>

-----------------------------------------------------------------------------
\* A process has removed the file and not yet put the new one in place.
BeingReplaced == file = Absent /\ \E q \in Procs : removed[q]

\* The settings are read: the copy is as new as the file, unless there is none.
Reads(p) == stale' = IF BeingReplaced THEN stale \cup {p} ELSE stale \ {p}

\* Processes that have read the settings and may yet write or use their copy.
Holding(p) == stage[p] \in {"record", "fetch", "prompt", "save", "update_write",
                            "setting_write"}

\* check_on_start up to its first write: the settings are read and the time
\* is taken here; an unreadable file, a setting of off or a check made within
\* the day end it.
StartCheck(p) ==
    /\ stage[p] = "idle"
    /\ file # Unreadable
    /\ \E e \in {None, TRUE} :
         /\ Allowed(e, Contents)
         /\ env' = [env EXCEPT ![p] = e]
    /\ CheckDue(Contents.last)
    /\ mine' = [mine EXCEPT ![p] = Recorded(Contents)]
    /\ stage' = [stage EXCEPT ![p] = "record"]
    /\ Reads(p)
    /\ UNCHANGED <<world, file, newest, removed, off, checkedAt, skipped, exposed>>

\* update-check on|off, up to its write.
ReadSetting(p, enable) ==
    /\ stage[p] = "idle"
    /\ file # Unreadable
    /\ mine' = [mine EXCEPT ![p] = [Contents EXCEPT !.check = enable]]
    /\ stage' = [stage EXCEPT ![p] = "setting_write"]
    /\ off' = (off /\ ~enable)
    /\ Reads(p)
    /\ UNCHANGED <<world, file, env, newest, removed, checkedAt, skipped, exposed>>

\* Where a process goes when its write has returned.
After(p) ==
    CASE stage[p] = "record" -> Goes(p, "fetch")
      [] stage[p] = "update_write" -> Goes(p, "update_install")
      [] OTHER -> Ends(p)

\* What the person asked a process to save.
Skips(p) == stage[p] = "save" /\ mine[p].skip = newest[p]
TurnsOff(p) ==
    \/ stage[p] = "save" /\ ~Skips(p)
    \/ stage[p] = "setting_write" /\ ~mine[p].check
TurnsOn(p) == stage[p] = "setting_write" /\ mine[p].check

Saves(p) ==
    {c \in Savable : \/ c = "off" /\ TurnsOff(p)
                     \/ c = "check" /\ stage[p] = "record"
                     \/ c = "skip" /\ Skips(p)}

\* write_settings succeeds.  The whole copy replaces whatever was saved since it
\* was read, and every other process now holds an older one.
WriteSettings(p) ==
    /\ stage[p] \in Writing
    /\ windows /\ file # Absent => removed[p]
    /\ file' = mine[p]
    /\ off' = (off \/ (TurnsOff(p) /\ \A q \in Procs : ~TurnsOn(q)))
    /\ checkedAt' = IF stage[p] = "record" THEN mine[p].last ELSE checkedAt
    /\ skipped' = IF Skips(p) THEN newest[p] ELSE skipped
    /\ exposed' = (IF p \in stale THEN Savable ELSE exposed) \ Saves(p)
    /\ stale' = {q \in Procs \ {p} : Holding(q)}
    /\ After(p)
    /\ UNCHANGED world

\* write_settings on Windows: the old file goes before the new one is in place.
RemoveOld(p) ==
    /\ windows
    /\ stage[p] \in Writing
    /\ ~removed[p]
    /\ file # Absent
    /\ file' = Absent
    /\ removed' = [removed EXCEPT ![p] = TRUE]
    /\ UNCHANGED <<world, stage, env, mine, newest, history>>

\* A process that stops here and has removed the file leaves none.
Leaves(p) == exposed' = IF removed[p] /\ file = Absent THEN Savable ELSE exposed

\* write_settings fails: the check and the update ignore it, the setting
\* command reports it.
WriteFails(p) ==
    /\ stage[p] \in Writing
    /\ After(p)
    /\ Leaves(p)
    /\ UNCHANGED <<world, file, off, checkedAt, skipped, stale>>

\* newest_release, and the skipped version.
Offers(s) == published > 0 /\ s.skip # published

\* The request of check_on_start, and its answer.
FetchIndex(p) ==
    /\ stage[p] = "fetch"
    /\ \/ Ends(p)                           \* no answer, or nothing to offer
       \/ /\ Offers(mine[p])
          /\ newest' = [newest EXCEPT ![p] = published]
          /\ stage' = [stage EXCEPT ![p] = "prompt"]
          /\ UNCHANGED <<env, mine, removed>>
    /\ UNCHANGED <<world, file, history>>

\* The person answers "skip this version" or "stop checking".
AnswerAndSave(p) ==
    /\ stage[p] = "prompt"
    /\ \/ mine' = [mine EXCEPT ![p].skip = newest[p]]
       \/ mine' = [mine EXCEPT ![p].check = FALSE]
    /\ stage' = [stage EXCEPT ![p] = "save"]
    /\ UNCHANGED <<world, file, env, newest, removed, history>>

\* The person answers "not now", or "yes": the installation, and the command
\* run again on the new binary, leave the settings alone.
AnswerAndGo(p) ==
    /\ stage[p] = "prompt"
    /\ Ends(p)
    /\ UNCHANGED <<world, file, history>>

\* The update command: the request comes first, then the settings are read.
RunUpdate(p) ==
    /\ stage[p] = "idle"
    /\ Goes(p, "update_read")
    /\ UNCHANGED <<world, file, history>>

UpdateRead(p) ==
    /\ stage[p] = "update_read"
    /\ \/ /\ file # Unreadable
          /\ mine' = [mine EXCEPT ![p] = Recorded(Contents)]
          /\ stage' = [stage EXCEPT ![p] = "update_write"]
          /\ Reads(p)
          /\ UNCHANGED <<env, newest, removed>>
       \/ /\ file = Unreadable
          /\ Goes(p, "update_install")
          /\ UNCHANGED stale
    /\ UNCHANGED <<world, file, off, checkedAt, skipped, exposed>>

UpdateInstall(p) ==
    /\ stage[p] = "update_install"
    /\ Ends(p)
    /\ UNCHANGED <<world, file, history>>

\* The process is killed.  Its temporary file stays behind, under its pid.
Killed(p) ==
    /\ stage[p] # "idle"
    /\ Ends(p)
    /\ Leaves(p)
    /\ UNCHANGED <<world, file, off, checkedAt, skipped, stale>>

UpdateNext ==
    \/ Tick
    \/ Publish
    \/ \E p \in Procs :
         \/ StartCheck(p)
         \/ \E enable \in BOOLEAN : ReadSetting(p, enable)
         \/ WriteSettings(p)
         \/ RemoveOld(p)
         \/ WriteFails(p)
         \/ FetchIndex(p)
         \/ AnswerAndSave(p)
         \/ AnswerAndGo(p)
         \/ RunUpdate(p)
         \/ UpdateRead(p)
         \/ UpdateInstall(p)
         \/ Killed(p)

UpdateSpec == UpdateInit /\ [][UpdateNext]_updateVars

-----------------------------------------------------------------------------
\* Every variable holds what the code declares it to hold; a last_checked the
\* program writes is a time of its own clock.
UpdateTypeOK ==
    /\ windows \in Builds
    /\ now \in 0..MaxTime
    /\ published \in Versions
    /\ file \in Settings \cup {Absent, Unreadable}
    /\ stage \in [Procs -> Steps]
    /\ env \in [Procs -> {None, TRUE}]
    /\ mine \in [Procs -> Settings]
    /\ newest \in [Procs -> Versions]
    /\ removed \in [Procs -> BOOLEAN]
    /\ off \in BOOLEAN
    /\ checkedAt \in Times \cup {None}
    /\ skipped \in Versions \cup {None}
    /\ stale \subseteq Procs
    /\ exposed \subseteq Savable

Begins(p) == stage[p] = "idle" /\ stage'[p] = "record"
Offered(p) == stage[p] = "fetch" /\ stage'[p] = "prompt"

\* Any number of commands run at once.  A person's saved off starts no check
\* unless an on is asked for or the environment forces the check, and a
\* release saved as skipped is not offered by a command that read the settings
\* afterwards, except where write_settings can undo the choice: a process that
\* had read the settings before wrote its copy, or a Windows process stopped,
\* or has yet to go on, between the removal and the rename.  A command that
\* reads the file later carries every choice over to what it writes, whatever
\* fails and whichever process is killed in between.
SavedChoicesHold ==
    [][\A p \in Procs :
          /\ (Begins(p) /\ off /\ "off" \notin exposed /\ ~BeingReplaced) => env'[p] = TRUE
          /\ (Offered(p) /\ "skip" \notin exposed /\ p \notin stale) => newest'[p] # skipped
      ]_updateVars

\* Once a check is recorded, no command starts another within the day, also
\* when the process that recorded it was killed or its request failed, and also
\* when several recorded theirs at once, with the same exceptions.
OncePerDay ==
    [][\A p \in Procs :
          (Begins(p) /\ checkedAt # None /\ "check" \notin exposed /\ ~BeingReplaced)
              => now >= checkedAt + Day]_updateVars
=============================================================================
