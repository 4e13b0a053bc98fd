------------------------------ MODULE MCRecords ------------------------------
(***************************************************************************)
(* What is kept and shown, for TLC: a behaviour is one of BackupRestore,   *)
(* ArchiveFormat, BackupAutomation, JobLogs, NotificationConditions and    *)
(* PolicyCalendar, chosen by part at the start; the variables of the other *)
(* five stay as they are.                                                  *)
(***************************************************************************)
EXTENDS BackupRestore

CONSTANTS w1,              \* the writer of a job log
          Parts,           \* the parts that are checked
          Zones, JustSaved \* of PolicyCalendar

VARIABLES part,
          files, archive, changes,
          autoNow, saved, audited, dir, dumps, tick, exports, runs, autoFaults, autoCrashes, outside,
          log, active, owed, queue, open, page, lost, writes,
          facts, factsBackup, conf, cond, rows, sending, condNow, ops, fresh, told, twice,
          zone, policy, other, windows, start, announced, now, policyRows, ran

formatVars == <<files, archive, changes>>
automationVars == <<autoNow, saved, audited, dir, dumps, tick, exports, runs, autoFaults, autoCrashes, outside>>
logVars == <<log, active, owed, queue, open, page, lost, writes>>
conditionVars == <<facts, factsBackup, conf, cond, rows, sending, condNow, ops, fresh, told, twice>>
calendarVars == <<zone, policy, other, windows, start, announced, now, policyRows, ran>>
allVars == <<part, vars, formatVars, automationVars, logVars, conditionVars, calendarVars>>

-----------------------------------------------------------------------------
(* The instances.                                                          *)

Format == INSTANCE ArchiveFormat WITH
  Digests <- {"good", "bad"}, Valid <- {"good"}, MaxExtracted <- 5, MaxChanges <- 2

Automation == INSTANCE BackupAutomation WITH
  Period <- 3, Window <- 2, RetryDelay <- 1, Retain <- 1, Horizon <- 5,
  MaxRuns <- 3, MaxFaults <- 1, MaxCrashes <- 1, MaxOutside <- 2,
  now <- autoNow, faults <- autoFaults, crashes <- autoCrashes

\* Uploads that restore everything under another key, or without known_hosts,
\* whose database does not validate, and that do not fit.
Good == [opens |-> TRUE, fits |-> TRUE, valid |-> TRUE, hosts |-> TRUE, key |-> "other"]
Uploads == {Good, [Good EXCEPT !.hosts = FALSE, !.key = "current"],
            [Good EXCEPT !.valid = FALSE], [Good EXCEPT !.fits = FALSE]}

Logs == INSTANCE JobLogs WITH
  Writers <- {w1}, Lengths <- {1, 3}, ChunkMax <- 2, HeadBytes <- 4, MaxBytes <- 8,
  Marker <- 1, PageLimit <- 2, QueueMax <- 3, MaxWrites <- 3

Conditions == INSTANCE NotificationConditions WITH
  Urls <- {"A", "B"}, MaxTime <- 1, MaxOps <- 3,
  db <- facts, archive <- factsBackup, now <- condNow

-----------------------------------------------------------------------------
(* PolicyCalendar: days of four minutes and weeks of three days.  The      *)
(* offset changes by one minute, at any minute of two days, east and west  *)
(* of UTC; in PlainZones the hour that is skipped is not the one at        *)
(* midnight.                                                               *)

AllZones ==
  {z \in [at : 12..19, before : -1..1, after : -1..1] : z.before - z.after \in {-1, 1}}

\* The wall-clock minutes a zone skips.
Skipped(z) == IF z.after > z.before THEN z.at + z.before .. z.at + z.after - 1 ELSE {}
SkipsMidnight(z) == \E w \in Skipped(z) : w % 4 = 0

PlainZones == {z \in AllZones : ~SkipsMidnight(z)}

\* Zones west of UTC in which the clock goes from midnight to one (America/Santiago).
MidnightZones == {z \in AllZones : SkipsMidnight(z) /\ z.before < 0}

\* One offset change back, in which an hour is repeated.
RepeatingZones == {z \in AllZones : z.after < z.before}

Cadences == {<<"daily", {}>>, <<"weekly", {1}>>, <<"weekly", {0, 2}>>, <<"once", {4}>>,
             <<"monthly", {3}>>, <<"monthly", {2}>>, <<"month_end", {}>>}

Sample(cadence, on, time) ==
  [cadence |-> cadence, on |-> on, time |-> time, enabled |-> TRUE, consumed |-> FALSE, windows |-> {}]

SameDay == [days |-> {1}, from |-> 1, to |-> 3]
Overnight == [days |-> {0}, from |-> 3, to |-> 1]

SamplePolicies ==
  {Sample(c[1], c[2], t) : c \in Cadences, t \in 0..3}
  \cup {[Sample("daily", {}, t) EXCEPT !.windows = {Overnight}] : t \in 0..3}
  \cup {[Sample("daily", {}, 1) EXCEPT !.enabled = FALSE], [Sample("once", {4}, 1) EXCEPT !.consumed = TRUE]}

SampleOthers == {Sample("daily", {}, 1), [Sample("weekly", {0, 1}, 2) EXCEPT !.windows = {SameDay}]}

Calendar == INSTANCE PolicyCalendar WITH
  DayLen <- 4, WeekLen <- 3, Policies <- SamplePolicies, Others <- SampleOthers,
  GlobalWindows <- {{}, {SameDay}, {Overnight}}, Starts <- {14}, Horizon <- 5, Limit <- 3, MaxTime <- 32,
  rows <- policyRows, shown <- announced

-----------------------------------------------------------------------------
(* One part runs; the others are still, as they begin or without a value.  *)

StillFormat == files = 0 /\ archive = 0 /\ changes = 0
StillLogs ==
  /\ log = 0 /\ active = 0 /\ owed = 0 /\ queue = 0 /\ open = 0 /\ page = 0 /\ lost = 0 /\ writes = 0
StillConditions ==
  /\ facts = 0 /\ factsBackup = 0 /\ conf = 0 /\ cond = 0 /\ rows = 0 /\ sending = 0
  /\ condNow = 0 /\ ops = 0 /\ fresh = 0 /\ told = 0 /\ twice = 0
StillCalendar ==
  /\ zone = 0 /\ policy = 0 /\ other = 0 /\ windows = 0 /\ start = 0 /\ announced = 0 /\ now = 0
  /\ policyRows = 0 /\ ran = 0

MCInit ==
  /\ part \in Parts
  /\ Init
  /\ IF part = "format" THEN Format!Init ELSE StillFormat
  /\ Automation!Init /\ (part = "automation" \/ saved = Automation!Default)
  /\ IF part = "logs" THEN Logs!Init ELSE StillLogs
  /\ IF part = "conditions" THEN Conditions!Init ELSE StillConditions
  /\ IF part = "calendar" THEN Calendar!Init ELSE StillCalendar

NextFormat ==
  /\ part = "format" /\ Format!Next
  /\ UNCHANGED <<part, automationVars, vars, logVars, conditionVars, calendarVars>>

NextAutomation ==
  /\ part = "automation" /\ Automation!Next
  /\ UNCHANGED <<part, formatVars, vars, logVars, conditionVars, calendarVars>>

NextRestore ==
  /\ part = "restore" /\ Next
  /\ UNCHANGED <<part, formatVars, automationVars, logVars, conditionVars, calendarVars>>

NextLogs ==
  /\ part = "logs" /\ Logs!Next
  /\ UNCHANGED <<part, formatVars, automationVars, vars, conditionVars, calendarVars>>

NextConditions ==
  /\ part = "conditions" /\ Conditions!Next
  /\ UNCHANGED <<part, formatVars, automationVars, vars, logVars, calendarVars>>

NextCalendar ==
  /\ part = "calendar" /\ Calendar!Next
  /\ UNCHANGED <<part, formatVars, automationVars, vars, logVars, conditionVars>>

MCNext ==
  NextFormat \/ NextAutomation \/ NextRestore \/ NextLogs \/ NextConditions \/ NextCalendar

MCSpec == MCInit /\ [][MCNext]_allVars

-----------------------------------------------------------------------------
(* Properties of the other parts; those of BackupRestore are RestoreIsSafe *)
(* and RestoreIsAtomic.                                                    *)

\* BackupAutomation: no occurrence is exported twice, no archive is removed that
\* should be kept, no damaged one is hidden.
AutomationIsSafe == Automation!AutomationIsSafe

\* ArchiveFormat: an archive that verifies as ready restores.
VerifiedRestores == part = "format" => Format!VerifiedRestores

\* JobLogs: a log keeps its head and its tail, and a page follows it.
LogIsKeptAndFollowed == part = "logs" => Logs!LogIsKeptAndFollowed

\* NotificationConditions: a condition is active as the latest facts say.
ConditionsTellTheFacts == part = "conditions" => Conditions!ConditionsTellTheFacts

\* NotificationConditions: an episode of a condition is alerted once.
AlertedOnce == part = "conditions" => Conditions!AlertedOnce

\* PolicyCalendar: policies run in the minutes that were announced.
RunsAsPreviewed == part = "calendar" => Calendar!RunsAsPreviewed

\* PolicyCalendar: runs and overlaps are those that were announced.
CalendarIsKept == part = "calendar" => Calendar!CalendarIsKept
=============================================================================
