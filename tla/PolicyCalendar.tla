---------------------------- MODULE PolicyCalendar ----------------------------
(***************************************************************************)
(* The dates a policy is due on, as four parts of internal/policies tell   *)
(* them: the preview of a policy (with the conflicts it would have), the   *)
(* calendar, the next-run projection of the dashboard, and the scheduler   *)
(* that looks at every minute as it comes.  The first three walk over      *)
(* civil days from today's midnight and resolve the policy's local time on *)
(* each; the scheduler asks whether the local time of this minute is the   *)
(* policy's.                                                               *)
(*                                                                         *)
(* An instant is a number of minutes, a wall-clock reading a number of     *)
(* local minutes; a day has DayLen of them, so that the offset changes and *)
(* the boundaries of days can be put anywhere.  Policies that release      *)
(* waves are in PolicyScheduler; the servers a policy matches are the same *)
(* in all four parts and are left out.                                     *)
(***************************************************************************)
EXTENDS Integers, FiniteSets, FiniteSetsExt

CONSTANTS DayLen, WeekLen,
          Zones,        \* [at, before, after]: the offset, changing at an instant
          Policies,     \* the policies previewed
          Others,       \* the policies that may compete with it
          GlobalWindows,\* the sets of global no-run windows
          Starts,       \* the instants the projections are asked at
          Horizon,      \* days a projection looks ahead
          Limit,        \* PreviewOccurrenceLimit
          JustSaved,    \* the policies were saved at the start, not long before
          MaxTime

VARIABLES zone, policy, other, windows,
          start, shown,   \* when the projections were made, and what they said
          now,
          rows,           \* the canonical UTC times the scheduler has a row for
          ran             \* the minutes it launched the policy at

vars == <<zone, policy, other, windows, start, shown, now, rows, ran>>

None == -100

(***************************************************************************)
(* Civil time.                                                             *)
(***************************************************************************)
Offset(u) == IF u < zone.at THEN zone.before ELSE zone.after
Local(u) == u + Offset(u)
Day(w) == w \div DayLen
Minute(w) == w % DayLen

\* time.Date of the Go library, which looks the offset up twice.
Date(w) ==
  LET o == Offset(w) IN
  IF o = 0 \/ ((w - o < zone.at) <=> (w < zone.at)) THEN w - o ELSE w - Offset(w - o)

\* The civil midnight of the day u falls in, and AddDate(0, 0, n).
Midnight(u) == Date(Day(Local(u)) * DayLen)
AddDays(u, n) == Date(Local(u) + n * DayLen)

\* Months of two and three days in turn.
DayOfMonth(d) == LET r == d % 5 IN IF r < 2 THEN r + 1 ELSE r - 1
LastOfMonth(d) == d % 5 \in {1, 4}

\* Interpretation.ResolveLocal: the instants at which the clock of day u shows
\* minute m, found by trying the offsets in force within 36 hours of it.
ResolveLocal(u, m) ==
  LET wall == Day(Local(u)) * DayLen + m
      half == DayLen \div 2
      offsets == {Offset(Date(wall) + k) : k \in {-3 * half, -half, 0, half, 3 * half}}
  IN {wall - o : o \in {x \in offsets : Local(wall - x) = wall}}

\* Mutant: the later of two matches is the occurrence.
LaterMatch(u, m) ==
  LET matches == ResolveLocal(u, m) IN IF matches = {} THEN None ELSE Max(matches)

\* The first match is the occurrence; none when the clock skips the time.
SlotForDay(u, m) ==
  LET matches == ResolveLocal(u, m) IN IF matches = {} THEN None ELSE Min(matches)

\* CanonicalScheduledForUTC of a minute that is there.
Canonical(u) == SlotForDay(u, Minute(Local(u)))

CadenceMatchesDay(p, d) ==
  CASE p.cadence = "daily" -> TRUE
    [] p.cadence = "weekly" -> d % WeekLen \in p.on
    [] p.cadence = "once" -> d \in p.on
    [] p.cadence = "monthly" -> DayOfMonth(d) \in p.on
    [] p.cadence = "month_end" -> LastOfMonth(d)

PolicyDueAt(p, u) == Minute(Local(u)) = p.time /\ CadenceMatchesDay(p, Day(Local(u)))

\* A window [days, from, to] that ends before it starts runs over midnight.
BlackoutApplies(u, ws) ==
  LET m == Minute(Local(u))
      today == Day(Local(u)) % WeekLen
  IN \E x \in ws : \E d \in x.days :
       \/ x.from < x.to /\ d = today /\ x.from <= m /\ m < x.to
       \/ x.from > x.to /\ d = today /\ x.from <= m
       \/ x.from > x.to /\ (d + 1) % WeekLen = today /\ m < x.to

Blocked(p, u) == BlackoutApplies(u, windows) \/ BlackoutApplies(u, p.windows)

(***************************************************************************)
(* The projections, made at an instant t.                                  *)
(***************************************************************************)
\* The day a projection begins with: today, or the date of a one-time policy.
FirstDay(p, t) ==
  LET today == Midnight(t)
      dates == IF p.cadence = "once" THEN {Date(d * DayLen) : d \in p.on} ELSE {}
  IN Max({today} \cup dates)

\* The walk the projections have in common: per offset from the first day, the
\* occurrence of that day if the cadence has one and it is not past.
Walk(p, t) ==
  LET first == FirstDay(p, t)
      day == [k \in 0..Horizon |-> AddDays(first, k)]
      slot == [k \in 0..Horizon |-> IF CadenceMatchesDay(p, Day(Local(day[k])))
                                    THEN SlotForDay(day[k], p.time) ELSE None]
  IN [k \in 0..Horizon |-> IF slot[k] >= t THEN slot[k] ELSE None]

\* projectPolicyPreviewOccurrences: the occurrences it shows, at most Limit.
PreviewSlots(p, t) ==
  LET walk == Walk(p, t)
      shows == {k \in 0..Horizon : walk[k] # None}
  IN IF p.consumed THEN {}
     ELSE {walk[k] : k \in {i \in shows : Cardinality({j \in shows : j < i}) < Limit}}

\* AdmissionOutcome "admitted".
Admits(p, u) == p.enabled /\ ~Blocked(p, u)

\* projectPolicyPreviewConflicts: the effective overlaps with another policy.
Conflicts(p, q, slots) ==
  {u \in slots :
     /\ ~q.consumed /\ q.enabled /\ PolicyDueAt(q, u)
     /\ SlotForDay(Midnight(u), q.time) = u
     /\ Admits(p, u) /\ ~Blocked(q, u)}

\* Calendar: the allowed slots of the days from today on.
AllowedSlots(p, t) ==
  LET today == Midnight(t)
      slots == {SlotForDay(AddDays(today, k), p.time) : k \in 0..Horizon}
  IN {u \in slots \ {None} : p.enabled /\ ~p.consumed /\ PolicyDueAt(p, u) /\ ~Blocked(p, u)}

\* nextScheduleProjectionOccurrenceLocal, for an enabled policy.
NextRun(p, t) ==
  LET walk == Walk(p, t)
      found == {k \in 0..Horizon : walk[k] # None /\ PolicyDueAt(p, walk[k]) /\ ~Blocked(p, walk[k])}
  IN IF p.consumed \/ ~p.enabled \/ found = {} THEN None ELSE walk[Min(found)]

(***************************************************************************)
(* The scheduler, which is there for every minute.                         *)
(***************************************************************************)
\* schedulePlans: a one-time policy is accepted at its canonical minute, a
\* recurring one whenever the clock shows its time, unless the canonical time
\* has a row already.
Fires(p, u, done) ==
  /\ p.enabled /\ ~p.consumed /\ PolicyDueAt(p, u)
  /\ p.cadence = "once" => SlotForDay(u, p.time) = u
  /\ Canonical(u) \notin done

\* The rows of the policies that were there before the start.
Earlier(p, t) ==
  IF JustSaved THEN {}
  ELSE {Canonical(u) : u \in {v \in t - 2 * DayLen .. t - 1 : Fires(p, v, {})}}

Unasked == [preview |-> {}, end |-> None, conflicts |-> {}, calendar |-> {}, next |-> None]

Init ==
  /\ zone \in Zones /\ policy \in Policies /\ other \in Others /\ windows \in GlobalWindows
  /\ start \in Starts /\ now = start
  /\ shown = Unasked
  /\ rows = [policy |-> {}, other |-> {}] /\ ran = [policy |-> {}, other |-> {}]

\* PreviewPolicy, Calendar and ProjectSchedule are asked at the start.
Project ==
  LET slots == PreviewSlots(policy, start) IN
  /\ shown = Unasked
  /\ shown' = [preview |-> {u \in slots : Admits(policy, u)},
               end |-> IF Cardinality(slots) = Limit THEN Max(slots) ELSE MaxTime,
               conflicts |-> Conflicts(policy, other, slots),
               calendar |-> AllowedSlots(policy, start),
               next |-> NextRun(policy, start)]
  /\ rows' = [policy |-> Earlier(policy, start), other |-> Earlier(other, start)]
  /\ UNCHANGED <<zone, policy, other, windows, start, now, ran>>

\* One tick of ProcessDueSlot: a row for what is due, a launch if nothing bars it.
Rows(p, done) == IF Fires(p, now, done) THEN done \cup {Canonical(now)} ELSE done
Runs(p, done, r) == IF Fires(p, now, done) /\ ~Blocked(p, now) THEN r \cup {now} ELSE r

Tick ==
  /\ shown # Unasked /\ now < MaxTime /\ now' = now + 1
  /\ rows' = [policy |-> Rows(policy, rows.policy), other |-> Rows(other, rows.other)]
  /\ ran' = [policy |-> Runs(policy, rows.policy, ran.policy), other |-> Runs(other, rows.other, ran.other)]
  /\ UNCHANGED <<zone, policy, other, windows, start, shown>>

Next == Project \/ Tick

Spec == Init /\ [][Next]_vars

(***************************************************************************)
(* Properties.                                                             *)
(***************************************************************************)
\* The scheduler launches the policy in exactly the minutes the preview, the
\* calendar and the next-run projection announced, over days on which the
\* clock skips or repeats an hour, over no-run windows and short months: none
\* of the four counts a day twice, misses one, or takes another instant for
\* the same local time.
RunsAsPreviewed ==
  LET past == start .. now - 1 IN
  /\ ran.policy \cap (start..shown.end) = shown.preview \cap past
  /\ ran.policy = shown.calendar \cap past
  /\ shown.next \in past => shown.next = Min(ran.policy \cup {MaxTime})
  /\ shown.next = None => ran.policy = {}

\* The overlaps the preview warns of are the minutes in which the scheduler
\* launches both policies.
ConflictsAreReal ==
  ran.policy \cap ran.other \cap (start..shown.end) = shown.conflicts \cap (start .. now - 1)

\* Everything the pages announce of a policy, its runs and its overlaps, is what
\* the scheduler does.
CalendarIsKept == RunsAsPreviewed /\ ConflictsAreReal
=============================================================================
