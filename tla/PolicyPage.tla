----------------------------- MODULE PolicyPage -----------------------------
(***************************************************************************)
(* RenewalSettingsPage (web/src/RenewalSettingsPage.tsx): the editor of    *)
(* the renewal policy.  The frequency is kept three times: as a cron       *)
(* expression, as the choice of a preset and as a time of day.             *)
(***************************************************************************)
EXTENDS WebApp

CONSTANTS Hours, Minutes    \* the hours and minutes that are typed

VARIABLE policy

-----------------------------------------------------------------------------
\* A cron expression: every day at a time, with a number that may be written with a
\* leading zero, or another one.
Cron(form, hour, minute, lead) ==
    [form |-> form, hour |-> hour, minute |-> minute, lead |-> lead]
Daily(hour, minute) == Cron("daily", hour, minute, "none")
Every12h == Cron("12h", 0, 0, "none")
Every6h  == Cron("6h", 0, 0, "none")
Other    == Cron("other", 0, 0, "none")

Typed ==
    {Every12h, Every6h, Other}
    \cup {Cron("daily", h, m, "none") : h \in Hours, m \in Minutes}
    \cup {Cron("daily", h, m, "hour") : h \in Hours \cap 0 .. 9, m \in Minutes}
    \cup {Cron("daily", h, m, "minute") : h \in Hours, m \in Minutes \cap 0 .. 9}

\* The value of an input of type time; it is empty while the input is cleared.
Time(hour, minute) == [hour |-> hour, minute |-> minute]
Cleared == Time(-1, -1)
Times   == {Time(h, m) : h \in Hours, m \in Minutes}

ASSUME TimesAssumption == Hours \subseteq 0 .. 23 /\ Minutes \subseteq 0 .. 59

\* dailyTimeFor: the pattern takes a leading zero in the hour but not in the minute.
DailyTimeFor(c) ==
    IF c.form = "daily" /\ c.lead # "minute"
    THEN Time(c.hour, c.minute) ELSE Cleared

\* presetFor compares the text of the presets first.
PresetFor(c) ==
    CASE c = Daily(3, 0) -> "daily"
      [] c = Every12h -> "12h"
      [] c = Every6h -> "6h"
      [] OTHER -> IF DailyTimeFor(c) # Cleared THEN "custom_daily" ELSE "advanced"

\* cronForDailyTime: Number drops leading zeros, and makes 0 of what was cleared.
CronForDailyTime(t) == IF t = Cleared THEN Daily(0, 0) ELSE Daily(t.hour, t.minute)

\* RenewalPolicyEditor's state when it mounts.
Editor(c) ==
    [query |-> "success", fetch |-> FALSE, cron |-> c, mode |-> PresetFor(c),
     time |-> IF DailyTimeFor(c) = Cleared THEN Time(4, 0) ELSE DailyTimeFor(c),
     requests |-> {}]

NoPolicy == [Editor(Daily(3, 0)) EXCEPT !.query = "pending", !.fetch = TRUE]

PolicyInit == policy = NoPolicy

-----------------------------------------------------------------------------
Put(p) == policy' = p /\ Local

Editing == On("policy") /\ policy.query = "success"

\* An editor mounts with what the query has.
Mounts(c, fetch) == [Editor(c) EXCEPT !.fetch = fetch, !.requests = policy.requests]

\* getRenewalPolicy answers, after a first look at the cache.  A mounted editor keeps
\* its state, and is unmounted by an error.
PolicyAnswers ==
    /\ On("policy") /\ policy.fetch
    /\ \/ /\ policy.query # "success"
          /\ \E c \in Typed, cached \in {FALSE, policy.query = "pending"} :
                Put(Mounts(c, cached))
       \/ policy.query = "success" /\ Put([policy EXCEPT !.fetch = FALSE])
       \/ Put([policy EXCEPT !.query = "error", !.fetch = FALSE])

\* Mutant: the preset of a time of one's own waits for the time to be entered.
SelectWithoutTime(m) ==
    /\ Editing
    /\ Put([policy EXCEPT !.mode = m,
              !.cron = CASE m = "daily" -> Daily(3, 0)
                         [] m = "12h" -> Every12h
                         [] m = "6h" -> Every6h
                         [] m \in {"custom_daily", "advanced"} -> @])

SelectPreset(m) ==
    /\ Editing
    /\ Put([policy EXCEPT !.mode = m,
              !.cron = CASE m = "daily" -> Daily(3, 0)
                         [] m = "12h" -> Every12h
                         [] m = "6h" -> Every6h
                         [] m = "custom_daily" -> CronForDailyTime(policy.time)
                         [] m = "advanced" -> @])

SetDailyTime(t) ==
    /\ Editing /\ policy.mode = "custom_daily"
    /\ Put([policy EXCEPT !.time = t, !.cron = CronForDailyTime(t)])

TypeCron(c) ==
    /\ Editing /\ policy.mode = "advanced"
    /\ Put([policy EXCEPT !.cron = c])

\* save.mutate() and run.mutate().  Bound: one of each at a time in the page.
PolicyRequest(r) ==
    /\ Editing /\ r \notin policy.requests
    /\ Sends
    /\ policy' = [policy EXCEPT !.requests = IF Accepted(session) THEN @ \cup {r} ELSE @]

\* onSuccess of run invalidates the query, which is then fetched again; the one of
\* save sets it, which leaves a mounted editor as it is and mounts one after an error.
PolicyRequestAnswers(r) ==
    /\ r \in policy.requests
    /\ LET rest == policy.requests \ {r}
       IN  \/ Put([policy EXCEPT !.requests = rest])
           \/ r = "run" /\ Put([policy EXCEPT !.requests = rest, !.fetch = TRUE])
           \/ /\ r = "save" /\ policy.query = "error"
              /\ \E c \in Typed : Put([Mounts(c, policy.fetch) EXCEPT !.requests = rest])

PolicyRuns == PolicyAnswers \/ \E r \in {"save", "run"} : PolicyRequestAnswers(r)

PolicyNext ==
    \/ PolicyRuns
    \/ \E m \in {"daily", "12h", "6h", "custom_daily", "advanced"} : SelectPreset(m)
    \/ \E t \in Times \cup {Cleared} : SetDailyTime(t)
    \/ \E c \in Typed : TypeCron(c)
    \/ \E r \in {"save", "run"} : PolicyRequest(r)

-----------------------------------------------------------------------------
(* Correctness properties *)

\* What the editor would save is what it shows: the preset's expression, or the time of
\* day, which is also the one that is shown when the policy is read again.
PresetMatchesCron ==
    policy.query = "success" =>
        CASE policy.mode = "daily" -> policy.cron = Daily(3, 0)
          [] policy.mode = "12h" -> policy.cron = Every12h
          [] policy.mode = "6h" -> policy.cron = Every6h
          [] policy.mode = "custom_daily" ->
                policy.time # Cleared => DailyTimeFor(policy.cron) = policy.time
          [] policy.mode = "advanced" -> TRUE
=============================================================================
