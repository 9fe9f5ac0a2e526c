---------------------------- MODULE TrendHistory ----------------------------
(***************************************************************************)
(* What the daily vulnerability snapshots promise (docs/image-scanning.md, *)
(* "Daily snapshots and the trend"): a day that is over is history.  Rows  *)
(* are rewritten only for the current day, and published when the session  *)
(* that rewrote them ends; of the days that are over, only those held by   *)
(* that one session can still change.  A reconstruction adds rows that     *)
(* were missing and changes none.  Nothing is said about what a row holds. *)
(***************************************************************************)
EXTENDS Naturals

CONSTANTS Days,     \* the calendar
          NoRows    \* the empty function: a day without rows

VARIABLES today,    \* the current date
          history,  \* day -> (image ref -> frozen row), as published
          held      \* the days rewritten and not yet published

Init == today = 0 /\ history = [day \in Days |-> NoRows] /\ held = {}

\* g holds every row of f, unchanged.
Extends(g, f) == DOMAIN f \subseteq DOMAIN g /\ \A r \in DOMAIN f : g[r] = f[r]

\* An import or an edit rewrites the current day, and no other.
Refresh == /\ held' \subseteq held \cup {today}
           /\ UNCHANGED <<today, history>>

\* It ends: the days it holds are published, or dropped.
Publish == /\ \A day \in Days \ held : history'[day] = history[day]
           /\ held' = {}
           /\ UNCHANGED today

\* A reconstruction adds rows, on any day, and changes none.
Backfill == /\ \A day \in Days : Extends(history'[day], history[day])
            /\ UNCHANGED <<today, held>>

Midnight == today' = today + 1 /\ UNCHANGED <<history, held>>

Next == Refresh \/ Publish \/ Backfill \/ Midnight

Spec == Init /\ [][Next]_<<today, history, held>>
=============================================================================
