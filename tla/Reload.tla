------------------------------- MODULE Reload -------------------------------
(***************************************************************************)
(* The config file watcher of pkg/reload, and whoever edits the file.      *)
(* Watch is one goroutine: it takes one file event at a time, drops it if  *)
(* the debounce time has not passed since the last one it took, and        *)
(* otherwise reads and parses the file as it is by then.  The file, its    *)
(* editors and the kernel's queue of events are external.                  *)
(***************************************************************************)
EXTENDS Naturals

CONSTANTS
  Configs,      \* contents that parse and validate
  Broken,       \* contents that do not
  Empty,        \* the empty file: no field is required of it, so it loads
  EditKinds,    \* what editors do: "inPlace", "replace", "early"
  Debounce,     \* w.debounce, in ticks
  MaxEdits      \* bound: the number of edits

ASSUME ReloadAssumption ==
  /\ Configs # {}
  /\ Configs \cap Broken = {} /\ Empty \notin Configs \cup Broken
  /\ EditKinds \subseteq {"inPlace", "replace", "early"}
  /\ Debounce \in Nat \ {0}
  /\ MaxEdits \in Nat

VARIABLES
  content,      \* what the file holds
  truncated,    \* an editor has truncated the file and not yet written it
  edits,        \* the edits so far, for the bound
  pending,      \* the file events Watch has not received
  watching,     \* "starting", "on", "deaf" (the watched file was replaced), "stopped"
  loading,      \* handleChange took an event and has not read the file yet
  age,          \* the time since w.last, up to Debounce
  seen,         \* history: the content read last
  missed,       \* history: since the file was read last, a change gave no event
                \* or its event was dropped
  active        \* the configuration the callback was given last

file == <<content, truncated, edits>>
watcherVars ==
  <<content, truncated, edits, pending, watching, loading, age, seen, missed, active>>

Contents == Configs \cup Broken \cup {Empty}

\* The server has loaded the file before it starts to watch it.
WatcherInit ==
  /\ content \in Configs
  /\ truncated = FALSE /\ edits = 0 /\ pending = 0
  /\ watching = "starting" /\ loading = FALSE
  /\ age = Debounce
  /\ seen = content /\ missed = FALSE
  /\ active = content

-----------------------------------------------------------------------------
(* Editors (external).                                                     *)

\* The kernel queues an event for a modification of what is watched.  It may merge
\* it with an equal one that has not been read; and a queue that is full, however
\* long that is, loses it: Watch only logs the error it is sent instead.
Notify ==
  IF watching = "on"
  THEN \/ pending' = pending + 1 /\ UNCHANGED missed
       \/ pending > 0 /\ pending' = pending /\ missed' \in {missed, TRUE}
  ELSE missed' = TRUE /\ UNCHANGED pending

MayEdit == watching = "on" \/ "early" \in EditKinds

\* os.WriteFile, as most editors: the file is truncated, then written.
Truncate ==
  /\ "inPlace" \in EditKinds /\ MayEdit
  /\ edits < MaxEdits /\ ~truncated
  /\ edits' = edits + 1
  /\ content' = Empty /\ truncated' = TRUE
  /\ Notify
  /\ UNCHANGED <<watching, loading, age, seen, active>>

Write(c) ==
  /\ truncated
  /\ content' = c /\ truncated' = FALSE
  /\ Notify
  /\ UNCHANGED <<edits, watching, loading, age, seen, active>>

\* Another file is renamed over the watched one: the inode that is watched is
\* gone, and neither a Write nor a Create event comes for the path any more.
Replace(c) ==
  /\ "replace" \in EditKinds /\ MayEdit
  /\ edits < MaxEdits /\ ~truncated
  /\ edits' = edits + 1
  /\ content' = c
  /\ watching' = IF watching = "on" THEN "deaf" ELSE watching
  /\ missed' = TRUE
  /\ UNCHANGED <<truncated, pending, loading, age, seen, active>>

WatcherTick ==
  /\ age < Debounce
  /\ age' = age + 1
  /\ UNCHANGED <<file, pending, watching, loading, seen, missed, active>>

-----------------------------------------------------------------------------
(* Watch and handleChange.                                                 *)

\* watcher.Add: only what happens from now on is seen.  Without a watcher, or a file
\* to watch, Watch returns the error.
Watch ==
  /\ watching = "starting"
  /\ watching' \in {"on", "stopped"}
  /\ UNCHANGED <<file, pending, loading, age, seen, missed, active>>

\* Fault: the event is not the kind that is handled.
Ignore ==
  /\ watching \in {"on", "deaf"} /\ ~loading /\ pending > 0
  /\ pending' = pending - 1
  /\ UNCHANGED <<file, watching, loading, age, seen, missed, active>>

\* Fault: an event that comes too early is put back, and begins the window anew.
TakeBack ==
  /\ watching \in {"on", "deaf"} /\ ~loading /\ pending > 0
  /\ IF age < Debounce
     THEN UNCHANGED <<pending, loading>>
     ELSE pending' = pending - 1 /\ loading' = TRUE
  /\ age' = 0
  /\ UNCHANGED <<file, watching, seen, missed, active>>

\* An event that comes too early is dropped; another begins a new window.
TakeEvent ==
  /\ watching \in {"on", "deaf"} /\ ~loading /\ pending > 0
  /\ pending' = pending - 1
  /\ IF age < Debounce
     THEN missed' = TRUE /\ UNCHANGED <<age, loading>>
     ELSE age' = 0 /\ loading' = TRUE /\ UNCHANGED missed
  /\ UNCHANGED <<file, watching, seen, active>>

\* Fault: the callback is given what did not load.
LoadUnchecked ==
  /\ loading /\ loading' = FALSE
  /\ seen' = content /\ missed' = FALSE /\ active' = content
  /\ UNCHANGED <<file, pending, watching, age>>

\* config.Load reads the file now; what does not load leaves the old config.
LoadConfig ==
  /\ loading /\ loading' = FALSE
  /\ seen' = content /\ missed' = FALSE
  /\ active' = IF content \in Broken THEN active ELSE content
  /\ UNCHANGED <<file, pending, watching, age>>

\* The context is cancelled; the select may prefer it to an event.
Stop ==
  /\ watching \in {"on", "deaf"} /\ ~loading
  /\ watching' = "stopped"
  /\ UNCHANGED <<file, pending, loading, age, seen, missed, active>>

WatcherNext ==
  \/ Truncate \/ \E c \in Configs \cup Broken : Write(c) \/ Replace(c)
  \/ WatcherTick \/ Watch \/ TakeEvent \/ LoadConfig \/ Stop

\* The goroutine of Watch runs, time passes, and an editor that has truncated
\* the file writes it.
WatcherFairness ==
  /\ WF_watcherVars(Watch) /\ WF_watcherVars(TakeEvent) /\ WF_watcherVars(LoadConfig)
  /\ WF_watcherVars(WatcherTick)
  /\ WF_watcherVars(\E c \in Configs \cup Broken : Write(c))

WatcherSpec == WatcherInit /\ [][WatcherNext]_watcherVars /\ WatcherFairness

-----------------------------------------------------------------------------
\* The variables have their types.
WatcherTypeOK ==
  /\ content \in Contents /\ seen \in Contents
  /\ truncated \in BOOLEAN /\ loading \in BOOLEAN /\ missed \in BOOLEAN
  /\ edits \in 0..MaxEdits /\ pending \in Nat /\ age \in 0..Debounce
  /\ watching \in {"starting", "on", "deaf", "stopped"}
  /\ active \in Contents

\* Whatever the file has held, the configuration the callback was given last is
\* one that loads, and it is the one read last unless that did not load: a broken
\* file leaves the configuration before it in place (reload.go:82-95).
LastGoodIsActive ==
  /\ active \notin Broken
  /\ seen \notin Broken => active = seen

\* There is no other way to lose a change than the debounce and the lack of an
\* event (a watch that began too late or has ended, a file that was replaced, a full
\* queue): a watcher that missed nothing has read the file as it is, or is
\* about to.
NoOtherLoss == seen = content \/ pending > 0 \/ loading \/ missed

\* The two together, as an operator of the server would put it: once nothing is
\* under way and nothing was missed, a file that loads is the one that is active.
QuietIsCurrent ==
  pending = 0 /\ ~loading /\ ~missed /\ content \notin Broken => active = content

\* Every change is read in the end or has met one of those two fates; the
\* watcher does not stay behind the file for ever.
EveryChangeSettles ==
  []<>(watching = "stopped" \/ (pending = 0 /\ ~loading))

\* The inductive invariant of the proofs (LibraryProofs).
WatcherIInv == WatcherTypeOK /\ NoOtherLoss /\ LastGoodIsActive
=============================================================================
