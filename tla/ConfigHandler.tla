--------------------------- MODULE ConfigHandler ---------------------------
(***************************************************************************)
(* The settings of the manager (controllers/config/handler.go) and how     *)
(* main.go starts it. The settings are global variables: flags give them   *)
(* their first values, the ConfigMap that ConfigName and ChartNamespace    *)
(* point at overwrites them, before the manager starts and from then on by *)
(* the events of the informer. They are assigned key by key in the order   *)
(* of a map, without a lock, while the reconcile worker reads them.        *)
(***************************************************************************)
EXTENDS Naturals, Sequences, SequencesExt

CONSTANTS
  Names,      \* ConfigMaps; which of them is ours is a setting itself
  Default,    \* the one the flags name
  Contents,   \* what users write: functions from Keys to values
  MaxEdits,   \* bound: changes by users
  MaxFails,   \* bound: failed reads at start-up
  MaxRestarts \* bound: restarts of the manager

Keys == {"ConfigName", "EnableLimitedCache", "ReadyTimeout", "ProbeInterval"}
Durations == {"ReadyTimeout", "ProbeInterval"}
Flags == [k \in Keys |-> IF k = "ConfigName" THEN Default ELSE "default"]
NoData == [k \in Keys |-> "absent"]
Values == Names \cup {"default", "custom", "0"}

\* What users write for a key. Only a duration can fail to parse: names and
\* the switch of the limited cache are strings, taken as they are.
KindOf(k) ==
  CASE k = "ConfigName" -> Names [] k = "EnableLimitedCache" -> {"default", "custom"}
    [] OTHER -> {"default", "custom", "0", "bad"}

ASSUME ConfigAssumption ==
  /\ IsFiniteSet(Names) /\ Default \in Names /\ Names \cap {"unset", "absent", "bad"} = {}
  /\ Contents \subseteq [Keys -> Values \cup {"unset", "bad"}]
  /\ \A c \in Contents : \A k \in Keys : c[k] \in KindOf(k) \cup {"unset"}
  /\ MaxEdits \in Nat /\ MaxFails \in Nat /\ MaxRestarts \in Nat

VARIABLES
  cms,        \* the ConfigMaps on the API server
  events,     \* watch events on their way
  cached,     \* the ConfigMaps in the informer cache
  g,          \* the settings: the package's global variables
  gauge,      \* the metric btpmanager_custom_config_applied
  phase,      \* main: before or after mgr.Start
  objects,    \* what the watch handler still maps for the current event
  remaining,  \* keys of Head(objects) that are not assigned yet
  enqueued,   \* the current event has put the CR into the queue
  startup,    \* the runnable Handler.Start
  probe,      \* the runnable ProbeRunner.Start
  queue, pc,  \* the work queue and the reconcile worker
  used,       \* the settings the last pass read
  edits, fails, restarts

handler == <<objects, remaining, enqueued>>
worker == <<queue, pc, used>>
counts == <<edits, fails, restarts>>
vars == <<cms, events, cached, g, gauge, phase, handler, startup, probe, worker, counts>>

Data == Contents \cup {NoData}
TypeOK ==
  /\ cms \in [Names -> Data] /\ cached \in [Names -> Data]
  /\ events \in Seq([name : Names, old : Data, new : Data])
  /\ g \in [Keys -> Values] /\ g["ConfigName"] \in Names /\ gauge \in {0, 1}
  /\ phase \in {"main", "running"} /\ objects \in Seq(Contents) /\ remaining \subseteq Keys
  /\ enqueued \in BOOLEAN /\ startup \in {"new", "found", "done"}
  /\ probe \in {"new", "on", "off"} /\ queue \subseteq {"cr"} /\ pc \in {"idle", "apply", "wait"}
  /\ used \in [Keys -> Values]
  /\ edits \in 0 .. MaxEdits /\ fails \in 0 .. MaxFails /\ restarts \in 0 .. MaxRestarts

Fresh ==
  /\ g' = Flags /\ gauge' = 0 /\ phase' = "main" /\ events' = <<>>
  /\ objects' = <<>> /\ remaining' = {} /\ enqueued' = FALSE /\ startup' = "new" /\ probe' = "new"
  /\ queue' = {} /\ pc' = "idle" /\ used' = Flags
Init ==
  /\ cms \in [Names -> Data] /\ cached = [n \in Names |-> NoData]
  /\ g = Flags /\ gauge = 0 /\ phase = "main" /\ events = <<>>
  /\ objects = <<>> /\ remaining = {} /\ enqueued = FALSE /\ startup = "new" /\ probe = "new"
  /\ queue = {} /\ pc = "idle" /\ used = Flags
  /\ edits = 0 /\ fails = 0 /\ restarts = 0
-----------------------------------------------------------------------------
(* Handler.Reconcile: the values of one ConfigMap.                          *)
Set(data) == {k \in Keys : data[k] \notin {"unset", "absent"}}

\* Mutant: a value that does not parse is assigned.
ParsedAsIs(k, data) == data[k]
\* A duration that does not parse leaves the setting as it is.
Parsed(k, data) == IF k \in Durations /\ data[k] = "bad" THEN g[k] ELSE data[k]

\* One case of the switch, in the order of the map.
Assign(k) ==
  /\ k \in remaining /\ remaining' = remaining \ {k}
  /\ g' = [g EXCEPT ![k] = Parsed(k, Head(objects))]
  /\ UNCHANGED <<cms, events, cached, gauge, phase, objects, enqueued, startup, probe, worker, counts>>

\* Reconcile returns the request for the CR. controller-runtime maps the old
\* and the new object of an update, and queues a request once per event: when
\* the first of the two is mapped.
ReturnRequest ==
  /\ objects # <<>> /\ remaining = {} /\ objects' = Tail(objects)
  /\ remaining' = (IF Tail(objects) = <<>> THEN {} ELSE Set(Head(Tail(objects))))
  /\ queue' = (IF enqueued THEN queue ELSE {"cr"}) /\ enqueued' = (Tail(objects) # <<>>)
  /\ UNCHANGED <<cms, events, cached, g, gauge, phase, startup, probe, pc, used, counts>>

\* Mutant: updates are dropped.
PassesNew(e) == e.name = g["ConfigName"] /\ e.old = NoData
\* nameMatches, with the settings of this moment.
Passes(e) == e.name = g["ConfigName"]

\* Mutant: the new object is mapped before the old one.
NewFirst(e) ==
  IF e.old = NoData THEN <<e.new>> ELSE IF e.new = NoData THEN <<e.old>> ELSE <<e.new, e.old>>
Objects(e) ==
  IF e.old = NoData THEN <<e.new>> ELSE IF e.new = NoData THEN <<e.old>> ELSE <<e.old, e.new>>

\* The predicates of the watch set the metric.
GaugeAfter(e) == IF e.new = NoData THEN 0 ELSE 1

(* An event: the cache is updated, the predicates set the metric and let    *)
(* the event pass or not. A deletion maps the last known object.            *)
Deliver ==
  /\ phase = "running" /\ events # <<>> /\ objects = <<>> /\ events' = Tail(events)
  /\ cached' = [cached EXCEPT ![Head(events).name] = Head(events).new]
  /\ IF Passes(Head(events))
     THEN /\ gauge' = GaugeAfter(Head(events))
          /\ objects' = Objects(Head(events)) /\ remaining' = Set(Head(Objects(Head(events))))
     ELSE UNCHANGED <<gauge, objects, remaining>>
  /\ UNCHANGED <<cms, g, phase, enqueued, startup, probe, worker, counts>>
-----------------------------------------------------------------------------
(* main.go.                                                                 *)
\* Mutant: the ConfigMap is left to the events of the informer.
LeaveFlags(data) == g
Overwrite(data) == [k \in Keys |-> IF k \in Set(data) THEN Parsed(k, data) ELSE g[k]]

\* What the informer lists when it starts.
Listed == {[name |-> n, old |-> NoData, new |-> cms[n]] : n \in {m \in Names : cms[m] # NoData}}

\* ApplyFromAPI, before anything runs; then the manager starts and lists the
\* ConfigMaps. A failed read is only logged.
ApplyFromAPI ==
  /\ phase = "main" /\ phase' = "running"
  /\ \/ g' = Overwrite(cms[g["ConfigName"]]) /\ UNCHANGED fails
     \/ fails < MaxFails /\ fails' = fails + 1 /\ UNCHANGED g
  /\ events' \in SetToSeqs(Listed)
  /\ queue' = {"cr"} /\ UNCHANGED <<cms, cached, gauge, handler, startup, probe, pc, used, edits, restarts>>

\* Handler.Start looks for the ConfigMap, and sets the metric afterwards.
Start ==
  /\ phase = "running"
  /\ \/ /\ startup = "new" /\ UNCHANGED gauge
        /\ startup' = (IF cached[g["ConfigName"]] = NoData THEN "done" ELSE "found")
     \/ startup = "found" /\ startup' = "done" /\ gauge' = 1
  /\ UNCHANGED <<cms, events, cached, g, phase, handler, probe, worker, counts>>

\* ProbeRunner.Start reads the interval, once.
StartProbe ==
  /\ phase = "running" /\ probe = "new"
  /\ probe' = (IF g["ProbeInterval"] = "0" THEN "off" ELSE "on")
  /\ UNCHANGED <<cms, events, cached, g, gauge, phase, handler, startup, worker, counts>>

Restart ==
  /\ restarts < MaxRestarts /\ restarts' = restarts + 1 /\ Fresh
  /\ cached' = [n \in Names |-> NoData] /\ UNCHANGED <<cms, edits, fails>>
-----------------------------------------------------------------------------
(* A pass of the reconcile worker reads settings where it needs them: one   *)
(* when it prepares the operand's ConfigMap, another one when it waits.     *)
Pass ==
  /\ \/ phase = "running" /\ pc = "idle" /\ queue # {} /\ queue' = {} /\ pc' = "apply" /\ UNCHANGED used
     \/ /\ pc = "apply" /\ pc' = "wait" /\ UNCHANGED queue
        /\ used' = [used EXCEPT !["EnableLimitedCache"] = g["EnableLimitedCache"]]
     \/ /\ pc = "wait" /\ pc' = "idle" /\ UNCHANGED queue
        /\ used' = [used EXCEPT !["ReadyTimeout"] = g["ReadyTimeout"]]
  /\ UNCHANGED <<cms, events, cached, g, gauge, phase, handler, startup, probe, counts>>
Timer ==
  /\ phase = "running" /\ pc = "idle" /\ queue = {} /\ queue' = {"cr"}
  /\ UNCHANGED <<cms, events, cached, g, gauge, phase, handler, startup, probe, pc, used, counts>>

\* A user creates, changes or deletes a ConfigMap.
UserEdits(n, data) ==
  /\ edits < MaxEdits /\ edits' = edits + 1 /\ data # cms[n]
  /\ cms' = [cms EXCEPT ![n] = data]
  /\ events' = (IF phase = "main" THEN events
                ELSE Append(events, [name |-> n, old |-> cms[n], new |-> data]))
  /\ UNCHANGED <<cached, g, gauge, phase, handler, startup, probe, worker, fails, restarts>>

Next ==
  \/ ApplyFromAPI \/ Start \/ StartProbe \/ Restart \/ Deliver \/ ReturnRequest \/ Pass \/ Timer
  \/ (\E k \in Keys : Assign(k)) \/ (\E n \in Names, d \in Data : UserEdits(n, d))
Spec == Init /\ [][Next]_vars
\* main, the runnables, the informer and the worker run; the timer fires.
FairSpec ==
  /\ Spec /\ WF_vars(ApplyFromAPI) /\ WF_vars(Start) /\ WF_vars(StartProbe)
  /\ WF_vars(Deliver) /\ WF_vars(ReturnRequest) /\ WF_vars(\E k \in Keys : Assign(k))
  /\ WF_vars(Pass) /\ WF_vars(Timer)
-----------------------------------------------------------------------------
Valid(k, data) == k \in Set(data) /\ ~(k \in Durations /\ data[k] = "bad")

(* What users write into the ConfigMap ends up in the settings, and in the  *)
(* pass that uses them, whatever the order of assignments, passes, events   *)
(* and restarts, and whatever other ConfigMaps say. A ConfigMap that stays  *)
(* is reported as applied, although both the events and Handler.Start set   *)
(* the metric and neither waits for the other. The probe reads its interval *)
(* once: an interval of 0 stored before the manager starts keeps it off.    *)
TakesEffect ==
  <>[](/\ \A k \in Keys : Valid(k, cms[Default]) =>
            /\ g[k] = cms[Default][k]
            /\ k \in {"EnableLimitedCache", "ReadyTimeout"} => used[k] = cms[Default][k]
       /\ cms[Default] # NoData => gauge = 1
       /\ edits = 0 /\ fails = 0 /\ cms[Default]["ProbeInterval"] = "0" => probe = "off")

(* When the watch has no event left to handle, the settings agree with the  *)
(* stored ConfigMap and the metric reports it: an update maps the old and   *)
(* the new object, each key by key in the order of a map, and what is       *)
(* assigned last is the new one; neither a restart nor a failed read at     *)
(* start-up leaves an older value behind.                                   *)
SettledWhenQuiet ==
  phase = "running" /\ events = <<>> /\ objects = <<>> =>
    /\ \A k \in Keys : Valid(k, cms[Default]) => g[k] = cms[Default][k]
    /\ cms[Default] # NoData => gauge = 1

(* A ConfigMap stored before the manager starts is in force from its first  *)
(* moment on: no pass applies the operand's resources with a flag's value,  *)
(* no probe starts that the ConfigMap disables, after no restart, and the   *)
(* events of the first list assign nothing else. main.go calls ApplyFromAPI *)
(* before it starts the manager; a failed read is only logged.              *)
InForceFromTheStart ==
  edits = 0 /\ fails = 0 =>
    /\ phase = "running" => \A k \in Keys : Valid(k, cms[Default]) => g[k] = cms[Default][k]
    /\ pc = "wait" /\ Valid("EnableLimitedCache", cms[Default]) =>
         used["EnableLimitedCache"] = cms[Default]["EnableLimitedCache"]
    /\ cms[Default]["ProbeInterval"] = "0" => probe # "on"

(* When the metric says that no custom configuration is applied, the        *)
(* settings are those of the flags.                                         *)
MetricTellsTruth == <>[](gauge = 0 => g = Flags)

(* An interval of 0 in the ConfigMap disables the probe at runtime.         *)
ProbeCanBeDisabled == <>[](cms[Default]["ProbeInterval"] = "0" => probe = "off")
=============================================================================
