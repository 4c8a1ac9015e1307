------------------------------ MODULE Metrics ------------------------------
(***************************************************************************)
(* MetricRegistry, scoped_add with its FinalAct, MetricCsvFormatter and    *)
(* MetricDumper (metrics/, finally.hpp): a user thread makes, registers,   *)
(* updates and destroys metrics while the dumper's thread reads them, row  *)
(* by row, until it is told to stop.                                       *)
(***************************************************************************)
EXTENDS Integers, Sequences

LOCAL INSTANCE FiniteSetsExt

CONSTANTS
  Objects,         \* the metrics
  KindOf, NameOf,  \* what each is, and the name, its own, it is registered under
  MaxUpdates,      \* bound on the value of a metric
  MaxRows          \* bound on the rows written before halt

VARIABLES
  object,          \* [life, values, adding, guards]
  registry,        \* metrics_: a set of exporters [obj, part, name]
  mutex,           \* mutex_ of the registry: "free", or "reader"
  dumper,          \* the dumper's thread and its formatter
  stop             \* [asked, values]: done_, and what the metrics that are still
                   \* registered were when it was set

metricVars == <<object, registry, mutex, dumper, stop>>

-----------------------------------------------------------------------------
\* The exporters that add() makes for a kind of metric, in order.
NameEnds(kind) ==
  CASE kind = "latency" -> <<"_total_usec", "_count">>
    [] kind = "gauge" -> <<"_gauge">>
    [] kind = "stats" -> <<"_count", "_total", "_max", "_min">>
    [] kind = "queue" -> <<"_queue_depth">>
    [] OTHER -> <<"">>
Exporter(o, k) == [obj |-> o, part |-> k, name |-> <<NameOf[o], NameEnds(KindOf[o])[k]>>]
Parts(o) == 1 .. Len(NameEnds(KindOf[o]))

\* A metric that does not exist, yet or any longer.
Absent(o) == [life |-> "absent", values |-> [k \in Parts(o) |-> 0], adding |-> 0, guards |-> {}]
\* MetricCsvFormatter and the thread, before initialize().
NewDumper == [pc |-> "lock", for |-> "header", left |-> {}, snapshot |-> {}, columns |-> <<>>,
              rows |-> 0, stopping |-> FALSE]
MetricsInit ==
  /\ object = [o \in Objects |-> Absent(o)]
  /\ registry = {} /\ mutex = "free" /\ dumper = NewDumper
  /\ stop = [asked |-> FALSE, values |-> {}]

-----------------------------------------------------------------------------
(* The user's thread.                                                      *)

Create(o) ==
  /\ object[o].life = "absent"
  /\ object' = [object EXCEPT ![o].life = "new"]
  /\ UNCHANGED <<registry, mutex, dumper, stop>>
\* scoped_add: one add_exporter after the other; then the guard is returned.
Guard == {"first"}
add_exporter(o) ==
  /\ object[o].life = "new" /\ mutex = "free"
  /\ LET k == object[o].adding + 1
         last == k = Len(object[o].values)
     IN  /\ registry' = registry \cup {Exporter(o, k)}
         /\ object' = [object EXCEPT ![o] = [@ EXCEPT !.adding = k, !.life = IF last THEN "live" ELSE @,
                                                     !.guards = IF last THEN Guard ELSE {}]]
  /\ UNCHANGED <<mutex, dumper, stop>>
\* A metric of several parts is updated part by part, in order.
NextPart(o) ==
  IF \E k \in Parts(o) : object[o].values[k] < object[o].values[1]
  THEN Min({k \in Parts(o) : object[o].values[k] < object[o].values[1]})
  ELSE 1
Update(o) ==
  /\ object[o].life = "live" /\ object[o].values[NextPart(o)] < MaxUpdates
  /\ object' = [object EXCEPT ![o].values[NextPart(o)] = @ + 1]
  /\ UNCHANGED <<registry, mutex, dumper, stop>>

\* FinalAct(FinalAct&&): the guard that was moved from is cancelled.
\* Mutant: it is not.
Moved_Both(guards) == guards \cup {"second"}
Moved(guards) == {"second"}
MoveGuard(o) ==
  /\ object[o].guards = Guard
  /\ object' = [object EXCEPT ![o].guards = Moved(@)]
  /\ UNCHANGED <<registry, mutex, dumper, stop>>
remove(o) == {e \in registry : e.obj # o}
\* ~FinalAct: remove(obj), unless it was cancelled.
EndGuard(o) ==
  /\ mutex = "free"
  /\ \E g \in object[o].guards : object' = [object EXCEPT ![o].guards = @ \ {g}]
  /\ registry' = remove(o)
  /\ stop' = [stop EXCEPT !.values = {was \in @ : was[1].obj # o}]
  /\ UNCHANGED <<mutex, dumper>>
\* The metric goes after its guard, and may be made anew.
Destroy(o) ==
  /\ object[o].life = "live" /\ object[o].guards = {}
  /\ object' = [object EXCEPT ![o] = Absent(o)]
  /\ UNCHANGED <<registry, mutex, dumper, stop>>

\* MetricDumper::halt, and join, both by stop() in the destructor.
halt ==
  /\ ~stop.asked
  /\ stop' = [asked |-> TRUE, values |-> {<<e, object[e.obj].values[e.part]>> : e \in registry}]
  /\ UNCHANGED <<object, registry, mutex, dumper>>

-----------------------------------------------------------------------------
(* The dumper's thread: initialize() reads the registry once for the       *)
(* header, then format_values() once per row.                              *)

DumperAt(pc) == dumper.pc = pc
\* read_all: under the mutex, each exporter in no particular order.
LockRegistry ==
  /\ DumperAt("lock") /\ mutex = "free"
  /\ mutex' = "reader"
  /\ dumper' = [dumper EXCEPT !.pc = "read", !.left = registry, !.snapshot = {}]
  /\ UNCHANGED <<object, registry, stop>>
ReadExporter ==
  /\ DumperAt("read")
  /\ \E e \in dumper.left :
       dumper' = [dumper EXCEPT !.left = @ \ {e},
                                !.snapshot = @ \cup {[name |-> e.name, value |-> object[e.obj].values[e.part]]}]
  /\ UNCHANGED <<object, registry, mutex, stop>>
UnlockRegistry ==
  /\ DumperAt("read") /\ dumper.left = {}
  /\ mutex' = "free"
  /\ dumper' = [dumper EXCEPT !.pc = dumper.for]
  /\ UNCHANGED <<object, registry, stop>>

\* initialize(): a column per name; their order is left out.
initialize ==
  /\ DumperAt("header")
  /\ dumper' = [dumper EXCEPT !.pc = "wait", !.for = "row", !.snapshot = {},
                              !.columns = [n \in {m.name : m \in dumper.snapshot} |-> 0]]
  /\ UNCHANGED <<object, registry, mutex, stop>>

\* wait_for says whether done_ is set; the row after it is the last.
\* Mutant: a request to stop ends the loop before that row.
AfterWait_Stops(asked) == IF asked THEN "gone" ELSE "lock"
AfterWait(asked) == "lock"
WaitFor ==
  /\ DumperAt("wait") /\ (dumper.rows < MaxRows \/ stop.asked)
  /\ dumper' = [dumper EXCEPT !.pc = AfterWait(stop.asked), !.stopping = stop.asked]
  /\ UNCHANGED <<object, registry, mutex, stop>>
\* Each value goes to the column of its name; a name without one is dropped, a
\* column without a value keeps what it had.
Placed(columns, snapshot) ==
  [n \in DOMAIN columns |->
     IF \E m \in snapshot : m.name = n THEN (CHOOSE m \in snapshot : m.name = n).value ELSE columns[n]]
format_values ==
  /\ DumperAt("row")
  /\ dumper' = [dumper EXCEPT !.pc = IF dumper.stopping THEN "gone" ELSE "wait",
                              !.columns = Placed(@, dumper.snapshot),
                              !.rows = IF dumper.stopping THEN @ ELSE @ + 1, !.snapshot = {}]
  /\ UNCHANGED <<object, registry, mutex, stop>>

-----------------------------------------------------------------------------
DumperStep ==
  LockRegistry \/ ReadExporter \/ UnlockRegistry \/ initialize \/ WaitFor \/ format_values
MetricsStep ==
  \/ \E o \in Objects : \/ Create(o) \/ add_exporter(o) \/ Update(o)
                        \/ MoveGuard(o) \/ EndGuard(o) \/ Destroy(o)
  \/ halt \/ DumperStep
MetricsSpec == MetricsInit /\ [][MetricsStep]_metricVars /\ WF_metricVars(DumperStep)

-----------------------------------------------------------------------------
\* The dumper reads no metric that is gone: what it is about to read is registered,
\* and a metric is registered as long as its guard, wherever it was moved, is in
\* scope.  The last row, which is taken after halt, has every update that was made
\* before halt to a metric that is there to the end and has a column.
MetricsAgree ==
  /\ \A e \in dumper.left : object[e.obj].life # "absent"
  /\ dumper.left \subseteq registry
  /\ \A o \in Objects : object[o].guards # {} <=> object[o].life = "live" /\ \E e \in registry : e.obj = o
  /\ DumperAt("gone") =>
       \A was \in stop.values : was[1].name \in DOMAIN dumper.columns => dumper.columns[was[1].name] >= was[2]
StopAsked == stop.asked
DumperGone == DumperAt("gone")
\* After halt, join returns.
DumperJoins == StopAsked ~> DumperGone

-----------------------------------------------------------------------------
(***************************************************************************)
(* StatsMetric, LatencyMetric and LatencyTimer (metric_collectors.hpp):    *)
(* several threads update the same metrics, each of whose parts is one     *)
(* atomic variable; maximum and minimum are kept with compare_exchange.    *)
(***************************************************************************)

LOCAL INSTANCE FiniteSets

CONSTANTS
  Updaters,           \* threads
  Samples,            \* what they may measure
  Lowest, Highest,    \* numeric_limits<T>
  MaxCalls            \* bound on the calls each thread makes

VARIABLES
  stats,              \* [count, total, max, min]
  latency,            \* [total, count]
  updater,            \* [pc, sample, observed, timer, left]
  measured            \* the samples since the reset: a set of [by, call, sample]

collectorVars == <<stats, latency, updater, measured>>

-----------------------------------------------------------------------------
Empty == [count |-> 0, total |-> 0, max |-> Lowest, min |-> Highest]
CollectorsInit ==
  /\ stats = Empty /\ latency = [total |-> 0, count |-> 0]
  /\ updater = [t \in Updaters |-> [pc |-> "idle", sample |-> 0, observed |-> 0, timer |-> "off", left |-> MaxCalls]]
  /\ measured = {}

UpdaterAt(t, pc) == updater[t].pc = pc
Goes(t, pc) == updater' = [updater EXCEPT ![t].pc = pc]
Call(t) == updater[t].left > 0 /\ UpdaterAt(t, "idle")

\* StatsMetric::update, one atomic operation after the other.
update(t) ==
  /\ Call(t)
  /\ \E x \in Samples :
       /\ updater' = [updater EXCEPT ![t] = [@ EXCEPT !.pc = "total", !.sample = x, !.left = @ - 1]]
       /\ measured' = measured \cup {[by |-> t, call |-> updater[t].left, sample |-> x]}
  /\ stats' = [stats EXCEPT !.count = @ + 1]
  /\ UNCHANGED latency
AddTotal(t) ==
  /\ UpdaterAt(t, "total") /\ Goes(t, "max load")
  /\ stats' = [stats EXCEPT !.total = @ + updater[t].sample]
  /\ UNCHANGED <<latency, measured>>

\* clamp_min of the maximum and clamp_max of the minimum: load, then exchange as
\* long as the bound is beyond what was observed.
Passed(t, part) == IF part = "max" THEN updater[t].observed >= updater[t].sample ELSE updater[t].observed <= updater[t].sample
Following(part) == IF part = "max" THEN "min load" ELSE "idle"
Load(t, part, loading, exchanging) ==
  /\ UpdaterAt(t, loading)
  /\ updater' = [updater EXCEPT ![t] = [@ EXCEPT !.pc = exchanging, !.observed = stats[part]]]
  /\ UNCHANGED <<stats, latency, measured>>
ClampDone(t, part, exchanging) ==
  /\ UpdaterAt(t, exchanging) /\ Passed(t, part)
  /\ Goes(t, Following(part))
  /\ UNCHANGED <<stats, latency, measured>>
\* Mutant: the bound is stored whatever the value is by now.
Unchanged_Assumed(t, part) == TRUE
Unchanged(t, part) == stats[part] = updater[t].observed
Exchange(t, part, exchanging) ==
  /\ UpdaterAt(t, exchanging) /\ ~Passed(t, part) /\ Unchanged(t, part)
  /\ stats' = [stats EXCEPT ![part] = updater[t].sample]
  /\ Goes(t, Following(part))
  /\ UNCHANGED <<latency, measured>>
\* compare_exchange_weak fails, for no reason too; it observes what is there.
ExchangeFails(t, part, exchanging) ==
  /\ UpdaterAt(t, exchanging) /\ ~Passed(t, part)
  /\ updater' = [updater EXCEPT ![t].observed = stats[part]]
  /\ UNCHANGED <<stats, latency, measured>>
Clamp(t, part, loading, exchanging) ==
  \/ Load(t, part, loading, exchanging) \/ ClampDone(t, part, exchanging)
  \/ Exchange(t, part, exchanging) \/ ExchangeFails(t, part, exchanging)
clamp_min(t) == Clamp(t, "max", "max load", "max exchange")
clamp_max(t) == Clamp(t, "min", "min load", "min exchange")

\* StatsMetric::reset is for when nobody updates: it is not atomic.
reset ==
  /\ \A t \in Updaters : UpdaterAt(t, "idle")
  /\ measured # {}
  /\ stats' = Empty /\ measured' = {}
  /\ UNCHANGED <<latency, updater>>

\* A LatencyTimer: stop(), called or by the destructor, updates the metric once.
StartTimer(t) ==
  /\ Call(t) /\ updater[t].timer = "off"
  /\ updater' = [updater EXCEPT ![t] = [@ EXCEPT !.timer = "on", !.left = @ - 1]]
  /\ UNCHANGED <<stats, latency, measured>>
\* Mutant: stop() leaves metric_ as it is.
Stopped_Again(timer) == timer
Stopped(timer) == "stopped"
StopTimer(t) ==
  /\ UpdaterAt(t, "idle") /\ updater[t].timer = "on"
  /\ latency' = [latency EXCEPT !.total = @ + 1]
  /\ updater' = [updater EXCEPT ![t] = [@ EXCEPT !.pc = "latency", !.timer = Stopped(@)]]
  /\ UNCHANGED <<stats, measured>>
CountLatency(t) ==
  /\ UpdaterAt(t, "latency") /\ Goes(t, "idle")
  /\ latency' = [latency EXCEPT !.count = @ + 1]
  /\ UNCHANGED <<stats, measured>>

UpdaterGoesOn(t) == AddTotal(t) \/ clamp_min(t) \/ clamp_max(t) \/ CountLatency(t)
CollectorsStep ==
  \/ \E t \in Updaters : update(t) \/ UpdaterGoesOn(t) \/ StartTimer(t) \/ StopTimer(t)
  \/ reset

-----------------------------------------------------------------------------
Values == {m.sample : m \in measured}
Sum == MapThenSumSet(LAMBDA m : m.sample, measured)
\* While nobody updates it, a StatsMetric has the count, the sum, the largest and the
\* smallest of the samples since its reset, whatever order the updates took effect
\* in; a timer counted once, however often it was stopped.
CollectorsAgree ==
  /\ (\A t \in Updaters : updater[t].pc \in {"idle", "latency"}) =>
       stats = IF measured = {} THEN Empty
               ELSE [count |-> Cardinality(measured), total |-> Sum, max |-> Max(Values), min |-> Min(Values)]
  /\ latency.total = Cardinality({t \in Updaters : updater[t].timer = "stopped"})
  /\ latency.count + Cardinality({t \in Updaters : UpdaterAt(t, "latency")}) = latency.total
=============================================================================
