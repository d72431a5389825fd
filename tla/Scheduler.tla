----------------------------- MODULE Scheduler ------------------------------
(***************************************************************************)
(* The simulator (sim/simulator.c), its two schedulers and the commands    *)
(* that drive it (cli/sim.c).  The static scheduler is one FIFO of events; *)
(* the dynamic one a list of buckets sorted by time, each one a FIFO.  An  *)
(* action is one pass of a scheduler's loop, so that the interrupt signal, *)
(* which sets a flag, falls between any two of them.                       *)
(*                                                                         *)
(* An event is the number of its post.  What its callback does is chosen   *)
(* when it runs: post one more event after a delay, fail, clear the queue. *)
(***************************************************************************)
EXTENDS Naturals, Sequences, Functions

CONSTANTS
  Delays,      \* delays of the links, from which messages are posted
  StopTimes,   \* arguments of sim stop --at; 0 is no limit
  EventTimes,  \* arguments of sim event
  StepCounts,  \* arguments of sim step
  MaxEvents,   \* bound: number of events posted
  MaxRuns      \* bound: number of sim run and sim step commands

ASSUME SchedulerAssumption ==
  /\ Delays \subseteq Nat /\ StopTimes \subseteq Nat
  /\ EventTimes \subseteq Nat /\ StepCounts \subseteq Nat
  /\ MaxEvents \in Nat /\ MaxRuns \in Nat

VARIABLES
  default_sched, \* the scheduler the next simulator is created with
  type,          \* that of the simulator, "none" before it is created
  events,        \* static: the FIFO
  buckets,       \* dynamic: [time, events], by increasing time
  cur_time, max_time,
  loop,          \* the call of run(): [on, steps, whole]
  draining,      \* dynamic: {time of the bucket being emptied}, or {}
  cancelled,
  error,         \* what the last call returned
  posted,        \* number of events posted
  runs,          \* number of calls of run()
  handled, cleared, \* history: the events handled, and removed by a clear
  exact,         \* history: no time was ever rounded
  late           \* history: events this call handled at or after max_time

control == <<default_sched, type, max_time, cancelled>>
schedVars == <<control, events, buckets, cur_time, loop, draining, error,
               posted, runs, handled, cleared, exact, late>>

Idle == [on |-> FALSE, steps |-> 0, whole |-> FALSE]
Failed == error = "fatal"

(* Times are doubles, the clock a float.  Here they are numbers of a unit  *)
(* that is small enough for the times of a run to be whole.  A float holds *)
(* those of 24 bits; of those with one bit more, one in two (half to       *)
(* even).                                                                  *)
Exact == 16777216
Float(t) == IF t <= Exact \/ t % 2 = 0 THEN t
            ELSE IF t % 4 = 1 THEN t - 1 ELSE t + 1

Schedulers == {"static", "dynamic"}
Fifo == Seq(1 .. MaxEvents)
Bucket == [time : Nat, events : Fifo]

StaticCreate == events = <<>>
DynamicCreate == buckets = <<>> /\ draining = {} /\ cancelled = FALSE
SimCreate == max_time = 0 /\ cur_time = 0 /\ loop = Idle

SchedInit ==
  /\ default_sched = "static" /\ type = "none"
  /\ StaticCreate /\ DynamicCreate /\ SimCreate
  /\ error = "none" /\ posted = 0 /\ runs = 0 /\ handled = {} /\ cleared = {}
  /\ exact = TRUE /\ late = 0

(* network_get_simulator creates the simulator when it is first asked for. *)
Simulator == IF type = "none" THEN default_sched ELSE type

-----------------------------------------------------------------------------
(* Posting.                                                                *)

(* The lists of libgds, here of buckets: b becomes the i-th element.       *)
list_insert_at(bs, i, b) == SubSeq(bs, 1, i - 1) \o <<b>> \o SubSeq(bs, i, Len(bs))

InSomeBucket(bs) == UNION {Range(bs[i].events) : i \in DOMAIN bs}

(* The index list_index_of gives for a time that has no bucket: between    *)
(* the earlier ones and the later ones.                                    *)
Places(bs, t) ==
  {i \in 1 .. Len(bs) + 1 : /\ \A j \in 1 .. i - 1 : bs[j].time < t
                            /\ \A j \in i .. Len(bs) : bs[j].time > t}

BucketPostFirst(bs, t, e) ==
  {[bs EXCEPT ![i].events = <<e>> \o @] : i \in {j \in DOMAIN bs : bs[j].time = t}}
    \union {list_insert_at(bs, i, [time |-> t, events |-> <<e>>]) : i \in Places(bs, t)}

(* The bucket of time t gets e; it is created in its place if need be.  As *)
(* a set, of which the sorted list makes a set of one.                     *)
BucketPost(bs, t, e) ==
  {[bs EXCEPT ![i].events = Append(@, e)] : i \in {j \in DOMAIN bs : bs[j].time = t}}
    \union {list_insert_at(bs, i, [time |-> t, events |-> <<e>>]) : i \in Places(bs, t)}

(* network_send, with the delay of the link, from a command.               *)
PostRelative(d) ==
  /\ ~loop.on /\ ~Failed /\ posted < MaxEvents
  /\ type' = Simulator
  /\ posted' = posted + 1
  /\ \/ /\ Simulator = "static"
        /\ events' = Append(events, posted + 1)
        /\ UNCHANGED buckets
     \/ /\ Simulator = "dynamic"
        /\ buckets' \in BucketPost(buckets, cur_time + d, posted + 1)
        /\ UNCHANGED events
  /\ UNCHANGED <<default_sched, max_time, cancelled, cur_time, loop, draining,
                 error, runs, handled, cleared, exact, late>>

(* sim event <time> <command>: the static scheduler ignores the time, the  *)
(* dynamic one stops the program when it is in the past.                   *)
CliSimEvent(t) ==
  /\ ~loop.on /\ ~Failed /\ posted < MaxEvents
  /\ type' = Simulator
  /\ \/ /\ Simulator = "static"
        /\ events' = Append(events, posted + 1)
        /\ posted' = posted + 1
        /\ UNCHANGED <<buckets, error>>
     \/ /\ Simulator = "dynamic" /\ t >= cur_time
        /\ buckets' \in BucketPost(buckets, t, posted + 1)
        /\ posted' = posted + 1
        /\ UNCHANGED <<events, error>>
     \/ /\ Simulator = "dynamic" /\ t < cur_time
        /\ error' = "fatal"
        /\ UNCHANGED <<events, buckets, posted>>
  /\ UNCHANGED <<default_sched, max_time, cancelled, cur_time, loop, draining,
                 runs, handled, cleared, exact, late>>

-----------------------------------------------------------------------------
(* Commands.                                                               *)

CliSimOptionsScheduler(t) ==
  /\ ~loop.on /\ ~Failed
  /\ default_sched' = t
  /\ UNCHANGED <<type, max_time, cancelled, events, buckets, cur_time, loop,
                 draining, error, posted, runs, handled, cleared, exact, late>>

CliSimStop(t) ==
  /\ ~loop.on /\ ~Failed
  /\ type' = Simulator
  /\ max_time' = t
  /\ UNCHANGED <<default_sched, cancelled, events, buckets, cur_time, loop,
                 draining, error, posted, runs, handled, cleared, exact, late>>

CliSimClear ==
  /\ ~loop.on /\ ~Failed
  /\ type' = Simulator
  /\ cleared' = cleared \union Range(events) \union InSomeBucket(buckets)
  /\ events' = <<>> /\ buckets' = <<>>
  /\ UNCHANGED <<default_sched, max_time, cancelled, cur_time, loop, draining,
                 error, posted, runs, handled, exact, late>>

(* Both commands call run(); -1, the count sim run gives, is 2^32 - 1      *)
(* steps and stands for no limit, and so does the count 0 of sim step.     *)
Enter(steps, whole) ==
  /\ ~loop.on /\ ~Failed /\ runs < MaxRuns
  /\ type' = Simulator
  /\ runs' = runs + 1
  /\ loop' = [on |-> TRUE, steps |-> steps, whole |-> whole]
  /\ cancelled' = IF Simulator = "static" THEN FALSE ELSE cancelled
  /\ late' = 0
  /\ UNCHANGED <<default_sched, max_time, events, buckets, cur_time, draining,
                 error, posted, handled, cleared, exact>>

CliSimRun == Enter(0, TRUE)
CliSimStep(n) == Enter(n, FALSE)

Cancel == cancelled' = TRUE

(* SIGINT, at any moment; the simulation is only cancelled under sim run.  *)
Interrupt ==
  /\ loop.on /\ loop.whole /\ ~cancelled
  /\ Cancel
  /\ UNCHANGED <<default_sched, type, max_time, events, buckets, cur_time,
                 loop, draining, error, posted, runs, handled, cleared, exact,
                 late>>

-----------------------------------------------------------------------------
(* The loops.                                                              *)

Leave(e) ==
  /\ loop' = Idle
  /\ draining' = {}
  /\ error' = e

Continue(steps) ==
  /\ loop' = [loop EXCEPT !.steps = steps]
  /\ UNCHANGED <<draining, error>>

(* num_steps > 0 is decremented, and the call ends when it gets to 0.      *)
CountStepUnguarded ==
  \/ loop.steps <= 1 /\ Leave("none")
  \/ loop.steps > 1 /\ Continue(loop.steps - 1)

CountStep ==
  \/ loop.steps = 1 /\ Leave("none")
  \/ loop.steps # 1 /\ Continue(IF loop.steps = 0 THEN 0 ELSE loop.steps - 1)

TimeLimit(t) == max_time > 0 /\ t >= max_time

Overdue == IF max_time > 0 /\ cur_time >= max_time THEN 1 ELSE 0

(* The FIFO that the callback of its first event leaves.                   *)
StaticCallback(fifo) ==
  \/ fifo' = Tail(fifo) /\ UNCHANGED <<posted, cleared>>
  \/ /\ posted < MaxEvents
     /\ fifo' = Append(Tail(fifo), posted + 1)
     /\ posted' = posted + 1
     /\ UNCHANGED cleared
  \/ /\ fifo' = <<>>
     /\ cleared' = cleared \union Range(Tail(fifo))
     /\ UNCHANGED posted

StaticPass ==
  /\ loop.on /\ type = "static" /\ ~cancelled /\ events # <<>>
  /\ StaticCallback(events)
  /\ handled' = handled \union {Head(events)}
  /\ late' = late + Overdue
  /\ \/ Leave("callback") /\ UNCHANGED cur_time
     \/ /\ cur_time' = cur_time + 1
        /\ \/ TimeLimit(cur_time') /\ Leave("ESIM_TIME_LIMIT")
           \/ ~TimeLimit(cur_time') /\ CountStep
  /\ UNCHANGED <<control, buckets, runs, exact>>

StaticEnd ==
  /\ loop.on /\ type = "static" /\ (cancelled \/ events = <<>>)
  /\ Leave("none")
  /\ UNCHANGED <<control, events, buckets, cur_time, posted, runs, handled,
                 cleared, exact, late>>

(* The first bucket is taken and the time becomes its own, before the      *)
(* limit is looked at.                                                     *)
DynamicOpen ==
  /\ loop.on /\ type = "dynamic" /\ draining = {} /\ buckets # <<>>
  /\ cur_time' = Float(buckets[1].time)
  /\ exact' = (exact /\ cur_time' = buckets[1].time)
  /\ \/ TimeLimit(cur_time') /\ Leave("ESIM_TIME_LIMIT")
     \/ /\ ~TimeLimit(cur_time')
        /\ draining' = {buckets[1].time}
        /\ UNCHANGED <<loop, error>>
  /\ UNCHANGED <<control, events, buckets, posted, runs, handled, cleared,
                 late>>

(* One event of the bucket being emptied; the result of its callback is    *)
(* not looked at.                                                          *)
Drained(i) == [buckets EXCEPT ![i].events = Tail(@)]

DynamicPass ==
  /\ loop.on /\ draining # {}
  /\ \E i \in DOMAIN buckets :
       /\ buckets[i].time \in draining /\ buckets[i].events # <<>>
       /\ handled' = handled \union {Head(buckets[i].events)}
       /\ \/ buckets' = Drained(i) /\ UNCHANGED posted
          \/ /\ posted < MaxEvents
             /\ \E d \in Delays :
                  buckets' \in BucketPost(Drained(i), cur_time + d, posted + 1)
             /\ posted' = posted + 1
  /\ late' = late + Overdue
  /\ CountStep
  /\ UNCHANGED <<control, events, cur_time, runs, cleared, exact>>

DynamicCloseEarly ==
  /\ loop.on /\ draining # {}
  /\ buckets' = Tail(buckets)
  /\ draining' = {}
  /\ UNCHANGED <<control, events, cur_time, loop, error, posted, runs, handled,
                 cleared, exact, late>>

DynamicCloseKeep ==
  /\ loop.on /\ draining # {}
  /\ \E i \in DOMAIN buckets :
       buckets[i].time \in draining /\ buckets[i].events = <<>>
  /\ draining' = {}
  /\ UNCHANGED <<control, events, buckets, cur_time, loop, error, posted, runs,
                 handled, cleared, exact, late>>

(* list_remove_at(0), whichever bucket is the first by now.                *)
DynamicClose ==
  /\ loop.on /\ draining # {}
  /\ \E i \in DOMAIN buckets :
       buckets[i].time \in draining /\ buckets[i].events = <<>>
  /\ buckets' = Tail(buckets)
  /\ draining' = {}
  /\ UNCHANGED <<control, events, cur_time, loop, error, posted, runs, handled,
                 cleared, exact, late>>

DynamicEnd ==
  /\ loop.on /\ type = "dynamic" /\ draining = {} /\ buckets = <<>>
  /\ Leave("none")
  /\ UNCHANGED <<control, events, buckets, cur_time, posted, runs, handled,
                 cleared, exact, late>>

Loop ==
  \/ StaticPass \/ StaticEnd
  \/ DynamicOpen \/ DynamicPass \/ DynamicClose \/ DynamicEnd

SchedNext ==
  \/ \E d \in Delays : PostRelative(d)
  \/ \E t \in EventTimes : CliSimEvent(t)
  \/ \E t \in Schedulers : CliSimOptionsScheduler(t)
  \/ \E t \in StopTimes : CliSimStop(t)
  \/ \E n \in StepCounts : CliSimStep(n)
  \/ CliSimClear \/ CliSimRun \/ Interrupt \/ Loop

(* The process runs the loop it is in: nothing else can hold it up.        *)
SchedSpec == SchedInit /\ [][SchedNext]_schedVars /\ WF_schedVars(Loop)

-----------------------------------------------------------------------------
(* Properties.                                                             *)

(* Types.                                                                  *)
SchedTypeOK ==
  /\ default_sched \in Schedulers /\ type \in Schedulers \union {"none"}
  /\ cur_time \in Nat /\ max_time \in StopTimes \union {0}
  /\ loop \in [on : BOOLEAN, steps : Nat, whole : BOOLEAN]
  /\ draining \subseteq Nat
  /\ {cancelled, exact} \subseteq BOOLEAN
  /\ error \in {"none", "callback", "ESIM_TIME_LIMIT", "fatal"}
  /\ posted \in 0 .. MaxEvents /\ runs \in 0 .. MaxRuns /\ late \in Nat
  /\ events \in Fifo /\ buckets \in Seq(Bucket)
  /\ handled \union cleared \subseteq 1 .. MaxEvents

Waiting == Range(events) \union InSomeBucket(buckets)

(* Every event posted is handled, still queued or was removed by a clear,  *)
(* and only one of them, whatever callbacks post while their bucket is     *)
(* emptied and wherever a call of run() stopped -- until a time does not   *)
(* fit the float that holds it.                                            *)
NoEventLost ==
  exact => /\ 1 .. posted = handled \union cleared \union Waiting
           /\ Waiting \intersect (handled \union cleared) = {}
           /\ handled \intersect cleared = {}

(* The pending events as the abstract queue sees them: the static          *)
(* scheduler knows no time.                                                *)
Pending ==
  {[id |-> e, due |-> 0] : e \in Range(events)} \union
  UNION {{[id |-> e, due |-> buckets[i].time] : e \in Range(buckets[i].events)}
           : i \in DOMAIN buckets}

Queue == INSTANCE EventQueue WITH pending <- Pending, serial <- posted

(* Both schedulers implement EventQueue: an event is handled once, in the  *)
(* order of time and then of posts.                                        *)
InOrder == Queue!AbsSpec

(* sim run returns without error only when no event is left, or when it    *)
(* was interrupted (sim_run.txt: "until no more event is available or the  *)
(* simulator is stopped").                                                 *)
RunDrains ==
  [][loop.on /\ ~loop'.on /\ error' = "none" /\ loop.steps = 0 /\ ~cancelled
       => Waiting' = {}]_schedVars

(* Under the static scheduler no event is handled after the interrupt      *)
(* until a new command starts the simulation again.                        *)
InterruptStops ==
  [][loop.on /\ type = "static" /\ cancelled => handled' = handled]_schedVars

(* The simulated time never goes back, over all calls of run(), stops at   *)
(* the limit and commands between them, rounding included.                 *)
TimeNeverBack == [][cur_time' >= cur_time]_schedVars

(* After sim stop --at, a call handles no event at or past that time under *)
(* the dynamic scheduler, and at most one under the static one, which      *)
(* looks at the limit after the event.                                     *)
LimitHolds == late <= IF type = "static" THEN 1 ELSE 0

(* A call of run() returns, the callbacks posting finitely many events.    *)
RunReturns == loop.on ~> ~loop.on
=============================================================================
