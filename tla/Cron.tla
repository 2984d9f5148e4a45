-------------------------------- MODULE Cron --------------------------------
(***************************************************************************)
(* The cron service (src/src/cron/cron.c): a linked list of jobs under one *)
(* mutex, saved to cron_jobs.json, and a worker that walks the list, fires *)
(* what is due and sleeps.  The worker releases the mutex around the       *)
(* callback that puts the job's message on the bus; tool calls of the      *)
(* agent add and update jobs meanwhile.                                    *)
(*                                                                         *)
(* A job is its node of the list.  Clock and schedules are in ticks: every *)
(* schedule that is valid is due one tick later, once or again and again.  *)
(***************************************************************************)
EXTENDS Integers, Sequences, FiniteSets, SequencesExt

CONSTANTS Names,              \* names of jobs
          Schedules,          \* subset of {"once", "every", "bad"}; "bad" cannot be parsed
          Horizon,            \* bound: ticks of the clock
          MaxCalls            \* bound: calls of cron_service_add_job

ASSUME CronAssumption ==
    /\ Schedules \subseteq {"once", "every", "bad"}
    /\ Horizon \in Nat /\ MaxCalls \in Nat

Null == 0
Node == 1..MaxCalls

VARIABLES list,       \* service->jobs: the nodes, first to last
          job,        \* content of each node
          store,      \* cron_jobs.json: nodes with their content
          clock,      \* time(NULL)
          running,    \* service->running
          pc,         \* where the worker is
          current,    \* the worker's place in the list, Null at its end
          prev,       \* the node before it, Null at the start
          now,        \* the worker's time of this walk
          modified,   \* this walk changed a job
          dangling,   \* freed memory was written to
          changed,    \* history: calls that came during this callback: "add", "remove"
          clashed,    \* history: those after which the job that fired was unlinked
          calls,      \* history: calls of add so far
          accepted,   \* history: last schedule and version a caller was told to be set
          fired       \* history: what the callback was called with, in order

cronVars == <<list, job, store, clock, running, pc, current, prev, now, modified,
              dangling, changed, clashed, calls, accepted, fired>>
workerVars == <<pc, current, prev, now, modified, dangling, clashed, fired>>

NoJob == [name |-> "", schedule |-> "", version |-> 0, next |-> 0]

CronInit ==
    /\ list = << >>
    /\ job = [n \in Node |-> NoJob]
    /\ store = << >>
    /\ clock = 1
    /\ running = TRUE
    /\ pc = "top"
    /\ current = Null
    /\ prev = Null
    /\ now = 0
    /\ modified = FALSE
    /\ dangling = FALSE
    /\ changed = {}
    /\ clashed = {}
    /\ calls = 0
    /\ accepted = [n \in Node |-> [schedule |-> "", version |-> 0]]
    /\ fired = << >>

\* save_jobs
Saved(l, j) == [i \in 1..Len(l) |-> [node |-> l[i], job |-> j[l[i]]]]

\* cron_schedule_next_run
NextRun(t) == t + 1

\* The worker holds the mutex while it is at "walk".
MutexFree == pc # "walk"

\* A call took the mutex, perhaps while the worker is in the callback.
Noted(call) == changed' = IF pc = "callback" THEN changed \cup {call} ELSE changed

\* Where node n is in list l, and l without it.
Place(l, n) == CHOOSE i \in 1..Len(l) : l[i] = n
Without(l, n) == SubSeq(l, 1, Place(l, n) - 1) \o SubSeq(l, Place(l, n) + 1, Len(l))

-----------------------------------------------------------------------------
(* cron_service_add_job.                                                   *)

Named(name) == {i \in 1..Len(list) : job[list[i]].name = name}

\* A job of that name exists: it is changed in place, also when the new schedule
\* turns out to be invalid and the caller is told that scheduling failed.
Update(name, schedule) ==
    LET n == list[CHOOSE i \in Named(name) : \A h \in Named(name) : i <= h]
        updated == [job EXCEPT ![n] =
                        [name |-> job[n].name, schedule |-> schedule, version |-> calls + 1,
                         next |-> IF schedule = "bad" THEN job[n].next ELSE NextRun(clock)]]
    IN  /\ Named(name) # {}
        /\ job' = updated
        /\ IF schedule = "bad" THEN UNCHANGED <<store, accepted>>
           ELSE /\ store' = Saved(list, updated)
                /\ accepted' = [accepted EXCEPT ![n] = [schedule |-> schedule,
                                                        version |-> calls + 1]]
        /\ UNCHANGED list

\* Mutant: the store is written before the job is linked.
InsertStoresOld(name, schedule) ==
    LET n == calls + 1
        added == [job EXCEPT ![n] = [name |-> name, schedule |-> schedule, version |-> n,
                                     next |-> NextRun(clock)]]
    IN  /\ Named(name) = {}
        /\ schedule # "bad"
        /\ job' = added
        /\ list' = <<n>> \o list
        /\ store' = Saved(list, added)
        /\ accepted' = [accepted EXCEPT ![n] = [schedule |-> schedule, version |-> n]]

\* A new job becomes the first of the list.
Insert(name, schedule) ==
    LET n == calls + 1
        added == [job EXCEPT ![n] = [name |-> name, schedule |-> schedule, version |-> n,
                                     next |-> NextRun(clock)]]
    IN  /\ Named(name) = {}
        /\ IF schedule = "bad" THEN UNCHANGED <<list, job, store, accepted>>
           ELSE /\ job' = added
                /\ list' = <<n>> \o list
                /\ store' = Saved(<<n>> \o list, added)
                /\ accepted' = [accepted EXCEPT ![n] = [schedule |-> schedule, version |-> n]]

AddJob(name, schedule) ==
    /\ MutexFree
    /\ calls < MaxCalls
    /\ calls' = calls + 1
    /\ Update(name, schedule) \/ Insert(name, schedule)
    /\ Noted("add")
    /\ UNCHANGED <<clock, running>> /\ UNCHANGED workerVars

\* cron_service_remove_job
RemoveJob(n) ==
    /\ MutexFree
    /\ Contains(list, n)
    /\ list' = Without(list, n)
    /\ store' = Saved(Without(list, n), job)
    /\ accepted' = [accepted EXCEPT ![n] = [schedule |-> "", version |-> 0]]
    /\ Noted("remove")
    /\ UNCHANGED <<job, clock, running, calls>> /\ UNCHANGED workerVars

\* cron_service_stop, up to its pthread_join.
StopService ==
    /\ running
    /\ running' = FALSE
    /\ UNCHANGED <<list, job, store, clock, changed, calls, accepted>> /\ UNCHANGED workerVars

Tick ==
    /\ clock < Horizon
    /\ clock' = clock + 1
    /\ UNCHANGED <<list, job, store, running, changed, calls, accepted>> /\ UNCHANGED workerVars

-----------------------------------------------------------------------------
(* cron_worker.                                                            *)

After(l, n) == IF Place(l, n) = Len(l) THEN Null ELSE l[Place(l, n) + 1]

\* Test the flag, read the time, lock, and start at the head of the list.
StartWalk ==
    /\ pc = "top"
    /\ IF ~running THEN pc' = "exited" /\ UNCHANGED <<current, prev, now, modified>>
       ELSE /\ pc' = "walk"
            /\ now' = clock
            /\ modified' = FALSE
            /\ current' = IF list = << >> THEN Null ELSE list[1]
            /\ prev' = Null
    /\ UNCHANGED <<list, job, store, clock, running, dangling, changed, clashed,
                   calls, accepted, fired>>

\* A job that is not due.
Pass ==
    /\ pc = "walk"
    /\ current # Null
    /\ job[current].next > now
    /\ prev' = current
    /\ current' = After(list, current)
    /\ UNCHANGED <<list, job, store, clock, running, pc, now, modified, dangling,
                   changed, clashed, calls, accepted, fired>>

\* A job that is due: copy it and unlock.
Fire ==
    /\ pc = "walk"
    /\ current # Null
    /\ job[current].next <= now
    /\ fired' = Append(fired, [node |-> current, version |-> job[current].version,
                               due |-> job[current].next])
    /\ pc' = "callback"
    /\ changed' = {}
    /\ UNCHANGED <<list, job, store, clock, running, current, prev, now, modified, dangling,
                   clashed, calls, accepted>>

\* Unlink node n of list l, taking p for the node before it.  When p is no longer
\* in the list its memory was freed: the write goes there, and n stays linked.
Unlinked(l, n, p) ==
    IF p = Null THEN SubSeq(l, Place(l, n) + 1, Len(l))
    ELSE IF Contains(l, p) THEN Without(l, n)
    ELSE l

\* Mutant: the freed node is remembered as the previous one.
UnlinkKeepsFreed ==
    /\ list' = Unlinked(list, current, prev)
    /\ dangling' = (dangling \/ (prev # Null /\ ~Contains(list, prev)))
    /\ clashed' = clashed \cup changed
    /\ modified' = TRUE
    /\ prev' = current
    /\ current' = After(list, current)
    /\ UNCHANGED job

\* A job that is not recurring is unlinked and freed; the node before it is taken
\* to be the one the walk had passed before the callback.
Unlink ==
    /\ list' = Unlinked(list, current, prev)
    /\ dangling' = (dangling \/ (prev # Null /\ ~Contains(list, prev)))
    /\ clashed' = clashed \cup changed
    /\ modified' = TRUE
    /\ current' = After(list, current)
    /\ UNCHANGED <<job, prev>>

\* Mutant: a recurring job is treated like a one-time job.
RescheduleUnlinks == Unlink

\* Mutant: a job keeps its due time when it has fired.
RescheduleNot ==
    /\ modified' = TRUE
    /\ prev' = current
    /\ current' = After(list, current)
    /\ UNCHANGED <<list, job, dangling, clashed>>

\* A recurring job is rescheduled and the walk goes on behind it.
Reschedule ==
    /\ job' = [job EXCEPT ![current].next = NextRun(now)]
    /\ modified' = TRUE
    /\ prev' = current
    /\ current' = After(list, current)
    /\ UNCHANGED <<list, dangling, clashed>>

\* The job was removed meanwhile: walk the list again from the head.
RestartWalk ==
    /\ current' = IF list = << >> THEN Null ELSE list[1]
    /\ prev' = Null
    /\ UNCHANGED <<list, job, modified, dangling, clashed>>

\* The callback has returned, the mutex is taken again and the job is looked up
\* by its id.
Returned ==
    /\ pc = "callback"
    /\ pc' = "walk"
    /\ IF ~Contains(list, current) THEN RestartWalk
       ELSE IF job[current].schedule = "every" THEN Reschedule
       ELSE Unlink
    /\ UNCHANGED <<store, clock, running, now, changed, calls, accepted, fired>>

\* The end of the list: save what changed, unlock.
EndWalk ==
    /\ pc = "walk"
    /\ current = Null
    /\ store' = IF modified THEN Saved(list, job) ELSE store
    /\ pc' = "sleep"
    /\ UNCHANGED <<list, job, clock, running, current, prev, now, modified,
                   dangling, changed, clashed, calls, accepted, fired>>

\* Mutant: the wait for a job that is due already has no end.
WakeUpEarlyOnly ==
    /\ pc = "sleep"
    /\ \A i \in 1..Len(list) : job[list[i]].next > clock
    /\ pc' = "top"
    /\ UNCHANGED <<list, job, store, clock, running, current, prev, now, modified,
                   dangling, changed, clashed, calls, accepted, fired>>

\* The timed wait of at most 60 seconds ends: by its timeout, by the broadcast of
\* a caller, or not at all when a job is due already.
WakeUp ==
    /\ pc = "sleep"
    /\ pc' = "top"
    /\ UNCHANGED <<list, job, store, clock, running, current, prev, now, modified,
                   dangling, changed, clashed, calls, accepted, fired>>

Worker == StartWalk \/ Pass \/ Fire \/ Returned \/ EndWalk \/ WakeUp

\* Nothing more happens once the service has stopped.
Exited == pc = "exited" /\ UNCHANGED cronVars

CronNext ==
    \/ \E name \in Names, schedule \in Schedules : AddJob(name, schedule)
    \/ \E n \in Node : RemoveJob(n)
    \/ StopService
    \/ Tick
    \/ Worker
    \/ Exited

CronSpec == CronInit /\ [][CronNext]_cronVars

\* The worker thread runs, and its timed wait ends.
CronFairSpec == CronSpec /\ WF_cronVars(Worker)

-----------------------------------------------------------------------------
(* Properties.                                                             *)

\* Types of the variables; the list has no node twice.
CronTypeOK ==
    /\ list \in Seq(Node) /\ Cardinality(ToSet(list)) = Len(list)
    /\ \A i \in 1..Len(store) : store[i].node \in Node
    /\ pc \in {"top", "walk", "callback", "sleep", "exited"}
    /\ current \in Node \cup {Null} /\ prev \in Node \cup {Null}
    /\ clock \in Nat /\ now \in 0..clock
    /\ running \in BOOLEAN /\ modified \in BOOLEAN /\ dangling \in BOOLEAN
    /\ changed \subseteq {"add", "remove"} /\ clashed \subseteq {"add", "remove"}
    /\ calls \in 0..MaxCalls

HasFired(n, v) == \E i \in 1..Len(fired) : fired[i].node = n /\ fired[i].version = v

\* What callers were told to be scheduled and is still to happen: a recurring job
\* until it is removed, a one-time job until the callback was called with it.  A job
\* that a failed update has left with an invalid schedule does not count.
Promised ==
    {n \in Node : /\ job[n].schedule # "bad"
                  /\ \/ accepted[n].schedule = "every"
                     \/ accepted[n].schedule = "once" /\ ~HasFired(n, accepted[n].version)}

\* No job a caller was told is scheduled disappears from the list, also when jobs
\* are added, updated or removed while another one fires (cron_service_add_job
\* returns the id, "Job scheduled with ID").  Not so if the job that fired is then
\* unlinked.
PromisesKept == clashed = {} => Promised \subseteq ToSet(list)

\* A new job is not lost while another one fires, whatever becomes of that one.
NewJobsKept == \A n \in Promised : accepted[n].version = n => Contains(list, n)

\* Nor is it missing from cron_jobs.json, at whatever moment between two saves the
\* process dies.
PromisesStored ==
    clashed = {} => \A n \in Promised : \E i \in 1..Len(store) : store[i].node = n

\* The list is walked and changed only through nodes that are in it, also when a
\* callback returns to a list that has changed: the job that fired is looked up
\* again, and added and updated jobs do no harm to what comes before it.
NoDanglingWrite ==
    "remove" \notin clashed =>
        /\ ~dangling
        /\ pc = "walk" /\ current # Null => Contains(list, current)

\* A job does not fire twice for the same due time, also when a walk is restarted
\* because its job was removed during the callback.
FiresOncePerDueTime ==
    "remove" \notin clashed => \A i, j \in 1..Len(fired) :
        i < j /\ fired[i].node = fired[j].node /\ fired[i].version = fired[j].version
            => fired[i].due < fired[j].due

\* A job that is due is fired, removed or changed in the end, unless the service
\* is stopped.
DueJobsFire ==
    \A n \in Node :
        Contains(list, n) /\ job[n].next <= clock
            ~> (~running \/ ~Contains(list, n) \/ job[n].next > clock)

\* What a caller was told has been scheduled is in the list and in the file.
JobsKept == PromisesKept /\ PromisesStored

\* The worker's walk neither uses a freed job nor fires one twice.
WalkSafe == NoDanglingWrite /\ FiresOncePerDueTime
=============================================================================
