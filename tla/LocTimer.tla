------------------------------ MODULE LocTimer ------------------------------
(***************************************************************************)
(* Timers (utils/LocTimer.cpp): the LocTimer objects of the clients, the   *)
(* delegates that tick for them, the container with its heap, and the      *)
(* kernel timer that is armed for the soonest of them.                     *)
(*                                                                         *)
(* Three kinds of threads take part.  Clients start and stop timers under  *)
(* the timer's lock, one step each.  The poll thread waits for the kernel  *)
(* timer, disarms it and posts a message.  The MsgTask thread alone works  *)
(* on the heap, arms the kernel timer, and calls the clients back.  The    *)
(* two containers (timers and alarms) share nothing but the threads: this  *)
(* is one of them.                                                         *)
(*                                                                         *)
(* The heap is LocHeap's.  Its operations are what the bodies there say    *)
(* (HeapCode), from which follows what the timers need of them             *)
(* (HeapContract).                                                         *)
(***************************************************************************)
EXTENDS Integers, Sequences, FiniteSets, LocHeap

CONSTANTS
  Heaps,      \* the heaps that checkNodes() finds sorted, the empty one too
  Pushed, Popped, Removed, \* what push, pop and remove of LocHeap return
  HeldBy,     \* what each heap holds
  Timers,     \* LocTimer objects
  Delegates,  \* LocTimerDelegate objects (one is used again when deleted)
  Delays,     \* values of timeOutInMs
  MaxTime,    \* bound: the clock stops, no timer is started beyond it
  MaxMsgs     \* bound: clients wait while that many messages are queued

Never == -1

ASSUME TimerAssumption ==
  /\ Delays \subseteq Nat /\ MaxTime \in Nat /\ MaxMsgs \in Nat
  /\ NULL \notin Timers \cup Delegates

Time == 0..MaxTime

\* What a heap holds: the address of a delegate and its time.
Entry == [id : Delegates, time : Time]

(***************************************************************************)
(* The heaps are the trees that checkNodes() finds sorted, with the        *)
(* address of a delegate in a heap once; and the operations on them are    *)
(* the ones whose bodies LocHeap has.                                      *)
(***************************************************************************)
\* No two nodes of the tree hold one delegate.
Apart(tree) ==
  /\ \A e \in HeldBy[tree.left] \cup HeldBy[tree.right] : e.id # tree.data.id
  /\ \A e \in HeldBy[tree.left], f \in HeldBy[tree.right] : e.id # f.id

Joined(e, l, r) == [data |-> e, size |-> 1 + Size(l) + Size(r), left |-> l, right |-> r]

HeapCode(h) ==
  /\ h \in Heaps /\ HeldBy[h] = Held(h, HeldBy)
  /\ h # NULL =>
       /\ h \in [data : Entry, size : Nat, left : Heaps, right : Heaps]
       /\ CheckNodes(h, Heaps) /\ Apart(h)
       /\ Popped[h] = Pop(h, Popped)
  /\ \A e \in Entry :
       /\ Pushed[h, e] = Push(h, e, Pushed)
       /\ Removed[h, e] = Remove(h, e, Popped, Removed)
       /\ \A r \in Heaps :
            LET tree == Joined(e, h, r)
            IN  CheckNodes(tree, Heaps) /\ Apart(tree) => tree \in Heaps

ASSUME HeapAssumption == \A h \in Heaps \cup {NULL} : HeapCode(h)

VARIABLES
  now,
  mTimer,     \* the delegate that ticks for each timer, or NULL
  delegate,   \* each delegate: its client, its future time; NULL once deleted
  heap,
  msgs,       \* the MsgTask queue
  kernel,     \* when the timer fd is armed for (or Never), and whether it is polled
  poll,       \* where the poll thread is in expire()
  task        \* where the MsgTask thread is: "idle", "arming", "expiring", "firing"

vars == <<now, mTimer, delegate, heap, msgs, kernel, poll, task>>

Idle == [pc |-> "idle"]

Msg == [type : {"push", "remove"}, timer : Delegates] \cup [type : {"expire"}]

\* What the heap holds of this delegate.
Ranked(d) == [id |-> d, time |-> delegate[d].time]

\* Where the next delegate is allocated: addresses are only compared.
Free == {d \in Delegates : delegate[d] = NULL}

-----------------------------------------------------------------------------
(***************************************************************************)
(* LocTimer::start() and stop(), with LocTimerDelegate's constructor and   *)
(* destroyLocked().                                                        *)
(***************************************************************************)
Start(t, delay) ==
  /\ mTimer[t] = NULL /\ Free # {}
  /\ now + delay <= MaxTime /\ Len(msgs) < MaxMsgs
  /\ LET d == CHOOSE d \in Free : TRUE IN
       /\ mTimer' = [mTimer EXCEPT ![t] = d]
       /\ delegate' = [delegate EXCEPT ![d] = [client |-> t, time |-> now + delay]]
       /\ msgs' = Append(msgs, [type |-> "push", timer |-> d])
  /\ UNCHANGED <<now, heap, kernel, poll, task>>

\* Fault: a timer that does not tick is stopped too.
DestroyAlways(t) ==
  /\ mTimer' = [mTimer EXCEPT ![t] = NULL]
  /\ delegate' = [delegate EXCEPT ![mTimer[t]].client = NULL]
  /\ msgs' = Append(msgs, [type |-> "remove", timer |-> mTimer[t]])

Destroy(t) ==
  /\ mTimer[t] # NULL
  /\ mTimer' = [mTimer EXCEPT ![t] = NULL]
  /\ delegate' = [delegate EXCEPT ![mTimer[t]].client = NULL]
  /\ msgs' = Append(msgs, [type |-> "remove", timer |-> mTimer[t]])

Stop(t) ==
  /\ Len(msgs) < MaxMsgs
  /\ Destroy(t)
  /\ UNCHANGED <<now, heap, kernel, poll, task>>

-----------------------------------------------------------------------------
(***************************************************************************)
(* The poll thread: epoll_wait() returns, then expire() disarms the timer  *)
(* fd, and takes it out of the poll and posts.                             *)
(***************************************************************************)
PollWait ==
  /\ poll = "waiting"
  /\ kernel.polled /\ kernel.armed # Never /\ kernel.armed <= now
  /\ poll' = "disarming"
  /\ UNCHANGED <<now, mTimer, delegate, heap, msgs, kernel, task>>

\* Fault: the message is posted first.
PollPostsFirst ==
  /\ \/ poll = "disarming" /\ poll' = "posting"
        /\ msgs' = Append(msgs, [type |-> "expire"]) /\ UNCHANGED kernel
     \/ poll = "posting" /\ poll' = "waiting"
        /\ kernel' = [armed |-> Never, polled |-> FALSE] /\ UNCHANGED msgs
  /\ UNCHANGED <<now, mTimer, delegate, heap, task>>

PollExpire ==
  /\ \/ poll = "disarming" /\ poll' = "posting"
        /\ kernel' = [kernel EXCEPT !.armed = Never] /\ UNCHANGED msgs
     \/ poll = "posting" /\ poll' = "waiting"
        /\ kernel' = [kernel EXCEPT !.polled = FALSE]
        /\ msgs' = Append(msgs, [type |-> "expire"])
  /\ UNCHANGED <<now, mTimer, delegate, heap, task>>

-----------------------------------------------------------------------------
(***************************************************************************)
(* The MsgTask thread.  updateSoonestTime() polls the fd in the step of    *)
(* its caller and arms it in the next one.  With NULL for the prior top it *)
(* arms the present one; of an empty heap it does nothing, although a      *)
(* comment there says that it disarms.                                     *)
(***************************************************************************)
Handle(type) == task = Idle /\ msgs # <<>> /\ Head(msgs).type = type /\ msgs' = Tail(msgs)

UpdateSoonestTime(tree, isNew) ==
  IF tree # NULL /\ isNew
    THEN /\ kernel' = [kernel EXCEPT !.polled = TRUE]
         /\ task' = [pc |-> "arming", time |-> tree.data.time]
    ELSE UNCHANGED kernel /\ task' = Idle

ProcPush ==
  /\ Handle("push")
  /\ LET timer == Ranked(Head(msgs).timer) IN
       /\ heap' = Pushed[heap, timer]
       /\ UpdateSoonestTime(heap', heap = NULL \/ OutRanks(heap'.data, heap.data))
  /\ UNCHANGED <<now, mTimer, delegate, poll>>

\* The delegate is deleted, in the heap or not (an expired one is not).
ProcRemove ==
  /\ Handle("remove")
  /\ LET d == Head(msgs).timer  timer == Ranked(d) IN
       /\ heap' = Removed[heap, timer]
       /\ UpdateSoonestTime(heap', heap # NULL /\ heap.data = timer)
       /\ delegate' = [delegate EXCEPT ![d] = NULL]
  /\ UNCHANGED <<now, mTimer, poll>>

\* timerfd_settime() replaces what the fd was armed for, expired or not.
ArmTimer ==
  /\ task.pc = "arming"
  /\ kernel' = [kernel EXCEPT !.armed = task.time]
  /\ task' = Idle
  /\ UNCHANGED <<now, mTimer, delegate, heap, msgs, poll>>

\* A delegate is popped, and its client read without the timer's lock.
Fire(time) ==
  /\ heap' = Popped[heap]
  /\ task' = [pc |-> "firing", time |-> time, timer |-> heap.data.id,
              client |-> delegate[heap.data.id].client]

\* The first timer is popped without a look at its time.
ProcExpire ==
  /\ Handle("expire")
  /\ IF heap = NULL THEN UNCHANGED <<heap, task>> ELSE Fire(now)
  /\ UNCHANGED <<now, mTimer, delegate, kernel, poll>>

\* LocTimerDelegate::expire(): the client is called back if its stop() says
\* that a timer was ticking.
CallBack ==
  /\ task.pc = "firing"
  /\ task' = [pc |-> "expiring", time |-> task.time]
  /\ IF task.client # NULL /\ mTimer[task.client] # NULL
       THEN Destroy(task.client) ELSE UNCHANGED <<mTimer, delegate, msgs>>
  /\ UNCHANGED <<now, heap, kernel, poll>>

Expired == heap # NULL /\ heap.data.time <= task.time

\* Fault: a delegate that is due too is popped and not expired.
PopNextOnly ==
  /\ task.pc = "expiring" /\ Expired
  /\ heap' = Popped[heap] /\ UNCHANGED task
  /\ UNCHANGED <<now, mTimer, delegate, msgs, kernel, poll>>

\* popIfOutRanks()
PopNext ==
  /\ task.pc = "expiring" /\ Expired
  /\ Fire(task.time)
  /\ UNCHANGED <<now, mTimer, delegate, msgs, kernel, poll>>

\* Fault: the timer fd is not armed for the timers that are left.
ExpireEndsOnly ==
  /\ task.pc = "expiring" /\ ~Expired
  /\ task' = Idle
  /\ UNCHANGED <<now, mTimer, delegate, heap, msgs, kernel, poll>>

ExpireEnds ==
  /\ task.pc = "expiring" /\ ~Expired
  /\ UpdateSoonestTime(heap, TRUE)
  /\ UNCHANGED <<now, mTimer, delegate, heap, msgs, poll>>

-----------------------------------------------------------------------------
Init ==
  /\ now = 0
  /\ mTimer = [t \in Timers |-> NULL]
  /\ delegate = [d \in Delegates |-> NULL]
  /\ heap = NULL
  /\ msgs = <<>>
  /\ kernel = [armed |-> Never, polled |-> FALSE]
  /\ poll = "waiting"
  /\ task = Idle

Client ==
  \/ \E t \in Timers, delay \in Delays : Start(t, delay)
  \/ \E t \in Timers : Stop(t)

PollTask == PollWait \/ PollExpire

MsgTask ==
  \/ ProcPush \/ ProcRemove \/ ProcExpire
  \/ ArmTimer \/ CallBack \/ PopNext \/ ExpireEnds

Tick == now < MaxTime /\ now' = now + 1 /\ UNCHANGED <<mTimer, delegate, heap, msgs, kernel, poll, task>>

Next == Client \/ PollTask \/ MsgTask \/ Tick

Spec     == Init /\ [][Next]_vars
\* Time goes by and the two threads of the timers run.
FairSpec == Spec /\ WF_vars(Tick) /\ WF_vars(PollTask) /\ WF_vars(MsgTask)

-----------------------------------------------------------------------------
TypeOK ==
  /\ now \in Time
  /\ mTimer \in [Timers -> Delegates \cup {NULL}]
  /\ delegate \in [Delegates -> [client : Timers \cup {NULL}, time : Time] \cup {NULL}]
  /\ heap \in Heaps
  /\ msgs \in Seq(Msg)
  /\ kernel \in [armed : Time \cup {Never}, polled : BOOLEAN]
  /\ poll \in {"waiting", "disarming", "posting"}
  /\ task \in {Idle} \cup [pc : {"arming", "expiring"}, time : Time]
                \cup [pc : {"firing"}, time : Time, timer : Delegates, client : Timers \cup {NULL}]

(***************************************************************************)
(* The heap of LocHeap.h: "a heap whose left and right children are not    *)
(* sorted. It is sorted only vertically".  An operation on a heap makes    *)
(* one again, which holds what it must: push() adds its data, pop() takes  *)
(* one that nothing outranks, and remove() finds its data although it      *)
(* leaves out subtrees.                                                    *)
(***************************************************************************)
HeapHolds(h, entries) == h \in Heaps /\ HeldBy[h] = entries

HeapContract ==
  /\ HeapHolds(NULL, {})
  /\ \A h \in Heaps :
       /\ HeldBy[h] \subseteq Entry
       /\ \A e \in Entry :
            /\ (\A f \in HeldBy[h] : f.id # e.id) =>
                 Pushed[h, e] # NULL /\ HeapHolds(Pushed[h, e], HeldBy[h] \cup {e})
            /\ HeapHolds(Removed[h, e], HeldBy[h] \ {e})
       /\ h # NULL =>
            /\ h.data \in HeldBy[h] /\ \A e \in HeldBy[h] : ~OutRanks(e, h.data)
            /\ HeapHolds(Popped[h], HeldBy[h] \ {h.data})

(***************************************************************************)
(* push(), pop() and remove() keep the heap sorted and lose nothing, for   *)
(* every heap and not only those that the timers come to make.  This is    *)
(* about constants: it is enough that it holds in the initial state.       *)
(***************************************************************************)
HeapKept == Init => HeapContract

Queued(type, d) == {i \in DOMAIN msgs : msgs[i].type = type /\ msgs[i].timer = d}

(***************************************************************************)
(* "all timers are deleted here, and only here" (MsgTimerRemove): a        *)
(* delegate the heap or a message holds is not deleted, and one that has   *)
(* no timer any more is deleted by exactly one message.                    *)
(***************************************************************************)
DeletedOnce ==
  /\ \A timer \in HeldBy[heap] : delegate[timer.id] # NULL /\ timer = Ranked(timer.id)
  /\ \A d \in Delegates :
       IF delegate[d] = NULL
         THEN Queued("push", d) \cup Queued("remove", d) = {}
         ELSE Cardinality(Queued("remove", d)) = IF delegate[d].client = NULL THEN 1 ELSE 0

(***************************************************************************)
(* Starts, stops and expiries on three threads: the delegate of a timer    *)
(* that runs is in the heap, on its way to it, or just popped to be        *)
(* expired; it is never dropped on the way.                                *)
(***************************************************************************)
NoTimerDropped ==
  \A t \in Timers : mTimer[t] # NULL =>
    LET d == mTimer[t] IN
    /\ delegate[d] # NULL /\ delegate[d].client = t
    /\ \/ Ranked(d) \in HeldBy[heap]
       \/ Queued("push", d) # {}
       \/ task.pc = "firing" /\ task.timer = d

(***************************************************************************)
(* The poll thread disarms the kernel timer while the MsgTask thread may   *)
(* be arming it, and the handlers arm it only when they must: whenever     *)
(* neither is at work, it is armed and polled for the soonest timer, or    *)
(* sooner.                                                                 *)
(***************************************************************************)
ArmedForSoonest ==
  heap # NULL /\ task = Idle /\ poll = "waiting" /\ (\A i \in DOMAIN msgs : msgs[i].type # "expire") =>
    kernel.polled /\ kernel.armed # Never /\ kernel.armed <= heap.data.time

(***************************************************************************)
(* A timer that is started is stopped or expires: no order of messages     *)
(* leaves one behind in the heap.  The timers differ in name only: what    *)
(* holds of one of them holds of all.                                      *)
(***************************************************************************)
EveryTimerEnds == LET t == CHOOSE t \in Timers : TRUE IN mTimer[t] # NULL ~> mTimer[t] = NULL

(***************************************************************************)
(* "pop everything in the heap that outRanks now, i.e. has time older than *)
(* now and then call expire() on that timer" (MsgTimerExpire): no client   *)
(* is called back before its time.                                         *)
(***************************************************************************)
NeverEarly ==
  [][\A t \in Timers : CallBack /\ mTimer[t] # NULL /\ mTimer'[t] = NULL =>
       delegate[mTimer[t]].time <= now]_vars

=============================================================================
