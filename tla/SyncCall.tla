------------------------------ MODULE SyncCall ------------------------------
(***************************************************************************)
(* Synchronous calls over an asynchronous modem interface                  *)
(* (loc_api/libloc_api-rpc-50001/libloc_api-rpc-glue/src/                  *)
(* loc_api_sync_call.c; the trees of the older chips have the same file).  *)
(*                                                                         *)
(* A thread that calls loc_api_sync_ioctl() takes a slot, notes in it what *)
(* it waits for, sends its request, and waits on the slot until the RPC    *)
(* thread finds the slot for an answer, or until a timeout.  Each slot has *)
(* a lock; it is not held while the request is sent.  An answer tells the  *)
(* client and the kind of the request and not which request it is for: so  *)
(* the answer to a call that has timed out may be given to a later one.    *)
(***************************************************************************)
EXTENDS Naturals, FiniteSets

CONSTANTS
  Callers,    \* threads that make synchronous calls
  Keys,       \* what an answer is matched by: client handle and ioctl type
  NumSlots,   \* LOC_SYNC_CALL_SLOTS_MAX
  NoKey,      \* client handle -1
  Rpc,        \* the thread of the RPC library that calls back
  NoOne,
  MaxCalls    \* bound: how many calls the threads make

ASSUME SyncAssumption ==
  /\ NumSlots \in Nat \ {0} /\ MaxCalls \in Nat
  /\ NoKey \notin Keys /\ Rpc \notin Callers /\ NoOne \notin Callers \cup {Rpc}

VARIABLES
  slot,       \* loc_sync_data.slots
  caller,     \* where each thread is in loc_api_sync_ioctl()
  cb,         \* where the RPC thread is in its callback
  requests,   \* requests the modem has and has not answered
  calls,      \* how many calls were made: a call has its number, for the properties
  returned    \* for the properties: answers that calls have returned

vars == <<slot, caller, cb, requests, calls, returned>>

Slots == 0..(NumSlots - 1)

\* A request, and the answer to it.
Request  == [caller : Callers, call : 1..MaxCalls, key : Keys]
NoAnswer == [caller |-> NoOne]

MyRequest(c) == [caller |-> c, call |-> caller[c].call, key |-> caller[c].key]
Mine(c)      == slot[caller[c].at]

Idle      == [pc |-> "idle", call |-> 0, key |-> NoKey, at |-> 0, rc |-> "SUCCESS"]
Put(i, s)    == slot' = [slot EXCEPT ![i] = s]
Become(c, d) == caller' = [caller EXCEPT ![c] = d]
Go(c, pc)    == Become(c, [caller[c] EXCEPT !.pc = pc])
Return(c)    == Become(c, Idle)

-----------------------------------------------------------------------------
(***************************************************************************)
(* loc_api_sync_ioctl().                                                   *)
(***************************************************************************)
Call(c, key) ==
  /\ caller[c].pc = "idle" /\ calls < MaxCalls
  /\ calls' = calls + 1
  /\ Become(c, [pc |-> "scan", call |-> calls + 1, key |-> key, at |-> 0, rc |-> "SUCCESS"])
  /\ UNCHANGED <<slot, cb, requests, returned>>

\* Fault: a slot is taken that is in use and not locked just now.
LockASlotInUse(c) ==
  /\ caller[c].pc = "scan" /\ caller[c].at \in Slots
  /\ IF Mine(c).lock = NoOne
       THEN Go(c, "locked") /\ Put(caller[c].at, [Mine(c) EXCEPT !.lock = c])
       ELSE Become(c, [caller[c] EXCEPT !.at = @ + 1]) /\ UNCHANGED slot
  /\ UNCHANGED <<cb, requests, calls, returned>>

\* loc_lock_a_slot(): a slot locked by another thread is passed over.
LockASlot(c) ==
  /\ caller[c].pc = "scan" /\ caller[c].at \in Slots
  /\ IF Mine(c).lock = NoOne /\ ~Mine(c).in_use
       THEN Go(c, "locked") /\ Put(caller[c].at, [Mine(c) EXCEPT !.lock = c])
       ELSE Become(c, [caller[c] EXCEPT !.at = @ + 1]) /\ UNCHANGED slot
  /\ UNCHANGED <<cb, requests, calls, returned>>

\* Fault: that no slot was found is not looked at.
NoSlotUnchecked(c) ==
  /\ caller[c].pc = "scan" /\ caller[c].at = NumSlots
  /\ Go(c, "locked")
  /\ UNCHANGED <<slot, cb, requests, calls, returned>>

NoSlot(c) ==
  /\ caller[c].pc = "scan" /\ caller[c].at = NumSlots
  /\ Return(c)
  /\ UNCHANGED <<slot, cb, requests, calls, returned>>

\* Fault: signal_sent keeps the value of the call before.
SaveCallbackOnly(c) ==
  /\ caller[c].pc = "locked" /\ Go(c, "ioctl")
  /\ Put(caller[c].at, [Mine(c) EXCEPT !.lock = NoOne, !.in_use = TRUE,
                                       !.key = caller[c].key])
  /\ UNCHANGED <<cb, requests, calls, returned>>

\* Fault: the slot keeps what the call before waited for.
SaveCallbackNoKey(c) ==
  /\ caller[c].pc = "locked" /\ Go(c, "ioctl")
  /\ Put(caller[c].at, [Mine(c) EXCEPT !.lock = NoOne, !.in_use = TRUE,
                                       !.signal_sent = FALSE])
  /\ UNCHANGED <<cb, requests, calls, returned>>

\* loc_set_slot_in_use(), loc_api_save_callback(), loc_unlock_slot()
SaveCallback(c) ==
  /\ caller[c].pc = "locked" /\ Go(c, "ioctl")
  /\ Put(caller[c].at, [Mine(c) EXCEPT !.lock = NoOne, !.in_use = TRUE,
                                       !.signal_sent = FALSE, !.key = caller[c].key])
  /\ UNCHANGED <<cb, requests, calls, returned>>

\* loc_ioctl(): the modem may have a request of which it says that it failed.
LocIoctl(c) ==
  /\ caller[c].pc = "ioctl"
  /\ \E rc \in {"SUCCESS", "FAILURE"} :
       /\ Become(c, [caller[c] EXCEPT !.pc = "relock", !.rc = rc])
       /\ \/ requests' = requests \cup {MyRequest(c)}
          \/ rc = "FAILURE" /\ UNCHANGED requests
  /\ UNCHANGED <<slot, cb, calls, returned>>

\* The slot's lock is held from here until Leave().
Locked(c, rc) ==
  /\ Mine(c).lock = NoOne
  /\ Put(caller[c].at, [Mine(c) EXCEPT !.lock = c])
  /\ Become(c, [caller[c] EXCEPT !.pc = "leaving", !.rc = rc])

\* loc_lock_slot(), and the start of loc_api_wait_callback(): the wait gives
\* the lock back.
LockSlot(c) ==
  /\ caller[c].pc = "relock"
  /\ \/ caller[c].rc = "FAILURE" /\ Locked(c, "FAILURE")
     \/ caller[c].rc = "SUCCESS" /\ Mine(c).signal_sent /\ Locked(c, "SUCCESS")
     \/ caller[c].rc = "SUCCESS" /\ ~Mine(c).signal_sent /\ Mine(c).lock = NoOne
          /\ Go(c, "waiting") /\ UNCHANGED slot
  /\ UNCHANGED <<cb, requests, calls, returned>>

\* pthread_cond_timedwait() returns, with the lock.
Signalled(c) ==
  /\ caller[c].pc = "waiting" /\ Mine(c).signal_sent /\ Locked(c, "SUCCESS")
  /\ UNCHANGED <<cb, requests, calls, returned>>

\* A timeout counts although an answer may have come before the lock.
TimesOut(c) ==
  /\ caller[c].pc = "waiting" /\ Locked(c, "TIMEOUT")
  /\ UNCHANGED <<cb, requests, calls, returned>>

\* The payload is copied, the slot given back and unlocked.
Leave(c) ==
  /\ caller[c].pc = "leaving" /\ Return(c)
  /\ Put(caller[c].at, [Mine(c) EXCEPT !.lock = NoOne, !.in_use = FALSE])
  /\ returned' = IF caller[c].rc = "SUCCESS" THEN returned \cup {Mine(c).payload} ELSE returned
  /\ UNCHANGED <<cb, requests, calls>>

-----------------------------------------------------------------------------
(***************************************************************************)
(* rpc_loc_event_cb_f_type_svc() with an answer of the modem, in           *)
(* loc_api_callback_process_sync_call().                                   *)
(***************************************************************************)
Answer(r) ==
  /\ cb.pc = "idle" /\ r \in requests
  /\ requests' = requests \ {r}
  /\ cb' = [pc |-> "locking", at |-> 0, answer |-> r]
  /\ UNCHANGED <<slot, caller, calls, returned>>

LockNext ==
  /\ cb.pc = "locking" /\ cb.at \in Slots /\ slot[cb.at].lock = NoOne
  /\ Put(cb.at, [slot[cb.at] EXCEPT !.lock = Rpc])
  /\ cb' = [cb EXCEPT !.pc = "checking"]
  /\ UNCHANGED <<caller, requests, calls, returned>>

Matches(s) == s.in_use /\ ~s.signal_sent /\ s.key = cb.answer.key

CbIdle == [pc |-> "idle", at |-> 0, answer |-> NoAnswer]

\* Fault: the slot that is signalled stays locked.
CheckSlotLocked ==
  /\ cb.pc = "checking"
  /\ IF Matches(slot[cb.at])
       THEN /\ Put(cb.at, [slot[cb.at] EXCEPT !.signal_sent = TRUE, !.payload = cb.answer])
            /\ cb' = CbIdle
       ELSE /\ Put(cb.at, [slot[cb.at] EXCEPT !.lock = NoOne])
            /\ cb' = [cb EXCEPT !.pc = "locking", !.at = @ + 1]
  /\ UNCHANGED <<caller, requests, calls, returned>>

CheckSlot ==
  /\ cb.pc = "checking"
  /\ IF Matches(slot[cb.at])
       THEN /\ Put(cb.at, [slot[cb.at] EXCEPT !.lock = NoOne, !.signal_sent = TRUE, !.payload = cb.answer])
            /\ cb' = CbIdle
       ELSE /\ Put(cb.at, [slot[cb.at] EXCEPT !.lock = NoOne])
            /\ cb' = [cb EXCEPT !.pc = "locking", !.at = @ + 1]
  /\ UNCHANGED <<caller, requests, calls, returned>>

\* No slot matches: the answer goes to the client's own callback only.
SearchEnds ==
  /\ cb.pc = "locking" /\ cb.at = NumSlots
  /\ cb' = CbIdle
  /\ UNCHANGED <<slot, caller, requests, calls, returned>>

-----------------------------------------------------------------------------
Init ==
  /\ slot = [i \in Slots |-> [lock |-> NoOne, in_use |-> FALSE, signal_sent |-> FALSE,
                              key |-> NoKey, payload |-> NoAnswer]]
  /\ caller = [c \in Callers |-> Idle]
  /\ cb = CbIdle
  /\ requests = {}
  /\ calls = 0
  /\ returned = {}

CallerStep(c) ==
  \/ LockASlot(c) \/ NoSlot(c) \/ SaveCallback(c) \/ LocIoctl(c) \/ LockSlot(c)
  \/ Signalled(c) \/ TimesOut(c) \/ Leave(c)

RpcStep == LockNext \/ CheckSlot \/ SearchEnds

Next ==
  \/ \E c \in Callers, key \in Keys : Call(c, key)
  \/ \E c \in Callers : CallerStep(c)
  \/ \E r \in requests : Answer(r)
  \/ RpcStep

Spec     == Init /\ [][Next]_vars
\* The threads run and time goes by; the modem need not answer.
FairSpec == Spec /\ WF_vars(RpcStep) /\ \A c \in Callers : WF_vars(CallerStep(c))

-----------------------------------------------------------------------------
\* Where a thread has a slot, and where it has its lock.
Holds(c) == caller[c].pc \in {"locked", "ioctl", "relock", "waiting", "leaving"}
HasLock(c) == caller[c].pc \in {"locked", "leaving"}

TypeOK ==
  /\ slot \in [Slots -> [lock : Callers \cup {Rpc, NoOne}, in_use : BOOLEAN, signal_sent : BOOLEAN,
                         key : Keys \cup {NoKey}, payload : Request \cup {NoAnswer}]]
  /\ caller \in [Callers -> [pc : {"idle", "scan", "locked", "ioctl", "relock", "waiting", "leaving"},
                             call : 0..MaxCalls, key : Keys \cup {NoKey}, at : 0..NumSlots,
                             rc : {"SUCCESS", "FAILURE", "TIMEOUT"}]]
  /\ \A c \in Callers : caller[c].pc # "idle" => caller[c].call # 0 /\ caller[c].key \in Keys
  /\ \A c \in Callers : Holds(c) => caller[c].at \in Slots
  /\ cb \in [pc : {"idle", "locking", "checking"}, at : 0..NumSlots, answer : Request \cup {NoAnswer}]
  /\ cb.pc = "checking" => cb.at \in Slots
  /\ cb.pc # "idle" => cb.answer \in Request
  /\ requests \subseteq Request
  /\ calls \in 0..MaxCalls
  /\ returned \subseteq Request

(***************************************************************************)
(* A slot is found free under its own lock, used without it, and found     *)
(* again by its index: at any time it belongs to one call at most, which   *)
(* is the one that marked it, and it has what that call waits for.         *)
(***************************************************************************)
SlotExclusive ==
  /\ \A c, d \in Callers : c # d /\ Holds(c) /\ Holds(d) => caller[c].at # caller[d].at
  /\ \A c \in Callers : Holds(c) /\ caller[c].pc # "locked" => Mine(c).in_use /\ Mine(c).key = caller[c].key

\* Answers that calls will return.
Taken(i) == slot[i].in_use /\ slot[i].signal_sent

(***************************************************************************)
(* An answer wakes one call, and no call returns what an earlier user of   *)
(* its slot left there: an answer returned is to a request of the same     *)
(* client and kind, and has not been returned by another call.             *)
(***************************************************************************)
AnswerOnce ==
  \A c \in Callers : caller[c].pc = "leaving" /\ caller[c].rc = "SUCCESS" =>
    /\ Mine(c).payload \in Request \ returned
    /\ Mine(c).payload.key = caller[c].key
    /\ \A i \in Slots \ {caller[c].at} : Taken(i) => slot[i].payload # Mine(c).payload

InCall(r) ==
  /\ caller[r.caller].call = r.call
  /\ caller[r.caller].pc \in {"relock", "waiting"}

(***************************************************************************)
(* An answer can come before its call waits, or even before loc_ioctl()    *)
(* returns, while other slots are given back and taken: one to a call that *)
(* goes on is never dropped, unless another answer has already been taken  *)
(* for that call.                                                          *)
(***************************************************************************)
NoAnswerDropped ==
  cb.pc # "idle" /\ InCall(cb.answer) =>
    LET i == caller[cb.answer.caller].at IN i < cb.at => slot[i].signal_sent

(***************************************************************************)
(* A call returns, whether the modem answers or not: nobody keeps the lock *)
(* of a slot that its call waits for.  The threads differ in name only:    *)
(* what holds of one of them holds of all.                                 *)
(***************************************************************************)
EveryCallEnds ==
  LET c == CHOOSE c \in Callers : TRUE IN caller[c].pc # "idle" ~> caller[c].pc = "idle"

=============================================================================
