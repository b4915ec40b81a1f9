--------------------------- MODULE SyncCallProofs ---------------------------
(***************************************************************************)
(* Proofs about SyncCall, for any threads, client handles, kinds of call   *)
(* and number of slots.                                                    *)
(***************************************************************************)
EXTENDS SyncCall, TLAPS

-----------------------------------------------------------------------------
(***************************************************************************)
(* Records: what a change of some fields gives.                            *)
(***************************************************************************)
LockType   == Callers \cup {Rpc, NoOne}
SlotType   == [lock : LockType, in_use : BOOLEAN, signal_sent : BOOLEAN,
               key : Keys \cup {NoKey}, payload : Request \cup {NoAnswer}]
CallerType == [pc : {"idle", "scan", "locked", "ioctl", "relock", "waiting", "leaving"},
               call : 0..MaxCalls, key : Keys \cup {NoKey}, at : 0..NumSlots,
               rc : {"SUCCESS", "FAILURE", "TIMEOUT"}]

LEMMA NoAnswerIsNone == NoAnswer \notin Request
BY SyncAssumption DEF NoAnswer, Request

LEMMA RequestFields ==
  ASSUME NEW r \in Request
  PROVE  r.caller \in Callers /\ r.call \in 1..MaxCalls /\ r.key \in Keys
BY DEF Request

LEMMA MyRequestType ==
  ASSUME TypeOK, NEW c \in Callers, caller[c].pc # "idle"
  PROVE  /\ MyRequest(c) \in Request
         /\ MyRequest(c).caller = c /\ MyRequest(c).call = caller[c].call /\ MyRequest(c).key = caller[c].key
BY SyncAssumption DEF TypeOK, MyRequest, Request

LEMMA SetLock ==
  ASSUME NEW s \in SlotType, NEW l \in LockType, NEW t, t = [s EXCEPT !.lock = l]
  PROVE  /\ t \in SlotType /\ t.lock = l
         /\ t.in_use = s.in_use /\ t.signal_sent = s.signal_sent /\ t.key = s.key /\ t.payload = s.payload
BY DEF SlotType

LEMMA SetPc ==
  ASSUME NEW d \in CallerType, NEW e, NEW pc \in {"scan", "locked", "ioctl", "relock", "waiting", "leaving"},
         e = [d EXCEPT !.pc = pc]
  PROVE  /\ e \in CallerType /\ e.pc = pc /\ e.rc = d.rc
         /\ e.call = d.call /\ e.key = d.key /\ e.at = d.at
BY DEF CallerType

LEMMA SetAt ==
  ASSUME NEW d \in CallerType, NEW e, d.at \in Slots, e = [d EXCEPT !.at = @ + 1]
  PROVE  /\ e \in CallerType /\ e.pc = d.pc /\ e.rc = d.rc
         /\ e.call = d.call /\ e.key = d.key
BY SyncAssumption DEF CallerType, Slots

LEMMA IdleFields ==
  Idle \in CallerType /\ Idle.pc = "idle" /\ Idle.call = 0
BY SyncAssumption DEF CallerType, Idle

-----------------------------------------------------------------------------
(***************************************************************************)
(* What the actions change: one slot, one thread.                          *)
(***************************************************************************)
OnlySlot(i)   == \A j \in Slots \ {i} : slot'[j] = slot[j]
OnlyCaller(c) == \A d \in Callers \ {c} : caller'[d] = caller[d]
SameData(i)   == /\ slot'[i].in_use = slot[i].in_use /\ slot'[i].signal_sent = slot[i].signal_sent
                 /\ slot'[i].key = slot[i].key /\ slot'[i].payload = slot[i].payload
SameCall(c)   == caller'[c].call = caller[c].call /\ caller'[c].key = caller[c].key

SlotsOK   == slot \in [Slots -> SlotType]
CallersOK ==
  /\ caller \in [Callers -> CallerType]
  /\ \A c \in Callers : caller[c].pc # "idle" => caller[c].call # 0 /\ caller[c].key \in Keys
  /\ \A c \in Callers : Holds(c) => caller[c].at \in Slots
RestOK ==
  /\ cb \in [pc : {"idle", "locking", "checking"}, at : 0..NumSlots, answer : Request \cup {NoAnswer}]
  /\ cb.pc = "checking" => cb.at \in Slots
  /\ cb.pc # "idle" => cb.answer \in Request
  /\ requests \subseteq Request
  /\ calls \in 0..MaxCalls
  /\ returned \subseteq Request

LEMMA TypeParts == TypeOK <=> SlotsOK /\ CallersOK /\ RestOK
BY DEF TypeOK, SlotsOK, CallersOK, RestOK, SlotType, LockType, CallerType

LEMMA PutDoes ==
  ASSUME SlotsOK, NEW i \in Slots, NEW s \in SlotType, Put(i, s)
  PROVE  SlotsOK' /\ slot'[i] = s /\ OnlySlot(i)
BY DEF SlotsOK, Put, OnlySlot

LEMMA BecomeDoes ==
  ASSUME CallersOK, NEW c \in Callers, NEW d \in CallerType, Become(c, d),
         d.pc # "idle" => d.call # 0 /\ d.key \in Keys,
         d.pc \in {"locked", "ioctl", "relock", "waiting", "leaving"} => d.at \in Slots
  PROVE  CallersOK' /\ caller'[c] = d /\ OnlyCaller(c)
BY DEF CallersOK, Become, OnlyCaller, Holds

LEMMA CallDoes ==
  ASSUME TypeOK, NEW c \in Callers, NEW key \in Keys, Call(c, key)
  PROVE  /\ CallersOK' /\ OnlyCaller(c)
         /\ caller[c].pc = "idle" /\ calls \in Nat /\ calls' = calls + 1 /\ calls' <= MaxCalls
         /\ caller'[c].pc = "scan" /\ caller'[c].call = calls + 1
         /\ UNCHANGED <<slot, cb, requests, returned>>
<1> DEFINE d == [pc |-> "scan", call |-> calls + 1, key |-> key, at |-> 0, rc |-> "SUCCESS"]
<1>1. d \in CallerType /\ calls + 1 # 0 /\ calls \in Nat /\ calls < MaxCalls
  BY SyncAssumption DEF TypeOK, CallerType, Call
<1>2. CallersOK' /\ caller'[c] = d /\ OnlyCaller(c)
  BY <1>1, TypeParts, BecomeDoes DEF Call
<1> QED
  BY <1>1, <1>2, SyncAssumption DEF Call

LEMMA LockASlotDoes ==
  ASSUME TypeOK, NEW c \in Callers, LockASlot(c), NEW i, i = caller[c].at
  PROVE  /\ SlotsOK' /\ CallersOK' /\ OnlyCaller(c) /\ SameCall(c)
         /\ i \in Slots /\ caller[c].pc = "scan"
         /\ \/ /\ slot[i].lock = NoOne /\ ~slot[i].in_use
               /\ slot'[i].lock = c /\ SameData(i) /\ OnlySlot(i)
               /\ caller'[c].pc = "locked" /\ caller'[c].at = i
            \/ caller'[c].pc = "scan" /\ UNCHANGED slot
         /\ UNCHANGED <<cb, requests, calls, returned>>
<1>1. SlotsOK /\ CallersOK /\ slot[i] \in SlotType /\ caller[c] \in CallerType /\ i \in Slots
  BY TypeParts DEF LockASlot, SlotsOK, CallersOK
<1>2. caller[c].pc = "scan" /\ caller[c].call # 0 /\ caller[c].key \in Keys /\ c \in LockType
  BY <1>1 DEF LockASlot, CallersOK, LockType
<1>3. CASE slot[i].lock = NoOne /\ ~slot[i].in_use
  <2> DEFINE d == [caller[c] EXCEPT !.pc = "locked"]
             s == [slot[i] EXCEPT !.lock = c]
  <2>1. Become(c, d) /\ Put(i, s)
    BY <1>3 DEF LockASlot, Mine, Go
  <2>2. d \in CallerType /\ d.pc = "locked" /\ d.call = caller[c].call /\ d.key = caller[c].key /\ d.at = i
    BY <1>1, SetPc DEF CallerType
  <2>3. s \in SlotType /\ s.lock = c /\ s.in_use = slot[i].in_use /\ s.signal_sent = slot[i].signal_sent
        /\ s.key = slot[i].key /\ s.payload = slot[i].payload
    BY <1>1, <1>2, SetLock
  <2> HIDE DEF d, s
  <2>4. CallersOK' /\ caller'[c] = d /\ OnlyCaller(c)
    BY <1>1, <1>2, <2>1, <2>2, BecomeDoes
  <2>5. SlotsOK' /\ slot'[i] = s /\ OnlySlot(i)
    BY <1>1, <2>1, <2>3, PutDoes
  <2> QED
    BY <1>1, <1>2, <1>3, <2>2, <2>3, <2>4, <2>5 DEF SameCall, SameData, LockASlot
<1>4. CASE ~(slot[i].lock = NoOne /\ ~slot[i].in_use)
  <2> DEFINE d == [caller[c] EXCEPT !.at = @ + 1]
  <2>1. Become(c, d) /\ UNCHANGED slot
    BY <1>4 DEF LockASlot, Mine
  <2>2. d \in CallerType /\ d.pc = "scan" /\ d.call = caller[c].call /\ d.key = caller[c].key
    BY <1>1, <1>2, SetAt
  <2> HIDE DEF d
  <2>3. CallersOK' /\ caller'[c] = d /\ OnlyCaller(c)
    BY <1>1, <1>2, <2>1, <2>2, BecomeDoes
  <2> QED
    BY <1>1, <1>2, <2>1, <2>2, <2>3 DEF SameCall, SlotsOK, LockASlot
<1> QED
  BY <1>3, <1>4

LEMMA NoSlotDoes ==
  ASSUME TypeOK, NEW c \in Callers, NoSlot(c)
  PROVE  /\ CallersOK' /\ OnlyCaller(c) /\ caller[c].pc = "scan"
         /\ caller'[c].pc = "idle" /\ caller'[c].call = 0
         /\ UNCHANGED <<slot, cb, requests, calls, returned>>
<1>1. CallersOK' /\ caller'[c] = Idle /\ OnlyCaller(c)
  BY TypeParts, IdleFields, BecomeDoes DEF NoSlot, Return
<1> QED
  BY <1>1, IdleFields DEF NoSlot

LEMMA SaveCallbackDoes ==
  ASSUME TypeOK, NEW c \in Callers, SaveCallback(c), NEW i, i = caller[c].at
  PROVE  /\ SlotsOK' /\ CallersOK' /\ OnlyCaller(c) /\ SameCall(c) /\ OnlySlot(i)
         /\ i \in Slots /\ caller[c].pc = "locked"
         /\ caller'[c].pc = "ioctl" /\ caller'[c].at = i
         /\ slot'[i].lock = NoOne /\ slot'[i].in_use /\ ~slot'[i].signal_sent
         /\ slot'[i].key = caller[c].key
         /\ UNCHANGED <<cb, requests, calls, returned>>
<1>1. SlotsOK /\ CallersOK /\ caller[c].pc = "locked"
  BY TypeParts DEF SaveCallback
<1>2. i \in Slots /\ caller[c].call # 0 /\ caller[c].key \in Keys
  BY <1>1 DEF CallersOK, Holds
<1>3. slot[i] \in SlotType /\ caller[c] \in CallerType
  BY <1>1, <1>2 DEF SlotsOK, CallersOK
<1> DEFINE d == [caller[c] EXCEPT !.pc = "ioctl"]
           s == [slot[i] EXCEPT !.lock = NoOne, !.in_use = TRUE, !.signal_sent = FALSE, !.key = caller[c].key]
<1>4. Become(c, d) /\ Put(i, s)
  BY DEF SaveCallback, Mine, Go
<1>5. d \in CallerType /\ d.pc = "ioctl" /\ d.call = caller[c].call /\ d.key = caller[c].key /\ d.at = i
  BY <1>3, SetPc DEF CallerType
<1>6. s \in SlotType /\ s.lock = NoOne /\ s.in_use /\ ~s.signal_sent /\ s.key = caller[c].key
  BY <1>2, <1>3 DEF SlotType, LockType
<1> HIDE DEF d, s
<1>7. CallersOK' /\ caller'[c] = d /\ OnlyCaller(c)
  BY <1>1, <1>2, <1>3, <1>4, <1>5, BecomeDoes
<1>8. SlotsOK' /\ slot'[i] = s /\ OnlySlot(i)
  BY <1>1, <1>2, <1>4, <1>6, PutDoes
<1> QED
  BY <1>1, <1>2, <1>5, <1>6, <1>7, <1>8 DEF SameCall, SaveCallback

LEMMA LocIoctlDoes ==
  ASSUME TypeOK, NEW c \in Callers, LocIoctl(c)
  PROVE  /\ CallersOK' /\ OnlyCaller(c) /\ SameCall(c)
         /\ caller[c].pc = "ioctl" /\ caller'[c].pc = "relock" /\ caller'[c].at = caller[c].at
         /\ requests' = requests \/ requests' = requests \cup {MyRequest(c)}
         /\ UNCHANGED <<slot, cb, calls, returned>>
<1>1. CallersOK /\ caller[c].pc = "ioctl" /\ caller[c] \in CallerType
  BY TypeParts DEF LocIoctl, CallersOK
<1>2. caller[c].at \in Slots /\ caller[c].call # 0 /\ caller[c].key \in Keys
  BY <1>1 DEF CallersOK, Holds
<1>3. PICK rc \in {"SUCCESS", "FAILURE"} : Become(c, [caller[c] EXCEPT !.pc = "relock", !.rc = rc])
  BY DEF LocIoctl
<1> DEFINE d == [caller[c] EXCEPT !.pc = "relock", !.rc = rc]
<1>4. d \in CallerType /\ d.pc = "relock" /\ d.call = caller[c].call /\ d.key = caller[c].key /\ d.at = caller[c].at
  BY <1>1 DEF CallerType
<1> HIDE DEF d
<1>5. CallersOK' /\ caller'[c] = d /\ OnlyCaller(c)
  BY <1>1, <1>2, <1>3, <1>4, BecomeDoes DEF d
<1> QED
  BY <1>1, <1>4, <1>5 DEF SameCall, LocIoctl

LEMMA LockedDoes ==
  ASSUME TypeOK, NEW c \in Callers, NEW rc \in {"SUCCESS", "FAILURE", "TIMEOUT"}, Locked(c, rc),
         caller[c].pc \in {"relock", "waiting"}, NEW i, i = caller[c].at
  PROVE  /\ SlotsOK' /\ CallersOK' /\ OnlyCaller(c) /\ SameCall(c) /\ OnlySlot(i) /\ SameData(i)
         /\ i \in Slots /\ slot[i].lock = NoOne /\ slot'[i].lock = c
         /\ caller'[c].pc = "leaving" /\ caller'[c].rc = rc /\ caller'[c].at = i
<1>1. SlotsOK /\ CallersOK /\ c \in LockType
  BY TypeParts DEF LockType
<1>2. i \in Slots /\ caller[c].call # 0 /\ caller[c].key \in Keys
  BY <1>1 DEF CallersOK, Holds
<1>3. slot[i] \in SlotType /\ caller[c] \in CallerType
  BY <1>1, <1>2 DEF SlotsOK, CallersOK
<1> DEFINE d == [caller[c] EXCEPT !.pc = "leaving", !.rc = rc]
           s == [slot[i] EXCEPT !.lock = c]
<1>4. Become(c, d) /\ Put(i, s) /\ slot[i].lock = NoOne
  BY DEF Locked, Mine
<1>5. d \in CallerType /\ d.pc = "leaving" /\ d.rc = rc /\ d.call = caller[c].call /\ d.key = caller[c].key /\ d.at = i
  BY <1>3 DEF CallerType
<1>6. s \in SlotType /\ s.lock = c /\ s.in_use = slot[i].in_use /\ s.signal_sent = slot[i].signal_sent
      /\ s.key = slot[i].key /\ s.payload = slot[i].payload
  BY <1>1, <1>3, SetLock
<1> HIDE DEF d, s
<1>7. CallersOK' /\ caller'[c] = d /\ OnlyCaller(c)
  BY <1>1, <1>2, <1>3, <1>4, <1>5, BecomeDoes
<1>8. SlotsOK' /\ slot'[i] = s /\ OnlySlot(i)
  BY <1>1, <1>2, <1>4, <1>6, PutDoes
<1> QED
  BY <1>2, <1>4, <1>5, <1>6, <1>7, <1>8 DEF SameCall, SameData

LEMMA LockSlotDoes ==
  ASSUME TypeOK, NEW c \in Callers, LockSlot(c), NEW i, i = caller[c].at
  PROVE  \/ /\ Locked(c, "FAILURE") /\ caller[c].pc = "relock"
            /\ UNCHANGED <<cb, requests, calls, returned>>
         \/ /\ Locked(c, "SUCCESS") /\ caller[c].pc = "relock" /\ slot[i].signal_sent
            /\ UNCHANGED <<cb, requests, calls, returned>>
         \/ /\ CallersOK' /\ OnlyCaller(c) /\ SameCall(c)
            /\ caller[c].pc = "relock" /\ caller'[c].pc = "waiting" /\ caller'[c].at = i
            /\ UNCHANGED <<slot, cb, requests, calls, returned>>
<1>1. CASE Go(c, "waiting") /\ UNCHANGED slot
  <2>1. CallersOK /\ caller[c].pc = "relock" /\ caller[c] \in CallerType
    BY TypeParts DEF LockSlot, CallersOK
  <2>2. i \in Slots /\ caller[c].call # 0 /\ caller[c].key \in Keys
    BY <2>1 DEF CallersOK, Holds
  <2> DEFINE d == [caller[c] EXCEPT !.pc = "waiting"]
  <2>3. d \in CallerType /\ d.pc = "waiting" /\ d.call = caller[c].call /\ d.key = caller[c].key /\ d.at = i
    BY <2>1, SetPc DEF CallerType
  <2>4. Become(c, d)
    BY <1>1 DEF Go
  <2> HIDE DEF d
  <2>5. CallersOK' /\ caller'[c] = d /\ OnlyCaller(c)
    BY <2>1, <2>2, <2>3, <2>4, BecomeDoes
  <2> QED
    BY <1>1, <2>1, <2>3, <2>5 DEF SameCall, LockSlot
<1> QED
  BY <1>1 DEF LockSlot, Mine

LEMMA LeaveDoes ==
  ASSUME TypeOK, NEW c \in Callers, Leave(c), NEW i, i = caller[c].at
  PROVE  /\ SlotsOK' /\ CallersOK' /\ OnlyCaller(c) /\ OnlySlot(i)
         /\ i \in Slots /\ caller[c].pc = "leaving"
         /\ caller'[c].pc = "idle" /\ caller'[c].call = 0
         /\ slot'[i].lock = NoOne /\ ~slot'[i].in_use
         /\ \/ caller[c].rc = "SUCCESS" /\ returned' = returned \cup {slot[i].payload}
            \/ returned' = returned
         /\ UNCHANGED <<cb, requests, calls>>
<1>1. SlotsOK /\ CallersOK /\ caller[c].pc = "leaving"
  BY TypeParts DEF Leave
<1>2. i \in Slots /\ slot[i] \in SlotType
  BY <1>1 DEF CallersOK, SlotsOK, Holds
<1> DEFINE s == [slot[i] EXCEPT !.lock = NoOne, !.in_use = FALSE]
<1>3. Put(i, s) /\ Become(c, Idle)
  BY DEF Leave, Mine, Return
<1>4. s \in SlotType /\ s.lock = NoOne /\ ~s.in_use
  BY <1>2 DEF SlotType, LockType
<1> HIDE DEF s
<1>5. SlotsOK' /\ slot'[i] = s /\ OnlySlot(i)
  BY <1>1, <1>2, <1>3, <1>4, PutDoes
<1>6. CallersOK' /\ caller'[c] = Idle /\ OnlyCaller(c)
  BY <1>1, <1>3, IdleFields, BecomeDoes
<1> QED
  BY <1>1, <1>2, <1>4, <1>5, <1>6, IdleFields DEF Leave, Mine

LEMMA LockNextDoes ==
  ASSUME TypeOK, LockNext, NEW i, i = cb.at
  PROVE  /\ SlotsOK' /\ OnlySlot(i) /\ SameData(i)
         /\ i \in Slots /\ slot[i].lock = NoOne /\ slot'[i].lock = Rpc
         /\ cb.pc = "locking" /\ cb'.pc = "checking" /\ cb'.at = i /\ cb'.answer = cb.answer
         /\ RestOK' /\ UNCHANGED <<caller, requests, calls, returned>>
<1>1. SlotsOK /\ RestOK /\ i \in Slots /\ Rpc \in LockType
  BY TypeParts DEF LockNext, LockType
<1>2. slot[i] \in SlotType
  BY <1>1 DEF SlotsOK
<1> DEFINE s == [slot[i] EXCEPT !.lock = Rpc]
<1>3. s \in SlotType /\ s.lock = Rpc /\ s.in_use = slot[i].in_use /\ s.signal_sent = slot[i].signal_sent
      /\ s.key = slot[i].key /\ s.payload = slot[i].payload
  BY <1>1, <1>2, SetLock
<1>4. Put(i, s)
  BY DEF LockNext
<1> HIDE DEF s
<1>5. SlotsOK' /\ slot'[i] = s /\ OnlySlot(i)
  BY <1>1, <1>3, <1>4, PutDoes
<1>6. RestOK' /\ cb.pc = "locking" /\ cb'.pc = "checking" /\ cb'.at = i /\ cb'.answer = cb.answer
  BY <1>1 DEF RestOK, LockNext
<1> QED
  BY <1>1, <1>3, <1>5, <1>6 DEF SameData, LockNext

LEMMA CheckSlotDoes ==
  ASSUME TypeOK, CheckSlot, NEW i, i = cb.at
  PROVE  /\ SlotsOK' /\ OnlySlot(i) /\ i \in Slots /\ cb.pc = "checking"
         /\ slot'[i].lock = NoOne /\ slot'[i].in_use = slot[i].in_use /\ slot'[i].key = slot[i].key
         /\ \/ /\ Matches(slot[i])
               /\ slot'[i].signal_sent /\ slot'[i].payload = cb.answer
               /\ cb'.pc = "idle"
            \/ /\ ~Matches(slot[i]) /\ SameData(i)
               /\ cb'.pc = "locking" /\ cb'.at = i + 1 /\ cb'.answer = cb.answer
         /\ RestOK' /\ UNCHANGED <<caller, requests, calls, returned>>
<1>1. SlotsOK /\ RestOK /\ i \in Slots /\ NoOne \in LockType /\ cb.pc = "checking" /\ cb.answer \in Request
  BY TypeParts DEF CheckSlot, LockType, RestOK
<1>2. slot[i] \in SlotType
  BY <1>1 DEF SlotsOK
<1>3. CASE Matches(slot[i])
  <2> DEFINE s == [slot[i] EXCEPT !.lock = NoOne, !.signal_sent = TRUE, !.payload = cb.answer]
  <2>1. s \in SlotType /\ s.lock = NoOne /\ s.in_use = slot[i].in_use /\ s.signal_sent
        /\ s.key = slot[i].key /\ s.payload = cb.answer
    BY <1>1, <1>2 DEF SlotType, LockType
  <2>2. Put(i, s) /\ cb' = CbIdle
    BY <1>3 DEF CheckSlot
  <2> HIDE DEF s
  <2>3. SlotsOK' /\ slot'[i] = s /\ OnlySlot(i)
    BY <1>1, <2>1, <2>2, PutDoes
  <2>4. RestOK' /\ cb'.pc = "idle"
    BY <1>1, <2>2, SyncAssumption DEF RestOK, CheckSlot, CbIdle
  <2> QED
    BY <1>1, <1>3, <2>1, <2>3, <2>4 DEF CheckSlot
<1>4. CASE ~Matches(slot[i])
  <2> DEFINE s == [slot[i] EXCEPT !.lock = NoOne]
  <2>1. s \in SlotType /\ s.lock = NoOne /\ s.in_use = slot[i].in_use /\ s.signal_sent = slot[i].signal_sent
        /\ s.key = slot[i].key /\ s.payload = slot[i].payload
    BY <1>1, <1>2, SetLock
  <2>2. Put(i, s) /\ cb' = [cb EXCEPT !.pc = "locking", !.at = @ + 1]
    BY <1>4 DEF CheckSlot
  <2> HIDE DEF s
  <2>3. SlotsOK' /\ slot'[i] = s /\ OnlySlot(i)
    BY <1>1, <2>1, <2>2, PutDoes
  <2>4. i + 1 \in 0..NumSlots
    BY <1>1, SyncAssumption DEF Slots
  <2>5. /\ cb' \in [pc : {"idle", "locking", "checking"}, at : 0..NumSlots, answer : Request \cup {NoAnswer}]
        /\ cb'.pc = "locking" /\ cb'.at = i + 1 /\ cb'.answer = cb.answer
    BY <1>1, <2>2, <2>4 DEF RestOK
  <2>6. RestOK'
    BY <1>1, <2>5 DEF RestOK, CheckSlot
  <2> QED
    BY <1>1, <1>4, <2>1, <2>3, <2>5, <2>6 DEF CheckSlot, SameData
<1> QED
  BY <1>3, <1>4

LEMMA AnswerDoes ==
  ASSUME TypeOK, NEW r \in requests, Answer(r)
  PROVE  /\ RestOK' /\ cb.pc = "idle" /\ cb'.pc = "locking" /\ cb'.at = 0 /\ cb'.answer = r
         /\ requests' = requests \ {r} /\ UNCHANGED <<slot, caller, calls, returned>>
BY SyncAssumption DEF TypeOK, RestOK, Answer

LEMMA SearchEndsDoes ==
  ASSUME TypeOK, SearchEnds
  PROVE  /\ RestOK' /\ cb'.pc = "idle" /\ UNCHANGED <<slot, caller, requests, calls, returned>>
BY SyncAssumption DEF TypeOK, RestOK, SearchEnds, CbIdle

-----------------------------------------------------------------------------
(***************************************************************************)
(* The inductive invariant.                                                *)
(***************************************************************************)

\* A thread past loc_lock_a_slot() has a slot that nobody else has; who is in
\* a slot has its lock, and the slot is not yet in use when it is found.
LockInv ==
  /\ \A c \in Callers : HasLock(c) => Mine(c).lock = c
  /\ \A c \in Callers : caller[c].pc = "locked" => ~Mine(c).in_use
  /\ \A c \in Callers : caller[c].pc = "leaving" /\ caller[c].rc = "SUCCESS" => Mine(c).signal_sent
  /\ cb.pc = "checking" => slot[cb.at].lock = Rpc

Busy == cb.pc # "idle"

\* Requests that were sent, except those whose answer was lost.
Known ==
  requests \cup returned \cup {slot[i].payload : i \in {j \in Slots : Taken(j)}}
           \cup (IF Busy THEN {cb.answer} ELSE {})

\* A call that is still in progress and is known has been sent.
CallInv ==
  /\ \A c \in Callers : caller[c].call <= calls
  /\ \A r \in Known : /\ r.call <= calls
                      /\ caller[r.caller].call = r.call =>
                           /\ caller[r.caller].pc \in {"relock", "waiting", "leaving"}
                           /\ caller[r.caller].key = r.key

\* An answer is in one place only.
AnswerInv ==
  /\ requests \cap returned = {}
  /\ Busy => cb.answer \notin requests \cup returned
  /\ \A i \in Slots : Taken(i) =>
       /\ slot[i].payload \in Request \ (requests \cup returned)
       /\ slot[i].payload.key = slot[i].key
       /\ Busy => slot[i].payload # cb.answer
       /\ \A j \in Slots \ {i} : Taken(j) => slot[j].payload # slot[i].payload

SyncInv == TypeOK /\ LockInv /\ SlotExclusive /\ CallInv /\ AnswerInv /\ NoAnswerDropped

-----------------------------------------------------------------------------
(***************************************************************************)
(* Types.                                                                  *)
(***************************************************************************)
LEMMA Returned ==
  ASSUME TypeOK, LockInv, SlotExclusive, NEW c \in Callers, caller[c].pc = "leaving", caller[c].rc = "SUCCESS"
  PROVE  caller[c].at \in Slots /\ Taken(caller[c].at)
BY DEF TypeOK, LockInv, SlotExclusive, Holds, Mine, Taken

LEMMA TypeStep == SyncInv /\ [Next]_vars => TypeOK'
<1> SUFFICES ASSUME TypeOK, LockInv, SlotExclusive, AnswerInv, [Next]_vars PROVE TypeOK'
  BY DEF SyncInv
<1>0. SlotsOK /\ CallersOK /\ RestOK
  BY TypeParts
<1>t. SlotsOK' /\ CallersOK' /\ RestOK' => TypeOK'
  BY DEF TypeOK, SlotsOK, CallersOK, RestOK, SlotType, LockType, CallerType
<1>1. ASSUME NEW c \in Callers, NEW key \in Keys, Call(c, key) PROVE TypeOK'
  BY <1>0, <1>t, <1>1, CallDoes DEF SlotsOK, RestOK
<1>2. ASSUME NEW c \in Callers, LockASlot(c) PROVE TypeOK'
  BY <1>0, <1>t, <1>2, LockASlotDoes DEF RestOK
<1>3. ASSUME NEW c \in Callers, NoSlot(c) PROVE TypeOK'
  BY <1>0, <1>t, <1>3, NoSlotDoes DEF SlotsOK, RestOK
<1>4. ASSUME NEW c \in Callers, SaveCallback(c) PROVE TypeOK'
  BY <1>0, <1>t, <1>4, SaveCallbackDoes DEF RestOK
<1>5. ASSUME NEW c \in Callers, LocIoctl(c) PROVE TypeOK'
  <2>1. MyRequest(c) \in Request
    BY <1>5, MyRequestType DEF LocIoctl
  <2> QED
    BY <1>0, <1>t, <1>5, <2>1, LocIoctlDoes DEF SlotsOK, RestOK
<1>6. ASSUME NEW c \in Callers, NEW rc \in {"SUCCESS", "FAILURE", "TIMEOUT"}, Locked(c, rc),
             caller[c].pc \in {"relock", "waiting"}, UNCHANGED <<cb, requests, calls, returned>>
      PROVE  TypeOK'
  BY <1>0, <1>t, <1>6, LockedDoes DEF RestOK
<1>7. ASSUME NEW c \in Callers, LockSlot(c) PROVE TypeOK'
  BY <1>0, <1>t, <1>6, <1>7, LockSlotDoes DEF SlotsOK, RestOK
<1>8. ASSUME NEW c \in Callers, Leave(c) PROVE TypeOK'
  <2>1. caller[c].pc = "leaving" /\ caller[c].rc = "SUCCESS" => slot[caller[c].at].payload \in Request
    BY Returned DEF AnswerInv
  <2> QED
    BY <1>0, <1>t, <1>8, <2>1, LeaveDoes DEF RestOK
<1>9. ASSUME NEW r \in requests, Answer(r) PROVE TypeOK'
  BY <1>0, <1>t, <1>9, AnswerDoes DEF SlotsOK, CallersOK, Holds
<1>10. ASSUME RpcStep PROVE TypeOK'
  BY <1>0, <1>t, <1>10, LockNextDoes, CheckSlotDoes, SearchEndsDoes DEF RpcStep, SlotsOK, CallersOK, Holds
<1>11. CASE UNCHANGED vars
  BY <1>0, <1>t, <1>11 DEF vars, SlotsOK, CallersOK, RestOK, Holds
<1> QED
  BY <1>1, <1>2, <1>3, <1>4, <1>5, <1>6, <1>7, <1>8, <1>9, <1>10, <1>11
     DEF Next, CallerStep, Signalled, TimesOut

-----------------------------------------------------------------------------
(***************************************************************************)
(* Locks and slots: what a thread does in its slot leaves the others alone.*)
(***************************************************************************)
LEMMA OthersElsewhere ==
  ASSUME TypeOK, LockInv, SlotExclusive, NEW c \in Callers, NEW d \in Callers \ {c}, Holds(d),
         NEW i \in Slots,
         \/ Holds(c) /\ i = caller[c].at
         \/ slot[i].lock = NoOne /\ ~slot[i].in_use
  PROVE  caller[d].at \in Slots /\ caller[d].at # i
BY SyncAssumption DEF TypeOK, LockInv, SlotExclusive, Holds, HasLock, Mine

\* The answer that the RPC thread has is for the call of thread c, and it has
\* not passed over the slot of c.
NotPassed(c) ==
  Busy /\ cb.answer.caller = c /\ InCall(cb.answer) => (caller[c].at < cb.at => Mine(c).signal_sent)

\* What the invariants say of one thread.
ThreadInv(c) ==
  /\ HasLock(c) => Mine(c).lock = c
  /\ caller[c].pc = "locked" => ~Mine(c).in_use
  /\ caller[c].pc = "leaving" /\ caller[c].rc = "SUCCESS" => Mine(c).signal_sent
  /\ Holds(c) /\ caller[c].pc # "locked" => Mine(c).in_use /\ Mine(c).key = caller[c].key

Apart == \A c, d \in Callers : c # d /\ Holds(c) /\ Holds(d) => caller[c].at # caller[d].at

SlotInv == LockInv /\ SlotExclusive /\ NoAnswerDropped

LEMMA SlotParts ==
  ASSUME SlotInv
  PROVE  Apart /\ \A c \in Callers : ThreadInv(c) /\ NotPassed(c)
<1>1. \A c \in Callers : NotPassed(c)
  BY DEF SlotInv, NoAnswerDropped, NotPassed, Busy, Mine
<1>2. Apart /\ \A c \in Callers : ThreadInv(c)
  BY DEF SlotInv, LockInv, SlotExclusive, Apart, ThreadInv
<1> QED
  BY <1>1, <1>2

LEMMA SlotPartsNext ==
  ASSUME TypeOK', Apart', \A c \in Callers : ThreadInv(c)' /\ NotPassed(c)',
         cb'.pc = "checking" => slot'[cb'.at].lock = Rpc
  PROVE  SlotInv'
<1>1. NoAnswerDropped'
  BY RequestFields DEF TypeOK, NoAnswerDropped, NotPassed, Busy, InCall, Mine
<1>2. (LockInv /\ SlotExclusive)'
  BY DEF LockInv, SlotExclusive, Apart, ThreadInv
<1> QED
  BY <1>1, <1>2 DEF SlotInv

\* A step of thread c in slot i.
LEMMA OwnStep ==
  ASSUME TypeOK, TypeOK', SlotInv, NEW c \in Callers, NEW i \in Slots,
         OnlyCaller(c), OnlySlot(i) \/ UNCHANGED slot, UNCHANGED cb,
         \/ Holds(c) /\ i = caller[c].at
         \/ slot[i].lock = NoOne /\ ~slot[i].in_use
         \/ UNCHANGED slot /\ ~Holds(c)',
         slot[i].lock # Rpc \/ UNCHANGED slot,
         Holds(c)' => caller'[c].at = i,
         ThreadInv(c)', NotPassed(c)'
  PROVE  SlotInv'
<1>1. ASSUME NEW d \in Callers \ {c}
      PROVE  ThreadInv(d)' /\ NotPassed(d)' /\ (Holds(d)' /\ Holds(c)' => caller'[d].at # caller'[c].at)
  <2>1. caller'[d] = caller[d] /\ UNCHANGED cb
    BY DEF OnlyCaller
  <2>2. ~(UNCHANGED slot /\ ~Holds(c)') /\ Holds(d) => caller[d].at \in Slots /\ caller[d].at # i
    BY OthersElsewhere DEF SlotInv
  <2>3. Holds(d) => slot'[caller[d].at] = slot[caller[d].at]
    BY <2>2 DEF OnlySlot
  <2>4. ThreadInv(d) /\ NotPassed(d)
    BY SlotParts
  <2>5. ThreadInv(d)' /\ (Holds(d)' /\ Holds(c)' => caller'[d].at # caller'[c].at)
    BY <2>1, <2>2, <2>3, <2>4 DEF ThreadInv, Holds, HasLock, Mine
  <2>6. NotPassed(d)'
    BY <2>1, <2>3, <2>4 DEF NotPassed, Busy, InCall, Holds, Mine
  <2> QED
    BY <2>5, <2>6
<1>2. ASSUME NEW d \in Callers \ {c}, NEW e \in Callers \ {c}, d # e, Holds(d)', Holds(e)'
      PROVE  caller'[d].at # caller'[e].at
  BY <1>2 DEF OnlyCaller, SlotInv, SlotExclusive, Holds
<1>3. Apart'
  BY <1>1, <1>2 DEF Apart
<1>4. cb'.pc = "checking" => slot'[cb'.at].lock = Rpc
  BY DEF SlotInv, LockInv, OnlySlot, TypeOK
<1> QED
  BY <1>1, <1>3, <1>4, SlotPartsNext

\* A step of the RPC thread in slot i.
LEMMA RpcInSlot ==
  ASSUME TypeOK, TypeOK', SlotInv, NEW i \in Slots, UNCHANGED caller, OnlySlot(i),
         slot[i].lock \in {NoOne, Rpc}, slot'[i].in_use = slot[i].in_use, slot'[i].key = slot[i].key,
         slot[i].signal_sent => slot'[i].signal_sent,
         cb'.pc = "checking" => slot'[cb'.at].lock = Rpc,
         \A c \in Callers : NotPassed(c)'
  PROVE  SlotInv'
<1>1. ASSUME NEW c \in Callers PROVE ThreadInv(c)'
  <2>1. ThreadInv(c) /\ caller'[c] = caller[c] /\ c # NoOne /\ c # Rpc
    BY SlotParts, SyncAssumption
  <2>2. Holds(c) => caller[c].at \in Slots
    BY DEF TypeOK
  <2> QED
    BY <2>1, <2>2 DEF ThreadInv, Holds, HasLock, Mine, OnlySlot
<1>2. Apart'
  BY DEF Apart, SlotInv, SlotExclusive, Holds
<1> QED
  BY <1>1, <1>2, SlotPartsNext

LEMMA NotInCall ==
  ASSUME NEW c \in Callers, caller'[c].pc \notin {"relock", "waiting"}
  PROVE  NotPassed(c)'
BY DEF NotPassed, InCall

LEMMA SlotStep == SyncInv /\ [Next]_vars => SlotInv'
<1> SUFFICES ASSUME TypeOK, TypeOK', SlotInv, CallInv, [Next]_vars PROVE SlotInv'
  BY TypeStep DEF SyncInv, SlotInv
<1> USE SyncAssumption
<1>0. 0 \in Slots
  BY DEF Slots
<1>1. ASSUME NEW c \in Callers, NEW key \in Keys, Call(c, key) PROVE SlotInv'
  <2>1. ~Holds(c)' /\ ThreadInv(c)' /\ NotPassed(c)'
    BY <1>1, CallDoes, NotInCall DEF Holds, HasLock, ThreadInv
  <2> QED
    BY <1>0, <1>1, <2>1, CallDoes, OwnStep
<1>2. ASSUME NEW c \in Callers, LockASlot(c) PROVE SlotInv'
  <2> DEFINE i == caller[c].at
  <2>1. ThreadInv(c)' /\ NotPassed(c)'
    BY <1>2, LockASlotDoes, NotInCall DEF ThreadInv, Holds, HasLock, Mine, SameData
  <2>2. Holds(c)' => caller'[c].at = i
    BY <1>2, LockASlotDoes DEF Holds
  <2>3. OnlyCaller(c) /\ UNCHANGED cb /\ i \in Slots
    BY <1>2, LockASlotDoes
  <2>4. CASE slot[i].lock = NoOne /\ ~slot[i].in_use /\ OnlySlot(i)
    BY <2>1, <2>2, <2>3, <2>4, OwnStep
  <2>5. CASE UNCHANGED slot /\ caller'[c].pc = "scan"
    <3>1. ~Holds(c)'
      BY <2>5 DEF Holds
    <3> QED
      BY <2>1, <2>3, <2>5, <3>1, OwnStep
  <2> QED
    BY <1>2, <2>4, <2>5, LockASlotDoes
<1>3. ASSUME NEW c \in Callers, NoSlot(c) PROVE SlotInv'
  <2>1. ~Holds(c)' /\ ThreadInv(c)' /\ NotPassed(c)'
    BY <1>3, NoSlotDoes, NotInCall DEF Holds, HasLock, ThreadInv
  <2> QED
    BY <1>0, <1>3, <2>1, NoSlotDoes, OwnStep
<1>4. ASSUME NEW c \in Callers, SaveCallback(c) PROVE SlotInv'
  <2>1. ThreadInv(c)' /\ NotPassed(c)' /\ Holds(c) /\ slot[caller[c].at].lock = c
    BY <1>4, SaveCallbackDoes, NotInCall DEF ThreadInv, Holds, HasLock, Mine, SameCall, SlotInv, LockInv
  <2> QED
    BY <1>4, <2>1, SaveCallbackDoes, OwnStep
<1>5. ASSUME NEW c \in Callers, LocIoctl(c) PROVE SlotInv'
  <2>1. /\ OnlyCaller(c) /\ SameCall(c) /\ UNCHANGED <<slot, cb>>
        /\ caller[c].pc = "ioctl" /\ caller'[c].pc = "relock" /\ caller'[c].at = caller[c].at
    BY <1>5, LocIoctlDoes
  <2>2. ThreadInv(c)' /\ Holds(c) /\ caller[c].at \in Slots
    BY <2>1 DEF ThreadInv, Holds, HasLock, Mine, SameCall, SlotInv, SlotExclusive, TypeOK
  <2>3. NotPassed(c)'
    <3>1. Busy => cb.answer \in Known
      BY DEF Known
    <3>2. cb' = cb /\ caller'[c].call = caller[c].call
      BY <2>1 DEF SameCall
    <3>3. ~(Busy /\ cb.answer.caller = c /\ caller[c].call = cb.answer.call)
      BY <2>1, <3>1 DEF CallInv
    <3>4. ~(Busy' /\ cb'.answer.caller = c /\ caller'[c].call = cb'.answer.call)
      BY <3>2, <3>3 DEF Busy
    <3> QED
      BY <3>4 DEF NotPassed, InCall
  <2> QED
    BY <2>1, <2>2, <2>3, OwnStep
<1>6. ASSUME NEW c \in Callers, NEW rc \in {"SUCCESS", "FAILURE", "TIMEOUT"}, Locked(c, rc),
             caller[c].pc \in {"relock", "waiting"}, UNCHANGED cb,
             rc = "SUCCESS" => slot[caller[c].at].signal_sent
      PROVE  SlotInv'
  <2>1. Holds(c) /\ Mine(c).in_use /\ Mine(c).key = caller[c].key
    BY <1>6 DEF Holds, SlotInv, SlotExclusive
  <2>2. ThreadInv(c)' /\ NotPassed(c)'
    BY <1>6, <2>1, LockedDoes, NotInCall DEF ThreadInv, HasLock, Mine, SameCall, SameData
  <2> QED
    BY <1>6, <2>1, <2>2, LockedDoes, OwnStep
<1>7. ASSUME NEW c \in Callers, LockSlot(c) PROVE SlotInv'
  <2>1. CASE UNCHANGED <<slot, cb>> /\ OnlyCaller(c) /\ SameCall(c) /\ caller[c].pc = "relock"
             /\ caller'[c].pc = "waiting" /\ caller'[c].at = caller[c].at
    <3>1. ThreadInv(c)' /\ Holds(c) /\ caller[c].at \in Slots
      BY <2>1 DEF ThreadInv, Holds, HasLock, Mine, SameCall, SlotInv, SlotExclusive, TypeOK
    <3>2. NotPassed(c)
      BY SlotParts
    <3>3. NotPassed(c)'
      BY <2>1, <3>2 DEF NotPassed, InCall, SameCall, Busy, Mine
    <3> QED
      BY <2>1, <3>1, <3>3, OwnStep
  <2> QED
    BY <1>6, <1>7, <2>1, LockSlotDoes
<1>8. ASSUME NEW c \in Callers, Leave(c) PROVE SlotInv'
  <2>1. ThreadInv(c)' /\ NotPassed(c)' /\ ~Holds(c)' /\ Holds(c) /\ slot[caller[c].at].lock = c
    BY <1>8, LeaveDoes, NotInCall DEF ThreadInv, Holds, HasLock, Mine, SlotInv, LockInv
  <2> QED
    BY <1>8, <2>1, LeaveDoes, OwnStep
<1>9. ASSUME NEW r \in requests, Answer(r) PROVE SlotInv'
  <2>1. UNCHANGED <<slot, caller>> /\ cb'.pc = "locking" /\ cb'.at = 0
    BY <1>9, AnswerDoes
  <2>2. \A c \in Callers : caller[c].at \in Nat
    BY DEF TypeOK
  <2>3. \A c \in Callers : NotPassed(c)'
    BY <2>1, <2>2 DEF NotPassed
  <2>4. Apart' /\ \A c \in Callers : ThreadInv(c)'
    BY <2>1, SlotParts DEF Apart, ThreadInv, Holds, HasLock, Mine
  <2> QED
    BY <2>1, <2>3, <2>4, SlotPartsNext
<1>10. CASE LockNext
  <2>1. \A c \in Callers : NotPassed(c)'
    <3>1. UNCHANGED caller /\ Busy /\ cb'.at = cb.at /\ cb'.answer = cb.answer
          /\ \A i \in Slots : slot'[i].signal_sent = slot[i].signal_sent
      BY <1>10, LockNextDoes DEF Busy, OnlySlot, SameData
    <3>2. \A c \in Callers : NotPassed(c) /\ (Holds(c) => caller[c].at \in Slots)
      BY SlotParts DEF TypeOK
    <3> QED
      BY <3>1, <3>2 DEF NotPassed, InCall, Mine, Holds
  <2> QED
    BY <1>10, <2>1, LockNextDoes, RpcInSlot DEF SameData
<1>11. CASE CheckSlot
  <2> DEFINE i == cb.at
  <2>1. /\ i \in Slots /\ UNCHANGED caller /\ OnlySlot(i) /\ Busy /\ cb'.pc # "checking"
        /\ slot'[i].in_use = slot[i].in_use /\ slot'[i].key = slot[i].key
        /\ slot[i].signal_sent => slot'[i].signal_sent
    BY <1>11, CheckSlotDoes DEF Busy, SameData
  <2>2. slot[i].lock = Rpc
    BY <1>11, CheckSlotDoes DEF SlotInv, LockInv
  <2>3. ASSUME NEW c \in Callers PROVE NotPassed(c)'
    <3>1. CASE cb'.pc = "idle"
      BY <3>1 DEF NotPassed, Busy
    <3>2. CASE ~Matches(slot[i]) /\ cb'.at = i + 1 /\ cb'.answer = cb.answer
      <4> SUFFICES ASSUME cb.answer.caller = c, InCall(cb.answer), caller[c].at < i + 1
                   PROVE  slot'[caller[c].at].signal_sent
        BY <2>1, <3>2 DEF NotPassed, InCall, Mine
      <4>1. /\ NotPassed(c) /\ Holds(c) /\ caller[c].at \in Slots
            /\ slot[caller[c].at].in_use /\ slot[caller[c].at].key = caller[c].key
        BY SlotParts DEF InCall, Holds, TypeOK, SlotInv, SlotExclusive, Mine
      <4>2. caller[c].key = cb.answer.key
        BY <2>1 DEF CallInv, Known, InCall
      <4>3. CASE caller[c].at = i
        BY <2>1, <3>2, <4>1, <4>2, <4>3 DEF Matches
      <4>4. CASE caller[c].at # i
        <5>1. caller[c].at < i
          BY <2>1, <4>1, <4>4 DEF Slots
        <5> QED
          BY <2>1, <4>1, <4>4, <5>1 DEF NotPassed, Mine, OnlySlot
      <4> QED
        BY <4>3, <4>4
    <3> QED
      BY <1>11, <3>1, <3>2, CheckSlotDoes
  <2> QED
    BY <2>1, <2>2, <2>3, RpcInSlot
<1>12. CASE SearchEnds
  <2>1. UNCHANGED <<slot, caller>> /\ cb'.pc = "idle"
    BY <1>12, SearchEndsDoes
  <2> QED
    BY <2>1 DEF SlotInv, LockInv, SlotExclusive, NoAnswerDropped, HasLock, Holds, Mine
<1>13. CASE UNCHANGED vars
  BY <1>13 DEF vars, SlotInv, LockInv, SlotExclusive, NoAnswerDropped, InCall, HasLock, Holds, Mine
<1> QED
  BY <1>1, <1>2, <1>3, <1>4, <1>5, <1>6, <1>7, <1>8, <1>9, <1>10, <1>11, <1>12, <1>13
     DEF Next, CallerStep, RpcStep, Signalled, TimesOut, Mine

-----------------------------------------------------------------------------
(***************************************************************************)
(* Where the answers are.                                                  *)
(***************************************************************************)
LEMMA KnownIs ==
  \A r : r \in Known <=> \/ r \in requests \/ r \in returned
                         \/ \E i \in Slots : Taken(i) /\ r = slot[i].payload
                         \/ Busy /\ r = cb.answer
BY DEF Known

LEMMA KnownIsNext ==
  \A r : r \in Known' <=> \/ r \in requests' \/ r \in returned'
                          \/ \E i \in Slots : Taken(i)' /\ r = slot'[i].payload
                          \/ Busy' /\ r = cb'.answer
BY DEF Known

LEMMA KnownRequests ==
  ASSUME TypeOK, AnswerInv
  PROVE  Known \subseteq Request
BY KnownIs DEF TypeOK, AnswerInv, Busy

\* No answer comes into being or moves: slots may be given back.
StayPut ==
  /\ UNCHANGED <<requests, returned>>
  /\ Busy' => Busy /\ cb'.answer = cb.answer
  /\ \A i \in Slots : Taken(i)' => Taken(i) /\ slot'[i].payload = slot[i].payload /\ slot'[i].key = slot[i].key

LEMMA StayPutKeeps ==
  ASSUME AnswerInv, StayPut
  PROVE  AnswerInv' /\ Known' \subseteq Known
<1>1. AnswerInv'
  BY DEF AnswerInv, StayPut
<1>2. Known' \subseteq Known
  BY KnownIs, KnownIsNext DEF StayPut
<1> QED
  BY <1>1, <1>2

\* The call of LocIoctl(c) was not sent before.
LEMMA NewRequest ==
  ASSUME TypeOK, CallInv, NEW c \in Callers, caller[c].pc = "ioctl"
  PROVE  MyRequest(c) \notin Known
BY MyRequestType DEF CallInv

-----------------------------------------------------------------------------
(***************************************************************************)
(* The calls that answers are for.                                         *)
(***************************************************************************)
\* A step of thread c, in which no request is sent.
LEMMA OwnCall ==
  ASSUME TypeOK, AnswerInv, CallInv, NEW c \in Callers, OnlyCaller(c), Known' \subseteq Known,
         calls' \in Nat, calls <= calls', caller'[c].call <= calls',
         \/ caller'[c].call = 0
         \/ caller'[c].call > calls
         \/ SameCall(c) /\ caller[c].pc \in {"scan", "locked"}
         \/ SameCall(c) /\ caller'[c].pc \in {"relock", "waiting", "leaving"}
  PROVE  CallInv'
<1>1. calls \in Nat /\ \A d \in Callers : caller[d].call \in Nat
  BY SyncAssumption DEF TypeOK
<1>2. ASSUME NEW d \in Callers PROVE caller'[d].call <= calls'
  BY <1>1 DEF CallInv, OnlyCaller
<1>3. ASSUME NEW r \in Known', caller'[r.caller].call = r.call
      PROVE  /\ caller'[r.caller].pc \in {"relock", "waiting", "leaving"}
             /\ caller'[r.caller].key = r.key
  <2>1. r \in Known /\ r.caller \in Callers /\ r.call \in Nat /\ r.call # 0 /\ r.call <= calls
    BY KnownRequests, RequestFields, SyncAssumption DEF CallInv
  <2>2. CASE r.caller # c
    BY <1>3, <2>1, <2>2 DEF OnlyCaller, CallInv
  <2>3. CASE r.caller = c
    <3>1. caller'[c].call = r.call /\ caller'[c].call # 0 /\ ~(caller'[c].call > calls)
      BY <1>1, <1>3, <2>1, <2>3
    <3>2. SameCall(c)
      BY <3>1
    <3>3. caller[c].pc \in {"relock", "waiting", "leaving"} /\ caller[c].key = r.key
      BY <2>1, <2>3, <3>1, <3>2 DEF CallInv, SameCall
    <3> QED
      BY <2>3, <3>1, <3>2, <3>3 DEF SameCall
  <2> QED
    BY <2>2, <2>3
<1>4. \A r \in Known' : r.call <= calls'
  BY <1>1, KnownRequests, RequestFields, SyncAssumption DEF CallInv
<1> QED
  BY <1>2, <1>3, <1>4 DEF CallInv

LEMMA NoCall ==
  ASSUME CallInv, UNCHANGED <<caller, calls>>, Known' \subseteq Known
  PROVE  CallInv'
BY DEF CallInv

LEMMA AnswerStep == SyncInv /\ [Next]_vars => AnswerInv' /\ CallInv'
<1> SUFFICES ASSUME SyncInv, [Next]_vars PROVE AnswerInv' /\ CallInv'
  OBVIOUS
<1> USE SyncAssumption
<1>0. /\ TypeOK /\ LockInv /\ SlotExclusive /\ CallInv /\ AnswerInv
      /\ calls \in Nat /\ \A c \in Callers : caller[c].call \in Nat /\ caller[c].call <= calls
  BY DEF SyncInv, TypeOK, CallInv
<1>s. StayPut => AnswerInv' /\ Known' \subseteq Known
  BY <1>0, StayPutKeeps
<1>1. ASSUME NEW c \in Callers, NEW key \in Keys, Call(c, key) PROVE AnswerInv' /\ CallInv'
  <2>1. AnswerInv' /\ Known' \subseteq Known
    BY <1>0, <1>1, <1>s, CallDoes DEF StayPut, Busy, Taken
  <2>2. OnlyCaller(c) /\ calls' = calls + 1 /\ caller'[c].call = calls + 1
    BY <1>0, <1>1, CallDoes
  <2> QED
    BY <1>0, <2>1, <2>2, OwnCall
<1>2. ASSUME NEW c \in Callers, LockASlot(c) PROVE AnswerInv' /\ CallInv'
  <2>1. AnswerInv' /\ Known' \subseteq Known
    BY <1>0, <1>2, <1>s, LockASlotDoes DEF StayPut, Busy, Taken, OnlySlot, SameData
  <2>2. OnlyCaller(c) /\ SameCall(c) /\ calls' = calls /\ caller[c].pc = "scan"
    BY <1>0, <1>2, LockASlotDoes
  <2> QED
    BY <1>0, <2>1, <2>2, OwnCall DEF SameCall
<1>3. ASSUME NEW c \in Callers, NoSlot(c) PROVE AnswerInv' /\ CallInv'
  <2>1. AnswerInv' /\ Known' \subseteq Known
    BY <1>0, <1>3, <1>s, NoSlotDoes DEF StayPut, Busy, Taken
  <2>2. OnlyCaller(c) /\ calls' = calls /\ caller'[c].call = 0
    BY <1>0, <1>3, NoSlotDoes
  <2> QED
    BY <1>0, <2>1, <2>2, OwnCall
<1>4. ASSUME NEW c \in Callers, SaveCallback(c) PROVE AnswerInv' /\ CallInv'
  <2>1. AnswerInv' /\ Known' \subseteq Known
    BY <1>0, <1>4, <1>s, SaveCallbackDoes DEF StayPut, Busy, Taken, OnlySlot
  <2>2. OnlyCaller(c) /\ SameCall(c) /\ calls' = calls /\ caller[c].pc = "locked"
    BY <1>0, <1>4, SaveCallbackDoes
  <2> QED
    BY <1>0, <2>1, <2>2, OwnCall DEF SameCall
<1>5. ASSUME NEW c \in Callers, LocIoctl(c) PROVE AnswerInv' /\ CallInv'
  <2>1. /\ UNCHANGED <<slot, cb, returned, calls>> /\ OnlyCaller(c) /\ SameCall(c)
        /\ requests' = requests \/ requests' = requests \cup {MyRequest(c)}
        /\ MyRequest(c) \notin Known /\ caller'[c].pc = "relock"
    BY <1>0, <1>5, LocIoctlDoes, NewRequest
  <2>2. AnswerInv'
    BY <1>0, <2>1, KnownIs DEF AnswerInv, Taken, Busy
  <2>3. \A r \in Known' : r \in Known \/ r = MyRequest(c)
    BY <2>1, KnownIs, KnownIsNext DEF Taken, Busy
  <2>4. MyRequest(c).caller = c /\ MyRequest(c).call = caller[c].call /\ MyRequest(c).key = caller[c].key
    BY DEF MyRequest
  <2>5. ASSUME NEW r \in Known', r \in Known
        PROVE  /\ r.call <= calls
               /\ caller'[r.caller].call = r.call =>
                    caller'[r.caller].pc \in {"relock", "waiting", "leaving"} /\ caller'[r.caller].key = r.key
    <3>1. r.caller \in Callers
      BY <1>0, <2>5, KnownRequests, RequestFields
    <3>2. CASE r.caller = c
      BY <1>0, <2>1, <2>5, <3>2 DEF CallInv, SameCall
    <3>3. CASE r.caller # c
      BY <1>0, <2>1, <2>5, <3>1, <3>3 DEF CallInv, OnlyCaller
    <3> QED
      BY <3>2, <3>3
  <2>6. \A d \in Callers : caller'[d].call <= calls
    BY <1>0, <2>1 DEF OnlyCaller, SameCall
  <2>7. CallInv'
    BY <1>0, <2>1, <2>3, <2>4, <2>5, <2>6 DEF CallInv, SameCall
  <2> QED
    BY <2>2, <2>7
<1>6. ASSUME NEW c \in Callers, NEW rc \in {"SUCCESS", "FAILURE", "TIMEOUT"}, Locked(c, rc),
             caller[c].pc \in {"relock", "waiting"}, UNCHANGED <<cb, requests, calls, returned>>
      PROVE  AnswerInv' /\ CallInv'
  <2>1. AnswerInv' /\ Known' \subseteq Known
    BY <1>0, <1>6, <1>s, LockedDoes DEF StayPut, Busy, Taken, OnlySlot, SameData
  <2>2. OnlyCaller(c) /\ SameCall(c) /\ calls' = calls /\ caller'[c].pc = "leaving"
    BY <1>0, <1>6, LockedDoes
  <2> QED
    BY <1>0, <2>1, <2>2, OwnCall DEF SameCall
<1>7. ASSUME NEW c \in Callers, LockSlot(c) PROVE AnswerInv' /\ CallInv'
  <2>1. CASE UNCHANGED <<slot, cb, requests, calls, returned>> /\ OnlyCaller(c) /\ SameCall(c)
             /\ caller'[c].pc = "waiting"
    <3>1. AnswerInv' /\ Known' \subseteq Known
      BY <2>1, <1>s DEF StayPut, Busy, Taken
    <3> QED
      BY <1>0, <2>1, <3>1, OwnCall DEF SameCall
  <2> QED
    BY <1>0, <1>6, <1>7, <2>1, LockSlotDoes
<1>8. ASSUME NEW c \in Callers, Leave(c) PROVE AnswerInv' /\ CallInv'
  <2> DEFINE i == caller[c].at
  <2>1. /\ OnlySlot(i) /\ i \in Slots /\ ~slot'[i].in_use /\ UNCHANGED <<cb, requests, calls>>
        /\ OnlyCaller(c) /\ caller'[c].call = 0
    BY <1>0, <1>8, LeaveDoes
  <2>2. \A j \in Slots : Taken(j)' => j # i /\ Taken(j) /\ slot'[j] = slot[j]
    BY <2>1 DEF Taken, OnlySlot
  <2>3. CASE returned' = returned
    BY <1>0, <1>s, <2>1, <2>2, <2>3, OwnCall DEF StayPut, Busy
  <2>4. CASE Taken(i) /\ returned' = returned \cup {slot[i].payload}
    <3>1. AnswerInv'
      BY <1>0, <2>1, <2>2, <2>4 DEF AnswerInv, Busy
    <3>2. Known' \subseteq Known
      BY <2>1, <2>2, <2>4, KnownIs, KnownIsNext DEF Busy
    <3> QED
      BY <1>0, <2>1, <3>1, <3>2, OwnCall
  <2> QED
    BY <1>0, <1>8, <2>3, <2>4, LeaveDoes, Returned
<1>9. ASSUME NEW r \in requests, Answer(r) PROVE AnswerInv' /\ CallInv'
  <2>1. UNCHANGED <<slot, caller, calls, returned>> /\ ~Busy /\ cb'.answer = r /\ requests' = requests \ {r}
    BY <1>0, <1>9, AnswerDoes DEF Busy
  <2>2. AnswerInv'
    BY <1>0, <2>1 DEF AnswerInv, Taken
  <2>3. Known' \subseteq Known
    BY <2>1, KnownIs, KnownIsNext DEF Taken
  <2> QED
    BY <1>0, <2>1, <2>2, <2>3, NoCall
<1>10. CASE LockNext
  <2>1. StayPut /\ UNCHANGED <<caller, calls>>
    BY <1>0, <1>10, LockNextDoes DEF StayPut, Busy, Taken, OnlySlot, SameData
  <2> QED
    BY <1>0, <1>s, <2>1, NoCall
<1>11. CASE CheckSlot
  <2> DEFINE i == cb.at
  <2>1. /\ OnlySlot(i) /\ i \in Slots /\ UNCHANGED <<caller, calls, requests, returned>> /\ Busy
        /\ slot'[i].in_use = slot[i].in_use /\ slot'[i].key = slot[i].key
    BY <1>0, <1>11, CheckSlotDoes DEF Busy
  <2>2. CASE SameData(i) /\ cb'.answer = cb.answer
    <3>1. StayPut
      BY <2>1, <2>2 DEF StayPut, Taken, OnlySlot, SameData
    <3> QED
      BY <1>0, <1>s, <2>1, <3>1, NoCall
  <2>3. CASE Matches(slot[i]) /\ slot'[i].payload = cb.answer /\ cb'.pc = "idle"
    <3>1. ~Busy' /\ cb.answer \in Request \ (requests \cup returned) /\ slot'[i].key = cb.answer.key
      BY <1>0, <2>1, <2>3 DEF Busy, AnswerInv, TypeOK, Matches
    <3>2. \A j \in Slots : Taken(j)' => j = i \/ (Taken(j) /\ slot'[j] = slot[j] /\ slot[j].payload # cb.answer)
      BY <1>0, <2>1 DEF OnlySlot, Taken, AnswerInv
    <3>3. ASSUME NEW j \in Slots, Taken(j)'
          PROVE  /\ slot'[j].payload \in Request \ (requests \cup returned)
                 /\ slot'[j].payload.key = slot'[j].key
                 /\ \A k \in Slots \ {j} : Taken(k)' => slot'[k].payload # slot'[j].payload
      <4>1. CASE j = i
        BY <2>3, <3>1, <3>2, <4>1
      <4>2. CASE j # i
        BY <1>0, <2>3, <3>2, <3>3, <4>2 DEF AnswerInv
      <4> QED
        BY <4>1, <4>2
    <3>4. AnswerInv'
      BY <1>0, <2>1, <3>1, <3>3 DEF AnswerInv
    <3>5. ASSUME NEW r \in Known' PROVE r \in Known
      <4>1. CASE r \in requests \/ r \in returned
        BY <4>1, KnownIs
      <4>2. CASE \E j \in Slots : Taken(j)' /\ r = slot'[j].payload
        <5>1. PICK j \in Slots : Taken(j)' /\ r = slot'[j].payload
          BY <4>2
        <5>2. CASE j = i
          BY <2>1, <2>3, <5>1, <5>2, KnownIs
        <5>3. CASE j # i
          BY <3>2, <5>1, <5>3, KnownIs
        <5> QED
          BY <5>2, <5>3
      <4> QED
        BY <2>1, <3>1, <3>5, <4>1, <4>2, KnownIsNext
    <3> QED
      BY <1>0, <2>1, <3>4, <3>5, NoCall
  <2> QED
    BY <1>0, <1>11, <2>2, <2>3, CheckSlotDoes
<1>12. CASE SearchEnds
  <2>1. StayPut /\ UNCHANGED <<caller, calls>>
    BY <1>0, <1>12, SearchEndsDoes DEF StayPut, Busy, Taken
  <2> QED
    BY <1>0, <1>s, <2>1, NoCall
<1>13. CASE UNCHANGED vars
  BY <1>0, <1>13, <1>s, NoCall DEF vars, StayPut, Busy, Taken
<1> QED
  BY <1>1, <1>2, <1>3, <1>4, <1>5, <1>6, <1>7, <1>8, <1>9, <1>10, <1>11, <1>12, <1>13
     DEF Next, CallerStep, RpcStep, Signalled, TimesOut

-----------------------------------------------------------------------------
(***************************************************************************)
(* The theorems.                                                           *)
(***************************************************************************)
LEMMA InitInv == Init => SyncInv
<1> SUFFICES ASSUME Init PROVE SyncInv
  OBVIOUS
<1> USE SyncAssumption
<1>1. TypeOK
  BY DEF Init, TypeOK, Idle, CbIdle, Holds, Slots
<1>2. /\ \A c \in Callers : caller[c].pc = "idle" /\ caller[c].call = 0
      /\ cb.pc = "idle" /\ \A i \in Slots : ~slot[i].in_use
  BY DEF Init, Idle, CbIdle
<1>3. LockInv /\ SlotExclusive /\ NoAnswerDropped
  BY <1>2 DEF LockInv, SlotExclusive, NoAnswerDropped, HasLock, Holds
<1>4. Known = {}
  BY <1>2, KnownIs DEF Init, Taken, Busy
<1>5. CallInv /\ AnswerInv
  BY <1>2, <1>4 DEF Init, CallInv, AnswerInv, Taken, Busy
<1> QED
  BY <1>1, <1>3, <1>5 DEF SyncInv

LEMMA InvStep == SyncInv /\ [Next]_vars => SyncInv'
BY TypeStep, SlotStep, AnswerStep DEF SyncInv, SlotInv

\* SyncInv is an invariant: what the theorems below rest on.
THEOREM Invariant == Spec => []SyncInv
<1>1. Init => SyncInv
  BY InitInv
<1>2. SyncInv /\ [Next]_vars => SyncInv'
  BY InvStep
<1> QED
  BY <1>1, <1>2, PTL DEF Spec

\* Every variable of the synchronous calls keeps its type.
THEOREM TypeCorrect == Spec => []TypeOK
<1>1. SyncInv => TypeOK
  BY DEF SyncInv
<1> QED
  BY <1>1, Invariant, PTL

\* A slot found free under its lock belongs to one call until it is given back
\* (loc_lock_a_slot() to loc_clear_slot()), for any number of threads and slots.
THEOREM SlotsExclusive == Spec => []SlotExclusive
<1>1. SyncInv => SlotExclusive
  BY DEF SyncInv
<1> QED
  BY <1>1, Invariant, PTL

LEMMA AnsweredOnce == SyncInv => AnswerOnce
<1> SUFFICES ASSUME TypeOK, LockInv, SlotExclusive, AnswerInv,
                    NEW c \in Callers, caller[c].pc = "leaving", caller[c].rc = "SUCCESS"
             PROVE  /\ Mine(c).payload \in Request \ returned
                    /\ Mine(c).payload.key = caller[c].key
                    /\ \A i \in Slots \ {caller[c].at} : Taken(i) => slot[i].payload # Mine(c).payload
  BY DEF SyncInv, AnswerOnce
<1>1. caller[c].at \in Slots /\ Taken(caller[c].at)
  BY Returned
<1>2. Mine(c).key = caller[c].key
  BY DEF SlotExclusive, Holds
<1> QED
  BY <1>1, <1>2 DEF AnswerInv, Mine

\* A call returns an answer to a request of its client and kind, which no other
\* call has returned or will return (loc_api_callback_process_sync_call()).
THEOREM AnswersOnce == Spec => []AnswerOnce
BY Invariant, AnsweredOnce, PTL

\* The search for the slot of an answer passes over no call that waits for it,
\* whatever happens to the slots meanwhile.
THEOREM NoneDropped == Spec => []NoAnswerDropped
<1>1. SyncInv => NoAnswerDropped
  BY DEF SyncInv
<1> QED
  BY <1>1, Invariant, PTL
=============================================================================
