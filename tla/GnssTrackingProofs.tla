------------------------- MODULE GnssTrackingProofs -------------------------
(***************************************************************************)
(* Proofs about GnssTracking, for any clients, sessions and options.       *)
(***************************************************************************)
EXTENDS GnssTracking, TLAPS, WellFoundedInduction

-----------------------------------------------------------------------------
(***************************************************************************)
(* Messages and the queue.                                                 *)
(***************************************************************************)
LEMMA MsgFields ==
  ASSUME NEW m \in Msg
  PROVE  /\ m.type \in {"start", "update"} => m.session \in Sessions /\ m.options \in Options \cup {NULL}
         /\ m.type = "stop" => m.session \in Sessions
         /\ m.type \in {"addClient", "removeClient"} => m.client \in Clients
         /\ m.type = "addClient" => m.cbs \in SUBSET Callbacks
         /\ m.type = "open" => m.mask \in SUBSET Callbacks
BY DEF Msg

LEMMA MsgsMade ==
  /\ \A c \in Clients, cbs \in SUBSET Callbacks : [type |-> "addClient", client |-> c, cbs |-> cbs] \in Msg
  /\ \A c \in Clients : [type |-> "removeClient", client |-> c] \in Msg
  /\ \A s \in Sessions, o \in Options \cup {NULL} :
       /\ [type |-> "start", session |-> s, options |-> o] \in Msg
       /\ [type |-> "update", session |-> s, options |-> o] \in Msg
  /\ \A s \in Sessions : [type |-> "stop", session |-> s] \in Msg
  /\ \A mask \in SUBSET Callbacks : [type |-> "open", mask |-> mask] \in Msg
  /\ [type |-> "ssr"] \in Msg /\ [type |-> "restart"] \in Msg
BY DEF Msg

LEMMA HeadTail ==
  ASSUME NEW S, NEW q \in Seq(S), q # <<>>
  PROVE  /\ Head(q) \in S /\ Head(q) = q[1]
         /\ Tail(q) \in Seq(S) /\ Len(Tail(q)) = Len(q) - 1
         /\ \A i \in 1..(Len(q) - 1) : Tail(q)[i] = q[i + 1]
         /\ Len(q) \in Nat /\ Len(q) >= 1 /\ 1 \in DOMAIN q
OBVIOUS

LEMMA Appended ==
  ASSUME NEW S, NEW q \in Seq(S), NEW m \in S
  PROVE  /\ Append(q, m) \in Seq(S) /\ Len(Append(q, m)) = Len(q) + 1
         /\ \A i \in 1..Len(q) : Append(q, m)[i] = q[i]
         /\ Append(q, m)[Len(q) + 1] = m
OBVIOUS

LEMMA EventMaskType ==
  ASSUME NEW data \in [Clients -> (SUBSET Callbacks) \cup {NULL}]
  PROVE  EventMask(data) \in SUBSET Callbacks
BY DEF EventMask

-----------------------------------------------------------------------------
(***************************************************************************)
(* TypeOK without the history variable dropped, which only the property    *)
(* about destroyed instances reads, and which is proved apart.             *)
(***************************************************************************)
Types ==
  /\ clientData \in [Clients -> CallbackSets \cup {NULL}]
  /\ mClientData \in [Clients -> (SUBSET Callbacks) \cup {NULL}]
  /\ mTrackingSessions \in [Sessions -> Options \cup {NULL}]
  /\ mEvtMask \in SUBSET Callbacks
  /\ msgs \in Seq(Msg)
  /\ engine \in [up : BOOLEAN, fix : Options \cup {NULL}, mask : SUBSET Callbacks]
  /\ fix \in {"kept", "lost", "abandoned"}
  /\ stopFailed \subseteq Active
  /\ removing \in Removal \cup {NULL}

DroppedType == dropped \subseteq Clients

LEMMA DroppedKept ==
  ASSUME dropped \subseteq Clients, [Next]_vars
  PROVE  dropped' \subseteq Clients
<1>1. ASSUME NEW c \in Clients, NEW cbs \in MayRegister[c], CreateInstance(c, cbs) \/ UpdateCallbacks(c, cbs)
      PROVE  dropped' \subseteq Clients
  BY <1>1 DEF CreateInstance, UpdateCallbacks
<1>2. CASE Call
  BY <1>1, <1>2 DEF Call, Destroy, StartTracking, UpdateTrackingOptions, StopTracking
<1>3. ASSUME NEW s \in Sessions, StopClientSession(s) PROVE dropped' = dropped
  BY <1>3 DEF StopClientSession
<1>4. CASE Proc
  BY <1>3, <1>4 DEF Proc, AddClient, RemoveClient, EraseClient, ProcStart, ProcUpdate, ProcStop, ProcOpen,
     ProcSsr, RestartSessions
<1>5. CASE EngineDown \/ EngineUp \/ UNCHANGED vars
  BY <1>5 DEF EngineDown, EngineUp, vars
<1> QED
  BY <1>2, <1>4, <1>5 DEF Next

\* Callbacks a client may register are registered ones.
LEMMA MayRegisterIs ==
  ASSUME NEW c \in Clients, NEW cbs \in MayRegister[c]
  PROVE  cbs \in CallbackSets
BY TrackingAssumption

-----------------------------------------------------------------------------
(***************************************************************************)
(* The session with the smallest interval.                                 *)
(***************************************************************************)
LEMMA LeastNat ==
  ASSUME NEW T \in SUBSET Nat, T # {}
  PROVE  \E n \in T : \A k \in T : n <= k
<1> DEFINE R == OpToRel(<, Nat)
<1>1. IsWellFoundedOn(R, Nat)
  BY NatLessThanWellFounded, Zenon
<1>2. \A x, y \in Nat : x < y => <<x, y>> \in R
  BY SMT DEF OpToRel
<1> HIDE DEF R
<1>3. PICK n \in T : \A k \in T : ~(<<k, n>> \in R)
  BY <1>1, WFMin
<1>4. \A k \in T : n <= k
  <2> SUFFICES ASSUME NEW k \in T PROVE ~(k < n)
    BY SMT
  <2> QED
    BY <1>2, <1>3
<1> QED
  BY <1>3, <1>4

Interval(s) == mTrackingSessions[s].minInterval

LEMMA SmallestIs ==
  ASSUME Types, NEW S \in SUBSET Active, S # {}
  PROVE  Smallest(S) \in S /\ \A r \in S : Interval(Smallest(S)) <= Interval(r)
<1>1. \A s \in Active : Interval(s) \in Nat
  BY TrackingAssumption DEF Active, Interval, Types, Options
<1> DEFINE T == {Interval(s) : s \in S}
<1>2. PICK n \in T : \A k \in T : n <= k
  <2>1. T \in SUBSET Nat /\ T # {}
    BY <1>1
  <2> QED
    BY <2>1, LeastNat
<1>3. PICK s \in S : n = Interval(s)
  BY <1>2
<1>4. \A r \in S : Interval(s) <= Interval(r)
  BY <1>2, <1>3
<1> QED
  BY <1>3, <1>4 DEF Smallest, Interval

LEMMA ActiveOptions ==
  ASSUME Types, NEW s \in Active
  PROVE  mTrackingSessions[s] \in Options /\ Interval(s) \in Nat /\ s \in Sessions
BY TrackingAssumption DEF Active, Interval, Types, Options

-----------------------------------------------------------------------------
(***************************************************************************)
(* The fix the engine runs serves the sessions ts: the engine is off       *)
(* without one, and otherwise runs at the interval of one that has no      *)
(* faster one beside it.  (The property EngineServesSessions without its   *)
(* choice of a session.)                                                   *)
(***************************************************************************)
ActiveIn(ts) == {s \in Sessions : ts[s] # NULL}

Serving(run, ts) ==
  /\ ActiveIn(ts) = {} <=> run = NULL
  /\ ActiveIn(ts) # {} => /\ \E s \in ActiveIn(ts) : run.minInterval = ts[s].minInterval
                          /\ \A r \in ActiveIn(ts) : run.minInterval <= ts[r].minInterval

ServesInv == fix = "kept" => Serving(engine.fix, mTrackingSessions)
FixInv    == fix # "kept" => engine.fix = NULL

EngineOK ==
  /\ engine \in [up : BOOLEAN, fix : Options \cup {NULL}, mask : SUBSET Callbacks]
  /\ fix \in {"kept", "lost", "abandoned"}

\* What a command leaves to the sessions ts.
Commanded(ok, ts) ==
  /\ ok \in BOOLEAN /\ (ok \/ (engine' = engine /\ fix' = fix))
  /\ EngineOK' /\ FixInv'
  /\ engine'.up = engine.up /\ engine'.mask = engine.mask
  /\ fix' = "kept" => Serving(engine.fix', ts)

LEMMA RunFixIs ==
  ASSUME Types, NEW o \in Options \cup {NULL}, NEW ok, RunFix(o, ok)
  PROVE  /\ ok \in BOOLEAN /\ EngineOK'
         /\ ok => engine.fix' = o /\ fix' = "kept"
         /\ ~ok => engine' = engine /\ fix' = fix
         /\ engine'.up = engine.up /\ engine'.mask = engine.mask
BY DEF RunFix, Types, EngineOK

LEMMA RunFixCommands ==
  ASSUME Types, ServesInv, FixInv, NEW o \in Options \cup {NULL}, NEW ok, RunFix(o, ok),
         NEW ts, ok => Serving(o, ts)
  PROVE  Commanded(ok, IF ok THEN ts ELSE mTrackingSessions)
<1>1. CASE ok
  BY <1>1, RunFixIs DEF Commanded, FixInv
<1>2. CASE ~ok
  BY <1>2, RunFixIs DEF Commanded, FixInv, ServesInv
<1> QED
  BY <1>1, <1>2, RunFixIs

LEMMA LeaveFixCommands ==
  ASSUME Types, FixInv, NEW ok, LeaveFix(ok),
         NEW ts, fix = "kept" => Serving(engine.fix, ts)
  PROVE  Commanded(ok, IF ok THEN ts ELSE mTrackingSessions)
BY DEF LeaveFix, Commanded, Types, EngineOK, FixInv

-----------------------------------------------------------------------------
(***************************************************************************)
(* Multiplexing.                                                           *)
(***************************************************************************)
LEMMA IntervalOfOptions ==
  ASSUME NEW o \in Options
  PROVE  o # NULL /\ o.minInterval \in Nat
BY TrackingAssumption DEF Options

LEMMA StartCommands ==
  ASSUME Types, ServesInv, FixInv, NEW s \in Sessions, mTrackingSessions[s] = NULL,
         NEW o \in Options, NEW ok, StartMultiplex(o, ok)
  PROVE  Commanded(ok, IF ok THEN [mTrackingSessions EXCEPT ![s] = o] ELSE mTrackingSessions)
<1> DEFINE ts == [mTrackingSessions EXCEPT ![s] = o]
<1>1. ActiveIn(ts) = Active \cup {s} /\ s \notin Active /\ ts[s] = o
      /\ \A r \in Active : ts[r] = mTrackingSessions[r]
  BY IntervalOfOptions DEF ActiveIn, Active, Types
<1>2. ActiveIn(mTrackingSessions) = Active
  BY DEF ActiveIn, Active
<1>3. \A r \in Active : mTrackingSessions[r].minInterval \in Nat
  BY ActiveOptions DEF Interval
<1>4. o # NULL /\ o.minInterval \in Nat
  BY IntervalOfOptions
<1> HIDE DEF ts
<1>5. CASE Active = {}
  <2>1. Serving(o, ts)
    BY <1>1, <1>4, <1>5 DEF Serving
  <2>2. RunFix(o, ok)
    BY <1>5 DEF StartMultiplex, StartFix
  <2> QED
    BY <2>1, <2>2, RunFixCommands DEF ts
<1>6. CASE Active # {}
  <2> DEFINE k == Smallest(Active)
  <2>1. k \in Active /\ \A r \in Active : mTrackingSessions[k].minInterval <= mTrackingSessions[r].minInterval
    BY <1>6, SmallestIs DEF Interval
  <2> HIDE DEF k
  <2>2. CASE o.minInterval < mTrackingSessions[k].minInterval
    <3>1. Serving(o, ts)
      <4>1. \A r \in ActiveIn(ts) : o.minInterval <= ts[r].minInterval
        BY <1>1, <1>3, <1>4, <2>1, <2>2
      <4> QED
        BY <4>1, <1>1, <1>4 DEF Serving
    <3>2. RunFix(o, ok)
      BY <1>6, <2>2 DEF StartMultiplex, StartFix, k
    <3> QED
      BY <3>1, <3>2, RunFixCommands DEF ts
  <2>3. CASE ~(o.minInterval < mTrackingSessions[k].minInterval)
    <3>1. fix = "kept" => Serving(engine.fix, ts)
      <4> SUFFICES ASSUME fix = "kept" PROVE Serving(engine.fix, ts)
        OBVIOUS
      <4>1. Serving(engine.fix, mTrackingSessions)
        BY DEF ServesInv
      <4>2. engine.fix # NULL
        BY <4>1, <1>2, <1>6 DEF Serving
      <4>3. PICK r \in Active : engine.fix.minInterval = mTrackingSessions[r].minInterval
        BY <4>1, <1>2, <1>6 DEF Serving
      <4>4. \A q \in Active : engine.fix.minInterval <= mTrackingSessions[q].minInterval
        BY <4>1, <1>2, <1>6 DEF Serving
      <4>5. engine.fix.minInterval <= o.minInterval
        BY <4>3, <4>4, <1>3, <1>4, <2>1, <2>3
      <4> QED
        BY <4>2, <4>3, <4>4, <4>5, <1>1 DEF Serving
    <3>2. LeaveFix(ok)
      BY <1>6, <2>3 DEF StartMultiplex, k
    <3> QED
      BY <3>1, <3>2, LeaveFixCommands DEF ts
  <2> QED
    BY <2>2, <2>3
<1> QED
  BY <1>5, <1>6

\* The other sessions, and the fastest of them.
LEMMA OtherSessions ==
  ASSUME Types, NEW s \in Active, Active # {s}
  PROVE  LET other == Smallest(Active \ {s}) IN
         /\ other \in Active /\ other # s
         /\ mTrackingSessions[other] \in Options
         /\ \A r \in Active \ {s} : mTrackingSessions[other].minInterval <= mTrackingSessions[r].minInterval
<1>1. Active \ {s} # {} /\ Active \ {s} \in SUBSET Active
  OBVIOUS
<1> QED
  BY <1>1, SmallestIs, ActiveOptions DEF Interval

LEMMA ActiveFacts ==
  ASSUME Types
  PROVE  /\ ActiveIn(mTrackingSessions) = Active
         /\ \A r \in Active : r \in Sessions /\ mTrackingSessions[r] \in Options
                              /\ mTrackingSessions[r].minInterval \in Nat
<1>1. ActiveIn(mTrackingSessions) = Active
  BY DEF ActiveIn, Active
<1>2. \A r \in Active : r \in Sessions /\ mTrackingSessions[r] \in Options /\ Interval(r) \in Nat
  BY ActiveOptions
<1> QED
  BY <1>1, <1>2 DEF Interval

\* What the engine's fix is while it has not been lost.
LEMMA KeptFix ==
  ASSUME Types, ServesInv, fix = "kept", Active # {}
  PROVE  /\ engine.fix # NULL
         /\ \E r \in Active : engine.fix.minInterval = mTrackingSessions[r].minInterval
         /\ \A r \in Active : engine.fix.minInterval <= mTrackingSessions[r].minInterval
BY ActiveFacts DEF ServesInv, Serving

LEMMA UpdateCommands ==
  ASSUME Types, ServesInv, FixInv, NEW s \in Active,
         NEW o \in Options, NEW ok, UpdateMultiplex(s, o, ok)
  PROVE  Commanded(ok, IF ok THEN [mTrackingSessions EXCEPT ![s] = o] ELSE mTrackingSessions)
<1> DEFINE ts == [mTrackingSessions EXCEPT ![s] = o]
<1>1. ActiveIn(ts) = Active /\ ts[s] = o
      /\ \A r \in Active \ {s} : ts[r] = mTrackingSessions[r]
  BY IntervalOfOptions DEF ActiveIn, Active, Types
<1>2. /\ \A r \in Active : mTrackingSessions[r] \in Options /\ mTrackingSessions[r].minInterval \in Nat
      /\ ActiveIn(mTrackingSessions) = Active
  BY ActiveFacts
<1>3. o # NULL /\ o.minInterval \in Nat
  BY IntervalOfOptions
<1> HIDE DEF ts
<1>4. CASE Active = {s}
  <2>1. Serving(o, ts)
    BY <1>1, <1>3, <1>4 DEF Serving
  <2>2. RunFix(o, ok)
    BY <1>4 DEF UpdateMultiplex, StartFix
  <2> QED
    BY <2>1, <2>2, RunFixCommands DEF ts
<1>5. CASE Active # {s}
  <2> DEFINE k == Smallest(Active \ {s})
  <2>1. /\ k \in Active /\ k # s /\ mTrackingSessions[k] \in Options
        /\ \A r \in Active \ {s} : mTrackingSessions[k].minInterval <= mTrackingSessions[r].minInterval
    BY <1>5, OtherSessions
  <2> HIDE DEF k
  <2> DEFINE other == mTrackingSessions[k]
  <2>2. CASE o.minInterval < other.minInterval
    <3>1. \A r \in Active : o.minInterval <= ts[r].minInterval
      BY <1>1, <1>2, <1>3, <2>1, <2>2
    <3>2. Serving(o, ts)
      BY <3>1, <1>1, <1>3 DEF Serving
    <3>3. RunFix(o, ok)
      BY <1>5, <2>2 DEF UpdateMultiplex, StartFix, k
    <3> QED
      BY <3>2, <3>3, RunFixCommands DEF ts
  <2>3. CASE ~(o.minInterval < other.minInterval) /\ mTrackingSessions[s].minInterval < other.minInterval
    <3>1. \A r \in Active : other.minInterval <= ts[r].minInterval
      BY <1>1, <1>2, <1>3, <2>1, <2>3
    <3>2. other # NULL /\ other.minInterval = ts[k].minInterval
      BY <1>1, <2>1, IntervalOfOptions
    <3>3. Serving(other, ts)
      BY <3>1, <3>2, <1>1, <2>1 DEF Serving
    <3>4. RunFix(other, ok)
      BY <1>5, <2>3 DEF UpdateMultiplex, StartFix, k
    <3> QED
      BY <3>3, <3>4, <2>1, RunFixCommands DEF ts
  <2>4. CASE ~(o.minInterval < other.minInterval) /\ ~(mTrackingSessions[s].minInterval < other.minInterval)
    <3>1. fix = "kept" => Serving(engine.fix, ts)
      <4> SUFFICES ASSUME fix = "kept" PROVE Serving(engine.fix, ts)
        OBVIOUS
      <4>1. /\ engine.fix # NULL
            /\ \E r \in Active : engine.fix.minInterval = mTrackingSessions[r].minInterval
            /\ \A r \in Active : engine.fix.minInterval <= mTrackingSessions[r].minInterval
        BY KeptFix
      <4>2. PICK r \in Active : engine.fix.minInterval = mTrackingSessions[r].minInterval
        BY <4>1
      <4>3. engine.fix.minInterval = other.minInterval
        BY <4>1, <4>2, <1>2, <2>1, <2>4
      <4>4. \A q \in Active : engine.fix.minInterval <= ts[q].minInterval
        BY <4>1, <4>3, <1>1, <1>2, <1>3, <2>1, <2>4
      <4>5. engine.fix.minInterval = ts[k].minInterval
        BY <4>3, <1>1, <2>1
      <4> QED
        BY <4>1, <4>4, <4>5, <1>1, <2>1 DEF Serving
    <3>2. LeaveFix(ok)
      BY <1>5, <2>4 DEF UpdateMultiplex, k
    <3> QED
      BY <3>1, <3>2, LeaveFixCommands DEF ts
  <2> QED
    BY <2>2, <2>3, <2>4
<1> QED
  BY <1>4, <1>5

LEMMA StopCommands ==
  ASSUME Types, ServesInv, FixInv, NEW s \in Active, NEW ok, StopMultiplex(s, ok)
  PROVE  Commanded(ok, IF ok THEN [mTrackingSessions EXCEPT ![s] = NULL] ELSE mTrackingSessions)
<1> DEFINE ts == [mTrackingSessions EXCEPT ![s] = NULL]
<1>1. ActiveIn(ts) = Active \ {s} /\ \A r \in Active \ {s} : ts[r] = mTrackingSessions[r]
  BY DEF ActiveIn, Active, Types
<1>2. \A r \in Active : mTrackingSessions[r] \in Options /\ mTrackingSessions[r].minInterval \in Nat
  BY ActiveFacts
<1> HIDE DEF ts
<1>3. CASE Active = {s}
  <2>1. Serving(NULL, ts)
    BY <1>1, <1>3 DEF Serving
  <2>2. RunFix(NULL, ok)
    BY <1>3 DEF StopMultiplex, StopFix
  <2> QED
    BY <2>1, <2>2, RunFixCommands DEF ts
<1>4. CASE Active # {s}
  <2> DEFINE k == Smallest(Active \ {s})
  <2>1. /\ k \in Active /\ k # s /\ mTrackingSessions[k] \in Options
        /\ \A r \in Active \ {s} : mTrackingSessions[k].minInterval <= mTrackingSessions[r].minInterval
    BY <1>4, OtherSessions
  <2> HIDE DEF k
  <2> DEFINE other == mTrackingSessions[k]
  <2>2. CASE mTrackingSessions[s].minInterval < other.minInterval
    <3>1. other # NULL /\ other.minInterval = ts[k].minInterval
      BY <1>1, <2>1, IntervalOfOptions
    <3>2. Serving(other, ts)
      BY <3>1, <1>1, <2>1 DEF Serving
    <3>3. RunFix(other, ok)
      BY <1>4, <2>2 DEF StopMultiplex, StartFix, k
    <3> QED
      BY <3>2, <3>3, <2>1, RunFixCommands DEF ts
  <2>3. CASE ~(mTrackingSessions[s].minInterval < other.minInterval)
    <3>1. fix = "kept" => Serving(engine.fix, ts)
      <4> SUFFICES ASSUME fix = "kept" PROVE Serving(engine.fix, ts)
        OBVIOUS
      <4>1. /\ engine.fix # NULL
            /\ \E r \in Active : engine.fix.minInterval = mTrackingSessions[r].minInterval
            /\ \A r \in Active : engine.fix.minInterval <= mTrackingSessions[r].minInterval
        BY KeptFix
      <4>2. PICK r \in Active : engine.fix.minInterval = mTrackingSessions[r].minInterval
        BY <4>1
      <4>3. engine.fix.minInterval = other.minInterval
        BY <4>1, <4>2, <1>2, <2>1, <2>3
      <4>4. \A q \in Active \ {s} : engine.fix.minInterval <= ts[q].minInterval
        BY <4>1, <1>1
      <4>5. engine.fix.minInterval = ts[k].minInterval
        BY <4>3, <1>1, <2>1
      <4> QED
        BY <4>1, <4>4, <4>5, <1>1, <2>1 DEF Serving
    <3>2. LeaveFix(ok)
      BY <1>4, <2>3 DEF StopMultiplex, k
    <3> QED
      BY <3>1, <3>2, LeaveFixCommands DEF ts
  <2> QED
    BY <2>2, <2>3
<1> QED
  BY <1>3, <1>4

-----------------------------------------------------------------------------
(***************************************************************************)
(* A queued start is of a session that is not tracked, and there is no     *)
(* other one for it: handling it never overwrites a session the            *)
(* multiplexing has counted.                                               *)
(***************************************************************************)
Fresh(q, ts) ==
  \A i \in 1..Len(q) : q[i].type = "start" =>
    /\ ts[q[i].session] = NULL
    /\ \A j \in 1..Len(q) : q[j].type = "start" /\ q[j].session = q[i].session => j = i

LEMMA FreshTail ==
  ASSUME NEW q \in Seq(Msg), q # <<>>, NEW ts, NEW ts2, Fresh(q, ts),
         \A s \in Sessions : ts[s] = NULL /\ ~(q[1].type = "start" /\ q[1].session = s) => ts2[s] = NULL
  PROVE  Fresh(Tail(q), ts2)
<1>1. /\ Len(Tail(q)) = Len(q) - 1 /\ Len(q) \in Nat /\ Len(q) >= 1
      /\ \A i \in 1..(Len(q) - 1) : Tail(q)[i] = q[i + 1]
  BY HeadTail
<1> SUFFICES ASSUME NEW i \in 1..Len(Tail(q)), Tail(q)[i].type = "start"
             PROVE  /\ ts2[Tail(q)[i].session] = NULL
                    /\ \A j \in 1..Len(Tail(q)) :
                         Tail(q)[j].type = "start" /\ Tail(q)[j].session = Tail(q)[i].session => j = i
  BY DEF Fresh
<1>2. i + 1 \in 1..Len(q) /\ Tail(q)[i] = q[i + 1] /\ i + 1 # 1 /\ 1 \in 1..Len(q)
  BY <1>1
<1>3. q[i + 1] \in Msg
  BY <1>2
<1>4. q[i + 1].session \in Sessions
  BY <1>2, <1>3, MsgFields
<1>5. ts[q[i + 1].session] = NULL /\ ~(q[1].type = "start" /\ q[1].session = q[i + 1].session)
  BY <1>2 DEF Fresh
<1>6. ASSUME NEW j \in 1..Len(Tail(q)), Tail(q)[j].type = "start", Tail(q)[j].session = Tail(q)[i].session
      PROVE  j = i
  <2>1. j + 1 \in 1..Len(q) /\ Tail(q)[j] = q[j + 1] /\ j \in Int /\ i \in Int
    BY <1>1
  <2>2. j + 1 = i + 1
    BY <2>1, <1>2, <1>6 DEF Fresh
  <2> QED
    BY <2>1, <2>2
<1> QED
  BY <1>2, <1>4, <1>5, <1>6

LEMMA FreshAppend ==
  ASSUME NEW q \in Seq(Msg), NEW ts, Fresh(q, ts), NEW m \in Msg,
         m.type = "start" =>
           /\ ts[m.session] = NULL
           /\ \A i \in 1..Len(q) : ~(q[i].type = "start" /\ q[i].session = m.session)
  PROVE  Fresh(Append(q, m), ts)
<1> DEFINE p == Append(q, m)
<1>1. /\ Len(p) = Len(q) + 1 /\ Len(q) \in Nat /\ p[Len(q) + 1] = m
      /\ \A i \in 1..Len(q) : p[i] = q[i]
  BY Appended
<1> HIDE DEF p
<1>2. \A i \in 1..Len(p) : i \in 1..Len(q) \/ i = Len(q) + 1
  BY <1>1
<1> QED
  BY <1>1, <1>2 DEF Fresh, p

(***************************************************************************)
(* The removal of a client: its message is still the first of the queue,   *)
(* and its sessions are still to be stopped or could not be stopped.       *)
(***************************************************************************)
RemovalInv ==
  removing # NULL =>
    /\ msgs # <<>> /\ msgs[1].type = "removeClient" /\ msgs[1].client = removing.client
    /\ removing.todo \subseteq SessionsOf(removing.client)
    /\ SessionsOf(removing.client) \subseteq removing.todo \cup stopFailed

\* The inductive invariant of sessions and engine.
IInv == Types /\ Fresh(msgs, mTrackingSessions) /\ ServesInv /\ FixInv /\ RemovalInv /\ NoOrphanSession

LEMMA InitIInv ==
  Init => IInv
<1> SUFFICES ASSUME Init PROVE IInv
  OBVIOUS
<1>1. Active = {} /\ ActiveIn(mTrackingSessions) = {}
  BY DEF Init, Active, ActiveIn
<1>2. Types
  BY <1>1 DEF Init, Types
<1>3. Fresh(msgs, mTrackingSessions)
  BY DEF Init, Fresh
<1>4. ServesInv /\ FixInv
  BY <1>1 DEF Init, ServesInv, FixInv, Serving
<1>5. RemovalInv /\ NoOrphanSession
  BY <1>1 DEF Init, RemovalInv, NoOrphanSession
<1> QED
  BY <1>2, <1>3, <1>4, <1>5 DEF IInv

-----------------------------------------------------------------------------
(***************************************************************************)
(* Steps that leave the sessions alone.                                    *)
(***************************************************************************)
LEMMA ActiveKept ==
  ASSUME mTrackingSessions' = mTrackingSessions
  PROVE  /\ Active' = Active /\ \A c : SessionsOf(c)' = SessionsOf(c)
         /\ ActiveIn(mTrackingSessions') = ActiveIn(mTrackingSessions)
BY DEF Active, SessionsOf, ActiveIn

LEMMA QuietStep ==
  ASSUME IInv, UNCHANGED <<mClientData, mTrackingSessions, stopFailed, removing>>,
         clientData' \in [Clients -> CallbackSets \cup {NULL}],
         mEvtMask' \in SUBSET Callbacks,
         EngineOK', FixInv', fix' = "kept" => Serving(engine.fix', mTrackingSessions),
         msgs' \in Seq(Msg), Fresh(msgs', mTrackingSessions),
         removing # NULL => msgs' # <<>> /\ msgs'[1] = msgs[1]
  PROVE  IInv'
<1>1. Types'
  BY ActiveKept DEF IInv, Types, EngineOK
<1>2. Fresh(msgs, mTrackingSessions)'
  BY DEF Fresh
<1>3. ServesInv'
  BY ActiveKept DEF ServesInv, Serving
<1>4. RemovalInv'
  BY ActiveKept DEF IInv, RemovalInv
<1>5. NoOrphanSession'
  BY ActiveKept DEF IInv, NoOrphanSession
<1> QED
  BY <1>1, <1>2, <1>3, <1>4, <1>5 DEF IInv

\* What is known of a state in which the engine is left alone.
LEMMA EngineKept ==
  ASSUME IInv, UNCHANGED <<engine, fix>>
  PROVE  EngineOK' /\ FixInv' /\ (fix' = "kept" => Serving(engine.fix', mTrackingSessions))
BY DEF IInv, Types, EngineOK, FixInv, ServesInv

LEMMA QueueKept ==
  ASSUME IInv, UNCHANGED msgs
  PROVE  /\ msgs' \in Seq(Msg) /\ Fresh(msgs', mTrackingSessions)
         /\ removing # NULL => msgs' # <<>> /\ msgs'[1] = msgs[1]
BY DEF IInv, Types, RemovalInv

LEMMA PostKeeps ==
  ASSUME IInv, NEW m \in Msg, Post(m),
         m.type = "start" =>
           /\ mTrackingSessions[m.session] = NULL
           /\ \A i \in 1..Len(msgs) : ~(msgs[i].type = "start" /\ msgs[i].session = m.session)
  PROVE  /\ msgs' \in Seq(Msg) /\ Fresh(msgs', mTrackingSessions)
         /\ removing # NULL => msgs' # <<>> /\ msgs'[1] = msgs[1]
<1>1. msgs \in Seq(Msg) /\ msgs' = Append(msgs, m) /\ Fresh(msgs, mTrackingSessions)
  BY DEF IInv, Types, Post
<1>2. msgs' \in Seq(Msg) /\ Fresh(msgs', mTrackingSessions)
  BY <1>1, FreshAppend, Appended
<1>3. removing # NULL => msgs' # <<>> /\ msgs'[1] = msgs[1]
  <2> SUFFICES ASSUME removing # NULL PROVE msgs' # <<>> /\ msgs'[1] = msgs[1]
    OBVIOUS
  <2>1. msgs # <<>>
    BY DEF IInv, RemovalInv
  <2>2. 1 \in 1..Len(msgs) /\ Len(msgs') = Len(msgs) + 1
    BY <1>1, <2>1, HeadTail, Appended
  <2> QED
    BY <1>1, <1>2, <2>2, Appended
<1> QED
  BY <1>2, <1>3

-----------------------------------------------------------------------------
(***************************************************************************)
(* The calls.                                                              *)
(***************************************************************************)
LEMMA CallbacksMade ==
  ASSUME NEW cbs \in CallbackSets
  PROVE  cbs \cap Callbacks \in SUBSET Callbacks /\ cbs # NULL
BY TrackingAssumption

LEMMA CallKeeps ==
  ASSUME IInv, UNCHANGED <<mClientData, mTrackingSessions, mEvtMask, engine, fix, stopFailed, removing>>,
         clientData' \in [Clients -> CallbackSets \cup {NULL}],
         /\ msgs' \in Seq(Msg) /\ Fresh(msgs', mTrackingSessions)
         /\ removing # NULL => msgs' # <<>> /\ msgs'[1] = msgs[1]
  PROVE  IInv'
<1>1. EngineOK' /\ FixInv' /\ (fix' = "kept" => Serving(engine.fix', mTrackingSessions))
  BY EngineKept
<1>2. mEvtMask' \in SUBSET Callbacks
  BY DEF IInv, Types
<1> QED
  BY <1>1, <1>2, QuietStep

LEMMA ClientSet ==
  ASSUME IInv, NEW c \in Clients, NEW v \in CallbackSets \cup {NULL},
         clientData' = [clientData EXCEPT ![c] = v]
  PROVE  clientData' \in [Clients -> CallbackSets \cup {NULL}]
BY DEF IInv, Types

\* Registering callbacks, by the creation or the update of an instance.
LEMMA RegisterKeeps ==
  ASSUME IInv, NEW c \in Clients, NEW cbs \in CallbackSets,
         CreateInstance(c, cbs) \/ UpdateCallbacks(c, cbs)
  PROVE  IInv'
<1>1. clientData' \in [Clients -> CallbackSets \cup {NULL}]
  BY ClientSet DEF CreateInstance, UpdateCallbacks
<1>2. UNCHANGED <<mClientData, mTrackingSessions, mEvtMask, engine, fix, stopFailed, removing>>
  BY DEF CreateInstance, UpdateCallbacks
<1> DEFINE m == [type |-> "addClient", client |-> c, cbs |-> cbs \cap Callbacks]
<1>3. m \in Msg /\ m.type # "start"
  BY CallbacksMade, MsgsMade
<1>4. Post(m) \/ UNCHANGED msgs
  BY DEF CreateInstance, UpdateCallbacks
<1> HIDE DEF m
<1>5. /\ msgs' \in Seq(Msg) /\ Fresh(msgs', mTrackingSessions)
      /\ removing # NULL => msgs' # <<>> /\ msgs'[1] = msgs[1]
  BY <1>3, <1>4, PostKeeps, QueueKept
<1> QED
  BY <1>1, <1>2, <1>5, CallKeeps

LEMMA DestroyKeeps ==
  ASSUME IInv, NEW c \in Clients, Destroy(c)
  PROVE  IInv'
<1>1. clientData' \in [Clients -> CallbackSets \cup {NULL}]
  BY ClientSet DEF Destroy
<1> DEFINE m == [type |-> "removeClient", client |-> c]
<1>2. m \in Msg /\ m.type # "start"
  BY MsgsMade
<1>3. Post(m) \/ UNCHANGED msgs
  BY DEF Destroy
<1> HIDE DEF m
<1>4. /\ msgs' \in Seq(Msg) /\ Fresh(msgs', mTrackingSessions)
      /\ removing # NULL => msgs' # <<>> /\ msgs'[1] = msgs[1]
  BY <1>2, <1>3, PostKeeps, QueueKept
<1> QED
  BY <1>1, <1>4, CallKeeps DEF Destroy

LEMMA StartTrackingKeeps ==
  ASSUME IInv, NEW s \in Sessions, NEW o \in Options \cup {NULL}, StartTracking(s, o)
  PROVE  IInv'
<1> DEFINE m == [type |-> "start", session |-> s, options |-> o]
<1>1. m \in Msg /\ m.session = s
  BY MsgsMade
<1>2. Post(m) /\ mTrackingSessions[s] = NULL /\ ~Queued(s)
  BY DEF StartTracking
<1>3. \A i \in 1..Len(msgs) : ~(msgs[i].type = "start" /\ msgs[i].session = s)
  BY <1>2 DEF Queued, IInv, Types
<1> HIDE DEF m
<1>4. /\ msgs' \in Seq(Msg) /\ Fresh(msgs', mTrackingSessions)
      /\ removing # NULL => msgs' # <<>> /\ msgs'[1] = msgs[1]
  BY <1>1, <1>2, <1>3, PostKeeps
<1>5. clientData' \in [Clients -> CallbackSets \cup {NULL}]
  BY DEF StartTracking, IInv, Types
<1> QED
  BY <1>4, <1>5, CallKeeps DEF StartTracking

LEMMA UpdateTrackingKeeps ==
  ASSUME IInv, NEW s \in Sessions, NEW o \in Options \cup {NULL}, UpdateTrackingOptions(s, o)
  PROVE  IInv'
<1> DEFINE m == [type |-> "update", session |-> s, options |-> o]
<1>1. m \in Msg /\ m.type # "start"
  BY MsgsMade
<1>2. Post(m)
  BY DEF UpdateTrackingOptions
<1> HIDE DEF m
<1>3. clientData' \in [Clients -> CallbackSets \cup {NULL}]
  BY DEF UpdateTrackingOptions, IInv, Types
<1> QED
  BY <1>1, <1>2, <1>3, PostKeeps, CallKeeps DEF UpdateTrackingOptions

LEMMA StopTrackingKeeps ==
  ASSUME IInv, NEW s \in Sessions, StopTracking(s)
  PROVE  IInv'
<1> DEFINE m == [type |-> "stop", session |-> s]
<1>1. m \in Msg /\ m.type # "start"
  BY MsgsMade
<1>2. Post(m)
  BY DEF StopTracking
<1> HIDE DEF m
<1>3. clientData' \in [Clients -> CallbackSets \cup {NULL}]
  BY DEF StopTracking, IInv, Types
<1> QED
  BY <1>1, <1>2, <1>3, PostKeeps, CallKeeps DEF StopTracking

-----------------------------------------------------------------------------
(***************************************************************************)
(* The engine, and the handlers that leave clients and sessions alone.     *)
(***************************************************************************)
LEMMA EngineType ==
  ASSUME IInv
  PROVE  /\ engine \in [up : BOOLEAN, fix : Options \cup {NULL}, mask : SUBSET Callbacks]
         /\ fix \in {"kept", "lost", "abandoned"}
         /\ mEvtMask \in SUBSET Callbacks /\ msgs \in Seq(Msg)
         /\ clientData \in [Clients -> CallbackSets \cup {NULL}]
BY DEF IInv, Types

LEMMA EngineDownKeeps ==
  ASSUME IInv, EngineDown
  PROVE  IInv'
<1>1. EngineOK' /\ FixInv' /\ fix' # "kept"
  BY EngineType DEF EngineDown, EngineOK, FixInv
<1>2. UNCHANGED <<clientData, mClientData, mTrackingSessions, mEvtMask, msgs, stopFailed, removing>>
  BY DEF EngineDown
<1> QED
  BY <1>1, <1>2, QueueKept, EngineType, QuietStep

LEMMA EngineUpKeeps ==
  ASSUME IInv, EngineUp
  PROVE  IInv'
<1> DEFINE ssr == [type |-> "ssr"]  restart == [type |-> "restart"]
<1>1. ssr \in Msg /\ restart \in Msg /\ ssr.type # "start" /\ restart.type # "start"
  BY MsgsMade
<1>2. msgs \in Seq(Msg) /\ msgs' = Append(Append(msgs, ssr), restart)
  BY EngineType DEF EngineUp
<1> HIDE DEF ssr, restart
<1>3. Append(msgs, ssr) \in Seq(Msg) /\ Fresh(Append(msgs, ssr), mTrackingSessions)
  BY <1>1, <1>2, FreshAppend, Appended DEF IInv
<1>4. msgs' \in Seq(Msg) /\ Fresh(msgs', mTrackingSessions)
  BY <1>1, <1>2, <1>3, FreshAppend, Appended
<1>5. removing # NULL => msgs' # <<>> /\ msgs'[1] = msgs[1]
  <2> SUFFICES ASSUME removing # NULL PROVE msgs' # <<>> /\ msgs'[1] = msgs[1]
    OBVIOUS
  <2>1. msgs # <<>>
    BY DEF IInv, RemovalInv
  <2>2. Len(msgs) \in Nat /\ Len(msgs) >= 1
    BY <1>2, <2>1, HeadTail
  <2>3. Len(Append(msgs, ssr)) = Len(msgs) + 1 /\ Append(msgs, ssr)[1] = msgs[1]
    BY <1>1, <1>2, <2>2, Appended
  <2>4. Len(msgs') = Len(msgs) + 2 /\ msgs'[1] = msgs[1]
    BY <1>1, <1>2, <1>3, <2>2, <2>3, Appended
  <2> QED
    BY <2>2, <2>4
<1>6. EngineOK' /\ FixInv' /\ (fix' = "kept" => Serving(engine.fix', mTrackingSessions))
  <2>1. engine'.fix = engine.fix /\ EngineOK'
    BY EngineType DEF EngineUp, EngineOK
  <2> QED
    BY <2>1 DEF EngineUp, FixInv, ServesInv, IInv
<1>7. UNCHANGED <<clientData, mClientData, mTrackingSessions, mEvtMask, stopFailed, removing>>
  BY DEF EngineUp
<1> QED
  BY <1>4, <1>5, <1>6, <1>7, EngineType, QuietStep

LEMMA HandleTail ==
  ASSUME IInv, NEW type, Handle(type)
  PROVE  /\ removing = NULL /\ msgs # <<>> /\ msgs[1] \in Msg /\ msgs[1].type = type /\ Head(msgs) = msgs[1]
         /\ Tail(msgs) \in Seq(Msg) /\ Fresh(Tail(msgs), mTrackingSessions)
<1>1. msgs \in Seq(Msg) /\ msgs # <<>> /\ Fresh(msgs, mTrackingSessions)
  BY DEF Handle, IInv, Types
<1>2. Fresh(Tail(msgs), mTrackingSessions)
  BY <1>1, FreshTail
<1> QED
  BY <1>1, <1>2, HeadTail DEF Handle

LEMMA RegisterIs ==
  ASSUME IInv, NEW mask \in SUBSET Callbacks, Register(mask), UNCHANGED fix
  PROVE  EngineOK' /\ FixInv' /\ (fix' = "kept" => Serving(engine.fix', mTrackingSessions))
<1>1. engine'.fix = engine.fix /\ EngineOK'
  BY EngineType DEF Register, EngineOK
<1> QED
  BY <1>1 DEF FixInv, ServesInv, IInv

LEMMA ProcOpenKeeps ==
  ASSUME IInv, ProcOpen
  PROVE  IInv'
<1>1. /\ removing = NULL /\ msgs[1] \in Msg /\ msgs[1].type = "open" /\ Head(msgs) = msgs[1]
      /\ Tail(msgs) \in Seq(Msg) /\ Fresh(Tail(msgs), mTrackingSessions)
  BY HandleTail DEF ProcOpen
<1>2. Head(msgs).mask \in SUBSET Callbacks
  BY <1>1, MsgFields
<1>3. EngineOK' /\ FixInv' /\ (fix' = "kept" => Serving(engine.fix', mTrackingSessions))
  BY <1>2, RegisterIs DEF ProcOpen
<1>4. /\ UNCHANGED <<clientData, mClientData, mTrackingSessions, mEvtMask, stopFailed, removing>>
      /\ msgs' = Tail(msgs)
  BY DEF ProcOpen, Done
<1> QED
  BY <1>1, <1>3, <1>4, EngineType, QuietStep

LEMMA ProcSsrKeeps ==
  ASSUME IInv, ProcSsr
  PROVE  IInv'
<1>1. /\ removing = NULL
      /\ Tail(msgs) \in Seq(Msg) /\ Fresh(Tail(msgs), mTrackingSessions)
  BY HandleTail DEF ProcSsr
<1>2. EngineOK' /\ FixInv' /\ (fix' = "kept" => Serving(engine.fix', mTrackingSessions))
  BY EngineType, RegisterIs DEF ProcSsr
<1>3. /\ UNCHANGED <<clientData, mClientData, mTrackingSessions, mEvtMask, stopFailed, removing>>
      /\ msgs' = Tail(msgs)
  BY DEF ProcSsr, Done
<1> QED
  BY <1>1, <1>2, <1>3, EngineType, QuietStep

LEMMA RestartSessionsKeeps ==
  ASSUME IInv, RestartSessions
  PROVE  IInv'
<1>1. /\ removing = NULL
      /\ Tail(msgs) \in Seq(Msg) /\ Fresh(Tail(msgs), mTrackingSessions)
  BY HandleTail DEF RestartSessions
<1>2. EngineOK' /\ FixInv' /\ (fix' = "kept" => Serving(engine.fix', mTrackingSessions))
  <2>1. CASE Active = {}
    <3>1. UNCHANGED engine /\ fix' = (IF engine.up THEN "kept" ELSE fix)
      BY <2>1 DEF RestartSessions
    <3>2. engine.fix = NULL
      BY <2>1, ActiveFacts DEF IInv, ServesInv, FixInv, Serving
    <3>3. Serving(NULL, mTrackingSessions)
      BY <2>1, ActiveFacts DEF IInv, Serving
    <3> QED
      BY <3>1, <3>2, <3>3, EngineType DEF EngineOK, FixInv
  <2>2. CASE Active # {}
    <3> DEFINE k == Smallest(Active)
    <3>1. k \in Active /\ \A r \in Active : mTrackingSessions[k].minInterval <= mTrackingSessions[r].minInterval
      BY <2>2, SmallestIs DEF Interval, IInv
    <3>2. mTrackingSessions[k] \in Options /\ mTrackingSessions[k] # NULL
      BY <3>1, ActiveFacts DEF IInv, Active
    <3>3. Serving(mTrackingSessions[k], mTrackingSessions)
      BY <3>1, <3>2, ActiveFacts DEF IInv, Serving
    <3>4. PICK ok \in BOOLEAN :
            \/ ok /\ StartFix(mTrackingSessions[k], ok)
            \/ ~ok /\ UNCHANGED engine /\ fix' = IF engine.up /\ fix = "lost" THEN "abandoned" ELSE fix
      BY <2>2 DEF RestartSessions
    <3> HIDE DEF k
    <3>5. CASE ok /\ StartFix(mTrackingSessions[k], ok)
      BY <3>2, <3>3, <3>5, RunFixIs DEF StartFix, FixInv, IInv
    <3>6. CASE ~ok /\ UNCHANGED engine /\ fix' = IF engine.up /\ fix = "lost" THEN "abandoned" ELSE fix
      BY <3>6, EngineType DEF EngineOK, FixInv, ServesInv, IInv
    <3> QED
      BY <3>4, <3>5, <3>6
  <2> QED
    BY <2>1, <2>2
<1>3. /\ UNCHANGED <<clientData, mClientData, mTrackingSessions, mEvtMask, stopFailed, removing>>
      /\ msgs' = Tail(msgs)
  BY DEF RestartSessions, Done
<1> QED
  BY <1>1, <1>2, <1>3, EngineType, QuietStep

-----------------------------------------------------------------------------
(***************************************************************************)
(* The clients of the adapter.                                             *)
(***************************************************************************)
LEMMA MaskPosted ==
  ASSUME IInv, msgs # <<>>, NEW data \in [Clients -> (SUBSET Callbacks) \cup {NULL}],
         UpdateClientsEventMask(data)
  PROVE  mEvtMask' \in SUBSET Callbacks /\ msgs' \in Seq(Msg) /\ Fresh(msgs', mTrackingSessions)
<1> DEFINE m == [type |-> "open", mask |-> EventMask(data)]
<1>1. m \in Msg /\ m.type # "start" /\ EventMask(data) \in SUBSET Callbacks
  BY EventMaskType, MsgsMade
<1>2. mEvtMask' = EventMask(data) /\ msgs' = Append(Tail(msgs), m)
  BY DEF UpdateClientsEventMask
<1> HIDE DEF m
<1>3. Tail(msgs) \in Seq(Msg) /\ Fresh(Tail(msgs), mTrackingSessions)
  BY HeadTail, FreshTail DEF IInv, Types
<1> QED
  BY <1>1, <1>2, <1>3, FreshAppend, Appended

LEMMA AddClientKeeps ==
  ASSUME IInv, AddClient
  PROVE  IInv'
<1> DEFINE m == Head(msgs)  data == [mClientData EXCEPT ![m.client] = m.cbs]
<1>1. /\ removing = NULL /\ msgs # <<>> /\ m \in Msg /\ m.type = "addClient"
  BY HandleTail DEF AddClient
<1>2. m.client \in Clients /\ m.cbs \in SUBSET Callbacks
  BY <1>1, MsgFields
<1>3. data \in [Clients -> (SUBSET Callbacks) \cup {NULL}]
  BY <1>2 DEF IInv, Types
<1>4. mClientData' = data /\ UpdateClientsEventMask(data)
      /\ UNCHANGED <<clientData, mTrackingSessions, engine, fix, stopFailed, removing>>
  BY DEF AddClient
<1>5. mEvtMask' \in SUBSET Callbacks /\ msgs' \in Seq(Msg) /\ Fresh(msgs', mTrackingSessions)
  BY <1>1, <1>3, <1>4, MaskPosted
<1>6. Types'
  BY <1>3, <1>4, <1>5, ActiveKept DEF IInv, Types
<1>7. ServesInv' /\ FixInv' /\ RemovalInv'
  BY <1>1, <1>4 DEF IInv, ServesInv, FixInv, RemovalInv, Serving, ActiveIn
<1>8. NoOrphanSession'
  <2>1. \A c \in Clients : data[c] = NULL => mClientData[c] = NULL
    BY <1>2, TrackingAssumption DEF IInv, Types
  <2>2. \A s \in Active : Owner[s] \in Clients
    BY TrackingAssumption DEF Active
  <2> QED
    BY <1>4, <2>1, <2>2, ActiveKept DEF IInv, NoOrphanSession
<1> QED
  BY <1>4, <1>5, <1>6, <1>7, <1>8 DEF IInv

LEMMA RemoveClientKeeps ==
  ASSUME IInv, RemoveClient
  PROVE  IInv'
<1>1. /\ removing = NULL /\ msgs # <<>> /\ msgs[1] \in Msg /\ msgs[1].type = "removeClient"
      /\ Head(msgs) = msgs[1]
  BY HandleTail DEF RemoveClient
<1>2. msgs[1].client \in Clients
  BY <1>1, MsgFields
<1>3. /\ removing' = [client |-> msgs[1].client, todo |-> SessionsOf(msgs[1].client)]
      /\ UNCHANGED <<clientData, mClientData, mTrackingSessions, mEvtMask, msgs, engine, fix, stopFailed>>
  BY <1>1 DEF RemoveClient
<1>4. removing' \in Removal
  BY <1>2, <1>3 DEF Removal, SessionsOf, Active
<1>5. Types'
  BY <1>3, <1>4, ActiveKept DEF IInv, Types
<1>6. RemovalInv'
  BY <1>1, <1>3, ActiveKept DEF RemovalInv
<1>7. ServesInv' /\ FixInv' /\ Fresh(msgs, mTrackingSessions)'
  BY <1>3 DEF IInv, ServesInv, FixInv, Serving, ActiveIn, Fresh
<1>8. NoOrphanSession'
  BY <1>3, ActiveKept DEF IInv, NoOrphanSession
<1> QED
  BY <1>5, <1>6, <1>7, <1>8 DEF IInv

LEMMA EraseClientKeeps ==
  ASSUME IInv, EraseClient
  PROVE  IInv'
<1> DEFINE c == removing.client  data == [mClientData EXCEPT ![c] = NULL]
<1>1. /\ removing # NULL /\ removing.todo = {} /\ removing' = NULL
      /\ mClientData' = data /\ UpdateClientsEventMask(data)
      /\ UNCHANGED <<clientData, mTrackingSessions, engine, fix, stopFailed>>
  BY DEF EraseClient
<1>2. msgs # <<>> /\ SessionsOf(c) \subseteq stopFailed
  BY <1>1 DEF IInv, RemovalInv
<1>3. data \in [Clients -> (SUBSET Callbacks) \cup {NULL}]
  BY DEF IInv, Types
<1>4. mEvtMask' \in SUBSET Callbacks /\ msgs' \in Seq(Msg) /\ Fresh(msgs', mTrackingSessions)
  BY <1>1, <1>2, <1>3, MaskPosted
<1>5. Types'
  BY <1>1, <1>3, <1>4, ActiveKept DEF IInv, Types
<1>6. ServesInv' /\ FixInv' /\ RemovalInv'
  BY <1>1 DEF IInv, ServesInv, FixInv, RemovalInv, Serving, ActiveIn
<1>7. NoOrphanSession'
  <2>1. \A s \in Active : Owner[s] \in Clients /\ (Owner[s] = c => s \in stopFailed)
    BY <1>2, TrackingAssumption DEF Active, SessionsOf
  <2>2. \A d \in Clients : d # c => data[d] = mClientData[d]
    BY DEF IInv, Types
  <2> QED
    BY <1>1, <2>1, <2>2, ActiveKept DEF IInv, NoOrphanSession
<1> QED
  BY <1>1, <1>4, <1>5, <1>6, <1>7 DEF IInv

-----------------------------------------------------------------------------
(***************************************************************************)
(* The sessions.                                                           *)
(***************************************************************************)
\* What a command that leaves the sessions ts keeps of the invariant.
LEMMA CommandedKeeps ==
  ASSUME IInv, NEW ok, NEW ts \in [Sessions -> Options \cup {NULL}], Commanded(ok, ts),
         mTrackingSessions' = ts
  PROVE  /\ EngineOK' /\ ServesInv' /\ FixInv'
         /\ mTrackingSessions' \in [Sessions -> Options \cup {NULL}]
         /\ Active' = ActiveIn(ts)
BY DEF Commanded, ServesInv, Serving, Active, ActiveIn

\* Stopping one session, erased or kept.
LEMMA StopStep ==
  ASSUME IInv, NEW s \in Active, NEW ok, StopMultiplex(s, ok), IF ok THEN EraseSession(s) ELSE KeepSession(s)
  PROVE  /\ EngineOK' /\ ServesInv' /\ FixInv'
         /\ mTrackingSessions' \in [Sessions -> Options \cup {NULL}]
         /\ stopFailed' \subseteq Active' /\ Active' \subseteq Active
         /\ \A r \in Sessions : mTrackingSessions[r] = NULL => mTrackingSessions'[r] = NULL
         /\ \A r \in Active' : r # s => (r \in stopFailed' <=> r \in stopFailed)
         /\ s \in Active' => s \in stopFailed'
<1> DEFINE ts == IF ok THEN [mTrackingSessions EXCEPT ![s] = NULL] ELSE mTrackingSessions
<1>1. Commanded(ok, ts)
  BY StopCommands DEF IInv
<1>2. ts \in [Sessions -> Options \cup {NULL}] /\ mTrackingSessions' = ts
  BY DEF EraseSession, KeepSession, IInv, Types
<1>3. EngineOK' /\ ServesInv' /\ FixInv' /\ mTrackingSessions' \in [Sessions -> Options \cup {NULL}]
      /\ Active' = ActiveIn(ts)
  BY <1>1, <1>2, CommandedKeeps
<1>4. CASE ok
  <2>1. stopFailed' = stopFailed \ {s} /\ ActiveIn(ts) = Active \ {s} /\ \A r \in Sessions : r # s => ts[r] = mTrackingSessions[r]
    BY <1>4 DEF EraseSession, ActiveIn, Active, IInv, Types
  <2>2. ts[s] = NULL
    BY <1>4 DEF Active, IInv, Types
  <2> QED
    BY <1>2, <1>3, <2>1, <2>2 DEF IInv, Types
<1>5. CASE ~ok
  <2>1. stopFailed' = stopFailed \cup {s} /\ ActiveIn(ts) = Active /\ ts = mTrackingSessions
    BY <1>5 DEF KeepSession, ActiveIn, Active
  <2> QED
    BY <1>2, <1>3, <2>1 DEF IInv, Types
<1> QED
  BY <1>4, <1>5

LEMMA StopClientSessionKeeps ==
  ASSUME IInv, NEW s \in Sessions, StopClientSession(s)
  PROVE  IInv'
<1>1. /\ removing # NULL /\ s \in removing.todo
      /\ removing' = [removing EXCEPT !.todo = @ \ {s}]
      /\ UNCHANGED <<clientData, mClientData, mEvtMask, msgs>>
  BY DEF StopClientSession
<1>2. removing \in Removal
  BY <1>1 DEF IInv, Types
<1>3. /\ removing'.client = removing.client /\ removing'.todo = removing.todo \ {s}
      /\ removing' \in Removal
  BY <1>1, <1>2 DEF Removal
<1>4. s \in Active /\ removing.todo \subseteq SessionsOf(removing.client)
      /\ SessionsOf(removing.client) \subseteq removing.todo \cup stopFailed
      /\ msgs # <<>> /\ msgs[1].type = "removeClient" /\ msgs[1].client = removing.client
  BY <1>1 DEF IInv, RemovalInv, SessionsOf
<1>5. PICK ok \in BOOLEAN : StopMultiplex(s, ok) /\ IF ok THEN EraseSession(s) ELSE KeepSession(s)
  BY DEF StopClientSession
<1>6. /\ EngineOK' /\ ServesInv' /\ FixInv'
      /\ mTrackingSessions' \in [Sessions -> Options \cup {NULL}]
      /\ stopFailed' \subseteq Active' /\ Active' \subseteq Active
      /\ \A r \in Sessions : mTrackingSessions[r] = NULL => mTrackingSessions'[r] = NULL
      /\ \A r \in Active' : r # s => (r \in stopFailed' <=> r \in stopFailed)
      /\ s \in Active' => s \in stopFailed'
  BY <1>4, <1>5, StopStep
<1>7. Types'
  BY <1>1, <1>3, <1>6 DEF IInv, Types, EngineOK
<1>8. Fresh(msgs, mTrackingSessions)'
  <2>1. \A i \in 1..Len(msgs) : msgs[i].type = "start" => msgs[i].session \in Sessions
    BY MsgFields DEF IInv, Types
  <2> QED
    BY <1>1, <1>6, <2>1 DEF IInv, Fresh
<1>9. RemovalInv'
  <2>1. removing'.todo \subseteq SessionsOf(removing.client)'
    <3>1. \A r \in removing.todo \ {s} : r \in Active'
      <4>1. \A r \in Sessions : r # s => mTrackingSessions'[r] = mTrackingSessions[r]
        BY <1>5 DEF EraseSession, KeepSession, IInv, Types
      <4> QED
        BY <1>4, <4>1 DEF SessionsOf, Active
    <3> QED
      BY <1>3, <1>4, <3>1 DEF SessionsOf
  <2>2. SessionsOf(removing.client)' \subseteq removing'.todo \cup stopFailed'
    BY <1>3, <1>4, <1>6 DEF SessionsOf
  <2> QED
    BY <1>1, <1>3, <1>4, <2>1, <2>2 DEF RemovalInv
<1>10. NoOrphanSession'
  BY <1>1, <1>6 DEF IInv, NoOrphanSession
<1> QED
  BY <1>6, <1>7, <1>8, <1>9, <1>10 DEF IInv

LEMMA ProcStopKeeps ==
  ASSUME IInv, ProcStop
  PROVE  IInv'
<1> DEFINE s == Head(msgs).session
<1>1. /\ removing = NULL /\ msgs # <<>> /\ msgs[1] \in Msg /\ msgs[1].type = "stop" /\ Head(msgs) = msgs[1]
      /\ Tail(msgs) \in Seq(Msg) /\ Fresh(Tail(msgs), mTrackingSessions)
  BY HandleTail DEF ProcStop
<1>2. UNCHANGED <<clientData, mClientData, mEvtMask, removing>> /\ msgs' = Tail(msgs)
  BY DEF ProcStop, Done
<1>3. CASE s \in Active
  <2>1. PICK ok \in BOOLEAN : StopMultiplex(s, ok) /\ IF ok THEN EraseSession(s) ELSE KeepSession(s)
    BY <1>3 DEF ProcStop
  <2> HIDE DEF s
  <2>2. /\ EngineOK' /\ ServesInv' /\ FixInv'
        /\ mTrackingSessions' \in [Sessions -> Options \cup {NULL}]
        /\ stopFailed' \subseteq Active' /\ Active' \subseteq Active
        /\ \A r \in Sessions : mTrackingSessions[r] = NULL => mTrackingSessions'[r] = NULL
        /\ \A r \in Active' : r # s => (r \in stopFailed' <=> r \in stopFailed)
        /\ s \in Active' => s \in stopFailed'
    BY <1>3, <2>1, StopStep
  <2>3. Types'
    BY <1>1, <1>2, <2>2 DEF IInv, Types, EngineOK
  <2>4. Fresh(msgs, mTrackingSessions)'
    <3>1. Fresh(Tail(msgs), mTrackingSessions')
      BY <1>1, <2>2, FreshTail DEF IInv, Types
    <3> QED
      BY <1>2, <3>1
  <2>5. RemovalInv' /\ NoOrphanSession'
    BY <1>1, <1>2, <2>2 DEF IInv, RemovalInv, NoOrphanSession
  <2> QED
    BY <2>2, <2>3, <2>4, <2>5 DEF IInv
<1>4. CASE s \notin Active
  <2>1. UNCHANGED <<mTrackingSessions, engine, fix, stopFailed>>
    BY <1>4 DEF ProcStop
  <2>2. EngineOK' /\ FixInv' /\ (fix' = "kept" => Serving(engine.fix', mTrackingSessions))
    BY <2>1, EngineKept
  <2> QED
    BY <1>1, <1>2, <2>1, <2>2, EngineType, QuietStep
<1> QED
  BY <1>3, <1>4

\* A session of a start, or of an update of a session that is tracked.
LEMMA SetStep ==
  ASSUME IInv, NEW s \in Sessions, NEW o \in Options, NEW ok,
         Commanded(ok, IF ok THEN [mTrackingSessions EXCEPT ![s] = o] ELSE mTrackingSessions),
         mTrackingSessions' = IF ok THEN [mTrackingSessions EXCEPT ![s] = o] ELSE mTrackingSessions,
         s \in Active \/ mClientData[Owner[s]] # NULL,
         msgs # <<>>, s \in Active \/ (msgs[1].type = "start" /\ msgs[1].session = s),
         msgs' = Tail(msgs), removing = NULL,
         UNCHANGED <<clientData, mClientData, mEvtMask, stopFailed, removing>>
  PROVE  IInv'
<1> DEFINE ts == IF ok THEN [mTrackingSessions EXCEPT ![s] = o] ELSE mTrackingSessions
<1>1. ts \in [Sessions -> Options \cup {NULL}] /\ o # NULL
  BY IntervalOfOptions DEF IInv, Types
<1>2. EngineOK' /\ ServesInv' /\ FixInv' /\ Active' = ActiveIn(ts)
      /\ mTrackingSessions' \in [Sessions -> Options \cup {NULL}]
  BY <1>1, CommandedKeeps
<1>3. \A r \in Sessions : r # s => mTrackingSessions'[r] = mTrackingSessions[r]
  BY DEF IInv, Types
<1>4. Active \subseteq Active' /\ Active' \subseteq Active \cup {s}
  BY <1>1, <1>2 DEF ActiveIn, Active, IInv, Types
<1>5. msgs' \in Seq(Msg)
  BY HeadTail DEF IInv, Types
<1>6. Types'
  BY <1>2, <1>4, <1>5 DEF IInv, Types, EngineOK
<1>7. Fresh(msgs, mTrackingSessions)'
  <2>1. \A r \in Sessions : mTrackingSessions[r] = NULL /\ ~(msgs[1].type = "start" /\ msgs[1].session = r)
                              => mTrackingSessions'[r] = NULL
    BY <1>3 DEF Active
  <2>2. msgs \in Seq(Msg) /\ Fresh(msgs, mTrackingSessions)
    BY DEF IInv, Types
  <2> DEFINE new == mTrackingSessions'
  <2> HIDE DEF new
  <2>3. Fresh(Tail(msgs), new)
    <3>1. \A r \in Sessions : mTrackingSessions[r] = NULL /\ ~(msgs[1].type = "start" /\ msgs[1].session = r)
                              => new[r] = NULL
      BY <2>1 DEF new
    <3>2. msgs # <<>>
      OBVIOUS
    <3> QED
      BY ONLY <3>1, <3>2, <2>2, FreshTail
  <2> QED
    BY <2>3 DEF new
<1>8. RemovalInv' /\ NoOrphanSession'
  BY <1>4 DEF IInv, RemovalInv, NoOrphanSession
<1> QED
  BY <1>2, <1>6, <1>7, <1>8 DEF IInv

LEMMA ProcStartKeeps ==
  ASSUME IInv, ProcStart
  PROVE  IInv'
<1> DEFINE m == Head(msgs)
<1>1. /\ removing = NULL /\ msgs # <<>> /\ msgs[1] \in Msg /\ msgs[1].type = "start" /\ Head(msgs) = msgs[1]
      /\ Tail(msgs) \in Seq(Msg) /\ Fresh(Tail(msgs), mTrackingSessions)
  BY HandleTail DEF ProcStart
<1>2. UNCHANGED <<clientData, mClientData, mEvtMask, stopFailed, removing>> /\ msgs' = Tail(msgs)
  BY DEF ProcStart, Done
<1>3. CASE MayTrack(Owner[m.session]) /\ m.options # NULL
  <2>1. m.session \in Sessions /\ m.options \in Options
    BY <1>1, <1>3, MsgFields
  <2>2. mTrackingSessions[m.session] = NULL
    <3>1. 1 \in 1..Len(msgs)
      BY <1>1, HeadTail DEF IInv, Types
    <3> QED
      BY <1>1, <3>1 DEF IInv, Fresh
  <2>3. PICK ok \in BOOLEAN :
          /\ StartMultiplex(m.options, ok)
          /\ mTrackingSessions' = IF ok THEN [mTrackingSessions EXCEPT ![m.session] = m.options]
                                  ELSE mTrackingSessions
    BY <1>3 DEF ProcStart
  <2>4. mClientData[Owner[m.session]] # NULL
    BY <1>3 DEF MayTrack
  <2>5. msgs[1].session = m.session
    BY <1>1
  <2> HIDE DEF m
  <2>6. Commanded(ok, IF ok THEN [mTrackingSessions EXCEPT ![m.session] = m.options] ELSE mTrackingSessions)
    BY <2>1, <2>2, <2>3, StartCommands DEF IInv
  <2> QED
    BY <1>1, <1>2, <2>1, <2>3, <2>4, <2>5, <2>6, SetStep
<1>4. CASE ~(MayTrack(Owner[m.session]) /\ m.options # NULL)
  <2>1. UNCHANGED <<mTrackingSessions, engine, fix>>
    BY <1>4 DEF ProcStart
  <2>2. EngineOK' /\ FixInv' /\ (fix' = "kept" => Serving(engine.fix', mTrackingSessions))
    BY <2>1, EngineKept
  <2> QED
    BY <1>1, <1>2, <2>1, <2>2, EngineType, QuietStep
<1> QED
  BY <1>3, <1>4

LEMMA ProcUpdateKeeps ==
  ASSUME IInv, ProcUpdate
  PROVE  IInv'
<1> DEFINE m == Head(msgs)
<1>1. /\ removing = NULL /\ msgs # <<>> /\ msgs[1] \in Msg /\ msgs[1].type = "update" /\ Head(msgs) = msgs[1]
      /\ Tail(msgs) \in Seq(Msg) /\ Fresh(Tail(msgs), mTrackingSessions)
  BY HandleTail DEF ProcUpdate
<1>2. UNCHANGED <<clientData, mClientData, mEvtMask, stopFailed, removing>> /\ msgs' = Tail(msgs)
  BY DEF ProcUpdate, Done
<1>3. CASE m.session \in Active /\ m.options # NULL
  <2>1. m.session \in Sessions /\ m.options \in Options /\ m.session \in Active
    BY <1>1, <1>3, MsgFields
  <2>2. PICK ok \in BOOLEAN :
          /\ UpdateMultiplex(m.session, m.options, ok)
          /\ mTrackingSessions' = IF ok THEN [mTrackingSessions EXCEPT ![m.session] = m.options]
                                  ELSE mTrackingSessions
    BY <1>3 DEF ProcUpdate
  <2> HIDE DEF m
  <2>3. Commanded(ok, IF ok THEN [mTrackingSessions EXCEPT ![m.session] = m.options] ELSE mTrackingSessions)
    BY <2>1, <2>2, UpdateCommands DEF IInv
  <2> QED
    BY <1>1, <1>2, <2>1, <2>2, <2>3, SetStep
<1>4. CASE ~(m.session \in Active /\ m.options # NULL)
  <2>1. UNCHANGED <<mTrackingSessions, engine, fix>>
    BY <1>4 DEF ProcUpdate
  <2>2. EngineOK' /\ FixInv' /\ (fix' = "kept" => Serving(engine.fix', mTrackingSessions))
    BY <2>1, EngineKept
  <2> QED
    BY <1>1, <1>2, <2>1, <2>2, EngineType, QuietStep
<1> QED
  BY <1>3, <1>4

-----------------------------------------------------------------------------
LEMMA NextIInv ==
  ASSUME IInv, [Next]_vars
  PROVE  IInv'
<1>1. ASSUME NEW c \in Clients, NEW cbs \in CallbackSets, CreateInstance(c, cbs) \/ UpdateCallbacks(c, cbs)
      PROVE  IInv'
  BY <1>1, RegisterKeeps
<1>2. ASSUME NEW c \in Clients, Destroy(c) PROVE IInv'
  BY <1>2, DestroyKeeps
<1>3. ASSUME NEW s \in Sessions, NEW o \in Options \cup {NULL}, StartTracking(s, o) PROVE IInv'
  BY <1>3, StartTrackingKeeps
<1>4. ASSUME NEW s \in Sessions, NEW o \in Options \cup {NULL}, UpdateTrackingOptions(s, o) PROVE IInv'
  BY <1>4, UpdateTrackingKeeps
<1>5. ASSUME NEW s \in Sessions, StopTracking(s) PROVE IInv'
  BY <1>5, StopTrackingKeeps
<1>6. Call => IInv'
  BY <1>1, <1>2, <1>3, <1>4, <1>5, MayRegisterIs DEF Call
<1>7. ASSUME NEW s \in Sessions, StopClientSession(s) PROVE IInv'
  BY <1>7, StopClientSessionKeeps
<1>8. Proc => IInv'
  BY <1>7, AddClientKeeps, RemoveClientKeeps, EraseClientKeeps, ProcStartKeeps, ProcUpdateKeeps,
     ProcStopKeeps, ProcOpenKeeps, ProcSsrKeeps, RestartSessionsKeeps DEF Proc
<1>9. CASE UNCHANGED vars
  <2>1. UNCHANGED <<clientData, mClientData, mTrackingSessions, mEvtMask, msgs, engine, fix, stopFailed, removing>>
    BY <1>9 DEF vars
  <2> QED
    BY <2>1, EngineKept, EngineType, QueueKept, QuietStep
<1> QED
  BY <1>6, <1>8, <1>9, EngineDownKeeps, EngineUpKeeps DEF Next

LEMMA ServingServes ==
  ASSUME Types, ServesInv
  PROVE  EngineServesSessions
<1> SUFFICES ASSUME fix = "kept"
             PROVE  /\ Active = {} <=> engine.fix = NULL
                    /\ Active # {} => engine.fix.minInterval = mTrackingSessions[Smallest(Active)].minInterval
  BY DEF EngineServesSessions
<1>1. Active = {} <=> engine.fix = NULL
  BY ActiveFacts DEF ServesInv, Serving
<1>2. ASSUME Active # {}
      PROVE  engine.fix.minInterval = mTrackingSessions[Smallest(Active)].minInterval
  <2> DEFINE k == Smallest(Active)
  <2>1. k \in Active /\ \A r \in Active : mTrackingSessions[k].minInterval <= mTrackingSessions[r].minInterval
    BY <1>2, SmallestIs DEF Interval
  <2> HIDE DEF k
  <2>2. /\ \E r \in Active : engine.fix.minInterval = mTrackingSessions[r].minInterval
        /\ \A r \in Active : engine.fix.minInterval <= mTrackingSessions[r].minInterval
    BY <1>2, KeptFix
  <2>3. engine.fix.minInterval = mTrackingSessions[k].minInterval
    BY <2>1, <2>2, ActiveFacts
  <2> QED
    BY <2>3 DEF k
<1> QED
  BY <1>1, <1>2

(***************************************************************************)
(* Every handler keeps the adapter's clients, sessions and messages and    *)
(* the engine's state in their types.                                      *)
(***************************************************************************)
THEOREM TypeCorrect == Spec => []TypeOK
<1>1. Types /\ DroppedType => TypeOK
  BY DEF Types, DroppedType, TypeOK
<1>2. IInv => Types
  BY DEF IInv
<1>3. Init => DroppedType
  BY DEF Init, DroppedType
<1>4. DroppedType /\ [Next]_vars => DroppedType'
  BY DroppedKept DEF DroppedType
<1> QED
  BY <1>1, <1>2, <1>3, <1>4, InitIInv, NextIInv, PTL DEF Spec

(***************************************************************************)
(* The multiplexing of sessions by start, update, stop and restart keeps   *)
(* the engine at the smallest interval of the sessions, for any number of  *)
(* sessions, clients and intervals.                                        *)
(***************************************************************************)
THEOREM EngineServes == Spec => []EngineServesSessions
<1>1. IInv => EngineServesSessions
  BY ServingServes DEF IInv
<1> QED
  BY <1>1, InitIInv, NextIInv, PTL DEF Spec

(***************************************************************************)
(* The removal of a client leaves none of its sessions but those the       *)
(* engine refused to stop.                                                 *)
(***************************************************************************)
THEOREM NoOrphan == Spec => []NoOrphanSession
<1>1. IInv => NoOrphanSession
  BY DEF IInv
<1> QED
  BY <1>1, InitIInv, NextIInv, PTL DEF Spec

-----------------------------------------------------------------------------
(***************************************************************************)
(* What the last message of a kind K in the queue says: it is one of G, or *)
(* there is none.                                                          *)
(***************************************************************************)
LastIn(q, K, G) ==
  \A i \in 1..Len(q) : q[i] \in K /\ (\A j \in 1..Len(q) : j > i => q[j] \notin K) => q[i] \in G

NoneIn(q, K) == \A i \in 1..Len(q) : q[i] \notin K

LEMMA LastTail ==
  ASSUME NEW q \in Seq(Msg), q # <<>>, NEW K, NEW G, LastIn(q, K, G)
  PROVE  /\ LastIn(Tail(q), K, G)
         /\ NoneIn(Tail(q), K) => (q[1] \notin K /\ NoneIn(q, K)) \/ q[1] \in G
<1>1. /\ Len(Tail(q)) = Len(q) - 1 /\ Len(q) \in Nat /\ Len(q) >= 1
      /\ \A i \in 1..(Len(q) - 1) : Tail(q)[i] = q[i + 1]
  BY HeadTail
<1>2. \A j \in 1..Len(q) : j = 1 \/ (j - 1 \in 1..Len(Tail(q)) /\ Tail(q)[j - 1] = q[j])
  BY <1>1
<1>3. ASSUME NEW i \in 1..Len(Tail(q)), Tail(q)[i] \in K,
             \A j \in 1..Len(Tail(q)) : j > i => Tail(q)[j] \notin K
      PROVE  Tail(q)[i] \in G
  <2>1. i + 1 \in 1..Len(q) /\ Tail(q)[i] = q[i + 1] /\ i \in Nat
    BY <1>1
  <2>2. ASSUME NEW j \in 1..Len(q), j > i + 1 PROVE q[j] \notin K
    <3>1. j - 1 \in 1..Len(Tail(q)) /\ j - 1 > i /\ Tail(q)[j - 1] = q[j]
      BY <2>1, <2>2, <1>1, <1>2
    <3> QED
      BY <3>1, <1>3
  <2> QED
    BY <2>1, <2>2, <1>3 DEF LastIn
<1>4. ASSUME NoneIn(Tail(q), K)
      PROVE  (q[1] \notin K /\ NoneIn(q, K)) \/ q[1] \in G
  <2>1. \A j \in 1..Len(q) : j # 1 => q[j] \notin K
    BY <1>2, <1>4 DEF NoneIn
  <2>2. CASE q[1] \notin K
    BY <2>1, <2>2 DEF NoneIn
  <2>3. CASE q[1] \in K
    <3>1. 1 \in 1..Len(q) /\ \A j \in 1..Len(q) : j > 1 => q[j] \notin K
      BY <1>1, <2>1
    <3> QED
      BY <2>3, <3>1 DEF LastIn
  <2> QED
    BY <2>2, <2>3
<1>5. LastIn(Tail(q), K, G)
  BY <1>3 DEF LastIn
<1> QED
  BY <1>4, <1>5

LEMMA LastAppend ==
  ASSUME NEW q \in Seq(Msg), NEW m \in Msg, NEW K, NEW G
  PROVE  /\ m \in K /\ m \in G => LastIn(Append(q, m), K, G)
         /\ m \notin K /\ LastIn(q, K, G) => LastIn(Append(q, m), K, G)
         /\ NoneIn(Append(q, m), K) => m \notin K /\ NoneIn(q, K)
<1> DEFINE p == Append(q, m)
<1>1. /\ Len(p) = Len(q) + 1 /\ Len(q) \in Nat /\ p[Len(q) + 1] = m
      /\ \A i \in 1..Len(q) : p[i] = q[i]
  BY Appended
<1> HIDE DEF p
<1>2. Len(q) + 1 \in 1..Len(p) /\ \A i \in 1..Len(p) : (i \in 1..Len(q) /\ Len(q) + 1 > i) \/ i = Len(q) + 1
  BY <1>1
<1>3. \A i \in 1..Len(q) : i \in 1..Len(p)
  BY <1>1
<1>4. ASSUME m \in K, m \in G PROVE LastIn(p, K, G)
  BY <1>1, <1>2, <1>4 DEF LastIn
<1>5. ASSUME m \notin K, LastIn(q, K, G) PROVE LastIn(p, K, G)
  <2> SUFFICES ASSUME NEW i \in 1..Len(p), p[i] \in K, \A j \in 1..Len(p) : j > i => p[j] \notin K
               PROVE  p[i] \in G
    BY DEF LastIn
  <2>1. i \in 1..Len(q)
    BY <1>1, <1>2, <1>5
  <2>2. \A j \in 1..Len(q) : j > i => q[j] \notin K
    BY <1>1, <1>3
  <2> QED
    BY <1>1, <1>5, <2>1, <2>2 DEF LastIn
<1>6. NoneIn(p, K) => m \notin K /\ NoneIn(q, K)
  BY <1>1, <1>2, <1>3 DEF NoneIn
<1> QED
  BY <1>4, <1>5, <1>6 DEF p

-----------------------------------------------------------------------------
(***************************************************************************)
(* Events: the last message that sets the engine's events sets the         *)
(* adapter's mask, which is that of its clients.                           *)
(***************************************************************************)
MaskMsg    == {m \in Msg : m.type \in {"open", "ssr"}}
Setting(e) == {m \in MaskMsg : m.type = "ssr" \/ m.mask = e}

MaskInv ==
  /\ mEvtMask = EventMask(mClientData)
  /\ LastIn(msgs, MaskMsg, Setting(mEvtMask))
  /\ engine.up /\ NoneIn(msgs, MaskMsg) => engine.mask = mEvtMask

LEMMA InitMaskInv ==
  Init => MaskInv
<1> SUFFICES ASSUME Init PROVE MaskInv
  OBVIOUS
<1>1. msgs = <<>> /\ mEvtMask = {} /\ engine.mask = {}
  BY DEF Init
<1>2. EventMask(mClientData) = {}
  BY DEF Init, EventMask
<1> QED
  BY <1>1, <1>2 DEF MaskInv, LastIn, NoneIn

\* Steps with the same mask and engine, and no message about events.
LEMMA MaskKept ==
  ASSUME IInv, MaskInv, UNCHANGED <<mClientData, mEvtMask>>,
         engine'.up = engine.up, engine'.mask = engine.mask,
         \/ UNCHANGED msgs
         \/ \E m \in Msg : m \notin MaskMsg /\ msgs' = Append(msgs, m)
         \/ msgs # <<>> /\ msgs[1] \notin MaskMsg /\ msgs' = Tail(msgs)
  PROVE  MaskInv'
<1>1. msgs \in Seq(Msg)
  BY DEF IInv, Types
<1>2. EventMask(mClientData)' = EventMask(mClientData) /\ Setting(mEvtMask)' = Setting(mEvtMask)
  BY DEF EventMask, Setting
<1> DEFINE G == Setting(mEvtMask)
<1>3. LastIn(msgs, MaskMsg, G)
  BY DEF MaskInv
<1> HIDE DEF G
<1>4. LastIn(msgs', MaskMsg, G) /\ (NoneIn(msgs', MaskMsg) => NoneIn(msgs, MaskMsg))
  <2>1. CASE UNCHANGED msgs
    BY <1>3, <2>1
  <2>2. CASE \E m \in Msg : m \notin MaskMsg /\ msgs' = Append(msgs, m)
    <3>1. PICK m \in Msg : m \notin MaskMsg /\ msgs' = Append(msgs, m)
      BY <2>2
    <3> QED
      BY <1>1, <1>3, <3>1, LastAppend
  <2>3. CASE msgs # <<>> /\ msgs[1] \notin MaskMsg /\ msgs' = Tail(msgs)
    <3>1. G \subseteq MaskMsg
      BY DEF G, Setting
    <3> QED
      BY <1>1, <1>3, <2>3, <3>1, LastTail
  <2> QED
    BY <2>1, <2>2, <2>3
<1> QED
  BY <1>2, <1>4 DEF MaskInv, G

LEMMA MultiplexKeepsMask ==
  ASSUME IInv, NEW o, NEW ok, RunFix(o, ok) \/ LeaveFix(ok)
  PROVE  engine'.up = engine.up /\ engine'.mask = engine.mask
BY EngineType DEF RunFix, LeaveFix

LEMMA StopKeepsMask ==
  ASSUME IInv, NEW s, NEW ok, StopMultiplex(s, ok)
  PROVE  engine'.up = engine.up /\ engine'.mask = engine.mask
<1>1. \E o : RunFix(o, ok) \/ LeaveFix(ok)
  BY DEF StopMultiplex, StopFix, StartFix
<1> QED
  BY <1>1, MultiplexKeepsMask

LEMMA CallKeepsMask ==
  ASSUME IInv, MaskInv, Call
  PROVE  MaskInv'
<1> DEFINE Quiet == /\ UNCHANGED <<mClientData, mEvtMask, engine>>
                    /\ UNCHANGED msgs \/ \E m \in Msg : m \notin MaskMsg /\ msgs' = Append(msgs, m)
<1>1. ASSUME NEW c \in Clients, NEW cbs \in CallbackSets, CreateInstance(c, cbs) \/ UpdateCallbacks(c, cbs)
      PROVE  Quiet
  <2> DEFINE m == [type |-> "addClient", client |-> c, cbs |-> cbs \cap Callbacks]
  <2>1. m \in Msg /\ m \notin MaskMsg
    BY CallbacksMade, MsgsMade DEF MaskMsg
  <2> QED
    BY <1>1, <2>1 DEF CreateInstance, UpdateCallbacks, Post
<1>2. ASSUME NEW c \in Clients, Destroy(c)
      PROVE  Quiet
  <2> DEFINE m == [type |-> "removeClient", client |-> c]
  <2>1. m \in Msg /\ m \notin MaskMsg
    BY MsgsMade DEF MaskMsg
  <2> QED
    BY <1>2, <2>1 DEF Destroy, Post
<1>3. ASSUME NEW s \in Sessions, NEW o \in Options \cup {NULL}, StartTracking(s, o) \/ UpdateTrackingOptions(s, o)
      PROVE  Quiet
  <2> DEFINE m == [type |-> "start", session |-> s, options |-> o]
             n == [type |-> "update", session |-> s, options |-> o]
  <2>1. m \in Msg /\ m \notin MaskMsg /\ n \in Msg /\ n \notin MaskMsg
    BY MsgsMade DEF MaskMsg
  <2> QED
    BY <1>3, <2>1 DEF StartTracking, UpdateTrackingOptions, Post
<1>4. ASSUME NEW s \in Sessions, StopTracking(s)
      PROVE  Quiet
  <2> DEFINE m == [type |-> "stop", session |-> s]
  <2>1. m \in Msg /\ m \notin MaskMsg
    BY MsgsMade DEF MaskMsg
  <2> QED
    BY <1>4, <2>1 DEF StopTracking, Post
<1>5. Quiet
  BY <1>1, <1>2, <1>3, <1>4, MayRegisterIs DEF Call
<1> QED
  BY <1>5, MaskKept

LEMMA MaskPostedIs ==
  ASSUME IInv, msgs # <<>>, NEW data \in [Clients -> (SUBSET Callbacks) \cup {NULL}],
         UpdateClientsEventMask(data), mClientData' = data
  PROVE  MaskInv'
<1> DEFINE m == [type |-> "open", mask |-> EventMask(data)]
<1>1. EventMask(data) \in SUBSET Callbacks /\ m \in Msg
  BY EventMaskType, MsgsMade
<1>2. mEvtMask' = EventMask(data) /\ msgs' = Append(Tail(msgs), m) /\ EventMask(mClientData)' = EventMask(data)
  BY DEF UpdateClientsEventMask, EventMask
<1> DEFINE G == Setting(mEvtMask')
<1>3. m \in MaskMsg /\ m \in G
  BY <1>1, <1>2 DEF MaskMsg, Setting
<1> HIDE DEF m, G
<1>4. Tail(msgs) \in Seq(Msg)
  BY HeadTail DEF IInv, Types
<1>5. LastIn(msgs', MaskMsg, G) /\ ~NoneIn(msgs', MaskMsg)
  BY <1>1, <1>2, <1>3, <1>4, LastAppend
<1>6. G = Setting(mEvtMask)'
  BY DEF G, Setting
<1> QED
  BY <1>2, <1>5, <1>6 DEF MaskInv

\* Handling a message about events: the engine takes the mask it sets.
LEMMA RegisterKeepsMask ==
  ASSUME IInv, MaskInv, msgs # <<>>, msgs[1] \in MaskMsg, msgs' = Tail(msgs),
         UNCHANGED <<mClientData, mEvtMask>>,
         NEW mask, Register(mask), msgs[1] \in Setting(mEvtMask) => mask = mEvtMask
  PROVE  MaskInv'
<1>1. msgs \in Seq(Msg)
  BY DEF IInv, Types
<1>2. EventMask(mClientData)' = EventMask(mClientData) /\ Setting(mEvtMask)' = Setting(mEvtMask)
  BY DEF EventMask, Setting
<1> DEFINE G == Setting(mEvtMask)
<1>3. LastIn(msgs, MaskMsg, G)
  BY DEF MaskInv
<1> HIDE DEF G
<1>4. LastIn(msgs', MaskMsg, G) /\ (NoneIn(msgs', MaskMsg) => msgs[1] \in G)
  BY <1>1, <1>3, LastTail
<1>5. engine'.up => engine'.mask = mask
  BY EngineType DEF Register
<1> QED
  BY <1>2, <1>4, <1>5 DEF MaskInv, G

LEMMA NextMaskInv ==
  ASSUME IInv, MaskInv, [Next]_vars
  PROVE  MaskInv'
<1> USE DEF Handle, Done
<1>1. ASSUME NEW type, Handle(type), type \notin {"open", "ssr"}
      PROVE  msgs # <<>> /\ msgs[1] \notin MaskMsg
  BY <1>1, HandleTail DEF MaskMsg
<1>2. CASE AddClient
  <2> DEFINE m == Head(msgs)  data == [mClientData EXCEPT ![m.client] = m.cbs]
  <2>1. msgs # <<>> /\ m \in Msg /\ m.type = "addClient"
    BY <1>2, HandleTail DEF AddClient
  <2>2. data \in [Clients -> (SUBSET Callbacks) \cup {NULL}]
    BY <2>1, MsgFields DEF IInv, Types
  <2> QED
    BY <1>2, <2>1, <2>2, MaskPostedIs DEF AddClient
<1>3. CASE EraseClient
  <2> DEFINE data == [mClientData EXCEPT ![removing.client] = NULL]
  <2>1. data \in [Clients -> (SUBSET Callbacks) \cup {NULL}] /\ msgs # <<>>
    BY <1>3 DEF EraseClient, IInv, Types, RemovalInv
  <2> QED
    BY <1>3, <2>1, MaskPostedIs DEF EraseClient
<1>4. CASE RemoveClient
  BY <1>4, MaskKept DEF RemoveClient
<1>5. ASSUME NEW s \in Sessions, StopClientSession(s) PROVE MaskInv'
  <2>1. engine'.up = engine.up /\ engine'.mask = engine.mask
    BY <1>5, StopKeepsMask DEF StopClientSession
  <2> QED
    BY <1>5, <2>1, MaskKept DEF StopClientSession
<1>6. CASE ProcStart
  <2>1. msgs # <<>> /\ msgs[1] \notin MaskMsg
    BY <1>1, <1>6 DEF ProcStart
  <2>2. engine'.up = engine.up /\ engine'.mask = engine.mask
    <3>1. UNCHANGED engine \/ \E o, ok : RunFix(o, ok) \/ LeaveFix(ok)
      BY <1>6 DEF ProcStart, StartMultiplex, StartFix
    <3> QED
      BY <3>1, MultiplexKeepsMask
  <2> QED
    BY <1>6, <2>1, <2>2, MaskKept DEF ProcStart
<1>7. CASE ProcUpdate
  <2>1. msgs # <<>> /\ msgs[1] \notin MaskMsg
    BY <1>1, <1>7 DEF ProcUpdate
  <2>2. engine'.up = engine.up /\ engine'.mask = engine.mask
    <3>1. UNCHANGED engine \/ \E o, ok : RunFix(o, ok) \/ LeaveFix(ok)
      BY <1>7 DEF ProcUpdate, UpdateMultiplex, StartFix
    <3> QED
      BY <3>1, MultiplexKeepsMask
  <2> QED
    BY <1>7, <2>1, <2>2, MaskKept DEF ProcUpdate
<1>8. CASE ProcStop
  <2>1. msgs # <<>> /\ msgs[1] \notin MaskMsg
    BY <1>1, <1>8 DEF ProcStop
  <2>2. engine'.up = engine.up /\ engine'.mask = engine.mask
    BY <1>8, StopKeepsMask DEF ProcStop
  <2> QED
    BY <1>8, <2>1, <2>2, MaskKept DEF ProcStop
<1>9. CASE ProcOpen
  <2>1. msgs # <<>> /\ msgs[1] \in Msg /\ msgs[1].type = "open" /\ Head(msgs) = msgs[1]
    BY <1>9, HandleTail DEF ProcOpen
  <2>2. msgs[1] \in MaskMsg /\ (msgs[1] \in Setting(mEvtMask) => Head(msgs).mask = mEvtMask)
    BY <2>1 DEF MaskMsg, Setting
  <2> QED
    BY <1>9, <2>1, <2>2, RegisterKeepsMask DEF ProcOpen
<1>10. CASE ProcSsr
  <2>1. msgs # <<>> /\ msgs[1] \in Msg /\ msgs[1].type = "ssr"
    BY <1>10, HandleTail DEF ProcSsr
  <2>2. msgs[1] \in MaskMsg
    BY <2>1 DEF MaskMsg
  <2> QED
    BY <1>10, <2>1, <2>2, RegisterKeepsMask DEF ProcSsr
<1>11. CASE RestartSessions
  <2>1. msgs # <<>> /\ msgs[1] \notin MaskMsg
    BY <1>1, <1>11 DEF RestartSessions
  <2>2. engine'.up = engine.up /\ engine'.mask = engine.mask
    <3>1. UNCHANGED engine \/ \E o, ok : RunFix(o, ok) \/ LeaveFix(ok)
      BY <1>11 DEF RestartSessions, StartFix
    <3> QED
      BY <3>1, MultiplexKeepsMask
  <2> QED
    BY <1>11, <2>1, <2>2, MaskKept DEF RestartSessions
<1>12. CASE EngineDown
  <2>1. ~engine'.up /\ UNCHANGED <<mClientData, mEvtMask, msgs>>
    BY <1>12 DEF EngineDown
  <2> QED
    BY <2>1 DEF MaskInv, EventMask, Setting
<1>13. CASE EngineUp
  <2> DEFINE ssr == [type |-> "ssr"]  restart == [type |-> "restart"]  G == Setting(mEvtMask)
  <2>1. ssr \in Msg /\ restart \in Msg /\ ssr \in MaskMsg /\ ssr \in G /\ restart \notin MaskMsg
    BY MsgsMade DEF MaskMsg, Setting
  <2>2. msgs \in Seq(Msg) /\ msgs' = Append(Append(msgs, ssr), restart)
    BY <1>13, EngineType DEF EngineUp
  <2> HIDE DEF ssr, restart
  <2>3. EventMask(mClientData)' = EventMask(mClientData) /\ Setting(mEvtMask)' = G /\ mEvtMask' = mEvtMask
    BY <1>13 DEF EngineUp, EventMask, Setting
  <2> HIDE DEF G
  <2>4. Append(msgs, ssr) \in Seq(Msg) /\ LastIn(Append(msgs, ssr), MaskMsg, G)
        /\ ~NoneIn(Append(msgs, ssr), MaskMsg)
    BY <2>1, <2>2, LastAppend, Appended
  <2>5. LastIn(msgs', MaskMsg, G) /\ ~NoneIn(msgs', MaskMsg)
    BY <2>1, <2>2, <2>4, LastAppend
  <2> QED
    BY <2>3, <2>5 DEF MaskInv
<1>14. CASE UNCHANGED vars
  BY <1>14, MaskKept DEF vars
<1> QED
  BY <1>2, <1>3, <1>4, <1>5, <1>6, <1>7, <1>8, <1>9, <1>10, <1>11, <1>12, <1>13, <1>14, CallKeepsMask
     DEF Next, Proc

(***************************************************************************)
(* updateClientsEventMask() and the renegotiation after a restart: the     *)
(* engine reports the events the clients want when no message is left that *)
(* would tell it.                                                          *)
(***************************************************************************)
THEOREM EventsAreWanted == Spec => []EventsWanted
<1>1. IInv /\ MaskInv => EventsWanted
  <2> SUFFICES ASSUME IInv, MaskInv, engine.up, \A i \in DOMAIN msgs : msgs[i].type \notin {"open", "ssr"}
               PROVE  engine.mask = EventMask(mClientData)
    BY DEF EventsWanted
  <2>1. NoneIn(msgs, MaskMsg)
    BY DEF NoneIn, MaskMsg, IInv, Types
  <2> QED
    BY <2>1 DEF MaskInv
<1>2. Init => IInv /\ MaskInv
  BY InitIInv, InitMaskInv
<1>3. IInv /\ MaskInv /\ [Next]_vars => IInv' /\ MaskInv'
  BY NextIInv, NextMaskInv
<1> QED
  BY <1>1, <1>2, <1>3, PTL DEF Spec

-----------------------------------------------------------------------------
(***************************************************************************)
(* Clients: an instance is listed with the adapter when it has a callback  *)
(* of the gnss interface, or has had one and was never removed.  The last  *)
(* message about a client adds it or removes it accordingly, and the       *)
(* adapter knows it accordingly when there is none.                        *)
(***************************************************************************)
ClientMsgs(c) == {m \in Msg : m.type \in {"addClient", "removeClient"} /\ m.client = c}
Removals(c)   == {m \in ClientMsgs(c) : m.type = "removeClient"}
Additions(c)  == {m \in ClientMsgs(c) : m.type = "addClient"}

Registered(c) == clientData[c] # NULL /\ IsGnssClient(clientData[c])
Listed(c)     == c \in dropped \/ Registered(c)
Latest(c)     == IF Listed(c) THEN Additions(c) ELSE Removals(c)

Told(c) ==
  /\ LastIn(msgs, ClientMsgs(c), Latest(c))
  /\ NoneIn(msgs, ClientMsgs(c)) => (mClientData[c] # NULL <=> Listed(c))
  /\ Registered(c) => c \notin dropped

ClientInv == \A c \in Clients : Told(c)

LEMMA InitClientInv ==
  Init => ClientInv
<1> SUFFICES ASSUME Init PROVE ClientInv
  OBVIOUS
<1>1. msgs = <<>> /\ dropped = {} /\ \A c \in Clients : mClientData[c] = NULL /\ clientData[c] = NULL
  BY DEF Init
<1> QED
  BY <1>1 DEF ClientInv, Told, LastIn, NoneIn, Listed, Registered

\* The messages about a client are constant; what Told says after a step.
LEMMA ToldIs ==
  ASSUME NEW c \in Clients, LastIn(msgs', ClientMsgs(c), Latest(c)'),
         NoneIn(msgs', ClientMsgs(c)) => (mClientData'[c] # NULL <=> Listed(c)'),
         Registered(c)' => c \notin dropped'
  PROVE  Told(c)'
BY DEF Told, LastIn, NoneIn, ClientMsgs

LEMMA LatestKept ==
  ASSUME NEW c \in Clients, Listed(c)' <=> Listed(c)
  PROVE  Latest(c)' = Latest(c)
BY DEF Latest, Additions, Removals, ClientMsgs

\* Steps that handle or post no message about the client c.
LEMMA ClientKept ==
  ASSUME IInv, ClientInv, NEW c \in Clients, Listed(c)' <=> Listed(c), mClientData'[c] = mClientData[c],
         Registered(c)' => c \notin dropped',
         \/ UNCHANGED msgs
         \/ \E m \in Msg : m \notin ClientMsgs(c) /\ msgs' = Append(msgs, m)
         \/ msgs # <<>> /\ msgs[1] \notin ClientMsgs(c) /\ msgs' = Tail(msgs)
         \/ msgs # <<>> /\ msgs[1] \notin ClientMsgs(c)
            /\ \E m \in Msg : m \notin ClientMsgs(c) /\ msgs' = Append(Tail(msgs), m)
  PROVE  Told(c)'
<1> DEFINE K == ClientMsgs(c)  G == Latest(c)
<1>1. msgs \in Seq(Msg)
  BY DEF IInv, Types
<1>2. LastIn(msgs, K, G) /\ (NoneIn(msgs, K) => (mClientData[c] # NULL <=> Listed(c)))
  BY DEF ClientInv, Told
<1>3. G \subseteq K
  BY DEF Latest, Removals, Additions
<1> SUFFICES LastIn(msgs', K, G) /\ (NoneIn(msgs', K) => NoneIn(msgs, K))
  BY <1>2, LatestKept, ToldIs
<1> HIDE DEF K, G
<1>4. CASE UNCHANGED msgs
  BY <1>2, <1>4
<1>5. ASSUME NEW m \in Msg, m \notin K, msgs' = Append(msgs, m)
      PROVE  LastIn(msgs', K, G) /\ (NoneIn(msgs', K) => NoneIn(msgs, K))
  BY <1>1, <1>2, <1>5, LastAppend
<1>6. CASE msgs # <<>> /\ msgs[1] \notin K /\ msgs' = Tail(msgs)
  BY <1>1, <1>2, <1>3, <1>6, LastTail
<1>7. ASSUME msgs # <<>>, msgs[1] \notin K, NEW m \in Msg, m \notin K, msgs' = Append(Tail(msgs), m)
      PROVE  LastIn(msgs', K, G) /\ (NoneIn(msgs', K) => NoneIn(msgs, K))
  <2>1. Tail(msgs) \in Seq(Msg) /\ LastIn(Tail(msgs), K, G) /\ (NoneIn(Tail(msgs), K) => NoneIn(msgs, K))
    BY <1>1, <1>2, <1>3, <1>7, LastTail, HeadTail
  <2> QED
    BY <1>7, <2>1, LastAppend
<1> QED
  BY <1>4, <1>5, <1>6, <1>7 DEF K

\* The step of a call of the instance d that posts m, if it is of the gnss
\* interface: Listed then says what m does.
LEMMA PostedIsLatest ==
  ASSUME IInv, NEW c \in Clients, NEW m \in Latest(c)', msgs' = Append(msgs, m),
         Registered(c)' => c \notin dropped'
  PROVE  Told(c)'
<1>1. m \in ClientMsgs(c) /\ m \in Msg /\ msgs \in Seq(Msg)
  BY DEF Latest, Additions, Removals, ClientMsgs, IInv, Types
<1> DEFINE G == Latest(c)'
<1>2. LastIn(msgs', ClientMsgs(c), G) /\ ~NoneIn(msgs', ClientMsgs(c))
  <2> HIDE DEF G
  <2> SUFFICES m \in G
    BY <1>1, LastAppend
  <2> QED
    BY DEF G
<1> QED
  BY <1>2, ToldIs

LEMMA CallKeepsClients ==
  ASSUME IInv, ClientInv, Call
  PROVE  ClientInv'
<1> SUFFICES ASSUME NEW c \in Clients PROVE Told(c)'
  BY DEF ClientInv
<1>0. clientData \in [Clients -> CallbackSets \cup {NULL}] /\ msgs \in Seq(Msg) /\ Told(c)
  BY DEF ClientInv, IInv, Types
<1>1. ASSUME NEW d \in Clients, NEW cbs \in CallbackSets, CreateInstance(d, cbs) \/ UpdateCallbacks(d, cbs)
      PROVE  Told(c)'
  <2> DEFINE m == [type |-> "addClient", client |-> d, cbs |-> cbs \cap Callbacks]
  <2>1. clientData' = [clientData EXCEPT ![d] = cbs] /\ mClientData' = mClientData /\ cbs # NULL
    BY <1>1, CallbacksMade DEF CreateInstance, UpdateCallbacks
  <2>2. m \in Msg /\ m.client = d /\ m.type = "addClient"
    BY CallbacksMade, MsgsMade
  <2>3. CASE d # c
    <3>1. Registered(c)' <=> Registered(c)
      BY <1>0, <2>1, <2>3 DEF Registered
    <3>2. c \in dropped' <=> c \in dropped
      BY <1>1, <2>3 DEF CreateInstance, UpdateCallbacks
    <3>3. UNCHANGED msgs \/ \E n \in Msg : n \notin ClientMsgs(c) /\ msgs' = Append(msgs, n)
      <4>1. m \notin ClientMsgs(c)
        BY <2>2, <2>3 DEF ClientMsgs
      <4>2. UNCHANGED msgs \/ msgs' = Append(msgs, m)
        BY <1>1 DEF CreateInstance, UpdateCallbacks, Post
      <4> QED
        BY <2>2, <4>1, <4>2
    <3> QED
      BY <1>0, <2>1, <3>1, <3>2, <3>3, ClientKept DEF Listed, Told
  <2>4. CASE d = c /\ IsGnssClient(cbs)
    <3>1. c \notin dropped' /\ msgs' = Append(msgs, m)
      BY <1>1, <2>4 DEF CreateInstance, UpdateCallbacks, Post
    <3>2. Registered(c)'
      BY <1>0, <2>1, <2>4 DEF Registered
    <3>3. m \in Latest(c)'
      BY <2>2, <2>4, <3>2 DEF Latest, Listed, Additions, ClientMsgs
    <3> HIDE DEF m
    <3> QED
      BY <3>1, <3>3, PostedIsLatest
  <2>5. CASE d = c /\ ~IsGnssClient(cbs)
    <3>1. UNCHANGED msgs
      BY <1>1, <2>5 DEF CreateInstance, UpdateCallbacks
    <3>2. ~Registered(c)'
      BY <1>0, <2>1, <2>5 DEF Registered
    <3>3. c \in dropped' <=> (c \in dropped \/ Registered(c))
      BY <1>1, <2>5 DEF CreateInstance, UpdateCallbacks, Registered
    <3> QED
      BY <2>1, <3>1, <3>2, <3>3, ClientKept DEF Listed
  <2> QED
    BY <2>3, <2>4, <2>5
<1>2. ASSUME NEW d \in Clients, Destroy(d)
      PROVE  Told(c)'
  <2> DEFINE m == [type |-> "removeClient", client |-> d]
  <2>1. clientData' = [clientData EXCEPT ![d] = NULL] /\ UNCHANGED <<mClientData, dropped>>
    BY <1>2 DEF Destroy
  <2>2. m \in Msg /\ m.client = d /\ m.type = "removeClient"
    BY MsgsMade
  <2>3. CASE d # c
    <3>1. Registered(c)' <=> Registered(c)
      BY <1>0, <2>1, <2>3 DEF Registered
    <3>2. UNCHANGED msgs \/ \E n \in Msg : n \notin ClientMsgs(c) /\ msgs' = Append(msgs, n)
      <4>1. m \notin ClientMsgs(c)
        BY <2>2, <2>3 DEF ClientMsgs
      <4>2. UNCHANGED msgs \/ msgs' = Append(msgs, m)
        BY <1>2 DEF Destroy, Post
      <4> QED
        BY <2>2, <4>1, <4>2
    <3> QED
      BY <1>0, <2>1, <3>1, <3>2, ClientKept DEF Listed, Told
  <2>4. CASE d = c /\ IsGnssClient(clientData[c])
    <3>1. Registered(c) /\ ~Registered(c)'
      BY <1>0, <1>2, <2>1, <2>4 DEF Registered, Destroy
    <3>2. ~Listed(c)'
      BY <1>0, <2>1, <3>1 DEF Listed, Told
    <3>3. m \in Latest(c)'
      BY <2>2, <2>4, <3>2 DEF Latest, Removals, ClientMsgs
    <3>4. msgs' = Append(msgs, m)
      BY <1>2, <2>4 DEF Destroy, Post
    <3> HIDE DEF m
    <3> QED
      BY <3>1, <3>3, <3>4, PostedIsLatest
  <2>5. CASE d = c /\ ~IsGnssClient(clientData[c])
    <3>1. UNCHANGED msgs /\ ~Registered(c) /\ ~Registered(c)'
      BY <1>0, <1>2, <2>1, <2>5 DEF Destroy, Registered
    <3> QED
      BY <2>1, <3>1, ClientKept DEF Listed
  <2> QED
    BY <2>3, <2>4, <2>5
<1>3. ASSUME NEW m \in Msg, m \notin ClientMsgs(c), msgs' = Append(msgs, m),
             UNCHANGED <<clientData, mClientData, dropped>>
      PROVE  Told(c)'
  <2>1. (Registered(c)' <=> Registered(c)) /\ (Listed(c)' <=> Listed(c))
    BY <1>3 DEF Registered, Listed
  <2> QED
    BY <1>0, <1>3, <2>1, ClientKept DEF Told
<1>4. ASSUME NEW s \in Sessions, NEW o \in Options \cup {NULL}, StartTracking(s, o) \/ UpdateTrackingOptions(s, o)
      PROVE  Told(c)'
  <2> DEFINE m == [type |-> "start", session |-> s, options |-> o]
             n == [type |-> "update", session |-> s, options |-> o]
  <2>1. m \in Msg /\ m \notin ClientMsgs(c) /\ n \in Msg /\ n \notin ClientMsgs(c)
    BY MsgsMade DEF ClientMsgs
  <2>2. UNCHANGED <<clientData, mClientData, dropped>> /\ (msgs' = Append(msgs, m) \/ msgs' = Append(msgs, n))
    BY <1>4 DEF StartTracking, UpdateTrackingOptions, Post
  <2> HIDE DEF m, n
  <2> QED
    BY <2>1, <2>2, <1>3
<1>5. ASSUME NEW s \in Sessions, StopTracking(s)
      PROVE  Told(c)'
  <2> DEFINE m == [type |-> "stop", session |-> s]
  <2>1. m \in Msg /\ m \notin ClientMsgs(c)
    BY MsgsMade DEF ClientMsgs
  <2>2. UNCHANGED <<clientData, mClientData, dropped>> /\ msgs' = Append(msgs, m)
    BY <1>5 DEF StopTracking, Post
  <2> HIDE DEF m
  <2> QED
    BY <2>1, <2>2, <1>3
<1> QED
  BY <1>1, <1>2, <1>4, <1>5, MayRegisterIs DEF Call

LEMMA NextClientInv ==
  ASSUME IInv, ClientInv, [Next]_vars
  PROVE  ClientInv'
<1>1. CASE Call
  BY <1>1, CallKeepsClients
<1>2. CASE ~Call
  <2> SUFFICES ASSUME NEW c \in Clients PROVE Told(c)'
    BY DEF ClientInv
  <2>1. UNCHANGED <<clientData, dropped>>
    BY <1>2 DEF Next, Proc, AddClient, RemoveClient, EraseClient, StopClientSession, ProcStart, ProcUpdate,
       ProcStop, ProcOpen, ProcSsr, RestartSessions, EngineDown, EngineUp, vars
  <2>2. (Registered(c)' <=> Registered(c)) /\ (Listed(c)' <=> Listed(c))
        /\ (Registered(c)' => c \notin dropped') /\ Latest(c)' = Latest(c)
    <3>1. (Registered(c)' <=> Registered(c)) /\ (Listed(c)' <=> Listed(c))
      BY <2>1 DEF Registered, Listed
    <3> QED
      BY <2>1, <3>1, LatestKept DEF ClientInv, Told
  <2>3. LastIn(msgs, ClientMsgs(c), Latest(c)) /\ msgs \in Seq(Msg)
        /\ mClientData \in [Clients -> (SUBSET Callbacks) \cup {NULL}]
    BY DEF ClientInv, Told, IInv, Types
  <2>4. CASE AddClient
    <3> DEFINE m == Head(msgs)  data == [mClientData EXCEPT ![m.client] = m.cbs]
               open == [type |-> "open", mask |-> EventMask(data)]
    <3>1. msgs # <<>> /\ m \in Msg /\ m.type = "addClient" /\ m = msgs[1]
      BY <2>4, HandleTail DEF AddClient
    <3>2. m.client \in Clients /\ m.cbs \in SUBSET Callbacks /\ m.cbs # NULL
      BY <3>1, MsgFields, TrackingAssumption
    <3>3. data \in [Clients -> (SUBSET Callbacks) \cup {NULL}]
      BY <2>3, <3>2
    <3>4. open \in Msg /\ open \notin ClientMsgs(c)
      BY <3>3, EventMaskType, MsgsMade DEF ClientMsgs
    <3>5. mClientData' = data /\ msgs' = Append(Tail(msgs), open)
      BY <2>4 DEF AddClient, UpdateClientsEventMask
    <3> HIDE DEF open
    <3>6. CASE m.client = c
      <4>1. m \in ClientMsgs(c) /\ m \notin Removals(c) /\ mClientData'[c] # NULL
        BY <2>3, <3>1, <3>2, <3>5, <3>6 DEF ClientMsgs, Removals
      <4>2. LastIn(Tail(msgs), ClientMsgs(c), Latest(c)) /\ Tail(msgs) \in Seq(Msg)
            /\ (NoneIn(Tail(msgs), ClientMsgs(c)) => m \in Latest(c))
        BY <2>3, <3>1, <4>1, LastTail, HeadTail
      <4>3. LastIn(msgs', ClientMsgs(c), Latest(c))
            /\ (NoneIn(msgs', ClientMsgs(c)) => NoneIn(Tail(msgs), ClientMsgs(c)))
        BY <3>4, <3>5, <4>2, LastAppend
      <4>4. m \in Latest(c) => Listed(c)
        BY <4>1 DEF Latest
      <4> QED
        BY <2>2, <4>1, <4>2, <4>3, <4>4, ToldIs
    <3>7. CASE m.client # c
      <4>1. m \notin ClientMsgs(c) /\ mClientData'[c] = mClientData[c]
        BY <2>3, <3>5, <3>7 DEF ClientMsgs
      <4> HIDE DEF m
      <4> QED
        BY <2>2, <3>1, <3>4, <3>5, <4>1, ClientKept
    <3> QED
      BY <3>6, <3>7
  <2>5. CASE EraseClient
    <3> DEFINE d == removing.client  data == [mClientData EXCEPT ![d] = NULL]
               open == [type |-> "open", mask |-> EventMask(data)]
    <3>1. msgs # <<>> /\ msgs[1].type = "removeClient" /\ msgs[1].client = d /\ msgs[1] \in Msg
      BY <2>3, <2>5, HeadTail DEF EraseClient, IInv, RemovalInv
    <3>2. data \in [Clients -> (SUBSET Callbacks) \cup {NULL}]
      BY <2>3
    <3>3. open \in Msg /\ open \notin ClientMsgs(c)
      BY <3>2, EventMaskType, MsgsMade DEF ClientMsgs
    <3>4. mClientData' = data /\ msgs' = Append(Tail(msgs), open)
      BY <2>5 DEF EraseClient, UpdateClientsEventMask
    <3> HIDE DEF open
    <3>5. CASE d = c
      <4>1. msgs[1] \in ClientMsgs(c) /\ msgs[1] \notin Additions(c) /\ mClientData'[c] = NULL
        BY <2>3, <3>1, <3>4, <3>5 DEF ClientMsgs, Additions
      <4>2. LastIn(Tail(msgs), ClientMsgs(c), Latest(c)) /\ Tail(msgs) \in Seq(Msg)
            /\ (NoneIn(Tail(msgs), ClientMsgs(c)) => msgs[1] \in Latest(c))
        BY <2>3, <3>1, <4>1, LastTail, HeadTail
      <4>3. LastIn(msgs', ClientMsgs(c), Latest(c))
            /\ (NoneIn(msgs', ClientMsgs(c)) => NoneIn(Tail(msgs), ClientMsgs(c)))
        BY <3>3, <3>4, <4>2, LastAppend
      <4>4. msgs[1] \in Latest(c) => ~Listed(c)
        BY <4>1 DEF Latest
      <4> QED
        BY <2>2, <4>1, <4>2, <4>3, <4>4, ToldIs
    <3>6. CASE d # c
      <4>1. msgs[1] \notin ClientMsgs(c) /\ mClientData'[c] = mClientData[c]
        BY <2>3, <3>1, <3>4, <3>6 DEF ClientMsgs
      <4> QED
        BY <2>2, <3>1, <3>3, <3>4, <4>1, ClientKept
    <3> QED
      BY <3>5, <3>6
  <2>6. CASE RemoveClient \/ EngineDown \/ UNCHANGED vars \/ \E s \in Sessions : StopClientSession(s)
    <3>1. UNCHANGED <<msgs, mClientData>>
      BY <2>6 DEF RemoveClient, EngineDown, vars, StopClientSession
    <3> QED
      BY <2>2, <3>1, ClientKept
  <2>7. CASE ProcStart \/ ProcUpdate \/ ProcStop \/ ProcOpen \/ ProcSsr \/ RestartSessions
    <3>1. \E type \in {"start", "update", "stop", "open", "ssr", "restart"} : Handle(type)
      BY <2>7 DEF ProcStart, ProcUpdate, ProcStop, ProcOpen, ProcSsr, RestartSessions
    <3>2. msgs # <<>> /\ msgs[1] \notin ClientMsgs(c)
      BY <3>1, HandleTail DEF ClientMsgs
    <3>3. UNCHANGED mClientData /\ msgs' = Tail(msgs)
      BY <2>7 DEF ProcStart, ProcUpdate, ProcStop, ProcOpen, ProcSsr, RestartSessions, Done
    <3> QED
      BY <2>2, <3>2, <3>3, ClientKept
  <2>8. CASE EngineUp
    <3> DEFINE ssr == [type |-> "ssr"]  restart == [type |-> "restart"]
    <3>1. ssr \in Msg /\ restart \in Msg /\ ssr \notin ClientMsgs(c) /\ restart \notin ClientMsgs(c)
      BY MsgsMade DEF ClientMsgs
    <3>2. msgs' = Append(Append(msgs, ssr), restart) /\ mClientData' = mClientData
      BY <2>3, <2>8 DEF EngineUp
    <3> HIDE DEF ssr, restart
    <3>3. Append(msgs, ssr) \in Seq(Msg) /\ LastIn(Append(msgs, ssr), ClientMsgs(c), Latest(c))
          /\ (NoneIn(Append(msgs, ssr), ClientMsgs(c)) => NoneIn(msgs, ClientMsgs(c)))
      BY <2>3, <3>1, LastAppend, Appended
    <3>4. LastIn(msgs', ClientMsgs(c), Latest(c))
          /\ (NoneIn(msgs', ClientMsgs(c)) => NoneIn(msgs, ClientMsgs(c)))
      BY <3>1, <3>2, <3>3, LastAppend
    <3>5. NoneIn(msgs', ClientMsgs(c)) => (mClientData'[c] # NULL <=> Listed(c)')
      BY <2>2, <3>2, <3>4 DEF ClientInv, Told
    <3> QED
      BY <2>2, <3>4, <3>5, ToldIs
  <2> QED
    BY <1>2, <2>4, <2>5, <2>6, <2>7, <2>8 DEF Next, Proc
<1> QED
  BY <1>1, <1>2

(***************************************************************************)
(* Once its messages are handled, the adapter knows a destroyed instance   *)
(* exactly when it had exchanged its callbacks of the gnss interface for   *)
(* others, whatever callbacks the clients register and exchange:           *)
(* updateCallbacks() never removes a client, and ~LocationAPI() only from  *)
(* the interfaces of its last callbacks.                                   *)
(***************************************************************************)
THEOREM DestroyedForgotten == Spec => []DestroyedIsForgotten
<1>1. IInv /\ ClientInv => DestroyedIsForgotten
  <2> SUFFICES ASSUME IInv, ClientInv, NEW c \in Clients, clientData[c] = NULL, ~ClientMsg(c)
               PROVE  mClientData[c] # NULL <=> c \in dropped
    BY DEF DestroyedIsForgotten
  <2>1. NoneIn(msgs, ClientMsgs(c))
    BY DEF NoneIn, ClientMsgs, ClientMsg, IInv, Types
  <2> QED
    BY <2>1 DEF ClientInv, Told, Listed, Registered
<1>2. Init => IInv /\ ClientInv
  BY InitIInv, InitClientInv
<1>3. IInv /\ ClientInv /\ [Next]_vars => IInv' /\ ClientInv'
  BY NextIInv, NextClientInv
<1> QED
  BY <1>1, <1>2, <1>3, PTL DEF Spec
-----------------------------------------------------------------------------
(***************************************************************************)
(* The restart: while a fix is lost and the engine is up, the message that *)
(* starts it again is queued.                                              *)
(***************************************************************************)
RestartMsg == {m \in Msg : m.type = "restart"}
Lost       == engine.up /\ fix = "lost"
RestartInv == Lost => ~NoneIn(msgs, RestartMsg)

\* A step that loses no fix and handles no restart leaves the message there.
LEMMA RestartKept ==
  ASSUME IInv, RestartInv, Lost' => Lost,
         \/ UNCHANGED msgs
         \/ \E m \in Msg : msgs' = Append(msgs, m)
         \/ /\ msgs # <<>> /\ msgs[1] \notin RestartMsg
            /\ msgs' = Tail(msgs) \/ \E m \in Msg : msgs' = Append(Tail(msgs), m)
  PROVE  RestartInv'
<1>1. msgs \in Seq(Msg)
  BY DEF IInv, Types
<1>2. NoneIn(msgs', RestartMsg) => NoneIn(msgs, RestartMsg)
  <2>1. CASE UNCHANGED msgs
    BY <2>1
  <2>2. CASE \E m \in Msg : msgs' = Append(msgs, m)
    BY <1>1, <2>2, LastAppend
  <2>3. CASE msgs # <<>> /\ msgs[1] \notin RestartMsg /\ (msgs' = Tail(msgs) \/ \E m \in Msg : msgs' = Append(Tail(msgs), m))
    <3>1. Tail(msgs) \in Seq(Msg)
      BY <1>1, <2>3, HeadTail
    <3>2. NoneIn(msgs', RestartMsg) => NoneIn(Tail(msgs), RestartMsg)
      BY <2>3, <3>1, LastAppend
    <3>3. LastIn(msgs, RestartMsg, RestartMsg)
      BY DEF LastIn
    <3>4. NoneIn(Tail(msgs), RestartMsg) => NoneIn(msgs, RestartMsg)
      BY <1>1, <2>3, <3>3, LastTail
    <3> QED
      BY <3>2, <3>4
  <2> QED
    BY <2>1, <2>2, <2>3
<1> QED
  BY <1>2 DEF RestartInv

LEMMA MultiplexKeepsLost ==
  ASSUME IInv, NEW o, NEW ok, RunFix(o, ok) \/ LeaveFix(ok)
  PROVE  Lost' => Lost
BY EngineType DEF RunFix, LeaveFix, Lost

LEMMA StopKeepsLost ==
  ASSUME IInv, NEW s, NEW ok, StopMultiplex(s, ok)
  PROVE  Lost' => Lost
<1>1. \E o : RunFix(o, ok) \/ LeaveFix(ok)
  BY DEF StopMultiplex, StopFix, StartFix
<1> QED
  BY <1>1, MultiplexKeepsLost

LEMMA CallKeepsRestart ==
  ASSUME IInv, RestartInv, Call
  PROVE  RestartInv'
<1> DEFINE Quiet == UNCHANGED <<engine, fix>> /\ (UNCHANGED msgs \/ \E m \in Msg : msgs' = Append(msgs, m))
<1>1. ASSUME NEW c \in Clients, NEW cbs \in CallbackSets, CreateInstance(c, cbs) \/ UpdateCallbacks(c, cbs)
      PROVE  Quiet
  BY <1>1, CallbacksMade, MsgsMade DEF CreateInstance, UpdateCallbacks, Post
<1>2. ASSUME NEW c \in Clients, Destroy(c)
      PROVE  Quiet
  BY <1>2, MsgsMade DEF Destroy, Post
<1>3. ASSUME NEW s \in Sessions, NEW o \in Options \cup {NULL}, StartTracking(s, o) \/ UpdateTrackingOptions(s, o)
      PROVE  Quiet
  BY <1>3, MsgsMade DEF StartTracking, UpdateTrackingOptions, Post
<1>4. ASSUME NEW s \in Sessions, StopTracking(s)
      PROVE  Quiet
  BY <1>4, MsgsMade DEF StopTracking, Post
<1>5. Quiet
  BY <1>1, <1>2, <1>3, <1>4, MayRegisterIs DEF Call
<1> QED
  BY <1>5, RestartKept DEF Lost

LEMMA InitRestartInv == Init => RestartInv
BY DEF Init, RestartInv, Lost

LEMMA NextRestartInv ==
  ASSUME IInv, RestartInv, [Next]_vars
  PROVE  RestartInv'
<1>1. ASSUME NEW type, Handle(type), type # "restart"
      PROVE  msgs # <<>> /\ msgs[1] \notin RestartMsg
  BY <1>1, HandleTail DEF RestartMsg
<1>2. CASE AddClient
  <2> DEFINE m == Head(msgs)  data == [mClientData EXCEPT ![m.client] = m.cbs]
  <2>1. Handle("addClient") /\ UNCHANGED <<engine, fix>>
        /\ msgs' = Append(Tail(msgs), [type |-> "open", mask |-> EventMask(data)])
    BY <1>2 DEF AddClient, UpdateClientsEventMask
  <2>2. m \in Msg /\ m.type = "addClient"
    BY <2>1, HandleTail
  <2>3. data \in [Clients -> (SUBSET Callbacks) \cup {NULL}]
    BY <2>2, MsgFields DEF IInv, Types
  <2>4. [type |-> "open", mask |-> EventMask(data)] \in Msg
    BY <2>3, EventMaskType, MsgsMade
  <2> QED
    BY <1>1, <2>1, <2>4, RestartKept DEF Lost
<1>3. CASE EraseClient
  <2> DEFINE data == [mClientData EXCEPT ![removing.client] = NULL]
  <2>1. /\ UNCHANGED <<engine, fix>> /\ msgs # <<>>
        /\ msgs' = Append(Tail(msgs), [type |-> "open", mask |-> EventMask(data)])
    BY <1>3 DEF EraseClient, UpdateClientsEventMask, IInv, RemovalInv
  <2>2. data \in [Clients -> (SUBSET Callbacks) \cup {NULL}] /\ msgs[1] \notin RestartMsg
    BY <1>3 DEF EraseClient, IInv, Types, RemovalInv, RestartMsg
  <2>3. [type |-> "open", mask |-> EventMask(data)] \in Msg
    BY <2>2, EventMaskType, MsgsMade
  <2> QED
    BY <2>1, <2>2, <2>3, RestartKept DEF Lost
<1>4. CASE RemoveClient
  BY <1>4, RestartKept DEF RemoveClient, Lost
<1>5. ASSUME NEW s \in Sessions, StopClientSession(s) PROVE RestartInv'
  <2>1. Lost' => Lost
    BY <1>5, StopKeepsLost DEF StopClientSession
  <2> QED
    BY <1>5, <2>1, RestartKept DEF StopClientSession
<1>6. CASE ProcStart
  <2>1. Handle("start") /\ msgs' = Tail(msgs)
        /\ (UNCHANGED <<engine, fix>> \/ \E o, ok : RunFix(o, ok) \/ LeaveFix(ok))
    BY <1>6 DEF ProcStart, Done, StartMultiplex, StartFix
  <2>2. Lost' => Lost
    BY <2>1, MultiplexKeepsLost DEF Lost
  <2> QED
    BY <1>1, <2>1, <2>2, RestartKept
<1>7. CASE ProcUpdate
  <2>1. Handle("update") /\ msgs' = Tail(msgs)
        /\ (UNCHANGED <<engine, fix>> \/ \E o, ok : RunFix(o, ok) \/ LeaveFix(ok))
    BY <1>7 DEF ProcUpdate, Done, UpdateMultiplex, StartFix
  <2>2. Lost' => Lost
    BY <2>1, MultiplexKeepsLost DEF Lost
  <2> QED
    BY <1>1, <2>1, <2>2, RestartKept
<1>8. CASE ProcStop
  <2>1. Handle("stop") /\ msgs' = Tail(msgs)
        /\ (UNCHANGED <<engine, fix>> \/ \E s, ok : StopMultiplex(s, ok))
    BY <1>8 DEF ProcStop, Done
  <2>2. Lost' => Lost
    BY <2>1, StopKeepsLost DEF Lost
  <2> QED
    BY <1>1, <2>1, <2>2, RestartKept
<1>9. CASE ProcOpen
  <2>1. Handle("open") /\ msgs' = Tail(msgs) /\ engine'.up = engine.up /\ UNCHANGED fix
    BY <1>9, EngineType DEF ProcOpen, Done, Register
  <2> QED
    BY <1>1, <2>1, RestartKept DEF Lost
<1>10. CASE ProcSsr
  <2>1. Handle("ssr") /\ msgs' = Tail(msgs) /\ engine'.up = engine.up /\ UNCHANGED fix
    BY <1>10, EngineType DEF ProcSsr, Done, Register
  <2> QED
    BY <1>1, <2>1, RestartKept DEF Lost
\* An engine that is up starts the fix, or refuses: then it is given up.
<1>11. CASE RestartSessions
  <2>1. ~Lost'
    BY <1>11 DEF RestartSessions, StartFix, RunFix, Lost, IInv, Types
  <2> QED
    BY <2>1 DEF RestartInv
<1>12. CASE EngineDown
  BY <1>12 DEF EngineDown, RestartInv, Lost
<1>13. CASE EngineUp
  <2> DEFINE ssr == [type |-> "ssr"]  restart == [type |-> "restart"]
  <2>1. ssr \in Msg /\ restart \in Msg /\ restart \in RestartMsg
    BY MsgsMade DEF RestartMsg
  <2>2. msgs \in Seq(Msg) /\ msgs' = Append(Append(msgs, ssr), restart)
    BY <1>13, EngineType DEF EngineUp, IInv, Types
  <2> HIDE DEF ssr, restart
  <2>3. ~NoneIn(msgs', RestartMsg)
    BY <2>1, <2>2, LastAppend, Appended
  <2> QED
    BY <2>3 DEF RestartInv
<1>14. CASE UNCHANGED vars
  BY <1>14, RestartKept DEF vars, Lost
<1> QED
  BY <1>2, <1>3, <1>4, <1>5, <1>6, <1>7, <1>8, <1>9, <1>10, <1>11, <1>12, <1>13, <1>14, CallKeepsRestart
     DEF Next, Proc

(***************************************************************************)
(* handleEngineUpEvent(): an engine that is up with its fix lost has the   *)
(* restart in the queue, however often it went down and whatever the       *)
(* clients did meanwhile; the handler leaves no fix lost.  With fairness,  *)
(* FixRestarted follows.                                                   *)
(***************************************************************************)
THEOREM LostFixHasRestart ==
  Spec => /\ [](engine.up /\ fix = "lost" => \E i \in DOMAIN msgs : msgs[i].type = "restart")
          /\ [][RestartSessions => ~(engine'.up /\ fix' = "lost")]_vars
<1>1. IInv /\ RestartInv => (engine.up /\ fix = "lost" => \E i \in DOMAIN msgs : msgs[i].type = "restart")
  BY DEF IInv, Types, RestartInv, Lost, NoneIn, RestartMsg
<1>2. Init => IInv /\ RestartInv
  BY InitIInv, InitRestartInv
<1>3. IInv /\ RestartInv /\ [Next]_vars => IInv' /\ RestartInv'
  BY NextIInv, NextRestartInv
<1>4. IInv /\ RestartSessions => ~(engine'.up /\ fix' = "lost")
  BY DEF RestartSessions, StartFix, RunFix, IInv, Types
<1>5. IInv /\ [Next]_vars => [RestartSessions => ~(engine'.up /\ fix' = "lost")]_vars
  BY <1>4
<1> QED
  BY <1>1, <1>2, <1>3, <1>5, PTL DEF Spec
=============================================================================
