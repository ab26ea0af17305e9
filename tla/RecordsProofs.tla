---------------------------- MODULE RecordsProofs ----------------------------
(***************************************************************************)
(* Parts MCRecords.tla runs side by side, for any tasks, batteries, times  *)
(* and bounds: what comes out of the batch cache, and what is on disk of   *)
(* sessions and PV; and the five together, with the plans and the tariff   *)
(* of PlanningProofs.tla.                                                  *)
(***************************************************************************)
EXTENDS MCRecords, PlanningProofs, FiniteSetTheorems, TLAPS

------------------------------------------------------------------------------
(* HomeAssistant: types, and what a call knows of itself.                  *)

\* A request is under way.
Pending(t) == call[t].at \in {"send", "sent", "served"}

\* What was served is younger than the attempt, and who reads for the cache has the lock.
CallSound(t) ==
    /\ call[t].at = "served" => call[t].data \in 0..world
    /\ Pending(t) => call[t].real <= call[t].waited
    /\ Pending(t) /\ call[t].op \in Locked => holder = t

HaInv ==
    /\ HaTypeOK
    /\ \A t \in Task : CallSound(t) /\ wrote[t] <= world

\* The constants, one at a time.
LEMMA HaConstants ==
    /\ Ttl \in Nat /\ Ttl > 0 /\ Timeout \in Nat /\ Timeout > 0
    /\ Attempts \in Nat /\ Attempts > 0 /\ MaxWorld \in Nat /\ Nobody \notin Task
BY HaAssumption DEF Nobody

\* A call that begins is one.
LEMMA NewCallType ==
    ASSUME NEW op \in Op, NEW at \in {"lock", "send", "sent", "served", "answered"}
    PROVE  /\ NewCall(op, at) \in Call /\ NewCall(op, at).op = op /\ NewCall(op, at).at = at
           /\ NewCall(op, at).hit = FALSE /\ NewCall(op, at).real = NewCall(op, at).waited
           /\ NewCall(op, at).real <= NewCall(op, at).waited
<1>1. 1 \in 1..Attempts /\ 0 \in 0..Ttl /\ 0 \in 0..Timeout /\ 0 \in 0..Ttl + Timeout
      /\ None \in None..MaxWorld
  BY HaConstants DEF None
<1> QED BY <1>1 DEF NewCall, Call

\* Of a step of one task, the others and the cache's invariants see this.
HaFrame(t, c) ==
    /\ c \in Call /\ call' = [call EXCEPT ![t] = c]
    /\ c.at = "served" => c.data \in 0..world'
    /\ c.at \in {"send", "sent", "served"} => c.real <= c.waited
    /\ c.at \in {"send", "sent", "served"} /\ c.op \in Locked => holder' = t
    /\ world' \in 0..MaxWorld /\ world <= world'
    /\ cache' \in [data : None..MaxWorld, age : 0..Ttl, real : 0..Ttl + Timeout]
    /\ holder' \in Task \cup {Nobody}
    /\ \A u \in Task : u # t /\ holder = u => holder' = u
    /\ wrote' \in [Task -> 0..MaxWorld] /\ overtaken' \in [Task -> BOOLEAN]
    /\ \A u \in Task : wrote'[u] <= world'

\* Which is enough for the invariant.
LEMMA HaFramed ==
    ASSUME HaInv, NEW t \in Task, NEW c, HaFrame(t, c)
    PROVE  HaInv'
<1> USE DEF HaInv, HaFrame
<1>1. call \in [Task -> Call] /\ world \in 0..MaxWorld /\ MaxWorld \in Nat
  BY HaConstants DEF HaTypeOK
<1>2. call'[t] = c /\ \A u \in Task : u # t => call'[u] = call[u]
  BY <1>1
<1>3. HaTypeOK'
  BY <1>1 DEF HaTypeOK
<1>4. ASSUME NEW u \in Task PROVE CallSound(u)'
  <2>1. CASE u = t
    BY <1>2, <2>1 DEF CallSound, Pending
  <2>2. CASE u # t
    <3>1. CallSound(u) /\ call'[u] = call[u] /\ (holder = u => holder' = u)
      BY <1>2, <2>2
    <3>2. call[u].data \in 0..world => call[u].data \in 0..world'
      BY <1>1
    <3> QED BY <3>1, <3>2 DEF CallSound, Pending
  <2> QED BY <2>1, <2>2
<1> QED BY <1>3, <1>4

\* A client that has just started has no call and no cache.
LEMMA HaInvInit == HaInit => HaInv
<1> SUFFICES ASSUME HaInit PROVE HaInv
  OBVIOUS
<1>1. call \in [Task -> Call] /\ \A t \in Task : call[t].at = "answered"
  BY NewCallType DEF HaInit, Op
<1>2. cache \in [data : None..MaxWorld, age : 0..Ttl, real : 0..Ttl + Timeout]
  BY HaConstants DEF HaInit, NoCache, None
<1> QED BY <1>1, <1>2, HaConstants DEF HaInit, HaInv, HaTypeOK, CallSound, Pending

\* Each part of a call keeps the invariant.
LEMMA HaInvStep == HaInv /\ [HaNext]_haVars => HaInv'
<1> SUFFICES ASSUME HaInv, [HaNext]_haVars PROVE HaInv'
  OBVIOUS
<1> USE DEF HaInv
<1>0. /\ world \in 0..MaxWorld /\ MaxWorld \in Nat /\ world \in Int
      /\ cache \in [data : None..MaxWorld, age : 0..Ttl, real : 0..Ttl + Timeout]
      /\ holder \in Task \cup {Nobody} /\ call \in [Task -> Call]
      /\ wrote \in [Task -> 0..MaxWorld] /\ overtaken \in [Task -> BOOLEAN]
      /\ \A t \in Task : call[t] \in Call /\ wrote[t] <= world
  BY HaConstants DEF HaTypeOK
<1>c. NoCache \in [data : None..MaxWorld, age : 0..Ttl, real : 0..Ttl + Timeout]
  BY HaConstants DEF NoCache, None
<1>1. ASSUME NEW t \in Task, Begin(t) PROVE HaInv'
  <2>1. PICK op \in Calls[t] : call' = [call EXCEPT ![t] = NewCall(op, IF op \in Locked THEN "lock" ELSE "send")]
    BY <1>1 DEF Begin, Set
  <2>2. op \in Op
    BY HaAssumption DEF Op
  <2> DEFINE at == IF op \in Locked THEN "lock" ELSE "send"
             c == NewCall(op, at)
  <2>3. c \in Call /\ c.op = op /\ c.at = at /\ at \in {"lock", "send"} /\ c.real <= c.waited
    BY <2>2, NewCallType
  <2>4. at = "send" => op \notin Locked
    OBVIOUS
  <2>5. call' = [call EXCEPT ![t] = c] /\ UNCHANGED <<world, cache, holder, wrote, overtaken>>
    BY <1>1, <2>1 DEF Begin
  <2> HIDE DEF c, at
  <2>6. HaFrame(t, c)
    BY <1>0, <2>3, <2>4, <2>5 DEF HaFrame
  <2> QED BY <2>6, HaFramed
<1>2. ASSUME NEW t \in Task, Batch(t) PROVE HaInv'
  <2>1. CASE Fresh
    <3> DEFINE c == [NewCall("batch", "answered") EXCEPT
                       !.data = cache.data, !.real = cache.real, !.hit = TRUE]
    <3>1. NewCall("batch", "answered") \in Call /\ NewCall("batch", "answered").at = "answered"
      BY NewCallType DEF Op
    <3>2. c \in Call /\ c.at = "answered"
      BY <1>0, <3>1 DEF Call
    <3>3. call' = [call EXCEPT ![t] = c] /\ UNCHANGED <<world, cache, holder, wrote, overtaken>>
      BY <1>2, <2>1 DEF Batch, Set
    <3> HIDE DEF c
    <3>4. HaFrame(t, c)
      BY <1>0, <3>2, <3>3 DEF HaFrame
    <3> QED BY <3>4, HaFramed
  <2>2. CASE ~Fresh
    <3> DEFINE c == NewCall("batch", "send")
    <3>1. c \in Call /\ c.at = "send" /\ c.real <= c.waited
      BY NewCallType DEF Op
    <3>2. /\ call' = [call EXCEPT ![t] = c] /\ holder' = t /\ holder = Nobody
          /\ UNCHANGED <<world, cache, wrote, overtaken>>
      BY <1>2, <2>2 DEF Batch, Set
    <3> HIDE DEF c
    <3>3. HaFrame(t, c)
      BY <1>0, <3>1, <3>2, HaConstants DEF HaFrame
    <3> QED BY <3>3, HaFramed
  <2> QED BY <2>1, <2>2
<1>3. ASSUME NEW t \in Task, Warm(t) PROVE HaInv'
  <2> DEFINE c == NewCall("warm", "send")
  <2>1. c \in Call /\ c.at = "send" /\ c.real <= c.waited
    BY NewCallType DEF Op
  <2>2. /\ call' = [call EXCEPT ![t] = c] /\ holder' = t /\ holder = Nobody
        /\ cache' = NoCache /\ UNCHANGED <<world, wrote, overtaken>>
    BY <1>3 DEF Warm, Set
  <2> HIDE DEF c
  <2>3. HaFrame(t, c)
    BY <1>0, <1>c, <2>1, <2>2, HaConstants DEF HaFrame
  <2> QED BY <2>3, HaFramed
<1>4. ASSUME NEW t \in Task, Send(t) PROVE HaInv'
  <2> DEFINE c == [call[t] EXCEPT !.at = "sent"]
  <2>1. /\ c \in Call /\ c.at = "sent" /\ c.op = call[t].op
        /\ c.real = call[t].real /\ c.waited = call[t].waited
    BY <1>0 DEF Call
  <2>2. call[t].at = "send" /\ call' = [call EXCEPT ![t] = c]
        /\ UNCHANGED <<world, cache, holder, wrote, overtaken>>
    BY <1>4 DEF Send, Set
  <2> HIDE DEF c
  <2>3. HaFrame(t, c)
    BY <1>0, <2>1, <2>2 DEF HaFrame, CallSound, Pending
  <2> QED BY <2>3, HaFramed
<1>5. ASSUME NEW t \in Task, Serve(t) PROVE HaInv'
  <2> DEFINE c == [call[t] EXCEPT !.at = "served", !.data = world']
  <2>1. call[t].at = "sent" /\ call' = [call EXCEPT ![t] = c]
        /\ UNCHANGED <<cache, holder, wrote, overtaken>>
    BY <1>5 DEF Serve, Set
  <2>2. world' \in 0..MaxWorld /\ world <= world' /\ world' \in None..MaxWorld
    BY <1>0, <1>5 DEF Serve, None
  <2>3. c \in Call /\ c.at = "served" /\ c.op = call[t].op /\ c.data = world'
        /\ c.real = call[t].real /\ c.waited = call[t].waited
    BY <1>0, <2>2 DEF Call
  <2>4. call[t].real <= call[t].waited
    BY <2>1 DEF CallSound, Pending
  <2> HIDE DEF c
  <2>5. HaFrame(t, c)
    BY <1>0, <2>1, <2>2, <2>3, <2>4 DEF HaFrame, CallSound, Pending
  <2> QED BY <2>5, HaFramed
<1>6. ASSUME NEW t \in Task, Receive(t) PROVE HaInv'
  <2> DEFINE c == NewCall(call[t].op, "answered")
  <2>1. call[t].at = "served" /\ call' = [call EXCEPT ![t] = c] /\ cache' = Stored(t)
        /\ holder' = (IF holder = t THEN Nobody ELSE holder) /\ UNCHANGED world
    BY <1>6 DEF Receive, Answer, Set, Release
  <2>2. c \in Call /\ c.at = "answered"
    BY <1>0, NewCallType DEF Call
  <2>3. call[t].data \in 0..world /\ call[t] \in Call
    BY <1>0, <2>1 DEF CallSound
  <2>4. call[t].data \in 0..MaxWorld /\ call[t].data <= world
    BY <1>0, <2>3
  <2>5. cache' \in [data : None..MaxWorld, age : 0..Ttl, real : 0..Ttl + Timeout]
    BY <1>0, <1>c, <2>1, <2>3, HaConstants DEF Stored, Call
  <2>6. wrote' \in [Task -> 0..MaxWorld] /\ overtaken' \in [Task -> BOOLEAN]
    BY <1>0, <1>6, <2>4 DEF Receive
  <2>7. \A u \in Task : wrote'[u] <= world'
    BY <1>0, <1>6, <2>1, <2>4 DEF Receive
  <2> HIDE DEF c
  <2>8. holder' \in Task \cup {Nobody} /\ \A u \in Task : u # t /\ holder = u => holder' = u
    BY <1>0, <2>1
  <2>9. world' \in 0..MaxWorld /\ world <= world'
    BY <1>0, <2>1
  <2>10. call' = [call EXCEPT ![t] = c]
    BY <2>1
  <2>11. HaFrame(t, c)
    BY <2>2, <2>5, <2>6, <2>7, <2>8, <2>9, <2>10 DEF HaFrame
  <2> QED BY <2>11, HaFramed
<1>7. ASSUME NEW t \in Task, Fail(t), Pending(t) PROVE HaInv'
  <2>1. UNCHANGED <<world, cache, wrote, overtaken>>
    BY <1>7 DEF Fail
  <2>2. CASE call[t].op = "batch"
    <3> DEFINE c == NewCall("each", "send")
    <3>1. c \in Call /\ c.at = "send" /\ c.real <= c.waited
      BY NewCallType DEF Op
    <3>2. call' = [call EXCEPT ![t] = c] /\ UNCHANGED holder
      BY <1>7, <2>2 DEF Fail, Set
    <3>3. holder = t
      BY <1>7, <2>2 DEF CallSound, Locked
    <3> HIDE DEF c
    <3>4. HaFrame(t, c)
      BY <1>0, <2>1, <3>1, <3>2, <3>3 DEF HaFrame
    <3> QED BY <3>4, HaFramed
  <2>3. CASE call[t].op # "batch"
    <3> DEFINE c == NewCall(call[t].op, "answered")
    <3>1. c \in Call /\ c.at = "answered"
      BY <1>0, NewCallType DEF Call
    <3>2. call' = [call EXCEPT ![t] = c] /\ holder' = IF holder = t THEN Nobody ELSE holder
      BY <1>7, <2>3 DEF Fail, Answer, Set, Release
    <3> HIDE DEF c
    <3>3. HaFrame(t, c)
      BY <1>0, <2>1, <3>1, <3>2 DEF HaFrame
    <3> QED BY <3>3, HaFramed
  <2> QED BY <2>2, <2>3
<1>8. ASSUME NEW t \in Task, Lose(t) PROVE HaInv'
  <2>1. CASE Retries(t)
    <3> DEFINE c == [call[t] EXCEPT !.at = "send", !.attempt = @ + 1, !.waited = 0,
                                    !.data = None, !.real = 0]
    <3>1. call[t].at \in {"sent", "served"} /\ call' = [call EXCEPT ![t] = c]
          /\ UNCHANGED <<world, cache, holder, wrote, overtaken>>
      BY <1>8, <2>1 DEF Lose, Set
    <3>2. call[t].attempt \in 1..Attempts /\ call[t].attempt < Attempts
      BY <1>0, <2>1 DEF Call, Retries
    <3>3. call[t].attempt + 1 \in 1..Attempts
      BY <3>2, HaConstants
    <3>4. None \in None..MaxWorld /\ 0 \in 0..Timeout /\ 0 \in 0..Ttl + Timeout
      BY HaConstants DEF None
    <3>5. c \in Call /\ c.at = "send" /\ c.op = call[t].op /\ c.real = 0 /\ c.waited = 0
      BY <1>0, <3>3, <3>4 DEF Call
    <3>6. c.real <= c.waited
      BY <3>5
    <3> HIDE DEF c
    <3>7. HaFrame(t, c)
      BY <1>0, <3>1, <3>5, <3>6 DEF HaFrame, CallSound, Pending
    <3> QED BY <3>7, HaFramed
  <2>2. CASE ~Retries(t)
    <3>1. Fail(t) /\ Pending(t)
      BY <1>8, <2>2 DEF Lose, Pending
    <3> QED BY <1>7, <3>1
  <2> QED BY <2>1, <2>2
<1>9. ASSUME NEW t \in Task, Refuse(t) PROVE HaInv'
  <2>1. Fail(t) /\ Pending(t)
    BY <1>9 DEF Refuse, Pending
  <2> QED BY <1>7, <2>1
<1>10. CASE Change
  <2>1. world' \in 0..MaxWorld /\ world <= world' /\ UNCHANGED <<cache, holder, call, wrote, overtaken>>
    BY <1>0, <1>10 DEF Change
  <2>2. \A t \in Task : wrote[t] \in Int /\ (call[t].data \in 0..world => call[t].data \in 0..world')
    BY <1>0, <2>1
  <2>3. \A t \in Task : wrote'[t] <= world'
    BY <1>0, <2>1, <2>2
  <2> QED BY <1>0, <2>1, <2>2, <2>3 DEF HaTypeOK, CallSound, Pending
<1>11. CASE HaTick
  <2>1. /\ \A t \in Task : call[t].at \in {"sent", "served"} => call[t].waited < Timeout
        /\ cache' = [cache EXCEPT !.age = Older(@, Ttl), !.real = Older(@, Ttl + Timeout)]
        /\ UNCHANGED <<world, holder, wrote, overtaken>>
    BY <1>11 DEF HaTick
  <2>2. ASSUME NEW cap \in Nat, NEW age \in 0..cap PROVE Older(age, cap) \in 0..cap
    BY DEF Older
  <2>3. cache' \in [data : None..MaxWorld, age : 0..Ttl, real : 0..Ttl + Timeout]
    <3>1. cache.age \in 0..Ttl /\ cache.real \in 0..Ttl + Timeout /\ Ttl + Timeout \in Nat
      BY <1>0, HaConstants
    <3>2. Older(cache.age, Ttl) \in 0..Ttl /\ Older(cache.real, Ttl + Timeout) \in 0..Ttl + Timeout
      BY <2>2, <3>1, HaConstants
    <3> QED BY <1>0, <2>1, <3>2
  <2>4. ASSUME NEW t \in Task
        PROVE  /\ call'[t] \in Call /\ call'[t].at = call[t].at /\ call'[t].op = call[t].op
               /\ call'[t].data = call[t].data
               /\ Pending(t) => call'[t].real <= call'[t].waited
    <3> DEFINE started == IF call[t].op = "batch" THEN Older(call[t].started, Ttl) ELSE 0
               waited == IF call[t].at = "send" THEN 0 ELSE call[t].waited + 1
               real == IF call[t].at = "served" THEN call[t].real + 1 ELSE 0
    <3>1. CASE ~Pending(t)
      <4>1. call'[t] = call[t]
        BY <1>11, <3>1 DEF HaTick, Pending
      <4> QED BY <1>0, <3>1, <4>1
    <3>2. CASE Pending(t)
      <4>1. call'[t] = [call[t] EXCEPT !.started = started, !.waited = waited, !.real = real]
        BY <1>11, <3>2 DEF HaTick, Pending
      <4>2. /\ call[t].started \in 0..Ttl /\ call[t].waited \in 0..Timeout
            /\ call[t].real \in 0..Ttl + Timeout /\ call[t].real <= call[t].waited
        BY <1>0, <3>2 DEF Call, CallSound
      <4>3. started \in 0..Ttl
        BY <2>2, <4>2, HaConstants
      <4>4. waited \in 0..Timeout
        BY <2>1, <3>2, <4>2, HaConstants DEF Pending
      <4>5. real <= waited /\ real \in Nat
        BY <4>2, HaConstants
      <4>6. real \in 0..Ttl + Timeout
        BY <4>4, <4>5, HaConstants
      <4> HIDE DEF started, waited, real
      <4> QED BY <1>0, <4>1, <4>3, <4>4, <4>5, <4>6 DEF Call
    <3> QED BY <3>1, <3>2
  <2>5. call' \in [Task -> Call]
    <3>1. call' = [t \in Task |-> call'[t]]
      BY <1>11 DEF HaTick
    <3> QED BY <2>4, <3>1
  <2>6. \A t \in Task : CallSound(t)' /\ wrote'[t] <= world'
    BY <1>0, <2>1, <2>4 DEF CallSound, Pending
  <2> QED BY <1>0, <2>1, <2>3, <2>5, <2>6 DEF HaTypeOK
<1>12. CASE UNCHANGED haVars
  BY <1>12 DEF haVars, HaTypeOK, CallSound, Pending
<1> QED BY <1>1, <1>2, <1>3, <1>4, <1>5, <1>6, <1>8, <1>9, <1>10, <1>11, <1>12
        DEF HaNext, HaStep

\* The client, its cache, its lock and its calls keep their types.
THEOREM HaTyped == HaSpec => []HaTypeOK
<1>1. HaInv => HaTypeOK
  BY DEF HaInv
<1> QED BY <1>1, HaInvInit, HaInvStep, PTL DEF HaSpec

------------------------------------------------------------------------------
(* HomeAssistant: what comes out of the cache.                             *)

\* data has what each task wrote, unless a fetch was under way then.
Knows(data) == \A t \in Task : ~overtaken[t] => data >= wrote[t]

\* It is so of an answer that will be cached, from when it is served: the lock lets no fetch be
\* under way that a write does not see.  A cached answer is older than its age by no more than
\* its way; a hit was such an answer.
CacheSound == cache.data # None => /\ Knows(cache.data)
                                   /\ cache.age < Ttl => cache.real <= cache.age + Timeout
FetchSound(t) == call[t].at = "served" /\ call[t].op \in {"batch", "warm"} => Knows(call[t].data)
HitSound(t) == call[t].at = "answered" /\ call[t].hit =>
                   /\ call[t].real < Ttl + Timeout
                   /\ ~overtaken[t] => call[t].data >= wrote[t]

FreshInv == CacheSound /\ \A t \in Task : FetchSound(t) /\ HitSound(t)

\* A step of one task that leaves cache and histories alone answers for its own call.
LEMMA FreshFramed ==
    ASSUME HaInv, FreshInv, NEW t \in Task, NEW c,
           call' = [call EXCEPT ![t] = c], UNCHANGED <<wrote, overtaken>>,
           cache' \in {cache, NoCache},
           c.at = "served" /\ c.op \in {"batch", "warm"} => Knows(c.data),
           c.at = "answered" /\ c.hit => /\ c.real < Ttl + Timeout
                                         /\ ~overtaken[t] => c.data >= wrote[t]
    PROVE  FreshInv'
<1>1. call'[t] = c /\ \A u \in Task : u # t => call'[u] = call[u]
  BY DEF HaInv, HaTypeOK
<1>2. CacheSound'
  BY DEF FreshInv, CacheSound, NoCache, Knows
<1>3. ASSUME NEW u \in Task PROVE FetchSound(u)' /\ HitSound(u)'
  <2>1. CASE u = t
    BY <1>1, <2>1 DEF FetchSound, HitSound, Knows
  <2>2. CASE u # t
    <3>1. FetchSound(u) /\ HitSound(u) /\ call'[u] = call[u]
      BY <1>1, <2>2 DEF FreshInv
    <3> QED BY <3>1 DEF FetchSound, HitSound, Knows
  <2> QED BY <2>1, <2>2
<1> QED BY <1>2, <1>3 DEF FreshInv

\* An answer that is not of the cache, or a request, claims nothing.
LEMMA NewCallFresh ==
    ASSUME HaInv, FreshInv, NEW t \in Task, NEW op \in Op, NEW at \in {"lock", "send", "answered"},
           Set(t, NewCall(op, at)), UNCHANGED <<wrote, overtaken>>, cache' \in {cache, NoCache}
    PROVE  FreshInv'
<1> DEFINE c == NewCall(op, at)
<1>1. c.at # "served" /\ ~c.hit
  BY NewCallType
<1>2. call' = [call EXCEPT ![t] = c]
  BY DEF Set
<1> HIDE DEF c
<1> QED BY <1>1, <1>2, FreshFramed

\* The answer that arrives: what a batch read or warm stores is sound, and a set_state that is
\* done empties the cache, or knows of the fetch that will fill it.
LEMMA FreshReceive ==
    ASSUME HaInv, FreshInv, NEW t \in Task, Receive(t)
    PROVE  FreshInv'
<1> DEFINE c == NewCall(call[t].op, "answered")
<1>0. /\ call[t].at = "served" /\ call' = [call EXCEPT ![t] = c] /\ cache' = Stored(t)
      /\ call[t] \in Call /\ CallSound(t) /\ call \in [Task -> Call]
      /\ wrote \in [Task -> 0..MaxWorld] /\ overtaken \in [Task -> BOOLEAN]
  BY DEF Receive, Answer, Set, HaInv, HaTypeOK
<1>1. call'[t].at = "answered" /\ ~call'[t].hit
  <2>1. c.at = "answered" /\ c.hit = FALSE
    BY <1>0, NewCallType DEF Call
  <2>2. call'[t] = c
    BY <1>0
  <2> QED BY <2>1, <2>2
<1>2. \A u \in Task : u # t => call'[u] = call[u]
  BY <1>0
<1>3. CASE call[t].op = "set"
  <2>1. /\ wrote' = [wrote EXCEPT ![t] = call[t].data]
        /\ overtaken' = [overtaken EXCEPT ![t] = holder # Nobody] /\ cache' = NoCache
    BY <1>0, <1>3 DEF Receive, Stored
  <2>2. CacheSound'
    BY <2>1 DEF CacheSound, NoCache
  <2>3. ASSUME NEW u \in Task PROVE FetchSound(u)' /\ HitSound(u)'
    <3>1. CASE u = t
      BY <1>1, <3>1 DEF FetchSound, HitSound
    <3>2. CASE u # t
      <4>1. /\ call'[u] = call[u] /\ wrote'[u] = wrote[u] /\ overtaken'[u] = overtaken[u]
            /\ FetchSound(u) /\ HitSound(u) /\ CallSound(u)
        BY <1>0, <1>2, <2>1, <3>2 DEF FreshInv, HaInv
      <4>2. HitSound(u)'
        BY <4>1 DEF HitSound
      <4>3. ASSUME call[u].at = "served", call[u].op \in {"batch", "warm"}
            PROVE  Knows(call[u].data)'
        <5>1. holder # Nobody
          BY <4>1, <4>3, HaConstants DEF CallSound, Pending, Locked
        <5>2. overtaken'[t]
          BY <1>0, <2>1, <5>1
        <5>3. ASSUME NEW w \in Task, ~overtaken'[w] PROVE call[u].data >= wrote'[w]
          <6>1. w # t /\ wrote'[w] = wrote[w] /\ overtaken'[w] = overtaken[w]
            BY <1>0, <2>1, <5>2, <5>3
          <6> QED BY <4>1, <4>3, <5>3, <6>1 DEF FetchSound, Knows
        <5> QED BY <4>1, <5>3 DEF Knows
      <4> QED BY <4>1, <4>2, <4>3 DEF FetchSound
    <3> QED BY <3>1, <3>2
  <2> QED BY <2>2, <2>3 DEF FreshInv
<1>4. CASE call[t].op # "set"
  <2>1. UNCHANGED <<wrote, overtaken>>
    BY <1>4 DEF Receive
  <2>2. CacheSound'
    <3>1. CASE call[t].op \in {"batch", "warm"}
      <4>1. /\ call[t].real \in Nat /\ call[t].waited \in 0..Timeout /\ call[t].started \in Nat
            /\ call[t].real <= call[t].waited /\ Knows(call[t].data)
        BY <1>0, <3>1, HaConstants DEF Call, CallSound, Pending, FreshInv, FetchSound
      <4>2. /\ cache'.data = call[t].data /\ cache'.real = call[t].real
            /\ cache'.age \in {0, call[t].started}
        BY <1>0, <3>1 DEF Stored
      <4>3. cache'.real <= cache'.age + Timeout
        BY <4>1, <4>2, HaConstants
      <4> QED BY <2>1, <4>1, <4>2, <4>3 DEF CacheSound, Knows
    <3>2. CASE call[t].op \notin {"batch", "warm"}
      <4>1. cache' = cache
        BY <1>0, <1>4, <3>2 DEF Stored
      <4> QED BY <2>1, <4>1 DEF FreshInv, CacheSound, Knows
    <3> QED BY <3>1, <3>2
  <2>3. ASSUME NEW u \in Task PROVE FetchSound(u)' /\ HitSound(u)'
    <3>1. CASE u = t
      BY <1>1, <3>1 DEF FetchSound, HitSound
    <3>2. CASE u # t
      BY <1>2, <2>1, <3>2 DEF FreshInv, FetchSound, HitSound, Knows
    <3> QED BY <3>1, <3>2
  <2> QED BY <2>2, <2>3 DEF FreshInv
<1> QED BY <1>3, <1>4

\* Time makes the cached answer and its claim older together.
LEMMA FreshTick ==
    ASSUME HaInv, FreshInv, HaTick
    PROVE  FreshInv'
<1>1. /\ cache' = [cache EXCEPT !.age = Older(@, Ttl), !.real = Older(@, Ttl + Timeout)]
      /\ UNCHANGED <<wrote, overtaken>>
  BY DEF HaTick
<1>2. cache \in [data : None..MaxWorld, age : 0..Ttl, real : 0..Ttl + Timeout]
  BY DEF HaInv, HaTypeOK
<1>3. CacheSound'
  <2>1. cache'.data = cache.data /\ cache'.age = Older(cache.age, Ttl)
        /\ cache'.real = Older(cache.real, Ttl + Timeout)
    BY <1>1, <1>2
  <2>2. cache.age \in 0..Ttl /\ cache.real \in 0..Ttl + Timeout /\ Ttl \in Nat /\ Timeout \in Nat
    BY <1>2, HaConstants
  <2>3. cache'.age < Ttl => cache.age < Ttl /\ cache'.age = cache.age + 1 /\ cache'.real <= cache.real + 1
    BY <2>1, <2>2 DEF Older
  <2>4. cache'.age < Ttl /\ cache.real <= cache.age + Timeout => cache'.real <= cache'.age + Timeout
    <3>1. cache'.real \in Int
      BY <2>1, <2>2 DEF Older
    <3> QED BY <2>2, <2>3, <3>1
  <2> QED BY <1>1, <2>1, <2>3, <2>4 DEF FreshInv, CacheSound, Knows
<1>4. ASSUME NEW t \in Task PROVE FetchSound(t)' /\ HitSound(t)'
  <2>0. call[t] \in Call
    BY DEF HaInv, HaTypeOK
  <2>1. /\ call'[t].at = call[t].at /\ call'[t].op = call[t].op /\ call'[t].data = call[t].data
        /\ call[t].at = "answered" => call'[t] = call[t]
    BY <2>0 DEF HaTick, Call
  <2> QED BY <1>1, <2>1 DEF FreshInv, FetchSound, HitSound, Knows
<1> QED BY <1>3, <1>4 DEF FreshInv

\* Every other step of a call.
LEMMA FreshStep ==
    ASSUME HaInv, FreshInv, [HaNext]_haVars
    PROVE  FreshInv'
<1>0. /\ call \in [Task -> Call] /\ \A t \in Task : call[t] \in Call /\ wrote[t] <= world
      /\ cache \in [data : None..MaxWorld, age : 0..Ttl, real : 0..Ttl + Timeout]
      /\ wrote \in [Task -> 0..MaxWorld] /\ world \in Int
  BY DEF HaInv, HaTypeOK
<1>1. ASSUME NEW t \in Task, Begin(t) PROVE FreshInv'
  <2>1. PICK op \in Calls[t] : Set(t, NewCall(op, IF op \in Locked THEN "lock" ELSE "send"))
    BY <1>1 DEF Begin
  <2>2. op \in Op /\ (IF op \in Locked THEN "lock" ELSE "send") \in {"lock", "send", "answered"}
    BY HaAssumption DEF Op
  <2>3. UNCHANGED <<wrote, overtaken>> /\ cache' = cache
    BY <1>1 DEF Begin
  <2> QED BY <2>1, <2>2, <2>3, NewCallFresh
<1>2. ASSUME NEW t \in Task, Batch(t) PROVE FreshInv'
  <2>1. UNCHANGED <<wrote, overtaken>> /\ cache' = cache
    BY <1>2 DEF Batch
  <2>2. CASE Fresh
    <3> DEFINE c == [NewCall("batch", "answered") EXCEPT
                       !.data = cache.data, !.real = cache.real, !.hit = TRUE]
    <3>1. call' = [call EXCEPT ![t] = c]
      BY <1>2, <2>2 DEF Batch, Set
    <3>2. c.at = "answered" /\ c.data = cache.data /\ c.real = cache.real
      BY NewCallType DEF Op, Call
    <3>3. cache.real < Ttl + Timeout /\ Knows(cache.data)
      <4>1. /\ cache.age \in Int /\ cache.real \in Int /\ Ttl \in Int /\ Timeout \in Int
            /\ cache.age < Ttl /\ cache.real <= cache.age + Timeout /\ Knows(cache.data)
        BY <1>0, <2>2, HaConstants DEF Fresh, FreshInv, CacheSound
      <4> QED BY <4>1
    <3> HIDE DEF c
    <3>4. /\ c.at = "served" /\ c.op \in {"batch", "warm"} => Knows(c.data)
          /\ c.at = "answered" /\ c.hit => /\ c.real < Ttl + Timeout
                                           /\ ~overtaken[t] => c.data >= wrote[t]
      BY <3>2, <3>3 DEF Knows
    <3> QED BY <2>1, <3>1, <3>4, FreshFramed
  <2>3. CASE ~Fresh
    <3>1. Set(t, NewCall("batch", "send"))
      BY <1>2, <2>3 DEF Batch
    <3> QED BY <2>1, <3>1, NewCallFresh DEF Op
  <2> QED BY <2>2, <2>3
<1>3. ASSUME NEW t \in Task, Warm(t) PROVE FreshInv'
  <2>1. UNCHANGED <<wrote, overtaken>> /\ cache' = NoCache /\ Set(t, NewCall("warm", "send"))
    BY <1>3 DEF Warm
  <2> QED BY <2>1, NewCallFresh DEF Op
<1>4. ASSUME NEW t \in Task, Send(t) PROVE FreshInv'
  <2> DEFINE c == [call[t] EXCEPT !.at = "sent"]
  <2>1. call' = [call EXCEPT ![t] = c] /\ UNCHANGED <<wrote, overtaken>> /\ cache' = cache
    BY <1>4 DEF Send, Set
  <2>2. c.at = "sent"
    BY <1>0 DEF Call
  <2> HIDE DEF c
  <2>3. /\ c.at = "served" /\ c.op \in {"batch", "warm"} => Knows(c.data)
        /\ c.at = "answered" /\ c.hit => /\ c.real < Ttl + Timeout
                                         /\ ~overtaken[t] => c.data >= wrote[t]
    BY <2>2
  <2> QED BY <2>1, <2>3, FreshFramed
<1>5. ASSUME NEW t \in Task, Serve(t) PROVE FreshInv'
  <2> DEFINE c == [call[t] EXCEPT !.at = "served", !.data = world']
  <2>1. call' = [call EXCEPT ![t] = c] /\ UNCHANGED <<wrote, overtaken>> /\ cache' = cache
    BY <1>5 DEF Serve, Set
  <2>2. c.at = "served" /\ c.data = world'
    BY <1>0 DEF Call
  <2>3. world <= world' /\ world' \in Int
    BY <1>0, <1>5 DEF Serve
  <2>4. \A u \in Task : wrote[u] \in Int /\ wrote[u] <= world'
    BY <1>0, <2>3
  <2> HIDE DEF c
  <2>5. /\ c.at = "served" /\ c.op \in {"batch", "warm"} => Knows(c.data)
        /\ c.at = "answered" /\ c.hit => /\ c.real < Ttl + Timeout
                                         /\ ~overtaken[t] => c.data >= wrote[t]
    BY <2>2, <2>3, <2>4 DEF Knows
  <2> QED BY <2>1, <2>5, FreshFramed
<1>6. ASSUME NEW t \in Task, Fail(t) PROVE FreshInv'
  <2>1. UNCHANGED <<wrote, overtaken>> /\ cache' = cache
    BY <1>6 DEF Fail
  <2>2. Set(t, NewCall("each", "send")) \/ Set(t, NewCall(call[t].op, "answered"))
    BY <1>6 DEF Fail, Answer
  <2>3. call[t].op \in Op /\ "each" \in Op
    BY <1>0 DEF Call, Op
  <2> QED BY <2>1, <2>2, <2>3, NewCallFresh
<1>7. ASSUME NEW t \in Task, Lose(t) PROVE FreshInv'
  <2>1. CASE Retries(t)
    <3> DEFINE c == [call[t] EXCEPT !.at = "send", !.attempt = @ + 1, !.waited = 0,
                                    !.data = None, !.real = 0]
    <3>1. call' = [call EXCEPT ![t] = c] /\ UNCHANGED <<wrote, overtaken>> /\ cache' = cache
      BY <1>7, <2>1 DEF Lose, Set
    <3>2. c.at = "send"
      BY <1>0 DEF Call
    <3> HIDE DEF c
    <3>3. /\ c.at = "served" /\ c.op \in {"batch", "warm"} => Knows(c.data)
          /\ c.at = "answered" /\ c.hit => /\ c.real < Ttl + Timeout
                                           /\ ~overtaken[t] => c.data >= wrote[t]
      BY <3>2
    <3> QED BY <3>1, <3>3, FreshFramed
  <2>2. CASE ~Retries(t)
    BY <1>6, <1>7, <2>2 DEF Lose
  <2> QED BY <2>1, <2>2
<1>8. ASSUME NEW t \in Task, Refuse(t) PROVE FreshInv'
  BY <1>6, <1>8 DEF Refuse
<1>9. CASE Change \/ UNCHANGED haVars
  BY <1>9 DEF Change, haVars, FreshInv, CacheSound, FetchSound, HitSound, Knows
<1> QED BY <1>1, <1>2, <1>3, <1>4, <1>5, <1>7, <1>8, <1>9, FreshReceive, FreshTick
        DEF HaNext, HaStep

\* For any tasks and calls, any retries, timeouts and times to live, and answers lost or late: a
\* read from the cache is as young as it claims, and has the task's own set_state.
THEOREM FreshHolds == HaSpec => []HitsAreFresh
<1>1. HaInit => FreshInv
  <2> SUFFICES ASSUME HaInit PROVE FreshInv
    OBVIOUS
  <2>1. \A t \in Task : call[t].at = "answered" /\ ~call[t].hit
    BY NewCallType DEF HaInit, Op
  <2> QED BY <2>1 DEF HaInit, FreshInv, CacheSound, NoCache, FetchSound, HitSound
<1>2. HaInv /\ FreshInv /\ [HaNext]_haVars => FreshInv'
  BY FreshStep
<1>3. FreshInv => HitsAreFresh
  BY DEF FreshInv, HitSound, HitsAreFresh
<1> QED BY <1>1, <1>2, <1>3, HaInvInit, HaInvStep, PTL DEF HaSpec

------------------------------------------------------------------------------
(* Sessions: the rows of a session.                                        *)

\* Who has had all the sessions there may be is not about to begin another one.
WithinBound ==
    step = "tracker" =>
        /\ \A b \in todo : begun[b] = MaxSessions /\ session[b].n = 0 => seen.mode[b] \notin Active
        /\ begun["ev"] = MaxSessions /\ session["ev"].n = 0 => ~seen.charging

\* The open session of s is its last one, and each row it has left is of a failed commit.
OpenSound(s) ==
    session[s].n # 0 =>
        LET left == RowsOf(rows, s, session[s].n)
        IN  /\ session[s].n = begun[s]
            /\ IsFiniteSet(left) /\ Cardinality(left) <= writeFaults
            /\ left # {} => <<s, session[s].n>> \in doubtful

\* A second row is of a failed commit.
Once(stored, s, n) == Cardinality(RowsOf(stored, s, n)) > 1 => <<s, n>> \in doubtful

\* A session that is over is on disk.
OnDisk(s, n) ==
    n <= begun[s] /\ n # session[s].n /\ <<s, n>> \notin broken => RowsOf(rowsDisk, s, n) # {}

KeptInv ==
    /\ rowsDisk.sessions \subseteq rows.sessions
    /\ \A r \in rows.sessions : r.n <= begun[r.source]
    /\ \A s \in Source : OpenSound(s)
    /\ \A s \in Source, n \in 1..MaxSessions :
         Once(rows, s, n) /\ Once(rowsDisk, s, n) /\ OnDisk(s, n)

\* The constants, one at a time.
LEMMA SessionsConstants ==
    /\ MaxSessions \in Nat /\ LastDate \in Nat /\ LastDate > 0
    /\ MaxProduced \in Nat /\ MaxWriteFaults \in Nat
    /\ "ev" \notin Battery /\ "ev" \in Source /\ Battery \subseteq Source
BY SessionsAssumption DEF Source

\* Steps that neither begin nor end a session, nor add a row of one.
LEMMA KeptFrame ==
    ASSUME SessionsTypeOK, KeptInv, UNCHANGED <<session, begun, broken, doubtful>>,
           rows'.sessions = rows.sessions, rowsDisk'.sessions \in {rows.sessions, rowsDisk.sessions},
           writeFaults' \in Nat, writeFaults <= writeFaults'
    PROVE  KeptInv'
<1> USE DEF KeptInv
<1>1. rowsDisk'.sessions \subseteq rows'.sessions /\ \A r \in rows'.sessions : r.n <= begun'[r.source]
  OBVIOUS
<1>2. \A s, n : RowsOf(rows, s, n)' = RowsOf(rows, s, n)
  BY DEF RowsOf
<1>3. ASSUME NEW s \in Source PROVE OpenSound(s)'
  <2>1. OpenSound(s) /\ writeFaults \in Nat
    BY SessionsConstants DEF SessionsTypeOK
  <2> DEFINE left == RowsOf(rows, s, session[s].n)
  <2>2. left' = left
    BY <1>2
  <2>3. session[s].n # 0 /\ IsFiniteSet(left) /\ Cardinality(left) <= writeFaults
          => Cardinality(left) <= writeFaults'
    BY <2>1, FS_CardinalityType
  <2> QED BY <2>1, <2>2, <2>3 DEF OpenSound
<1>4. ASSUME NEW s \in Source, NEW n \in 1..MaxSessions
      PROVE  (Once(rows, s, n) /\ Once(rowsDisk, s, n) /\ OnDisk(s, n))'
  <2>1. Once(rows, s, n) /\ Once(rowsDisk, s, n) /\ OnDisk(s, n)
    OBVIOUS
  <2>2. RowsOf(rowsDisk, s, n)' \in {RowsOf(rows, s, n), RowsOf(rowsDisk, s, n)}
    BY DEF RowsOf
  <2>3. RowsOf(rowsDisk, s, n) \subseteq RowsOf(rows, s, n)
    BY DEF RowsOf
  <2> QED BY <1>2, <2>1, <2>2, <2>3 DEF Once, OnDisk
<1> QED BY <1>1, <1>3, <1>4

\* A session that begins has no row yet.
LEMMA KeptOpen ==
    ASSUME SessionsTypeOK, KeptInv, NEW s \in Source, session[s].n = 0,
           NEW kind, OpenSession(s, kind), NoWrite, UNCHANGED <<broken, doubtful>>
    PROVE  KeptInv'
<1>0. /\ begun \in [Source -> 0..MaxSessions] /\ writeFaults \in Nat /\ rows \in Rows
      /\ session \in [Source -> [n : 0..MaxSessions, kind : {"none", "charge", "discharge", "ev"}]]
  BY SessionsConstants DEF SessionsTypeOK
<1>1. /\ session'[s].n = begun[s] + 1 /\ begun'[s] = begun[s] + 1
      /\ \A u \in Source : u # s => session'[u] = session[u] /\ begun'[u] = begun[u]
      /\ UNCHANGED <<rows, rowsDisk, writeFaults>>
  BY <1>0 DEF OpenSession, NoWrite
<1>2. ASSUME NEW r \in rows.sessions PROVE r.n <= begun[r.source] /\ r.n <= begun'[r.source]
  <2>1. r.source \in Source /\ r.n \in Int /\ r.n <= begun[r.source]
    BY <1>0 DEF KeptInv, Rows, SessionRow
  <2>2. CASE r.source = s
    BY <1>0, <1>1, <2>1, <2>2
  <2>3. CASE r.source # s
    BY <1>0, <1>1, <2>1, <2>3
  <2> QED BY <2>2, <2>3
<1>3. RowsOf(rows, s, begun[s] + 1) = {}
  <2>1. ASSUME NEW r \in rows.sessions, r.source = s, r.n = begun[s] + 1 PROVE FALSE
    BY <1>0, <1>2, <2>1
  <2> QED BY <2>1 DEF RowsOf
<1>4. ASSUME NEW u \in Source PROVE OpenSound(u)'
  <2>1. CASE u = s
    <3>1. RowsOf(rows, u, session[u].n)' = {}
      BY <1>1, <1>3, <2>1 DEF RowsOf
    <3>2. (IsFiniteSet({}) /\ Cardinality({}) <= writeFaults)'
      BY <1>0, <1>1, FS_EmptySet
    <3>3. session'[u].n = begun'[u]
      BY <1>1, <2>1
    <3> QED BY <3>1, <3>2, <3>3 DEF OpenSound
  <2>2. CASE u # s
    <3>1. OpenSound(u) /\ RowsOf(rows, u, session[u].n)' = RowsOf(rows, u, session[u].n)
      BY <1>1, <2>2 DEF KeptInv, RowsOf
    <3> QED BY <1>1, <2>2, <3>1 DEF OpenSound
  <2> QED BY <2>1, <2>2
<1>5. ASSUME NEW u \in Source, NEW n \in 1..MaxSessions
      PROVE  (Once(rows, u, n) /\ Once(rowsDisk, u, n) /\ OnDisk(u, n))'
  <2>1. Once(rows, u, n) /\ Once(rowsDisk, u, n) /\ OnDisk(u, n)
    BY DEF KeptInv
  <2>2. RowsOf(rows, u, n)' = RowsOf(rows, u, n) /\ RowsOf(rowsDisk, u, n)' = RowsOf(rowsDisk, u, n)
    BY <1>1 DEF RowsOf
  <2>3. n <= begun'[u] /\ n # session'[u].n => n <= begun[u] /\ n # session[u].n
    <3>1. CASE u = s
      BY <1>0, <1>1, <3>1
    <3>2. CASE u # s
      BY <1>1, <3>2
    <3> QED BY <3>1, <3>2
  <2> QED BY <1>1, <2>1, <2>2, <2>3 DEF Once, OnDisk
<1> QED BY <1>1, <1>2, <1>4, <1>5 DEF KeptInv

\* The row of the open session is one of the rows there may be, and adds to its session only.
LEMMA RowAdded ==
    ASSUME SessionsTypeOK, KeptInv, NEW s \in Source, session[s].n # 0,
           session[s].kind # "none"
    PROVE  \E row \in SessionRow :
             /\ row.source = s /\ row.n = session[s].n
             /\ WithSession(s) \in Rows /\ WithSession(s).pv = rows.pv
             /\ WithSession(s).sessions = rows.sessions \cup {row}
             /\ RowsOf(WithSession(s), s, session[s].n) = RowsOf(rows, s, session[s].n) \cup {row}
             /\ \A u, n : <<u, n>> # <<s, session[s].n>> =>
                  RowsOf(WithSession(s), u, n) = RowsOf(rows, u, n)
<1> DEFINE old == RowsOf(rows, s, session[s].n)
           row == [source |-> s, n |-> session[s].n, kind |-> session[s].kind,
                   copy |-> Cardinality(old) + 1]
<1>1. /\ rows \in Rows /\ writeFaults \in 0..MaxWriteFaults
      /\ session[s].n \in 1..MaxSessions /\ session[s].kind \in {"charge", "discharge", "ev"}
  BY SessionsConstants DEF SessionsTypeOK
<1>2. Cardinality(old) + 1 \in 1..MaxWriteFaults + 1
  <2>1. IsFiniteSet(old) /\ Cardinality(old) <= writeFaults
    BY DEF KeptInv, OpenSound
  <2>2. Cardinality(old) \in Nat
    BY <2>1, FS_CardinalityType
  <2> HIDE DEF old
  <2> QED BY <1>1, <2>1, <2>2, SessionsConstants
<1>3. row \in SessionRow /\ row.source = s /\ row.n = session[s].n
  <2> HIDE DEF old
  <2> QED BY <1>1, <1>2 DEF SessionRow
<1>4. WithSession(s) = [rows EXCEPT !.sessions = @ \cup {row}]
  BY DEF WithSession
<1> HIDE DEF row
<1>5. /\ WithSession(s) \in Rows /\ WithSession(s).pv = rows.pv
      /\ WithSession(s).sessions = rows.sessions \cup {row}
  BY <1>1, <1>3, <1>4 DEF Rows
<1>6. RowsOf(WithSession(s), s, session[s].n) = old \cup {row}
  BY <1>3, <1>5 DEF RowsOf
<1>7. \A u, n : <<u, n>> # <<s, session[s].n>> => RowsOf(WithSession(s), u, n) = RowsOf(rows, u, n)
  BY <1>3, <1>5 DEF RowsOf
<1> QED BY <1>3, <1>5, <1>6, <1>7

\* A session whose row is committed is over; one whose commit fails stays open, and is doubtful
\* if it left the row.
LEMMA KeptClose ==
    ASSUME SessionsTypeOK, KeptInv, NEW s \in Source, session[s].n # 0,
           session[s].kind # "none", NEW next, CloseSession(s, next), UNCHANGED <<begun, broken>>
    PROVE  KeptInv' /\ rows'.pv = rows.pv /\ rowsDisk'.pv \in {rows.pv, rowsDisk.pv}
           /\ rows' \in Rows /\ rowsDisk' \in Rows /\ writeFaults' \in 0..MaxWriteFaults
<1> DEFINE m == session[s].n
           new == WithSession(s)
<1>0. /\ rows \in Rows /\ rowsDisk \in Rows /\ writeFaults \in 0..MaxWriteFaults
      /\ session \in [Source -> [n : 0..MaxSessions, kind : {"none", "charge", "discharge", "ev"}]]
      /\ m \in 1..MaxSessions /\ m = begun[s] /\ IsFiniteSet(RowsOf(rows, s, m))
      /\ Cardinality(RowsOf(rows, s, m)) <= writeFaults
      /\ RowsOf(rows, s, m) # {} => <<s, m>> \in doubtful
  <2>1. /\ rows \in Rows /\ rowsDisk \in Rows /\ writeFaults \in 0..MaxWriteFaults
        /\ session \in [Source -> [n : 0..MaxSessions, kind : {"none", "charge", "discharge", "ev"}]]
    BY DEF SessionsTypeOK
  <2>2. m \in 1..MaxSessions
    BY <2>1, SessionsConstants
  <2>3. OpenSound(s)
    BY DEF KeptInv
  <2> QED BY <2>1, <2>2, <2>3 DEF OpenSound
<1>1. PICK row \in SessionRow :
        /\ row.source = s /\ row.n = m
        /\ new \in Rows /\ new.pv = rows.pv /\ new.sessions = rows.sessions \cup {row}
        /\ RowsOf(new, s, m) = RowsOf(rows, s, m) \cup {row}
        /\ \A u, n : <<u, n>> # <<s, m>> => RowsOf(new, u, n) = RowsOf(rows, u, n)
  BY RowAdded
<1> HIDE DEF new, m
<1>2. \A r \in new.sessions : r.n <= begun[r.source]
  <2>1. m <= begun[s]
    BY <1>0
  <2> QED BY <1>1, <2>1 DEF KeptInv
<1>3. Cardinality(RowsOf(new, s, m)) > 1 => <<s, m>> \in doubtful
  <2>1. CASE RowsOf(rows, s, m) = {}
    <3>1. Cardinality(RowsOf(new, s, m)) = 1
      <4>1. RowsOf(new, s, m) = {row}
        BY <1>1, <2>1
      <4> QED BY <4>1, FS_Singleton
    <3> QED BY <3>1
  <2>2. CASE RowsOf(rows, s, m) # {}
    BY <1>0, <2>2
  <2> QED BY <2>1, <2>2
<1>4. CASE RowsCommitted(new) /\ session' = [session EXCEPT ![s] = NoSession] /\ UNCHANGED doubtful
  <2>1. /\ rows' = new /\ rowsDisk' = new /\ UNCHANGED <<writeFaults, begun, broken, doubtful>>
        /\ session'[s].n = 0 /\ \A u \in Source : u # s => session'[u] = session[u]
    BY <1>0, <1>4 DEF RowsCommitted, NoSession
  <2>2. ASSUME NEW u \in Source PROVE OpenSound(u)'
    <3>1. CASE u = s
      BY <2>1, <3>1 DEF OpenSound
    <3>2. CASE u # s
      <4>1. RowsOf(rows, u, session[u].n)' = RowsOf(rows, u, session[u].n)
        BY <1>1, <2>1, <3>2 DEF RowsOf
      <4> QED BY <2>1, <3>2, <4>1 DEF KeptInv, OpenSound
    <3> QED BY <3>1, <3>2
  <2>3. ASSUME NEW u \in Source, NEW n \in 1..MaxSessions
        PROVE  (Once(rows, u, n) /\ Once(rowsDisk, u, n) /\ OnDisk(u, n))'
    <3>1. Once(rows, u, n) /\ OnDisk(u, n)
      BY DEF KeptInv
    <3>2. RowsOf(rows, u, n)' = RowsOf(new, u, n) /\ RowsOf(rowsDisk, u, n)' = RowsOf(new, u, n)
      BY <2>1 DEF RowsOf
    <3>3. CASE <<u, n>> = <<s, m>>
      BY <1>1, <1>3, <2>1, <3>2, <3>3 DEF Once, OnDisk
    <3>4. CASE <<u, n>> # <<s, m>>
      <4>1. RowsOf(new, u, n) = RowsOf(rows, u, n)
        BY <1>1, <3>4
      <4>2. RowsOf(rowsDisk, u, n) \subseteq RowsOf(rows, u, n)
        BY DEF KeptInv, RowsOf
      <4>3. n # session'[u].n => n # session[u].n
        <5>1. CASE u = s
          BY <3>4, <5>1 DEF m
        <5>2. CASE u # s
          BY <2>1, <5>2
        <5> QED BY <5>1, <5>2
      <4> QED BY <2>1, <3>1, <3>2, <4>1, <4>2, <4>3 DEF Once, OnDisk
    <3> QED BY <3>3, <3>4
  <2> QED BY <1>0, <1>1, <1>2, <2>1, <2>2, <2>3 DEF KeptInv
<1>5. CASE /\ RowsNotCommitted(new) /\ UNCHANGED session
           /\ doubtful' = IF rows' # rows THEN doubtful \cup {<<s, m>>} ELSE doubtful
  <2>1. /\ rows' \in {rows, new} /\ writeFaults' = writeFaults + 1 /\ writeFaults < MaxWriteFaults
        /\ UNCHANGED <<session, begun, broken, rowsDisk>> /\ doubtful \subseteq doubtful'
    BY <1>5 DEF RowsNotCommitted
  <2>2. writeFaults' \in 0..MaxWriteFaults /\ writeFaults \in Nat
    BY <1>0, <2>1, SessionsConstants
  <2>3. CASE rows' = rows
    <3>1. UNCHANGED doubtful
      BY <1>5, <2>3
    <3>2. KeptInv'
      BY <2>1, <2>2, <2>3, <3>1, KeptFrame
    <3> QED BY <1>0, <2>1, <2>2, <2>3, <3>2
  <2>4. CASE rows' # rows
    <3>1. rows' = new /\ <<s, m>> \in doubtful'
      BY <1>5, <2>1, <2>4
    <3>2. ASSUME NEW u \in Source PROVE OpenSound(u)'
      <4>1. CASE u = s
        <5> DEFINE old == RowsOf(rows, s, m)
        <5>1. RowsOf(rows, u, session[u].n)' = old \cup {row} /\ session'[u].n = m
          BY <1>1, <2>1, <3>1, <4>1 DEF RowsOf, m
        <5>2. IsFiniteSet(old \cup {row}) /\ Cardinality(old \cup {row}) <= Cardinality(old) + 1
          <6>1. IsFiniteSet(old) /\ Cardinality(old) \in Nat
            BY <1>0, FS_CardinalityType
          <6> HIDE DEF old
          <6>2. /\ IsFiniteSet(old \cup {row})
                /\ Cardinality(old \cup {row}) = IF row \in old THEN Cardinality(old)
                                                ELSE Cardinality(old) + 1
            BY <6>1, FS_AddElement
          <6>3. Cardinality(old) <= Cardinality(old) + 1
            BY <6>1
          <6> QED BY <6>2, <6>3, <6>1
        <5>3. Cardinality(old \cup {row}) <= writeFaults'
          <6>1. Cardinality(old) \in Nat /\ Cardinality(old \cup {row}) \in Nat
            BY <1>0, <5>2, FS_CardinalityType
          <6> HIDE DEF old
          <6> QED BY <1>0, <2>1, <2>2, <5>2, <6>1 DEF old
        <5> HIDE DEF old
        <5> QED BY <1>0, <2>1, <3>1, <4>1, <5>1, <5>2, <5>3 DEF OpenSound
      <4>2. CASE u # s
        <5>1. RowsOf(rows, u, session[u].n)' = RowsOf(rows, u, session[u].n)
          BY <1>1, <2>1, <3>1, <4>2 DEF RowsOf
        <5>2. session[u].n # 0 => /\ Cardinality(RowsOf(rows, u, session[u].n)) \in Nat
                                  /\ Cardinality(RowsOf(rows, u, session[u].n)) <= writeFaults
          BY FS_CardinalityType DEF KeptInv, OpenSound
        <5>3. session[u].n # 0 => Cardinality(RowsOf(rows, u, session[u].n)) <= writeFaults'
          BY <2>1, <2>2, <5>2
        <5> QED BY <2>1, <4>2, <5>1, <5>3 DEF KeptInv, OpenSound
      <4> QED BY <4>1, <4>2
    <3>3. ASSUME NEW u \in Source, NEW n \in 1..MaxSessions
          PROVE  (Once(rows, u, n) /\ Once(rowsDisk, u, n) /\ OnDisk(u, n))'
      <4>1. Once(rows, u, n) /\ Once(rowsDisk, u, n) /\ OnDisk(u, n)
        BY DEF KeptInv
      <4>2. RowsOf(rowsDisk, u, n)' = RowsOf(rowsDisk, u, n)
        BY <2>1 DEF RowsOf
      <4>3. Once(rows, u, n)'
        <5>1. RowsOf(rows, u, n)' = RowsOf(new, u, n)
          BY <3>1 DEF RowsOf
        <5>2. CASE <<u, n>> = <<s, m>>
          BY <3>1, <5>2 DEF Once
        <5>3. CASE <<u, n>> # <<s, m>>
          BY <1>1, <2>1, <4>1, <5>1, <5>3 DEF Once
        <5> QED BY <5>2, <5>3
      <4> QED BY <2>1, <4>1, <4>2, <4>3 DEF Once, OnDisk
    <3>4. rowsDisk'.sessions \subseteq rows'.sessions
      BY <1>1, <2>1, <3>1 DEF KeptInv
    <3>5. KeptInv'
      BY <1>2, <2>1, <3>1, <3>2, <3>3, <3>4 DEF KeptInv
    <3> QED BY <1>0, <1>1, <2>1, <2>2, <3>1, <3>5
  <2> QED BY <2>3, <2>4
<1> QED BY <1>4, <1>5 DEF CloseSession, new, m

------------------------------------------------------------------------------
(* Sessions: the production of a day.                                      *)

\* What is accumulated is what was produced on its day; other days are written, and
\* nothing is produced on days to come.
PvInv ==
    /\ accum.day <= date
    /\ accum.day # 0 => /\ accum.sum <= produced[accum.day]
                        /\ accum.day \notin gaps => accum.sum = produced[accum.day]
    /\ \A d \in 1..LastDate : d \notin gaps /\ d # accum.day =>
         /\ rows.pv[d] = produced[d] /\ rowsDisk.pv[d] = produced[d]
         /\ d >= date => produced[d] = 0

\* Steps that do not touch production, and may commit what others wrote.
LEMMA PvFrame ==
    ASSUME SessionsTypeOK, PvInv, UNCHANGED <<accum, produced, gaps>>, date' \in {date, date + 1},
           rows'.pv = rows.pv, rowsDisk'.pv \in {rows.pv, rowsDisk.pv}
    PROVE  PvInv'
<1>1. date \in Nat /\ accum.day \in Nat
  BY SessionsConstants DEF SessionsTypeOK
<1>2. accum'.day <= date' /\ \A d \in 1..LastDate : d >= date' => d >= date
  BY <1>1 DEF PvInv
<1>3. ASSUME NEW d \in 1..LastDate, d \notin gaps', d # accum'.day
      PROVE  /\ rows'.pv[d] = produced'[d] /\ rowsDisk'.pv[d] = produced'[d]
             /\ d >= date' => produced'[d] = 0
  BY <1>2, <1>3 DEF PvInv
<1> QED BY <1>2, <1>3 DEF PvInv

\* The row of the day.
LEMMA WithPvTyped ==
    ASSUME SessionsTypeOK, accum.day # 0
    PROVE  /\ WithPv \in Rows /\ WithPv.sessions = rows.sessions
           /\ WithPv.pv[accum.day] = accum.sum
           /\ \A d \in 1..LastDate : d # accum.day => WithPv.pv[d] = rows.pv[d]
<1>1. /\ rows.pv \in [1..LastDate -> 0..MaxProduced] /\ rows.sessions \in SUBSET SessionRow
      /\ accum.day \in 1..LastDate /\ accum.sum \in 0..MaxProduced
      /\ rows = [sessions |-> rows.sessions, pv |-> rows.pv]
  BY SessionsConstants DEF SessionsTypeOK, Rows
<1>2. WithPv = [sessions |-> rows.sessions, pv |-> [rows.pv EXCEPT ![accum.day] = accum.sum]]
  BY <1>1 DEF WithPv
<1>3. [rows.pv EXCEPT ![accum.day] = accum.sum] \in [1..LastDate -> 0..MaxProduced]
  BY <1>1
<1> QED BY <1>1, <1>2, <1>3 DEF Rows

\* A row that is written is committed, or may be left to another commit.
LEMMA Written ==
    ASSUME SessionsTypeOK, NEW new \in Rows, RowsCommitted(new) \/ RowsNotCommitted(new)
    PROVE  /\ rows' \in Rows /\ rowsDisk' \in Rows /\ rows' \in {rows, new}
           /\ rowsDisk' \in {new, rowsDisk}
           /\ writeFaults' \in 0..MaxWriteFaults /\ writeFaults <= writeFaults'
BY SessionsConstants DEF SessionsTypeOK, RowsCommitted, RowsNotCommitted

\* flush writes what is accumulated, and nothing else.
LEMMA PvFlush ==
    ASSUME SessionsTypeOK, PvInv, Flush
    PROVE  PvInv'
<1>1. /\ accum.day # 0 /\ UNCHANGED <<date, accum, produced, gaps>>
      /\ rows' \in {rows, WithPv} /\ rowsDisk' \in {rowsDisk, WithPv}
  BY WithPvTyped, Written DEF Flush, trackerVars, histories
<1>2. \A d \in 1..LastDate : d # accum.day => /\ rows'.pv[d] = rows.pv[d]
                                              /\ rowsDisk'.pv[d] \in {rows.pv[d], rowsDisk.pv[d]}
  BY <1>1, WithPvTyped
<1> QED BY <1>1, <1>2 DEF PvInv

\* The sample of a cycle goes to its day: the day before is written first, and if that fails the
\* sample is a gap.
LEMMA PvUpdate ==
    ASSUME SessionsTypeOK, PvInv, UpdatePvDaily
    PROVE  PvInv' /\ accum' \in [day : 0..LastDate, sum : 0..MaxProduced]
           /\ produced' \in [1..LastDate -> 0..MaxProduced] /\ gaps' \subseteq 0..LastDate
<1> DEFINE sun == IF produced[date] < MaxProduced THEN seen.sun ELSE 0
<1>1. /\ date \in 1..LastDate /\ accum \in [day : 0..LastDate, sum : 0..MaxProduced]
      /\ produced \in [1..LastDate -> 0..MaxProduced] /\ gaps \subseteq 0..LastDate
      /\ seen.sun \in 0..1 /\ MaxProduced \in Nat /\ LastDate \in Nat
  BY SessionsConstants DEF SessionsTypeOK, SessionsSnapshot
<1>2. sun \in 0..1 /\ produced[date] + sun \in 0..MaxProduced
  BY <1>1
<1>3. produced' = [produced EXCEPT ![date] = @ + sun] /\ UNCHANGED date
  BY DEF UpdatePvDaily
<1> HIDE DEF sun
<1>4. /\ produced' \in [1..LastDate -> 0..MaxProduced] /\ produced'[date] = produced[date] + sun
      /\ \A d \in 1..LastDate : d # date => produced'[d] = produced[d]
  BY <1>1, <1>2, <1>3
<1>5. \/ /\ accum.day = date
         /\ accum' = [accum EXCEPT !.sum = @ + sun]
         /\ NoWrite /\ UNCHANGED gaps
      \/ /\ accum.day # date
         /\ IF accum.day # 0 THEN RowsCommitted(WithPv) ELSE NoWrite
         /\ accum' = NewDay(sun) /\ UNCHANGED gaps
      \/ /\ accum.day \notin {0, date}
         /\ RowsNotCommitted(WithPv)
         /\ gaps' = gaps \cup {date} /\ UNCHANGED accum
  BY DEF UpdatePvDaily, sun
<1>6. CASE accum.day = date /\ accum' = [accum EXCEPT !.sum = @ + sun] /\ NoWrite /\ UNCHANGED gaps
  <2>1. /\ accum'.day = accum.day /\ accum'.sum = accum.sum + sun /\ UNCHANGED <<rows, rowsDisk>>
        /\ accum.sum <= produced[date] /\ accum.sum \in Nat
        /\ accum.day \notin gaps => accum.sum = produced[date]
    BY <1>1, <1>6 DEF NoWrite, PvInv
  <2>2. accum.sum + sun \in 0..MaxProduced /\ accum.sum + sun <= produced'[date]
    BY <1>1, <1>2, <1>4, <2>1
  <2>3. accum' \in [day : 0..LastDate, sum : 0..MaxProduced]
    BY <1>1, <1>6, <2>2
  <2>4. ASSUME NEW d \in 1..LastDate, d \notin gaps', d # accum'.day
        PROVE  /\ rows'.pv[d] = produced'[d] /\ rowsDisk'.pv[d] = produced'[d]
               /\ d >= date' => produced'[d] = 0
    BY <1>3, <1>4, <1>6, <2>1, <2>4 DEF PvInv
  <2>5. accum'.day # 0 => /\ accum'.sum <= produced'[accum'.day]
                          /\ accum'.day \notin gaps' => accum'.sum = produced'[accum'.day]
    BY <1>4, <1>6, <2>1, <2>2
  <2> QED BY <1>1, <1>3, <1>4, <1>6, <2>1, <2>3, <2>4, <2>5 DEF PvInv
<1>7. CASE /\ accum.day # date /\ (IF accum.day # 0 THEN RowsCommitted(WithPv) ELSE NoWrite)
           /\ accum' = NewDay(sun) /\ UNCHANGED gaps
  <2>1. accum'.day = date /\ accum'.sum = sun /\ accum' \in [day : 0..LastDate, sum : 0..MaxProduced]
    <3>1. sun \in 0..MaxProduced
      BY <1>1, <1>2
    <3> QED BY <1>1, <1>7, <3>1 DEF NewDay
  <2>2. \A d \in 1..LastDate : d # accum.day =>
           rows'.pv[d] = rows.pv[d] /\ rowsDisk'.pv[d] \in {rows.pv[d], rowsDisk.pv[d]}
    BY <1>7, WithPvTyped DEF RowsCommitted, NoWrite
  <2>3. accum.day # 0 => rows'.pv[accum.day] = accum.sum /\ rowsDisk'.pv[accum.day] = accum.sum
    BY <1>7, WithPvTyped DEF RowsCommitted
  <2>4. ASSUME NEW d \in 1..LastDate, d \notin gaps', d # accum'.day
        PROVE  /\ rows'.pv[d] = produced'[d] /\ rowsDisk'.pv[d] = produced'[d]
               /\ d >= date' => produced'[d] = 0
    <3>1. d \notin gaps /\ d # date /\ produced'[d] = produced[d]
      BY <1>4, <1>7, <2>1, <2>4
    <3>2. CASE d = accum.day
      <4>1. accum.sum = produced[d] /\ d <= date
        BY <1>1, <3>1, <3>2 DEF PvInv
      <4>2. ~(d >= date)
        BY <1>1, <3>1, <4>1
      <4>3. d # 0
        BY <1>1
      <4> QED BY <1>3, <2>3, <3>1, <3>2, <4>1, <4>2, <4>3
    <3>3. CASE d # accum.day
      BY <1>3, <2>2, <3>1, <3>3 DEF PvInv
    <3> QED BY <3>2, <3>3
  <2>5. date \notin gaps => produced[date] = 0
    BY <1>1, <1>7 DEF PvInv
  <2>6. /\ accum'.sum <= produced'[date]
        /\ date \notin gaps => accum'.sum = produced'[date]
    BY <1>1, <1>2, <1>4, <2>1, <2>5
  <2> QED BY <1>1, <1>3, <1>4, <1>7, <2>1, <2>4, <2>6 DEF PvInv
<1>8. CASE /\ accum.day \notin {0, date} /\ RowsNotCommitted(WithPv)
           /\ gaps' = gaps \cup {date} /\ UNCHANGED accum
  <2>1. \A d \in 1..LastDate : d # accum.day =>
           rows'.pv[d] = rows.pv[d] /\ rowsDisk'.pv[d] = rowsDisk.pv[d]
    BY <1>8, WithPvTyped DEF RowsNotCommitted
  <2>2. accum.day \in 1..LastDate /\ produced'[accum.day] = produced[accum.day]
    BY <1>1, <1>4, <1>8
  <2>3. ASSUME NEW d \in 1..LastDate, d \notin gaps', d # accum'.day
        PROVE  /\ rows'.pv[d] = produced'[d] /\ rowsDisk'.pv[d] = produced'[d]
               /\ d >= date' => produced'[d] = 0
    <3>1. d \notin gaps /\ d # date /\ d # accum.day /\ produced'[d] = produced[d]
      BY <1>4, <1>8, <2>3
    <3> QED BY <1>3, <2>1, <3>1 DEF PvInv
  <2> QED BY <1>1, <1>3, <1>4, <1>8, <2>2, <2>3 DEF PvInv
<1> QED BY <1>5, <1>6, <1>7, <1>8

------------------------------------------------------------------------------
(* Sessions: the invariant.                                                *)

\* An open session is of a kind.
KindInv == \A s \in Source : session[s].n # 0 => session[s].kind # "none"

SessionsInv == SessionsTypeOK /\ KindInv /\ WithinBound /\ KeptInv /\ PvInv

\* An empty database.
LEMMA SessionsInvInit == SessionsInit => SessionsInv
<1> SUFFICES ASSUME SessionsInit PROVE SessionsInv
  OBVIOUS
<1>1. rows = [sessions |-> {}, pv |-> [d \in 1..LastDate |-> 0]] /\ rowsDisk = rows /\ rows \in Rows
  BY SessionsConstants DEF SessionsInit, Rows
<1>2. session \in [Source -> [n : 0..MaxSessions, kind : {"none", "charge", "discharge", "ev"}]]
      /\ \A s \in Source : session[s].n = 0
  BY SessionsConstants DEF SessionsInit, NoSession
<1>3. /\ date \in 1..LastDate /\ accum \in [day : 0..LastDate, sum : 0..MaxProduced]
      /\ begun \in [Source -> 0..MaxSessions] /\ produced \in [1..LastDate -> 0..MaxProduced]
      /\ writeFaults \in 0..MaxWriteFaults
  BY SessionsConstants DEF SessionsInit
<1>4. SessionsTypeOK
  BY <1>1, <1>2, <1>3 DEF SessionsInit, SessionsTypeOK
<1>5. \A s, n : RowsOf(rows, s, n) = {} /\ RowsOf(rowsDisk, s, n) = {}
  BY <1>1 DEF RowsOf
<1>6. KeptInv
  <2>1. \A s \in Source, n \in 1..MaxSessions : ~(n <= begun[s])
    BY SessionsConstants DEF SessionsInit
  <2>2. Cardinality({}) = 0
    BY FS_EmptySet
  <2>3. \A s, n : Once(rows, s, n) /\ Once(rowsDisk, s, n)
    BY <1>5, <2>2 DEF Once
  <2>4. \A s \in Source, n \in 1..MaxSessions : OnDisk(s, n)
    BY <2>1 DEF OnDisk
  <2>5. \A s \in Source : OpenSound(s)
    BY <1>2 DEF OpenSound
  <2>6. rows.sessions = {} /\ rowsDisk.sessions = {}
    BY <1>1
  <2> QED BY <2>3, <2>4, <2>5, <2>6 DEF KeptInv
<1>7. PvInv
  BY <1>1 DEF SessionsInit, PvInv
<1> QED BY <1>2, <1>4, <1>6, <1>7 DEF SessionsInv, KindInv, WithinBound, SessionsInit

\* A cycle looks at the batteries and the EV; who has had all its sessions is not active again.
LEMMA ObserveStep == SessionsInv /\ Observe => SessionsInv'
<1> SUFFICES ASSUME SessionsInv, Observe PROVE SessionsInv'
  OBVIOUS
<1>1. /\ UNCHANGED <<rows, rowsDisk, writeFaults, date, session, lastEv, accum, begun, broken,
                     doubtful, produced, gaps>>
      /\ step' = "tracker" /\ todo' = Battery /\ seen' \in SessionsSnapshot
  BY DEF Observe, NoWrite, trackerVars, histories
<1>2. SessionsTypeOK'
  BY <1>1 DEF SessionsInv, SessionsTypeOK
<1>3. KeptInv' /\ PvInv'
  <2>1. writeFaults' \in Nat /\ writeFaults <= writeFaults'
    BY <1>1, SessionsConstants DEF SessionsInv, SessionsTypeOK
  <2> QED BY <1>1, <2>1, KeptFrame, PvFrame DEF SessionsInv
<1>4. WithinBound'
  BY <1>1 DEF Observe, WithinBound
<1> QED BY <1>1, <1>2, <1>3, <1>4 DEF SessionsInv, KindInv

\* Each of them may begin a session or end one.
LEMMA BeginOrEnd ==
    ASSUME SessionsInv, NEW s \in Source, UNCHANGED <<date, seen, accum, broken, produced, gaps>>,
           step' \in {"idle", "tracker", "pv"}, todo' \subseteq Battery,
           lastEv' \in {"unknown", "yes", "no"},
           \/ /\ session[s].n = 0 /\ begun[s] < MaxSessions
              /\ \E kind \in {"charge", "discharge", "ev"} : OpenSession(s, kind)
              /\ NoWrite /\ UNCHANGED doubtful
           \/ /\ session[s].n # 0
              /\ \E next : CloseSession(s, next)
              /\ UNCHANGED begun
           \/ NoWrite /\ UNCHANGED <<session, begun, doubtful>>
    PROVE  /\ SessionsTypeOK' /\ KindInv' /\ KeptInv' /\ PvInv'
           /\ \A u \in Source : u # s => session'[u] = session[u] /\ begun'[u] = begun[u]
<1> USE DEF SessionsInv
<1>0. /\ rows \in Rows /\ rowsDisk \in Rows /\ writeFaults \in 0..MaxWriteFaults
      /\ session \in [Source -> [n : 0..MaxSessions, kind : {"none", "charge", "discharge", "ev"}]]
      /\ begun \in [Source -> 0..MaxSessions]
      /\ broken \cup doubtful \subseteq Source \X (1..MaxSessions)
      /\ date \in 1..LastDate /\ seen \in SessionsSnapshot
      /\ accum \in [day : 0..LastDate, sum : 0..MaxProduced]
      /\ produced \in [1..LastDate -> 0..MaxProduced] /\ gaps \subseteq 0..LastDate
  BY DEF SessionsTypeOK
<1>1. CASE /\ session[s].n = 0 /\ begun[s] < MaxSessions
           /\ \E kind \in {"charge", "discharge", "ev"} : OpenSession(s, kind)
           /\ NoWrite /\ UNCHANGED doubtful
  <2>1. PICK kind \in {"charge", "discharge", "ev"} : OpenSession(s, kind)
    BY <1>1
  <2>2. begun[s] + 1 \in 0..MaxSessions
    BY <1>0, <1>1, SessionsConstants
  <2>3. session' = [session EXCEPT ![s] = [n |-> begun[s] + 1, kind |-> kind]]
        /\ begun' = [begun EXCEPT ![s] = begun[s] + 1]
    BY <2>1 DEF OpenSession
  <2>4. /\ session' \in [Source -> [n : 0..MaxSessions, kind : {"none", "charge", "discharge", "ev"}]]
        /\ begun' \in [Source -> 0..MaxSessions]
    BY <1>0, <2>2, <2>3
  <2>5. session'[s].kind # "none"
        /\ \A u \in Source : u # s => session'[u] = session[u] /\ begun'[u] = begun[u]
    BY <1>0, <2>3
  <2>6. UNCHANGED <<rows, rowsDisk, writeFaults, doubtful>>
    BY <1>1 DEF NoWrite
  <2>7. KeptInv'
    BY <1>1, <2>1, KeptOpen
  <2>8. PvInv'
    BY <2>6, PvFrame
  <2>9. KindInv'
    BY <2>5 DEF KindInv
  <2> QED BY <1>0, <2>4, <2>5, <2>6, <2>7, <2>8, <2>9 DEF SessionsTypeOK
<1>2. CASE session[s].n # 0 /\ (\E next : CloseSession(s, next)) /\ UNCHANGED begun
  <2>1. PICK next : CloseSession(s, next)
    BY <1>2
  <2>2. /\ KeptInv' /\ rows'.pv = rows.pv /\ rowsDisk'.pv \in {rows.pv, rowsDisk.pv}
        /\ rows' \in Rows /\ rowsDisk' \in Rows /\ writeFaults' \in 0..MaxWriteFaults
    BY <1>2, <2>1, KeptClose DEF KindInv
  <2>3. session' \in {session, [session EXCEPT ![s] = NoSession]}
        /\ doubtful' \in {doubtful, doubtful \cup {<<s, session[s].n>>}}
    BY <2>1 DEF CloseSession
  <2>4. NoSession \in [n : 0..MaxSessions, kind : {"none", "charge", "discharge", "ev"}]
        /\ NoSession.n = 0
    BY SessionsConstants DEF NoSession
  <2>5. session' \in [Source -> [n : 0..MaxSessions, kind : {"none", "charge", "discharge", "ev"}]]
        /\ (\A u \in Source : u # s => session'[u] = session[u])
        /\ session'[s] \in {session[s], NoSession}
    BY <1>0, <2>3, <2>4
  <2>6. session[s].n \in 1..MaxSessions
    BY <1>0, <1>2, SessionsConstants
  <2>7. broken' \cup doubtful' \subseteq Source \X (1..MaxSessions)
    BY <1>0, <2>3, <2>6
  <2>8. KindInv'
    BY <2>4, <2>5 DEF KindInv
  <2>9. PvInv'
    BY <2>2, PvFrame
  <2> QED BY <1>0, <1>2, <2>2, <2>5, <2>7, <2>8, <2>9 DEF SessionsTypeOK
<1>3. CASE NoWrite /\ UNCHANGED <<session, begun, doubtful>>
  <2>1. UNCHANGED <<rows, rowsDisk, writeFaults>> /\ writeFaults' \in Nat /\ writeFaults <= writeFaults'
    BY <1>0, <1>3, SessionsConstants DEF NoWrite
  <2>2. KeptInv' /\ PvInv'
    BY <1>3, <2>1, KeptFrame, PvFrame
  <2> QED BY <1>0, <1>3, <2>1, <2>2 DEF SessionsTypeOK, KindInv
<1> QED BY <1>1, <1>2, <1>3

\* on_battery_mode_change.
LEMMA BatteryStep ==
    ASSUME SessionsInv, NEW b \in Battery, OnBatteryModeChange(b)
    PROVE  SessionsInv'
<1> USE DEF SessionsInv
<1>1. /\ step = "tracker" /\ b \in todo /\ todo' = todo \ {b} /\ b \in Source
      /\ UNCHANGED <<date, seen, lastEv, accum, broken, produced, gaps>>
  BY SessionsConstants DEF OnBatteryModeChange
<1>2. begun[b] \in 0..MaxSessions /\ session[b].n \in Nat /\ todo \subseteq Battery
      /\ lastEv \in {"unknown", "yes", "no"}
  BY <1>1, SessionsConstants DEF SessionsTypeOK
<1>3. step' \in {"idle", "tracker", "pv"}
  BY <1>1 DEF OnBatteryModeChange, CloseSession
<1>4. seen.mode[b] \in Active /\ session[b].n = 0 => begun[b] < MaxSessions
  BY <1>1, <1>2, SessionsConstants DEF WithinBound
<1>5. \/ /\ session[b].n = 0 /\ begun[b] < MaxSessions
         /\ \E kind \in {"charge", "discharge", "ev"} : OpenSession(b, kind)
         /\ NoWrite /\ UNCHANGED doubtful
      \/ /\ session[b].n # 0
         /\ \E next : CloseSession(b, next)
         /\ UNCHANGED begun
      \/ NoWrite /\ UNCHANGED <<session, begun, doubtful>>
  BY <1>4 DEF OnBatteryModeChange
<1>6. /\ SessionsTypeOK' /\ KindInv' /\ KeptInv' /\ PvInv'
      /\ \A u \in Source : u # b => session'[u] = session[u] /\ begun'[u] = begun[u]
  BY <1>1, <1>2, <1>3, <1>5, BeginOrEnd
<1>7. WithinBound'
  <2>1. \A c \in todo' : c # b /\ c \in todo /\ c \in Source
    BY <1>1, <1>2, SessionsConstants
  <2>2. "ev" \in Source /\ "ev" # b
    BY SessionsConstants
  <2> QED BY <1>1, <1>6, <2>1, <2>2 DEF WithinBound
<1> QED BY <1>6, <1>7

\* on_ev_event.
LEMMA EvStep ==
    ASSUME SessionsInv, OnEvEvent
    PROVE  SessionsInv'
<1> USE DEF SessionsInv
<1>1. /\ step = "tracker" /\ todo = {} /\ "ev" \in Source
      /\ UNCHANGED <<date, todo, seen, accum, broken, produced, gaps>>
      /\ lastEv' = IF step' = "pv" THEN Charges ELSE lastEv
  BY SessionsConstants DEF OnEvEvent
<1>2. begun["ev"] \in 0..MaxSessions /\ session["ev"].n \in Nat /\ lastEv \in {"unknown", "yes", "no"}
  BY <1>1, SessionsConstants DEF SessionsTypeOK
<1>3. step' \in {"idle", "pv"} /\ lastEv' \in {"unknown", "yes", "no"} /\ todo' \subseteq Battery
  BY <1>1, <1>2 DEF OnEvEvent, CloseSession, Charges
<1>4. seen.charging /\ session["ev"].n = 0 => begun["ev"] < MaxSessions
  BY <1>1, <1>2, SessionsConstants DEF WithinBound
<1>5. \/ /\ session["ev"].n = 0 /\ begun["ev"] < MaxSessions
         /\ \E kind \in {"charge", "discharge", "ev"} : OpenSession("ev", kind)
         /\ NoWrite /\ UNCHANGED doubtful
      \/ /\ session["ev"].n # 0
         /\ \E next : CloseSession("ev", next)
         /\ UNCHANGED begun
      \/ NoWrite /\ UNCHANGED <<session, begun, doubtful>>
  BY <1>4 DEF OnEvEvent
<1>6. SessionsTypeOK' /\ KindInv' /\ KeptInv' /\ PvInv'
  BY <1>1, <1>3, <1>5, BeginOrEnd
<1> QED BY <1>3, <1>6 DEF WithinBound

\* update_pv_daily and flush.
LEMMA PvStep ==
    ASSUME SessionsInv, UpdatePvDaily \/ Flush
    PROVE  SessionsInv'
<1> USE DEF SessionsInv
<1>1. /\ rows \in Rows /\ rowsDisk \in Rows /\ writeFaults \in 0..MaxWriteFaults
      /\ MaxWriteFaults \in Nat
  BY SessionsConstants DEF SessionsTypeOK
<1>2. /\ rows' \in Rows /\ rowsDisk' \in Rows /\ rows'.sessions = rows.sessions
      /\ rowsDisk'.sessions \in {rows.sessions, rowsDisk.sessions}
      /\ writeFaults' \in 0..MaxWriteFaults /\ writeFaults <= writeFaults'
  <2>1. CASE NoWrite
    BY <1>1, <2>1 DEF NoWrite
  <2>2. CASE accum.day # 0 /\ (RowsCommitted(WithPv) \/ RowsNotCommitted(WithPv))
    <3>1. WithPv \in Rows /\ WithPv.sessions = rows.sessions
      BY <2>2, WithPvTyped
    <3> QED BY <2>2, <3>1, Written
  <2> QED BY <2>1, <2>2 DEF UpdatePvDaily, Flush
<1>3. UNCHANGED <<session, lastEv, begun, broken, doubtful, date, todo, seen>>
      /\ step' = "idle"
  BY DEF UpdatePvDaily, Flush, trackerVars, histories
<1>4. /\ PvInv' /\ accum' \in [day : 0..LastDate, sum : 0..MaxProduced]
      /\ produced' \in [1..LastDate -> 0..MaxProduced] /\ gaps' \subseteq 0..LastDate
  <2>1. CASE UpdatePvDaily
    BY <2>1, PvUpdate
  <2>2. CASE Flush
    <3>1. UNCHANGED <<accum, produced, gaps>>
      BY <2>2 DEF Flush, trackerVars, histories
    <3> QED BY <2>2, <3>1, PvFlush DEF SessionsTypeOK
  <2> QED BY <2>1, <2>2
<1>5. KeptInv'
  <2>1. writeFaults' \in Nat
    BY <1>1, <1>2
  <2> QED BY <1>2, <1>3, <2>1, KeptFrame
<1>6. SessionsTypeOK'
  BY <1>2, <1>3, <1>4 DEF SessionsTypeOK
<1>7. WithinBound' /\ KindInv'
  BY <1>3 DEF WithinBound, KindInv
<1> QED BY <1>4, <1>5, <1>6, <1>7

\* What a crash takes is what no commit has kept, and the sessions and days it cuts off are known.
LEMMA CrashStep ==
    ASSUME SessionsInv, SessionsRestart
    PROVE  SessionsInv'
<1> USE DEF SessionsInv
<1>1. /\ rows' = rowsDisk /\ rowsDisk' = rowsDisk /\ writeFaults < MaxWriteFaults
      /\ writeFaults' = writeFaults + 1 /\ step' = "idle" /\ todo' = {}
      /\ session' = [s \in Source |-> NoSession] /\ lastEv' = "unknown"
      /\ accum' = [day |-> 0, sum |-> 0]
      /\ broken' = broken \cup {<<s, session[s].n>> : s \in {q \in Source : session[q].n # 0}}
      /\ gaps' = gaps \cup {date, accum.day}
      /\ UNCHANGED <<date, seen, begun, doubtful, produced>>
  BY DEF SessionsRestart
<1>2. /\ rows \in Rows /\ rowsDisk \in Rows /\ writeFaults \in 0..MaxWriteFaults
      /\ session \in [Source -> [n : 0..MaxSessions, kind : {"none", "charge", "discharge", "ev"}]]
      /\ begun \in [Source -> 0..MaxSessions]
      /\ broken \cup doubtful \subseteq Source \X (1..MaxSessions)
      /\ date \in 1..LastDate /\ accum.day \in 0..LastDate /\ gaps \subseteq 0..LastDate
  BY DEF SessionsTypeOK
<1>3. \A s \in Source : session'[s].n = 0
  BY <1>1 DEF NoSession
<1>4. SessionsTypeOK'
  <2>1. session' \in [Source -> [n : 0..MaxSessions, kind : {"none", "charge", "discharge", "ev"}]]
    BY <1>1, SessionsConstants DEF NoSession
  <2>2. \A s \in Source : session[s].n # 0 => session[s].n \in 1..MaxSessions
    BY <1>2, SessionsConstants
  <2>3. broken' \cup doubtful' \subseteq Source \X (1..MaxSessions)
    BY <1>1, <1>2, <2>2
  <2>4. writeFaults' \in 0..MaxWriteFaults /\ accum' \in [day : 0..LastDate, sum : 0..MaxProduced]
    BY <1>1, <1>2, SessionsConstants
  <2>5. gaps' \subseteq 0..LastDate
    <3>1. date \in 0..LastDate
      BY <1>2, SessionsConstants
    <3> QED BY <1>1, <1>2, <3>1
  <2> QED BY <1>1, <2>1, <2>3, <2>4, <2>5 DEF SessionsTypeOK
<1>5. KeptInv'
  <2>1. rowsDisk.sessions \subseteq rows.sessions
    BY DEF KeptInv
  <2>2. \A r \in rows'.sessions : r.n <= begun'[r.source]
    BY <1>1, <2>1 DEF KeptInv
  <2>3. \A s \in Source : OpenSound(s)'
    BY <1>3 DEF OpenSound
  <2>4. ASSUME NEW s \in Source, NEW n \in 1..MaxSessions
        PROVE  (Once(rows, s, n) /\ Once(rowsDisk, s, n) /\ OnDisk(s, n))'
    <3>1. Once(rowsDisk, s, n) /\ OnDisk(s, n)
      BY DEF KeptInv
    <3>2. RowsOf(rows, s, n)' = RowsOf(rowsDisk, s, n) /\ RowsOf(rowsDisk, s, n)' = RowsOf(rowsDisk, s, n)
      BY <1>1 DEF RowsOf
    <3>3. <<s, n>> \notin broken' => n # session[s].n /\ <<s, n>> \notin broken
      <4>1. n # 0
        BY SessionsConstants
      <4> QED BY <1>1, <4>1
    <3> QED BY <1>1, <3>1, <3>2, <3>3 DEF Once, OnDisk
  <2> QED BY <1>1, <2>2, <2>3, <2>4 DEF KeptInv
<1>6. PvInv'
  <2>1. ASSUME NEW d \in 1..LastDate, d \notin gaps'
        PROVE  /\ rows'.pv[d] = produced'[d] /\ rowsDisk'.pv[d] = produced'[d]
               /\ d >= date' => produced'[d] = 0
    BY <1>1, <2>1 DEF PvInv
  <2> QED BY <1>1, <1>2, <2>1, SessionsConstants DEF PvInv
<1> QED BY <1>1, <1>3, <1>4, <1>5, <1>6 DEF KindInv, WithinBound

\* Every step keeps the invariant.
LEMMA SessionsInvStep == SessionsInv /\ [SessionsNext]_sessionsVars => SessionsInv'
<1> SUFFICES ASSUME SessionsInv, [SessionsNext]_sessionsVars PROVE SessionsInv'
  OBVIOUS
<1>1. CASE CommitOther \/ Midnight \/ UNCHANGED sessionsVars
  <2>1. /\ UNCHANGED <<rows, writeFaults, step, todo, seen, session, lastEv, accum, begun, broken,
                       doubtful, produced, gaps>>
        /\ rowsDisk' \in {rows, rowsDisk} /\ date' \in {date, date + 1} /\ date' \in 1..LastDate
        /\ rows \in Rows /\ rowsDisk \in Rows /\ writeFaults \in Nat /\ writeFaults <= writeFaults
    BY <1>1, SessionsConstants
       DEF CommitOther, Midnight, NoWrite, sessionsVars, trackerVars, histories, SessionsInv, SessionsTypeOK
  <2>2. SessionsTypeOK'
    BY <2>1 DEF SessionsInv, SessionsTypeOK
  <2>3. KeptInv' /\ PvInv'
    BY <2>1, KeptFrame, PvFrame DEF SessionsInv
  <2> QED BY <2>1, <2>2, <2>3 DEF SessionsInv, KindInv, WithinBound
<1> QED BY <1>1, ObserveStep, BatteryStep, EvStep, PvStep, CrashStep DEF SessionsNext

\* Rows, sessions and accumulated production keep their types.
THEOREM SessionsTyped == SessionsSpec => []SessionsTypeOK
<1>1. SessionsInv => SessionsTypeOK
  BY DEF SessionsInv
<1> QED BY <1>1, SessionsInvInit, SessionsInvStep, PTL DEF SessionsSpec

\* For any batteries, numbers of sessions and days, failed writes, commits of others and crashes:
\* a session that is over is on disk, and once, but for what a crash cut off or a commit left.
THEOREM SessionsHold == SessionsSpec => []SessionsKept
<1>1. SessionsInv => SessionsKept
  BY DEF SessionsInv, KeptInv, OnDisk, Once, SessionsKept
<1> QED BY <1>1, SessionsInvInit, SessionsInvStep, PTL DEF SessionsSpec

\* And the row of each day that is over has what was produced, however often it was written.
THEOREM PvHolds == SessionsSpec => []PvComplete
<1>1. SessionsInv => PvComplete
  <2> SUFFICES ASSUME SessionsInv, NEW d \in 1..LastDate, d < accum.day, d \notin gaps
               PROVE  rowsDisk.pv[d] = produced[d]
    BY DEF PvComplete
  <2>1. d # accum.day
    <3>1. accum.day \in Int /\ d \in Int
      BY SessionsConstants DEF SessionsInv, SessionsTypeOK
    <3> QED BY <3>1
  <2> QED BY <2>1 DEF SessionsInv, PvInv
<1> QED BY <1>1, SessionsInvInit, SessionsInvStep, PTL DEF SessionsSpec

------------------------------------------------------------------------------
(* The five side by side.                                                  *)

\* MCRecords.tla runs the components as they are: what it does is what each of them does alone,
\* so that whatever holds of a component holds of the composition.
THEOREM RecordsRunsParts ==
    RecordsSpec => HaSpec /\ SessionsSpec /\ TariffSpec /\ PlanningSpec /\ DaySpec
<1>1. RecordsInit => HaInit /\ SessionsInit /\ TariffInit /\ PlanningInit /\ DayInit
  BY DEF RecordsInit
<1>2. [RecordsNext]_recordsVars =>
        /\ [HaNext]_haVars /\ [SessionsNext]_sessionsVars /\ [TariffNext]_tariffVars
        /\ [PlanningNext]_planVars /\ [DayNext]_dayVars
  BY DEF RecordsNext, recordsVars, Runs
<1> QED BY <1>1, <1>2, PTL DEF RecordsSpec, HaSpec, SessionsSpec, TariffSpec, PlanningSpec, DaySpec

\* The client, the sessions, the tariff, the planning and the plan of the day keep their types,
\* whichever of them runs.
THEOREM RecordsTyped == RecordsSpec => []RecordsTypeOK
<1>1. HaTypeOK /\ SessionsTypeOK /\ TariffTypeOK /\ PlanningTypeOK /\ DayTypeOK => RecordsTypeOK
  BY DEF RecordsTypeOK
<1> QED BY <1>1, RecordsRunsParts, HaTyped, SessionsTyped, TariffTyped, PlanningTyped, DayTyped, PTL
=============================================================================
