---------------------------- MODULE HomeAssistant ----------------------------
(***************************************************************************)
(* adapters/ha_api.py: the client through which everything reads and       *)
(* writes Home Assistant, with its retries, its batch cache and the lock   *)
(* around it, used by several asyncio tasks.                               *)
(*                                                                         *)
(* world counts what happened to the states of Home Assistant.  A request  *)
(* goes out, Home Assistant may serve it (a read takes the world as it is, *)
(* a write changes it), and the answer may come back, be refused, or be    *)
(* lost: a write whose answer is lost was executed all the same, and is    *)
(* sent again.  Sleeping between two attempts takes no step of its own.    *)
(***************************************************************************)
EXTENDS Integers

CONSTANTS
    Task,
    Calls,      \* the operations each task uses
    Ttl,        \* batch_cache_ttl_s
    Attempts,   \* retry_count
    Timeout,    \* of one attempt
    MaxWorld    \* bound on what may happen to Home Assistant

ASSUME HaAssumption ==
    /\ Calls \in [Task -> SUBSET {"batch", "warm", "get", "service", "set"}]
    /\ Ttl \in Nat \ {0} /\ Attempts \in Nat \ {0}
    /\ Timeout \in Nat \ {0} /\ MaxWorld \in Nat
    /\ "nobody" \notin Task

VARIABLES
    world,
    cache,    \* _batch_cache, _batch_cache_ts: data, age; real: the true age of the data
    holder,   \* of _batch_cache_lock
    call,     \* the call each task has under way, or its answer
    wrote,    \* history: the world after the last set_state of each task
    overtaken \* history: a fetch was under way when that write invalidated the cache

haVars == <<world, cache, holder, call, wrote, overtaken>>

None == -1
Nobody == "nobody"

\* get_states_batch, warm_batch_cache, get_state, call_service, set_state; "each" is
\* the fallback of get_states_batch, one request for the entity.
Op == {"batch", "warm", "get", "service", "set", "each"}
Locked == {"batch", "warm", "each"}
Writes == {"service", "set"}

\* started  time since the call looked at the clock; waited  since the attempt was sent
\* data     what Home Assistant served; real  time since it did
Call == [op : Op, at : {"lock", "send", "sent", "served", "answered"},
         attempt : 1..Attempts, started : 0..Ttl, waited : 0..Timeout,
         data : None..MaxWorld, real : 0..Ttl + Timeout,
         hit : BOOLEAN]

HaTypeOK ==
    /\ world \in 0..MaxWorld
    /\ cache \in [data : None..MaxWorld, age : 0..Ttl, real : 0..Ttl + Timeout]
    /\ holder \in Task \cup {Nobody}
    /\ call \in [Task -> Call]
    /\ wrote \in [Task -> 0..MaxWorld] /\ overtaken \in [Task -> BOOLEAN]

NoCache == [data |-> None, age |-> 0, real |-> 0]

NewCall(op, at) ==
    [op |-> op, at |-> at, attempt |-> 1, started |-> 0, waited |-> 0, data |-> None,
     real |-> 0, hit |-> FALSE]

HaInit ==
    /\ world = 0 /\ cache = NoCache /\ holder = Nobody
    /\ call = [t \in Task |-> NewCall("get", "answered")]
    /\ wrote = [t \in Task |-> 0] /\ overtaken = [t \in Task |-> FALSE]

------------------------------------------------------------------------------
(* Calls.                                                                  *)

Set(t, c) == call' = [call EXCEPT ![t] = c]

\* The task, done with the last answer, makes a call.
Begin(t) ==
    /\ call[t].at = "answered"
    /\ \E op \in Calls[t] : Set(t, NewCall(op, IF op \in Locked THEN "lock" ELSE "send"))
    /\ UNCHANGED <<world, cache, holder, wrote, overtaken>>

Fresh == cache.data # None /\ cache.age < Ttl

\* get_states_batch inside the lock: an answer from the cache, or a fetch.
Batch(t) ==
    /\ call[t].at = "lock" /\ call[t].op = "batch" /\ holder = Nobody
    /\ IF Fresh
       THEN /\ Set(t, [NewCall("batch", "answered") EXCEPT
                         !.data = cache.data, !.real = cache.real, !.hit = TRUE])
            /\ UNCHANGED holder
       ELSE Set(t, NewCall("batch", "send")) /\ holder' = t
    /\ UNCHANGED <<world, cache, wrote, overtaken>>

\* warm_batch_cache inside the lock: whatever is cached goes.
Warm(t) ==
    /\ call[t].at = "lock" /\ call[t].op = "warm" /\ holder = Nobody
    /\ cache' = NoCache
    /\ Set(t, NewCall("warm", "send")) /\ holder' = t
    /\ UNCHANGED <<world, wrote, overtaken>>

Send(t) ==
    /\ call[t].at = "send"
    /\ Set(t, [call[t] EXCEPT !.at = "sent"])
    /\ UNCHANGED <<world, cache, holder, wrote, overtaken>>

\* Home Assistant serves the request.
Serve(t) ==
    /\ call[t].at = "sent"
    /\ call[t].op \in Writes => world < MaxWorld
    /\ world' = IF call[t].op \in Writes THEN world + 1 ELSE world
    /\ Set(t, [call[t] EXCEPT !.at = "served", !.data = world'])
    /\ UNCHANGED <<cache, holder, wrote, overtaken>>

Release(t) == holder' = IF holder = t THEN Nobody ELSE holder

Answer(t) == Set(t, NewCall(call[t].op, "answered"))

\* Mutant: a write leaves the cache alone.
StoredOnRead(t) ==
    CASE call[t].op = "batch" ->
           [data |-> call[t].data, age |-> call[t].started, real |-> call[t].real]
      [] call[t].op = "warm" -> [data |-> call[t].data, age |-> 0, real |-> call[t].real]
      [] OTHER -> cache

\* A batch read stores its answer under the time before its fetch, warm under the
\* present time; set_state throws the cache away.
Stored(t) ==
    CASE call[t].op = "batch" ->
           [data |-> call[t].data, age |-> call[t].started, real |-> call[t].real]
      [] call[t].op = "warm" -> [data |-> call[t].data, age |-> 0, real |-> call[t].real]
      [] call[t].op = "set" -> NoCache
      [] OTHER -> cache

\* The answer arrives.
Receive(t) ==
    /\ call[t].at = "served"
    /\ Answer(t) /\ Release(t)
    /\ cache' = Stored(t)
    /\ IF call[t].op = "set"
       THEN /\ wrote' = [wrote EXCEPT ![t] = call[t].data]
            /\ overtaken' = [overtaken EXCEPT ![t] = holder # Nobody]
       ELSE UNCHANGED <<wrote, overtaken>>
    /\ UNCHANGED world

\* The call has failed for good; a batch read falls back to its entities, still
\* holding the lock, and what it gets that way is not cached.
Fail(t) ==
    /\ IF call[t].op = "batch"
       THEN Set(t, NewCall("each", "send")) /\ UNCHANGED holder
       ELSE Answer(t) /\ Release(t)
    /\ UNCHANGED <<world, cache, wrote, overtaken>>

Retries(t) == call[t].attempt < Attempts

\* No answer, or a server error, served or not.
Lose(t) ==
    /\ call[t].at \in {"sent", "served"}
    /\ IF Retries(t)
       THEN /\ Set(t, [call[t] EXCEPT !.at = "send", !.attempt = @ + 1, !.waited = 0, !.data = None, !.real = 0])
            /\ UNCHANGED <<world, cache, holder, wrote, overtaken>>
       ELSE Fail(t)

\* 401, 403, 404, or an error object in place of the list of states: no retry.
Refuse(t) == call[t].at = "sent" /\ Fail(t)

\* Somebody else changes a state.
Change ==
    /\ world < MaxWorld /\ world' = world + 1
    /\ UNCHANGED <<cache, holder, call, wrote, overtaken>>

Older(age, cap) == IF age < cap THEN age + 1 ELSE cap

\* Time passes; an attempt is over when its timeout is.
HaTick ==
    /\ \A t \in Task : call[t].at \in {"sent", "served"} => call[t].waited < Timeout
    /\ cache' = [cache EXCEPT !.age = Older(@, Ttl), !.real = Older(@, Ttl + Timeout)]
    /\ call' = [t \in Task |->
                  IF call[t].at \in {"send", "sent", "served"}
                  THEN [call[t] EXCEPT
                          !.started = IF call[t].op = "batch" THEN Older(@, Ttl) ELSE 0,
                          !.waited = IF call[t].at = "send" THEN 0 ELSE @ + 1,
                          !.real = IF call[t].at = "served" THEN @ + 1 ELSE 0]
                  ELSE call[t]]
    /\ UNCHANGED <<world, holder, wrote, overtaken>>

HaStep(t) == Batch(t) \/ Warm(t) \/ Send(t) \/ Receive(t) \/ Lose(t) \/ Refuse(t)

HaNext == Change \/ HaTick \/ \E t \in Task : Begin(t) \/ HaStep(t) \/ Serve(t)

HaSpec == HaInit /\ [][HaNext]_haVars

------------------------------------------------------------------------------
(* Properties.                                                             *)

\* What comes out of the cache is not older than it claims: younger than the time to live
\* and the way of the one answer that filled it.  And it has what the task wrote itself with
\* set_state, unless a fetch of another task was under way at the time and stored the states
\* of before the write.
HitsAreFresh ==
    \A t \in Task :
        call[t].at = "answered" /\ call[t].hit =>
            /\ call[t].real < Ttl + Timeout
            /\ ~overtaken[t] => call[t].data >= wrote[t]
=============================================================================
