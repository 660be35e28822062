---------------------------- MODULE LoadBalancer ----------------------------
(***************************************************************************)
(* The request path of the agent loop: the GlobalRequestLoadBalancer actor *)
(* (sticky LRU routing and an in-flight counter per server), its clients   *)
(* AsyncLLMServerManager.generate, and the rollout servers that register,  *)
(* run and abort one generation per turn.                                  *)
(*                                                                         *)
(* One conversation (one request_id) runs its turns one after the other;   *)
(* conversations are concurrent.  A Ray call is asynchronous: the acquire  *)
(* is awaited, the release is fire-and-forget, so a release may reach the  *)
(* balancer after any number of other calls.                               *)
(***************************************************************************)
EXTENDS Integers, Sequences, FiniteSets

CONSTANTS
    Conversations,  \* request_id of each conversation (a fresh uuid)
    NumServers,     \* servers 1..NumServers, in the order of the dict
    MaxCacheSize,   \* maxsize of the LRU routing cache
    MaxTurns,       \* bound: turns each conversation makes
    Timeouts        \* whether generate is called with timeout_s > 0

Servers == 1..NumServers

ASSUME ConstantsAssumption ==
    /\ IsFiniteSet(Conversations)
    /\ NumServers \in Nat \ {0}
    /\ MaxCacheSize \in Nat \ {0}
    /\ MaxTurns \in [Conversations -> Nat]
    /\ Timeouts \in BOOLEAN

VARIABLES
    inflight,   \* _inflight_requests: [server -> count]
    cache,      \* keys of _request_id_to_server, least recently used first
    route,      \* values of _request_id_to_server, read only for cached keys
    releases,   \* release_server calls sent and not yet executed, per server
    pc,         \* where each conversation is in generate
    held,       \* server_id in each conversation's call of generate
    job,        \* the server's view of the current turn_request_id
    turns,      \* turns each conversation has started
    since       \* history: who has acquired since the conversation last did

lbVars == <<inflight, cache, route, since>>
vars == <<inflight, cache, route, releases, pc, held, job, turns, since>>

(* The states of one generate call.  A conversation holds a slot of its     *)
(* server from the moment acquire_server has run until the finally clause.  *)
HoldingStates == {"granted", "waiting", "aborting", "draining"}
PcStates == {"ready", "acquiring", "done", "failed"} \cup HoldingStates
FinishedJob == {"completed", "aborted", "error"}
JobStates == {"none", "submitted", "running"} \cup FinishedJob

Holders(s) == {c \in Conversations : pc[c] \in HoldingStates /\ held[c] = s}

Init ==
    /\ inflight = [s \in Servers |-> 0]
    /\ cache = << >>
    /\ route = [c \in Conversations |-> 1]
    /\ releases = [s \in Servers |-> 0]
    /\ pc = [c \in Conversations |-> "ready"]
    /\ held = [c \in Conversations |-> 1]
    /\ job = [c \in Conversations |-> "none"]
    /\ turns = [c \in Conversations |-> 0]
    /\ since = [c \in Conversations |-> {}]

-----------------------------------------------------------------------------
(* The balancer actor.                                                      *)

Cached(c) == \E i \in DOMAIN cache : cache[i] = c

(* s is the first server of the dict with the fewest requests in flight.    *)
Mut_LastOfTheDict(s) == s = NumServers
LeastLoaded(s) ==
    \A t \in Servers :
        inflight[s] < inflight[t] \/ (inflight[s] = inflight[t] /\ s <= t)

Without(q, i) == SubSeq(q, 1, i - 1) \o SubSeq(q, i + 1, Len(q))

(* A read of a cached key moves it to the recently used end.                *)
Touched(c) ==
    LET i == CHOOSE j \in DOMAIN cache : cache[j] = c
    IN  Append(Without(cache, i), c)

(* A new key is stored after the least recently used one made room.         *)
Mut_EvictNewest(c) ==
    Append(IF Len(cache) >= MaxCacheSize THEN SubSeq(cache, 1, Len(cache) - 1) ELSE cache, c)
Inserted(c) ==
    Append(IF Len(cache) >= MaxCacheSize THEN Tail(cache) ELSE cache, c)

(* acquire_server(c) is executed: stay on the cached server, else go to the *)
(* least loaded one and remember it.                                        *)
AcquireServer(c) ==
    /\ pc[c] = "acquiring"
    /\ \E s \in Servers :
           /\ IF Cached(c) THEN s = route[c] ELSE LeastLoaded(s)
           /\ inflight' = [inflight EXCEPT ![s] = @ + 1]
           /\ cache' = IF Cached(c) THEN Touched(c) ELSE Inserted(c)
           /\ route' = [route EXCEPT ![c] = s]
           /\ held' = [held EXCEPT ![c] = s]
    /\ pc' = [pc EXCEPT ![c] = "granted"]
    /\ since' = [d \in Conversations |-> IF d = c THEN {} ELSE since[d] \cup {c}]
    /\ UNCHANGED <<releases, job, turns>>

(* release_server(s) is executed.  With nothing in flight it raises, and    *)
(* the counter stays: nobody awaits the call.                               *)
ReleaseServer(s) ==
    /\ releases[s] > 0
    /\ releases' = [releases EXCEPT ![s] = @ - 1]
    /\ inflight' = [inflight EXCEPT ![s] = IF @ <= 0 THEN @ ELSE @ - 1]
    /\ UNCHANGED <<cache, route, pc, held, job, turns, since>>

-----------------------------------------------------------------------------
(* The client: one call of AsyncLLMServerManager.generate per turn.         *)

(* Enter generate: send acquire_server and await its answer.                *)
CallAcquire(c) ==
    /\ pc[c] = "ready"
    /\ turns[c] < MaxTurns[c]
    /\ pc' = [pc EXCEPT ![c] = "acquiring"]
    /\ turns' = [turns EXCEPT ![c] = @ + 1]
    /\ job' = [job EXCEPT ![c] = "none"]
    /\ UNCHANGED <<lbVars, releases, held>>

(* The conversation ends without another turn.                              *)
Finish(c) ==
    /\ pc[c] = "ready"
    /\ turns[c] > 0
    /\ pc' = [pc EXCEPT ![c] = "done"]
    /\ UNCHANGED <<lbVars, releases, held, job, turns>>

(* The answer arrived: submit the generation under a new turn_request_id.   *)
Submit(c) ==
    /\ pc[c] = "granted"
    /\ pc' = [pc EXCEPT ![c] = "waiting"]
    /\ job' = [job EXCEPT ![c] = "submitted"]
    /\ UNCHANGED <<lbVars, releases, held, turns>>

(* The finally clause, with what the call does next.                        *)
Mut_LeaveTwice(c, next) ==
    /\ pc' = [pc EXCEPT ![c] = next]
    /\ releases' = [releases EXCEPT ![held[c]] = @ + (IF next = "failed" THEN 2 ELSE 1)]
    /\ UNCHANGED <<lbVars, held, turns>>
Mut_LeaveNoRelease(c, next) ==
    /\ pc' = [pc EXCEPT ![c] = next]
    /\ releases' = [releases EXCEPT ![held[c]] = @ + (IF next = "failed" THEN 0 ELSE 1)]
    /\ UNCHANGED <<lbVars, held, turns>>
Leave(c, next) ==
    /\ pc' = [pc EXCEPT ![c] = next]
    /\ releases' = [releases EXCEPT ![held[c]] = @ + 1]
    /\ UNCHANGED <<lbVars, held, turns>>

(* The generation's answer, or its exception, reaches the client in time.   *)
Answer(c) ==
    /\ pc[c] = "waiting"
    /\ job[c] \in FinishedJob
    /\ Leave(c, IF job[c] = "error" THEN "failed" ELSE "ready")
    /\ UNCHANGED job

(* wait_for gives up; shield keeps the generation running.  The answer may  *)
(* already be on its way.                                                   *)
TimeOut(c) ==
    /\ Timeouts
    /\ pc[c] = "waiting"
    /\ pc' = [pc EXCEPT ![c] = "aborting"]
    /\ UNCHANGED <<lbVars, releases, held, job, turns>>

(* The second wait ends, with an answer that is dropped or after 5 seconds; *)
(* either way generate raises TimeoutError.                                 *)
Mut_DrainGoesOn(c) ==
    /\ pc[c] = "draining"
    /\ Leave(c, "ready")
    /\ UNCHANGED job
Drain(c) ==
    /\ pc[c] = "draining"
    /\ Leave(c, "failed")
    /\ UNCHANGED job

-----------------------------------------------------------------------------
(* The rollout server's side of a turn.                                     *)

SetJob(c, from, to) ==
    /\ job[c] = from
    /\ job' = [job EXCEPT ![c] = to]
    /\ UNCHANGED <<lbVars, releases, pc, held, turns>>

(* The prompt is checked, then the engine registers the request: too long a *)
(* prompt raises before anything is registered.                             *)
Register(c) == SetJob(c, "submitted", "running")
Reject(c) == SetJob(c, "submitted", "error")

(* The generation ends by itself.                                           *)
Complete(c) == SetJob(c, "running", "completed")

(* abort_request is executed and answered; until then the client waits,     *)
(* without a timeout.  It aborts only a request the engine has registered;  *)
(* "not found" and every error leave the job alone.                         *)
AbortRequest(c) ==
    /\ pc[c] = "aborting"
    /\ pc' = [pc EXCEPT ![c] = "draining"]
    /\ \/ job[c] = "running" /\ job' = [job EXCEPT ![c] = "aborted"]
       \/ UNCHANGED job
    /\ UNCHANGED <<lbVars, releases, held, turns>>

(* Every conversation is over and every release has been executed.          *)
Quiescent ==
    /\ \A c \in Conversations : pc[c] \in {"done", "failed"} /\ job[c] \notin {"submitted", "running"}
    /\ \A s \in Servers : releases[s] = 0
Idle == Quiescent /\ UNCHANGED vars

Client(c) ==
    \/ CallAcquire(c) \/ Finish(c) \/ Submit(c) \/ Answer(c)
    \/ TimeOut(c) \/ Drain(c)
Server(c) == Register(c) \/ Reject(c) \/ Complete(c) \/ AbortRequest(c)

Next ==
    \/ \E c \in Conversations : AcquireServer(c) \/ Client(c) \/ Server(c)
    \/ \E s \in Servers : ReleaseServer(s)
    \/ Idle

(* The balancer executes its calls, answers and timers wake the coroutine   *)
(* that awaits them.  Servers are trusted only if the client is, that is if *)
(* it has no timeout: a generation then ends by itself.                     *)
Fairness ==
    /\ \A c \in Conversations : WF_vars(AcquireServer(c)) /\ WF_vars(Client(c))
    /\ \A s \in Servers : WF_vars(ReleaseServer(s))
    /\ \A c \in Conversations : WF_vars(~Timeouts /\ Server(c))

Spec == Init /\ [][Next]_vars
FairSpec == Spec /\ Fairness

-----------------------------------------------------------------------------
TypeOK ==
    /\ inflight \in [Servers -> Nat]
    /\ cache \in Seq(Conversations) /\ Len(cache) <= MaxCacheSize
    /\ route \in [Conversations -> Servers]
    /\ releases \in [Servers -> Nat]
    /\ pc \in [Conversations -> PcStates]
    /\ held \in [Conversations -> Servers]
    /\ job \in [Conversations -> JobStates]
    /\ turns \in [Conversations -> Nat]
    /\ since \in [Conversations -> SUBSET Conversations]

(* Every count of acquire_server is matched by exactly one conversation     *)
(* that still has to release it or by one release under way, whatever the   *)
(* timeouts, aborts, late answers and exceptions: release_server never      *)
(* raises "no inflight requests" and no slot leaks.                         *)
InflightAccounting ==
    \A s \in Servers : inflight[s] = Cardinality(Holders(s)) + releases[s]

(* The "no inflight requests" ValueError of release_server is unreachable.  *)
ReleaseNeverRaises ==
    \A s \in Servers : releases[s] > 0 => inflight[s] > 0

(* A conversation changes server between two turns only if its route was    *)
(* evicted, that is after MaxCacheSize other conversations acquired.        *)
StickyUnlessEvicted ==
    [][\A c \in Conversations :
          (turns[c] > 1 /\ pc[c] = "acquiring" /\ held'[c] # held[c])
              => Cardinality(since[c]) >= MaxCacheSize]_vars

(* As long as nothing can be sticky, since no conversation is past its      *)
(* first turn, greedy routing loads no server beyond its share of the       *)
(* conversations.                                                           *)
FairShare ==
    (\A c \in Conversations : turns[c] <= 1) =>
        \A s \in Servers :
            inflight[s] <= (Cardinality(Conversations) + NumServers - 1) \div NumServers

(* In the end the only slots not given back are those whose clients wait    *)
(* for the answer of an abort that their server never gives: neither a      *)
(* generation that never ends nor any error keeps a slot.                   *)
AllReleased ==
    <>[](\A s \in Servers :
            inflight[s] = Cardinality({c \in Conversations : pc[c] = "aborting" /\ held[c] = s}))

(* A conversation never goes on while a generation of it is still on its    *)
(* server: only the last turn of a conversation that failed, by a timeout   *)
(* whose abort did not find the request, may outlive its slot.              *)
OrphansOnlyAfterFailure ==
    \A c \in Conversations :
        pc[c] \in {"ready", "acquiring", "granted", "done"} => job[c] \notin {"submitted", "running"}
=============================================================================
