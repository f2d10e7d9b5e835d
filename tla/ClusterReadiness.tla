---------------------------- MODULE ClusterReadiness ----------------------------
(***************************************************************************)
(* wait_for_cluster_ready: after configure, the endpoints a user hits are  *)
(* polled one after another against a single deadline.  Time is a clock    *)
(* that advances while a request or a sleep is under way; a request takes  *)
(* up to Attempt ticks and is answered by the endpoint as it is at some    *)
(* moment of it.  Endpoints come up, fail and come back on their own.      *)
(* wait_for_ssh is the same loop over a single endpoint.                   *)
(***************************************************************************)
EXTENDS Naturals, Sequences

CONSTANTS
    Endpoints,  \* the endpoints in the order they are polled
    Timeout,    \* timeout_seconds
    Attempt,    \* bound on one request (requests.get(..., timeout=10))
    Poll,       \* _READINESS_POLL_SECONDS
    MaxFlips    \* bound: changes of the endpoints' condition

ReadinessAssumption ==
    /\ Len(Endpoints) \in Nat \ {0} /\ DOMAIN Endpoints = 1..Len(Endpoints)
    /\ Timeout \in Nat /\ Attempt \in Nat /\ Poll \in Nat \ {0} /\ MaxFlips \in Nat

Polled == DOMAIN Endpoints
Conditions == {"refusing", "erroring", "serving"}

VARIABLES
    clock,      \* time.monotonic(), from the call on
    up,         \* the condition of each endpoint
    upSince,    \* history: when it took that condition
    flips,
    cur,        \* the endpoint being polled
    since,      \* when the current request or sleep began
    tried,      \* whether a request was sent to the current endpoint
    seen,       \* the conditions the current endpoint had since the request was sent
    answered,   \* history: endpoints that served a request of this call
    pc          \* "check", "request", "sleep", "ready" or "timeout"

world == <<up, upSince, flips>>
vars == <<clock, world, cur, since, tried, seen, answered, pc>>

Init ==
    /\ clock = 0
    /\ up \in [Polled -> Conditions]
    /\ upSince = [e \in Polled |-> 0]
    /\ flips = 0
    /\ cur = 1 /\ since = 0 /\ tried = FALSE
    /\ answered = {} /\ seen = {}
    /\ pc = "check"

-----------------------------------------------------------------------------
(* The world. *)

Flip ==
    \E e \in Polled, c \in Conditions :
        /\ flips < MaxFlips
        /\ pc \in {"request", "sleep"}
        /\ up[e] # c
        /\ flips' = flips + 1
        /\ up' = [up EXCEPT ![e] = c]
        /\ upSince' = [upSince EXCEPT ![e] = clock]
        /\ seen' = IF e = cur THEN seen \union {c} ELSE seen
        /\ UNCHANGED <<clock, cur, since, tried, answered, pc>>

\* The time a request or a sleep takes.  requests bounds the connection and each wait for
\* data by its timeout: Attempt stands for a server that answers at once or not at all,
\* one that sends its answer in pieces, each within the timeout, is not modelled.
Tick ==
    /\ \/ pc = "request" /\ clock < since + Attempt
       \/ pc = "sleep" /\ clock < since + Poll
    /\ clock' = clock + 1
    /\ UNCHANGED <<world, cur, since, tried, seen, answered, pc>>

-----------------------------------------------------------------------------
(* The loop. *)

\* Mutant: no request is sent that might outlast the deadline.
InTimeForRequest == clock + Attempt < Timeout

\* Mutant: the deadline is taken anew at every turn.
InTimeEach == clock < since + Timeout

InTime == clock < Timeout

Request ==
    /\ pc = "check"
    /\ InTime
    /\ pc' = "request"
    /\ since' = clock
    /\ tried' = TRUE
    /\ seen' = {up[cur]}
    /\ UNCHANGED <<clock, world, cur, answered>>

\* Mutant: any response counts, an error page too.
OkIfResponding(c) == c # "refusing"

Ok(c) == c = "serving"

\* response.ok: on to the next endpoint, or done.
Answered ==
    /\ pc = "request"
    /\ \E c \in seen : Ok(c)
    /\ answered' = IF "serving" \in seen THEN answered \union {cur} ELSE answered
    /\ IF cur = Len(Endpoints)
       THEN pc' = "ready" /\ UNCHANGED <<cur, tried>>
       ELSE pc' = "check" /\ cur' = cur + 1 /\ tried' = FALSE
    /\ UNCHANGED <<clock, world, since, seen>>

\* An HTTP error, a refused connection, or no answer in time.
NotReady ==
    /\ pc = "request"
    /\ \E c \in seen : ~Ok(c)
    /\ pc' = "sleep"
    /\ since' = clock
    /\ UNCHANGED <<clock, world, cur, tried, seen, answered>>

Awake ==
    /\ pc = "sleep"
    /\ clock = since + Poll
    /\ pc' = "check"
    /\ UNCHANGED <<clock, world, cur, since, tried, seen, answered>>

\* Mutant: only a failed request can give up.
TimesOutIfTried ==
    /\ pc = "check"
    /\ ~InTime /\ tried
    /\ pc' = "timeout"
    /\ UNCHANGED <<clock, world, cur, since, tried, seen, answered>>

\* The while loop's else branch.
TimesOut ==
    /\ pc = "check"
    /\ ~InTime
    /\ pc' = "timeout"
    /\ UNCHANGED <<clock, world, cur, since, tried, seen, answered>>

Step == Request \/ Answered \/ NotReady \/ Awake \/ TimesOut

Next == Flip \/ Tick \/ Step

\* Time passes, requests end, and the process keeps running.
Fairness == WF_vars(Tick) /\ WF_vars(Step)

Spec == Init /\ [][Next]_vars /\ Fairness

-----------------------------------------------------------------------------
(* Properties. *)

\* Every variable keeps its type.
TypeOK ==
    /\ clock \in Nat /\ since \in 0..clock
    /\ up \in [Polled -> Conditions] /\ upSince \in [Polled -> 0..clock]
    /\ flips \in 0..MaxFlips
    /\ cur \in Polled /\ tried \in BOOLEAN
    /\ answered \subseteq Polled /\ seen \subseteq Conditions
    /\ pc \in {"check", "request", "sleep", "ready", "timeout"}

\* The deadline is one for all endpoints: the call outlasts it by less than one request
\* and one sleep, however the endpoints behave.
BoundedWait == clock < Timeout + Attempt + Poll \/ clock = 0

\* It returned, so every endpoint served a request of this call: none is taken for ready
\* on the strength of an error page, of the other endpoint, or of an earlier deployment.
ReadyMeansServed == pc = "ready" => answered = Polled

\* It timed out on an endpoint it had asked at least once, so that endpoint was not
\* serving without interruption over the last request and sleep before the deadline.
TimeoutJustified ==
    pc = "timeout" /\ tried =>
      ~(up[cur] = "serving" /\ upSince[cur] + Attempt + Poll < Timeout)

\* The three together.
WaitJustified == ReadyMeansServed /\ TimeoutJustified /\ BoundedWait

\* When a request or a sleep began, how far it can have gone, and what an endpoint that is serving
\* and was found not to be says of the time since.
ProgressInv ==
    /\ 1..(cur - 1) \subseteq answered
    /\ pc = "request" =>
         /\ since < Timeout /\ clock <= since + Attempt
         /\ up[cur] = "serving" /\ (\E c \in seen : ~Ok(c)) => upSince[cur] >= since
    /\ pc = "sleep" =>
         /\ since < Timeout + Attempt /\ clock <= since + Poll
         /\ up[cur] = "serving" => upSince[cur] + Attempt >= since
    /\ pc = "check" /\ tried /\ up[cur] = "serving" => upSince[cur] + Attempt + Poll >= clock

\* The inductive invariant.
IInv == TypeOK /\ ProgressInv /\ WaitJustified

\* Whatever the endpoints do, configure is not left waiting.
Terminates == <>(pc \in {"ready", "timeout"})

-----------------------------------------------------------------------------
(* What the documentation says, and the code does not keep. *)

\* wait_for_cluster_ready "Raises ProvisioningTimeoutError: If an endpoint never becomes
\* ready" -- not one that has been serving since before the call.
TimeoutMeansNeverReady ==
    pc = "timeout" => ~(up[cur] = "serving" /\ upSince[cur] = 0)
================================================================================
