---------------------------- MODULE CircuitBreaker ----------------------------
(***************************************************************************)
(* The three-state breaker (server/src/circuit-breaker.js) around the      *)
(* Soroban client's invoke (server/src/soroban.js): concurrent callers,    *)
(* the CLI command retried inside one breaker call, and the breaker's own  *)
(* timeout, which settles the call while the command runs on.              *)
(*                                                                         *)
(* Time is the wait since the breaker opened, in units of openDurationMs / *)
(* OpenDuration.  The failure count is kept up to the threshold: above it  *)
(* the code no longer tells counts apart.                                  *)
(***************************************************************************)
EXTENDS Naturals

CONSTANTS
  Callers,           \* concurrent users of the breaker, each one call at a time
  FailureThreshold, SuccessThreshold, OpenDuration,
  RpcMaxRetries,     \* config.rpcMaxRetries of the retry loop inside invoke
  MaxStrays          \* bound: commands that fail although the node is back

\* What the constants may be
BreakerConstants ==
  /\ {FailureThreshold, SuccessThreshold} \subseteq Nat \ {0}
  /\ {OpenDuration, RpcMaxRetries, MaxStrays} \subseteq Nat

VARIABLES
  breaker,           \* #state
  failures, successes,
  waited,            \* Date.now() - #openedAt, up to OpenDuration
  call,              \* caller -> "idle", "running"
  tries,             \* caller -> retry attempt of its running command
  orphan,            \* callers whose timed-out command still runs
  rpcUp,             \* the RPC node is back: all but strays succeed from now on
  strays,            \* failures of a node that is back
  streak             \* history: failed results since the last success, capped

breakerVars == <<breaker, failures, successes, waited, call, tries, orphan,
                 rpcUp, strays, streak>>

BreakerTypeOK ==
  /\ breaker \in {"CLOSED", "OPEN", "HALF_OPEN"}
  /\ failures \in 0 .. FailureThreshold /\ successes \in 0 .. SuccessThreshold - 1
  /\ waited \in 0 .. OpenDuration
  /\ call \in [Callers -> {"idle", "running"}]
  /\ tries \in [Callers -> 0 .. RpcMaxRetries]
  /\ orphan \subseteq Callers /\ rpcUp \in BOOLEAN
  /\ strays \in 0 .. MaxStrays
  /\ streak \in 0 .. FailureThreshold

BreakerInit ==
  /\ breaker = "CLOSED" /\ failures = 0 /\ successes = 0 /\ waited = 0
  /\ call = [c \in Callers |-> "idle"] /\ tries = [c \in Callers |-> 0]
  /\ orphan = {} /\ rpcUp = FALSE /\ strays = 0 /\ streak = 0

UpTo(n, cap) == IF n > cap THEN cap ELSE n

-----------------------------------------------------------------------------
\* Mutant: a success in CLOSED leaves the count of earlier failures
Mut_OnSuccess ==
  IF breaker = "HALF_OPEN"
    THEN IF successes + 1 >= SuccessThreshold
           THEN failures' = 0 /\ successes' = 0 /\ breaker' = "CLOSED"
           ELSE successes' = successes + 1 /\ UNCHANGED <<failures, breaker>>
    ELSE UNCHANGED <<failures, successes, breaker>>

\* #onSuccess
OnSuccess ==
  IF breaker = "HALF_OPEN"
    THEN IF successes + 1 >= SuccessThreshold
           THEN failures' = 0 /\ successes' = 0 /\ breaker' = "CLOSED"
           ELSE successes' = successes + 1 /\ UNCHANGED <<failures, breaker>>
    ELSE failures' = 0 /\ UNCHANGED <<successes, breaker>>

\* #onFailure: also in OPEN, where a late failure restarts the wait
OnFailure ==
  /\ failures' = UpTo(failures + 1, FailureThreshold)
  /\ IF breaker = "HALF_OPEN" \/ failures + 1 >= FailureThreshold
       THEN breaker' = "OPEN" /\ waited' = 0 /\ successes' = 0
       ELSE UNCHANGED <<breaker, waited, successes>>

\* call(): fails fast while OPEN, probes once the wait is over, else runs fn.
\* The fallback of a rejected call changes no state.
Call(c) ==
  /\ call[c] = "idle" /\ c \notin orphan
  /\ breaker = "OPEN" => waited = OpenDuration
  /\ breaker' = IF breaker = "OPEN" THEN "HALF_OPEN" ELSE breaker
  /\ call' = [call EXCEPT ![c] = "running"]
  /\ tries' = [tries EXCEPT ![c] = 0]
  /\ UNCHANGED <<failures, successes, waited, orphan, rpcUp, strays, streak>>

\* The command succeeds within its timeouts
CommandOk(c) ==
  /\ call[c] = "running"
  /\ OnSuccess
  /\ call' = [call EXCEPT ![c] = "idle"]
  /\ streak' = 0
  /\ UNCHANGED <<waited, tries, orphan, rpcUp, strays>>

\* A command can fail: the node is down, or this once although it is back (an error of
\* the contract, of the CLI or of the network between)
MayFail ==
  /\ ~rpcUp \/ strays < MaxStrays
  /\ strays' = IF rpcUp THEN strays + 1 ELSE strays

\* A transient error with attempts left is retried inside the same call
CommandRetried(c) ==
  /\ call[c] = "running" /\ MayFail /\ tries[c] < RpcMaxRetries
  /\ tries' = [tries EXCEPT ![c] = @ + 1]
  /\ UNCHANGED <<breaker, failures, successes, waited, call, orphan, rpcUp, streak>>

\* A lasting error, the last transient one, or the CLI's own timeout; the
\* breaker's timeout (timedOut) abandons the command to itself
CommandFails(c, timedOut) ==
  /\ call[c] = "running" /\ MayFail
  /\ OnFailure
  /\ call' = [call EXCEPT ![c] = "idle"]
  /\ orphan' = IF timedOut THEN orphan \cup {c} ELSE orphan
  /\ streak' = UpTo(streak + 1, FailureThreshold)
  /\ UNCHANGED <<tries, rpcUp>>

\* An abandoned command ends; nobody reads its result
OrphanEnds(c) ==
  /\ c \in orphan /\ orphan' = orphan \ {c}
  /\ UNCHANGED <<breaker, failures, successes, waited, call, tries, rpcUp, strays, streak>>

Tick ==
  /\ breaker = "OPEN" /\ waited < OpenDuration /\ waited' = waited + 1
  /\ UNCHANGED <<breaker, failures, successes, call, tries, orphan, rpcUp, strays, streak>>

RpcRecovers ==
  /\ ~rpcUp /\ rpcUp' = TRUE
  /\ UNCHANGED <<breaker, failures, successes, waited, call, tries, orphan, strays, streak>>

BreakerNext ==
  \/ \E c \in Callers : \/ Call(c) \/ CommandOk(c) \/ CommandRetried(c)
                        \/ \E t \in BOOLEAN : CommandFails(c, t)
                        \/ OrphanEnds(c)
  \/ Tick \/ RpcRecovers

\* Clients keep calling, commands end, and time passes
BreakerFairness ==
  /\ \A c \in Callers : /\ WF_breakerVars(Call(c))
                        /\ WF_breakerVars(CommandOk(c))
                        /\ WF_breakerVars(OrphanEnds(c))
  /\ WF_breakerVars(Tick)

BreakerSpec == BreakerInit /\ [][BreakerNext]_breakerVars /\ BreakerFairness

-----------------------------------------------------------------------------
\* A breaker that lets calls through freely has seen fewer than the threshold
\* of failures: closing after the probes clears the count that opened it
\* (circuit-breaker.js:128), so one new failure does not reopen it.
ClosedBelowThreshold == breaker = "CLOSED" => failures < FailureThreshold

\* The circuit trips from CLOSED on consecutive failures only, whatever the
\* order in which concurrent calls end (circuit-breaker.js:23 "consecutive
\* failures before opening").
TripsOnConsecutiveFailures ==
  [][breaker = "CLOSED" /\ breaker' = "OPEN" => streak' >= FailureThreshold]_breakerVars

\* circuit-breaker.js: whatever calls overlap, the count a CLOSED breaker keeps is
\* below the threshold, and only an unbroken run of that many failures opens it.
BreakerCountsStreak ==
  /\ [](BreakerTypeOK /\ ClosedBelowThreshold)
  /\ TripsOnConsecutiveFailures

\* Once the node answers again, but for some stray failures, the breaker closes: late
\* failures of calls started earlier and the rejected calls do not keep it open
\* (circuit-breaker.js:76-89, 124-147).
HealsAfterRecovery == rpcUp ~> breaker = "CLOSED"
=============================================================================
