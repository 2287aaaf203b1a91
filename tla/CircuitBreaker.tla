--------------------------- MODULE CircuitBreaker ---------------------------
(***************************************************************************)
(* The circuit breaker of kernel/circuit_breaker.py between the threads    *)
(* that ask for an answer and the online language model                    *)
(* (application/resilient_llm.py). The breaker is two attributes of one    *)
(* object and takes no lock: threads may interleave between any two        *)
(* accesses to an attribute.                                               *)
(*                                                                         *)
(* The moment of opening is kept as the time since then, which need not be *)
(* counted beyond ResetTimeout; nor need failureCount be counted beyond    *)
(* the threshold, since nobody asks for more.                              *)
(***************************************************************************)
EXTENDS Naturals

CONSTANTS
  Callers,       (* threads                                                *)
  Threshold,     (* failure_threshold                                      *)
  ResetTimeout   (* reset_timeout, in ticks                                *)

ASSUME BreakerAssumption == Threshold \in Nat \ {0} /\ ResetTimeout \in Nat \ {0}

VARIABLES
  failureCount, (* _failures                                             *)
  opened,       (* time since _opened_at, or Never                         *)
  at,           (* where each thread is in run()                           *)
  read,         (* the count each thread has read and not yet written back *)
  up            (* whether the online model answers at the moment          *)

breakerVars == <<failureCount, opened, at, read, up>>

Never == ResetTimeout + 1   (* None: it is closed                          *)

Bump(n) == IF n < Threshold THEN n + 1 ELSE n

Goto(c, place) == at' = [at EXCEPT ![c] = place]

\* The online model is asked; a request to one that is down is bound to fail.
Ask == IF up THEN "calling" ELSE "doomed"

\* state asks _opened_at for None, and asks again for the time that has passed.
Look(c) ==
  /\ at[c] = "idle"
  /\ Goto(c, IF opened = Never THEN Ask ELSE "looking")
  /\ UNCHANGED <<failureCount, opened, read, up>>

\* In between another thread may have closed it: then the subtraction fails.
Judge(c) ==
  /\ at[c] = "looking"
  /\ Goto(c, CASE opened = Never -> "raised"
               [] opened = ResetTimeout -> Ask
               [] OTHER -> "fallback")
  /\ UNCHANGED <<failureCount, opened, read, up>>

Answered(c) ==
  /\ at[c] = "calling" /\ up
  /\ Goto(c, "resetting")
  /\ UNCHANGED <<failureCount, opened, read, up>>

Refused(c) ==
  /\ at[c] = "doomed" \/ (at[c] = "calling" /\ ~up)
  /\ Goto(c, "counting")
  /\ read' = [read EXCEPT ![c] = failureCount]
  /\ UNCHANGED <<failureCount, opened, up>>

\* record_success
Reset(c) ==
  /\ at[c] = "resetting"
  /\ failureCount' = 0
  /\ Goto(c, "closing")
  /\ UNCHANGED <<opened, read, up>>
CloseKeptOpen(c) ==
  /\ at[c] = "closing"
  /\ Goto(c, "done")
  /\ UNCHANGED <<failureCount, opened, read, up>>
Close(c) ==
  /\ at[c] = "closing"
  /\ opened' = Never
  /\ Goto(c, "done")
  /\ UNCHANGED <<failureCount, read, up>>

\* record_failure: += reads and writes back
Count(c) ==
  /\ at[c] = "counting"
  /\ failureCount' = Bump(read[c])
  /\ read' = [read EXCEPT ![c] = 0]
  /\ Goto(c, "checking")
  /\ UNCHANGED <<opened, up>>
Check(c) ==
  /\ at[c] = "checking"
  /\ Goto(c, IF failureCount >= Threshold THEN "tripping" ELSE "fallback")
  /\ UNCHANGED <<failureCount, opened, read, up>>
Trip(c) ==
  /\ at[c] = "tripping"
  /\ opened' = 0
  /\ Goto(c, "fallback")
  /\ UNCHANGED <<failureCount, read, up>>

\* The answer, online or degraded, or the error, goes to whoever asked.
Return(c) ==
  /\ at[c] \in {"done", "fallback", "raised"}
  /\ Goto(c, "idle")
  /\ UNCHANGED <<failureCount, opened, read, up>>

TimePasses ==
  /\ opened < ResetTimeout
  /\ opened' = opened + 1
  /\ UNCHANGED <<failureCount, at, read, up>>

GoesDown == up /\ up' = FALSE /\ UNCHANGED <<failureCount, opened, at, read>>
ComesUp == ~up /\ up' = TRUE /\ UNCHANGED <<failureCount, opened, at, read>>

BreakerInit ==
  /\ failureCount = 0
  /\ opened = Never
  /\ at = [c \in Callers |-> "idle"]
  /\ read = [c \in Callers |-> 0]
  /\ up = TRUE

Run(c) ==
  \/ Look(c) \/ Judge(c) \/ Answered(c) \/ Refused(c)
  \/ Reset(c) \/ Close(c) \/ Count(c) \/ Check(c) \/ Trip(c) \/ Return(c)

BreakerNext == (\E c \in Callers : Run(c)) \/ TimePasses \/ GoesDown \/ ComesUp

\* Requests keep coming and time passes. Nothing is owed by the online model.
BreakerFairness == WF_breakerVars(TimePasses) /\ \A c \in Callers : WF_breakerVars(Run(c))

BreakerSpec == BreakerInit /\ [][BreakerNext]_breakerVars /\ BreakerFairness

-----------------------------------------------------------------------------
\* "then half-open to probe recovery" (application/resilient_llm.py): once the
\* online model answers again for good, the breaker closes for good, whatever
\* counts and verdicts of slow threads arrive late.
RecoversWithPrimary == <>[]up => <>[](opened = Never)

=============================================================================
