-------------------------------- MODULE Logger --------------------------------
(***************************************************************************)
(* The users of the ring buffer.  "bare": two threads that call push(),    *)
(* pop() and size() at will, as the tests and the market data path do.     *)
(* "logger": src/src/common/logger.hpp, in which the hot path pushes with  *)
(* log(), the drain thread pops in DrainLoop() and the destructor joins it *)
(* and pops the rest.  Steps of the ring are those of RingBuffer.          *)
(*                                                                         *)
(* Of the file only `dirty' is kept: something was rendered since the last *)
(* fflush().  The count of dropped entries is left out.                    *)
(***************************************************************************)
EXTENDS RingBuffer

CONSTANT Critical      \* the entries of level kCritical

VARIABLES
  user,
  running, flushReq,   \* running_, flush_request_
  asking,              \* log() has pushed a critical entry and must still ask
  lpc, any,            \* DrainLoop(): where it is, its local `any'
  dpc,                 \* the destructor
  dirty

logVars == <<running, flushReq, asking, lpc, any, dpc, dirty>>
allVars == <<vars, user, logVars>>

LogInit ==
  /\ Init
  /\ user \in {"bare", "logger"}
  /\ running = TRUE /\ flushReq = FALSE /\ asking = FALSE
  /\ lpc = "test" /\ any = FALSE /\ dpc = "alive" /\ dirty = FALSE

------------------------------------------------------------------------------
\* log(), on one thread, until the logger is destroyed.
Hot == dpc = "alive" /\ ~ asking

log ==
  \/ /\ Hot
     /\ \/ \E h \in Counter : PushFull(h)
        \/ \E v \in Values, h \in Counter : PushLoad(v, h)
        \/ PushWrite
     /\ UNCHANGED logVars
  \/ /\ PushPublish
     /\ asking' = (pitem \in Critical)
     /\ UNCHANGED <<running, flushReq, lpc, any, dpc, dirty>>
  \/ /\ asking
     /\ flushReq' = TRUE /\ asking' = FALSE
     /\ UNCHANGED <<vars, running, lpc, any, dpc, dirty>>

\* One step of a pop() that finds an element; the caller then renders it.
PopStep(t) ==
  \/ (PopLoad(t) \/ PopRead) /\ UNCHANGED <<any, dirty>>
  \/ PopAdvance /\ any' = TRUE /\ dirty' = TRUE

\* DrainLoop(): the loop test, the inner loop, the flush, the sleep.

\* Mutant of DrainTest: the loop does not look at running_.
DrainTestNot ==
  /\ lpc = "test"
  /\ lpc' = "drain"
  /\ any' = FALSE
  /\ UNCHANGED <<vars, running, flushReq, asking, dpc, dirty>>

DrainTest ==
  /\ lpc = "test"
  /\ lpc' = IF running THEN "drain" ELSE "exit"
  /\ any' = FALSE
  /\ UNCHANGED <<vars, running, flushReq, asking, dpc, dirty>>

DrainPop ==
  /\ lpc = "drain"
  /\ \E t \in Counter : PopStep(t)
  /\ UNCHANGED <<running, flushReq, asking, lpc, dpc>>

DrainEmpty ==
  /\ lpc = "drain"
  /\ \E t \in Counter : PopEmpty(t)
  /\ lpc' = "flush"
  /\ UNCHANGED <<running, flushReq, asking, any, dpc, dirty>>

\* Mutant of DrainFlush: only a critical entry makes it flush.
DrainFlushCritical ==
  /\ lpc = "flush"
  /\ dirty' = (dirty /\ ~ flushReq)
  /\ flushReq' = FALSE
  /\ lpc' = IF any THEN "test" ELSE "sleep"
  /\ UNCHANGED <<vars, running, asking, any, dpc>>

DrainFlush ==
  /\ lpc = "flush"
  /\ dirty' = (dirty /\ ~ (flushReq \/ any))
  /\ flushReq' = FALSE
  /\ lpc' = IF any THEN "test" ELSE "sleep"
  /\ UNCHANGED <<vars, running, asking, any, dpc>>

DrainWake ==
  /\ lpc = "sleep"
  /\ lpc' = "test"
  /\ UNCHANGED <<vars, running, flushReq, asking, any, dpc, dirty>>

\* The destructor, on the thread that logged.
Destroy ==
  /\ Hot /\ ppc = "idle"
  /\ running' = FALSE /\ dpc' = "join"
  /\ UNCHANGED <<vars, flushReq, asking, lpc, any, dirty>>

Join ==
  /\ dpc = "join" /\ lpc = "exit"
  /\ dpc' = "flush"
  /\ UNCHANGED <<vars, running, flushReq, asking, lpc, any, dirty>>

\* Mutant of FinalPop: the destructor does not drain the ring.
FinalPopNone ==
  /\ dpc = "flush"
  /\ dpc' = "closed" /\ dirty' = FALSE
  /\ UNCHANGED <<vars, running, flushReq, asking, lpc, any>>

\* Flush() of the destructor, which sees what its own thread has pushed.
FinalPop ==
  /\ dpc = "flush"
  /\ \/ PopStep(tail) /\ UNCHANGED dpc
     \/ PopEmpty(tail) /\ dpc' = "closed" /\ dirty' = FALSE /\ UNCHANGED any
  /\ UNCHANGED <<running, flushReq, asking, lpc>>

Drain == DrainTest \/ DrainPop \/ DrainEmpty \/ DrainFlush \/ DrainWake

LogNext ==
  /\ UNCHANGED user
  /\ \/ user = "bare" /\ Next /\ UNCHANGED logVars
     \/ user = "logger" /\ (log \/ Drain \/ Destroy \/ Join \/ FinalPop)

\* The drain thread goes on, and so does a destructor that has begun.  The strong
\* fairness is the visibility of stores: a loop that keeps loading tail_ sees the
\* current value some time, which C++ asks of atomics.
LogFairness ==
  /\ WF_allVars(user = "bare" /\ PopLoad(tail) /\ UNCHANGED <<user, logVars>>)
  /\ WF_allVars(user = "bare" /\ (PopRead \/ PopAdvance) /\ UNCHANGED <<user, logVars>>)
  /\ WF_allVars(user = "logger" /\ Drain /\ UNCHANGED user)
  /\ SF_allVars(/\ user = "logger" /\ lpc = "drain" /\ PopLoad(tail)
                /\ UNCHANGED <<user, logVars>>)
  /\ WF_allVars(user = "logger" /\ (Join \/ FinalPop) /\ UNCHANGED user)

LogSpec == LogInit /\ [][LogNext]_allVars /\ LogFairness

------------------------------------------------------------------------------
\* What was rendered is on disk before the drain thread sleeps, a critical entry
\* in particular (logger.hpp:6), although the request to flush it may have been
\* consumed by a round that had not popped it yet.
FlushedBeforeSleep == user = "logger" /\ lpc = "sleep" => ~ dirty

\* Once the destructor has closed the file every accepted entry is in it, also
\* those pushed after the drain thread last looked (logger.hpp:71-80).
ClosedIsComplete == dpc = "closed" => head = tail /\ cpc = "idle" /\ ~ dirty

\* The destructor returns: the drain thread leaves its loop however much is
\* queued, and join() does not wait for ever.
DestructorReturns == dpc = "join" ~> dpc = "closed"
==============================================================================
