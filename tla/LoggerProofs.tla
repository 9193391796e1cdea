----------------------------- MODULE LoggerProofs -----------------------------
(***************************************************************************)
(* What the logger promises of its file, for a ring of any capacity and    *)
(* any entries.  Of the ring's steps the proof uses only which of them     *)
(* move head and tail and what PopEmpty has seen.                          *)
(***************************************************************************)
EXTENDS Logger, TLAPS

\* The drain thread stops outside the inner loop with nothing unflushed; inside,
\* `any' says whether there is.  A destructor past the join is alone.
LogInv ==
  /\ any \in BOOLEAN /\ dirty \in BOOLEAN
  /\ user = "bare" => dpc = "alive"
  /\ dpc # "alive" => ppc = "idle" /\ ~ asking
  /\ dpc \in {"flush", "closed"} => lpc = "exit"
  /\ lpc \in {"test", "sleep"} => ~ dirty
  /\ lpc \in {"drain", "flush"} /\ dirty => any
  /\ ClosedIsComplete

\* The steps of log() leave the drain thread's state alone.
LEMMA HotKeeps == LogInv /\ log /\ UNCHANGED user => LogInv'
<1> SUFFICES ASSUME LogInv, log, UNCHANGED user PROVE LogInv'
  OBVIOUS
<1>1. dpc = "alive" \/ (ppc = "idle" /\ ~ asking)
  BY DEF LogInv
<1>2. dpc = "alive" /\ UNCHANGED <<running, lpc, any, dpc, dirty>>
  BY <1>1 DEF log, Hot, PushPublish, logVars
<1> QED
  BY <1>2 DEF LogInv, ClosedIsComplete

\* The drain thread flushes what it rendered before it leaves the inner loop.
LEMMA DrainKeeps == LogInv /\ Drain /\ UNCHANGED user => LogInv'
<1> SUFFICES ASSUME LogInv, Drain, UNCHANGED user PROVE LogInv'
  OBVIOUS
<1>0. lpc # "exit" /\ dpc \notin {"flush", "closed"}
  BY DEF LogInv, Drain, DrainTest, DrainPop, DrainEmpty, DrainFlush, DrainWake
<1>1. UNCHANGED <<running, asking, dpc, ppc>>
  BY DEF Drain, DrainTest, DrainPop, DrainEmpty, DrainFlush, DrainWake, PopStep,
         PopLoad, PopRead, PopAdvance, PopEmpty, vars, producer
<1>2. CASE DrainTest
  <2>1. lpc = "test" /\ lpc' \in {"drain", "exit"} /\ UNCHANGED dirty
    BY <1>2, ZenonT(60) DEF DrainTest
  <2>2. ~ dirty' /\ any' = FALSE
    BY <1>2, <2>1 DEF LogInv, DrainTest
  <2> QED
    BY <1>0, <1>1, <2>1, <2>2 DEF LogInv, ClosedIsComplete
<1>3. CASE DrainPop
  <2>1. lpc' = "drain"
    BY <1>3 DEF DrainPop
  <2>2. \/ UNCHANGED <<any, dirty>>
        \/ any' = TRUE /\ dirty' = TRUE
    BY <1>3, ZenonT(60) DEF DrainPop, PopStep
  <2>3. lpc = "drain"
    BY <1>3 DEF DrainPop
  <2>4. any' \in BOOLEAN /\ dirty' \in BOOLEAN
    BY <2>2 DEF LogInv
  <2>5. dirty' => any'
    <3>1. dirty => any
      BY <2>3 DEF LogInv
    <3>2. CASE UNCHANGED <<any, dirty>>
      <4>1. any' = any /\ dirty' = dirty
        BY <3>2
      <4> QED
        BY <3>1, <4>1, ZenonT(60)
    <3>3. CASE any' = TRUE /\ dirty' = TRUE
      BY <3>3
    <3> QED
      BY <2>2, <3>2, <3>3
  <2> QED
    BY <1>0, <1>1, <2>1, <2>4, <2>5 DEF LogInv, ClosedIsComplete
<1>4. CASE DrainEmpty
  BY <1>0, <1>1, <1>4 DEF LogInv, ClosedIsComplete, DrainEmpty
<1>5. CASE DrainFlush
  <2>1. ~ dirty'
    BY <1>5 DEF LogInv, DrainFlush
  <2>2. dirty' \in BOOLEAN /\ UNCHANGED any
    BY <1>5 DEF DrainFlush
  <2>3. lpc' \in {"test", "sleep"}
    BY <1>5, ZenonT(60) DEF DrainFlush
  <2> QED
    BY <1>0, <1>1, <2>1, <2>2, <2>3 DEF LogInv, ClosedIsComplete
<1>6. CASE DrainWake
  BY <1>0, <1>1, <1>6 DEF LogInv, ClosedIsComplete, DrainWake
<1> QED
  BY <1>2, <1>3, <1>4, <1>5, <1>6 DEF Drain

\* The destructor: it joins before it pops, and closes on an empty ring.
LEMMA DestructorKeeps ==
  LogInv /\ (Destroy \/ Join \/ FinalPop) /\ user = "logger" /\ UNCHANGED user
    => LogInv'
<1> SUFFICES ASSUME LogInv, Destroy \/ Join \/ FinalPop,
                    user = "logger", UNCHANGED user
             PROVE  LogInv'
  OBVIOUS
<1>1. CASE Destroy
  BY <1>1 DEF LogInv, ClosedIsComplete, Destroy, Hot, vars, producer
<1>2. CASE Join
  BY <1>2 DEF LogInv, ClosedIsComplete, Join, vars, producer
<1>3. CASE FinalPop
  <2>1. UNCHANGED <<ppc, running, flushReq, asking, lpc>> /\ lpc = "exit"
    BY <1>3 DEF LogInv, FinalPop, PopStep, PopLoad, PopRead, PopAdvance, PopEmpty,
                producer
  <2>2. CASE PopStep(tail) /\ UNCHANGED dpc
    <3>1. any' \in BOOLEAN /\ dirty' \in BOOLEAN
      BY <2>2 DEF LogInv, PopStep
    <3> QED
      BY <1>3, <2>1, <2>2, <3>1 DEF LogInv, ClosedIsComplete, FinalPop
  <2>3. CASE PopEmpty(tail) /\ dpc' = "closed" /\ dirty' = FALSE /\ UNCHANGED any
    <3>1. head' = tail' /\ cpc' = "idle"
      BY <2>3 DEF PopEmpty
    <3>2. any' \in BOOLEAN /\ ~ dirty' /\ dirty' \in BOOLEAN
      BY <2>3 DEF LogInv
    <3> QED
      BY <1>3, <2>1, <2>3, <3>1, <3>2 DEF LogInv, ClosedIsComplete, FinalPop
  <2> QED
    BY <1>3, <2>2, <2>3 DEF FinalPop
<1> QED
  BY <1>1, <1>2, <1>3

LEMMA LogInvariant == LogSpec => []LogInv
<1>1. LogInit => LogInv
  BY DEF LogInit, LogInv, ClosedIsComplete, Init
<1>2. LogInv /\ [LogNext]_allVars => LogInv'
  <2> SUFFICES ASSUME LogInv, [LogNext]_allVars PROVE LogInv'
    OBVIOUS
  <2>1. CASE user = "bare" /\ UNCHANGED <<user, logVars>>
    BY <2>1 DEF LogInv, ClosedIsComplete, logVars
  <2>2. CASE user = "logger" /\ LogNext
    BY <2>2, HotKeeps, DrainKeeps, DestructorKeeps DEF LogNext
  <2>3. CASE UNCHANGED allVars
    BY <2>3 DEF LogInv, ClosedIsComplete, allVars, logVars, vars, producer, consumer
  <2> QED
    BY <2>1, <2>2, <2>3 DEF LogNext
<1> QED
  BY <1>1, <1>2, PTL DEF LogSpec

\* Nothing that was rendered waits for a flush while the drain thread sleeps
\* (DrainLoop, logger.hpp:123-140), for any ring and any interleaving.
THEOREM SleepsFlushed == LogSpec => []FlushedBeforeSleep
<1>1. LogInv => FlushedBeforeSleep
  BY DEF LogInv, FlushedBeforeSleep
<1> QED
  BY <1>1, LogInvariant, PTL

\* A closed log file holds every entry the ring accepted (~AsyncLogger,
\* logger.hpp:71-80), for any ring and any interleaving.
THEOREM ClosedComplete == LogSpec => []ClosedIsComplete
<1>1. LogInv => ClosedIsComplete
  BY DEF LogInv
<1> QED
  BY <1>1, LogInvariant, PTL
==============================================================================
