------------------------ MODULE GracefulShutdownProofs ------------------------
(* Nothing is used after it was closed, for any number of connections and      *)
(* resources.                                                                  *)
EXTENDS GracefulShutdown, TLAPS

USE DEF Alive

LEMMA InitTyped == Init => TypeOK
<1> SUFFICES ASSUME Init PROVE TypeOK
  OBVIOUS
<1>1. closed \in 0 .. Resources
  BY ResourcesAreCounted DEF Init
<1>2. conn \in [Conns -> ConnStates]
  BY DEF Init, ConnStates
<1>3. /\ run \in RunStates
      /\ listener \in {"none", "starting", "listening", "stopped"}
      /\ errCh \in BOOLEAN /\ signalled \in BOOLEAN
      /\ status \in {"running", "0", "1", "killed"}
  BY DEF Init, RunStates
<1>4. closed = 0 /\ run = "loading" /\ status = "running"
  BY DEF Init
<1> QED
  BY <1>1, <1>2, <1>3, <1>4 DEF TypeOK

LEMMA StepTyped == TypeOK /\ [Next]_vars => TypeOK'
<1> SUFFICES ASSUME TypeOK, [Next]_vars PROVE TypeOK'
  OBVIOUS
<1> USE ResourcesAreCounted DEF TypeOK, RunStates, ConnStates
<1>1. CASE TakeError \/ TakeSignal \/ Drained \/ DrainFails
  BY <1>1 DEF TakeError, TakeSignal, Drained, DrainFails
<1>2. CASE Close \/ Return
  <2>1. CASE Close
    BY <2>1 DEF Close
  <2>2. CASE Return
    BY <2>2 DEF Return
  <2> QED
    BY <1>2, <2>1, <2>2
<1>3. CASE Exit
  <2>1. conn' \in [Conns -> ConnStates]
    BY <1>3 DEF Exit
  <2>2. /\ UNCHANGED <<run, listener, errCh, signalled, closed>>
        /\ status' = IF run = "succeeded" THEN "0" ELSE "1"
    BY <1>3 DEF Exit
  <2>3. status' \in {"running", "0", "1", "killed"} /\ (status' = "0" => run' = "succeeded")
    BY <2>2
  <2> QED
    BY <2>1, <2>2, <2>3
<1>4. CASE Listen \/ ListenFails \/ Signal
  BY <1>4 DEF Listen, ListenFails, Signal
<1>5. ASSUME NEW c \in Conns, Accept(c) \/ ReadRequest(c) \/ Answer(c) \/ ShutIdle(c)
      PROVE  TypeOK'
  BY <1>5 DEF Accept, ReadRequest, Answer, ShutIdle, Move
<1>6. CASE LoadConfig \/ ConnectDatabase \/ ConnectRedis
  BY <1>6 DEF LoadConfig, ConnectDatabase, ConnectRedis
<1>7. CASE UNCHANGED vars
  BY <1>7 DEF vars
<1> QED
  BY <1>1, <1>2, <1>3, <1>4, <1>5, <1>6, <1>7 DEF Next, RunStep

(* The state of the process and of Run has its type, and what Run has done     *)
(* fits where it is, in every reachable state (server.go:26-65).               *)
THEOREM Typing == Spec => []TypeOK
BY InitTyped, StepTyped, PTL DEF Spec

-------------------------------------------------------------------------------
(* NoUseAfterClose speaks of the closers; that it stays true takes that the    *)
(* connections were gone before the first one and that none can come any more. *)

Drainedness ==
    run \in {"closing", "succeeded"} => \A c \in Conns : conn[c] \notin {"open", "active"}

CutAtExit == Alive => \A c \in Conns : conn[c] # "cut"

Inv == Drainedness /\ CutAtExit /\ NoUseAfterClose

LEMMA InitInv == Init => Inv
BY DEF Init, Inv, Drainedness, CutAtExit, NoUseAfterClose

LEMMA StepInv == TypeOK /\ Inv /\ [Next]_vars => Inv'
<1> SUFFICES ASSUME TypeOK, Inv, [Next]_vars PROVE Inv'
  OBVIOUS
<1> USE DEF TypeOK, Inv, Drainedness, CutAtExit, NoUseAfterClose
<1>1. CASE TakeError \/ DrainFails
  BY <1>1 DEF TakeError, DrainFails
<1>2. CASE TakeSignal \/ Drained
  BY <1>2 DEF TakeSignal, Drained, Quiescent
<1>3. CASE Close
  <2>1. run = "closing" /\ conn' = conn /\ run' = run /\ status' = status /\ Alive
    BY <1>3 DEF Close
  <2> QED
    BY <2>1
<1>4. CASE Return
  BY <1>4 DEF Return
<1>5. CASE Exit
  <2>1. /\ run' = run /\ closed' = closed
        /\ status' = IF run = "succeeded" THEN "0" ELSE "1"
        /\ \A c \in Conns : conn'[c] = IF conn[c] \in {"open", "active"} THEN "cut" ELSE conn[c]
    BY <1>5 DEF Exit
  <2>2. Alive /\ \A c \in Conns : conn[c] # "cut"
    BY <1>5 DEF Exit
  <2> QED
    BY <2>1, <2>2
<1>6. CASE Listen \/ ListenFails \/ Signal
  BY <1>6 DEF Listen, ListenFails, Signal
<1>7. ASSUME NEW c \in Conns, Accept(c) PROVE Inv'
  (* Only a listener accepts, and no listener is left when Run closes.         *)
  BY <1>7 DEF Accept, Move
<1>8. ASSUME NEW c \in Conns, ReadRequest(c) \/ Answer(c) \/ ShutIdle(c) PROVE Inv'
  BY <1>8 DEF ReadRequest, Answer, ShutIdle, Move
<1>9. CASE LoadConfig \/ ConnectDatabase \/ ConnectRedis
  BY <1>9 DEF LoadConfig, ConnectDatabase, ConnectRedis
<1>10. CASE UNCHANGED vars
  BY <1>10 DEF vars
<1> QED
  BY <1>1, <1>2, <1>3, <1>4, <1>5, <1>6, <1>7, <1>8, <1>9, <1>10 DEF Next, RunStep

(* No handler runs once the first resource was closed, and an exit with status *)
(* 0 cuts no request off, whatever the order of signal, failing listener,      *)
(* connections and deadline (server.go:43-64).                                 *)
THEOREM NoHandlerOutlives == Spec => []NoUseAfterClose
<1>1. Init => TypeOK /\ Inv
  BY InitTyped, InitInv
<1>2. TypeOK /\ Inv /\ [Next]_vars => TypeOK' /\ Inv'
  BY StepTyped, StepInv
<1>3. Inv => NoUseAfterClose
  BY DEF Inv
<1> QED
  BY <1>1, <1>2, <1>3, PTL DEF Spec

===============================================================================
