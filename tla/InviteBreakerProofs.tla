-------------------------- MODULE InviteBreakerProofs --------------------------
(* The breaker opens and closes when it should, for any number of calls.       *)
EXTENDS InviteBreaker, FiniteSetTheorems, SequenceTheorems, TLAPS

(* A reported result: the generation of its call and whether the mail went out *)
Results == [gen : Nat, ok : BOOLEAN]

(* The trailing failures that FailuresInARow counts, for any log s             *)
Row(s, g, n) ==
    {m \in 1 .. n : \A k \in m .. n :
        k = m \/ s[k].gen = g => s[k] = [gen |-> g, ok |-> FALSE]}

(* The inductive invariant.  It speaks of the breaker as the next step of a    *)
(* call finds it, and of the log.                                              *)
LogIsPast == \A n \in 1 .. Len(log) : log[n].gen <= generation

ResultsAreFinal == \A c \in Calls : result[c] # "none" => pc[c] = "done"

(* What a closed breaker counts is the row the log ends with; no row of its    *)
(* generation was ever longer than two.                                        *)
ClosedCounts ==
    state = "closed" =>
        /\ failures <= 2
        /\ FailuresInARow(generation, Len(log)) = failures
        /\ \A n \in 1 .. Len(log) : FailuresInARow(generation, n) <= 2

OpenHasReason ==
    state = "open" => ThreeInARow(generation - 1) \/ TrialEnded(generation - 1, "failed")

ClosedHasReason ==
    state = "closed" /\ generation > 0 => TrialEnded(generation - 1, "sent")

(* The call on trial is the one the half-open breaker has let out.             *)
TrialsAreCurrent ==
    \A c \in Calls : pc[c] = "out" =>
        (trial[c] <=> state = "half_open" /\ begun[c] = generation)

OpenLetsNoneOut ==
    state = "open" => \A c \in Calls : pc[c] = "out" => begun[c] < generation

OnTrial(c) == pc[c] = "out" /\ trial[c]

TrialsAreCounted == \A c \in Calls : OnTrial(c) => requests = 1

TrialIsAlone == \A c, d \in Calls : OnTrial(c) /\ OnTrial(d) => c = d

Inv ==
    /\ TypeOK
    /\ LogIsPast
    /\ ResultsAreFinal
    /\ ClosedCounts
    /\ OpenHasReason
    /\ ClosedHasReason
    /\ TrialsAreCurrent
    /\ TrialsAreCounted
    /\ TrialIsAlone
    /\ OpenLetsNoneOut

-------------------------------------------------------------------------------
(* Rows of failures *)

LEMMA RowIsCounted ==
    ASSUME NEW s, NEW g, NEW n \in Nat
    PROVE  /\ IsFiniteSet(Row(s, g, n))
           /\ Cardinality(Row(s, g, n)) \in Nat
<1>1. IsFiniteSet(1 .. n)
  BY FS_Interval
<1>2. Row(s, g, n) \in SUBSET (1 .. n)
  BY DEF Row
<1> QED
  BY <1>1, <1>2, FS_Subset, FS_CardinalityType

LEMMA RowOfPrefix ==
    ASSUME NEW s, NEW t, NEW g, NEW n \in Nat, \A k \in 1 .. n : t[k] = s[k]
    PROVE  Row(t, g, n) = Row(s, g, n)
<1>1. ASSUME NEW m \in 1 .. n
      PROVE  m \in Row(t, g, n) <=> m \in Row(s, g, n)
  <2>1. \A k \in m .. n : t[k] = s[k]
    OBVIOUS
  <2> QED
    BY <2>1 DEF Row
<1>2. Row(t, g, n) \subseteq 1 .. n /\ Row(s, g, n) \subseteq 1 .. n
  BY DEF Row
<1> QED
  BY <1>1, <1>2

(* Which of the trailing failures of s remain after one more result            *)
RowFollows(s, t, g, n) ==
    /\ Row(t, g, n + 1) \subseteq 1 .. n + 1
    /\ \A m \in 1 .. n : m \in Row(t, g, n + 1) <=>
         /\ m \in Row(s, g, n)
         /\ t[n + 1].gen = g => t[n + 1] = [gen |-> g, ok |-> FALSE]
    /\ n + 1 \in Row(t, g, n + 1) <=> t[n + 1] = [gen |-> g, ok |-> FALSE]

LEMMA RowAfterResult ==
    ASSUME NEW s, NEW t, NEW g, NEW n \in Nat, \A k \in 1 .. n : t[k] = s[k]
    PROVE  RowFollows(s, t, g, n)
<1>1. Row(t, g, n + 1) \subseteq 1 .. n + 1
  BY DEF Row
<1>2. ASSUME NEW m \in 1 .. n
      PROVE  m \in Row(t, g, n + 1) <=>
                /\ m \in Row(s, g, n)
                /\ t[n + 1].gen = g => t[n + 1] = [gen |-> g, ok |-> FALSE]
  <2>1. m .. n + 1 = (m .. n) \union {n + 1}
    OBVIOUS
  <2>2. \A k \in m .. n : t[k] = s[k]
    OBVIOUS
  <2>3. m \in 1 .. n + 1 /\ n + 1 # m
    OBVIOUS
  <2> DEFINE Counts(k) == t[k].gen = g => t[k] = [gen |-> g, ok |-> FALSE]
  <2>4. m \in Row(t, g, n + 1) <=> (\A k \in m .. n : k = m \/ t[k].gen = g => t[k] = [gen |-> g, ok |-> FALSE]) /\ Counts(n + 1)
    BY <2>1, <2>3 DEF Row
  <2>5. m \in Row(s, g, n) <=> \A k \in m .. n : k = m \/ t[k].gen = g => t[k] = [gen |-> g, ok |-> FALSE]
    BY <2>2 DEF Row
  <2> QED
    BY <2>4, <2>5
<1>3. n + 1 \in Row(t, g, n + 1) <=> t[n + 1] = [gen |-> g, ok |-> FALSE]
  <2>1. (n + 1) .. (n + 1) = {n + 1} /\ n + 1 \in 1 .. n + 1
    OBVIOUS
  <2> QED
    BY <2>1 DEF Row
<1> QED
  BY <1>1, <1>2, <1>3 DEF RowFollows

LEMMA RowIsKept ==
    ASSUME NEW s \in Seq(Results), NEW e \in Results, NEW g, NEW n \in 0 .. Len(s)
    PROVE  Row(Append(s, e), g, n) = Row(s, g, n)
<1> DEFINE t == Append(s, e)
<1>1. n \in Nat /\ \A k \in 1 .. n : t[k] = s[k]
  BY AppendProperties
<1> HIDE DEF t
<1>2. Row(t, g, n) = Row(s, g, n)
  BY <1>1, RowOfPrefix
<1> QED
  BY <1>2 DEF t

LEMMA RowPassesOverStragglers ==
    ASSUME NEW s \in Seq(Results), NEW e \in Results, NEW g, e.gen # g
    PROVE  Row(Append(s, e), g, Len(s) + 1) = Row(s, g, Len(s))
<1> DEFINE t == Append(s, e)
           n == Len(s)
<1>1. n \in Nat /\ t[n + 1] = e /\ \A k \in 1 .. n : t[k] = s[k]
  BY AppendProperties
<1>2. e # [gen |-> g, ok |-> FALSE]
  OBVIOUS
<1>3. Row(s, g, n) \subseteq 1 .. n
  BY DEF Row
<1> HIDE DEF t, n
<1>4. /\ Row(t, g, n + 1) \subseteq 1 .. n + 1
      /\ \A m \in 1 .. n : m \in Row(t, g, n + 1) <=> m \in Row(s, g, n)
      /\ n + 1 \notin Row(t, g, n + 1)
  <2>1. RowFollows(s, t, g, n)
    BY <1>1, <1>2, RowAfterResult
  <2> QED
    BY <1>1, <1>2, <2>1 DEF RowFollows
<1>5. \A m \in 1 .. n + 1 : m \in 1 .. n \/ m = n + 1
  BY <1>1
<1>6. Row(t, g, n + 1) = Row(s, g, n)
  BY <1>3, <1>4, <1>5
<1> QED
  BY <1>6 DEF t, n

LEMMA FailureExtendsRow ==
    ASSUME NEW s \in Seq(Results), NEW g \in Nat
    PROVE  Cardinality(Row(Append(s, [gen |-> g, ok |-> FALSE]), g, Len(s) + 1))
             = Cardinality(Row(s, g, Len(s))) + 1
<1> DEFINE e == [gen |-> g, ok |-> FALSE]
           t == Append(s, e)
           n == Len(s)
<1>1. e \in Results
  BY DEF Results
<1>2. n \in Nat /\ t[n + 1] = e /\ \A k \in 1 .. n : t[k] = s[k]
  BY <1>1, AppendProperties
<1>3. Row(s, g, n) \subseteq 1 .. n
  BY DEF Row
<1> HIDE DEF t, n
<1>4. /\ Row(t, g, n + 1) \subseteq 1 .. n + 1
      /\ \A m \in 1 .. n : m \in Row(t, g, n + 1) <=> m \in Row(s, g, n)
      /\ n + 1 \in Row(t, g, n + 1)
  <2>1. RowFollows(s, t, g, n)
    BY <1>2, RowAfterResult
  <2> QED
    BY <1>2, <2>1 DEF RowFollows
<1>5. n + 1 \notin 1 .. n /\ \A m \in 1 .. n + 1 : m \in 1 .. n \/ m = n + 1
  BY <1>2
<1>6. Row(t, g, n + 1) = Row(s, g, n) \union {n + 1} /\ n + 1 \notin Row(s, g, n)
  BY <1>3, <1>4, <1>5
<1>7. IsFiniteSet(Row(s, g, n))
  BY <1>2, RowIsCounted
<1>8. Cardinality(Row(t, g, n + 1)) = Cardinality(Row(s, g, n)) + 1
  BY <1>6, <1>7, FS_AddElement
<1> QED
  BY <1>8 DEF t, n

LEMMA SuccessEndsRow ==
    ASSUME NEW s \in Seq(Results), NEW g \in Nat
    PROVE  Cardinality(Row(Append(s, [gen |-> g, ok |-> TRUE]), g, Len(s) + 1)) = 0
<1> DEFINE e == [gen |-> g, ok |-> TRUE]
           t == Append(s, e)
           n == Len(s)
<1>1. e \in Results
  BY DEF Results
<1>2. n \in Nat /\ t[n + 1] = e /\ \A k \in 1 .. n : t[k] = s[k]
  BY <1>1, AppendProperties
<1>3. e.gen = g /\ e # [gen |-> g, ok |-> FALSE]
  OBVIOUS
<1> HIDE DEF t, n, e
<1>4. t[n + 1].gen = g /\ t[n + 1] # [gen |-> g, ok |-> FALSE]
  BY <1>2, <1>3
<1>5. /\ Row(t, g, n + 1) \subseteq 1 .. n + 1
      /\ \A m \in 1 .. n : m \in Row(t, g, n + 1) <=>
           /\ m \in Row(s, g, n)
           /\ t[n + 1].gen = g => t[n + 1] = [gen |-> g, ok |-> FALSE]
      /\ n + 1 \in Row(t, g, n + 1) <=> t[n + 1] = [gen |-> g, ok |-> FALSE]
  <2>1. RowFollows(s, t, g, n)
    BY <1>2, RowAfterResult
  <2> QED
    BY <1>2, <2>1 DEF RowFollows
<1>6. \A m \in 1 .. n + 1 : m \notin Row(t, g, n + 1)
  <2>1. \A m \in 1 .. n + 1 : m \in 1 .. n \/ m = n + 1
    BY <1>2
  <2> QED
    BY <1>4, <1>5, <2>1
<1>7. Row(t, g, n + 1) = {}
  BY <1>5, <1>6
<1>8. Cardinality(Row(t, g, n + 1)) = 0
  BY <1>7, FS_EmptySet
<1> QED
  BY <1>8 DEF t, n, e

(* A generation nobody has reported in has no row. *)
LEMMA NewGenerationHasNoRow ==
    ASSUME NEW s, NEW g, NEW n \in Nat, \A m \in 1 .. n : s[m].gen # g
    PROVE  Cardinality(Row(s, g, n)) = 0
<1>1. ASSUME NEW m \in Row(s, g, n)
      PROVE  FALSE
  <2>1. m \in 1 .. n /\ s[m] = [gen |-> g, ok |-> FALSE]
    BY <1>1 DEF Row
  <2> QED
    BY <2>1
<1>2. Row(s, g, n) = {}
  BY <1>1
<1> QED
  BY <1>2, FS_EmptySet

LEMMA RowsStayShort ==
    ASSUME NEW s \in Seq(Results), NEW e \in Results, NEW g,
           \A n \in 1 .. Len(s) : Cardinality(Row(s, g, n)) <= 2,
           Cardinality(Row(Append(s, e), g, Len(s) + 1)) <= 2
    PROVE  \A n \in 1 .. Len(Append(s, e)) : Cardinality(Row(Append(s, e), g, n)) <= 2
<1> TAKE n \in 1 .. Len(Append(s, e))
<1>1. Len(s) \in Nat /\ (n \in 1 .. Len(s) \/ n = Len(s) + 1)
  BY AppendProperties
<1>2. CASE n \in 1 .. Len(s)
  BY <1>1, <1>2, RowIsKept
<1>3. CASE n = Len(s) + 1
  BY <1>3
<1> QED
  BY <1>1, <1>2, <1>3

-------------------------------------------------------------------------------
(* The invariant holds at first and after every step.                          *)

LEMMA InitInv == Init => Inv
<1> SUFFICES ASSUME Init PROVE Inv
  OBVIOUS
<1> USE DEF Init, Fresh
<1>1. TypeOK
  <2>1. log \in Seq([gen : Nat, ok : BOOLEAN])
    BY DEF Init
  <2> HIDE DEF Init
  <2>2. /\ pc \in [Calls -> {"idle", "out", "done"}]
        /\ begun \in [Calls -> Nat]
        /\ result \in [Calls -> {"none", "sent", "failed", "refused", "lost"}]
        /\ trial \in [Calls -> BOOLEAN]
        /\ \A c \in Calls : pc[c] = "idle"
    BY DEF Init
  <2>3. state = "closed" /\ generation = 0 /\ requests = 0 /\ failures = 0 /\ elapsed = FALSE
    BY DEF Init
  <2> QED
    BY <2>1, <2>2, <2>3 DEF TypeOK
<1>2. ClosedCounts
  <2>1. FailuresInARow(generation, Len(log)) = 0
    <3>1. Len(log) = 0 /\ 1 .. 0 = {}
      OBVIOUS
    <3>2. Row(log, generation, Len(log)) = {}
      BY <3>1 DEF Row
    <3> QED
      BY <3>2, FS_EmptySet DEF FailuresInARow, Row
  <2> QED
    BY <2>1 DEF ClosedCounts
<1>3. LogIsPast /\ ResultsAreFinal /\ OpenHasReason /\ ClosedHasReason
  BY DEF LogIsPast, ResultsAreFinal, OpenHasReason, ClosedHasReason
<1>4. TrialsAreCurrent /\ TrialsAreCounted /\ TrialIsAlone /\ OpenLetsNoneOut
  BY DEF TrialsAreCurrent, TrialsAreCounted, TrialIsAlone, OnTrial, OpenLetsNoneOut
<1> QED
  BY <1>1, <1>2, <1>3, <1>4 DEF Inv

LEMMA GenerationsAreNatural ==
    ASSUME NEW s \in Seq([gen : Nat, ok : BOOLEAN])
    PROVE  s \in Seq(Results) /\ \A n \in 1 .. Len(s) : s[n].gen \in Nat
<1>1. s \in Seq(Results)
  BY DEF Results
<1>2. \A n \in 1 .. Len(s) : s[n] \in Results
  BY <1>1
<1> QED
  BY <1>1, <1>2 DEF Results

LEMMA LetOutKeepsInv ==
    ASSUME Inv, NEW c \in Calls, LetOut(c)
    PROVE  Inv'
<1> USE DEF Enter, Admits, Now, NowGeneration, Sent, MaxRequests
<1>1. /\ pc[c] = "idle" /\ pc' = [pc EXCEPT ![c] = "out"]
      /\ begun' = [begun EXCEPT ![c] = NowGeneration]
      /\ trial' = [trial EXCEPT ![c] = Now # "closed"]
      /\ state' = Now /\ generation' = NowGeneration /\ requests' = Sent + 1
      /\ failures' = failures /\ elapsed' = FALSE
      /\ UNCHANGED <<result, log>>
      /\ Now = "closed" \/ (Now = "half_open" /\ Sent < 1)
  BY DEF LetOut
<1>2. /\ TypeOK /\ LogIsPast /\ ResultsAreFinal /\ ClosedCounts /\ ClosedHasReason
      /\ TrialsAreCurrent /\ TrialsAreCounted /\ TrialIsAlone
  BY DEF Inv
<1>3. NowGeneration \in Nat /\ generation <= NowGeneration /\ Sent \in Nat
  BY <1>2 DEF TypeOK
<1>4. TypeOK'
  <2>1. /\ pc' \in [Calls -> {"idle", "out", "done"}]
        /\ begun' \in [Calls -> Nat]
        /\ trial' \in [Calls -> BOOLEAN]
    BY <1>1, <1>2, <1>3 DEF TypeOK
  <2>2. generation' \in Nat /\ requests' \in Nat /\ failures' \in Nat
    BY <1>1, <1>2, <1>3 DEF TypeOK
  <2>3. state' \in {"closed", "open", "half_open"} /\ elapsed' \in BOOLEAN
    BY <1>1
  <2>4. result' \in [Calls -> {"none", "sent", "failed", "refused", "lost"}]
    BY <1>1, <1>2 DEF TypeOK
  <2>5. log' \in Seq([gen : Nat, ok : BOOLEAN])
    BY <1>1, <1>2 DEF TypeOK
  <2>6. /\ elapsed' => state' = "open"
        /\ state' # "closed" => failures' = 0
        /\ state' = "open" => requests' = 0
        /\ state' = "half_open" => requests' <= 1
    BY <1>1, <1>2, <1>3 DEF TypeOK
  <2>7. ASSUME NEW d \in Calls, pc'[d] = "out"
        PROVE  begun'[d] <= generation'
    BY <1>1, <1>2, <1>3, <2>7 DEF TypeOK
  <2> QED
    BY <2>1, <2>2, <2>3, <2>4, <2>5, <2>6, <2>7 DEF TypeOK
<1>5. LogIsPast'
  <2>1. \A n \in 1 .. Len(log) : log[n].gen \in Nat
    BY <1>2, GenerationsAreNatural DEF TypeOK
  <2> QED
    BY <1>1, <1>2, <1>3, <2>1 DEF LogIsPast, TypeOK
<1>6. ResultsAreFinal'
  BY <1>1, <1>2 DEF ResultsAreFinal, TypeOK
<1>7. ASSUME state' = "closed"
      PROVE  state = "closed" /\ generation' = generation
  BY <1>1, <1>2, <1>7 DEF TypeOK
<1>8. ClosedCounts'
  BY <1>1, <1>2, <1>7 DEF ClosedCounts, FailuresInARow
<1>9. ClosedHasReason'
  <2> SUFFICES ASSUME state' = "closed", generation' > 0
               PROVE  TrialEnded(generation - 1, "sent")'
    BY <1>7 DEF ClosedHasReason
  <2>1. PICK d \in Calls : trial[d] /\ begun[d] = generation - 1 /\ result[d] = "sent"
    BY <1>2, <1>7 DEF ClosedHasReason, TrialEnded
  <2>2. d # c
    BY <1>1, <1>2, <2>1 DEF ResultsAreFinal
  <2>3. trial'[d] = trial[d] /\ begun'[d] = begun[d] /\ result'[d] = result[d]
    BY <1>1, <1>2, <2>2 DEF TypeOK
  <2> QED
    BY <1>7, <2>1, <2>3 DEF TrialEnded
<1>10. OpenHasReason' /\ OpenLetsNoneOut'
  BY <1>1 DEF OpenHasReason, OpenLetsNoneOut
<1>11. ASSUME NEW d \in Calls, d # c
       PROVE  pc'[d] = pc[d] /\ trial'[d] = trial[d] /\ begun'[d] = begun[d]
  BY <1>1, <1>2, <1>11 DEF TypeOK
<1>12. pc'[c] = "out" /\ begun'[c] = NowGeneration /\ trial'[c] = (Now # "closed")
  BY <1>1, <1>2 DEF TypeOK
<1>13. ASSUME NEW d \in Calls, pc'[d] = "out"
       PROVE  trial'[d] <=> state' = "half_open" /\ begun'[d] = generation'
  <2>1. CASE d = c
    BY <1>1, <1>12, <2>1
  <2>2. CASE d # c
    <3>1. pc[d] = "out" /\ begun[d] <= generation /\ begun[d] \in Nat
      BY <1>2, <1>11, <1>13, <2>2 DEF TypeOK
    <3>2. CASE elapsed
      <4>1. state = "open" /\ ~trial[d] /\ begun[d] # generation'
        BY <1>1, <1>2, <3>1, <3>2 DEF TrialsAreCurrent, TypeOK
      <4> QED
        BY <1>11, <2>2, <4>1
    <3>3. CASE ~elapsed
      <4>1. trial[d] <=> state = "half_open" /\ begun[d] = generation
        BY <1>2, <3>1 DEF TrialsAreCurrent
      <4> QED
        BY <1>1, <1>11, <2>2, <3>3, <4>1
    <3> QED
      BY <3>2, <3>3
  <2> QED
    BY <2>1, <2>2
<1>14. ASSUME NEW d \in Calls, d # c, OnTrial(d)'
       PROVE  FALSE
  <2>1. OnTrial(d)
    BY <1>11, <1>14 DEF OnTrial
  <2>2. state = "half_open" /\ requests = 1 /\ ~elapsed
    BY <1>2, <2>1 DEF TrialsAreCurrent, TrialsAreCounted, OnTrial, TypeOK
  <2> QED
    BY <1>1, <2>2
<1>15. OnTrial(c)' => requests' = 1
  <2>1. OnTrial(c)' => Now = "half_open" /\ Sent < 1
    BY <1>1, <1>12 DEF OnTrial
  <2> QED
    BY <1>1, <1>3, <2>1
<1>16. TrialsAreCurrent' /\ TrialsAreCounted' /\ TrialIsAlone'
  BY <1>13, <1>14, <1>15 DEF TrialsAreCurrent, TrialsAreCounted, TrialIsAlone
<1> QED
  BY <1>4, <1>5, <1>6, <1>8, <1>9, <1>10, <1>16 DEF Inv

(* Call c returns with the result ok.  What that does whatever the breaker     *)
(* makes of it: it ends the call and adds to the log, and takes nothing back   *)
(* that the log or an earlier trial said.                                      *)
Returns(c, ok) ==
    /\ pc[c] = "out"
    /\ Report(c, ok)
    /\ Finish(c, IF ok THEN "sent" ELSE "failed")
    /\ UNCHANGED <<begun, trial>>

CallEnds(c, ok) ==
    /\ pc' \in [Calls -> {"idle", "out", "done"}]
    /\ result' \in [Calls -> {"none", "sent", "failed", "refused", "lost"}]
    /\ pc'[c] = "done"
    /\ result'[c] = IF ok THEN "sent" ELSE "failed"
    /\ \A d \in Calls : d # c => pc'[d] = pc[d] /\ result'[d] = result[d]

TrialsStayEnded ==
    \A g : \A what \in {"sent", "failed"} : TrialEnded(g, what) =>
        \E d \in Calls : trial'[d] /\ begun'[d] = g /\ result'[d] = what

LogGrows(e) ==
    /\ log \in Seq(Results) /\ log' = Append(log, e)
    /\ log' \in Seq([gen : Nat, ok : BOOLEAN])
    /\ Len(log) \in Nat /\ Len(log') = Len(log) + 1
    /\ \A n \in 1 .. Len(log') : log'[n].gen <= generation

LEMMA ReportIsAdded ==
    ASSUME Inv, NEW c \in Calls, NEW ok \in BOOLEAN, Returns(c, ok)
    PROVE  /\ CallEnds(c, ok)
           /\ ResultsAreFinal'
           /\ TrialsStayEnded
           /\ begun[c] \in Nat /\ begun[c] <= generation
           /\ [gen |-> begun[c], ok |-> ok] \in Results
           /\ LogGrows([gen |-> begun[c], ok |-> ok])
<1>1. TypeOK /\ ResultsAreFinal /\ LogIsPast
  BY DEF Inv
<1>2. /\ pc' = [pc EXCEPT ![c] = "done"]
      /\ result' = [result EXCEPT ![c] = IF ok THEN "sent" ELSE "failed"]
  BY DEF Returns, Finish
<1>3. /\ pc' \in [Calls -> {"idle", "out", "done"}]
      /\ result' \in [Calls -> {"none", "sent", "failed", "refused", "lost"}]
  BY <1>1, <1>2 DEF TypeOK
<1>4. /\ pc'[c] = "done" /\ result'[c] = IF ok THEN "sent" ELSE "failed"
      /\ \A d \in Calls : d # c => pc'[d] = pc[d] /\ result'[d] = result[d]
  BY <1>1, <1>2 DEF TypeOK
<1>5. ResultsAreFinal'
  BY <1>1, <1>4 DEF ResultsAreFinal
<1>6. result[c] = "none"
  BY <1>1 DEF ResultsAreFinal, Returns
<1>7. ASSUME NEW g, NEW what \in {"sent", "failed"}, TrialEnded(g, what)
      PROVE  \E d \in Calls : trial'[d] /\ begun'[d] = g /\ result'[d] = what
  <2>1. PICK d \in Calls : trial[d] /\ begun[d] = g /\ result[d] = what
    BY <1>7 DEF TrialEnded
  <2> QED
    BY <1>1, <1>4, <1>6, <2>1 DEF ResultsAreFinal, Returns
<1>8. begun[c] \in Nat /\ begun[c] <= generation /\ generation \in Nat
  BY <1>1 DEF TypeOK, Returns
<1> DEFINE e == [gen |-> begun[c], ok |-> ok]
<1>9. e \in Results /\ e.gen = begun[c]
  BY <1>8 DEF Results
<1>10. log \in Seq(Results) /\ log' = Append(log, e)
  BY <1>1, GenerationsAreNatural DEF Returns, Report, TypeOK
<1> HIDE DEF e
<1>11. /\ log' \in Seq(Results) /\ Len(log') = Len(log) + 1 /\ Len(log) \in Nat
       /\ \A n \in 1 .. Len(log) : log'[n] = log[n]
       /\ log'[Len(log) + 1] = e
  BY <1>9, <1>10, AppendProperties
<1>12. \A n \in 1 .. Len(log') : log'[n].gen <= generation
  <2> TAKE n \in 1 .. Len(log')
  <2>1. n \in 1 .. Len(log) \/ n = Len(log) + 1
    BY <1>11
  <2> QED
    BY <1>1, <1>8, <1>9, <1>11, <2>1 DEF LogIsPast
<1>13. log' \in Seq([gen : Nat, ok : BOOLEAN])
  BY <1>11 DEF Results
<1> QED
  BY <1>3, <1>4, <1>5, <1>7, <1>8, <1>9, <1>10, <1>11, <1>12, <1>13
  DEF e, CallEnds, TrialsStayEnded, LogGrows

(* A result of an earlier generation, which does not count                     *)
LEMMA StragglerKeepsInv ==
    ASSUME Inv, NEW c \in Calls, NEW ok \in BOOLEAN, Returns(c, ok),
           begun[c] # NowGeneration
    PROVE  Inv'
<1> DEFINE e == [gen |-> begun[c], ok |-> ok]
<1>1. CallEnds(c, ok) /\ ResultsAreFinal' /\ TrialsStayEnded
  BY ReportIsAdded
<1>2. begun[c] \in Nat /\ begun[c] <= generation
  BY ReportIsAdded
<1>3. e \in Results /\ LogGrows(e)
  BY ReportIsAdded
<1>4. e.gen = begun[c]
  OBVIOUS
<1> HIDE DEF e
<1>5. /\ state' = Now /\ generation' = NowGeneration /\ requests' = Sent
      /\ failures' = failures /\ elapsed' = FALSE /\ UNCHANGED <<begun, trial>>
  BY DEF Returns, Report, Enter
<1>6. TypeOK /\ Inv
  BY DEF Inv
<1>7. generation \in Nat /\ generation' \in Nat /\ generation <= generation'
  BY <1>5, <1>6 DEF TypeOK, NowGeneration
<1>8. TypeOK'
  <2>1. /\ state' \in {"closed", "open", "half_open"} /\ elapsed' \in BOOLEAN
        /\ requests' \in Nat /\ failures' \in Nat
    BY <1>5, <1>6 DEF TypeOK, Now, Sent
  <2>2. /\ elapsed' => state' = "open"
        /\ state' # "closed" => failures' = 0
        /\ state' = "open" => requests' = 0
        /\ state' = "half_open" => requests' <= 1
    BY <1>5, <1>6 DEF TypeOK, Now, Sent
  <2>3. begun' \in [Calls -> Nat] /\ trial' \in [Calls -> BOOLEAN]
    BY <1>5, <1>6 DEF TypeOK
  <2>4. ASSUME NEW d \in Calls, pc'[d] = "out"
        PROVE  begun'[d] <= generation'
    <3>1. pc[d] = "out" /\ begun[d] \in Nat /\ begun[d] <= generation
      BY <1>1, <1>6, <2>4 DEF TypeOK, CallEnds
    <3> QED
      BY <1>5, <1>7, <3>1
  <2> QED
    BY <1>1, <1>3, <1>7, <2>1, <2>2, <2>3, <2>4 DEF TypeOK, CallEnds, LogGrows
<1>9. LogIsPast'
  <2>1. \A n \in 1 .. Len(log') : log'[n].gen \in Nat
    BY <1>3, GenerationsAreNatural DEF LogGrows
  <2> QED
    BY <1>3, <1>7, <2>1 DEF LogIsPast, LogGrows
<1>10. CASE elapsed
  <2>1. /\ state = "open" /\ state' = "half_open" /\ generation' = generation + 1
    BY <1>5, <1>6, <1>10 DEF TypeOK, Now, NowGeneration
  <2>2. ASSUME NEW d \in Calls, pc'[d] = "out"
        PROVE  ~trial'[d] /\ begun'[d] # generation'
    <3>1. pc[d] = "out" /\ begun[d] \in Nat /\ begun[d] <= generation
      BY <1>1, <1>6, <2>2 DEF TypeOK, CallEnds
    <3>2. ~trial[d]
      BY <1>6, <2>1, <3>1 DEF Inv, TrialsAreCurrent
    <3> QED
      BY <1>5, <1>7, <2>1, <3>1, <3>2
  <2>3. TrialsAreCurrent' /\ TrialsAreCounted' /\ TrialIsAlone'
    BY <2>2 DEF TrialsAreCurrent, TrialsAreCounted, TrialIsAlone, OnTrial
  <2>4. ClosedCounts' /\ OpenHasReason' /\ ClosedHasReason' /\ OpenLetsNoneOut'
    BY <2>1 DEF ClosedCounts, OpenHasReason, ClosedHasReason, OpenLetsNoneOut
  <2> QED
    BY <1>1, <1>8, <1>9, <2>3, <2>4 DEF Inv
<1>11. CASE ~elapsed
  <2>1. UNCHANGED <<state, generation, requests, failures>> /\ e.gen # generation
    BY <1>4, <1>5, <1>11 DEF Now, NowGeneration, Sent
  <2>2. ASSUME state = "closed"
        PROVE  /\ failures' <= 2
               /\ FailuresInARow(generation, Len(log))' = failures'
               /\ \A n \in 1 .. Len(log') : FailuresInARow(generation, n)' <= 2
    <3>1. /\ failures <= 2 /\ Cardinality(Row(log, generation, Len(log))) = failures
          /\ \A n \in 1 .. Len(log) : Cardinality(Row(log, generation, n)) <= 2
      BY <1>6, <2>2 DEF Inv, ClosedCounts, FailuresInARow, Row
    <3>2. Cardinality(Row(log', generation, Len(log'))) = failures
      BY <1>3, <2>1, <3>1, RowPassesOverStragglers DEF LogGrows
    <3>3. \A n \in 1 .. Len(log') : Cardinality(Row(log', generation, n)) <= 2
      BY <1>3, <3>1, <3>2, RowsStayShort DEF LogGrows
    <3> QED
      BY <2>1, <3>1, <3>2, <3>3 DEF FailuresInARow, Row
  <2>3. ClosedCounts'
    BY <2>1, <2>2 DEF ClosedCounts
  <2>4. ASSUME state = "open"
        PROVE  (ThreeInARow(generation - 1) \/ TrialEnded(generation - 1, "failed"))'
    <3>1. CASE ThreeInARow(generation - 1)
      <4>1. PICK n \in 1 .. Len(log) : Cardinality(Row(log, generation - 1, n)) >= 3
        BY <3>1 DEF ThreeInARow, FailuresInARow, Row
      <4>2. n \in 1 .. Len(log') /\ Row(log', generation - 1, n) = Row(log, generation - 1, n)
        BY <1>3, RowIsKept DEF LogGrows
      <4>3. Cardinality(Row(log', generation - 1, n)) >= 3
        BY <4>1, <4>2
      <4> QED
        BY <2>1, <4>2, <4>3 DEF ThreeInARow, FailuresInARow, Row
    <3>2. CASE TrialEnded(generation - 1, "failed")
      <4>1. \E d \in Calls : trial'[d] /\ begun'[d] = generation - 1 /\ result'[d] = "failed"
        BY <1>1, <3>2 DEF TrialsStayEnded
      <4> QED
        BY <2>1, <4>1 DEF TrialEnded
    <3> QED
      BY <1>6, <2>4, <3>1, <3>2 DEF Inv, OpenHasReason
  <2>5. OpenHasReason'
    BY <2>1, <2>4 DEF OpenHasReason
  <2>6. ClosedHasReason'
    <3> SUFFICES ASSUME state = "closed", generation > 0
                 PROVE  \E d \in Calls : trial'[d] /\ begun'[d] = generation - 1 /\ result'[d] = "sent"
      BY <2>1 DEF ClosedHasReason, TrialEnded
    <3> QED
      BY <1>1, <1>6 DEF Inv, ClosedHasReason, TrialsStayEnded
  <2>7. ASSUME NEW d \in Calls, pc'[d] = "out"
        PROVE  pc[d] = "out" /\ trial'[d] = trial[d] /\ begun'[d] = begun[d]
    BY <1>1, <1>5, <2>7 DEF CallEnds
  <2>8. TrialsAreCurrent' /\ TrialsAreCounted' /\ TrialIsAlone' /\ OpenLetsNoneOut'
    <3>1. \A d \in Calls : OnTrial(d)' => OnTrial(d)
      BY <2>7 DEF OnTrial
    <3>2. TrialsAreCounted' /\ TrialIsAlone'
      BY <1>6, <2>1, <3>1 DEF Inv, TrialsAreCounted, TrialIsAlone
    <3>3. TrialsAreCurrent' /\ OpenLetsNoneOut'
      BY <1>6, <2>1, <2>7 DEF Inv, TrialsAreCurrent, OpenLetsNoneOut
    <3> QED
      BY <3>2, <3>3
  <2> QED
    BY <1>1, <1>8, <1>9, <2>3, <2>5, <2>6, <2>8 DEF Inv
<1> QED
  BY <1>10, <1>11

(* The result of the trial, which closes the breaker or opens it again         *)
LEMMA TrialKeepsInv ==
    ASSUME Inv, NEW c \in Calls, NEW ok \in BOOLEAN, Returns(c, ok),
           begun[c] = NowGeneration, Now = "half_open"
    PROVE  Inv'
<1> DEFINE e == [gen |-> begun[c], ok |-> ok]
<1>1. CallEnds(c, ok) /\ ResultsAreFinal' /\ TrialsStayEnded
  BY ReportIsAdded
<1>2. begun[c] \in Nat /\ begun[c] <= generation
  BY ReportIsAdded
<1>3. e \in Results /\ LogGrows(e)
  BY ReportIsAdded
<1> HIDE DEF e
<1>4. TypeOK /\ generation \in Nat
  BY DEF Inv, TypeOK
<1>5. ~elapsed /\ state = "half_open" /\ begun[c] = generation
  BY <1>2, <1>4 DEF Now, NowGeneration
<1>6. /\ state' = (IF ok THEN "closed" ELSE "open") /\ generation' = generation + 1
      /\ requests' = 0 /\ failures' = 0 /\ elapsed' = FALSE /\ UNCHANGED <<begun, trial>>
  BY <1>5 DEF Returns, Report, Enter, NowGeneration, Now
<1>7. trial[c]
  BY <1>5 DEF Inv, TrialsAreCurrent, Returns
<1>8. ASSUME NEW d \in Calls, pc'[d] = "out"
      PROVE  ~trial'[d] /\ begun'[d] < generation'
  <2>1. d # c /\ pc[d] = "out" /\ begun[d] \in Nat /\ begun[d] <= generation
    BY <1>1, <1>4, <1>8 DEF CallEnds, TypeOK
  <2>2. ~trial[d]
    BY <1>7, <2>1 DEF Inv, TrialIsAlone, OnTrial, Returns
  <2> QED
    BY <1>4, <1>6, <2>1, <2>2
<1>9. TypeOK'
  <2>1. generation' \in Nat /\ begun' \in [Calls -> Nat] /\ trial' \in [Calls -> BOOLEAN]
    BY <1>4, <1>6 DEF TypeOK
  <2>2. \A d \in Calls : pc'[d] = "out" => begun'[d] <= generation'
    <3>1. \A d \in Calls : begun'[d] \in Nat
      BY <2>1
    <3> QED
      BY <1>8, <2>1, <3>1
  <2>3. state' \in {"closed", "open", "half_open"}
    BY <1>6
  <2> QED
    BY <1>1, <1>3, <1>6, <2>1, <2>2, <2>3 DEF TypeOK, CallEnds, LogGrows
<1>10. \A n \in 1 .. Len(log') : log'[n].gen \in Nat /\ log'[n].gen <= generation
  BY <1>3, GenerationsAreNatural DEF LogGrows
<1>11. LogIsPast'
  BY <1>4, <1>6, <1>10 DEF LogIsPast
<1>12. ClosedCounts'
  <2>1. Len(log') \in Nat /\ \A n \in 1 .. Len(log') : log'[n].gen # generation + 1
    BY <1>3, <1>4, <1>10 DEF LogGrows
  <2>2. \A n \in 0 .. Len(log') : Cardinality(Row(log', generation + 1, n)) = 0
    <3> TAKE n \in 0 .. Len(log')
    <3>1. n \in Nat /\ \A m \in 1 .. n : log'[m].gen # generation + 1
      BY <2>1
    <3> QED
      BY <3>1, NewGenerationHasNoRow
  <2>3. /\ Cardinality(Row(log', generation + 1, Len(log'))) = 0
        /\ \A n \in 1 .. Len(log') : Cardinality(Row(log', generation + 1, n)) <= 2
    BY <2>1, <2>2
  <2>4. /\ Cardinality(Row(log', generation', Len(log'))) = 0
        /\ \A n \in 1 .. Len(log') : Cardinality(Row(log', generation', n)) <= 2
    BY <1>6, <2>3
  <2>5. /\ FailuresInARow(generation, Len(log))' = 0
        /\ \A n \in 1 .. Len(log') : FailuresInARow(generation, n)' <= 2
    BY <2>4 DEF FailuresInARow, Row
  <2> QED
    BY <1>6, <2>5 DEF ClosedCounts
<1>13. \E d \in Calls : trial'[d] /\ begun'[d] = generation /\ result'[d] = IF ok THEN "sent" ELSE "failed"
  BY <1>1, <1>5, <1>6, <1>7 DEF CallEnds
<1>14. generation' - 1 = generation
  BY <1>4, <1>6
<1>15. OpenHasReason' /\ ClosedHasReason'
  BY <1>6, <1>13, <1>14 DEF OpenHasReason, ClosedHasReason, TrialEnded
<1>16. TrialsAreCurrent' /\ TrialsAreCounted' /\ TrialIsAlone' /\ OpenLetsNoneOut'
  BY <1>6, <1>8 DEF TrialsAreCurrent, TrialsAreCounted, TrialIsAlone, OpenLetsNoneOut, OnTrial
<1> QED
  BY <1>1, <1>9, <1>11, <1>12, <1>15, <1>16 DEF Inv

(* The result of a call of a closed breaker, which is what the breaker counts  *)
LEMMA CountedKeepsInv ==
    ASSUME Inv, NEW c \in Calls, NEW ok \in BOOLEAN, Returns(c, ok),
           begun[c] = NowGeneration, Now # "half_open"
    PROVE  Inv'
<1> DEFINE e == [gen |-> begun[c], ok |-> ok]
<1>1. CallEnds(c, ok) /\ ResultsAreFinal' /\ TrialsStayEnded
  BY ReportIsAdded
<1>2. begun[c] \in Nat /\ begun[c] <= generation
  BY ReportIsAdded
<1>3. e \in Results /\ LogGrows(e)
  BY ReportIsAdded
<1>4. TypeOK /\ generation \in Nat /\ failures \in Nat
  BY DEF Inv, TypeOK
<1>5. ~elapsed /\ begun[c] = generation
  BY <1>2, <1>4 DEF Now, NowGeneration
<1>6. state = "closed"
  BY <1>2, <1>4, <1>5 DEF Inv, OpenLetsNoneOut, Returns, TypeOK, Now
<1>7. e = [gen |-> generation, ok |-> ok]
  BY <1>5
<1> HIDE DEF e
<1>8. /\ failures <= 2 /\ Cardinality(Row(log, generation, Len(log))) = failures
      /\ \A n \in 1 .. Len(log) : Cardinality(Row(log, generation, n)) <= 2
  BY <1>6 DEF Inv, ClosedCounts, FailuresInARow, Row
<1>9. /\ ok => Cardinality(Row(log', generation, Len(log'))) = 0
      /\ ~ok => Cardinality(Row(log', generation, Len(log'))) = failures + 1
  BY <1>3, <1>4, <1>7, <1>8, SuccessEndsRow, FailureExtendsRow DEF LogGrows
<1>10. UNCHANGED <<begun, trial>> /\ elapsed' = FALSE
  BY DEF Returns, Report, Enter
<1>11. ASSUME NEW d \in Calls, pc'[d] = "out"
       PROVE  /\ pc[d] = "out" /\ ~trial'[d]
              /\ begun'[d] = begun[d] /\ begun'[d] \in Nat /\ begun'[d] <= generation
  <2>1. pc[d] = "out" /\ begun[d] \in Nat /\ begun[d] <= generation
    BY <1>1, <1>4, <1>11 DEF CallEnds, TypeOK
  <2>2. ~trial[d]
    BY <1>6, <2>1 DEF Inv, TrialsAreCurrent
  <2> QED
    BY <1>10, <2>1, <2>2
<1>12. TrialsAreCounted' /\ TrialIsAlone'
  BY <1>11 DEF TrialsAreCounted, TrialIsAlone, OnTrial
<1>13. \A n \in 1 .. Len(log') : log'[n].gen \in Nat /\ log'[n].gen <= generation
  BY <1>3, GenerationsAreNatural DEF LogGrows
<1>14. begun' \in [Calls -> Nat] /\ trial' \in [Calls -> BOOLEAN]
  BY <1>4, <1>10 DEF TypeOK
<1>15. CASE ok \/ failures + 1 < 3
  <2>1. /\ state' = "closed" /\ generation' = generation /\ requests' = requests
        /\ failures' = IF ok THEN 0 ELSE failures + 1
    BY <1>4, <1>5, <1>6, <1>15 DEF Returns, Report, Enter, NowGeneration, Now, Sent, ReadyToTrip
  <2>2. /\ failures' \in Nat /\ failures' <= 2
        /\ Cardinality(Row(log', generation, Len(log'))) = failures'
    BY <1>4, <1>9, <1>15, <2>1
  <2>3. \A n \in 1 .. Len(log') : Cardinality(Row(log', generation, n)) <= 2
    BY <1>3, <1>8, <2>2, RowsStayShort DEF LogGrows
  <2>4. ClosedCounts'
    BY <2>1, <2>2, <2>3 DEF ClosedCounts, FailuresInARow, Row
  <2>5. LogIsPast'
    BY <1>13, <2>1 DEF LogIsPast
  <2>6. ClosedHasReason'
    <3> SUFFICES ASSUME generation > 0
                 PROVE  \E d \in Calls : trial'[d] /\ begun'[d] = generation - 1 /\ result'[d] = "sent"
      BY <2>1 DEF ClosedHasReason, TrialEnded
    <3> QED
      BY <1>1, <1>6 DEF Inv, ClosedHasReason, TrialsStayEnded
  <2>7. OpenHasReason' /\ OpenLetsNoneOut' /\ TrialsAreCurrent'
    BY <1>11, <2>1 DEF OpenHasReason, OpenLetsNoneOut, TrialsAreCurrent
  <2>8. TypeOK'
    <3>1. requests' \in Nat
      BY <1>4, <2>1 DEF TypeOK
    <3> QED
      BY <1>1, <1>3, <1>4, <1>10, <1>11, <1>14, <2>1, <2>2, <3>1 DEF TypeOK, CallEnds, LogGrows
  <2> QED
    BY <1>1, <1>12, <2>4, <2>5, <2>6, <2>7, <2>8 DEF Inv
<1>16. CASE ~ok /\ failures + 1 >= 3
  <2>1. /\ state' = "open" /\ generation' = generation + 1 /\ requests' = 0 /\ failures' = 0
    BY <1>4, <1>5, <1>6, <1>16 DEF Returns, Report, Enter, NowGeneration, Now, Sent, ReadyToTrip
  <2>2. generation' - 1 = generation /\ generation' \in Nat
    BY <1>4, <2>1
  <2>3. Len(log') \in 1 .. Len(log') /\ Cardinality(Row(log', generation, Len(log'))) >= 3
    BY <1>3, <1>4, <1>9, <1>16 DEF LogGrows
  <2>4. OpenHasReason'
    BY <2>2, <2>3 DEF OpenHasReason, ThreeInARow, FailuresInARow, Row
  <2>5. LogIsPast'
    BY <1>4, <1>13, <2>1 DEF LogIsPast
  <2>6. \A d \in Calls : pc'[d] = "out" => begun'[d] < generation' /\ begun'[d] <= generation'
    BY <1>4, <1>11, <2>1
  <2>7. ClosedCounts' /\ ClosedHasReason' /\ OpenLetsNoneOut' /\ TrialsAreCurrent'
    BY <1>11, <2>1, <2>6 DEF ClosedCounts, ClosedHasReason, OpenLetsNoneOut, TrialsAreCurrent
  <2>8. TypeOK'
    BY <1>1, <1>3, <1>10, <1>14, <2>1, <2>2, <2>6 DEF TypeOK, CallEnds, LogGrows
  <2> QED
    BY <1>1, <1>12, <2>4, <2>5, <2>7, <2>8 DEF Inv
<1> QED
  BY <1>4, <1>15, <1>16

LEMMA ReturnKeepsInv ==
    ASSUME Inv, NEW c \in Calls, Return(c)
    PROVE  Inv'
<1>1. PICK ok \in BOOLEAN : Returns(c, ok)
  BY DEF Return, Returns
<1>2. CASE begun[c] # NowGeneration
  BY <1>1, <1>2, StragglerKeepsInv
<1>3. CASE begun[c] = NowGeneration /\ Now = "half_open"
  BY <1>1, <1>3, TrialKeepsInv
<1>4. CASE begun[c] = NowGeneration /\ Now # "half_open"
  BY <1>1, <1>4, CountedKeepsInv
<1> QED
  BY <1>2, <1>3, <1>4

LEMMA FailFastKeepsInv ==
    ASSUME Inv, NEW c \in Calls, FailFast(c)
    PROVE  Inv'
<1>1. /\ pc[c] = "idle"
      /\ pc' = [pc EXCEPT ![c] = "done"] /\ result' = [result EXCEPT ![c] = "refused"]
      /\ UNCHANGED <<state, generation, requests, failures, elapsed, begun, trial, log>>
  BY DEF FailFast, Finish, breaker
<1>2. TypeOK /\ ResultsAreFinal
  BY DEF Inv
<1>3. TypeOK'
  <2>1. /\ pc' \in [Calls -> {"idle", "out", "done"}]
        /\ result' \in [Calls -> {"none", "sent", "failed", "refused", "lost"}]
    BY <1>1, <1>2 DEF TypeOK
  <2>2. \A d \in Calls : pc'[d] = "out" => pc[d] = "out"
    BY <1>1, <1>2 DEF TypeOK
  <2> QED
    BY <1>1, <1>2, <2>1, <2>2 DEF TypeOK
<1>4. /\ pc'[c] = "done" /\ result[c] = "none"
      /\ \A d \in Calls : d # c => pc'[d] = pc[d] /\ result'[d] = result[d]
  BY <1>1, <1>2 DEF TypeOK, ResultsAreFinal
<1>5. ResultsAreFinal'
  BY <1>2, <1>4 DEF ResultsAreFinal
<1>6. \A d \in Calls : d # c /\ result[d] # "none" => result'[d] = result[d]
  BY <1>4
<1>7. OpenHasReason'
  <2> SUFFICES ASSUME state = "open"
               PROVE  (ThreeInARow(generation - 1) \/ TrialEnded(generation - 1, "failed"))'
    BY <1>1 DEF OpenHasReason
  <2>1. CASE ThreeInARow(generation - 1)
    BY <1>1, <2>1 DEF ThreeInARow, FailuresInARow
  <2>2. CASE TrialEnded(generation - 1, "failed")
    BY <1>1, <1>4, <2>2 DEF TrialEnded
  <2> QED
    BY <2>1, <2>2 DEF Inv, OpenHasReason
<1>8. ClosedHasReason'
  BY <1>1, <1>4 DEF Inv, ClosedHasReason, TrialEnded
<1>9. LogIsPast' /\ ClosedCounts'
  BY <1>1 DEF Inv, LogIsPast, ClosedCounts, FailuresInARow
<1>10. \A d \in Calls : pc'[d] = "out" => pc[d] = "out"
  BY <1>4
<1>11. TrialsAreCurrent' /\ TrialsAreCounted' /\ TrialIsAlone' /\ OpenLetsNoneOut'
  BY <1>1, <1>10 DEF Inv, TrialsAreCurrent, TrialsAreCounted, TrialIsAlone, OpenLetsNoneOut, OnTrial
<1> QED
  BY <1>3, <1>5, <1>7, <1>8, <1>9, <1>11 DEF Inv

LEMMA TimeoutKeepsInv ==
    ASSUME Inv, TimeoutPasses
    PROVE  Inv'
<1>1. /\ state = "open" /\ elapsed' = TRUE
      /\ UNCHANGED <<state, generation, requests, failures, pc, begun, result, trial, log>>
  BY DEF TimeoutPasses
<1>2. TypeOK' /\ LogIsPast' /\ ResultsAreFinal' /\ ClosedCounts'
  BY <1>1 DEF Inv, TypeOK, LogIsPast, ResultsAreFinal, ClosedCounts, FailuresInARow
<1>3. OpenHasReason' /\ ClosedHasReason'
  BY <1>1 DEF Inv, OpenHasReason, ClosedHasReason, ThreeInARow, FailuresInARow, TrialEnded
<1>4. TrialsAreCurrent' /\ TrialsAreCounted' /\ TrialIsAlone' /\ OpenLetsNoneOut'
  BY <1>1 DEF Inv, TrialsAreCurrent, TrialsAreCounted, TrialIsAlone, OpenLetsNoneOut, OnTrial
<1> QED
  BY <1>2, <1>3, <1>4 DEF Inv

LEMMA EmptyLogHasNoRow ==
    ASSUME NEW g
    PROVE  Len(<<>>) = 0 /\ Cardinality(Row(<<>>, g, 0)) = 0
<1>1. Row(<<>>, g, 0) = {}
  BY DEF Row
<1> QED
  BY <1>1, FS_EmptySet

LEMMA RestartKeepsInv ==
    ASSUME Inv, Restart
    PROVE  Inv'
<1>1. /\ state' = "closed" /\ generation' = 0 /\ requests' = 0 /\ failures' = 0
      /\ elapsed' = FALSE /\ begun' = begun /\ log' = <<>>
      /\ trial' = [c \in Calls |-> FALSE]
      /\ pc' = [c \in Calls |-> IF pc[c] = "out" THEN "done" ELSE pc[c]]
      /\ result' = [c \in Calls |-> IF pc[c] = "out" THEN "lost" ELSE result[c]]
  BY DEF Restart, Enter
<1>2. TypeOK /\ ResultsAreFinal
  BY DEF Inv
<1>3. /\ pc' \in [Calls -> {"idle", "out", "done"}]
      /\ \A c \in Calls : pc'[c] # "out"
  BY <1>1, <1>2 DEF TypeOK
<1>4. TypeOK'
  <2>1. result' \in [Calls -> {"none", "sent", "failed", "refused", "lost"}]
    BY <1>1, <1>2 DEF TypeOK
  <2>2. trial' \in [Calls -> BOOLEAN] /\ begun' \in [Calls -> Nat]
    BY <1>1, <1>2 DEF TypeOK
  <2>3. log' \in Seq([gen : Nat, ok : BOOLEAN])
    BY <1>1
  <2> QED
    BY <1>1, <1>3, <2>1, <2>2, <2>3 DEF TypeOK
<1>5. ResultsAreFinal'
  BY <1>1, <1>2 DEF ResultsAreFinal
<1>6. Len(log') = 0 /\ Cardinality(Row(log', 0, 0)) = 0
  BY <1>1, EmptyLogHasNoRow
<1>7. ClosedCounts' /\ LogIsPast'
  BY <1>1, <1>6 DEF ClosedCounts, LogIsPast, FailuresInARow, Row
<1>8. OpenHasReason' /\ ClosedHasReason'
  BY <1>1 DEF OpenHasReason, ClosedHasReason
<1>9. TrialsAreCurrent' /\ TrialsAreCounted' /\ TrialIsAlone' /\ OpenLetsNoneOut'
  BY <1>1, <1>3 DEF TrialsAreCurrent, TrialsAreCounted, TrialIsAlone, OpenLetsNoneOut, OnTrial
<1> QED
  BY <1>4, <1>5, <1>7, <1>8, <1>9 DEF Inv

LEMMA StepInv == Inv /\ [Next]_vars => Inv'
<1> SUFFICES ASSUME Inv, [Next]_vars PROVE Inv'
  OBVIOUS
<1>1. ASSUME NEW c \in Calls, LetOut(c) \/ FailFast(c) \/ Return(c)
      PROVE  Inv'
  BY <1>1, LetOutKeepsInv, FailFastKeepsInv, ReturnKeepsInv
<1>2. CASE TimeoutPasses
  BY <1>2, TimeoutKeepsInv
<1>3. CASE Restart
  BY <1>3, RestartKeepsInv
<1>4. CASE UNCHANGED vars
  <2> USE <1>4 DEF vars
  <2>1. TypeOK' /\ LogIsPast' /\ ResultsAreFinal' /\ ClosedCounts'
    BY DEF Inv, TypeOK, LogIsPast, ResultsAreFinal, ClosedCounts, FailuresInARow
  <2>2. OpenHasReason' /\ ClosedHasReason'
    BY DEF Inv, OpenHasReason, ClosedHasReason, ThreeInARow, FailuresInARow, TrialEnded
  <2>3. TrialsAreCurrent' /\ TrialsAreCounted' /\ TrialIsAlone' /\ OpenLetsNoneOut'
    BY DEF Inv, TrialsAreCurrent, TrialsAreCounted, TrialIsAlone, OpenLetsNoneOut, OnTrial
  <2> QED
    BY <2>1, <2>2, <2>3 DEF Inv
<1> QED
  BY <1>1, <1>2, <1>3, <1>4 DEF Next

LEMMA InvHolds == Spec => []Inv
BY InitInv, StepInv, PTL DEF Spec

-------------------------------------------------------------------------------

(* The state of the breaker has its type: an open breaker counts nothing, a    *)
(* half-open one has let out one call at most, and no call is of a generation  *)
(* that is still to come, for any number of calls and restarts.                *)
THEOREM Typing == Spec => []TypeOK
<1>1. Inv => TypeOK
  BY DEF Inv
<1> QED
  BY <1>1, InvHolds, PTL

(* NotifierSettings' ReadyToTrip: a breaker is never left closed after three   *)
(* failures in a row of the calls let out since it closed, and it is never     *)
(* open without such a row or a failed trial in the generation before.         *)
THEOREM OpensWhenItShould == Spec => []TripsOnThreeFailures
<1>1. Inv => TripsOnThreeFailures
  <2> SUFFICES ASSUME Inv PROVE TripsOnThreeFailures
    OBVIOUS
  <2>1. ASSUME state = "closed", NEW n \in 1 .. Len(log), FailuresInARow(generation, n) >= 3
        PROVE  FALSE
    <3>1. FailuresInARow(generation, n) <= 2
      BY <2>1 DEF Inv, ClosedCounts
    <3>2. FailuresInARow(generation, n) \in Nat
      <4>1. n \in Nat
        BY <2>1 DEF Inv, TypeOK
      <4>2. Cardinality(Row(log, generation, n)) \in Nat
        BY <4>1, RowIsCounted
      <4> QED
        BY <4>2 DEF FailuresInARow, Row
    <3> QED
      BY <2>1, <3>1, <3>2
  <2>2. OpenHasReason
    BY DEF Inv
  <2> QED
    BY <2>1, <2>2 DEF TripsOnThreeFailures, ThreeInARow, OpenHasReason
<1> QED
  BY <1>1, InvHolds, PTL

(* NotifierSettings' MaxRequests: of the calls that a breaker let out while it *)
(* was not closed one at most is out, and it closes only on the success of one *)
(* of the generation before.                                                   *)
THEOREM TriesOneAtATime == Spec => []OneTrialAtATime
<1>1. Inv => OneTrialAtATime
  <2> SUFFICES ASSUME Inv PROVE OneTrialAtATime
    OBVIOUS
  <2> DEFINE T == {c \in Calls : pc[c] = "out" /\ trial[c]}
  <2>1. \A c, d \in T : c = d
    BY DEF Inv, TrialIsAlone, OnTrial
  <2>2. T = {} \/ \E c : T = {c}
    BY <2>1
  <2>3. Cardinality(T) <= 1
    BY <2>2, FS_EmptySet, FS_Singleton
  <2> QED
    BY <2>3 DEF OneTrialAtATime, Inv, ClosedHasReason
<1> QED
  BY <1>1, InvHolds, PTL

================================================================================
