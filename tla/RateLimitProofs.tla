---------------------------- MODULE RateLimitProofs ----------------------------
(* The limiter for any number of clients, requests and windows and any limit.  *)
EXTENDS RateLimit, FiniteSetTheorems, TLAPS

(* The inductive invariant.  Request r as the limiter has it: whose it is once *)
(* it has arrived, that it has added nothing before its INCR, and that the key *)
(* it is about to give an expiry has none yet.                                 *)
RequestIsSound(r) ==
    /\ pc[r] # "idle" => client[r] \in Clients /\ win[r] <= now
    /\ pc[r] \in {"idle", "incr"} => spent[r] = 0
    /\ pc[r] = "expire" => expiry[client[r]][win[r]] = "never"

RequestsAreSound == \A r \in Requests : RequestIsSound(r)

(* Only the request that created a key sets its expiry.                        *)
OneSetter ==
    \A r, s \in Requests :
        pc[r] = "expire" /\ pc[s] = "expire" /\ client[r] = client[s] /\ win[r] = win[s]
            => r = s

(* Redis drops no key of the window the clocks are in.                         *)
KeysOutliveTheirWindow ==
    \A c \in Clients, w \in Windows :
        /\ expiry[c][w] = "next_window" => w <= now
        /\ expiry[c][w] = "this_window" => w < now

(* As long as window w may still let requests through, its counter stands for  *)
(* at least those it has.                                                      *)
LimitIsKept(c, w) ==
    /\ IsFiniteSet(LetThrough(c, w))
    /\ Cardinality(LetThrough(c, w)) <= Limit
    /\ now <= w => Cardinality(LetThrough(c, w)) <= count[c][w]

LimitsAreKept == \A c \in Clients, w \in Windows : LimitIsKept(c, w)

(* A counter holds nothing but what the requests of its client and window have *)
(* added.                                                                      *)
CounterIsOwn(c, w) ==
    /\ \A n \in {1, 2} : IsFiniteSet(Spending(c, w, n))
    /\ count[c][w] <= Spent(c, w)
    /\ \A r \in Requests :
          outcome[r] = "refused" /\ client[r] = c /\ win[r] = w => Limit < Spent(c, w)

CountersAreOwn == \A c \in Clients, w \in Windows : CounterIsOwn(c, w)

(* What the requests and the keys are to each other                            *)
Control ==
    /\ TypeOK
    /\ RequestsAreSound
    /\ OneSetter
    /\ KeysOutliveTheirWindow
    /\ CountersExpire

Inv ==
    /\ Control
    /\ LimitsAreKept
    /\ CountersAreOwn

-------------------------------------------------------------------------------
(* The tables and the counters *)

LEMMA TableUpdate ==
    ASSUME NEW S, NEW t \in [Clients -> [Windows -> S]], NEW c \in Clients,
           NEW w \in Windows, NEW v \in S
    PROVE  /\ [t EXCEPT ![c][w] = v] \in [Clients -> [Windows -> S]]
           /\ \A d \in Clients, x \in Windows :
                 [t EXCEPT ![c][w] = v][d][x] = IF d = c /\ x = w THEN v ELSE t[d][x]
OBVIOUS

(* The counters after request r has added n to the one of its key, and what it *)
(* records of it                                                               *)
Adds(r, n) ==
    /\ count' \in [Clients -> [Windows -> Nat]]
    /\ \A c \in Clients, w \in Windows :
          count'[c][w] = IF c = client[r] /\ w = win[r] THEN count[c][w] + n ELSE count[c][w]
    /\ spent' \in [Requests -> 0 .. 2]
    /\ at' \in [Requests -> -1 .. LastWindow + 1]
    /\ spent'[r] = n /\ at'[r] = now
    /\ \A s \in Requests : s # r => spent'[s] = spent[s] /\ at'[s] = at[s]

LEMMA IncrementAdds ==
    ASSUME TypeOK, RequestsAreSound, NEW r \in Requests, pc[r] = "incr",
           NEW n \in 0 .. 2, Increment(r, n)
    PROVE  Adds(r, n)
<1>1. client[r] \in Clients /\ win[r] \in Windows
  BY DEF TypeOK, RequestsAreSound, RequestIsSound
<1>2. count \in [Clients -> [Windows -> Nat]]
  BY DEF TypeOK
<1>3. count' = [count EXCEPT ![client[r]][win[r]] = count[client[r]][win[r]] + n]
  BY <1>1, <1>2 DEF Increment, KeyWindow
<1>4. count[client[r]][win[r]] + n \in Nat
  BY <1>1, <1>2
<1>5. /\ count' \in [Clients -> [Windows -> Nat]]
      /\ \A c \in Clients, w \in Windows :
            count'[c][w] = IF c = client[r] /\ w = win[r] THEN count[c][w] + n ELSE count[c][w]
  BY <1>1, <1>2, <1>3, <1>4, TableUpdate
<1>6. /\ spent' \in [Requests -> 0 .. 2] /\ spent'[r] = n
      /\ \A s \in Requests : s # r => spent'[s] = spent[s]
  BY DEF TypeOK, Increment
<1>7. /\ at' \in [Requests -> -1 .. LastWindow + 1] /\ at'[r] = now
      /\ \A s \in Requests : s # r => at'[s] = at[s]
  <2>1. now \in -1 .. LastWindow + 1
    BY LastWindowIsNatural DEF TypeOK
  <2> QED
    BY <2>1 DEF TypeOK, Increment
<1> QED
  BY <1>5, <1>6, <1>7 DEF Adds

(* The expiry of the key of request r is lost. *)
Loses(r) ==
    /\ unexpiring' \in [Clients -> [Windows -> BOOLEAN]]
    /\ unexpiring'[client[r]][win[r]]
    /\ \A c \in Clients, w \in Windows : unexpiring[c][w] => unexpiring'[c][w]

LEMMA LoseExpiryLoses ==
    ASSUME TypeOK, RequestsAreSound, NEW r \in Requests, pc[r] # "idle", LoseExpiry(r)
    PROVE  Loses(r)
<1>1. client[r] \in Clients /\ win[r] \in Windows
  BY DEF TypeOK, RequestsAreSound, RequestIsSound
<1>2. /\ unexpiring \in [Clients -> [Windows -> BOOLEAN]]
      /\ unexpiring' = [unexpiring EXCEPT ![client[r]][win[r]] = TRUE]
  BY DEF TypeOK, LoseExpiry
<1>3. unexpiring' \in [Clients -> [Windows -> BOOLEAN]]
  BY <1>1, <1>2
<1>4. unexpiring'[client[r]][win[r]]
  BY <1>1, <1>2
<1>5. ASSUME NEW c \in Clients, NEW w \in Windows, unexpiring[c][w]
      PROVE  unexpiring'[c][w]
  BY <1>1, <1>2, <1>5
<1> QED
  BY <1>3, <1>4, <1>5 DEF Loses

(* Request r is decided, or moves to the next command. *)
Moves(r, p, what) ==
    /\ pc' \in [Requests -> {"idle", "incr", "expire", "done"}]
    /\ outcome' \in [Requests -> Outcomes]
    /\ pc'[r] = p /\ outcome'[r] = what
    /\ \A s \in Requests : s # r => pc'[s] = pc[s] /\ outcome'[s] = outcome[s]

LEMMA FinishMoves ==
    ASSUME TypeOK, NEW r \in Requests, NEW what \in Outcomes, Finish(r, what)
    PROVE  Moves(r, "done", what)
<1>1. /\ pc \in [Requests -> {"idle", "incr", "expire", "done"}]
      /\ outcome \in [Requests -> Outcomes]
  BY DEF TypeOK
<1>2. pc' = [pc EXCEPT ![r] = "done"] /\ outcome' = [outcome EXCEPT ![r] = what]
  BY DEF Finish
<1>3. /\ pc' \in [Requests -> {"idle", "incr", "expire", "done"}]
      /\ outcome' \in [Requests -> Outcomes]
  BY <1>1, <1>2
<1> QED
  BY <1>1, <1>2, <1>3 DEF Moves

(* One command of request r, whichever it is: it moves to p, decided as what,  *)
(* and nothing but its own key changes.                                        *)
OwnKey(r, c, w) == c = client[r] /\ w = win[r]

Works(r, p, what) ==
    /\ pc[r] \in {"incr", "expire"} /\ p \in {"expire", "done"} /\ what \in Outcomes
    /\ p = "done" <=> what # "none"
    /\ Moves(r, p, what)
    /\ UNCHANGED <<now, client, win>>
    /\ spent' \in [Requests -> 0 .. 2] /\ at' \in [Requests -> -1 .. LastWindow + 1]
    /\ \A s \in Requests : s # r => spent'[s] = spent[s] /\ at'[s] = at[s]
    /\ p = "expire" => pc[r] = "incr" /\ count[client[r]][win[r]] = 0

(* What that does to its key and to the others                                 *)
WorksOnKey(r, p) ==
    /\ count' \in [Clients -> [Windows -> Nat]]
    /\ expiry' \in [Clients -> [Windows -> Expiries]]
    /\ unexpiring' \in [Clients -> [Windows -> BOOLEAN]]
    /\ \A c \in Clients, w \in Windows :
          /\ count'[c][w] >= count[c][w]
          /\ unexpiring[c][w] => unexpiring'[c][w]
          /\ ~OwnKey(r, c, w) => count'[c][w] = count[c][w] /\ expiry'[c][w] = expiry[c][w]
          /\ OwnKey(r, c, w) =>
                \/ expiry'[c][w] = expiry[c][w]
                \/ pc[r] = "expire" /\ p = "done" /\ expiry'[c][w] = "next_window"
          /\ OwnKey(r, c, w) /\ p = "expire" => count'[c][w] > 0
          /\ OwnKey(r, c, w) /\ p = "done" /\ pc[r] = "incr" /\ count[c][w] = 0
                => count'[c][w] = 0 \/ unexpiring'[c][w]
          /\ OwnKey(r, c, w) /\ p = "done" /\ pc[r] = "expire"
                => expiry'[c][w] = "next_window" \/ unexpiring'[c][w]

LEMMA WorkKeepsControl ==
    ASSUME Control, NEW r \in Requests, NEW p, NEW what, Works(r, p, what), WorksOnKey(r, p)
    PROVE  Control'
<1>1. TypeOK /\ RequestsAreSound /\ OneSetter /\ KeysOutliveTheirWindow /\ CountersExpire
  BY DEF Control
<1>2. /\ client[r] \in Clients /\ win[r] \in Windows /\ win[r] <= now
      /\ \A s \in Requests : pc[s] # "idle" => client[s] \in Clients /\ win[s] \in Windows
  BY <1>1 DEF TypeOK, RequestsAreSound, RequestIsSound, Works
<1>3. /\ pc'[r] = p /\ outcome'[r] = what /\ UNCHANGED <<now, client, win>>
      /\ \A s \in Requests : s # r =>
            pc'[s] = pc[s] /\ outcome'[s] = outcome[s] /\ spent'[s] = spent[s]
  BY DEF Works, Moves
<1>4. ASSUME NEW s \in Requests, pc'[s] = "expire"
      PROVE  count'[client'[s]][win'[s]] > 0
  <2>1. CASE s = r
    BY <1>2, <1>3, <1>4, <2>1 DEF WorksOnKey, OwnKey
  <2>2. CASE s # r
    <3>1. pc[s] = "expire" /\ client[s] \in Clients /\ win[s] \in Windows
      BY <1>2, <1>3, <1>4, <2>2
    <3>2. count[client[s]][win[s]] > 0 /\ count'[client[s]][win[s]] >= count[client[s]][win[s]]
      BY <1>1, <3>1 DEF TypeOK, WorksOnKey
    <3>3. count[client[s]][win[s]] \in Nat /\ count'[client[s]][win[s]] \in Nat
      BY <1>1, <3>1 DEF TypeOK, WorksOnKey
    <3> QED
      BY <1>3, <3>2, <3>3
  <2> QED
    BY <2>1, <2>2
<1>5. ASSUME NEW c \in Clients, NEW w \in Windows
      PROVE  /\ expiry'[c][w] = expiry[c][w] \/
                  (pc[r] = "expire" /\ OwnKey(r, c, w) /\ expiry'[c][w] = "next_window")
             /\ count[c][w] \in Nat /\ count'[c][w] \in Nat /\ count'[c][w] >= count[c][w]
             /\ expiry[c][w] # "never" => count[c][w] > 0 /\ w <= now
  <2>1. expiry'[c][w] = expiry[c][w] \/
            (pc[r] = "expire" /\ OwnKey(r, c, w) /\ expiry'[c][w] = "next_window")
    BY DEF WorksOnKey
  <2>2. count'[c][w] \in Nat /\ count'[c][w] >= count[c][w]
    BY DEF WorksOnKey
  <2>3. count[c][w] \in Nat /\ (expiry[c][w] # "never" => count[c][w] > 0 /\ w <= now)
    BY <1>1 DEF TypeOK
  <2> QED
    BY <2>1, <2>2, <2>3
<1>6. ASSUME NEW c \in Clients, NEW w \in Windows, expiry'[c][w] # "never"
      PROVE  count'[c][w] > 0 /\ w <= now'
  <2>1. /\ count[c][w] \in Nat /\ count'[c][w] \in Nat /\ count'[c][w] >= count[c][w]
        /\ expiry[c][w] # "never" => count[c][w] > 0 /\ w <= now
        /\ now' = now
    BY <1>3, <1>5
  <2>2. CASE expiry'[c][w] = expiry[c][w]
    BY <1>6, <2>1, <2>2
  <2>3. CASE pc[r] = "expire" /\ OwnKey(r, c, w)
    <3>1. count[c][w] > 0 /\ w <= now
      BY <1>1, <1>2, <2>3 DEF TypeOK, OwnKey
    <3> QED
      BY <2>1, <3>1
  <2> QED
    BY <1>5, <2>2, <2>3
<1>7. TypeOK'
  <2>1. /\ now' \in 0 .. LastWindow + 1
        /\ client' \in [Requests -> Clients \union {NoClient}]
        /\ win' \in [Requests -> Windows]
    BY <1>1, <1>3 DEF TypeOK
  <2>2. \A s \in Requests : pc'[s] = "done" <=> outcome'[s] # "none"
    BY <1>1, <1>3 DEF TypeOK, Works
  <2>3. /\ pc' \in [Requests -> {"idle", "incr", "expire", "done"}]
        /\ outcome' \in [Requests -> Outcomes]
        /\ spent' \in [Requests -> 0 .. 2] /\ at' \in [Requests -> -1 .. LastWindow + 1]
    BY DEF Works, Moves
  <2>4. /\ count' \in [Clients -> [Windows -> Nat]]
        /\ expiry' \in [Clients -> [Windows -> Expiries]]
        /\ unexpiring' \in [Clients -> [Windows -> BOOLEAN]]
    BY DEF WorksOnKey
  <2> QED
    BY <1>4, <1>6, <2>1, <2>2, <2>3, <2>4 DEF TypeOK
<1>8. ASSUME NEW s \in Requests
      PROVE  RequestIsSound(s)'
  <2>1. pc'[s] # "idle" => client'[s] \in Clients /\ win'[s] <= now'
    BY <1>1, <1>2, <1>3 DEF RequestsAreSound, RequestIsSound
  <2>2. pc'[s] \in {"idle", "incr"} => spent'[s] = 0
    BY <1>1, <1>3 DEF RequestsAreSound, RequestIsSound, Works
  <2>3. ASSUME pc'[s] = "expire"
        PROVE  expiry'[client'[s]][win'[s]] = "never"
    <3>1. CASE s = r
      <4>1. pc[r] = "incr" /\ count[client[r]][win[r]] = 0
        BY <1>3, <2>3, <3>1 DEF Works
      <4>2. expiry[client[r]][win[r]] = "never"
        BY <1>1, <1>2, <4>1 DEF TypeOK
      <4> QED
        BY <1>2, <1>3, <1>5, <3>1, <4>1, <4>2
    <3>2. CASE s # r
      <4>1. pc[s] = "expire" /\ client[s] \in Clients /\ win[s] \in Windows
        BY <1>2, <1>3, <2>3, <3>2
      <4>2. expiry[client[s]][win[s]] = "never"
        BY <1>1, <4>1 DEF RequestsAreSound, RequestIsSound
      <4>3. ~(pc[r] = "expire" /\ OwnKey(r, client[s], win[s]))
        BY <1>1, <3>2, <4>1 DEF OneSetter, OwnKey
      <4> QED
        BY <1>3, <1>5, <4>1, <4>2, <4>3
    <3> QED
      BY <3>1, <3>2
  <2> QED
    BY <2>1, <2>2, <2>3 DEF RequestIsSound
<1>9. OneSetter'
  <2> SUFFICES ASSUME NEW s \in Requests, NEW t \in Requests,
                      pc'[s] = "expire", pc'[t] = "expire",
                      client'[s] = client'[t], win'[s] = win'[t], s # t
               PROVE  FALSE
    BY DEF OneSetter
  <2>1. ASSUME NEW x \in Requests, x # r, pc'[x] = "expire", pc'[r] = "expire",
               client[x] = client[r], win[x] = win[r]
        PROVE  FALSE
    <3>1. count[client[r]][win[r]] = 0
      BY <1>3, <2>1 DEF Works
    <3>2. count[client[x]][win[x]] > 0
      BY <1>1, <1>3, <2>1 DEF TypeOK
    <3> QED
      BY <2>1, <3>1, <3>2
  <2>2. s # r /\ t # r
    BY <1>3, <2>1
  <2> QED
    BY <1>1, <1>3, <2>2 DEF OneSetter
<1>10. KeysOutliveTheirWindow'
  <2> SUFFICES ASSUME NEW c \in Clients, NEW w \in Windows
               PROVE  /\ expiry'[c][w] = "next_window" => w <= now
                      /\ expiry'[c][w] = "this_window" => w < now
    BY <1>3 DEF KeysOutliveTheirWindow
  <2>1. CASE expiry'[c][w] = expiry[c][w]
    BY <1>1, <2>1 DEF KeysOutliveTheirWindow
  <2>2. CASE OwnKey(r, c, w) /\ expiry'[c][w] = "next_window"
    BY <1>2, <2>2 DEF OwnKey
  <2> QED
    BY <1>5, <2>1, <2>2
<1>11. ASSUME NEW c \in Clients, NEW w \in Windows, count'[c][w] > 0
       PROVE  \/ expiry'[c][w] # "never"
              \/ \E s \in Requests : pc'[s] = "expire" /\ client'[s] = c /\ win'[s] = w
              \/ unexpiring'[c][w]
  <2>1. CASE expiry[c][w] # "never"
    BY <1>5, <2>1
  <2>2. CASE \E s \in Requests : s # r /\ pc[s] = "expire" /\ client[s] = c /\ win[s] = w
    BY <1>3, <2>2
  <2>3. CASE unexpiring[c][w]
    BY <2>3 DEF WorksOnKey
  <2>4. CASE OwnKey(r, c, w)
    <3>1. CASE p = "expire"
      BY <1>3, <2>4, <3>1 DEF OwnKey
    <3>2. CASE p = "done" /\ pc[r] = "expire"
      BY <2>4, <3>2 DEF WorksOnKey
    <3>3. CASE p = "done" /\ pc[r] = "incr" /\ count[c][w] = 0
      BY <1>11, <2>4, <3>3 DEF WorksOnKey
    <3>4. CASE pc[r] = "incr" /\ count[c][w] # 0
      BY <1>1, <1>5, <2>1, <2>2, <2>3, <3>4 DEF CountersExpire
    <3> QED
      BY <3>1, <3>2, <3>3, <3>4 DEF Works
  <2>5. CASE ~OwnKey(r, c, w)
    <3>1. count[c][w] > 0
      BY <1>11, <2>5 DEF WorksOnKey
    <3> QED
      BY <1>1, <2>1, <2>2, <2>3, <2>5, <3>1 DEF CountersExpire, OwnKey
  <2> QED
    BY <2>4, <2>5
<1>12. CountersExpire'
  BY <1>11 DEF CountersExpire
<1> QED
  BY <1>7, <1>8, <1>9, <1>10, <1>12 DEF Control, RequestsAreSound

(* The four commands are of that form.                                         *)

LEMMA RequestIsTyped ==
    ASSUME Control, NEW r \in Requests, pc[r] # "idle"
    PROVE  /\ TypeOK /\ RequestsAreSound
           /\ client[r] \in Clients /\ win[r] \in Windows
           /\ \A c \in Clients, w \in Windows : count[c][w] \in Nat
           /\ outcome[r] = "none" <=> pc[r] # "done"
<1>1. TypeOK /\ RequestsAreSound
  BY DEF Control
<1>2. client[r] \in Clients /\ win[r] \in Windows
  BY <1>1 DEF TypeOK, RequestsAreSound, RequestIsSound
<1>3. \A c \in Clients, w \in Windows : count[c][w] \in Nat
  BY <1>1 DEF TypeOK
<1>4. outcome[r] = "none" <=> pc[r] # "done"
  BY <1>1 DEF TypeOK
<1> QED
  BY <1>1, <1>2, <1>3, <1>4

Counted(r, n) == count[client[r]][win[r]] + n

(* What an INCR may make of the request                                        *)
Counts(r, n, p, what) ==
    /\ pc[r] = "incr" /\ UNCHANGED expiry
    /\ Adds(r, n)
    /\ p = "expire" => n = 1 /\ Counted(r, n) = 1
    /\ what = "served" => n >= 1 /\ Counted(r, n) <= Limit
    /\ what = "refused" => Counted(r, n) > Limit

LEMMA CountWorks ==
    ASSUME Control, NEW r \in Requests, Count(r)
    PROVE  \E n \in {1, 2} : \E p, what :
              Works(r, p, what) /\ WorksOnKey(r, p) /\ Counts(r, n, p, what)
<1>1. pc[r] = "incr"
  BY DEF Count
<1>2. /\ TypeOK /\ RequestsAreSound
      /\ client[r] \in Clients /\ win[r] \in Windows
      /\ \A c \in Clients, w \in Windows : count[c][w] \in Nat
      /\ outcome[r] = "none"
  BY <1>1, RequestIsTyped
<1>3. PICK n \in {1, 2} :
        /\ Increment(r, n)
        /\ IF Counted(r, n) = 1
             THEN pc' = [pc EXCEPT ![r] = "expire"] /\ UNCHANGED <<outcome, unexpiring>>
             ELSE /\ Finish(r, IF Counted(r, n) > Limit THEN "refused" ELSE "served")
                  /\ IF Counted(r, n) = 2 /\ n = 2 THEN LoseExpiry(r) ELSE UNCHANGED unexpiring
        /\ UNCHANGED <<now, expiry, client, win>>
  BY DEF Count, Counted, KeyWindow, IsFirst, Exceeds
<1>4. Adds(r, n)
  BY <1>1, <1>2, <1>3, IncrementAdds
<1>5. UNCHANGED <<now, expiry, client, win>>
  BY <1>3
<1>6. Counted(r, n) \in Nat /\ Limit \in Nat
  BY <1>2, LimitIsPositive DEF Counted
<1>7. /\ count' \in [Clients -> [Windows -> Nat]]
      /\ expiry' \in [Clients -> [Windows -> Expiries]]
      /\ \A c \in Clients, w \in Windows :
            /\ count'[c][w] >= count[c][w] /\ expiry'[c][w] = expiry[c][w]
            /\ ~OwnKey(r, c, w) => count'[c][w] = count[c][w]
            /\ OwnKey(r, c, w) => count'[c][w] = Counted(r, n) /\ count'[c][w] > 0
  <2>1. expiry' \in [Clients -> [Windows -> Expiries]]
    BY <1>2, <1>5 DEF TypeOK
  <2>2. ASSUME NEW c \in Clients, NEW w \in Windows
        PROVE  /\ count'[c][w] >= count[c][w]
               /\ ~OwnKey(r, c, w) => count'[c][w] = count[c][w]
               /\ OwnKey(r, c, w) => count'[c][w] = Counted(r, n) /\ count'[c][w] > 0
    BY <1>2, <1>4 DEF Adds, OwnKey, Counted
  <2> QED
    BY <1>4, <1>5, <2>1, <2>2 DEF Adds
<1>8. CASE Counted(r, n) = 1
  <2>1. n = 1 /\ count[client[r]][win[r]] = 0
    BY <1>2, <1>8 DEF Counted
  <2>2. pc' = [pc EXCEPT ![r] = "expire"] /\ UNCHANGED <<outcome, unexpiring>>
    BY <1>3, <1>8
  <2>3. Moves(r, "expire", "none")
    BY <1>2, <2>2 DEF Moves, TypeOK
  <2>4. Works(r, "expire", "none")
    BY <1>1, <1>4, <1>5, <2>1, <2>3 DEF Works, Adds, Outcomes
  <2>5. WorksOnKey(r, "expire")
    <3>1. unexpiring' \in [Clients -> [Windows -> BOOLEAN]]
      BY <1>2, <2>2 DEF TypeOK
    <3> QED
      BY <1>7, <2>2, <3>1 DEF WorksOnKey
  <2>6. Counts(r, n, "expire", "none")
    BY <1>1, <1>4, <1>5, <1>8, <2>1 DEF Counts
  <2> QED
    BY <2>4, <2>5, <2>6
<1>9. CASE Counted(r, n) # 1
  <2> DEFINE what == IF Counted(r, n) > Limit THEN "refused" ELSE "served"
  <2>1. what \in Outcomes /\ what # "none"
    BY DEF Outcomes
  <2>2. Finish(r, what)
    BY <1>3, <1>9
  <2>3. what = "served" => n >= 1 /\ Counted(r, n) <= Limit
    BY <1>6
  <2>4. what = "refused" => Counted(r, n) > Limit
    OBVIOUS
  <2> HIDE DEF what
  <2>5. Moves(r, "done", what)
    BY <1>2, <2>1, <2>2, FinishMoves
  <2>6. Works(r, "done", what)
    BY <1>1, <1>4, <1>5, <2>1, <2>5 DEF Works, Adds
  <2>7. Counts(r, n, "done", what)
    BY <1>1, <1>4, <1>5, <2>3, <2>4 DEF Counts
  <2>8. /\ unexpiring' \in [Clients -> [Windows -> BOOLEAN]]
        /\ \A c \in Clients, w \in Windows : unexpiring[c][w] => unexpiring'[c][w]
        /\ Counted(r, n) = 2 /\ n = 2 => unexpiring'[client[r]][win[r]]
    <3>1. CASE Counted(r, n) = 2 /\ n = 2
      <4>1. Loses(r)
        BY <1>1, <1>2, <1>3, <3>1, LoseExpiryLoses
      <4> QED
        BY <4>1 DEF Loses
    <3>2. CASE ~(Counted(r, n) = 2 /\ n = 2)
      <4>1. UNCHANGED unexpiring
        BY <1>3, <1>9, <3>2
      <4> QED
        BY <1>2, <3>2, <4>1 DEF TypeOK
    <3> QED
      BY <3>1, <3>2
  <2>9. count[client[r]][win[r]] = 0 => n = 2 /\ Counted(r, n) = 2
    BY <1>2, <1>9 DEF Counted
  <2>10. WorksOnKey(r, "done")
    BY <1>1, <1>7, <2>8, <2>9 DEF WorksOnKey, OwnKey
  <2> QED
    BY <2>6, <2>7, <2>10
<1> QED
  BY <1>8, <1>9

LEMMA CountFailsWorks ==
    ASSUME Control, NEW r \in Requests, CountFails(r)
    PROVE  \E n \in {0, 1} :
              /\ Works(r, "done", "open") /\ WorksOnKey(r, "done")
              /\ Counts(r, n, "done", "open")
<1>1. pc[r] = "incr"
  BY DEF CountFails
<1>2. /\ TypeOK /\ RequestsAreSound
      /\ client[r] \in Clients /\ win[r] \in Windows
      /\ \A c \in Clients, w \in Windows : count[c][w] \in Nat
  BY <1>1, RequestIsTyped
<1>3. PICK n \in {0, 1} :
        /\ Increment(r, n)
        /\ IF n = 1 /\ count[client[r]][win[r]] = 0 THEN LoseExpiry(r) ELSE UNCHANGED unexpiring
  BY DEF CountFails
<1>4. Adds(r, n)
  BY <1>1, <1>2, <1>3, IncrementAdds
<1>5. UNCHANGED <<now, expiry, client, win>> /\ Finish(r, "open")
  BY DEF CountFails
<1>6. Moves(r, "done", "open")
  BY <1>2, <1>5, FinishMoves DEF Outcomes
<1>7. Works(r, "done", "open")
  BY <1>1, <1>4, <1>5, <1>6 DEF Works, Adds, Outcomes
<1>8. Counts(r, n, "done", "open")
  BY <1>1, <1>4, <1>5 DEF Counts
<1>9. /\ unexpiring' \in [Clients -> [Windows -> BOOLEAN]]
      /\ \A c \in Clients, w \in Windows : unexpiring[c][w] => unexpiring'[c][w]
      /\ n = 1 /\ count[client[r]][win[r]] = 0 => unexpiring'[client[r]][win[r]]
  <2>1. CASE n = 1 /\ count[client[r]][win[r]] = 0
    <3>1. Loses(r)
      BY <1>1, <1>2, <1>3, <2>1, LoseExpiryLoses
    <3> QED
      BY <3>1 DEF Loses
  <2>2. CASE ~(n = 1 /\ count[client[r]][win[r]] = 0)
    <3>1. UNCHANGED unexpiring
      BY <1>3, <2>2
    <3> QED
      BY <1>2, <2>2, <3>1 DEF TypeOK
  <2> QED
    BY <2>1, <2>2
<1>10. /\ count' \in [Clients -> [Windows -> Nat]]
       /\ \A c \in Clients, w \in Windows :
            /\ count'[c][w] >= count[c][w]
            /\ ~OwnKey(r, c, w) => count'[c][w] = count[c][w]
            /\ OwnKey(r, c, w) => count'[c][w] = count[c][w] + n
  BY <1>2, <1>4 DEF Adds, OwnKey
<1>11. expiry' \in [Clients -> [Windows -> Expiries]] /\ expiry' = expiry
  BY <1>2, <1>5 DEF TypeOK
<1>12. n = 0 /\ count[client[r]][win[r]] = 0 => count'[client[r]][win[r]] = 0
  BY <1>2, <1>10 DEF OwnKey
<1>13. WorksOnKey(r, "done")
  BY <1>1, <1>3, <1>9, <1>10, <1>11, <1>12 DEF WorksOnKey, OwnKey
<1> QED
  BY <1>3, <1>7, <1>8, <1>13

(* A command that counts nothing                                               *)
Spares == UNCHANGED <<count, at, spent>>

LEMMA SetExpiryWorks ==
    ASSUME Control, NEW r \in Requests, SetExpiry(r)
    PROVE  Works(r, "done", "served") /\ WorksOnKey(r, "done") /\ Spares
<1>1. pc[r] = "expire"
  BY DEF SetExpiry
<1>2. /\ TypeOK /\ RequestsAreSound
      /\ client[r] \in Clients /\ win[r] \in Windows
      /\ \A c \in Clients, w \in Windows : count[c][w] \in Nat
  BY <1>1, RequestIsTyped
<1>3. UNCHANGED <<now, client, win>> /\ Spares
  BY DEF SetExpiry, Spares
<1>4. Finish(r, "served")
  <2>1. ~(1 > Limit)
    BY LimitIsPositive
  <2> QED
    BY <2>1 DEF SetExpiry, Exceeds, Finish
<1>5. Moves(r, "done", "served")
  BY <1>2, <1>4, FinishMoves DEF Outcomes
<1>6. Works(r, "done", "served")
  BY <1>1, <1>2, <1>3, <1>5 DEF Works, Outcomes, Spares, TypeOK
<1>7. count' = count /\ count' \in [Clients -> [Windows -> Nat]]
  BY <1>2, <1>3 DEF Spares, TypeOK
<1>8. \A c \in Clients, w \in Windows : count'[c][w] >= count[c][w]
  BY <1>2, <1>7
<1>9. CASE expiry' = [expiry EXCEPT ![client[r]][win[r]] = "next_window"] /\ UNCHANGED unexpiring
  <2>1. expiry \in [Clients -> [Windows -> Expiries]] /\ "next_window" \in Expiries
    BY <1>2 DEF TypeOK, Expiries
  <2>2. /\ expiry' \in [Clients -> [Windows -> Expiries]]
        /\ \A c \in Clients, w \in Windows :
              expiry'[c][w] = IF OwnKey(r, c, w) THEN "next_window" ELSE expiry[c][w]
    <3>1. expiry' \in [Clients -> [Windows -> Expiries]]
      BY <1>2, <1>9, <2>1
    <3>2. ASSUME NEW c \in Clients, NEW w \in Windows
          PROVE  expiry'[c][w] = IF OwnKey(r, c, w) THEN "next_window" ELSE expiry[c][w]
      BY <1>2, <1>9, <2>1 DEF OwnKey
    <3> QED
      BY <3>1, <3>2
  <2>3. unexpiring' = unexpiring /\ unexpiring' \in [Clients -> [Windows -> BOOLEAN]]
    BY <1>2, <1>9 DEF TypeOK
  <2>4. WorksOnKey(r, "done")
    BY <1>1, <1>7, <1>8, <2>2, <2>3 DEF WorksOnKey
  <2> QED
    BY <1>3, <1>6, <2>4
<1>10. CASE LoseExpiry(r) /\ UNCHANGED expiry
  <2>1. Loses(r)
    BY <1>1, <1>2, <1>10, LoseExpiryLoses
  <2>2. expiry' = expiry /\ expiry' \in [Clients -> [Windows -> Expiries]]
    BY <1>2, <1>10 DEF TypeOK
  <2>3. WorksOnKey(r, "done")
    BY <1>1, <1>7, <1>8, <2>1, <2>2 DEF WorksOnKey, Loses, OwnKey
  <2> QED
    BY <1>3, <1>6, <2>3
<1> QED
  BY <1>9, <1>10 DEF SetExpiry, KeyWindow

LEMMA DieWorks ==
    ASSUME Control, NEW r \in Requests, Die(r)
    PROVE  Works(r, "done", "dropped") /\ WorksOnKey(r, "done") /\ Spares
<1>1. pc[r] \in {"incr", "expire"}
  BY DEF Die
<1>2. /\ TypeOK /\ RequestsAreSound
      /\ client[r] \in Clients /\ win[r] \in Windows
      /\ \A c \in Clients, w \in Windows : count[c][w] \in Nat
  BY <1>1, RequestIsTyped
<1>3. UNCHANGED <<now, client, win>> /\ Spares /\ Finish(r, "dropped") /\ UNCHANGED expiry
  BY DEF Die, Spares
<1>4. Moves(r, "done", "dropped")
  BY <1>2, <1>3, FinishMoves DEF Outcomes
<1>5. Works(r, "done", "dropped")
  BY <1>1, <1>2, <1>3, <1>4 DEF Works, Outcomes, Spares, TypeOK
<1>6. /\ unexpiring' \in [Clients -> [Windows -> BOOLEAN]]
      /\ \A c \in Clients, w \in Windows : unexpiring[c][w] => unexpiring'[c][w]
      /\ pc[r] = "expire" => unexpiring'[client[r]][win[r]]
  <2>1. CASE pc[r] = "expire"
    <3>1. LoseExpiry(r)
      BY <2>1 DEF Die
    <3>2. Loses(r)
      BY <1>1, <1>2, <3>1, LoseExpiryLoses
    <3> QED
      BY <3>2 DEF Loses
  <2>2. CASE pc[r] # "expire"
    <3>1. UNCHANGED unexpiring
      BY <2>2 DEF Die
    <3> QED
      BY <1>2, <2>2, <3>1 DEF TypeOK
  <2> QED
    BY <2>1, <2>2
<1>7. count' = count /\ count' \in [Clients -> [Windows -> Nat]]
  BY <1>2, <1>3 DEF Spares, TypeOK
<1>8. \A c \in Clients, w \in Windows : count'[c][w] >= count[c][w]
  BY <1>2, <1>7
<1>9. expiry' = expiry /\ expiry' \in [Clients -> [Windows -> Expiries]]
  BY <1>2, <1>3 DEF TypeOK
<1>10. WorksOnKey(r, "done")
  BY <1>6, <1>7, <1>8, <1>9 DEF WorksOnKey, OwnKey
<1> QED
  BY <1>3, <1>5, <1>10

LEMMA ArriveKeepsControl ==
    ASSUME Control, NEW r \in Requests, NEW c \in Clients, Arrive(r, c)
    PROVE  Control'
<1>1. TypeOK /\ RequestsAreSound /\ OneSetter /\ KeysOutliveTheirWindow /\ CountersExpire
  BY DEF Control
<1>2. /\ pc[r] = "idle" /\ now \in Windows
      /\ client' = [client EXCEPT ![r] = c]
      /\ win' = [win EXCEPT ![r] = now]
      /\ pc' = [pc EXCEPT ![r] = "incr"]
      /\ UNCHANGED <<now, count, expiry, outcome, at, spent, unexpiring>>
  BY DEF Arrive
<1>3. /\ client' \in [Requests -> Clients \union {NoClient}]
      /\ win' \in [Requests -> Windows]
      /\ pc' \in [Requests -> {"idle", "incr", "expire", "done"}]
  BY <1>1, <1>2 DEF TypeOK
<1>4. /\ pc'[r] = "incr" /\ client'[r] = c /\ win'[r] = now
      /\ \A s \in Requests : s # r =>
            pc'[s] = pc[s] /\ client'[s] = client[s] /\ win'[s] = win[s]
  BY <1>1, <1>2 DEF TypeOK
<1>5. \A s \in Requests : pc'[s] = "expire" =>
          pc[s] = "expire" /\ client'[s] = client[s] /\ win'[s] = win[s]
  BY <1>4
<1>6. TypeOK'
  <2>1. \A s \in Requests :
           /\ pc'[s] = "done" <=> outcome'[s] # "none"
           /\ pc'[s] = "expire" => count'[client'[s]][win'[s]] > 0
    BY <1>1, <1>2, <1>4, <1>5 DEF TypeOK
  <2> QED
    BY <1>1, <1>2, <1>3, <2>1 DEF TypeOK
<1>7. ASSUME NEW s \in Requests
      PROVE  RequestIsSound(s)'
  <2>1. pc'[s] # "idle" => client'[s] \in Clients /\ win'[s] <= now'
    <3>1. now <= now
      BY <1>2 DEF Windows
    <3> QED
      BY <1>1, <1>2, <1>4, <3>1 DEF RequestsAreSound, RequestIsSound
  <2>2. /\ pc'[s] \in {"idle", "incr"} => spent'[s] = 0
        /\ pc'[s] = "expire" => expiry'[client'[s]][win'[s]] = "never"
    BY <1>1, <1>2, <1>4 DEF RequestsAreSound, RequestIsSound
  <2> QED
    BY <2>1, <2>2 DEF RequestIsSound
<1>8. OneSetter' /\ KeysOutliveTheirWindow'
  BY <1>1, <1>2, <1>5 DEF OneSetter, KeysOutliveTheirWindow
<1>9. CountersExpire'
  <2>1. \A s \in Requests : pc[s] = "expire" =>
            pc'[s] = "expire" /\ client'[s] = client[s] /\ win'[s] = win[s]
    BY <1>2, <1>4
  <2> QED
    BY <1>1, <1>2, <2>1 DEF CountersExpire
<1> QED
  BY <1>6, <1>7, <1>8, <1>9 DEF Control, RequestsAreSound

LEMMA EvictKeepsControl ==
    ASSUME Control, NEW c \in Clients, NEW w \in Windows, Evict(c, w)
    PROVE  Control'
<1>1. TypeOK /\ RequestsAreSound /\ OneSetter /\ KeysOutliveTheirWindow /\ CountersExpire
  BY DEF Control
<1>2. /\ expiry[c][w] = "this_window"
      /\ count' = [count EXCEPT ![c][w] = 0]
      /\ expiry' = [expiry EXCEPT ![c][w] = "never"]
      /\ UNCHANGED <<now, pc, client, win, outcome, at, spent, unexpiring>>
  BY DEF Evict
<1>3. /\ count' \in [Clients -> [Windows -> Nat]]
      /\ \A d \in Clients, x \in Windows :
            count'[d][x] = IF d = c /\ x = w THEN 0 ELSE count[d][x]
  BY <1>1, <1>2 DEF TypeOK
<1>4. expiry \in [Clients -> [Windows -> Expiries]] /\ "never" \in Expiries
  BY <1>1 DEF TypeOK, Expiries
<1>5. expiry' \in [Clients -> [Windows -> Expiries]]
  BY <1>2, <1>4
<1>6. ASSUME NEW d \in Clients, NEW x \in Windows
      PROVE  expiry'[d][x] = IF d = c /\ x = w THEN "never" ELSE expiry[d][x]
  BY <1>2, <1>4
<1>7. \A s \in Requests : pc[s] = "expire" =>
          /\ client[s] \in Clients /\ win[s] \in Windows
          /\ expiry[client[s]][win[s]] = "never"
          /\ ~(client[s] = c /\ win[s] = w)
  BY <1>1, <1>2 DEF RequestsAreSound, RequestIsSound, TypeOK
<1>8. TypeOK'
  <2>1. \A s \in Requests : pc[s] = "expire" => count'[client[s]][win[s]] > 0
    BY <1>1, <1>3, <1>7 DEF TypeOK
  <2>2. \A d \in Clients, x \in Windows :
           expiry'[d][x] # "never" => count'[d][x] > 0 /\ x <= now
    BY <1>1, <1>3, <1>6 DEF TypeOK
  <2> QED
    BY <1>1, <1>2, <1>3, <1>5, <2>1, <2>2 DEF TypeOK
<1>9. UNCHANGED <<now, pc, client, win, spent, unexpiring>>
  BY <1>2
<1>10. RequestsAreSound'
  <2> SUFFICES ASSUME NEW s \in Requests PROVE RequestIsSound(s)'
    BY DEF RequestsAreSound
  <2>1. RequestIsSound(s)
    BY <1>1 DEF RequestsAreSound
  <2>2. pc[s] = "expire" => expiry'[client[s]][win[s]] = "never"
    BY <1>6, <1>7
  <2> QED
    BY <1>9, <2>1, <2>2 DEF RequestIsSound
<1>11. OneSetter'
  BY <1>1, <1>9 DEF OneSetter
<1>12. KeysOutliveTheirWindow'
  BY <1>1, <1>6, <1>9 DEF KeysOutliveTheirWindow
<1>13. CountersExpire'
  <2> SUFFICES ASSUME NEW d \in Clients, NEW x \in Windows, count'[d][x] > 0
               PROVE  \/ expiry'[d][x] # "never"
                      \/ \E s \in Requests : pc[s] = "expire" /\ client[s] = d /\ win[s] = x
                      \/ unexpiring[d][x]
    BY <1>9 DEF CountersExpire
  <2>1. ~(d = c /\ x = w) /\ count[d][x] > 0 /\ expiry'[d][x] = expiry[d][x]
    BY <1>3, <1>6
  <2> QED
    BY <1>1, <2>1 DEF CountersExpire
<1> QED
  BY <1>8, <1>10, <1>11, <1>12, <1>13 DEF Control

LEMMA TickKeepsControl ==
    ASSUME Control, Tick
    PROVE  Control' /\ now <= now'
<1>1. TypeOK /\ RequestsAreSound /\ OneSetter /\ KeysOutliveTheirWindow /\ CountersExpire
  BY DEF Control
<1>2. /\ now' = IF now \in Windows THEN now + 1 ELSE now
      /\ expiry' = [c \in Clients |-> [w \in Windows |->
                      IF expiry[c][w] = "next_window" THEN "this_window" ELSE expiry[c][w]]]
      /\ \A c \in Clients, w \in Windows : expiry[c][w] # "this_window"
      /\ UNCHANGED <<count, pc, client, win, outcome, at, spent, unexpiring>>
  BY DEF Tick
<1>3. now' = (IF now \in Windows THEN now + 1 ELSE now)
  BY <1>2
<1>4. UNCHANGED <<count, pc, client, win, spent, unexpiring>>
  BY <1>2
<1>5. /\ now' \in 0 .. LastWindow + 1 /\ now <= now' /\ now \in Int /\ now' \in Int
      /\ \A w \in Windows : w \in Int /\ (w <= now => w <= now' /\ w < now')
  <2>1. now \in 0 .. LastWindow + 1 /\ LastWindow \in Nat
    BY <1>1, LastWindowIsNatural DEF TypeOK
  <2>2. CASE now \in Windows
    BY <1>3, <2>1, <2>2 DEF Windows
  <2>3. CASE now \notin Windows
    <3>1. now = LastWindow + 1 /\ now' = now
      BY <1>3, <2>1, <2>3 DEF Windows
    <3> QED
      BY <2>1, <3>1 DEF Windows
  <2> QED
    BY <2>2, <2>3
<1>6. /\ expiry \in [Clients -> [Windows -> Expiries]]
      /\ "this_window" \in Expiries
  BY <1>1 DEF TypeOK, Expiries
<1>7. expiry' \in [Clients -> [Windows -> Expiries]]
  BY <1>2, <1>6
<1>8. ASSUME NEW c \in Clients, NEW w \in Windows
      PROVE  /\ expiry[c][w] # "this_window"
             /\ expiry'[c][w] = IF expiry[c][w] = "next_window" THEN "this_window" ELSE expiry[c][w]
  BY <1>2
<1>9. TypeOK'
  <2>1. ASSUME NEW c \in Clients, NEW w \in Windows, expiry'[c][w] # "never"
        PROVE  count[c][w] > 0 /\ w <= now'
    <3>1. expiry[c][w] # "never"
      BY <1>8, <2>1
    <3>2. count[c][w] > 0 /\ w <= now
      BY <1>1, <3>1 DEF TypeOK
    <3> QED
      BY <1>5, <3>2
  <2> QED
    BY <1>1, <1>2, <1>5, <1>7, <2>1 DEF TypeOK
<1>10. RequestsAreSound'
  <2> SUFFICES ASSUME NEW s \in Requests PROVE RequestIsSound(s)'
    BY DEF RequestsAreSound
  <2>1. win[s] \in Windows /\ RequestIsSound(s)
    BY <1>1 DEF RequestsAreSound, TypeOK
  <2> QED
    BY <1>2, <1>5, <1>8, <2>1 DEF RequestIsSound
<1>11. OneSetter'
  BY <1>1, <1>2 DEF OneSetter
<1>12. KeysOutliveTheirWindow'
  <2> SUFFICES ASSUME NEW c \in Clients, NEW w \in Windows
               PROVE  /\ expiry'[c][w] = "next_window" => w <= now'
                      /\ expiry'[c][w] = "this_window" => w < now'
    BY DEF KeysOutliveTheirWindow
  <2>1. expiry'[c][w] \in {"next_window", "this_window"} => expiry[c][w] = "next_window"
    BY <1>8
  <2> QED
    BY <1>1, <1>5, <2>1 DEF KeysOutliveTheirWindow
<1>13. CountersExpire'
  <2>1. \A c \in Clients, w \in Windows : expiry[c][w] # "never" => expiry'[c][w] # "never"
    BY <1>8
  <2> QED
    BY <1>1, <1>4, <2>1 DEF CountersExpire
<1> QED
  BY <1>5, <1>9, <1>10, <1>11, <1>12, <1>13 DEF Control

-------------------------------------------------------------------------------
(* The requests that are let through, and what a client's requests have spent  *)

LEMMA LimitStays ==
    ASSUME NEW c \in Clients, NEW w \in Windows, LimitIsKept(c, w),
           LetThrough(c, w)' \subseteq LetThrough(c, w),
           count[c][w] \in Nat, count'[c][w] \in Nat,
           now' <= w => now <= w /\ count[c][w] <= count'[c][w]
    PROVE  LimitIsKept(c, w)'
<1>1. IsFiniteSet(LetThrough(c, w)) /\ Cardinality(LetThrough(c, w)) \in Nat
  BY FS_CardinalityType DEF LimitIsKept
<1>2. /\ IsFiniteSet(LetThrough(c, w)')
      /\ Cardinality(LetThrough(c, w)') <= Cardinality(LetThrough(c, w))
      /\ Cardinality(LetThrough(c, w)') \in Nat
  BY <1>1, FS_Subset, FS_CardinalityType
<1>3. Limit \in Nat
  BY LimitIsPositive
<1>4. Cardinality(LetThrough(c, w)') <= Limit
  BY <1>1, <1>2, <1>3 DEF LimitIsKept
<1>5. now' <= w => Cardinality(LetThrough(c, w)') <= count'[c][w]
  BY <1>1, <1>2 DEF LimitIsKept
<1> QED
  BY <1>2, <1>4, <1>5 DEF LimitIsKept

LEMMA LimitGrows ==
    ASSUME NEW c \in Clients, NEW w \in Windows, LimitIsKept(c, w),
           NEW r, LetThrough(c, w)' \subseteq LetThrough(c, w) \union {r},
           count[c][w] \in Nat, count'[c][w] \in Nat, now <= w,
           count[c][w] + 1 <= count'[c][w], count'[c][w] <= Limit
    PROVE  LimitIsKept(c, w)'
<1> DEFINE L == LetThrough(c, w)
           M == LetThrough(c, w) \union {r}
<1>1. IsFiniteSet(L) /\ Cardinality(L) \in Nat /\ Cardinality(L) <= count[c][w]
  BY FS_CardinalityType DEF LimitIsKept
<1>2. IsFiniteSet(M) /\ Cardinality(M) \in Nat /\ Cardinality(M) <= Cardinality(L) + 1
  <2> HIDE DEF L
  <2>1. /\ IsFiniteSet(L \union {r})
        /\ Cardinality(L \union {r}) = IF r \in L THEN Cardinality(L) ELSE Cardinality(L) + 1
    BY <1>1, FS_AddElement
  <2> QED
    BY <1>1, <2>1 DEF L
<1>3. /\ IsFiniteSet(LetThrough(c, w)')
      /\ Cardinality(LetThrough(c, w)') <= Cardinality(M)
      /\ Cardinality(LetThrough(c, w)') \in Nat
  BY <1>2, FS_Subset, FS_CardinalityType
<1>4. Limit \in Nat
  BY LimitIsPositive
<1> HIDE DEF L, M
<1>5. /\ Cardinality(LetThrough(c, w)') <= Limit
      /\ Cardinality(LetThrough(c, w)') <= count'[c][w]
  BY <1>1, <1>2, <1>3, <1>4
<1> QED
  BY <1>3, <1>5 DEF LimitIsKept

LEMMA OwnStays ==
    ASSUME NEW c \in Clients, NEW w \in Windows, CounterIsOwn(c, w),
           \A n \in {1, 2} : Spending(c, w, n)' = Spending(c, w, n),
           count[c][w] \in Nat, count'[c][w] \in Nat, count'[c][w] <= count[c][w],
           \A r \in Requests : outcome'[r] = "refused" /\ client'[r] = c /\ win'[r] = w
              => outcome[r] = "refused" /\ client[r] = c /\ win[r] = w
    PROVE  CounterIsOwn(c, w)'
<1>1. /\ Spending(c, w, 1)' = Spending(c, w, 1)
      /\ Spending(c, w, 2)' = Spending(c, w, 2)
  OBVIOUS
<1>2. Spent(c, w)' = Spent(c, w)
  BY <1>1 DEF Spent
<1>3. Spent(c, w) \in Nat
  BY FS_CardinalityType DEF Spent, CounterIsOwn
<1>4. \A n \in {1, 2} : IsFiniteSet(Spending(c, w, n)')
  BY DEF CounterIsOwn
<1>5. count'[c][w] <= Spent(c, w)'
  BY <1>2, <1>3 DEF CounterIsOwn
<1>6. \A r \in Requests : outcome'[r] = "refused" /\ client'[r] = c /\ win'[r] = w
         => Limit < Spent(c, w)'
  BY <1>2 DEF CounterIsOwn
<1> QED
  BY <1>4, <1>5, <1>6 DEF CounterIsOwn

(* An INCR adds the request to those that have spent as much.                  *)
LEMMA SpendingGrows ==
    ASSUME Control, NEW r \in Requests, NEW n \in 0 .. 2, NEW p, NEW what,
           Works(r, p, what), Counts(r, n, p, what),
           NEW c \in Clients, NEW w \in Windows, NEW k \in {1, 2}
    PROVE  /\ r \notin Spending(c, w, k)
           /\ Spending(c, w, k)' =
                IF OwnKey(r, c, w) /\ n >= k THEN Spending(c, w, k) \union {r}
                ELSE Spending(c, w, k)
<1>1. spent[r] = 0
  BY DEF Control, RequestsAreSound, RequestIsSound, Counts
<1>2. UNCHANGED <<client, win>>
  BY DEF Works
<1>3. spent'[r] = n /\ \A s \in Requests : s # r => spent'[s] = spent[s]
  BY DEF Counts, Adds
<1>4. ~(0 >= k)
  OBVIOUS
<1>5. r \notin Spending(c, w, k)
  BY <1>1, <1>4 DEF Spending
<1>6. ASSUME NEW s \in Requests
      PROVE  s \in Spending(c, w, k)' <=> s \in Spending(c, w, k) \/ (s = r /\ OwnKey(r, c, w) /\ n >= k)
  <2>1. s \in Spending(c, w, k)' <=> client[s] = c /\ win[s] = w /\ spent'[s] >= k
    BY <1>2 DEF Spending
  <2>2. s \in Spending(c, w, k) <=> client[s] = c /\ win[s] = w /\ spent[s] >= k
    BY DEF Spending
  <2>3. CASE s = r
    BY <1>3, <1>5, <2>1, <2>3 DEF OwnKey
  <2>4. CASE s # r
    BY <1>3, <2>1, <2>2, <2>4
  <2> QED
    BY <2>3, <2>4
<1>7. Spending(c, w, k)' \subseteq Requests /\ Spending(c, w, k) \subseteq Requests
  BY DEF Spending
<1>8. Spending(c, w, k)' = IF OwnKey(r, c, w) /\ n >= k THEN Spending(c, w, k) \union {r}
                           ELSE Spending(c, w, k)
  BY <1>6, <1>7
<1> QED
  BY <1>5, <1>8

LEMMA OwnGrows ==
    ASSUME Control, NEW r \in Requests, NEW n \in 0 .. 2, NEW p, NEW what,
           Works(r, p, what), Counts(r, n, p, what),
           NEW c \in Clients, NEW w \in Windows, OwnKey(r, c, w), CounterIsOwn(c, w)
    PROVE  CounterIsOwn(c, w)'
<1>1. count[c][w] \in Nat /\ count'[c][w] = count[c][w] + n /\ Counted(r, n) = count[c][w] + n
  BY DEF Control, TypeOK, Counts, Adds, OwnKey, Counted
<1>2. ASSUME NEW k \in {1, 2}
      PROVE  /\ IsFiniteSet(Spending(c, w, k)')
             /\ Cardinality(Spending(c, w, k)) \in Nat
             /\ Cardinality(Spending(c, w, k)') =
                  IF n >= k THEN Cardinality(Spending(c, w, k)) + 1 ELSE Cardinality(Spending(c, w, k))
  <2>1. IsFiniteSet(Spending(c, w, k)) /\ Cardinality(Spending(c, w, k)) \in Nat
    BY FS_CardinalityType DEF CounterIsOwn
  <2>2. /\ r \notin Spending(c, w, k)
        /\ Spending(c, w, k)' =
             IF n >= k THEN Spending(c, w, k) \union {r} ELSE Spending(c, w, k)
    BY SpendingGrows
  <2> QED
    BY <2>1, <2>2, FS_AddElement
<1>3. Spent(c, w) \in Nat /\ Spent(c, w)' = Spent(c, w) + n
  <2>1. /\ Cardinality(Spending(c, w, 1)) \in Nat /\ Cardinality(Spending(c, w, 2)) \in Nat
        /\ Cardinality(Spending(c, w, 1)') =
             IF n >= 1 THEN Cardinality(Spending(c, w, 1)) + 1 ELSE Cardinality(Spending(c, w, 1))
        /\ Cardinality(Spending(c, w, 2)') =
             IF n >= 2 THEN Cardinality(Spending(c, w, 2)) + 1 ELSE Cardinality(Spending(c, w, 2))
    BY <1>2
  <2>2. n = 0 \/ n = 1 \/ n = 2
    OBVIOUS
  <2> QED
    BY <2>1, <2>2 DEF Spent
<1>4. count'[c][w] <= Spent(c, w)'
  BY <1>1, <1>3 DEF CounterIsOwn
<1>5. ASSUME NEW s \in Requests, outcome'[s] = "refused", client'[s] = c, win'[s] = w
      PROVE  Limit < Spent(c, w)'
  <2>1. Limit \in Nat
    BY LimitIsPositive
  <2>2. CASE s = r
    <3>1. Counted(r, n) > Limit
      BY <1>5, <2>2 DEF Works, Moves, Counts
    <3> QED
      BY <1>1, <1>3, <1>4, <2>1, <3>1
  <2>3. CASE s # r
    <3>1. outcome[s] = "refused" /\ client[s] = c /\ win[s] = w
      BY <1>5, <2>3 DEF Works, Moves
    <3>2. Limit < Spent(c, w)
      BY <3>1 DEF CounterIsOwn
    <3> QED
      BY <1>3, <2>1, <3>2
  <2> QED
    BY <2>2, <2>3
<1> QED
  BY <1>2, <1>4, <1>5 DEF CounterIsOwn

(* Which requests a command lets through                                       *)
LEMMA WorkLetsThrough ==
    ASSUME NEW r \in Requests, NEW p, NEW what, Works(r, p, what),
           NEW c \in Clients, NEW w \in Windows
    PROVE  /\ LetThrough(c, w)' \subseteq LetThrough(c, w) \union {r}
           /\ r \in LetThrough(c, w)' =>
                OwnKey(r, c, w) /\ at'[r] = w /\ (what = "served" \/ p = "expire")
<1>1. UNCHANGED <<client, win>> /\ pc'[r] = p /\ outcome'[r] = what
  BY DEF Works, Moves
<1>2. \A s \in Requests : s # r =>
          pc'[s] = pc[s] /\ outcome'[s] = outcome[s] /\ at'[s] = at[s]
  BY DEF Works, Moves
<1>3. ASSUME NEW s \in LetThrough(c, w)'
      PROVE  /\ s \in Requests /\ client[s] = c /\ win[s] = w /\ at'[s] = w
             /\ outcome'[s] = "served" \/ pc'[s] = "expire"
  BY <1>1 DEF LetThrough
<1>4. LetThrough(c, w)' \subseteq LetThrough(c, w) \union {r}
  BY <1>2, <1>3 DEF LetThrough
<1>5. r \in LetThrough(c, w)' =>
         OwnKey(r, c, w) /\ at'[r] = w /\ (what = "served" \/ p = "expire")
  BY <1>1, <1>3 DEF OwnKey
<1> QED
  BY <1>4, <1>5

LEMMA CountingKeepsInv ==
    ASSUME Inv, NEW r \in Requests, NEW n \in 0 .. 2, NEW p, NEW what,
           Works(r, p, what), WorksOnKey(r, p), Counts(r, n, p, what)
    PROVE  Inv'
<1>1. Control /\ Control' /\ LimitsAreKept /\ CountersAreOwn
  BY WorkKeepsControl DEF Inv
<1>2. now' = now /\ at'[r] = now
  BY DEF Works, Counts, Adds
<1>3. ASSUME NEW c \in Clients, NEW w \in Windows
      PROVE  LimitIsKept(c, w)'
  <2>1. /\ count[c][w] \in Nat /\ count'[c][w] \in Nat
        /\ count[c][w] <= count'[c][w]
        /\ OwnKey(r, c, w) => count'[c][w] = Counted(r, n) /\ count'[c][w] = count[c][w] + n
    <3>1. count[c][w] \in Nat /\ count'[c][w] \in Nat
      BY <1>1 DEF Control, TypeOK
    <3> QED
      BY <3>1 DEF Counts, Adds, OwnKey, Counted
  <2>2. LimitIsKept(c, w)
    BY <1>1 DEF LimitsAreKept
  <2>3. LetThrough(c, w)' \subseteq LetThrough(c, w) \union {r}
    BY WorkLetsThrough
  <2>4. CASE r \in LetThrough(c, w)'
    <3>1. OwnKey(r, c, w) /\ w = now /\ (what = "served" \/ p = "expire")
      BY <1>2, <2>4, WorkLetsThrough
    <3>2. n >= 1 /\ Counted(r, n) <= Limit
      BY <3>1, LimitIsPositive DEF Counts
    <3>3. now <= w
      BY <3>1 DEF Windows
    <3>4. count[c][w] + 1 <= count'[c][w] /\ count'[c][w] <= Limit
      BY <2>1, <3>1, <3>2
    <3> QED
      BY <2>1, <2>2, <2>3, <3>3, <3>4, LimitGrows
  <2>5. CASE r \notin LetThrough(c, w)'
    <3>1. LetThrough(c, w)' \subseteq LetThrough(c, w)
      BY <2>3, <2>5
    <3> QED
      BY <1>2, <2>1, <2>2, <3>1, LimitStays
  <2> QED
    BY <2>4, <2>5
<1>4. ASSUME NEW c \in Clients, NEW w \in Windows
      PROVE  CounterIsOwn(c, w)'
  <2>1. CounterIsOwn(c, w)
    BY <1>1 DEF CountersAreOwn
  <2>2. CASE OwnKey(r, c, w)
    BY <1>1, <2>1, <2>2, OwnGrows
  <2>3. CASE ~OwnKey(r, c, w)
    <3>1. \A k \in {1, 2} : Spending(c, w, k)' = Spending(c, w, k)
      BY <1>1, <2>3, SpendingGrows
    <3>2. count[c][w] \in Nat /\ count'[c][w] = count[c][w]
      <4>1. count[c][w] \in Nat
        BY <1>1 DEF Control, TypeOK
      <4>2. count'[c][w] = count[c][w]
        BY <2>3 DEF WorksOnKey
      <4> QED
        BY <4>1, <4>2
    <3>3. \A s \in Requests : outcome'[s] = "refused" /\ client'[s] = c /\ win'[s] = w
             => outcome[s] = "refused" /\ client[s] = c /\ win[s] = w
      BY <2>3 DEF Works, Moves, OwnKey
    <3> QED
      BY <2>1, <3>1, <3>2, <3>3, OwnStays
  <2> QED
    BY <2>2, <2>3
<1> QED
  BY <1>1, <1>3, <1>4 DEF Inv, LimitsAreKept, CountersAreOwn

LEMMA SparingKeepsInv ==
    ASSUME Inv, NEW r \in Requests, NEW what \in {"served", "dropped"},
           Works(r, "done", what), WorksOnKey(r, "done"), Spares,
           what = "served" => pc[r] = "expire"
    PROVE  Inv'
<1>1. Control /\ Control' /\ LimitsAreKept /\ CountersAreOwn
  BY WorkKeepsControl DEF Inv
<1>2. UNCHANGED <<now, client, win, count, at, spent>>
  BY DEF Works, Spares
<1>3. ASSUME NEW c \in Clients, NEW w \in Windows
      PROVE  LimitIsKept(c, w)'
  <2>1. count[c][w] \in Nat /\ count'[c][w] = count[c][w] /\ now' = now
    BY <1>1, <1>2 DEF Control, TypeOK
  <2>2. LimitIsKept(c, w)
    BY <1>1 DEF LimitsAreKept
  <2>3. r \in LetThrough(c, w)' => r \in LetThrough(c, w)
    <3>1. r \in LetThrough(c, w)' => OwnKey(r, c, w) /\ at[r] = w /\ what = "served"
      BY <1>2, WorkLetsThrough
    <3> QED
      BY <3>1 DEF LetThrough, OwnKey
  <2>4. LetThrough(c, w)' \subseteq LetThrough(c, w)
    BY <2>3, WorkLetsThrough
  <2> QED
    BY <2>1, <2>2, <2>4, LimitStays
<1>4. ASSUME NEW c \in Clients, NEW w \in Windows
      PROVE  CounterIsOwn(c, w)'
  <2>1. CounterIsOwn(c, w)
    BY <1>1 DEF CountersAreOwn
  <2>2. \A k \in {1, 2} : Spending(c, w, k)' = Spending(c, w, k)
    BY <1>2 DEF Spending
  <2>3. count[c][w] \in Nat /\ count'[c][w] = count[c][w]
    BY <1>1, <1>2 DEF Control, TypeOK
  <2>4. \A s \in Requests : outcome'[s] = "refused" => outcome[s] = "refused"
    BY DEF Works, Moves
  <2>5. \A s \in Requests : outcome'[s] = "refused" /\ client'[s] = c /\ win'[s] = w
             => outcome[s] = "refused" /\ client[s] = c /\ win[s] = w
    BY <1>2, <2>4
  <2> QED
    BY <2>1, <2>2, <2>3, <2>5, OwnStays
<1> QED
  BY <1>1, <1>3, <1>4 DEF Inv, LimitsAreKept, CountersAreOwn

(* Neither an arrival nor Redis nor the clocks let a request through or spend  *)
(* anything, and they count nothing but down.                                  *)
LEMMA QuietStepKeepsInv ==
    ASSUME Inv, Control',
           \A c \in Clients, w \in Windows : LetThrough(c, w)' \subseteq LetThrough(c, w),
           \A c \in Clients, w \in Windows : \A k \in {1, 2} :
              Spending(c, w, k)' = Spending(c, w, k),
           \A c \in Clients, w \in Windows : count'[c][w] <= count[c][w],
           \A c \in Clients, w \in Windows :
              now' <= w => now <= w /\ count[c][w] <= count'[c][w],
           \A s \in Requests : outcome'[s] = "refused" =>
              outcome[s] = "refused" /\ client'[s] = client[s] /\ win'[s] = win[s]
    PROVE  Inv'
<1>1. ASSUME NEW c \in Clients, NEW w \in Windows
      PROVE  LimitIsKept(c, w)' /\ CounterIsOwn(c, w)'
  <2>1. LimitIsKept(c, w) /\ CounterIsOwn(c, w)
    BY DEF Inv, LimitsAreKept, CountersAreOwn
  <2>2. count[c][w] \in Nat /\ count'[c][w] \in Nat
    BY DEF Inv, Control, TypeOK
  <2>3. LimitIsKept(c, w)'
    BY <2>1, <2>2, LimitStays
  <2>4. CounterIsOwn(c, w)'
    BY <2>1, <2>2, OwnStays
  <2> QED
    BY <2>3, <2>4
<1> QED
  BY <1>1 DEF Inv, LimitsAreKept, CountersAreOwn

-------------------------------------------------------------------------------
(* The invariant holds at first and after every step.                          *)

LEMMA InitInv == Init => Inv
<1> SUFFICES ASSUME Init PROVE Inv
  OBVIOUS
<1>1. /\ \A c \in Clients, w \in Windows : count[c][w] = 0 /\ expiry[c][w] = "never"
      /\ \A r \in Requests : pc[r] = "idle" /\ outcome[r] = "none" /\ spent[r] = 0
  BY DEF Init
<1>2. TypeOK
  <2>1. now \in 0 .. LastWindow + 1 /\ 0 \in Windows /\ -1 \in -1 .. LastWindow + 1
    BY LastWindowIsNatural DEF Init, Windows
  <2>2. /\ count \in [Clients -> [Windows -> Nat]]
        /\ expiry \in [Clients -> [Windows -> Expiries]]
        /\ unexpiring \in [Clients -> [Windows -> BOOLEAN]]
    BY DEF Init, Expiries
  <2>3. /\ pc \in [Requests -> {"idle", "incr", "expire", "done"}]
        /\ client \in [Requests -> Clients \union {NoClient}]
        /\ win \in [Requests -> Windows]
        /\ outcome \in [Requests -> Outcomes]
        /\ at \in [Requests -> -1 .. LastWindow + 1]
        /\ spent \in [Requests -> 0 .. 2]
    BY <2>1 DEF Init, Outcomes
  <2> QED
    BY <1>1, <2>1, <2>2, <2>3 DEF TypeOK
<1>3. RequestsAreSound /\ OneSetter /\ KeysOutliveTheirWindow /\ CountersExpire
  <2>1. RequestsAreSound /\ OneSetter
    BY <1>1 DEF RequestsAreSound, RequestIsSound, OneSetter
  <2>2. KeysOutliveTheirWindow
    BY <1>1 DEF KeysOutliveTheirWindow
  <2>3. \A c \in Clients, w \in Windows : ~(count[c][w] > 0)
    BY <1>1
  <2>4. CountersExpire
    BY <2>3 DEF CountersExpire
  <2> QED
    BY <2>1, <2>2, <2>4
<1>4. ASSUME NEW c \in Clients, NEW w \in Windows
      PROVE  LimitIsKept(c, w) /\ CounterIsOwn(c, w)
  <2>1. /\ LetThrough(c, w) = {} /\ Spending(c, w, 1) = {} /\ Spending(c, w, 2) = {}
    BY <1>1 DEF LetThrough, Spending
  <2>2. LimitIsKept(c, w)
    BY <1>1, <2>1, FS_EmptySet, LimitIsPositive DEF LimitIsKept
  <2>3. Spent(c, w) = 0
    BY <2>1, FS_EmptySet DEF Spent
  <2>4. \A n \in {1, 2} : IsFiniteSet(Spending(c, w, n))
    BY <2>1, FS_EmptySet
  <2>5. count[c][w] <= Spent(c, w)
    BY <1>1, <2>3
  <2>6. CounterIsOwn(c, w)
    BY <1>1, <2>4, <2>5 DEF CounterIsOwn
  <2> QED
    BY <2>2, <2>6
<1> QED
  BY <1>2, <1>3, <1>4 DEF Inv, Control, LimitsAreKept, CountersAreOwn

LEMMA WorkKeepsInv ==
    ASSUME Inv, NEW r \in Requests, Work(r)
    PROVE  Inv'
<1>1. Control
  BY DEF Inv
<1>2. CASE Count(r)
  <2>1. PICK n \in {1, 2} : \E p, what :
          Works(r, p, what) /\ WorksOnKey(r, p) /\ Counts(r, n, p, what)
    BY <1>1, <1>2, CountWorks
  <2> QED
    BY <2>1, CountingKeepsInv
<1>3. CASE CountFails(r)
  <2>1. PICK n \in {0, 1} :
          /\ Works(r, "done", "open") /\ WorksOnKey(r, "done")
          /\ Counts(r, n, "done", "open")
    BY <1>1, <1>3, CountFailsWorks
  <2> QED
    BY <2>1, CountingKeepsInv
<1>4. CASE SetExpiry(r)
  <2>1. pc[r] = "expire"
    BY <1>4 DEF SetExpiry
  <2> QED
    BY <1>1, <1>4, <2>1, SetExpiryWorks, SparingKeepsInv
<1>5. CASE Die(r)
  BY <1>1, <1>5, DieWorks, SparingKeepsInv
<1> QED
  BY <1>2, <1>3, <1>4, <1>5 DEF Work

LEMMA ArriveKeepsInv ==
    ASSUME Inv, NEW r \in Requests, NEW d \in Clients, Arrive(r, d)
    PROVE  Inv'
<1>1. Control /\ Control'
  BY ArriveKeepsControl DEF Inv
<1>2. /\ pc[r] = "idle" /\ spent[r] = 0 /\ outcome[r] = "none"
  BY <1>1 DEF Arrive, Control, RequestsAreSound, RequestIsSound, TypeOK
<1>3. /\ pc'[r] = "incr" /\ UNCHANGED <<now, count, outcome, at, spent>>
      /\ \A s \in Requests : s # r =>
            pc'[s] = pc[s] /\ client'[s] = client[s] /\ win'[s] = win[s]
  BY <1>1 DEF Arrive, Control, TypeOK
<1>4. ASSUME NEW c \in Clients, NEW w \in Windows
      PROVE  /\ LetThrough(c, w)' \subseteq LetThrough(c, w)
             /\ \A k \in {1, 2} : Spending(c, w, k)' = Spending(c, w, k)
             /\ count'[c][w] <= count[c][w]
             /\ now' <= w => now <= w /\ count[c][w] <= count'[c][w]
  <2>1. LetThrough(c, w)' \subseteq LetThrough(c, w)
    BY <1>2, <1>3 DEF LetThrough
  <2>2. ASSUME NEW k \in {1, 2}
        PROVE  Spending(c, w, k)' = Spending(c, w, k)
    <3>1. ~(spent[r] >= k)
      BY <1>2
    <3>2. ASSUME NEW s \in Requests
          PROVE  s \in Spending(c, w, k)' <=> s \in Spending(c, w, k)
      <4>1. spent' = spent
        BY <1>3
      <4>2. CASE s = r
        BY <3>1, <4>1, <4>2 DEF Spending
      <4>3. CASE s # r
        BY <1>3, <4>1, <4>3 DEF Spending
      <4> QED
        BY <4>2, <4>3
    <3> QED
      BY <3>2 DEF Spending
  <2>3. count[c][w] \in Nat /\ count' = count /\ now' = now
    BY <1>1, <1>3 DEF Control, TypeOK
  <2> QED
    BY <2>1, <2>2, <2>3
<1>5. \A s \in Requests : outcome'[s] = "refused" =>
         outcome[s] = "refused" /\ client'[s] = client[s] /\ win'[s] = win[s]
  BY <1>2, <1>3
<1> QED
  BY <1>1, <1>4, <1>5, QuietStepKeepsInv

(* Redis and the clocks touch no request.                                      *)
LEMMA OutsideStepKeepsInv ==
    ASSUME Inv, Control', UNCHANGED <<pc, client, win, outcome, at, spent>>,
           \A c \in Clients, w \in Windows : count'[c][w] <= count[c][w],
           \A c \in Clients, w \in Windows :
              now' <= w => now <= w /\ count[c][w] <= count'[c][w]
    PROVE  Inv'
<1>1. ASSUME NEW c \in Clients, NEW w \in Windows
      PROVE  /\ LetThrough(c, w)' \subseteq LetThrough(c, w)
             /\ \A k \in {1, 2} : Spending(c, w, k)' = Spending(c, w, k)
  BY DEF LetThrough, Spending
<1> QED
  BY <1>1, QuietStepKeepsInv

LEMMA EvictKeepsInv ==
    ASSUME Inv, NEW d \in Clients, NEW x \in Windows, Evict(d, x)
    PROVE  Inv'
<1>1. Control /\ Control'
  BY EvictKeepsControl DEF Inv
<1>2. /\ expiry[d][x] = "this_window"
      /\ UNCHANGED <<now, pc, client, win, outcome, at, spent>>
  BY DEF Evict
<1>3. x < now /\ x \in Int /\ now \in Int
  <2>1. x < now
    BY <1>1, <1>2 DEF Control, KeysOutliveTheirWindow
  <2>2. x \in Int /\ now \in Int
    BY <1>1 DEF Control, TypeOK, Windows
  <2> QED
    BY <2>1, <2>2
<1>4. ASSUME NEW c \in Clients, NEW w \in Windows
      PROVE  /\ count'[c][w] <= count[c][w]
             /\ now' <= w => now <= w /\ count[c][w] <= count'[c][w]
  <2>1. count[c][w] \in Nat
    BY <1>1 DEF Control, TypeOK
  <2>2. count'[c][w] = IF c = d /\ w = x THEN 0 ELSE count[c][w]
    BY <1>1 DEF Evict, Control, TypeOK
  <2>3. now' = now
    BY <1>2
  <2> QED
    BY <1>3, <2>1, <2>2, <2>3
<1> QED
  BY <1>1, <1>2, <1>4, OutsideStepKeepsInv

LEMMA TickKeepsInv ==
    ASSUME Inv, Tick
    PROVE  Inv'
<1>1. Control /\ Control' /\ now <= now'
  BY TickKeepsControl DEF Inv
<1>2. UNCHANGED <<count, pc, client, win, outcome, at, spent>>
  BY DEF Tick
<1>3. ASSUME NEW c \in Clients, NEW w \in Windows
      PROVE  /\ count'[c][w] <= count[c][w]
             /\ now' <= w => now <= w /\ count[c][w] <= count'[c][w]
  <2>1. count[c][w] \in Nat /\ count'[c][w] = count[c][w]
    BY <1>1, <1>2 DEF Control, TypeOK
  <2>2. now \in Int /\ now' \in Int /\ w \in Int
    BY <1>1 DEF Control, TypeOK, Windows
  <2> QED
    BY <1>1, <2>1, <2>2
<1> QED
  BY <1>1, <1>2, <1>3, OutsideStepKeepsInv

LEMMA StutterKeepsInv ==
    ASSUME Inv, UNCHANGED vars
    PROVE  Inv'
<1> USE DEF vars
<1>1. TypeOK' /\ RequestsAreSound' /\ OneSetter' /\ KeysOutliveTheirWindow' /\ CountersExpire'
  <2>1. TypeOK'
    BY DEF Inv, Control, TypeOK
  <2>2. RequestsAreSound' /\ OneSetter'
    BY DEF Inv, Control, RequestsAreSound, RequestIsSound, OneSetter
  <2>3. KeysOutliveTheirWindow' /\ CountersExpire'
    BY DEF Inv, Control, KeysOutliveTheirWindow, CountersExpire
  <2> QED
    BY <2>1, <2>2, <2>3
<1>2. Control'
  BY <1>1 DEF Control
<1>3. LimitsAreKept'
  BY DEF Inv, LimitsAreKept, LimitIsKept, LetThrough
<1>4. CountersAreOwn'
  <2>1. ASSUME NEW c \in Clients, NEW w \in Windows
        PROVE  /\ CounterIsOwn(c, w)
               /\ \A k \in {1, 2} : Spending(c, w, k)' = Spending(c, w, k)
               /\ Spent(c, w)' = Spent(c, w)
    BY DEF Inv, CountersAreOwn, Spent, Spending
  <2> QED
    BY <2>1 DEF CountersAreOwn, CounterIsOwn
<1> QED
  BY <1>2, <1>3, <1>4 DEF Inv

LEMMA StepInv == Inv /\ [Next]_vars => Inv'
<1> SUFFICES ASSUME Inv, [Next]_vars PROVE Inv'
  OBVIOUS
<1>1. ASSUME NEW r \in Requests, Work(r)
      PROVE  Inv'
  BY <1>1, WorkKeepsInv
<1>2. ASSUME NEW r \in Requests, NEW c \in Clients, Arrive(r, c)
      PROVE  Inv'
  BY <1>2, ArriveKeepsInv
<1>3. ASSUME NEW c \in Clients, NEW w \in Windows, Evict(c, w)
      PROVE  Inv'
  BY <1>3, EvictKeepsInv
<1>4. CASE Tick
  BY <1>4, TickKeepsInv
<1>5. CASE UNCHANGED vars
  BY <1>5, StutterKeepsInv
<1> QED
  BY <1>1, <1>2, <1>3, <1>4, <1>5 DEF Next

LEMMA InvHolds == Spec => []Inv
BY InitInv, StepInv, PTL DEF Spec

-------------------------------------------------------------------------------

(* The counters, the requests and their history have their types; a request    *)
(* about to set an expiry finds its counter above 0, and a key with an expiry  *)
(* has a counter and is of no window still to come.                            *)
THEOREM Typing == Spec => []TypeOK
<1>1. Inv => TypeOK
  BY DEF Inv, Control
<1> QED
  BY <1>1, InvHolds, PTL

(* rateLimit lets no more than Limit requests of a client through in a window, *)
(* of those counted in it, however many there are and however they overlap.    *)
THEOREM LimitHolds == Spec => []WindowLimit
<1>1. Inv => WindowLimit
  BY DEF Inv, LimitsAreKept, LimitIsKept, WindowLimit
<1> QED
  BY <1>1, InvHolds, PTL

(* rateLimit refuses a client only when her own requests of the window have    *)
(* added more than Limit to its counter.                                       *)
THEOREM RefusedForOwn == Spec => []OwnRequestsOnly
<1>1. Inv => OwnRequestsOnly
  <2> SUFFICES ASSUME Inv, NEW r \in Requests, outcome[r] = "refused"
               PROVE  Limit < Spent(client[r], win[r])
    BY DEF OwnRequestsOnly
  <2>1. pc[r] # "idle"
    BY DEF Inv, Control, TypeOK
  <2>2. client[r] \in Clients /\ win[r] \in Windows
    BY <2>1 DEF Inv, Control, TypeOK, RequestsAreSound, RequestIsSound
  <2> QED
    BY <2>2 DEF Inv, CountersAreOwn, CounterIsOwn
<1> QED
  BY <1>1, InvHolds, PTL

(* Every counter in Redis has its expiry or is about to get it from the one    *)
(* request that may set it, unless that EXPIRE was lost.                       *)
THEOREM NoCounterStays == Spec => []CountersExpire
<1>1. Inv => CountersExpire
  BY DEF Inv, Control
<1> QED
  BY <1>1, InvHolds, PTL

================================================================================
