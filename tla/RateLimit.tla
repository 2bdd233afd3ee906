------------------------------- MODULE RateLimit -------------------------------
(* The fixed-window limiter in front of every API route                        *)
(* (internal/platform/middleware/ratelimit.go).  Any number of requests, on    *)
(* any number of instances, share the counters in Redis; the instances' clocks *)
(* agree on the window.  A request reads the clock, then increments, then sets *)
(* the expiry, and time may pass in between.                                   *)
EXTENDS Integers, FiniteSets

CONSTANTS
    Clients,    \* user ids or IP addresses, whichever keys the limiter
    Requests,   \* the requests of a behaviour, each handled once
    Limit,
    LastWindow, \* bound: requests arrive in the windows 0 .. LastWindow
    NoClient    \* the client of a request that has not arrived

ASSUME LimitIsPositive == Limit \in Nat \ {0}
ASSUME LastWindowIsNatural == LastWindow \in Nat
ASSUME NoClientIsNone == NoClient \notin Clients

VARIABLES
    now,        \* the window the clocks are in; LastWindow + 1 is all that follows
    count,      \* count[c][w]: the counter of client c and window w, 0 for no key
    expiry,     \* expiry[c][w]: when Redis drops the key, see Expiries
    pc,         \* pc[r]: the Redis command request r sends next
    client,     \* client[r]: who sends it
    win,        \* win[r]: the window it was given
    outcome,    \* outcome[r]: what became of it, see Outcomes
    (* History variables; no step reads them. *)
    at,         \* at[r]: the window in which its INCR was executed
    spent,      \* spent[r]: how much it added to the counter
    unexpiring  \* unexpiring[c][w]: the EXPIRE of the key was lost

vars == <<now, count, expiry, pc, client, win, outcome, at, spent, unexpiring>>

Windows == 0 .. LastWindow

(* A key with an expiry goes some time in the window after its EXPIRE.         *)
Expiries == {"never", "next_window", "this_window"}

(* open: let through because Redis failed; dropped: the process died           *)
Outcomes == {"none", "served", "open", "refused", "dropped"}

TypeOK ==
    /\ now \in 0 .. LastWindow + 1
    /\ count \in [Clients -> [Windows -> Nat]]
    /\ expiry \in [Clients -> [Windows -> Expiries]]
    /\ pc \in [Requests -> {"idle", "incr", "expire", "done"}]
    /\ client \in [Requests -> Clients \union {NoClient}]
    /\ win \in [Requests -> Windows]
    /\ outcome \in [Requests -> Outcomes]
    /\ at \in [Requests -> -1 .. LastWindow + 1]
    /\ spent \in [Requests -> 0 .. 2]
    /\ unexpiring \in [Clients -> [Windows -> BOOLEAN]]
    /\ \A r \in Requests :
          /\ pc[r] = "done" <=> outcome[r] # "none"
          /\ pc[r] = "expire" => count[client[r]][win[r]] > 0
    /\ \A c \in Clients, w \in Windows :
          expiry[c][w] # "never" => count[c][w] > 0 /\ w <= now

Init ==
    /\ now = 0
    /\ count = [c \in Clients |-> [w \in Windows |-> 0]]
    /\ expiry = [c \in Clients |-> [w \in Windows |-> "never"]]
    /\ pc = [r \in Requests |-> "idle"]
    /\ client = [r \in Requests |-> NoClient]
    /\ win = [r \in Requests |-> 0]
    /\ outcome = [r \in Requests |-> "none"]
    /\ at = [r \in Requests |-> -1]
    /\ spent = [r \in Requests |-> 0]
    /\ unexpiring = [c \in Clients |-> [w \in Windows |-> FALSE]]

-------------------------------------------------------------------------------

(* The window part of the key, 76-77 *)
KeyWindowLoose(w) == 0

KeyWindow(w) == w

(* 98: `int(count) > limit` *)
ExceedsLoose(n) == n > Limit + 1

Exceeds(n) == n > Limit

(* 87: `count == 1` *)
IsFirstLoose(n) == n = 0

IsFirst(n) == n = 1

Finish(r, what) ==
    /\ pc' = [pc EXCEPT ![r] = "done"]
    /\ outcome' = [outcome EXCEPT ![r] = what]

Increment(r, n) ==
    /\ count' = [count EXCEPT ![client[r]][KeyWindow(win[r])] = @ + n]
    /\ spent' = [spent EXCEPT ![r] = n]
    /\ at' = [at EXCEPT ![r] = now]

LoseExpiry(r) == unexpiring' = [unexpiring EXCEPT ![client[r]][win[r]] = TRUE]

(* keyFor and windowID, 70-77 *)
Arrive(r, c) ==
    /\ pc[r] = "idle"
    /\ now \in Windows
    /\ client' = [client EXCEPT ![r] = c]
    /\ win' = [win EXCEPT ![r] = now]
    /\ pc' = [pc EXCEPT ![r] = "incr"]
    /\ UNCHANGED <<now, count, expiry, outcome, at, spent, unexpiring>>

(* 79, 91-104: INCR.  The Redis client sends a command again whose reply was   *)
(* lost, so that one request may count twice; and then nobody sees a 1.        *)
Count(r) ==
    \E n \in {1, 2} :
        LET counted == count[client[r]][KeyWindow(win[r])] + n
        IN  /\ pc[r] = "incr"
            /\ Increment(r, n)
            /\ IF IsFirst(counted)
                 THEN pc' = [pc EXCEPT ![r] = "expire"] /\ UNCHANGED <<outcome, unexpiring>>
                 ELSE /\ Finish(r, IF Exceeds(counted) THEN "refused" ELSE "served")
                      /\ IF counted = 2 /\ n = 2 THEN LoseExpiry(r) ELSE UNCHANGED unexpiring
            /\ UNCHANGED <<now, expiry, client, win>>

(* 80-86: INCR returns an error, having been applied or not; the request is    *)
(* let through.                                                                *)
CountFails(r) ==
    /\ pc[r] = "incr"
    /\ \E n \in {0, 1} :
          /\ Increment(r, n)
          /\ IF n = 1 /\ count[client[r]][win[r]] = 0 THEN LoseExpiry(r) ELSE UNCHANGED unexpiring
    /\ Finish(r, "open")
    /\ UNCHANGED <<now, expiry, client, win>>

(* 87-89: EXPIRE, whose error nobody looks at *)
SetExpiry(r) ==
    /\ pc[r] = "expire"
    /\ \/ /\ expiry' = [expiry EXCEPT ![client[r]][KeyWindow(win[r])] = "next_window"]
          /\ UNCHANGED unexpiring
       \/ LoseExpiry(r) /\ UNCHANGED expiry
    /\ Finish(r, IF Exceeds(1) THEN "refused" ELSE "served")
    /\ UNCHANGED <<now, count, client, win, at, spent>>

(* The process dies before the request is decided. *)
Die(r) ==
    /\ pc[r] \in {"incr", "expire"}
    /\ Finish(r, "dropped")
    /\ IF pc[r] = "expire" THEN LoseExpiry(r) ELSE UNCHANGED unexpiring
    /\ UNCHANGED <<now, count, expiry, client, win, at, spent>>

(* Redis drops a key whose time has come, and no clock outruns it. *)
Evict(c, w) ==
    /\ expiry[c][w] = "this_window"
    /\ count' = [count EXCEPT ![c][w] = 0]
    /\ expiry' = [expiry EXCEPT ![c][w] = "never"]
    /\ UNCHANGED <<now, pc, client, win, outcome, at, spent, unexpiring>>

Tick ==
    /\ \A c \in Clients, w \in Windows : expiry[c][w] # "this_window"
    /\ now' = IF now \in Windows THEN now + 1 ELSE now
    /\ expiry' = [c \in Clients |-> [w \in Windows |->
                    IF expiry[c][w] = "next_window" THEN "this_window" ELSE expiry[c][w]]]
    /\ UNCHANGED <<count, pc, client, win, outcome, at, spent, unexpiring>>

Work(r) == Count(r) \/ CountFails(r) \/ SetExpiry(r) \/ Die(r)

Next ==
    \/ \E r \in Requests : Work(r) \/ \E c \in Clients : Arrive(r, c)
    \/ \E c \in Clients, w \in Windows : Evict(c, w)
    \/ Tick

Spec == Init /\ [][Next]_vars

-------------------------------------------------------------------------------
(* Properties *)

LetThrough(c, w) ==
    {r \in Requests : /\ client[r] = c /\ win[r] = w /\ at[r] = w
                      /\ outcome[r] = "served" \/ pc[r] = "expire"}

(* However the requests of a client overlap, of those counted in the window    *)
(* they arrived in no more than Limit are let through, apart from the ones a   *)
(* Redis failure lets through (rateLimit, ratelimit.go:76-104).                *)
WindowLimit ==
    \A c \in Clients, w \in Windows :
        Cardinality(LetThrough(c, w)) <= Limit

(* What the requests of client c in window w have added up to; each of them    *)
(* adds 1 or 2, or nothing.                                                    *)
Spending(c, w, n) == {r \in Requests : client[r] = c /\ win[r] = w /\ spent[r] >= n}

Spent(c, w) == Cardinality(Spending(c, w, 1)) + Cardinality(Spending(c, w, 2))

(* A client is refused only for her own requests of the same window: together  *)
(* they have added more than Limit to the counter.  Neither another client nor *)
(* an earlier window can use up her limit ("a different user must have an      *)
(* independent limit", ratelimit_test.go:54).                                  *)
OwnRequestsOnly ==
    \A r \in Requests : outcome[r] = "refused" => Limit < Spent(client[r], win[r])

(* No counter stays in Redis for ever: each has its expiry, or the request     *)
(* that created it is about to set it, unless that EXPIRE was lost, for which  *)
(* no later request makes up (ratelimit.go:87-89).                             *)
CountersExpire ==
    \A c \in Clients, w \in Windows : count[c][w] > 0 =>
        \/ expiry[c][w] # "never"
        \/ \E r \in Requests : pc[r] = "expire" /\ client[r] = c /\ win[r] = w
        \/ unexpiring[c][w]

===============================================================================
