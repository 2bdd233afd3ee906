------------------------------ MODULE MCAccounts ------------------------------
(* Ann, whose address has two spellings, and bob.  Request r1 registers, r2     *)
(* registers the other spelling or logs in with it, and r3 uses what r2 was     *)
(* given or nothing good, logs in with the password of the other registration,  *)
(* or asks for no route: two registrations race, a login meets a registration   *)
(* that was not confirmed, and a token is used before, at and after its expiry, *)
(* which falls into the middle of a second.                                     *)
EXTENDS Accounts, TLC

CONSTANTS ann, Ann, bob, p, q, r1, r2, r3

MCRequests == {r1, r2, r3}
MCEmails == {ann, Ann, bob}
MCFold == ann :> ann @@ Ann :> ann @@ bob :> bob
MCPasswords == {p, q}

Creds(op, e, s) == [op |-> op, email |-> e, secret |-> s]
Use(t) == [op |-> "use", token |-> t]

MCJobs ==
    r1 :> {Creds("register", ann, p), Creds("register", bob, Short)}
 @@ r2 :> {Creds("register", Ann, q), Creds("login", Ann, p)}
 @@ r3 :> {Use(r2), Use(Junk), Creds("login", ann, q), [op |-> "unmatched"]}

===============================================================================
