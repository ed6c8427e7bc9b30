------------------------------- MODULE SignIn -------------------------------
(***************************************************************************)
(* How a browser comes by a session: registering, signing in with a        *)
(* password behind the per-address limiter (api.go, ratelimit.go), or with *)
(* Google (oauth.go), and signing out.  The database runs one statement at *)
(* a time (SetMaxOpenConns(1)), so a handler is a sequence of statements   *)
(* that others interleave with.                                            *)
(*                                                                         *)
(* An account is named by its email, which is unique; a session by the     *)
(* request that opened it.  The requests come from one address.            *)
(***************************************************************************)
EXTENDS Naturals, FiniteSets

CONSTANTS
  Reqs,       \* requests to the server
  Op,         \* Op[r]: [kind, ...], what r asks for
  Batches,    \* sets of requests that may be made in one behaviour
  Emails,     \* accounts, registered or not
  Subjects,   \* Google subjects
  Registered, \* emails with a password account at the start
  Sessions,   \* Reqs, and sessions that were open at the start
  Opened,     \* Opened[s]: the account of a session that was open at the start
  MaxFails,   \* loginLimiter.maxFails
  None

ASSUME ReqsAssumption ==
  /\ IsFiniteSet(Reqs)
  /\ Reqs \subseteq Sessions /\ Batches \subseteq SUBSET Reqs
  /\ DOMAIN Op = Reqs
  /\ \A r \in Reqs : /\ Op[r].kind \in {"register", "login", "google"} => Op[r].email \in Emails
                     /\ Op[r].kind = "google" => Op[r].sub \in Subjects
  /\ Registered \subseteq Emails
  /\ DOMAIN Opened \subseteq Sessions \ Reqs /\ \A s \in DOMAIN Opened : Opened[s] \in Registered
ASSUME MaxFailsAssumption == MaxFails \in Nat \ {0}
ASSUME NoneAssumption == None \notin Emails

VARIABLES
  pc,        \* pc[r]: how far the handler of r is; "away" if never made
  who,       \* who[r]: the account r was authenticated as, or signs in to
  accounts,  \* rows of accounts: with a password or, made by Google, without
  link,      \* account_identities: link[sub]
  session,   \* sessions that have not expired: session[s] is an account
  fails, locked, \* the address's failCounter
  \* history, no program reads it
  burst,     \* wrong passwords since the counter was last cleared
  racing,    \* logins past the limiter when it last locked
  contended  \* subjects that signed in under two emails at once

limiterVars == <<fails, locked, burst, racing>>
signVars    == <<accounts, link, session, limiterVars, contended>>

At(r, kind, where) == Op[r].kind = kind /\ pc[r] = where
Goto(r, where)     == pc' = [pc EXCEPT ![r] = where]
Become(r, a)       == who' = [who EXCEPT ![r] = a]
Busy(r)            == pc[r] \notin {"away", "new", "done"}
Open               == {r \in Reqs : pc[r] \notin {"away", "done", "sent"}}
\* What no request of the batch presents or names is left out.
Asked(field, v)    == \E r \in Open : field \in DOMAIN Op[r] /\ Op[r][field] = v

SignInInit ==
  /\ \E b \in Batches : pc = [r \in Reqs |-> IF r \in b THEN "new" ELSE "away"]
  /\ who = [r \in Reqs |-> None]
  /\ accounts = Registered
  /\ link = [s \in Subjects |-> None]
  /\ session = [s \in Sessions |-> IF s \in DOMAIN Opened /\ Asked("by", s) THEN Opened[s] ELSE None]
  /\ fails = 0 /\ locked = FALSE /\ burst = 0 /\ racing = 0
  /\ contended = {}

-----------------------------------------------------------------------------
\* startSession; its statement may fail.
StartSession(r) ==
  /\ pc[r] = "signedIn"
  /\ Goto(r, "done")
  /\ \/ session' = [session EXCEPT ![r] = who[r]]
     \/ UNCHANGED session
  /\ UNCHANGED <<who, accounts, link, limiterVars, contended>>

\* CreateAccount; a duplicate email ends the request.
Register(r) ==
  /\ At(r, "register", "new")
  /\ IF Op[r].email \in accounts
     THEN Goto(r, "done") /\ UNCHANGED <<accounts, who>>
     ELSE Goto(r, "signedIn") /\ accounts' = accounts \cup {Op[r].email} /\ Become(r, Op[r].email)
  /\ UNCHANGED <<link, session, limiterVars, contended>>

Logout(r) ==
  /\ At(r, "logout", "new")
  /\ session' = [session EXCEPT ![Op[r].by] = None]
  /\ Goto(r, "done")
  /\ UNCHANGED <<who, accounts, link, limiterVars, contended>>

SessionExpires(s) ==
  /\ session[s] # None
  /\ session' = [session EXCEPT ![s] = None]
  /\ UNCHANGED <<pc, who, accounts, link, limiterVars, contended>>

-----------------------------------------------------------------------------
(***************************************************************************)
(* login: the limiter is asked, the password compared (slowly), and the    *)
(* outcome reported to the limiter.                                        *)
(***************************************************************************)
Allowed(r) ==
  /\ At(r, "login", "new")
  /\ Goto(r, IF locked THEN "done" ELSE "allowed")
  /\ UNCHANGED <<who, signVars>>

CheckPassword(r) ==
  /\ At(r, "login", "allowed")
  /\ IF Op[r].email \in accounts /\ Op[r].right
     THEN Goto(r, "right") /\ Become(r, Op[r].email)
     ELSE Goto(r, "wrong") /\ UNCHANGED who
  /\ UNCHANGED signVars

\* Mutant: locks on the failure after the last one allowed.
BugRecordFail(r) ==
  /\ At(r, "login", "wrong")
  /\ Goto(r, "done")
  /\ burst' = burst + 1
  /\ IF fails + 1 > MaxFails
     THEN /\ locked' = TRUE /\ fails' = 0
          /\ racing' = Cardinality({l \in Reqs : Op[l].kind = "login" /\ Busy(l)} \ {r})
     ELSE fails' = fails + 1 /\ UNCHANGED <<locked, racing>>
  /\ UNCHANGED <<who, accounts, link, session, contended>>

\* The counter starts again when it locks.
RecordFail(r) ==
  /\ At(r, "login", "wrong")
  /\ Goto(r, "done")
  /\ burst' = burst + 1
  /\ IF fails + 1 >= MaxFails
     THEN /\ locked' = TRUE /\ fails' = 0
          /\ racing' = IF locked THEN racing
                       ELSE Cardinality({l \in Reqs : Op[l].kind = "login" /\ Busy(l)} \ {r})
     ELSE fails' = fails + 1 /\ UNCHANGED <<locked, racing>>
  /\ UNCHANGED <<who, accounts, link, session, contended>>

Clear == fails' = 0 /\ locked' = FALSE /\ burst' = 0 /\ racing' = 0

\* A success forgets the address, a lock set meanwhile included.
Reset(r) ==
  /\ At(r, "login", "right")
  /\ Goto(r, "signedIn")
  /\ Clear
  /\ UNCHANGED <<who, accounts, link, session, contended>>

\* lockedUntil passes, or the window of the failures counted so far.
TimePasses ==
  /\ locked \/ fails > 0
  /\ Clear
  /\ UNCHANGED <<pc, who, accounts, link, session, contended>>

-----------------------------------------------------------------------------
(***************************************************************************)
(* LinkGoogleAccount: by subject, by email, or a new account.              *)
(***************************************************************************)
Rivals(r) == {q \in Reqs \ {r} : Op[q].kind = "google" /\ Busy(q) /\ Op[q].sub = Op[r].sub
                                 /\ Op[q].email # Op[r].email}

\* Mutant: the subject is not looked up first.
BugBySubject(r) ==
  /\ At(r, "google", "new")
  /\ Goto(r, "byEmail") /\ UNCHANGED who
  /\ contended' = IF Rivals(r) # {} THEN contended \cup {Op[r].sub} ELSE contended
  /\ UNCHANGED <<accounts, link, session, limiterVars>>

BySubject(r) ==
  /\ At(r, "google", "new")
  /\ IF link[Op[r].sub] # None
     THEN Goto(r, "signedIn") /\ Become(r, link[Op[r].sub])
     ELSE Goto(r, "byEmail") /\ UNCHANGED who
  /\ contended' = IF Rivals(r) # {} THEN contended \cup {Op[r].sub} ELSE contended
  /\ UNCHANGED <<accounts, link, session, limiterVars>>

ByEmail(r) ==
  /\ pc[r] = "byEmail"
  /\ IF Op[r].email \in accounts
     THEN Goto(r, "linking") /\ Become(r, Op[r].email)
     ELSE Goto(r, "creating") /\ UNCHANGED who
  /\ UNCHANGED signVars

\* INSERT OR IGNORE: a link that exists by now stays.
LinkAccount(r) ==
  /\ pc[r] = "linking"
  /\ link' = [link EXCEPT ![Op[r].sub] = IF @ = None THEN who[r] ELSE @]
  /\ Goto(r, "signedIn")
  /\ UNCHANGED <<who, accounts, session, limiterVars, contended>>

\* One transaction, undone if the email or the subject has been taken.
CreateLinked(r) ==
  /\ pc[r] = "creating"
  /\ IF Op[r].email \in accounts \/ link[Op[r].sub] # None
     THEN Goto(r, "done") /\ UNCHANGED <<accounts, link, who>>
     ELSE /\ accounts' = accounts \cup {Op[r].email}
          /\ link' = [link EXCEPT ![Op[r].sub] = Op[r].email]
          /\ Become(r, Op[r].email)
          /\ Goto(r, "signedIn")
  /\ UNCHANGED <<session, limiterVars, contended>>

SignInStep ==
  \/ \E r \in Open :
       \/ Register(r) \/ Logout(r) \/ StartSession(r)
       \/ Allowed(r) \/ CheckPassword(r) \/ RecordFail(r) \/ Reset(r)
       \/ BySubject(r) \/ ByEmail(r) \/ LinkAccount(r) \/ CreateLinked(r)
  \/ \E s \in Sessions : SessionExpires(s)
  \/ TimePasses

-----------------------------------------------------------------------------
SignInTypeOK ==
  /\ who \in [Reqs -> Emails \cup {None}]
  /\ accounts \subseteq Emails
  /\ link \in [Subjects -> accounts \cup {None}]
  /\ session \in [Sessions -> accounts \cup {None}]
  /\ fails \in 0..MaxFails /\ locked \in BOOLEAN
  /\ burst \in Nat /\ racing \in Nat /\ contended \subseteq Subjects

(***************************************************************************)
(* Guessing is capped: between two moments the address's counter is        *)
(* cleared, no more wrong passwords are compared than maxFails and those   *)
(* that were past the limiter when it locked; the limiter itself counts    *)
(* again from zero and so cannot say.                                      *)
(***************************************************************************)
LockoutBounds == burst <= MaxFails + racing

(***************************************************************************)
(* One Google identity is one account: a session opened through Google is  *)
(* of the account its subject is linked to, whatever registers, links or   *)
(* signs in meanwhile.  (When a subject signs in for the first time under  *)
(* two verified emails at once, the one that comes second gets the account *)
(* of its email though the link names the other.)                          *)
(***************************************************************************)
OneIdentity ==
  \A r \in Reqs :
    Op[r].kind = "google" /\ session[r] # None => session[r] = link[Op[r].sub] \/ Op[r].sub \in contended
=============================================================================
