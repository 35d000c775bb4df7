---------------------------- MODULE Credentials ----------------------------
(***************************************************************************)
(* What lets a request in: management tokens (auth/mgmt.go), issued by a   *)
(* login (handler/login.go) and checked by RequireMgmt on every request,   *)
(* and one-time tickets (auth/ticket.go), issued by NewTicketHandler       *)
(* (handler/session_api.go) and consumed by NewWs (see ApiKeys).  Both     *)
(* stores are maps under a mutex of their own; a sweeper goroutine per     *)
(* store reads the clock first and takes the mutex later.  A request is    *)
(* two critical sections, the token's check and the ticket's issue, with   *)
(* anything in between.                                                    *)
(*                                                                         *)
(* Tokens and tickets are random, so each is issued once.  Whether the     *)
(* directory accepts a password, and whether the ticket handler finds the  *)
(* request in order (owner, quota, hours, mode), are free choices here;    *)
(* SessionManager has those checks that matter later.                      *)
(***************************************************************************)
EXTENDS Integers, FiniteSets

CONSTANTS
    Users, Tokens, Tickets,
    Requests,   \* the ticket requests that can be under way at a time
    TokenTTL, TicketTTL,
    MaxTime,    \* bound on the clock
    Absent      \* no record

(* The records of the stores, and a request that was let in.               *)
Holdings == [user : Users, until : Nat]
Grants == [token : Tokens, user : Users, at : Nat]
Issues == [grant : Grants, until : Nat]

(* Tokens and tickets are random, and in stores of their own.              *)
ASSUME CredentialsAssumption ==
    /\ TokenTTL \in Nat /\ TicketTTL \in Nat /\ MaxTime \in Nat
    /\ Tokens \cap Tickets = {}
    /\ Absent \notin Nat \cup Holdings \cup Grants \cup Issues

VARIABLES
    now,
    tokens,     \* the store: a record or Absent for each token
    tickets,    \* the store: a record or Absent for each ticket
    request,    \* Absent, or the token and time of a request let in
    sweep,      \* for each store, the time its sweeper has read, or Absent
    issued,     \* history: each token and ticket as it was issued
    revoked     \* history: when each token was revoked, or Absent

credVars == <<now, tokens, tickets, request, sweep, issued, revoked>>

CredentialsInit ==
    /\ now = 0
    /\ tokens = [k \in Tokens |-> Absent]
    /\ tickets = [t \in Tickets |-> Absent]
    /\ request = [r \in Requests |-> Absent]
    /\ sweep = [s \in {"tokens", "tickets"} |-> Absent]
    /\ issued = [x \in Tokens \cup Tickets |-> Absent]
    /\ revoked = [k \in Tokens |-> Absent]

Expired(rec) == now > rec.until

(* Authenticator.Login has accepted the user: MgmtTokenStore.Issue.        *)
Login(k, u) ==
    /\ issued[k] = Absent
    /\ LET rec == [user |-> u, until |-> now + TokenTTL]
       IN /\ tokens' = [tokens EXCEPT ![k] = rec]
          /\ issued' = [issued EXCEPT ![k] = rec]
    /\ UNCHANGED <<now, tickets, request, sweep, revoked>>

(* Mutant of Validate: expired tokens are left to the sweeper.             *)
ValidateLate(r, k) ==
    /\ request[r] = Absent
    /\ tokens[k] # Absent
    /\ request' = [request EXCEPT ![r] = [token |-> k, user |-> tokens[k].user, at |-> now]]
    /\ UNCHANGED <<now, tokens, tickets, sweep, issued, revoked>>

(* RequireMgmt of a ticket request: Validate.                              *)
Validate(r, k) ==
    /\ request[r] = Absent
    /\ tokens[k] # Absent
    /\ IF Expired(tokens[k])
       THEN tokens' = [tokens EXCEPT ![k] = Absent] /\ UNCHANGED request
       ELSE /\ request' = [request EXCEPT
                   ![r] = [token |-> k, user |-> tokens[k].user, at |-> now]]
            /\ UNCHANGED tokens
    /\ UNCHANGED <<now, tickets, sweep, issued, revoked>>

(* The handler's checks pass: TicketStore.Issue for the request's user.    *)
IssueTicket(r, t) ==
    /\ request[r] # Absent
    /\ issued[t] = Absent
    /\ LET rec == [user |-> request[r].user, until |-> now + TicketTTL]
       IN /\ tickets' = [tickets EXCEPT ![t] = rec]
          /\ issued' = [issued EXCEPT ![t] = [grant |-> request[r], until |-> rec.until]]
    /\ request' = [request EXCEPT ![r] = Absent]
    /\ UNCHANGED <<now, tokens, sweep, revoked>>

(* ... or one of them fails.                                               *)
RefuseTicket(r) ==
    /\ request[r] # Absent
    /\ request' = [request EXCEPT ![r] = Absent]
    /\ UNCHANGED <<now, tokens, tickets, sweep, issued, revoked>>

(* NewLogoutHandler: Revoke.                                               *)
Logout(k) ==
    /\ tokens[k] # Absent
    /\ tokens' = [tokens EXCEPT ![k] = Absent]
    /\ revoked' = [revoked EXCEPT ![k] = now]
    /\ UNCHANGED <<now, tickets, request, sweep, issued>>

(* StartCleanup: the clock is read ...                                     *)
SweepReads(s) ==
    /\ sweep[s] = Absent
    /\ sweep' = [sweep EXCEPT ![s] = now]
    /\ UNCHANGED <<now, tokens, tickets, request, issued, revoked>>

Swept(store, time) ==
    [x \in DOMAIN store |->
        IF store[x] # Absent /\ time > store[x].until THEN Absent ELSE store[x]]

(* ... and Cleanup takes the mutex.                                        *)
Cleanup(s) ==
    /\ sweep[s] # Absent
    /\ IF s = "tokens"
       THEN tokens' = Swept(tokens, sweep[s]) /\ UNCHANGED tickets
       ELSE tickets' = Swept(tickets, sweep[s]) /\ UNCHANGED tokens
    /\ sweep' = [sweep EXCEPT ![s] = Absent]
    /\ UNCHANGED <<now, request, issued, revoked>>

Tick ==
    /\ now < MaxTime
    /\ now' = now + 1
    /\ UNCHANGED <<tokens, tickets, request, sweep, issued, revoked>>

CredentialsNext ==
    \/ \E k \in Tokens, u \in Users : Login(k, u)
    \/ \E r \in Requests, k \in Tokens : Validate(r, k)
    \/ \E r \in Requests, t \in Tickets : IssueTicket(r, t)
    \/ \E r \in Requests : RefuseTicket(r)
    \/ \E k \in Tokens : Logout(k)
    \/ \E s \in {"tokens", "tickets"} : SweepReads(s) \/ Cleanup(s)

-----------------------------------------------------------------------------
(* The parts of ApiKeys' inductive invariant that are about this module.   *)

CredentialsTypeOK ==
    /\ now \in Nat
    /\ tokens \in [Tokens -> Holdings \cup {Absent}]
    /\ tickets \in [Tickets -> Holdings \cup {Absent}]
    /\ request \in [Requests -> Grants \cup {Absent}]
    /\ sweep \in [{"tokens", "tickets"} -> Nat \cup {Absent}]
    /\ issued \in [Tokens \cup Tickets -> Holdings \cup Issues \cup {Absent}]
    /\ \A k \in Tokens : issued[k] \in Holdings \cup {Absent}
    /\ \A t \in Tickets : issued[t] \in Issues \cup {Absent}
    /\ revoked \in [Tokens -> Nat \cup {Absent}]

(* A grant rests on a token that was good at its time.                     *)
Sound(grant) ==
    /\ issued[grant.token] # Absent
    /\ grant.at <= now /\ grant.at <= issued[grant.token].until
    /\ revoked[grant.token] # Absent => grant.at <= revoked[grant.token]

(* What is in the stores is what was issued; a revoked token is not there. *)
StoresSound ==
    /\ \A k \in Tokens :
          /\ tokens[k] # Absent => tokens[k] = issued[k] /\ revoked[k] = Absent
          /\ revoked[k] # Absent => issued[k] # Absent
    /\ \A t \in Tickets : tickets[t] # Absent =>
          issued[t] # Absent /\ tickets[t].until = issued[t].until

GrantsSound ==
    /\ \A r \in Requests : request[r] # Absent => Sound(request[r])
    /\ \A t \in Tickets : issued[t] # Absent => Sound(issued[t].grant)
=============================================================================
