---------------------------- MODULE ApiKeysProofs ----------------------------
(***************************************************************************)
(* What Credentials.tla and ApiKeys.tla claim of Spec, for any number of   *)
(* users, tokens, tickets, requests, connections and variables, and any    *)
(* time limits.  The inductive invariant is IndInv.  First the stores: one *)
(* lemma per part, one step per operation.  Then the flows: what a step of *)
(* one flow is to another (MeddledOrUntouched), so that each action has to *)
(* be looked at for its own flow only.                                     *)
(***************************************************************************)
EXTENDS ApiKeys, TLAPS

-----------------------------------------------------------------------------
(* Tickets and tokens.                                                     *)

(* What is drawn for the stores are records, and no record is Absent.      *)
LEMMA RecordsAreNotAbsent ==
    /\ \A rec \in Holdings \cup Grants \cup Issues : rec # Absent
    /\ \A n \in Nat : n # Absent
BY CredentialsAssumption

(* Only a token's or a ticket's own operations touch the credentials.      *)
LEMMA FlowsLeaveCredentials ==
    ASSUME NEW f \in Flows, FlowStep(f)
    PROVE  UNCHANGED <<credVars, conn>>
BY DEF FlowStep, GivesUp, NeedsNoKeys, ReadKeys, IgnoredMessage, Answer, Timeout, MergeRead,
       Truncate, MergeWrite, MergeFails, Reread, WriteEnv, LaunchFails, Launch,
       ProgramReadsEnv, Ends, RemovesEnv, vars, flowVars

LEMMA SweptType ==
    ASSUME NEW S, NEW store \in [S -> Holdings \cup {Absent}], NEW time
    PROVE  /\ Swept(store, time) \in [S -> Holdings \cup {Absent}]
           /\ \A x \in S : Swept(store, time)[x] \in {store[x], Absent}
BY DEF Swept

LEMMA CredentialsType ==
    ASSUME TypeOK, [Next]_vars
    PROVE  CredentialsTypeOK'
<1> USE DEF TypeOK, CredentialsTypeOK
<1>1. CASE UNCHANGED credVars
  BY <1>1 DEF credVars
<1>2. CASE Tick
  BY <1>2 DEF Tick
<1>3. ASSUME NEW k \in Tokens, NEW u \in Users, Login(k, u)
      PROVE  CredentialsTypeOK'
  <2> DEFINE rec == [user |-> u, until |-> now + TokenTTL]
  <2>1. rec \in Holdings
    BY CredentialsAssumption DEF Holdings
  <2>2. /\ tokens' = [tokens EXCEPT ![k] = rec] /\ issued' = [issued EXCEPT ![k] = rec]
        /\ UNCHANGED <<now, tickets, request, sweep, revoked>>
    BY <1>3 DEF Login
  <2> HIDE DEF rec
  <2>3. QED
    BY <2>1, <2>2, CredentialsAssumption
<1>4. ASSUME NEW r \in Requests, NEW k \in Tokens, Validate(r, k)
      PROVE  CredentialsTypeOK'
  <2> DEFINE grant == [token |-> k, user |-> tokens[k].user, at |-> now]
  <2>1. /\ \/ tokens' = [tokens EXCEPT ![k] = Absent] /\ UNCHANGED request
           \/ request' = [request EXCEPT ![r] = grant] /\ UNCHANGED tokens
        /\ tokens[k] # Absent /\ UNCHANGED <<now, tickets, sweep, issued, revoked>>
    BY <1>4 DEF Validate
  <2>2. grant \in Grants
    BY <2>1 DEF Holdings, Grants
  <2> HIDE DEF grant
  <2>3. QED
    BY <2>1, <2>2
<1>5. ASSUME NEW r \in Requests, NEW t \in Tickets, IssueTicket(r, t)
      PROVE  CredentialsTypeOK'
  <2> DEFINE rec == [user |-> request[r].user, until |-> now + TicketTTL]
             issue == [grant |-> request[r], until |-> rec.until]
  <2>1. /\ tickets' = [tickets EXCEPT ![t] = rec] /\ issued' = [issued EXCEPT ![t] = issue]
        /\ request' = [request EXCEPT ![r] = Absent] /\ request[r] # Absent
        /\ UNCHANGED <<now, tokens, sweep, revoked>>
    BY <1>5 DEF IssueTicket
  <2>2. rec \in Holdings /\ issue \in Issues
    BY <2>1, CredentialsAssumption DEF Holdings, Issues, Grants
  <2> HIDE DEF rec, issue
  <2>3. QED
    BY <2>1, <2>2, CredentialsAssumption
<1>6. ASSUME NEW r \in Requests, RefuseTicket(r)
      PROVE  CredentialsTypeOK'
  BY <1>6 DEF RefuseTicket
<1>7. ASSUME NEW k \in Tokens, Logout(k)
      PROVE  CredentialsTypeOK'
  BY <1>7 DEF Logout
<1>8. ASSUME NEW s \in {"tokens", "tickets"}, SweepReads(s) \/ Cleanup(s)
      PROVE  CredentialsTypeOK'
  BY SMTT(30), <1>8, SweptType DEF SweepReads, Cleanup
<1>9. ASSUME NEW f \in Flows, NEW t \in Tickets, Consume(f, t)
      PROVE  CredentialsTypeOK'
  BY <1>9 DEF Consume
<1>10. QED
  BY <1>1, <1>2, <1>3, <1>4, <1>5, <1>6, <1>7, <1>8, <1>9, FlowsLeaveCredentials
  DEF Next, CredentialsNext, vars

(* Neither store has anything that was not issued as it is there.          *)
LEMMA StoresStep ==
    ASSUME TypeOK, StoresSound, [Next]_vars
    PROVE  StoresSound'
<1> USE DEF TypeOK, CredentialsTypeOK, StoresSound
<1>1. CASE UNCHANGED credVars
  BY <1>1 DEF credVars
<1>2. CASE Tick
  BY <1>2 DEF Tick
<1>3. ASSUME NEW k \in Tokens, NEW u \in Users, Login(k, u)
      PROVE  StoresSound'
  <2> DEFINE rec == [user |-> u, until |-> now + TokenTTL]
  <2>1. /\ tokens' = [tokens EXCEPT ![k] = rec] /\ issued' = [issued EXCEPT ![k] = rec]
        /\ issued[k] = Absent /\ UNCHANGED <<tickets, revoked>>
    BY <1>3 DEF Login
  <2> HIDE DEF rec
  <2>2. QED
    BY <2>1, CredentialsAssumption
<1>4. ASSUME NEW r \in Requests, NEW k \in Tokens, Validate(r, k)
      PROVE  StoresSound'
  BY <1>4 DEF Validate
<1>5. ASSUME NEW r \in Requests, NEW t \in Tickets, IssueTicket(r, t)
      PROVE  StoresSound'
  <2> DEFINE rec == [user |-> request[r].user, until |-> now + TicketTTL]
             issue == [grant |-> request[r], until |-> rec.until]
  <2>1. /\ tickets' = [tickets EXCEPT ![t] = rec] /\ issued' = [issued EXCEPT ![t] = issue]
        /\ request[r] # Absent /\ UNCHANGED <<tokens, revoked>>
    BY <1>5 DEF IssueTicket
  <2>2. issue # Absent /\ rec.until = issue.until
    BY <2>1, RecordsAreNotAbsent, CredentialsAssumption DEF Issues
  <2>3. \A k \in Tokens : issued'[k] = issued[k]
    BY <2>1, CredentialsAssumption
  <2> HIDE DEF rec, issue
  <2>4. QED
    BY <2>1, <2>2, <2>3
<1>6. ASSUME NEW r \in Requests, RefuseTicket(r)
      PROVE  StoresSound'
  BY <1>6 DEF RefuseTicket
<1>7. ASSUME NEW k \in Tokens, Logout(k)
      PROVE  StoresSound'
  BY <1>7 DEF Logout
<1>8. ASSUME NEW s \in {"tokens", "tickets"}, SweepReads(s) \/ Cleanup(s)
      PROVE  StoresSound'
  BY <1>8, SweptType DEF SweepReads, Cleanup
<1>9. ASSUME NEW f \in Flows, NEW t \in Tickets, Consume(f, t)
      PROVE  StoresSound'
  BY <1>9 DEF Consume
<1>10. QED
  BY <1>1, <1>2, <1>3, <1>4, <1>5, <1>6, <1>7, <1>8, <1>9, FlowsLeaveCredentials
  DEF Next, CredentialsNext, vars

(* Time passes, and what was issued is not issued again.                   *)
LEMMA HistoryGrows ==
    ASSUME TypeOK, [Next]_vars
    PROVE  /\ now' \in {now, now + 1}
           /\ \A x \in Tokens \cup Tickets : issued[x] # Absent => issued'[x] = issued[x]
           /\ \A k \in Tokens : revoked'[k] \in {revoked[k], now}
<1> USE DEF TypeOK, CredentialsTypeOK
<1>1. CASE UNCHANGED credVars
  BY <1>1 DEF credVars
<1>2. CASE Tick
  BY <1>2 DEF Tick
<1>3. ASSUME NEW k \in Tokens, NEW u \in Users, Login(k, u)
      PROVE  /\ UNCHANGED <<now, revoked>>
             /\ \A x \in Tokens \cup Tickets : issued[x] # Absent => issued'[x] = issued[x]
  BY <1>3 DEF Login
<1>4. ASSUME NEW r \in Requests, NEW t \in Tickets, IssueTicket(r, t)
      PROVE  /\ UNCHANGED <<now, revoked>>
             /\ \A x \in Tokens \cup Tickets : issued[x] # Absent => issued'[x] = issued[x]
  BY <1>4 DEF IssueTicket
<1>5. ASSUME NEW k \in Tokens, Logout(k)
      PROVE  UNCHANGED <<now, issued>> /\ \A j \in Tokens : revoked'[j] \in {revoked[j], now}
  BY <1>5 DEF Logout
<1>6. ASSUME \/ \E r \in Requests : RefuseTicket(r) \/ \E k \in Tokens : Validate(r, k)
             \/ \E s \in {"tokens", "tickets"} : SweepReads(s) \/ Cleanup(s)
             \/ \E f \in Flows, t \in Tickets : Consume(f, t)
      PROVE  UNCHANGED <<now, issued, revoked>>
  BY <1>6 DEF RefuseTicket, Validate, SweepReads, Cleanup, Consume
<1>7. QED
  BY <1>1, <1>2, <1>3, <1>4, <1>5, <1>6, FlowsLeaveCredentials DEF Next, CredentialsNext, vars

(* A grant stays sound: its token is not issued again, and is revoked, if  *)
(* ever, later than the grant.                                             *)
LEMMA StaysSound ==
    ASSUME TypeOK, [Next]_vars, NEW grant \in Grants, Sound(grant)
    PROVE  Sound(grant)'
<1> DEFINE tok == grant.token
<1>1. tok \in Tokens /\ grant.at \in Nat /\ now \in Nat
  BY DEF Grants, TypeOK, CredentialsTypeOK
<1>2. /\ issued[tok] # Absent /\ grant.at <= now /\ grant.at <= issued[tok].until
      /\ revoked[tok] # Absent => grant.at <= revoked[tok]
  BY DEF Sound
<1>3. /\ now' \in {now, now + 1} /\ issued'[tok] = issued[tok]
      /\ revoked'[tok] \in {revoked[tok], now}
  BY <1>1, <1>2, HistoryGrows
<1>4. grant.at <= now' /\ (revoked'[tok] # Absent => grant.at <= revoked'[tok])
  BY <1>1, <1>2, <1>3
<1>5. QED
  BY <1>2, <1>3, <1>4 DEF Sound

(* RequireMgmt lets in what is sound at that time, and NewTicketHandler    *)
(* makes the ticket of it.                                                 *)
LEMMA GrantsStep ==
    ASSUME TypeOK, StoresSound, GrantsSound, [Next]_vars
    PROVE  GrantsSound'
<1> USE DEF TypeOK, CredentialsTypeOK
<1>1. ASSUME NEW r \in Requests, request'[r] # Absent, request'[r] = request[r]
      PROVE  Sound(request[r])'
  <2>1. PICK grant \in Grants : grant = request[r] /\ grant = request'[r]
    BY <1>1
  <2>2. Sound(grant)
    BY <1>1, <2>1 DEF GrantsSound, Sound
  <2>3. Sound(grant)'
    BY <2>2, StaysSound
  <2>4. QED
    BY <2>1, <2>3 DEF Sound
<1>2. ASSUME NEW t \in Tickets, issued[t] # Absent
      PROVE  Sound(issued[t].grant)'
  <2>1. issued[t].grant \in Grants /\ issued'[t] = issued[t]
    BY <1>2, HistoryGrows DEF Issues
  <2>2. PICK grant \in Grants : grant = issued[t].grant /\ grant = issued'[t].grant
    BY <2>1
  <2>3. Sound(grant)
    BY <1>2, <2>2 DEF GrantsSound, Sound
  <2>4. Sound(grant)'
    BY <2>3, StaysSound
  <2>5. QED
    BY <2>2, <2>4 DEF Sound
<1>3. CASE \E r \in Requests, k \in Tokens : Validate(r, k)
  <2>1. PICK r \in Requests, k \in Tokens : Validate(r, k)
    BY <1>3
  <2>2. CASE Expired(tokens[k])
    BY <1>1, <1>2, <2>1, <2>2 DEF Validate, GrantsSound
  <2>3. CASE ~Expired(tokens[k])
    <3>1. /\ request'[r] = [token |-> k, user |-> tokens[k].user, at |-> now]
          /\ \A q \in Requests \ {r} : request'[q] = request[q]
          /\ tokens[k] # Absent /\ now <= tokens[k].until
          /\ UNCHANGED <<now, issued, revoked>>
      BY <2>1, <2>3 DEF Validate, Expired, Holdings
    <3>2. tokens[k] = issued[k] /\ revoked[k] = Absent
      BY <3>1 DEF StoresSound
    <3>3. Sound(request[r])'
      BY <3>1, <3>2 DEF Sound
    <3>4. ASSUME NEW q \in Requests, request'[q] # Absent
          PROVE  Sound(request[q])'
      BY <1>1, <3>1, <3>3, <3>4
    <3>5. QED
      BY <1>2, <3>1, <3>4 DEF GrantsSound
  <2>4. QED
    BY <2>2, <2>3
<1>4. CASE \E r \in Requests, t \in Tickets : IssueTicket(r, t)
  <2>1. PICK r \in Requests, t \in Tickets : IssueTicket(r, t)
    BY <1>4
  <2>2. /\ request[r] # Absent /\ issued[t] = Absent /\ issued'[t].grant = request[r]
        /\ \A s \in Tickets \ {t} : issued'[s] = issued[s]
        /\ \A q \in Requests : request'[q] \in {request[q], Absent}
    BY <2>1 DEF IssueTicket
  <2>3. Sound(issued[t].grant)'
    <3>1. PICK grant \in Grants : grant = request[r] /\ grant = issued'[t].grant
      BY <2>2
    <3>2. Sound(grant)
      BY <2>2, <3>1 DEF GrantsSound, Sound
    <3>3. Sound(grant)'
      BY <3>2, StaysSound
    <3>4. QED
      BY <3>1, <3>3 DEF Sound
  <2>4. ASSUME NEW s \in Tickets, issued'[s] # Absent
        PROVE  Sound(issued[s].grant)'
    BY <1>2, <2>2, <2>3, <2>4
  <2>5. QED
    BY <1>1, <2>2, <2>4 DEF GrantsSound
<1>5. CASE /\ ~\E r \in Requests, k \in Tokens : Validate(r, k)
           /\ ~\E r \in Requests, t \in Tickets : IssueTicket(r, t)
  <2>1. /\ \A r \in Requests : request'[r] \in {request[r], Absent}
        /\ \A t \in Tickets : issued'[t] = issued[t]
    BY <1>5, CredentialsAssumption, FlowsLeaveCredentials
    DEF Next, CredentialsNext, vars, credVars, Tick, Login, RefuseTicket, Logout, SweepReads,
        Cleanup, Consume
  <2>2. QED
    BY <1>1, <1>2, <2>1 DEF GrantsSound
<1>6. QED
  BY <1>3, <1>4, <1>5

(* NewWs: the ticket of a connection was in the store, hence in nobody     *)
(* else's hands, in time, and is not issued again.                         *)
LEMMA TicketsStep ==
    ASSUME TypeOK, StoresSound, TicketsUsedUp, [Next]_vars
    PROVE  TicketsUsedUp'
<1> USE DEF TypeOK, CredentialsTypeOK
<1>1. \A t \in Tickets : issued[t] # Absent => issued'[t] = issued[t]
  BY HistoryGrows
<1>2. ASSUME NEW f \in Flows, NEW t \in Tickets, Consume(f, t)
      PROVE  TicketsUsedUp'
  <2>1. /\ tickets[t] # Absent /\ tickets' = [tickets EXCEPT ![t] = Absent]
        /\ UNCHANGED <<now, issued>>
        /\ \/ conn' = conn
           \/ /\ ~Expired(tickets[t])
              /\ \E m \in Modes : conn' = [conn EXCEPT ![f] = [ticket |-> t, at |-> now, mode |-> m]]
    BY <1>2 DEF Consume
  <2>2. \A g \in Flows : conn[g] # Absent => conn[g].ticket # t
    BY <2>1 DEF TicketsUsedUp
  <2>3. issued[t] # Absent /\ tickets[t].until = issued[t].until
    BY <2>1 DEF StoresSound
  <2>4. CASE conn' = conn
    BY <2>1, <2>2, <2>4 DEF TicketsUsedUp
  <2>5. CASE conn' # conn
    <3>1. /\ conn'[f].ticket = t /\ conn'[f].at = now
          /\ \A g \in Flows \ {f} : conn'[g] = conn[g]
          /\ now <= issued[t].until
      BY <2>1, <2>3, <2>5 DEF Expired, Holdings
    <3>2. \A s \in Tickets : tickets'[s] = IF s = t THEN Absent ELSE tickets[s]
      BY <2>1
    <3>3. \A g \in Flows : conn[g] # Absent => conn[g].ticket \in Tickets
      OBVIOUS
    <3> HIDE DEF TypeOK, CredentialsTypeOK
    <3>4. QED
      BY <2>1, <2>2, <2>3, <3>1, <3>2, <3>3 DEF TicketsUsedUp
  <2>6. QED
    BY <2>4, <2>5
<1>3. CASE ~\E f \in Flows, t \in Tickets : Consume(f, t)
  <2>1. conn' = conn
    BY <1>3, FlowsLeaveCredentials DEF Next, vars, flowVars
  <2>2. \A t \in Tickets : issued[t] # Absent /\ tickets[t] = Absent => tickets'[t] = Absent
    BY <1>3, SweptType, FlowsLeaveCredentials
    DEF Next, CredentialsNext, vars, credVars, Tick, Login, Validate, IssueTicket,
        RefuseTicket, Logout, SweepReads, Cleanup
  <2>3. QED
    BY <1>1, <2>1, <2>2 DEF TicketsUsedUp
<1>4. QED
  BY <1>2, <1>3

-----------------------------------------------------------------------------
(* The flows: types.                                                       *)

LEMMA FlowsType ==
    ASSUME TypeOK, NEW f \in Flows, FlowStep(f)
    PROVE  TypeOK'
<1> USE ApiKeysAssumption DEF TypeOK, Goes, Meddles, Relying, Prompting
<1>1. CredentialsTypeOK'
  BY FlowsLeaveCredentials DEF CredentialsTypeOK, credVars
<1> USE <1>1
<1>2. CASE GivesUp(f) \/ NeedsNoKeys(f) \/ Timeout(f)
  BY ZenonT(30), <1>2 DEF GivesUp, NeedsNoKeys, Timeout
<1>2a. CASE MergeFails(f)
  <2>1. merge[f].file \in SUBSET Vars /\ keys' \in {keys, Garbled} \cup WrittenOver(merge[f].file)
    BY <1>2a DEF MergeFails
  <2>2. keys' \in [state : {"none", "ok", "empty", "garbled"}, has : SUBSET Vars]
    BY <2>1 DEF WrittenOver, Garbled
  <2>3. QED
    BY <1>2a, <2>2 DEF MergeFails
<1>3. CASE ReadKeys(f)
  <2>1. now + AuthTimeout \in Nat /\ now \in Nat
    BY DEF CredentialsTypeOK
  <2>2. deadline' \in [Flows -> Nat \cup {Absent}]
    BY <1>3, <2>1 DEF ReadKeys
  <2>3. asked' \in [Flows -> SUBSET Vars] /\ authEnv' \in [Flows -> SUBSET Vars]
    <3> DEFINE missing == Vars \ keys.has
    <3>1. asked' = asked \/ asked' = [asked EXCEPT ![f] = missing]
      BY <1>3 DEF ReadKeys
    <3>2. authEnv' = authEnv \/ authEnv' = [authEnv EXCEPT ![f] = Vars]
      BY <1>3 DEF ReadKeys
    <3>3. missing \in SUBSET Vars /\ Vars \in SUBSET Vars
      OBVIOUS
    <3> HIDE DEF missing
    <3>4. asked' \in [Flows -> SUBSET Vars]
      BY <3>1, <3>3
    <3>5. authEnv' \in [Flows -> SUBSET Vars]
      BY <3>2, <3>3
    <3>6. QED
      BY <3>4, <3>5
  <2>4. Goes(f, "closed") \/ Goes(f, "env") \/ Goes(f, "prompt")
    BY <1>3 DEF ReadKeys
  <2>5. UNCHANGED <<setup, conn, keys, envFile, merge, env, meddled, slip, saved>>
    BY <1>3 DEF ReadKeys
  <2>6. QED
    BY <2>2, <2>3, <2>4, <2>5
<1>4. CASE IgnoredMessage(f)
  BY <1>4 DEF IgnoredMessage, vars, flowVars
<1>5. CASE Answer(f)
  BY <1>5 DEF Answer
<1>6. CASE MergeRead(f)
  <2>1. CASE Readable
    <3>1. /\ merge' = [merge EXCEPT ![f].file = @ \cup keys.has]
          /\ flow' = [flow EXCEPT ![f] = "truncate"]
          /\ UNCHANGED <<setup, conn, keys, envFile, asked, deadline, authEnv, env, meddled, slip, saved>>
      BY <1>6, <2>1 DEF MergeRead
    <3>2. /\ merge' \in [Flows -> [key : Vars \cup {Absent}, file : SUBSET Vars]]
          /\ \A g \in Flows : merge'[g].key = merge[g].key
      BY <3>1
    <3>3. flow[f] = "merge"
      BY <1>6 DEF MergeRead
    <3>4. QED
      BY <3>1, <3>2, <3>3
  <2>2. CASE ~Readable
    BY <1>6, <2>2 DEF MergeRead
  <2>3. QED
    BY <2>1, <2>2
<1>7. CASE Truncate(f)
  BY <1>7 DEF Truncate
<1>8. CASE MergeWrite(f)
  <2>1. /\ merge[f].key \in Vars \cup {Absent} /\ merge[f].file \in SUBSET Vars
        /\ keys' \in WrittenOver(merge[f].file)
        /\ saved' = saved \cup {merge[f].key}
    BY <1>8 DEF MergeWrite
  <2>2. keys' \in [state : {"none", "ok", "empty", "garbled"}, has : SUBSET Vars]
    BY <2>1 DEF WrittenOver, Garbled
  <2>3. /\ asked' \in [Flows -> SUBSET Vars] /\ deadline' \in [Flows -> Nat \cup {Absent}]
        /\ flow' \in [Flows -> Relying \cup {"new", "connected", "running", "ending", "closed"}]
    BY <1>8 DEF MergeWrite
  <2>4. meddled' \in [Flows -> BOOLEAN]
    BY <1>8 DEF MergeWrite
  <2>5. saved' \in SUBSET Vars
    BY <1>8, <2>1 DEF MergeWrite
  <2>6. QED
    BY <1>8, <2>2, <2>3, <2>4, <2>5 DEF MergeWrite
<1>9. CASE Reread(f)
  <2>1. authEnv' \in [Flows -> SUBSET Vars]
    BY <1>9 DEF Reread
  <2>2. QED
    BY <1>9, <2>1 DEF Reread
<1>10. CASE WriteEnv(f)
  <2> DEFINE file == [there |-> TRUE, has |-> authEnv[f]]
  <2>1. /\ envFile' \in {envFile, file} /\ slip' \in {slip, TRUE}
        /\ meddled' = meddled \/ Meddles(f)
        /\ Goes(f, "launch") \/ Goes(f, "closed")
    BY <1>10 DEF WriteEnv
  <2>2. file \in [there : BOOLEAN, has : SUBSET Vars]
    OBVIOUS
  <2>3. QED
    BY ZenonT(30), <1>10, <2>1, <2>2 DEF WriteEnv
<1>11. CASE LaunchFails(f) \/ RemovesEnv(f)
  <2>1. Removes(f) /\ Goes(f, "closed")
    BY <1>11 DEF LaunchFails, RemovesEnv
  <2>2. /\ envFile' \in {envFile, NoFile} /\ slip' \in {slip, TRUE}
        /\ meddled' = meddled \/ Meddles(f)
    BY <2>1 DEF Removes
  <2>3. UNCHANGED <<setup, conn, keys, asked, deadline, merge, authEnv, env, saved>>
    BY <1>11 DEF LaunchFails, RemovesEnv
  <2>4. NoFile \in [there : BOOLEAN, has : SUBSET Vars]
    BY DEF NoFile
  <2>5. QED
    BY <2>1, <2>2, <2>3, <2>4
<1>12. CASE Launch(f) \/ Ends(f)
  BY <1>12 DEF Launch, Ends
<1>13. CASE ProgramReadsEnv(f)
  BY <1>13 DEF ProgramReadsEnv
<1>14. QED
  BY <1>2, <1>2a, <1>3, <1>4, <1>5, <1>6, <1>7, <1>8, <1>9, <1>10, <1>11, <1>12, <1>13 DEF FlowStep

-----------------------------------------------------------------------------
(* The flows: what a step of one means to the others.                      *)

(* Flow f changes only its own part of the state, and whoever relies on a  *)
(* file that it changes is told by meddled.                                *)
LEMMA MeddledOrUntouched ==
    ASSUME TypeOK, NEW f \in Flows, FlowStep(f), NEW g \in Flows, g # f
    PROVE  /\ flow'[g] = flow[g] /\ asked'[g] = asked[g] /\ merge'[g] = merge[g]
           /\ authEnv'[g] = authEnv[g] /\ env'[g] = env[g] /\ deadline'[g] = deadline[g]
           /\ meddled[g] => meddled'[g]
           /\ slip => slip'
           /\ keys' = keys \/ meddled'[g] \/ flow[g] \notin Relying
           /\ envFile' = envFile \/ meddled'[g] \/ flow[g] \notin Relying
<1> USE DEF TypeOK, Goes
<1>1. Meddles(f) => meddled'[g] = (meddled[g] \/ flow[g] \in Relying)
  BY DEF Meddles
<1>2. CASE GivesUp(f) \/ NeedsNoKeys(f) \/ Timeout(f) \/ Answer(f) \/ MergeRead(f)
  BY <1>2 DEF GivesUp, NeedsNoKeys, Timeout, Answer, MergeRead
<1>3. CASE ReadKeys(f) \/ Reread(f)
  BY <1>3 DEF ReadKeys, Reread
<1>4. CASE IgnoredMessage(f)
  BY <1>4 DEF IgnoredMessage, vars, flowVars
<1>5. CASE Truncate(f) \/ MergeFails(f)
  BY <1>1, <1>5 DEF Truncate, MergeFails
<1>6. CASE MergeWrite(f)
  BY <1>1, <1>6 DEF MergeWrite
<1>7. CASE WriteEnv(f)
  BY <1>1, <1>7 DEF WriteEnv
<1>8. CASE LaunchFails(f) \/ RemovesEnv(f)
  BY <1>1, <1>8 DEF LaunchFails, RemovesEnv, Removes
<1>9. CASE Launch(f) \/ Ends(f) \/ ProgramReadsEnv(f)
  BY <1>9 DEF Launch, Ends, ProgramReadsEnv
<1>10. QED
  BY <1>2, <1>3, <1>4, <1>5, <1>6, <1>7, <1>8, <1>9 DEF FlowStep

LEMMA OthersKeep ==
    ASSUME IndInv, NEW f \in Flows, FlowStep(f), NEW g \in Flows, g # f
    PROVE  /\ KeysGathered(g)' /\ KeysPassedOn(g)'
           /\ env'[g] # Absent => \/ conn'[g].mode = "bash" \/ env'[g] = Vars
                                  \/ meddled'[g] \/ slip'
<1>1. conn' = conn
  BY FlowsLeaveCredentials
<1>2. TypeOK /\ KeysGathered(g) /\ KeysPassedOn(g)
  BY DEF IndInv
<1>3. env[g] # Absent => conn[g].mode = "bash" \/ env[g] = Vars \/ meddled[g] \/ slip
  BY DEF IndInv, KeysComplete
<1>4. /\ flow'[g] = flow[g] /\ asked'[g] = asked[g] /\ merge'[g] = merge[g]
      /\ authEnv'[g] = authEnv[g] /\ env'[g] = env[g]
      /\ meddled[g] => meddled'[g]
      /\ slip => slip'
      /\ keys' = keys \/ meddled'[g] \/ flow[g] \notin Relying
      /\ envFile' = envFile \/ meddled'[g] \/ flow[g] \notin Relying
  BY <1>2, MeddledOrUntouched
<1>5. KeysGathered(g)'
  BY <1>2, <1>4 DEF KeysGathered, Relying, Prompting
<1>6. KeysPassedOn(g)'
  BY <1>1, <1>2, <1>4 DEF KeysPassedOn, Relying, Prompting
<1>7. QED
  BY <1>1, <1>3, <1>4, <1>5, <1>6

-----------------------------------------------------------------------------
(* The flows: the step of one for itself.                                  *)

(* resolveAuthEnv with promptAuthKeys and WriteAuthFile.                   *)
LEMMA OwnKeysGathered ==
    ASSUME IndInv, NEW f \in Flows, FlowStep(f)
    PROVE  KeysGathered(f)'
<1>0. TypeOK /\ KeysGathered(f) /\ TypeOK'
  BY FlowsType DEF IndInv
<1> USE <1>0 DEF KeysGathered, Goes, TypeOK
<1>1. CASE ReadKeys(f)
  BY <1>1 DEF ReadKeys
<1>2. CASE IgnoredMessage(f)
  BY <1>2 DEF IgnoredMessage, vars, flowVars
<1>3. CASE Answer(f)
  BY <1>3 DEF Answer
<1>4. CASE MergeRead(f)
  <2>1. CASE Readable
    <3>1. /\ flow[f] = "merge" /\ flow'[f] = "truncate"
          /\ merge'[f].key = merge[f].key /\ merge'[f].file = merge[f].file \cup keys.has
          /\ UNCHANGED <<asked, keys, meddled>>
      BY <1>4, <2>1 DEF MergeRead
    <3>2. (merge[f].key \in merge[f].file /\ Vars \subseteq asked[f] \cup keys.has) \/ meddled[f]
      BY <3>1
    <3>3. QED
      BY <3>1, <3>2
  <2>2. CASE ~Readable
    BY <1>4, <2>2 DEF MergeRead
  <2>3. QED
    BY <2>1, <2>2
<1>5. CASE Truncate(f)
  BY <1>5 DEF Truncate, Meddles
<1>6. CASE MergeWrite(f)
  <2>1. /\ flow[f] = "write" /\ keys' \in WrittenOver(merge[f].file)
        /\ asked'[f] = asked[f] \ {merge[f].key}
        /\ \/ asked'[f] = {} /\ flow'[f] = "reread"
           \/ flow'[f] = "prompt"
        /\ meddled'[f] = meddled[f]
    BY <1>6 DEF MergeWrite, Meddles
  <2>2. CASE meddled[f]
    BY <2>1, <2>2
  <2>3. CASE ~meddled[f]
    <3>1. /\ keys.state = "empty" /\ merge[f].key \in merge[f].file
          /\ Vars \subseteq asked[f] \cup merge[f].file
      BY <2>1, <2>3
    <3>2. keys'.has = merge[f].file
      BY <2>1, <3>1 DEF WrittenOver
    <3>3. Vars \subseteq asked'[f] \cup keys'.has
      BY <2>1, <3>1, <3>2
    <3>4. QED
      BY <2>1, <3>3
  <2>4. QED
    BY <2>2, <2>3
<1>7. CASE GivesUp(f) \/ NeedsNoKeys(f) \/ Timeout(f)
  BY <1>7 DEF GivesUp, NeedsNoKeys, Timeout
<1>8. CASE MergeFails(f) \/ Reread(f)
  BY <1>8 DEF MergeFails, Reread
<1>9. CASE WriteEnv(f)
  BY <1>9 DEF WriteEnv
<1>10. CASE LaunchFails(f) \/ RemovesEnv(f)
  BY <1>10 DEF LaunchFails, RemovesEnv
<1>11. CASE Launch(f) \/ Ends(f) \/ ProgramReadsEnv(f)
  BY <1>11 DEF Launch, Ends, ProgramReadsEnv
<1>12. QED
  BY <1>1, <1>2, <1>3, <1>4, <1>5, <1>6, <1>7, <1>8, <1>9, <1>10, <1>11 DEF FlowStep

(* From the keys that were gathered to the program's environment.          *)
LEMMA OwnKeysPassedOn ==
    ASSUME IndInv, NEW f \in Flows, FlowStep(f)
    PROVE  /\ KeysPassedOn(f)'
           /\ env'[f] # Absent => \/ conn'[f].mode = "bash" \/ env'[f] = Vars
                                  \/ meddled'[f] \/ slip'
<1> DEFINE Complete == env[f] # Absent => \/ conn[f].mode = "bash" \/ env[f] = Vars
                                          \/ meddled[f] \/ slip
<1>0. /\ TypeOK /\ KeysGathered(f) /\ KeysPassedOn(f) /\ Complete
      /\ conn' = conn
  BY FlowsLeaveCredentials DEF IndInv, KeysComplete
<1>. SUFFICES KeysPassedOn(f)' /\ Complete'
  OBVIOUS
<1> USE <1>0 DEF KeysPassedOn, Goes, TypeOK
<1>1. CASE GivesUp(f) \/ Timeout(f) \/ Answer(f) \/ MergeRead(f)
  BY <1>1 DEF GivesUp, Timeout, Answer, MergeRead
<1>2. CASE NeedsNoKeys(f) \/ ReadKeys(f)
  BY <1>2 DEF NeedsNoKeys, ReadKeys
<1>3. CASE IgnoredMessage(f)
  BY <1>3 DEF IgnoredMessage, vars, flowVars
<1>4. CASE Truncate(f) \/ MergeWrite(f) \/ MergeFails(f)
  BY <1>4 DEF Truncate, MergeWrite, MergeFails, Meddles
<1>5. CASE Reread(f)
  <2>1. Vars \subseteq keys.has \/ meddled[f]
    BY <1>5 DEF Reread, KeysGathered
  <2>2. (Vars \subseteq keys.has) => Vars \cap keys.has = Vars
    OBVIOUS
  <2>3. QED
    BY <1>5, <2>1, <2>2 DEF Reread
<1>6. CASE WriteEnv(f)
  BY <1>6 DEF WriteEnv, Meddles
<1>7. CASE LaunchFails(f) \/ RemovesEnv(f)
  BY <1>7 DEF LaunchFails, RemovesEnv, Removes, Meddles
<1>8. CASE Launch(f) \/ Ends(f)
  BY <1>8 DEF Launch, Ends
<1>9. CASE ProgramReadsEnv(f)
  <2>1. /\ flow[f] = "starting" /\ flow'[f] = "running" /\ authEnv' = authEnv
        /\ meddled[f] => meddled'[f]
        /\ slip => slip'
        /\ \/ env'[f] = IF authEnv[f] = {} THEN {} ELSE envFile.has
           \/ meddled'[f] \/ slip'
    BY <1>9 DEF ProgramReadsEnv
  <2>2. /\ conn[f].mode = "bash" \/ authEnv[f] = Vars \/ meddled[f]
        /\ authEnv[f] # {} => envFile.has = authEnv[f] \/ meddled[f] \/ slip
    BY <2>1
  <2>3. conn[f].mode = "bash" \/ env'[f] = Vars \/ meddled'[f] \/ slip'
    BY <2>1, <2>2
  <2>4. QED
    BY <2>1, <2>3
<1>10. QED
  BY <1>1, <1>2, <1>3, <1>4, <1>5, <1>6, <1>7, <1>8, <1>9 DEF FlowStep

(* The deadline is on the connection while the prompt reads from it.       *)
LEMMA OwnDeadline ==
    ASSUME IndInv, NEW f \in Flows, FlowStep(f)
    PROVE  DeadlineOfPrompt'
<1> USE DEF DeadlineOfPrompt, Goes, TypeOK, Prompting
<1>1. TypeOK /\ DeadlineOfPrompt
  BY DEF IndInv
<1>2. deadline'[f] # Absent => flow'[f] \in Prompting \cup {"closed"}
  <2>1. CASE MergeWrite(f)
    BY <1>1, <2>1 DEF MergeWrite
  <2>2. CASE ReadKeys(f) \/ Answer(f) \/ MergeRead(f) \/ Truncate(f)
    BY <1>1, <2>2 DEF ReadKeys, Answer, MergeRead, Truncate
  <2>3. CASE IgnoredMessage(f)
    BY <1>1, <2>3 DEF IgnoredMessage, vars, flowVars
  <2>4. CASE GivesUp(f) \/ Timeout(f) \/ MergeFails(f) \/ NeedsNoKeys(f)
    BY <1>1, <2>4 DEF GivesUp, Timeout, MergeFails, NeedsNoKeys
  <2>5. CASE Reread(f) \/ WriteEnv(f) \/ LaunchFails(f) \/ Launch(f)
    BY <1>1, <2>5 DEF Reread, WriteEnv, LaunchFails, Launch
  <2>6. CASE ProgramReadsEnv(f) \/ Ends(f) \/ RemovesEnv(f)
    BY <1>1, <2>6 DEF ProgramReadsEnv, Ends, RemovesEnv
  <2>7. QED
    BY <2>1, <2>2, <2>3, <2>4, <2>5, <2>6 DEF FlowStep
<1>3. QED
  BY <1>1, <1>2, MeddledOrUntouched

(* Whoever writes .auth.env will remove it, or there is nothing to remove. *)
LEMMA OwnEnvFile ==
    ASSUME IndInv, NEW f \in Flows, FlowStep(f)
    PROVE  EnvFileRemoved'
<1>1. TypeOK /\ EnvFileRemoved
  BY DEF IndInv
<1>2. \A g \in Flows : g # f => HasEnvFile(g)' = HasEnvFile(g)
  BY <1>1, MeddledOrUntouched DEF HasEnvFile
<1> USE <1>1 DEF TypeOK, Goes
<1>3. CASE WriteEnv(f)
  <2>1. CASE authEnv[f] = {}
    BY <1>2, <1>3, <2>1 DEF WriteEnv, EnvFileRemoved, HasEnvFile
  <2>2. CASE authEnv[f] # {}
    BY <1>3, <2>2 DEF WriteEnv, EnvFileRemoved, HasEnvFile
  <2>3. QED
    BY <2>1, <2>2
<1>4. CASE LaunchFails(f) \/ RemovesEnv(f)
  <2>1. Removes(f) /\ authEnv' = authEnv
    BY <1>4 DEF LaunchFails, RemovesEnv
  <2>2. CASE authEnv[f] = {}
    BY <1>2, <2>1, <2>2 DEF Removes, EnvFileRemoved, HasEnvFile
  <2>3. CASE authEnv[f] # {}
    BY <2>1, <2>3 DEF Removes, EnvFileRemoved, NoFile
  <2>4. QED
    BY <2>2, <2>3
<1>5. CASE ~(WriteEnv(f) \/ LaunchFails(f) \/ RemovesEnv(f))
  <2>1. envFile' = envFile /\ (slip => slip') /\ (HasEnvFile(f) => HasEnvFile(f)')
    <3>1. CASE GivesUp(f) \/ NeedsNoKeys(f) \/ Timeout(f) \/ Answer(f) \/ MergeRead(f)
      BY <3>1 DEF GivesUp, NeedsNoKeys, Timeout, Answer, MergeRead, HasEnvFile
    <3>2. CASE ReadKeys(f) \/ Reread(f)
      BY <3>2 DEF ReadKeys, Reread, HasEnvFile
    <3>3. CASE IgnoredMessage(f)
      BY <3>3 DEF IgnoredMessage, vars, flowVars, HasEnvFile
    <3>4. CASE Truncate(f) \/ MergeWrite(f) \/ MergeFails(f)
      BY <3>4 DEF Truncate, MergeWrite, MergeFails, HasEnvFile
    <3>5. CASE Launch(f) \/ Ends(f) \/ ProgramReadsEnv(f)
      BY <3>5 DEF Launch, Ends, ProgramReadsEnv, HasEnvFile
    <3>6. QED
      BY <1>5, <3>1, <3>2, <3>3, <3>4, <3>5 DEF FlowStep
  <2>2. QED
    BY <1>2, <2>1 DEF EnvFileRemoved
<1>6. QED
  BY <1>3, <1>4, <1>5

-----------------------------------------------------------------------------
(* The theorems.                                                           *)

LEMMA InitSound == Init => IndInv
<1> SUFFICES ASSUME Init PROVE IndInv
  OBVIOUS
<1> USE CredentialsAssumption, ApiKeysAssumption
<1>1. PICK u \in Users, k \in Tokens :
         LET tok == [user |-> u, until |-> TokenTTL]
             grant == [token |-> k, user |-> u, at |-> 0]
         IN IF setup = "login"
            THEN /\ tickets = [t \in Tickets |-> Absent]
                 /\ issued = [x \in Tokens \cup Tickets |-> Absent]
            ELSE /\ tickets = [t \in Tickets |-> [user |-> u, until |-> TicketTTL]]
                 /\ issued = [x \in Tokens \cup Tickets |->
                       IF x \in Tokens THEN tok
                       ELSE [grant |-> grant, until |-> TicketTTL]]
  BY DEF Init
<1> DEFINE tok == [user |-> u, until |-> TokenTTL]
           grant == [token |-> k, user |-> u, at |-> 0]
           held == [user |-> u, until |-> TicketTTL]
           issue == [grant |-> grant, until |-> TicketTTL]
<1>2. /\ tok \in Holdings /\ held \in Holdings /\ grant \in Grants /\ issue \in Issues
      /\ tok.until = TokenTTL /\ held.until = TicketTTL /\ issue.until = TicketTTL
      /\ issue.grant = grant /\ grant.at = 0 /\ grant.token = k
  BY DEF Holdings, Grants, Issues
<1>3. \/ /\ tickets = [t \in Tickets |-> Absent]
         /\ issued = [x \in Tokens \cup Tickets |-> Absent]
      \/ /\ tickets = [t \in Tickets |-> held]
         /\ issued = [x \in Tokens \cup Tickets |-> IF x \in Tokens THEN tok ELSE issue]
  BY <1>1
<1> HIDE DEF tok, grant, held, issue
<1>4. /\ now = 0 /\ tokens = [j \in Tokens |-> Absent] /\ request = [r \in Requests |-> Absent]
      /\ sweep = [s \in {"tokens", "tickets"} |-> Absent]
      /\ revoked = [j \in Tokens |-> Absent]
  BY DEF Init
<1>5. CredentialsTypeOK
  BY <1>2, <1>3, <1>4 DEF CredentialsTypeOK
<1>6. StoresSound
  BY <1>2, <1>3, <1>4, RecordsAreNotAbsent DEF StoresSound
<1>7. GrantsSound
  <2>1. ASSUME NEW t \in Tickets, issued[t] # Absent
        PROVE  Sound(issued[t].grant)
    <3>1. issued[t] = issue /\ issued[k] = tok
      BY <1>3, <2>1
    <3>2. QED
      BY <1>2, <1>4, <3>1, RecordsAreNotAbsent DEF Sound
  <2>2. QED
    BY <1>4, <2>1 DEF GrantsSound
<1>8. /\ conn = [f \in Flows |-> Absent] /\ flow = [f \in Flows |-> "new"]
      /\ deadline = [f \in Flows |-> Absent] /\ env = [f \in Flows |-> Absent]
      /\ envFile = NoFile
  BY DEF Init
<1>9. TypeOK
  <2>1. keys \in [state : {"none", "ok", "empty", "garbled"}, has : SUBSET Vars]
    BY DEF Init
  <2>2. /\ asked \in [Flows -> SUBSET Vars] /\ authEnv \in [Flows -> SUBSET Vars]
        /\ merge \in [Flows -> [key : Vars \cup {Absent}, file : SUBSET Vars]]
        /\ meddled \in [Flows -> BOOLEAN] /\ slip \in BOOLEAN /\ saved \in SUBSET Vars
    BY DEF Init
  <2>3. envFile \in [there : BOOLEAN, has : SUBSET Vars]
    BY <1>8 DEF NoFile
  <2>4. /\ flow \in [Flows -> Relying \cup {"new", "connected", "running", "ending", "closed"}]
        /\ conn \in [Flows -> [ticket : Tickets, at : Nat, mode : {"agent", "bash"}] \cup {Absent}]
        /\ deadline \in [Flows -> Nat \cup {Absent}]
        /\ env \in [Flows -> (SUBSET Vars) \cup {Absent}]
    BY <1>8
  <2>5. \A f \in Flows : flow[f] \notin {"merge", "truncate", "write"}
    BY <1>8
  <2>6. setup \in Setups
    BY DEF Init
  <2>7. QED
    BY <1>5, <2>1, <2>2, <2>3, <2>4, <2>5, <2>6 DEF TypeOK
<1>10. TicketsUsedUp /\ DeadlineOfPrompt /\ KeysComplete
  BY <1>8 DEF TicketsUsedUp, DeadlineOfPrompt, KeysComplete
<1>11. EnvFileRemoved
  BY <1>8 DEF EnvFileRemoved, NoFile
<1>12. \A f \in Flows : KeysGathered(f) /\ KeysPassedOn(f)
  BY <1>8 DEF KeysGathered, KeysPassedOn
<1>13. QED
  BY <1>6, <1>7, <1>9, <1>10, <1>11, <1>12 DEF IndInv

LEMMA NextSound == IndInv /\ [Next]_vars => IndInv'
<1> SUFFICES ASSUME IndInv, [Next]_vars PROVE IndInv'
  OBVIOUS
<1>1. StoresSound' /\ GrantsSound' /\ TicketsUsedUp' /\ CredentialsTypeOK'
  BY CredentialsType, StoresStep, GrantsStep, TicketsStep DEF IndInv
<1>2. CASE \E f \in Flows : FlowStep(f)
  <2>1. PICK f \in Flows : FlowStep(f)
    BY <1>2
  <2>2. TypeOK'
    BY <2>1, FlowsType DEF IndInv
  <2>3. \A g \in Flows : KeysGathered(g)' /\ KeysPassedOn(g)'
    BY <2>1, OwnKeysGathered, OwnKeysPassedOn, OthersKeep
  <2>4. KeysComplete'
    BY <2>1, OwnKeysPassedOn, OthersKeep DEF KeysComplete
  <2>5. DeadlineOfPrompt' /\ EnvFileRemoved'
    BY <2>1, OwnDeadline, OwnEnvFile
  <2>6. QED
    BY <1>1, <2>2, <2>3, <2>4, <2>5 DEF IndInv
<1>3. ASSUME NEW f \in Flows, NEW t \in Tickets, Consume(f, t)
      PROVE  IndInv'
  <2>1. /\ flow[f] = "new" /\ flow'[f] \in {"closed", "connected"}
        /\ \A g \in Flows \ {f} : flow'[g] = flow[g] /\ conn'[g] = conn[g]
        /\ UNCHANGED <<setup, keys, envFile, asked, deadline, merge, authEnv, env, meddled,
                       slip, saved>>
    BY <1>3 DEF Consume, Goes, IndInv, TypeOK
  <2>2. TypeOK'
    <3>1. flow' \in [Flows -> Relying \cup {"new", "connected", "running", "ending", "closed"}]
      <4>1. Goes(f, "closed") \/ Goes(f, "connected")
        BY <1>3 DEF Consume
      <4>2. flow \in [Flows -> Relying \cup {"new", "connected", "running", "ending", "closed"}]
        BY DEF IndInv, TypeOK
      <4>3. QED
        BY <4>1, <4>2 DEF Goes
    <3>2. conn' \in [Flows -> [ticket : Tickets, at : Nat, mode : {"agent", "bash"}] \cup {Absent}]
      BY <1>3 DEF Consume, Modes, IndInv, TypeOK, CredentialsTypeOK
    <3>3. \A g \in Flows : flow'[g] \in {"merge", "truncate", "write"} => merge'[g].key \in Vars
      BY <2>1 DEF IndInv, TypeOK
    <3>4. QED
      BY <1>1, <2>1, <3>1, <3>2, <3>3 DEF IndInv, TypeOK
  <2>3. DeadlineOfPrompt' /\ EnvFileRemoved'
    BY <2>1 DEF IndInv, DeadlineOfPrompt, EnvFileRemoved, HasEnvFile, Prompting
  <2>4. ASSUME NEW g \in Flows
        PROVE  /\ KeysGathered(g)' /\ KeysPassedOn(g)'
               /\ env'[g] # Absent => \/ conn'[g].mode = "bash" \/ env'[g] = Vars
                                      \/ meddled'[g] \/ slip'
    <3>1. KeysGathered(g) /\ KeysPassedOn(g)
      BY DEF IndInv
    <3>2. CASE g = f
      BY <2>1, <3>1, <3>2 DEF KeysGathered, KeysPassedOn
    <3>3. CASE g # f
      BY <2>1, <3>1, <3>3 DEF KeysGathered, KeysPassedOn, IndInv, KeysComplete
    <3>4. QED
      BY <3>2, <3>3
  <2>5. QED
    BY <1>1, <2>2, <2>3, <2>4 DEF IndInv, KeysComplete
<1>4. CASE UNCHANGED flowVars
  BY <1>1, <1>4
  DEF IndInv, flowVars, TypeOK, DeadlineOfPrompt, EnvFileRemoved, HasEnvFile, KeysComplete,
      KeysGathered, KeysPassedOn
<1>5. QED
  BY <1>2, <1>3, <1>4 DEF Next, vars

(* Every reachable state has the inductive invariant: what the stores hold *)
(* was issued and is unused, and each prompt has accounted for every key.  *)
THEOREM IndInvHolds == Spec => []IndInv
BY InitSound, NextSound, PTL DEF Spec

(* Every connection goes back to a ticket of its own, used in time, and to *)
(* a token that was good when the ticket was asked for.                    *)
THEOREM AdmissionAlwaysSound == Spec => []AdmissionSound
<1>1. IndInv => AdmissionSound
  <2> SUFFICES ASSUME IndInv, NEW f \in Flows, conn[f] # Absent
               PROVE  LET ticket == issued[conn[f].ticket]
                          grant == ticket.grant
                      IN /\ conn[f].at <= ticket.until
                         /\ grant.at <= issued[grant.token].until
                         /\ revoked[grant.token] # Absent => grant.at <= revoked[grant.token]
                         /\ \A g \in Flows \ {f} :
                               conn[g] # Absent => conn[g].ticket # conn[f].ticket
    BY DEF AdmissionSound
  <2>1. conn[f].ticket \in Tickets
    BY DEF IndInv, TypeOK
  <2>2. /\ issued[conn[f].ticket] # Absent /\ conn[f].at <= issued[conn[f].ticket].until
        /\ \A g \in Flows \ {f} : conn[g] # Absent => conn[g].ticket # conn[f].ticket
    BY DEF IndInv, TicketsUsedUp
  <2>3. Sound(issued[conn[f].ticket].grant)
    BY <2>1, <2>2 DEF IndInv, GrantsSound
  <2>4. QED
    BY <2>2, <2>3 DEF Sound
<1>2. QED
  BY <1>1, IndInvHolds, PTL

(* No key stays behind in .auth.env without a session that will remove it, *)
(* unless a command on the file failed.                                    *)
THEOREM EnvFileAlwaysRemoved == Spec => []EnvFileRemoved
<1>1. IndInv => EnvFileRemoved
  BY DEF IndInv
<1>2. QED
  BY <1>1, IndInvHolds, PTL

(* A sandboxed agent starts with all its keys, unless another connection   *)
(* of the user changed a file under it or a command failed.                *)
THEOREM KeysAlwaysComplete == Spec => []KeysComplete
<1>1. IndInv => KeysComplete
  BY DEF IndInv
<1>2. QED
  BY <1>1, IndInvHolds, PTL

(* The prompt's deadline is off the connection before a session starts.    *)
THEOREM DeadlineAlwaysTakenBack == Spec => []DeadlineTakenBack
<1>1. IndInv => DeadlineTakenBack
  BY DEF IndInv, DeadlineOfPrompt, DeadlineTakenBack, Prompting
<1>2. QED
  BY <1>1, IndInvHolds, PTL
=============================================================================
