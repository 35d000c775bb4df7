------------------------------ MODULE ApiKeys ------------------------------
(***************************************************************************)
(* From a ticket to a running session: the create branch of NewWs          *)
(* (handler/ws.go), with the prompt for missing keys                       *)
(* (handler/auth_flow.go) and the two files of the user it touches:        *)
(* .auth.json, which keeps the keys (auth/auth_file.go), and .auth.env,    *)
(* which carries them into a sandboxed session and is removed when that    *)
(* session closes (pty/session.go).  Both belong to the user, not to the   *)
(* session; nothing locks them, and every access is a command run through  *)
(* sudo, which may fail.                                                   *)
(*                                                                         *)
(* The flows are connections of one user.  A key is present or absent: its *)
(* value is left out, and so are the configuration files that name the     *)
(* required variables.  What Create, Attach and the shell do is in         *)
(* SessionManager and PtySession.                                          *)
(***************************************************************************)
EXTENDS Credentials

CONSTANTS
    Flows,       \* connections, each used once
    Vars,        \* the variables the agent's configuration refers to
    AuthTimeout, \* the prompt's time limit
    Setups       \* what a behaviour starts with, see setup

ASSUME ApiKeysAssumption ==
    /\ AuthTimeout \in Nat \ {0}
    /\ Setups \subseteq {"agent", "login"}

VARIABLES
    setup,     \* "agent": the tickets are issued, for an agent or bash;
               \* "login": nothing is issued yet; to bound the run, its
               \* connections are not followed beyond their opening
    flow,      \* how far each connection is
    conn,      \* ticket, time and mode it was opened with, or Absent
    keys,      \* .auth.json: its state and the keys it has
    envFile,   \* .auth.env: is it there, and the keys it has
    asked,     \* what each prompt still waits for
    deadline,  \* read deadline of each connection, or Absent
    merge,     \* the key each flow is writing, and the file it will write
    authEnv,   \* the keys each flow hands to its session
    env,       \* the keys each program has found in .auth.env, or Absent
    meddled,   \* history: another flow changed a file while this one was
               \* relying on what it had read or written
    slip,      \* history: a command on .auth.env has failed
    saved      \* history: the keys WriteAuthFile has reported as written

flowVars == <<setup, flow, conn, keys, envFile, asked, deadline, merge,
              authEnv, env, meddled, slip, saved>>
vars == <<credVars, flowVars>>

Prompting == {"prompt", "merge", "truncate", "write"}
Relying == Prompting \cup {"reread", "env", "launch", "starting"}

HasEnvFile(f) == flow[f] \in {"launch", "starting", "running", "ending"}
                 /\ authEnv[f] # {}

NoFile == [there |-> FALSE, has |-> {}]

(* Flow f changes a file that other flows rely on.                         *)
Meddles(f) ==
    meddled' = [g \in Flows |-> meddled[g] \/ (g # f /\ flow[g] \in Relying)]

Init ==
    /\ setup \in Setups
    /\ now = 0
    /\ tokens = [k \in Tokens |-> Absent]
    /\ request = [r \in Requests |-> Absent]
    /\ sweep = [s \in {"tokens", "tickets"} |-> Absent]
    /\ revoked = [k \in Tokens |-> Absent]
    /\ \E u \in Users, k \in Tokens :
          LET tok == [user |-> u, until |-> TokenTTL]
              grant == [token |-> k, user |-> u, at |-> 0]
          IN IF setup = "login"
             THEN /\ tickets = [t \in Tickets |-> Absent]
                  /\ issued = [x \in Tokens \cup Tickets |-> Absent]
             ELSE /\ tickets = [t \in Tickets |-> [user |-> u, until |-> TicketTTL]]
                  /\ issued = [x \in Tokens \cup Tickets |->
                        IF x \in Tokens THEN tok
                        ELSE [grant |-> grant, until |-> TicketTTL]]
    /\ flow = [f \in Flows |-> "new"]
    /\ conn = [f \in Flows |-> Absent]
    /\ \E S \in SUBSET Vars :
          keys = [state |-> IF S = {} THEN "none" ELSE "ok", has |-> S]
    /\ envFile = NoFile
    /\ asked = [f \in Flows |-> {}]
    /\ deadline = [f \in Flows |-> Absent]
    /\ merge = [f \in Flows |-> [key |-> Absent, file |-> {}]]
    /\ authEnv = [f \in Flows |-> {}]
    /\ env = [f \in Flows |-> Absent]
    /\ meddled = [f \in Flows |-> FALSE]
    /\ slip = FALSE
    /\ saved = {}

Goes(f, there) == flow' = [flow EXCEPT ![f] = there]

(* The mode is the ticket's; it is drawn here, where it first matters.     *)
Modes == IF setup = "agent" THEN {"agent", "bash"} ELSE {"bash"}

(* Mutant of Consume: only an expired ticket is taken out of the store.    *)
ConsumeKeeps(f, t) ==
    /\ flow[f] = "new"
    /\ tickets[t] # Absent
    /\ tickets' = IF Expired(tickets[t]) THEN [tickets EXCEPT ![t] = Absent] ELSE tickets
    /\ IF Expired(tickets[t])
       THEN Goes(f, "closed") /\ UNCHANGED conn
       ELSE /\ Goes(f, "connected")
            /\ \E m \in Modes : conn' = [conn EXCEPT ![f] = [ticket |-> t, at |-> now, mode |-> m]]
    /\ UNCHANGED <<now, tokens, request, sweep, issued, revoked, setup, keys,
                   envFile, asked, deadline, merge, authEnv, env, meddled,
                   slip, saved>>

(* TicketStore.Consume, before the connection is upgraded.                 *)
Consume(f, t) ==
    /\ flow[f] = "new"
    /\ tickets[t] # Absent
    /\ tickets' = [tickets EXCEPT ![t] = Absent]
    /\ IF Expired(tickets[t])
       THEN Goes(f, "closed") /\ UNCHANGED conn
       ELSE /\ Goes(f, "connected")
            /\ \E m \in Modes : conn' = [conn EXCEPT ![f] = [ticket |-> t, at |-> now, mode |-> m]]
    /\ UNCHANGED <<now, tokens, request, sweep, issued, revoked, setup, keys,
                   envFile, asked, deadline, merge, authEnv, env, meddled,
                   slip, saved>>

(* The flow ends before a session exists: the client cancels, hangs up or  *)
(* is not upgraded, or a command fails; wsClose.                           *)
GivesUp(f) ==
    /\ setup = "agent"
    /\ flow[f] \in {"connected", "prompt", "merge", "truncate", "reread"}
    /\ Goes(f, "closed")
    /\ UNCHANGED <<credVars, setup, conn, keys, envFile, asked, deadline,
                   merge, authEnv, env, meddled, slip, saved>>

(* resolveAuthEnv: bash needs no key.                                      *)
NeedsNoKeys(f) ==
    /\ setup = "agent"
    /\ flow[f] = "connected"
    /\ conn[f].mode = "bash"
    /\ Goes(f, "env")
    /\ UNCHANGED <<credVars, setup, conn, keys, envFile, asked, deadline,
                   merge, authEnv, env, meddled, slip, saved>>

Readable == keys.state \in {"none", "ok"}

(* resolveAuthEnv reads .auth.json, and asks for what is missing.  (The    *)
(* last guard bounds the clock: a deadline lies before its end.)           *)
ReadKeys(f) ==
    /\ flow[f] = "connected"
    /\ conn[f].mode = "agent"
    /\ now + AuthTimeout < MaxTime
    /\ IF ~Readable
       THEN Goes(f, "closed") /\ UNCHANGED <<asked, deadline, authEnv>>
       ELSE IF Vars \subseteq keys.has
            THEN /\ Goes(f, "env")
                 /\ authEnv' = [authEnv EXCEPT ![f] = Vars]
                 /\ UNCHANGED <<asked, deadline>>
            ELSE /\ Goes(f, "prompt")
                 /\ asked' = [asked EXCEPT ![f] = Vars \ keys.has]
                 /\ deadline' = [deadline EXCEPT ![f] = now + AuthTimeout]
                 /\ UNCHANGED authEnv
    /\ UNCHANGED <<credVars, setup, conn, keys, envFile, merge, env, meddled,
                   slip, saved>>

(* Mutant of IgnoredMessage: every message starts the wait anew.           *)
IgnoredMessageWaits(f) ==
    /\ flow[f] = "prompt"
    /\ now <= deadline[f]
    /\ deadline' = [deadline EXCEPT ![f] = now + AuthTimeout]
    /\ UNCHANGED <<credVars, setup, flow, conn, keys, envFile, asked, merge,
                   authEnv, env, meddled, slip, saved>>

(* A message that is not an answer, or answers what was not asked.         *)
IgnoredMessage(f) ==
    /\ flow[f] = "prompt"
    /\ now <= deadline[f]
    /\ UNCHANGED vars

(* An answer to something asked: WriteAuthFile begins.                     *)
Answer(f) ==
    /\ flow[f] = "prompt"
    /\ now <= deadline[f]
    /\ \E v \in asked[f] : merge' = [merge EXCEPT ![f] = [key |-> v, file |-> {v}]]
    /\ Goes(f, "merge")
    /\ UNCHANGED <<credVars, setup, conn, keys, envFile, asked, deadline,
                   authEnv, env, meddled, slip, saved>>

(* The deadline passes: ErrAuthTimeout.                                    *)
Timeout(f) ==
    /\ flow[f] = "prompt"
    /\ now > deadline[f]
    /\ Goes(f, "closed")
    /\ UNCHANGED <<credVars, setup, conn, keys, envFile, asked, deadline,
                   merge, authEnv, env, meddled, slip, saved>>

(* WriteAuthFile reads the file and merges ...                             *)
MergeRead(f) ==
    /\ flow[f] = "merge"
    /\ IF Readable
       THEN /\ Goes(f, "truncate")
            /\ merge' = [merge EXCEPT ![f].file = @ \cup keys.has]
       ELSE Goes(f, "closed") /\ UNCHANGED merge
    /\ UNCHANGED <<credVars, setup, conn, keys, envFile, asked, deadline,
                   authEnv, env, meddled, slip, saved>>

(* ... cat > .auth.json empties it ...                                     *)
Truncate(f) ==
    /\ flow[f] = "truncate"
    /\ Goes(f, "write")
    /\ keys' = [state |-> "empty", has |-> {}]
    /\ Meddles(f)
    /\ UNCHANGED <<credVars, setup, conn, envFile, asked, deadline, merge,
                   authEnv, env, slip, saved>>

Garbled == [state |-> "garbled", has |-> {}]

(* What is in the file after new is written from its start: if another     *)
(* flow wrote since it was emptied, and more, the end of that stays.       *)
WrittenOver(new) ==
    {[state |-> "ok", has |-> new]} \cup (IF keys.state = "empty" THEN {} ELSE {Garbled})

(* Mutant of MergeWrite: the flow is content with its first key.           *)
MergeWriteOnce(f) ==
    /\ flow[f] = "write"
    /\ keys' \in WrittenOver(merge[f].file)
    /\ asked' = [asked EXCEPT ![f] = {}]
    /\ Goes(f, "reread")
    /\ deadline' = [deadline EXCEPT ![f] = Absent]
    /\ saved' = saved \cup {merge[f].key}
    /\ Meddles(f)
    /\ UNCHANGED <<credVars, setup, conn, envFile, merge, authEnv, env, slip>>

(* Mutant of MergeWrite: the deadline stays on the connection.             *)
MergeWriteKeepsDeadline(f) ==
    /\ flow[f] = "write"
    /\ keys' \in WrittenOver(merge[f].file)
    /\ asked' = [asked EXCEPT ![f] = @ \ {merge[f].key}]
    /\ Goes(f, IF asked'[f] = {} THEN "reread" ELSE "prompt")
    /\ saved' = saved \cup {merge[f].key}
    /\ Meddles(f)
    /\ UNCHANGED <<credVars, setup, conn, envFile, deadline, merge, authEnv,
                   env, slip>>

(* ... and writes it; after the last key the deadline is taken back.       *)
MergeWrite(f) ==
    /\ flow[f] = "write"
    /\ keys' \in WrittenOver(merge[f].file)
    /\ asked' = [asked EXCEPT ![f] = @ \ {merge[f].key}]
    /\ IF asked'[f] = {}
       THEN Goes(f, "reread") /\ deadline' = [deadline EXCEPT ![f] = Absent]
       ELSE Goes(f, "prompt") /\ UNCHANGED deadline
    /\ saved' = saved \cup {merge[f].key}
    /\ Meddles(f)
    /\ UNCHANGED <<credVars, setup, conn, envFile, merge, authEnv, env, slip>>

(* The command fails: before, in or after the write, at the chmod.         *)
MergeFails(f) ==
    /\ flow[f] = "write"
    /\ keys' \in {keys, Garbled} \cup WrittenOver(merge[f].file)
    /\ Goes(f, "closed")
    /\ Meddles(f)
    /\ UNCHANGED <<credVars, setup, conn, envFile, asked, deadline,
                   merge, authEnv, env, slip, saved>>

(* resolveAuthEnv reads the file again.                                    *)
Reread(f) ==
    /\ flow[f] = "reread"
    /\ IF Readable
       THEN /\ Goes(f, "env")
            /\ authEnv' = [authEnv EXCEPT ![f] = Vars \cap keys.has]
       ELSE Goes(f, "closed") /\ UNCHANGED authEnv
    /\ UNCHANGED <<credVars, setup, conn, keys, envFile, asked, deadline,
                   merge, env, meddled, slip, saved>>

(* newSandboxSession: WriteAuthEnvFile, if there is a key to pass on.  If  *)
(* it fails there is no session, and nobody removes what it wrote.         *)
WriteEnv(f) ==
    /\ flow[f] = "env"
    /\ LET file == [there |-> TRUE, has |-> authEnv[f]]
       IN IF authEnv[f] = {}
          THEN Goes(f, "launch") /\ UNCHANGED <<envFile, slip, meddled>>
          ELSE /\ Meddles(f)
               /\ \/ Goes(f, "launch") /\ envFile' = file /\ UNCHANGED slip
                  \/ Goes(f, "closed") /\ envFile' \in {envFile, file} /\ slip' = TRUE
    /\ UNCHANGED <<credVars, setup, conn, keys, asked, deadline, merge,
                   authEnv, env, saved>>

(* RemoveAuthEnvFile for flow f; it may fail, which is only logged.        *)
Removes(f) ==
    IF authEnv[f] = {}
    THEN UNCHANGED <<envFile, slip, meddled>>
    ELSE /\ Meddles(f)
         /\ \/ envFile' = NoFile /\ UNCHANGED slip
            \/ slip' = TRUE /\ UNCHANGED envFile

(* Mutant of LaunchFails: the file stays.                                  *)
LaunchFailsOnly(f) ==
    /\ flow[f] = "launch"
    /\ Goes(f, "closed")
    /\ UNCHANGED <<credVars, setup, conn, keys, envFile, asked, deadline,
                   merge, authEnv, env, meddled, slip, saved>>

(* The pty or sudo does not start.                                         *)
LaunchFails(f) ==
    /\ flow[f] = "launch"
    /\ Goes(f, "closed")
    /\ Removes(f)
    /\ UNCHANGED <<credVars, setup, conn, keys, asked, deadline, merge,
                   authEnv, env, saved>>

Launch(f) ==
    /\ flow[f] = "launch"
    /\ Goes(f, "starting")
    /\ UNCHANGED <<credVars, setup, conn, keys, envFile, asked, deadline,
                   merge, authEnv, env, meddled, slip, saved>>

(* execProgram reads the file, which another flow may have removed or be   *)
(* about to write, and starts the program with what it finds.              *)
ProgramReadsEnv(f) ==
    /\ flow[f] = "starting"
    /\ Goes(f, "running")
    /\ \/ /\ env' = [env EXCEPT ![f] = IF authEnv[f] = {} THEN {} ELSE envFile.has]
          /\ UNCHANGED <<meddled, slip>>
       \/ /\ \E g \in Flows \ {f} : flow[g] = "env" /\ authEnv[g] # {}
          /\ env' = [env EXCEPT ![f] = {}]
          /\ meddled' = [meddled EXCEPT ![f] = TRUE]
          /\ UNCHANGED slip
       \/ /\ authEnv[f] # {}
          /\ env' = [env EXCEPT ![f] = {}]
          /\ slip' = TRUE
          /\ UNCHANGED meddled
    /\ UNCHANGED <<credVars, setup, conn, keys, envFile, asked, deadline,
                   merge, authEnv, saved>>

(* The session closes, or Create refuses it: Session.Close begins ...      *)
Ends(f) ==
    /\ flow[f] \in {"starting", "running"}
    /\ Goes(f, "ending")
    /\ UNCHANGED <<credVars, setup, conn, keys, envFile, asked, deadline,
                   merge, authEnv, env, meddled, slip, saved>>

(* ... and removes the file.                                               *)
RemovesEnv(f) ==
    /\ flow[f] = "ending"
    /\ Goes(f, "closed")
    /\ Removes(f)
    /\ UNCHANGED <<credVars, setup, conn, keys, asked, deadline, merge,
                   authEnv, env, saved>>

FlowStep(f) ==
    \/ GivesUp(f) \/ NeedsNoKeys(f) \/ ReadKeys(f)
    \/ IgnoredMessage(f) \/ Answer(f) \/ Timeout(f)
    \/ MergeRead(f) \/ Truncate(f) \/ MergeWrite(f) \/ MergeFails(f)
    \/ Reread(f) \/ WriteEnv(f) \/ LaunchFails(f) \/ Launch(f)
    \/ ProgramReadsEnv(f) \/ Ends(f) \/ RemovesEnv(f)

Next ==
    \/ setup = "login" /\ CredentialsNext /\ UNCHANGED flowVars
    \/ Tick /\ UNCHANGED flowVars
    \/ \E f \in Flows : FlowStep(f) \/ \E t \in Tickets : Consume(f, t)

Spec == Init /\ [][Next]_vars

(* Time passes; commands end; a read whose deadline has passed returns.    *)
(* The client need not answer, and may send what it likes.                 *)
FairSpec ==
    /\ Spec
    /\ WF_vars(Tick /\ UNCHANGED flowVars)
    /\ \A f \in Flows : /\ WF_vars(Timeout(f))
                        /\ WF_vars(MergeRead(f))
                        /\ WF_vars(Truncate(f))
                        /\ WF_vars(MergeWrite(f) \/ MergeFails(f))

-----------------------------------------------------------------------------
(* A connection goes back to one ticket of its own, taken in time, which   *)
(* goes back to a request that was let in by a token in its time and       *)
(* before it was revoked, whatever the sweepers and the other requests do  *)
(* in between (ticket.go:85-116, mgmt.go:73-108, session_api.go:71-89).    *)
AdmissionSound ==
    \A f \in {f \in Flows : conn[f] # Absent} :
        LET ticket == issued[conn[f].ticket]
            grant == ticket.grant
        IN /\ conn[f].at <= ticket.until
           /\ grant.at <= issued[grant.token].until
           /\ revoked[grant.token] # Absent => grant.at <= revoked[grant.token]
           /\ \A g \in Flows \ {f} :
                 conn[g] # Absent => conn[g].ticket # conn[f].ticket

(* The keys do not stay behind in .auth.env: while it exists there is a    *)
(* session, perhaps of another connection, that will remove it; unless a   *)
(* command on it failed (session.go:336-345, 368-371, 611-616).            *)
EnvFileRemoved ==
    envFile.there => slip \/ \E f \in Flows : HasEnvFile(f)

(* A sandboxed agent starts with every key its configuration refers to,    *)
(* stored or asked for, unless another connection of the user changed one  *)
(* of the files under it (auth_flow.go:123-172, sandbox.go:906-917).       *)
KeysComplete ==
    \A f \in Flows : env[f] # Absent =>
        conn[f].mode = "bash" \/ env[f] = Vars \/ meddled[f] \/ slip

(* The prompt's read deadline never reaches the session's readLoop         *)
(* (auth_flow.go:71 and 118).                                              *)
DeadlineTakenBack ==
    \A f \in Flows : flow[f] \in {"starting", "running"} => deadline[f] = Absent

(* A prompt ends, however many messages the client sends, because all its  *)
(* reads share one deadline (auth_flow.go:66-79).                          *)
PromptEnds == \A f \in Flows : flow[f] = "prompt" ~> flow[f] \notin Prompting

-----------------------------------------------------------------------------
(* The inductive invariant that the safety properties follow from.         *)

TypeOK ==
    /\ CredentialsTypeOK
    /\ setup \in Setups
    /\ flow \in [Flows -> Relying \cup {"new", "connected", "running", "ending", "closed"}]
    /\ conn \in [Flows -> [ticket : Tickets, at : Nat, mode : {"agent", "bash"}] \cup {Absent}]
    /\ keys \in [state : {"none", "ok", "empty", "garbled"}, has : SUBSET Vars]
    /\ envFile \in [there : BOOLEAN, has : SUBSET Vars]
    /\ asked \in [Flows -> SUBSET Vars]
    /\ deadline \in [Flows -> Nat \cup {Absent}]
    /\ merge \in [Flows -> [key : Vars \cup {Absent}, file : SUBSET Vars]]
    /\ \A f \in Flows : flow[f] \in {"merge", "truncate", "write"} => merge[f].key \in Vars
    /\ authEnv \in [Flows -> SUBSET Vars]
    /\ env \in [Flows -> (SUBSET Vars) \cup {Absent}]
    /\ meddled \in [Flows -> BOOLEAN] /\ slip \in BOOLEAN /\ saved \in SUBSET Vars

(* A connection has its ticket to itself, and the store has it no longer.  *)
TicketsUsedUp ==
    \A f \in Flows : conn[f] # Absent =>
        /\ issued[conn[f].ticket] # Absent /\ tickets[conn[f].ticket] = Absent
        /\ conn[f].at <= issued[conn[f].ticket].until
        /\ \A g \in Flows \ {f} : conn[g] # Absent => conn[g].ticket # conn[f].ticket

DeadlineOfPrompt ==
    \A f \in Flows : deadline[f] # Absent => flow[f] \in Prompting \cup {"closed"}

(* Unless another flow meddled: between them the file and what is still to *)
(* be asked or written have every key ...                                  *)
KeysGathered(f) ==
    \/ meddled[f]
    \/ /\ flow[f] \in {"prompt", "merge"} => Vars \subseteq asked[f] \cup keys.has
       /\ flow[f] = "merge" => merge[f].key \in merge[f].file
       /\ flow[f] \in {"truncate", "write"} =>
             /\ merge[f].key \in merge[f].file
             /\ Vars \subseteq asked[f] \cup merge[f].file
       /\ flow[f] = "write" => keys.state = "empty"
       /\ flow[f] = "reread" => Vars \subseteq keys.has

(* ... then the flow has them, then .auth.env, until the program is there. *)
KeysPassedOn(f) ==
    /\ env[f] # Absent => flow[f] \in {"running", "ending", "closed"}
    /\ flow[f] \in {"env", "launch", "starting"} =>
          conn[f].mode = "bash" \/ authEnv[f] = Vars \/ meddled[f]
    /\ flow[f] \in {"launch", "starting"} /\ authEnv[f] # {} =>
          envFile = [there |-> TRUE, has |-> authEnv[f]] \/ meddled[f] \/ slip

IndInv ==
    /\ TypeOK /\ StoresSound /\ GrantsSound /\ TicketsUsedUp
    /\ DeadlineOfPrompt /\ EnvFileRemoved /\ KeysComplete
    /\ \A f \in Flows : KeysGathered(f) /\ KeysPassedOn(f)

-----------------------------------------------------------------------------
(* What the comment says and the code does not always do: a write merges,  *)
(* so that keys do not overwrite each other; a file that can be read has   *)
(* every key that was written to it (auth_file.go:95-97).                  *)
KeysKept == keys.state = "ok" => saved \subseteq keys.has
=============================================================================
