---- MODULE Integrations ----
(***************************************************************************)
(* Exchange with an external system (iams/integrations.py).  Inbound: a    *)
(* webhook upserts an entity or a finding by (source name, external id)    *)
(* and records an event in the same transaction; deliveries come twice, in *)
(* any order, and at the same time.  Outbound: each save of a user is      *)
(* pushed, from the process that saved it, to every target in turn.        *)
(***************************************************************************)
EXTENDS Naturals

CONSTANTS
  Hook,      \* processes serving webhooks
  SourceNames, Payloads,
  Messages,  \* deliveries: what they carry, whether the required fields and an
             \* audit title are in
  Pusher,    \* processes saving the user
  Targets,   \* sources with outbound_pushes_users
  MaxSaves, NoPayload

ExternalKinds == {"entity", "finding"}
Keys == ExternalKinds \X SourceNames   \* one external id of each kind

ASSUME IntegrationsAssumption ==
  /\ Messages \subseteq [kind : ExternalKinds, payload : Payloads, complete : BOOLEAN, titled : BOOLEAN]
  /\ NoPayload \notin Payloads /\ MaxSaves \in Nat

VARIABLES
  source,    \* the name of the integration source; paused, it receives nothing
  rows,      \* the row under each key: NoRow, or its payload and marks
  audits,    \* names under which the audit of the finding exists
  ledger,    \* the last accepted event of each key since its row was deleted
  hooks,     \* the delivery each process serves
  user,      \* how often the user has been saved
  remote,    \* what each target knows of the user
  outcome,   \* the last outbound event of each target, with what it sent
  pushes,    \* what each process still has to push
  crossed,   \* history: two pushes of the user were under way together
  unreached  \* history: targets a push broke off before, and none has reached since

integrationVars ==
  <<source, rows, audits, ledger, hooks, user, remote, outcome, pushes, crossed, unreached>>
inboundVars == <<source, rows, audits, ledger, hooks>>
outboundVars == <<user, remote, outcome, pushes, crossed, unreached>>

NoRow == [payload |-> NoPayload, deleted |-> FALSE, edited |-> FALSE]
NoHook == [stage |-> "none"]
NoPush == [left |-> {}, version |-> 0]

IntegrationsTypeOK ==
  /\ source \in SourceNames
  /\ rows \in [Keys -> {NoRow} \union [payload : Payloads, deleted : BOOLEAN, edited : BOOLEAN]]
  /\ audits \subseteq SourceNames
  /\ ledger \in [Keys -> Payloads \union {NoPayload}]
  /\ \A h \in Hook : hooks[h] # NoHook =>
       hooks[h].stage \in {"checked", "inside"} /\ hooks[h].msg \in Messages
  /\ user \in 0..MaxSaves /\ remote \in [Targets -> 0..MaxSaves]
  /\ outcome \in [Targets -> [answer : {"none", "accepted", "failed"}, version : 0..MaxSaves]]
  /\ pushes \in [Pusher -> [left : SUBSET Targets, version : 0..MaxSaves]]
  /\ crossed \in BOOLEAN /\ unreached \subseteq Targets

IntegrationsInit ==
  /\ source \in SourceNames
  /\ rows = [k \in Keys |-> NoRow] /\ audits = {}
  /\ ledger = [k \in Keys |-> NoPayload]
  /\ hooks = [h \in Hook |-> NoHook]
  /\ user = 0 /\ remote = [t \in Targets |-> 0]
  /\ outcome = [t \in Targets |-> [answer |-> "none", version |-> 0]]
  /\ pushes = [p \in Pusher |-> NoPush] /\ crossed = FALSE /\ unreached = {}

----
Serving(h, stage) == hooks[h] # NoHook /\ hooks[h].stage = stage
KeyOf(h) == <<hooks[h].msg.kind, hooks[h].name>>
Finish(h) == hooks' = [hooks EXCEPT ![h] = NoHook]

\* Faulty variant: the event is recorded as accepted before the transaction.
ReceiveRecorded(h, msg) ==
  /\ hooks[h] = NoHook
  /\ msg.complete /\ (msg.kind = "entity" \/ msg.titled \/ source \in audits)
  /\ hooks' = [hooks EXCEPT ![h] = [stage |-> "checked", msg |-> msg, name |-> source]]
  /\ ledger' = [ledger EXCEPT ![<<msg.kind, source>>] = msg.payload]
  /\ UNCHANGED <<source, rows, audits>>

\* IntegrationWebhookView.post: the source, enabled and active, as loaded; a bad
\* signature is answered 401 and leaves no trace.  A payload without its required
\* fields, or a finding without an audit or the title to create one, leaves a
\* rejected event and goes no further; the audit is looked up before the
\* transaction.
Receive(h, msg) ==
  /\ hooks[h] = NoHook
  /\ msg.complete /\ (msg.kind = "entity" \/ msg.titled \/ source \in audits)
  /\ hooks' = [hooks EXCEPT ![h] = [stage |-> "checked", msg |-> msg, name |-> source]]
  /\ UNCHANGED <<source, rows, audits, ledger>>

\* The transaction takes the row of its key; another delivery of it waits.  An
\* audit deleted since the check is created, when the payload has its title.
Enter(h) ==
  /\ Serving(h, "checked")
  /\ \A x \in Hook \ {h} : ~(Serving(x, "inside") /\ KeyOf(x) = KeyOf(h))
  /\ hooks[h].msg.kind = "entity" \/ hooks[h].name \in audits \/ hooks[h].msg.titled
  /\ hooks' = [hooks EXCEPT ![h].stage = "inside"]
  /\ UNCHANGED <<source, rows, audits, ledger>>

\* Row and accepted event commit together.  A soft-deleted entity is hidden from
\* the lookup and collides with the constraint: that delivery cannot commit.
Accept(h) ==
  /\ Serving(h, "inside") /\ ~rows[KeyOf(h)].deleted
  /\ rows' = [rows EXCEPT ![KeyOf(h)] =
       [payload |-> hooks[h].msg.payload, deleted |-> FALSE, edited |-> FALSE]]
  /\ ledger' = [ledger EXCEPT ![KeyOf(h)] = hooks[h].msg.payload]
  /\ audits' = IF hooks[h].msg.kind = "finding" THEN audits \union {hooks[h].name} ELSE audits
  /\ Finish(h)
  /\ UNCHANGED source

\* A collision, a missing title, a lost connection: rolled back, and no event.
Fail(h) ==
  /\ Serving(h, "checked") \/ Serving(h, "inside")
  /\ Finish(h)
  /\ UNCHANGED <<source, rows, audits, ledger>>

\* Users edit and delete what was ingested: an entity is hidden, a finding is
\* gone, alone or with its audit.  No delivery holds the row meanwhile.
Unlocked(k) == \A h \in Hook : Serving(h, "inside") => KeyOf(h) # k
EditRow(k) ==
  /\ rows[k] # NoRow /\ Unlocked(k)
  /\ rows' = [rows EXCEPT ![k].edited = TRUE]
  /\ UNCHANGED <<source, audits, ledger, hooks>>
DeleteRow(k) ==
  /\ rows[k] # NoRow /\ Unlocked(k)
  /\ rows' = [rows EXCEPT ![k] = IF k[1] = "entity" THEN [@ EXCEPT !.deleted = TRUE] ELSE NoRow]
  /\ ledger' = IF k[1] = "entity" THEN ledger ELSE [ledger EXCEPT ![k] = NoPayload]
  /\ UNCHANGED <<source, audits, hooks>>
DeleteAudit(n) ==
  /\ n \in audits /\ Unlocked(<<"finding", n>>)
  /\ audits' = audits \ {n}
  /\ rows' = [rows EXCEPT ![<<"finding", n>>] = NoRow]
  /\ ledger' = [ledger EXCEPT ![<<"finding", n>>] = NoPayload]
  /\ UNCHANGED <<source, hooks>>

\* PATCH of the source: later deliveries go under the new name.
RenameSource(n) ==
  /\ source' = n
  /\ UNCHANGED <<rows, audits, ledger, hooks>>

----
\* The user is saved; post_save pushes the saved values to every target.
SaveUser(p) ==
  /\ pushes[p].left = {} /\ user < MaxSaves
  /\ user' = user + 1
  /\ pushes' = [pushes EXCEPT ![p] = [left |-> Targets, version |-> user + 1]]
  /\ crossed' = (crossed \/ \E x \in Pusher \ {p} : pushes[x].left # {})
  /\ UNCHANGED <<remote, outcome, unreached>>

\* One target answers 2xx, or an error, or nothing: a request that timed out may
\* have arrived.  Each outcome is recorded; nothing is sent again.
Push(p, t, arrives, answer) ==
  /\ t \in pushes[p].left /\ (answer = "accepted" => arrives)
  /\ pushes' = [pushes EXCEPT ![p].left = @ \ {t}]
  /\ remote' = IF arrives THEN [remote EXCEPT ![t] = pushes[p].version] ELSE remote
  /\ outcome' = [outcome EXCEPT ![t] = [answer |-> answer, version |-> pushes[p].version]]
  /\ unreached' = unreached \ {t}
  /\ UNCHANGED <<user, crossed>>

\* The process dies, or an error that is not the request's is caught around the
\* whole round: the targets left get nothing, but one of them may have heard and
\* its event is missing.
BreakOff(p) ==
  /\ pushes[p].left # {}
  /\ pushes' = [pushes EXCEPT ![p].left = {}]
  /\ remote' \in {remote} \union {[remote EXCEPT ![t] = pushes[p].version] : t \in pushes[p].left}
  /\ unreached' = unreached \union pushes[p].left
  /\ UNCHANGED <<user, outcome, crossed>>

InboundNext ==
  \/ \E h \in Hook :
       \/ \E msg \in Messages : Receive(h, msg)
       \/ Enter(h) \/ Accept(h) \/ Fail(h)
  \/ \E k \in Keys : EditRow(k) \/ DeleteRow(k)
  \/ \E n \in SourceNames : DeleteAudit(n) \/ RenameSource(n)
OutboundNext ==
  \E p \in Pusher :
    \/ SaveUser(p) \/ BreakOff(p)
    \/ \E t \in Targets, arrives \in BOOLEAN, answer \in {"accepted", "failed"} :
         Push(p, t, arrives, answer)

IntegrationsNext ==
  \/ InboundNext /\ UNCHANGED outboundVars
  \/ OutboundNext /\ UNCHANGED inboundVars

IntegrationsSpec == IntegrationsInit /\ [][IntegrationsNext]_integrationVars

----
\* The ledger of events tells what the system holds: a row exists exactly when
\* an event of its key was accepted since the last deletion, its content is the
\* last accepted payload until a user edits it, and a finding has its audit.  A
\* target knows no less of the user than its last accepted event sent; and when
\* nothing is left to push, that event is of the last save, but for the targets a
\* push broke off before: the next save reaches them again.  Excepted are saves
\* that were pushed together.
Silent(t) == \A p \in Pusher : t \notin pushes[p].left
LedgerTells ==
  /\ \A k \in Keys :
       /\ rows[k] = NoRow <=> ledger[k] = NoPayload
       /\ ~rows[k].edited => rows[k].payload = ledger[k]
       /\ k[1] = "finding" /\ rows[k] # NoRow => k[2] \in audits
  /\ ~crossed => \A t \in Targets :
       /\ outcome[t].answer = "accepted" => remote[t] >= outcome[t].version
       /\ Silent(t) /\ t \notin unreached => outcome[t].version = user
====
