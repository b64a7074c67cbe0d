------------------------------- MODULE Notify ------------------------------
(***************************************************************************)
(* Alert targets (internal/api/alerts.go, internal/store/alerts.go) and    *)
(* the notifications sent to them (internal/server/notify.go).             *)
(*                                                                         *)
(* An alert that fires or resolves starts a goroutine for every entry of   *)
(* its rule's list of targets, which may name a target twice, for nobody   *)
(* looks.  The goroutine reads the target when it runs, by which time      *)
(* the target may have been changed or deleted, and sends under a deadline *)
(* that a mail does not look at.  What the receivers do is the             *)
(* environment's choice.  The texts of a notification are left out.        *)
(***************************************************************************)
EXTENDS Integers, Sequences, FiniteSets

CONSTANTS
    Targets,      \* ids of alert targets
    Configs,      \* configurations as requested: type, and address, a sequence of fields
    MaxEvents,    \* bound: times the alert fires or resolves
    MaxIds,       \* bound: entries of the rule's list
    MaxEdits      \* bound: requests about the targets and the rule

Text == {"a", "b"}        \* fields that are non-empty strings
Types == {"webhook", "email", "script", "snmp"}

ASSUME NotifyConfigs ==
    \A c \in Configs : DOMAIN c = {"type", "to"} /\ c.to \in Seq(Text \cup {"", "number"})
ASSUME NotifyBounds == MaxEvents \in Nat /\ MaxEdits \in Nat /\ MaxIds \in Nat

Jobs == (1 .. MaxEvents) \X (1 .. MaxIds)
TargetLists == UNION {[1 .. n -> Targets] : n \in 0 .. MaxIds}

VARIABLES
    targets,    \* alert_targets: id -> configuration
    rule,       \* AlertRule.TargetIds
    edits,
    events,     \* alerts fired and resolved so far; the odd ones fired
    ids,        \* per event: the list it was sent out with
    job,        \* per event and entry of its list: the goroutine
    received    \* per goroutine: what its receivers have got, as a sequence of addresses

notifyVars == <<targets, rule, edits, events, ids, job, received>>

Missing == [type |-> "", to |-> <<>>]    \* no such row
NoJob == [pc |-> "none", target |-> Missing, next |-> 0, rcpt |-> <<>>, err |-> ""]

NotifyInit ==
    /\ targets = [t \in Targets |-> Missing] /\ rule = <<>> /\ edits = 0
    /\ events = 0 /\ ids = [e \in 1 .. MaxEvents |-> <<>>]
    /\ job = [j \in Jobs |-> NoJob] /\ received = [j \in Jobs |-> <<>>]

-----------------------------------------------------------------------------
(* The targets *)

isString(f) == f # "number"

(* The fields a type cannot do without.  An entry of "to" may be empty.    *)
validateTargetConfig(c) ==
    IF c.type = "email" THEN c.to # <<>> /\ \A i \in DOMAIN c.to : isString(c.to[i])
    ELSE c.to # <<>> /\ c.to[1] \in Text

(* handleCreateAlertTarget: script targets are for administrators. *)
handleCreateAlertTarget(t, c, admin) ==
    /\ targets[t] = Missing /\ edits < MaxEdits
    /\ (c.type = "script" => admin) /\ c.type \in Types /\ validateTargetConfig(c)
    /\ targets' = [targets EXCEPT ![t] = c] /\ edits' = edits + 1
    /\ UNCHANGED <<rule, events, ids, job, received>>

(* handleUpdateAlertTarget: the type that counts is the one on record. *)
handleUpdateAlertTarget(t, c, admin) ==
    /\ targets[t] # Missing /\ edits < MaxEdits
    /\ (targets[t].type = "script" => admin) /\ c.type \in Types /\ validateTargetConfig(c)
    /\ targets' = [targets EXCEPT ![t] = c] /\ edits' = edits + 1
    /\ UNCHANGED <<rule, events, ids, job, received>>

handleDeleteAlertTarget(t) ==
    /\ targets[t] # Missing /\ edits < MaxEdits
    /\ targets' = [targets EXCEPT ![t] = Missing] /\ edits' = edits + 1
    /\ UNCHANGED <<rule, events, ids, job, received>>

(* A rule is created or changed: every entry names a target there is. *)
handleUpdateAlertRule(list) ==
    /\ edits < MaxEdits /\ \A i \in DOMAIN list : targets[list[i]] # Missing
    /\ rule' = list /\ edits' = edits + 1
    /\ UNCHANGED <<targets, events, ids, job, received>>

-----------------------------------------------------------------------------
(* The notifications *)

(* The alert fires or resolves: a goroutine per entry of the rule's list.  *)
(* The rule keeps the ids of targets that have been deleted.               *)
notifyTargets ==
    /\ events < MaxEvents /\ events' = events + 1
    /\ ids' = [ids EXCEPT ![events + 1] = rule]
    /\ job' = [j \in Jobs |-> IF j[1] = events + 1 /\ j[2] \in DOMAIN rule
                              THEN [NoJob EXCEPT !.pc = "load"] ELSE job[j]]
    /\ UNCHANGED <<targets, rule, edits, received>>

step(j, pc) == job' = [job EXCEPT ![j].pc = pc]
fails(j, why) == job' = [job EXCEPT ![j].pc = "done", ![j].err = why]
done(j) == step(j, "done")
stays == UNCHANGED <<targets, rule, edits, events, ids>>
gets(j, who) == received' = [received EXCEPT ![j] = @ \o who]

(* GetAlertTarget, which may fail, and ten seconds from now on. *)
GetAlertTarget(j) ==
    LET target == targets[ids[j[1]][j[2]]] IN
    /\ job[j].pc = "load"
    /\ \/ fails(j, "not loaded")
       \/ /\ target # Missing
          /\ job' = [job EXCEPT ![j].pc = target.type, ![j].target = target]
    /\ UNCHANGED received /\ stays

unset(c) == c.to = <<>> \/ c.to[1] \notin Text

(* The deadline, which ends a request and a script. *)
Deadline(j) ==
    /\ job[j].pc \in {"webhook", "posted", "script", "running"}
    /\ fails(j, "deadline")
    /\ UNCHANGED received /\ stays

(* notifyWebhook: a missing URL, no connection, *)
notifyWebhook(j) ==
    /\ job[j].pc = "webhook"
    /\ IF unset(job[j].target) THEN fails(j, "unset") /\ UNCHANGED received
       ELSE \/ fails(j, "unreachable") /\ UNCHANGED received
            \/ step(j, "posted") /\ gets(j, <<job[j].target.to[1]>>)
    /\ stays

(* or a response, of whatever status. *)
Response(j) ==
    /\ job[j].pc = "posted" /\ done(j)
    /\ UNCHANGED received /\ stays

(* notifyScript: the script is started, *)
notifyScript(j) ==
    /\ job[j].pc = "script"
    /\ IF unset(job[j].target) THEN fails(j, "unset") /\ UNCHANGED received
       ELSE \/ fails(j, "exec") /\ UNCHANGED received
            \/ step(j, "running") /\ gets(j, <<job[j].target.to[1]>>)
    /\ stays

(* and ends well or not. *)
ScriptEnds(j) ==
    /\ job[j].pc = "running" /\ (done(j) \/ fails(j, "exit"))
    /\ UNCHANGED received /\ stays

(* notifySNMP: one datagram, which nobody acknowledges. *)
notifySNMP(j) ==
    /\ job[j].pc = "snmp"
    /\ IF unset(job[j].target) THEN fails(j, "unset") /\ UNCHANGED received
       ELSE \/ fails(j, "send") /\ UNCHANGED received
            \/ done(j) /\ UNCHANGED received
            \/ done(j) /\ gets(j, <<job[j].target.to[1]>>)
    /\ stays

(* The strings among the entries of "to", one after the other. *)
recipients(c) ==
    LET among[i \in 0 .. Len(c.to)] ==
            IF i = 0 THEN <<>>
            ELSE IF isString(c.to[i]) THEN Append(among[i - 1], c.to[i]) ELSE among[i - 1]
    IN  among[Len(c.to)]

(* notifyEmail: dial, STARTTLS, authentication and MAIL succeed or end it. *)
notifyEmail(j, configured) ==
    /\ job[j].pc = "email"
    /\ IF ~configured THEN fails(j, "no SMTP")
       ELSE IF recipients(job[j].target) = <<>> THEN fails(j, "unset")
       ELSE fails(j, "session") \/ job' = [job EXCEPT ![j].pc = "rcpt", ![j].next = 1]
    /\ UNCHANGED received /\ stays

(* The server takes recipient number next, and there is another or not. *)
takes(j, who) ==
    job' = [job EXCEPT ![j].next = @ + 1, ![j].rcpt = @ \o who,
                       ![j].pc = IF job[j].next < Len(recipients(job[j].target)) THEN "rcpt" ELSE "data"]

(* Mutant of Rcpt: a recipient the server refuses is left out. *)
RcptSkips(j) ==
    /\ job[j].pc = "rcpt"
    /\ takes(j, <<>>) \/ takes(j, <<recipients(job[j].target)[job[j].next]>>)
    /\ UNCHANGED received /\ stays

(* One RCPT for each recipient; one that is refused ends the mail. *)
Rcpt(j) ==
    /\ job[j].pc = "rcpt"
    /\ fails(j, "refused") \/ takes(j, <<recipients(job[j].target)[job[j].next]>>)
    /\ UNCHANGED received /\ stays

(* DATA: the server takes the mail for every recipient or for none, and    *)
(* QUIT may fail afterwards.                                               *)
Data(j) ==
    /\ job[j].pc = "data"
    /\ \/ fails(j, "data") /\ UNCHANGED received
       \/ /\ gets(j, job[j].rcpt)
          /\ done(j) \/ fails(j, "quit")
    /\ stays

NotifyNext ==
    \/ \E t \in Targets, c \in Configs, admin \in BOOLEAN :
          handleCreateAlertTarget(t, c, admin) \/ handleUpdateAlertTarget(t, c, admin)
    \/ \E t \in Targets : handleDeleteAlertTarget(t)
    \/ \E list \in TargetLists : handleUpdateAlertRule(list)
    \/ notifyTargets
    \/ \E j \in Jobs :
          \/ GetAlertTarget(j) \/ Deadline(j) \/ notifyWebhook(j) \/ Response(j) \/ notifyScript(j)
          \/ ScriptEnds(j) \/ notifySNMP(j) \/ Rcpt(j) \/ Data(j)
          \/ \E configured \in BOOLEAN : notifyEmail(j, configured)

-----------------------------------------------------------------------------
(* Properties *)

(* A notification is whole.  Whatever becomes of the target and the rule   *)
(* meanwhile, a goroutine reaches its target once at most, under one       *)
(* configuration of it (a target listed twice has two goroutines and may   *)
(* be told twice); a mail goes to everyone on it or to nobody; a goroutine *)
(* that logs no failure has sent a mail to all, posted a request or run a  *)
(* script; and none ever finds a target without the fields its type needs, *)
(* which the API has checked in another place than the senders do.         *)
NotifiedWhole ==
    \A j \in Jobs : LET g == job[j] all == g.target.to IN
       /\ g.target.type = "email" => received[j] \in {<<>>, all}
       /\ g.target.type # "email" => received[j] = <<>> \/ received[j] = <<all[1]>>
       /\ g.pc = "done" /\ g.err = "" /\ g.target.type # "snmp" => received[j] # <<>>
       /\ g.err # "unset"

=============================================================================
