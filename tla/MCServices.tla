----------------------------- MODULE MCServices -----------------------------
(***************************************************************************)
(* Small instances of the components that deliver messages (the checkpoint *)
(* of a side effect, the email queue, the delivery log, the two webhook    *)
(* receivers, the notification feed) and of those that decide who may do   *)
(* what (ownership transfers, invitations, maintainer approvals and their  *)
(* risk score, capability tokens, impersonation sessions, the audited      *)
(* feature flags), and of what runs in the browser: the queue of offline   *)
(* operations in several tabs, the payer's page with its wallet button,    *)
(* the stream of incoming payments. They share no state: `part` picks the  *)
(* one a behaviour exercises, and the others stay idle.                    *)
(***************************************************************************)
EXTENDS TLC

CONSTANTS Runs, Prints, Asks, StaleAfter, MaxClock, Requests, Keys, NoKey, Bodies,
          MaxPerInvoice, WalletLimit, MaxAttempts, MaxFaults, Events, Capacity, Window,
          MaxNow, Calls, Details, None, Mails, MaxTries, LogCapacity, Users, Transfers,
          Ttls, MaxTime, Inviters, Emails, MaxPerWindow, MaxPerEmail, InviteWindow,
          Lifetime, MaxInvites, MaxDay, Maintainers, Actions, TwoPerson, MaxIntents,
          IntentTtl, MaxMinute, RiskWindow, MaxEvents, MaxHistory, MaxMishaps, MaxTick,
          Tokens, Subjects, Targets, Callers, TokenTtls, MaxTtl, Skew, LedgerCapacity,
          MaxMs, Staff, Durations, MaxSessions, MaxStarts, MaxTrail, MaxMoment, Flags,
          Admins, MaxVersion, Tabs, Ops, MaxRetries, PageInvoices, MaxOpened, MaxRequests,
          Components, Payments, MaxStreams

VARIABLES part, clock, store, row, run, effects, slow, rows, req, worker, breaker,
          walletSends, quotaUsed, accepted, faults, now, entries, passed, record, call,
          handled, outlived, status, prefs, feed, audit, mail, log, tries, told, time,
          owner, transfer, active, seized, day, invites, inviterTimes, targetTimes, minute,
          intents, receipts, ran, tick, byTarget, failures, attempts, mishaps, ms, claims,
          ledger, revokedIds, revokedSubjects, using, succeeded, banned, moment, sessions,
          trail, version, overrides, evidence, seen, storage, map, opTold, tabRun, air,
          entity, made, done, shared, released, server, past, at, generation, payment,
          polling, loadError, requests, loading, wallets, astray, ui, connected, stream,
          callbacks, opened, open, timers, waiting, reading, paid, announced

\* One invoice of one seller.
Owner == "i1" :> "s1"

\* The first inviter may invite to every role, the second to the lower two.
RoleOf == "ann" :> "ADMIN" @@ "bob" :> "COLLABORATOR"

\* The environment turns the first flag on and leaves the second at its safe default.
EnvValue == "f1" :> TRUE @@ "f2" :> FALSE

checkpointVars == <<clock, store, row, run, effects, slow>>
queueVars == <<rows, req, worker, breaker, walletSends, quotaUsed, accepted, faults>>
replayVars == <<now, entries, passed>>
processVars == <<record, call, handled, outlived>>
noticesVars == <<status, prefs, feed, audit>>
mailerVars == <<mail, log, tries, told>>
transferVars == <<time, owner, transfer, active, seized>>
inviteVars == <<day, invites, inviterTimes, targetTimes>>
approvalVars == <<minute, intents, receipts, ran>>
riskVars == <<tick, byTarget, failures, attempts, mishaps>>
tokenVars == <<ms, claims, ledger, revokedIds, revokedSubjects, using, succeeded, banned>>
sessionVars == <<moment, sessions, trail>>
configVars == <<version, overrides, evidence, seen>>
offlineVars == <<storage, map, opTold, tabRun, air, entity, made, done, shared, released>>
pageVars == <<server, past, at, generation, payment, polling, loadError, requests, loading, wallets, astray>>
streamVars == <<ui, connected, stream, callbacks, opened, open, timers, waiting, reading, paid, announced>>

OnceOnly == INSTANCE OnceOnly
Queue == INSTANCE EmailQueue
Notifications == INSTANCE Notifications
Collaboration == INSTANCE Collaboration
Approvals == INSTANCE Approvals
AccessGrants == INSTANCE AccessGrants
Offline == INSTANCE OperationQueue
PaymentFrontend == INSTANCE PaymentFrontend WITH Invoices <- PageInvoices

\* What the components are configured with.
ASSUME ServicesConstants ==
    /\ OnceOnly!CheckpointConstants /\ OnceOnly!ReplayConstants
    /\ Notifications!MailConstants /\ Collaboration!TransferConstants
    /\ Collaboration!InviteConstants /\ Approvals!RiskConstants /\ AccessGrants!TokenConstants

Idle == "idle"

vars == <<part, checkpointVars, queueVars, replayVars, processVars, noticesVars, mailerVars,
        transferVars, inviteVars, approvalVars, riskVars, tokenVars, sessionVars,
        configVars, offlineVars, pageVars, streamVars>>

Init ==
    /\ part \in {"checkpoint", "queue", "replay", "process", "notices", "mailer", "transfer",
        "invite", "approval", "risk", "token", "session", "config", "offline", "page",
        "stream"}
    /\ IF part = "checkpoint" THEN OnceOnly!CheckpointInit
       ELSE clock = Idle /\ store = Idle /\ row = Idle /\ run = Idle /\ effects = Idle /\ slow = Idle
    /\ IF part = "queue" THEN Queue!Init
       ELSE rows = Idle /\ req = Idle /\ worker = Idle /\ breaker = Idle /\ walletSends = Idle /\
            quotaUsed = Idle /\ accepted = Idle /\ faults = Idle
    /\ IF part = "replay" THEN OnceOnly!ReplayInit
       ELSE now = Idle /\ entries = Idle /\ passed = Idle
    /\ IF part = "process" THEN OnceOnly!ProcessInit
       ELSE record = Idle /\ call = Idle /\ handled = Idle /\ outlived = Idle
    /\ IF part = "notices" THEN Notifications!FeedInit
       ELSE status = Idle /\ prefs = Idle /\ feed = Idle /\ audit = Idle
    /\ IF part = "mailer" THEN Notifications!MailInit
       ELSE mail = Idle /\ log = Idle /\ tries = Idle /\ told = Idle
    /\ IF part = "transfer" THEN Collaboration!TransferInit
       ELSE time = Idle /\ owner = Idle /\ transfer = Idle /\ active = Idle /\ seized = Idle
    /\ IF part = "invite" THEN Collaboration!InviteInit
       ELSE day = Idle /\ invites = Idle /\ inviterTimes = Idle /\ targetTimes = Idle
    /\ IF part = "approval" THEN Approvals!IntentInit
       ELSE minute = Idle /\ intents = Idle /\ receipts = Idle /\ ran = Idle
    /\ IF part = "risk" THEN Approvals!RiskInit
       ELSE tick = Idle /\ byTarget = Idle /\ failures = Idle /\ attempts = Idle /\ mishaps = Idle
    /\ IF part = "token" THEN AccessGrants!TokenInit
       ELSE ms = Idle /\ claims = Idle /\ ledger = Idle /\ revokedIds = Idle /\ revokedSubjects = Idle
            /\ using = Idle /\ succeeded = Idle /\ banned = Idle
    /\ IF part = "session" THEN AccessGrants!SessionInit
       ELSE moment = Idle /\ sessions = Idle /\ trail = Idle
    /\ IF part = "config" THEN AccessGrants!ConfigInit
       ELSE version = Idle /\ overrides = Idle /\ evidence = Idle /\ seen = Idle
    /\ IF part = "offline" THEN Offline!Init
       ELSE storage = Idle /\ map = Idle /\ opTold = Idle /\ tabRun = Idle /\ air = Idle /\ entity =
            Idle /\ made = Idle /\ done = Idle /\ shared = Idle /\ released = Idle
    /\ IF part = "page" THEN PaymentFrontend!PageInit
       ELSE server = Idle /\ past = Idle /\ at = Idle /\ generation = Idle /\ payment = Idle /\ polling
            = Idle /\ loadError = Idle /\ requests = Idle /\ loading = Idle /\ wallets =
            Idle /\ astray = Idle
    /\ IF part = "stream" THEN PaymentFrontend!StreamInit
       ELSE ui = Idle /\ connected = Idle /\ stream = Idle /\ callbacks = Idle /\ opened = Idle /\ open
            = Idle /\ timers = Idle /\ waiting = Idle /\ reading = Idle /\ paid = Idle /\
            announced = Idle

Next ==
    /\ UNCHANGED part
    /\ part # "checkpoint" => UNCHANGED checkpointVars
    /\ part # "queue" => UNCHANGED queueVars
    /\ part # "replay" => UNCHANGED replayVars
    /\ part # "process" => UNCHANGED processVars
    /\ part # "notices" => UNCHANGED noticesVars
    /\ part # "mailer" => UNCHANGED mailerVars
    /\ part # "transfer" => UNCHANGED transferVars
    /\ part # "invite" => UNCHANGED inviteVars
    /\ part # "approval" => UNCHANGED approvalVars
    /\ part # "risk" => UNCHANGED riskVars
    /\ part # "token" => UNCHANGED tokenVars
    /\ part # "session" => UNCHANGED sessionVars
    /\ part # "config" => UNCHANGED configVars
    /\ part # "offline" => UNCHANGED offlineVars
    /\ part # "page" => UNCHANGED pageVars
    /\ part # "stream" => UNCHANGED streamVars
    /\ \/ part = "checkpoint" /\ OnceOnly!CheckpointNext
       \/ part = "queue" /\ Queue!Next
       \/ part = "replay" /\ OnceOnly!ReplayNext
       \/ part = "process" /\ OnceOnly!ProcessNext
       \/ part = "notices" /\ Notifications!FeedNext
       \/ part = "mailer" /\ Notifications!MailNext
       \/ part = "transfer" /\ Collaboration!TransferNext
       \/ part = "invite" /\ Collaboration!InviteNext
       \/ part = "approval" /\ Approvals!IntentNext
       \/ part = "risk" /\ Approvals!RiskNext
       \/ part = "token" /\ AccessGrants!TokenNext
       \/ part = "session" /\ AccessGrants!SessionNext
       \/ part = "config" /\ AccessGrants!ConfigNext
       \/ part = "offline" /\ Offline!Next
       \/ part = "page" /\ PaymentFrontend!PageNext
       \/ part = "stream" /\ PaymentFrontend!StreamNext

Spec == Init /\ [][Next]_vars

-----------------------------------------------------------------------------
\* Every component's state has its type.
TypeOK ==
    /\ part = "checkpoint" => OnceOnly!CheckpointTypeOK
    /\ part = "queue" => Queue!TypeOK
    /\ part = "replay" => OnceOnly!ReplayTypeOK
    /\ part = "process" => OnceOnly!ProcessTypeOK
    /\ part = "notices" => Notifications!FeedTypeOK
    /\ part = "mailer" => Notifications!MailTypeOK
    /\ part = "transfer" => Collaboration!TransferTypeOK
    /\ part = "invite" => Collaboration!InviteTypeOK
    /\ part = "approval" => Approvals!IntentTypeOK
    /\ part = "risk" => Approvals!RiskTypeOK
    /\ part = "token" => AccessGrants!TokenTypeOK
    /\ part = "session" => AccessGrants!SessionTypeOK
    /\ part = "config" => AccessGrants!ConfigTypeOK
    /\ part = "offline" => Offline!TypeOK
    /\ part = "page" => PaymentFrontend!PageTypeOK
    /\ part = "stream" => PaymentFrontend!StreamTypeOK

\* Nothing is done twice: an effect under a checkpoint, an email under its
\* dedupe key, a webhook in either receiver, unless a run outlives its claim or
\* a fault of the storage hides that it was done.
NothingTwice ==
    /\ part = "checkpoint" => OnceOnly!EffectAtMostOnce
    /\ part = "queue" => Queue!OneDeliveryPerKey /\ Queue!NoDoubleSendWithoutFault
    /\ part = "replay" => OnceOnly!DuplicateStopped
    /\ part = "process" => OnceOnly!HandledOnce

\* What a caller is told happened: a replayed result belongs to an effect, a
\* duplicate was handled, a failure spent its retries, a bounce stays visible,
\* the feed says what the invoice is and no preference hides a mandatory
\* notice.
AnswersAreTrue ==
    /\ part = "checkpoint" => OnceOnly!ReplayIsReal
    /\ part = "process" => OnceOnly!ReplayedWasHandled
    /\ part = "mailer" => Notifications!RetriesSpent /\ Notifications!ProblemsStay
    /\ part = "notices" => Notifications!FeedMatchesStatus /\ Notifications!MandatoryNeverSuppressed

\* What is over stays over: outcomes, deliveries, notices, transfers,
\* invitations and revocations are never reopened, a risk score falls only with
\* time, and no operation leaves the browser undone.
EndsAreFinal ==
    [][/\ part = "checkpoint" => OnceOnly!OutcomeIsFinal
       /\ part = "queue" => Queue!TerminalIsFinal
       /\ part = "notices" => Notifications!NotifiedOnce
       /\ part = "transfer" => Collaboration!OwnerHandsOn
       /\ part = "invite" => Collaboration!NoLateJoin
       /\ part = "risk" => Approvals!FallsOnlyWithTime
       /\ part = "token" => AccessGrants!RevokedForGood
       /\ part = "offline" => Offline!NotDropped]_vars

\* Powers are used as they were granted: one pending transfer, actions once and
\* with their second approval, tokens once, sessions within their time, flags
\* changed only by who saw them; and every end is recorded once, every limit
\* kept though histories are pruned.
OnlyWithConsent ==
    /\ part = "transfer" => Collaboration!OnePendingTransfer
    /\ part = "approval" => Approvals!RunsOnceWithConsent /\ Approvals!OneReceiptPerEnd
    /\ part = "token" => AccessGrants!UsedOnce /\ AccessGrants!LedgerBounded
    /\ part = "session" => AccessGrants!AllowedInSession /\ AccessGrants!ClosedOnce
    /\ part = "config" => AccessGrants!EvidenceExplainsConfig /\ AccessGrants!NoBlindOverwrite
    /\ part = "invite" => Collaboration!WithinRateLimit
    /\ part = "risk" => Approvals!DroppingIsLossless

\* In the browser an offline operation is applied once, the page shows its own
\* invoice, says paid only of a paid one and polls while it waits, and a
\* payment is announced once, by a stream somebody asked for.
BrowserIsRight ==
    /\ part = "offline" => Offline!AppliedOnce
    /\ part = "page" => PaymentFrontend!ShowsItsInvoice /\ PaymentFrontend!PaidIsTrue /\ PaymentFrontend!WaitsAreWatched
    /\ part = "stream" => PaymentFrontend!AnnouncedOnce /\ PaymentFrontend!NothingListensUnasked

\* The inductive invariants of the components whose properties are proved.
ServicesInv ==
    /\ part = "checkpoint" => OnceOnly!CheckpointInv
    /\ part = "queue" => Queue!QueueInv
    /\ part = "replay" => OnceOnly!ReplayInv
    /\ part = "process" => OnceOnly!ProcessInv
    /\ part = "notices" => Notifications!FeedInv
    /\ part = "mailer" => Notifications!MailInv
    /\ part = "transfer" => Collaboration!TransferInv
    /\ part = "invite" => Collaboration!InviteInv
    /\ part = "risk" => Approvals!RiskInv
    /\ part = "token" => AccessGrants!TokenInv
    /\ part = "offline" => Offline!OfflineInv
=============================================================================
