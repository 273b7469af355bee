--------------------------- MODULE Notifications ----------------------------
(***************************************************************************)
(* What sellers and payers are told: the notification feed with its        *)
(* preferences, and the delivery of single emails.  Two machines that      *)
(* share no state.                                                         *)
(***************************************************************************)
EXTENDS Integers, Sequences, FiniteSets, Functions

(***************************************************************************)
(* The notification feed of sellers (notifications/notification-service.ts) *)
(* and the routing of a notification by its recipient's preferences         *)
(* (notification-preference.ts).  The invoice routes call                   *)
(* syncInvoiceNotifications after every read or change of an invoice, so    *)
(* the same event is emitted many times.                                    *)
(*                                                                         *)
(* A notification is its dedup key: the invoice, the type and, for a        *)
(* rejected payment or a reminder, the transaction or the day.  feed maps   *)
(* the keys in the feed to whether they were read; audit is the set of      *)
(* routing decisions.                                                       *)
(***************************************************************************)

CONSTANTS
    Owner,    \* the seller of each invoice
    Details,  \* transactions that were rejected, days of a reminder
    None      \* the detail of an event that needs none

VARIABLES status, prefs, feed, audit

feedVars == <<status, prefs, feed, audit>>

Invoices == DOMAIN Owner
Sellers == Range(Owner)

MandatoryTypes == {"invoice.paid", "invoice.expired", "invoice.cancelled", "payment.rejected"}

Urgency(type) == IF type \in MandatoryTypes THEN "mandatory" ELSE "optional"

Category(type) ==
    IF type \in {"invoice.paid", "invoice.expired", "invoice.cancelled"} THEN "invoice_lifecycle"
    ELSE IF type = "payment.rejected" THEN "payment_recovery"
    ELSE IF type = "invoice.reminder" THEN "payment_reminder"
    ELSE "marketing_digest"

Categories == {"invoice_lifecycle", "payment_reminder"}

DefaultPreferences == [in_app |-> TRUE, email |-> TRUE, off |-> {}]

\* evaluateNotificationRouting
Routing(type, p) ==
    LET allowed == Category(type) \notin p.off
        channels == {c \in {"in_app", "email"} : p[c]}
    IN IF Urgency(type) = "mandatory"
       THEN [deliver |-> TRUE, channels |-> channels \cup {"in_app"},
             reason |-> IF allowed /\ p.in_app THEN "PREFERENCE_ACCEPTED" ELSE "MANDATORY_OVERRIDE"]
       ELSE IF ~allowed \/ channels = {}
       THEN [deliver |-> FALSE, channels |-> {}, reason |-> "SUPPRESSED_BY_PREFERENCE"]
       ELSE [deliver |-> TRUE, channels |-> channels, reason |-> "PREFERENCE_ACCEPTED"]

FeedInit ==
    /\ status = [i \in Invoices |-> "PENDING"]
    /\ prefs = [s \in Sellers |-> DefaultPreferences]
    /\ feed = <<>>
    /\ audit = {}

\* emit: decide, write the audit record, insert unless suppressed or known.
\* A known key returns the stored notification untouched.
Emit(i, type, detail) ==
    LET key == <<i, type, detail>>
        route == Routing(type, prefs[Owner[i]])
    IN /\ audit' = audit \cup {[type |-> type, to |-> Owner[i], reason |-> route.reason]}
       /\ feed' = IF route.deliver /\ key \notin DOMAIN feed
                  THEN [k \in DOMAIN feed \cup {key} |-> IF k = key THEN "unread" ELSE feed[k]]
                  ELSE feed

\* The lifecycle of the invoice, as the rest of the server decides it.
Settle(i) ==
    /\ status[i] = "PENDING"
    /\ \E s \in {"PAID", "EXPIRED", "CANCELLED"} : status' = [status EXCEPT ![i] = s]
    /\ UNCHANGED <<prefs, feed, audit>>

StatusType(s) ==
    IF s = "PAID" THEN "invoice.paid" ELSE IF s = "EXPIRED" THEN "invoice.expired"
    ELSE "invoice.cancelled"

syncInvoiceNotifications(i) ==
    /\ status[i] # "PENDING"
    /\ Emit(i, StatusType(status[i]), None)
    /\ UNCHANGED <<status, prefs>>

\* Only a rejection the payer can put right is worth a notification.
notifyPaymentRejected(i, detail) ==
    /\ Emit(i, "payment.rejected", detail)
    /\ UNCHANGED <<status, prefs>>

notifyInvoiceReminder(i, detail) ==
    /\ Emit(i, "invoice.reminder", detail)
    /\ UNCHANGED <<status, prefs>>

savePreferences(s) ==
    /\ \E c \in {"in_app", "email"}, on \in BOOLEAN, off \in SUBSET Categories :
          prefs' = [prefs EXCEPT ![s][c] = on, ![s].off = off]
    /\ UNCHANGED <<status, feed, audit>>

ForRecipient(s) == {k \in DOMAIN feed : Owner[k[1]] = s}

\* markRead finds a notification only for its own recipient.
markRead(s, k) ==
    /\ k \in ForRecipient(s)
    /\ feed' = [feed EXCEPT ![k] = "read"]
    /\ UNCHANGED <<status, prefs, audit>>

markAllRead(s) ==
    /\ feed' = [k \in DOMAIN feed |-> IF k \in ForRecipient(s) THEN "read" ELSE feed[k]]
    /\ UNCHANGED <<status, prefs, audit>>

FeedNext ==
    \/ \E i \in Invoices :
          \/ Settle(i) \/ syncInvoiceNotifications(i)
          \/ \E d \in Details : notifyPaymentRejected(i, d) \/ notifyInvoiceReminder(i, d)
    \/ \E s \in Sellers :
          savePreferences(s) \/ markAllRead(s) \/ \E k \in DOMAIN feed : markRead(s, k)

-----------------------------------------------------------------------------
FeedTypeOK ==
    /\ status \in [Invoices -> {"PENDING", "PAID", "EXPIRED", "CANCELLED"}]
    /\ prefs \in [Sellers -> [in_app : BOOLEAN, email : BOOLEAN, off : SUBSET Categories]]
    /\ Range(feed) \subseteq {"read", "unread"}

\* Whatever a seller opted out of, and whenever, no mandatory event was ever
\* suppressed, and an override is on record.
MandatoryNeverSuppressed ==
    /\ \A a \in audit : a.type \in MandatoryTypes => a.reason # "SUPPRESSED_BY_PREFERENCE"
    /\ \A k \in DOMAIN feed : \E a \in audit :
          a.type = k[2] /\ a.to = Owner[k[1]] /\ a.reason # "SUPPRESSED_BY_PREFERENCE"

\* "A critical event notifies exactly once": emitting it again neither drops
\* the notification nor makes a read one unread.
NotifiedOnce ==
    \A k \in DOMAIN feed : k \in DOMAIN feed' /\ (feed[k] = "read" => feed'[k] = "read")

\* The feed tells at most one end of an invoice: the lifecycle notification in
\* it is the one of the invoice's status.
FeedMatchesStatus ==
    \A k \in DOMAIN feed : Category(k[2]) = "invoice_lifecycle" => k[2] = StatusType(status[k[1]])

\* The inductive invariant behind them: a lifecycle notification is in the feed only
\* of an invoice that has left PENDING for good.
FeedInv ==
    /\ status \in [Invoices -> {"PENDING", "PAID", "EXPIRED", "CANCELLED"}]
    /\ \A k \in DOMAIN feed : Category(k[2]) = "invoice_lifecycle" =>
          k[1] \in Invoices /\ status[k[1]] # "PENDING"
    /\ FeedMatchesStatus /\ MandatoryNeverSuppressed

-----------------------------------------------------------------------------
(***************************************************************************)
(* EmailDeliveryService without a dedupe key (notifications/                *)
(* email-delivery.ts) and its routes (routes/email.routes.ts): one logical  *)
(* send with bounded retries, the bounded log of deliveries, and the        *)
(* bounces and complaints a provider reports later, once, twice or in       *)
(* either order.  With a key the send runs under SideEffectCheckpoint.      *)
(*                                                                         *)
(* log is the record Map in order of creation.  A provider's error is the   *)
(* set of phrases and codes that classifyProviderError looks for in it.     *)
(* tries and told are history: transport calls per message, and the         *)
(* messages whose bounce or complaint was acknowledged with 200.            *)
(***************************************************************************)

CONSTANTS
    Mails,       \* calls of deliver
    MaxTries,    \* maxAttempts
    LogCapacity  \* maxCapacity of the log

VARIABLES mail, log, tries, told

mailVars == <<mail, log, tries, told>>

Signals == {"auth", "quota", "config", "recipient", "smtp permanent", "5xx or timeout"}

\* classifyProviderError: the first family of signals that matches.  A code
\* such as 550 looks like a 5xx and is taken for permanent before that.
Classify(error) ==
    IF "auth" \in error THEN "auth"
    ELSE IF "quota" \in error THEN "quota"
    ELSE IF "config" \in error THEN "config"
    ELSE IF "recipient" \in error THEN "invalid_recipient"
    ELSE IF "smtp permanent" \in error THEN "permanent"
    ELSE IF "5xx or timeout" \in error THEN "transient"
    ELSE "permanent"

Retryable == {"quota", "transient"}

MailInit ==
    /\ mail = [m \in Mails |-> [pc |-> "idle", category |-> "none"]]
    /\ log = <<>>
    /\ tries = [m \in Mails |-> 0]
    /\ told = {}

Position(m) == {i \in 1..Len(log) : log[i].id = m}

\* MemoryEmailDeliveryStore.record: at capacity the oldest record goes first,
\* for an update too; an updated record keeps its place by creation time.
Recorded(rec) ==
    LET kept == IF Len(log) >= LogCapacity THEN Tail(log) ELSE log
        place == {i \in 1..Len(kept) : kept[i].id = rec.id}
    IN IF place # {} THEN [i \in 1..Len(kept) |-> IF i \in place THEN rec ELSE kept[i]]
       ELSE IF Position(rec.id) # {} THEN <<rec>> \o kept
       ELSE Append(kept, rec)

\* An invalid address is recorded as failed without a transport call.
Deliver(m) ==
    /\ mail[m].pc = "idle"
    /\ \/ mail' = [mail EXCEPT ![m].pc = "send"] /\ UNCHANGED log
       \/ /\ mail' = [mail EXCEPT ![m] = [pc |-> "failed", category |-> "invalid_recipient"]]
          /\ log' = Recorded([id |-> m, status |-> "failed", category |-> "invalid_recipient"])
    /\ UNCHANGED <<tries, told>>

\* The provider takes the message; its answer is still on the way.
Accept(m) ==
    /\ mail[m].pc = "send"
    /\ tries' = [tries EXCEPT ![m] = @ + 1]
    /\ mail' = [mail EXCEPT ![m].pc = "accepted"]
    /\ UNCHANGED <<log, told>>

\* The transport throws: tried again, or given up and recorded as failed.
Refuse(m) ==
    /\ mail[m].pc = "send"
    /\ tries' = [tries EXCEPT ![m] = @ + 1]
    /\ \E error \in SUBSET Signals :
          LET category == Classify(error) IN
          IF category \in Retryable /\ tries[m] + 1 < MaxTries
          THEN UNCHANGED <<mail, log>>
          ELSE /\ mail' = [mail EXCEPT ![m] = [pc |-> "failed", category |-> category]]
               /\ log' = Recorded([id |-> m, status |-> "failed", category |-> category])
    /\ UNCHANGED told

RecordSent(m) ==
    /\ mail[m].pc = "accepted"
    /\ mail' = [mail EXCEPT ![m] = [pc |-> "sent", category |-> "none"]]
    /\ log' = Recorded([id |-> m, status |-> "sent", category |-> "none"])
    /\ UNCHANGED <<tries, told>>

\* POST /email/webhook: found by the provider's message id, or 404.  The
\* provider reports only what it accepted.
Webhook(m) ==
    /\ mail[m].pc \in {"accepted", "sent"}
    /\ \/ Position(m) = {} /\ UNCHANGED <<log, told>>
       \/ /\ Position(m) # {}
          /\ \E s \in {"bounced", "complained"} :
                log' = Recorded([id |-> m, status |-> s, category |-> "permanent"])
          /\ told' = told \cup {m}
    /\ UNCHANGED <<mail, tries>>

MailNext == \E m \in Mails : Deliver(m) \/ Accept(m) \/ Refuse(m) \/ RecordSent(m) \/ Webhook(m)

-----------------------------------------------------------------------------
MailTypeOK ==
    /\ \A m \in Mails : mail[m].pc \in {"idle", "send", "accepted", "sent", "failed"}
    /\ Len(log) <= LogCapacity
    /\ tries \in [Mails -> 0..MaxTries]
    /\ told \subseteq Mails

\* A caller hears of a retryable failure only after every attempt was spent,
\* and no message is sent again after an error that cannot clear.
RetriesSpent ==
    \A m \in Mails : mail[m].pc = "failed" /\ mail[m].category \in Retryable => tries[m] = MaxTries

\* The log never takes a problem back: a message whose bounce or complaint was
\* acknowledged is not listed as sent, and no record is listed twice.
ProblemsStay ==
    /\ \A i \in 1..Len(log) : log[i].id \in told => log[i].status \in {"bounced", "complained"}
    /\ \A i, j \in 1..Len(log) : i # j => log[i].id # log[j].id

\* What a deployment configures.
MailConstants == MaxTries \in Nat \ {0} /\ LogCapacity \in Nat \ {0}

\* The inductive invariant behind both: a message enters the log when its delivery is
\* over, and its bounce is acknowledged only after that.
MailCategories == {"none", "auth", "quota", "config", "invalid_recipient", "permanent", "transient"}

LogRecord == [id : Mails, status : {"sent", "failed", "bounced", "complained"}, category : MailCategories]

MailInv ==
    /\ mail \in [Mails -> [pc : {"idle", "send", "accepted", "sent", "failed"}, category : MailCategories]]
    /\ tries \in [Mails -> Nat] /\ log \in Seq(LogRecord) /\ told \subseteq Mails
    /\ \A m \in Mails : /\ mail[m].pc = "idle" => tries[m] = 0
                        /\ mail[m].pc = "send" => tries[m] < MaxTries
                        /\ m \in told => mail[m].pc = "sent"
    /\ \A i \in 1..Len(log) : mail[log[i].id].pc \in {"sent", "failed"}
    /\ RetriesSpent /\ ProblemsStay
=============================================================================
